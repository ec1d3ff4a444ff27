------------------------------ MODULE Catalog ------------------------------
(***************************************************************************)
(* One event from its creation on: the seat plan that eventService lays out *)
(* in a transaction, the counter it publishes in Redis before the COMMIT,   *)
(* and the price that a booking is charged, read through the five-second    *)
(* event cache while other requests move the counter.                       *)
(*                                                                          *)
(* Seats are numbers here: which one a request asks for, the waiting list    *)
(* and idempotency keys are BookingFlow's and Idempotency's.  A price is     *)
(* its multiplier, in tenths of the base price.                              *)
(***************************************************************************)
EXTENDS Integers, FiniteSets

CONSTANTS
    Totals,     \* sizes of hall an admin may ask for
    RowSize,    \* seatsPerRow
    Requests,   \* handlers that can be in flight at once
    None,       \* a missing key, an empty cache, no price yet
    MaxFaults   \* bound: failures, and losses of Redis

ASSUME CatalogAssumption ==
    /\ Totals \subseteq Nat \ {0} /\ RowSize \in Nat \ {0}
    /\ MaxFaults \in Nat
    /\ None \notin Int

VARIABLES
    total,      \* events.total_seats
    stage,      \* what createEvent does next; "published" once it has committed
    section,    \* the section it fills: 1 Floor, 2 Lower, 3 Upper
    made,       \* sectionSeatsCreated
    row,        \* rowIndex
    next,       \* seatNum
    plan,       \* the rows of table seats: section and row by seat number
    free,       \* how many of them are available
    counter,    \* inventory:<event>, None if missing
    cached,     \* available_seats of the cached event, None if not cached
    pc,         \* what a handler awaits next
    avail,      \* available_seats of its event object, until the price is known
    price,      \* amount
    inForce,    \* the prices there have been since it began (observed only)
    faults,     \* faults so far
    intact      \* Redis has not lost its data

creation == <<total, stage, section, made, row, next, plan>>
request  == <<pc, avail, price>>
faultVars == <<faults, intact>>
vars == <<creation, free, counter, cached, request, inForce, faultVars>>

\* seatsPerSection: a third of the hall, rounded up.
Share == (total + 2) \div 3

\* calculatePrice with the tiers 0.5, 0.2, 0.1 and 0 of what is left.
Multiplier(seats) ==
    CASE 10 * seats >= 5 * total -> 10
      [] 10 * seats >= 2 * total -> 13
      [] 10 * seats >= total     -> 16
      [] OTHER                   -> 20

Init ==
    /\ total \in Totals
    /\ stage = "seats" /\ section = 1 /\ made = 0 /\ row = 0 /\ next = 1
    /\ plan = [k \in {} |-> None]
    /\ free = 0 /\ counter = None /\ cached = None
    /\ pc    = [r \in Requests |-> "idle"]
    /\ avail = [r \in Requests |-> None]
    /\ price = [r \in Requests |-> None]
    /\ inForce = [r \in Requests |-> {}]
    /\ faults = 0 /\ intact = TRUE

Fault == faults < MaxFaults /\ faults' = faults + 1

-----------------------------------------------------------------------------
(* createEvent.                                                             *)

RowIsOpen == made < Share /\ next <= total

Least(m, n) == IF m <= n THEN m ELSE n

\* Mutant: the last row is not cut off at the end of the hall.
RowLengthUncut == Least(RowSize, Share - made)

\* seatsInThisRow: the row is full, or the section or the hall ends in it.
RowLength == Least(RowSize, Least(Share - made, total - next + 1))

\* The while loop once: a row of seats.
FillRow ==
    /\ stage = "seats" /\ RowIsOpen
    /\ plan' = [k \in 1 .. next + RowLength - 1 |->
                 IF k < next THEN plan[k] ELSE [section |-> section, row |-> row]]
    /\ next' = next + RowLength
    /\ made' = made + RowLength
    /\ row'  = row + 1
    /\ UNCHANGED <<total, stage, section, free, counter, cached, request, faultVars>>

\* Mutant: the number of seats in the section is not reset.
NextSectionKeepsMade ==
    /\ stage = "seats" /\ ~RowIsOpen
    /\ IF section < 3
       THEN section' = section + 1 /\ row' = 0 /\ UNCHANGED <<stage, made>>
       ELSE stage' = "counter" /\ UNCHANGED <<section, made, row>>
    /\ UNCHANGED <<total, next, plan, free, counter, cached, request, faultVars>>

\* The for loop goes on, or is through.
NextSection ==
    /\ stage = "seats" /\ ~RowIsOpen
    /\ IF section < 3
       THEN section' = section + 1 /\ made' = 0 /\ row' = 0 /\ UNCHANGED stage
       ELSE stage' = "counter" /\ UNCHANGED <<section, made, row>>
    /\ UNCHANGED <<total, next, plan, free, counter, cached, request, faultVars>>

\* Mutant: nothing is published in Redis.
PublishNoCounter ==
    /\ stage = "counter"
    /\ stage' = "commit" /\ UNCHANGED counter
    /\ UNCHANGED <<total, section, made, row, next, plan, free, cached, request, faultVars>>

\* redis.set, inside the transaction and before its COMMIT.
PublishCounter ==
    /\ stage = "counter"
    /\ stage' = "commit" /\ counter' = total
    /\ UNCHANGED <<total, section, made, row, next, plan, free, cached, request, faultVars>>

\* COMMIT: the event is there, with its seats.
Publish ==
    /\ stage = "commit"
    /\ stage' = "published" /\ free' = next - 1
    /\ UNCHANGED <<total, section, made, row, next, plan, counter, cached, request, faultVars>>

\* A statement, the redis.set or the COMMIT fails: ROLLBACK.  A counter that has
\* been set stays, for an event nobody can name.
CreationFails ==
    /\ stage \in {"seats", "counter", "commit"}
    /\ stage' = "failed" /\ plan' = [k \in {} |-> None]
    /\ Fault
    /\ UNCHANGED <<total, section, made, row, next, free, counter, cached, request, intact>>

-----------------------------------------------------------------------------
(* Requests for the event once it is there: createBooking with the price.   *)

At(r, label) == stage = "published" /\ pc[r] = label

Goto(r, label) == pc' = [pc EXCEPT ![r] = label]

Return(r) ==
    /\ Goto(r, "idle")
    /\ avail' = [avail EXCEPT ![r] = None]
    /\ price' = [price EXCEPT ![r] = None]

\* getEventCached: a hit has the seats of up to five seconds ago.
Ask(r) ==
    /\ At(r, "idle")
    /\ Goto(r, IF cached = None THEN "query" ELSE "refresh")
    /\ avail' = [avail EXCEPT ![r] = cached]
    /\ UNCHANGED <<creation, free, counter, cached, price, faultVars>>

\* getEventById: the event with its available seats counted.
QueryEvent(r) ==
    /\ At(r, "query")
    /\ Goto(r, "fill")
    /\ avail' = [avail EXCEPT ![r] = free]
    /\ UNCHANGED <<creation, free, counter, cached, price, faultVars>>

\* Mutant: a cached event is used as it is.
LiveSeatsOnMiss(r) == IF pc[r] = "refresh" \/ counter = None THEN avail[r] ELSE counter

\* withLiveInventory: a counter in Redis overrides the seats read or cached.
LiveSeats(r) == IF counter = None THEN avail[r] ELSE counter

\* A missed event enters the cache with its live seats; the price follows.
ReadCounter(r) ==
    /\ At(r, "fill") \/ At(r, "refresh")
    /\ Goto(r, "take")
    /\ avail' = [avail EXCEPT ![r] = None]
    /\ price' = [price EXCEPT ![r] = Multiplier(LiveSeats(r))]
    /\ cached' = IF pc[r] = "fill" THEN LiveSeats(r) ELSE cached
    /\ UNCHANGED <<creation, free, counter, faultVars>>

\* atomicDecrement: a seat, nothing left (the waiting list), or no counter.
Decrement(r) ==
    /\ At(r, "take")
    /\ \/ /\ counter # None /\ counter > 0
          /\ counter' = counter - 1
          /\ Goto(r, "book") /\ UNCHANGED <<avail, price>>
       \/ /\ counter = 0
          /\ Return(r) /\ UNCHANGED counter
       \/ /\ counter = None
          /\ Goto(r, "count") /\ UNCHANGED <<avail, price, counter>>
    /\ UNCHANGED <<creation, free, cached, faultVars>>

\* The booking is inserted with its amount; one seat fewer is available.
Book(r) ==
    /\ At(r, "book") /\ free > 0
    /\ free' = free - 1
    /\ Return(r)
    /\ UNCHANGED <<creation, counter, cached, faultVars>>

\* The seat asked for is taken or locked.
BookFails(r) ==
    /\ At(r, "book")
    /\ Goto(r, "give back")
    /\ UNCHANGED <<creation, free, counter, cached, avail, price, faultVars>>

\* INCR: after a failed booking, or when a freed seat is put on sale again.
GiveBack(r) ==
    /\ At(r, "give back")
    /\ counter' = (IF counter = None THEN 0 ELSE counter) + 1
    /\ Return(r)
    /\ UNCHANGED <<creation, free, cached, faultVars>>

\* initRedisInventory: SELECT COUNT, then SET.
CountSeats(r) ==
    /\ At(r, "count")
    /\ Goto(r, "set")
    /\ avail' = [avail EXCEPT ![r] = free]
    /\ UNCHANGED <<creation, free, counter, cached, price, faultVars>>

SetCounter(r) ==
    /\ At(r, "set")
    /\ counter' = avail[r]
    /\ Return(r)
    /\ UNCHANGED <<creation, free, cached, faultVars>>

\* A booking ends by cancellation, failed payment or expiry.
FreeSeat(r) ==
    /\ At(r, "idle") /\ free < total
    /\ free' = free + 1
    /\ Goto(r, "give back")
    /\ UNCHANGED <<creation, counter, cached, avail, price, faultVars>>

\* Five seconds have passed.
CacheLapses ==
    /\ cached # None
    /\ cached' = None
    /\ UNCHANGED <<creation, free, counter, request, faultVars>>

LoseRedis ==
    /\ stage = "published" /\ Fault
    /\ counter' = None /\ intact' = FALSE
    /\ UNCHANGED <<creation, free, cached, request>>

Create == FillRow \/ NextSection \/ PublishCounter \/ Publish \/ CreationFails

Handle(r) ==
    \/ Ask(r) \/ QueryEvent(r) \/ ReadCounter(r) \/ Decrement(r)
    \/ Book(r) \/ BookFails(r) \/ GiveBack(r)
    \/ CountSeats(r) \/ SetCounter(r) \/ FreeSeat(r)

PriceInForce == Multiplier(IF counter = None THEN free ELSE counter)

\* What a request has seen of the price since it began; changes nothing else.
Observe ==
    inForce' = [r \in Requests |->
        IF pc'[r] = "idle" THEN {} ELSE inForce[r] \cup {PriceInForce'}]

Next ==
    /\ Create \/ (\E r \in Requests : Handle(r)) \/ CacheLapses \/ LoseRedis
    /\ Observe

Spec == Init /\ [][Next]_vars

-----------------------------------------------------------------------------
(* Properties.                                                              *)

Prices == {10, 13, 16, 20}

CatalogTypeOK ==
    /\ total \in Totals
    /\ stage \in {"seats", "counter", "commit", "published", "failed"}
    /\ section \in 1..3 /\ made \in 0..Share /\ row \in Nat /\ next \in 1 .. total + 1
    /\ free \in 0..total
    /\ counter \in Nat \cup {None} /\ cached \in Nat \cup {None}
    /\ pc \in [Requests -> {"idle", "query", "fill", "refresh", "take", "book", "give back", "count", "set"}]
    /\ avail \in [Requests -> Nat \cup {None}]
    /\ price \in [Requests -> Prices \cup {None}]
    /\ inForce \in [Requests -> SUBSET Prices]
    /\ faults \in 0..MaxFaults /\ intact \in BOOLEAN

\* Where the numbering puts seat k: the k-th of the hall is in the section of its
\* third, and in the row of its place there.
InPlace(k) ==
    LET place == k - (plan[k].section - 1) * Share
    IN  /\ plan[k].section \in 1..3
        /\ place \in 1..Share
        /\ plan[k].row * RowSize < place /\ place <= (plan[k].row + 1) * RowSize

\* A published event has exactly the seats that were asked for, each once and in
\* its place, also when the hall does not divide into sections and rows.
PlanIsComplete ==
    stage = "published" => DOMAIN plan = 1..total /\ \A k \in 1..total : InPlace(k)

\* No request for a published event finds it without a counter, and has to wait
\* until it is counted, unless Redis has lost its data.
CounterFromTheStart == stage = "published" /\ intact => counter # None

\* "Event details are now cached in memory for 5 seconds, and the seat count still
\* comes live from Redis" (README.md): whatever the cache holds and however the
\* counter moves, the price of a booking is one that was in force while its
\* request was served.
ChargedInForce ==
    intact => \A r \in Requests : pc[r] \in {"take", "book"} => price[r] \in inForce[r]
=============================================================================

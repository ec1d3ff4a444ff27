---------------------------- MODULE BookingFlow ----------------------------
(***************************************************************************)
(* The booking, payment and expiry handlers across PostgreSQL (SeatLedger's  *)
(* transactions, atomic here) and Redis: an event's seat counter and waiting *)
(* list, and a seat's offer count.  A handler is a sequence of awaits; every *)
(* Redis command and every transaction is one step, other handlers run in    *)
(* between, and a handler may die at any of them.                            *)
(*                                                                          *)
(* A booking request names an event and a seat, and nothing compares the    *)
(* two: counter, waiting list and bookings.event_id follow the event that   *)
(* is named, the seat's row is locked by its own id.                        *)
(*                                                                          *)
(* Left to other modules: idempotency keys, the reconciler, row locks.      *)
(* Left out: the reservation:<id> keys, which nothing reads, broadcasts,    *)
(* prices, and the offer count's one-hour lifetime.                         *)
(***************************************************************************)
EXTENDS SeatLedger, Integers, FiniteSets

CONSTANTS
    Events,     \* published events
    EventOf,    \* seats.event_id
    Procs,      \* handlers and worker loops that can be in flight at once
    MaxOffers,  \* config.waitlist.maxOffers
    MaxSkips,   \* MAX_OFFLINE_SKIPS
    MaxClock,   \* bound: joins after this many share a millisecond
    MaxFaults   \* bound: crashes, failed checks, unknown commits, Redis losses

ASSUME FlowAssumption ==
    /\ IsFiniteSet(Seats) /\ IsFiniteSet(Procs)
    /\ EventOf \in [Seats -> Events] /\ Nil \notin Events
    /\ MaxOffers \in Nat \ {0}
    /\ MaxSkips  \in Nat \ {0}
    /\ MaxClock  \in Nat \ {0}
    /\ MaxFaults \in Nat

VARIABLES
    bevent,     \* bookings.event_id: the event the request named
    counter,    \* inventory:<event>; 0 while the key is missing
    hasCounter, \* the key exists
    waiting,    \* waitlist:<event>: join time of a user, 0 if not in it
    offers,     \* offers:<seat>, 0 if missing
    clock,      \* Date.now() of the latest join
    pc,         \* what a handler awaits next
    pevent,     \* the event it acts for
    puser,      \* the user it acts for, or has popped from the waiting list
    pseat,      \* its seat
    pscore,     \* join time of the popped user
    tries,      \* waiters popped by this release
    skipped,    \* join times of the users this release found offline, 0 if not
    pcount,     \* seats counted by initRedisInventory
    faults,     \* faults so far
    intact      \* Redis has not lost its data

tableVars == <<ledgerVars, bevent>>
redisVars == <<counter, hasCounter, waiting, offers, clock>>
localVars == <<pc, pevent, puser, pseat, pscore, tries, skipped, pcount>>
faultVars == <<faults, intact>>
vars == <<tableVars, redisVars, localVars, faultVars>>

ReleasePcs == {"offer", "pop", "check", "hold", "clear", "sell", "forget"}
PCs == ReleasePcs \cup {"idle", "reserve", "restore", "leave", "join", "count", "set", "requeue", "paid"}

NoSkips == [u \in Users |-> 0]
Nobody  == [e \in Events |-> NoSkips]

SeatsOf(e) == {s \in Seats : EventOf[s] = e}

Init ==
    /\ LedgerInit
    /\ bevent  = [b \in Bookings |-> Nil]
    /\ counter = [e \in Events |-> Cardinality(SeatsOf(e))]
    /\ hasCounter = [e \in Events |-> TRUE]
    /\ waiting = Nobody
    /\ offers  = [s \in Seats |-> 0]
    /\ clock   = 0
    /\ pc      = [p \in Procs |-> "idle"]
    /\ pevent  = [p \in Procs |-> Nil]
    /\ puser   = [p \in Procs |-> Nil]
    /\ pseat   = [p \in Procs |-> Nil]
    /\ pscore  = [p \in Procs |-> 0]
    /\ tries   = [p \in Procs |-> 0]
    /\ skipped = [p \in Procs |-> NoSkips]
    /\ pcount  = [p \in Procs |-> 0]
    /\ faults  = 0 /\ intact = TRUE

-----------------------------------------------------------------------------
(* Control of a handler.                                                    *)

At(p, label) == pc[p] = label

Goto(p, label) ==
    /\ pc' = [pc EXCEPT ![p] = label]
    /\ UNCHANGED <<pevent, puser, pseat, pscore, tries, skipped, pcount>>

\* The handler starts: it awaits label, for event e, user u and seat s.
Start(p, label, e, u, s) ==
    /\ At(p, "idle")
    /\ pc'     = [pc EXCEPT ![p] = label]
    /\ pevent' = [pevent EXCEPT ![p] = e]
    /\ puser'  = [puser EXCEPT ![p] = u]
    /\ pseat'  = [pseat EXCEPT ![p] = s]
    /\ UNCHANGED <<pscore, tries, skipped, pcount>>

Return(p) ==
    /\ pc'      = [pc EXCEPT ![p] = "idle"]
    /\ pevent'  = [pevent EXCEPT ![p] = Nil]
    /\ puser'   = [puser EXCEPT ![p] = Nil]
    /\ pseat'   = [pseat EXCEPT ![p] = Nil]
    /\ pscore'  = [pscore EXCEPT ![p] = 0]
    /\ tries'   = [tries EXCEPT ![p] = 0]
    /\ skipped' = [skipped EXCEPT ![p] = NoSkips]
    /\ pcount'  = [pcount EXCEPT ![p] = 0]

\* The end of a release: the finally block, when there is something for it.
EndRelease(p) == IF skipped[p] = NoSkips THEN Return(p) ELSE Goto(p, "requeue")

\* INCR: a missing key counts as 0.
Increment(e) ==
    /\ counter' = [counter EXCEPT ![e] = @ + 1]
    /\ hasCounter' = [hasCounter EXCEPT ![e] = TRUE]

Fault ==
    /\ faults < MaxFaults
    /\ faults' = faults + 1

-----------------------------------------------------------------------------
(* createBooking.                                                           *)

\* Mutant: DECR without looking at the counter.
CanTakeUnchecked(e) == hasCounter[e]

\* DECR_IF_POSITIVE finds a seat to take.
CanTake(e) == hasCounter[e] /\ counter[e] > 0

\* A request of u for event e and seat s, which may be another event's,
\* decrements e's counter and goes on to the transaction, or finds it at zero
\* (join e's waiting list) or missing.
TakeSeat(p, e, u, s) ==
    /\ CanTake(e)
    /\ Start(p, "reserve", e, u, s)
    /\ counter' = [counter EXCEPT ![e] = @ - 1]
    /\ UNCHANGED <<tableVars, hasCounter, waiting, offers, clock, faultVars>>

FindSoldOut(p, e, u) ==
    /\ hasCounter[e] /\ ~CanTake(e)
    /\ Start(p, "join", e, u, Nil)
    /\ UNCHANGED <<tableVars, redisVars, faultVars>>

FindNoCounter(p, e) ==
    /\ ~hasCounter[e]
    /\ Start(p, "count", e, Nil, Nil)
    /\ UNCHANGED <<tableVars, redisVars, faultVars>>

\* JOIN_WAITLIST: ZADD NX with the current time.
Join(p) ==
    /\ At(p, "join")
    /\ IF waiting[pevent[p]][puser[p]] = 0
       THEN /\ clock' = IF clock < MaxClock THEN clock + 1 ELSE clock
            /\ waiting' = [waiting EXCEPT ![pevent[p]][puser[p]] = clock']
       ELSE UNCHANGED <<clock, waiting>>
    /\ Return(p)
    /\ UNCHANGED <<tableVars, counter, hasCounter, offers, faultVars>>

\* initRedisInventory counts in the database, then sets the key; the client is
\* told to retry (503).
CountSeats(p) ==
    /\ At(p, "count")
    /\ pc' = [pc EXCEPT ![p] = "set"]
    /\ pcount' = [pcount EXCEPT ![p] = Cardinality(AvailableSeats \cap SeatsOf(pevent[p]))]
    /\ UNCHANGED <<tableVars, redisVars, pevent, puser, pseat, pscore, tries, skipped, faultVars>>

SetCounter(p) ==
    /\ At(p, "set")
    /\ counter' = [counter EXCEPT ![pevent[p]] = pcount[p]]
    /\ hasCounter' = [hasCounter EXCEPT ![pevent[p]] = TRUE]
    /\ Return(p)
    /\ UNCHANGED <<tableVars, waiting, offers, clock, faultVars>>

\* _createBookingInTransaction with the event of the request: that it is the
\* seat's is not looked at.
Insert(p, b) ==
    /\ Reserve(b, puser[p], pseat[p])
    /\ bevent' = [bevent EXCEPT ![b] = pevent[p]]

ReserveSeat(p, b) ==
    /\ At(p, "reserve")
    /\ Insert(p, b)
    /\ Goto(p, "leave")
    /\ UNCHANGED <<redisVars, faultVars>>

\* The seat is taken, its row is locked, or the database fails.
ReserveFails(p) ==
    /\ At(p, "reserve")
    /\ Goto(p, "restore")
    /\ UNCHANGED <<tableVars, redisVars, faultVars>>

\* The connection drops at COMMIT: the booking is there, the handler thinks
\* it is not.
ReserveUnknown(p, b) ==
    /\ At(p, "reserve")
    /\ Insert(p, b)
    /\ Goto(p, "restore")
    /\ Fault /\ UNCHANGED <<redisVars, intact>>

\* Mutant: the catch block forgets the counter.
RestoreNothing(p) ==
    /\ At(p, "restore")
    /\ Return(p)
    /\ UNCHANGED <<tableVars, redisVars, faultVars>>

\* The catch block puts the seat back into the counter.
Restore(p) ==
    /\ At(p, "restore")
    /\ Increment(pevent[p])
    /\ Return(p)
    /\ UNCHANGED <<tableVars, waiting, offers, clock, faultVars>>

\* ZREM: with a seat in hand the user gives up the place in the queue.
Leave(p) ==
    /\ At(p, "leave")
    /\ waiting' = [waiting EXCEPT ![pevent[p]][puser[p]] = 0]
    /\ Return(p)
    /\ UNCHANGED <<tableVars, counter, hasCounter, offers, clock, faultVars>>

-----------------------------------------------------------------------------
(* cancelBooking, simulatePayment, the expiry worker: each frees or sells a *)
(* seat in one transaction.                                                 *)

CancelBooking(p, b, u) ==
    /\ Cancel(b, u)
    /\ Start(p, "offer", bevent[b], Nil, bseat[b])
    /\ UNCHANGED <<bevent, redisVars, faultVars>>

FailPayment(p, b) ==
    /\ Compensate(b)
    /\ Start(p, "offer", bevent[b], Nil, bseat[b])
    /\ UNCHANGED <<bevent, redisVars, faultVars>>

\* The hold's time can run out at any moment; the worker's scan is not a step
\* of its own because the transaction looks at the booking again.
ExpireHold(p, b) ==
    /\ Expire(b)
    /\ Start(p, "offer", bevent[b], Nil, bseat[b])
    /\ UNCHANGED <<bevent, redisVars, faultVars>>

PayBooking(p, b) ==
    /\ Confirm(b)
    /\ Start(p, "paid", bevent[b], Nil, bseat[b])
    /\ UNCHANGED <<bevent, redisVars, faultVars>>

\* After the payment the seat's offer count is deleted.
DeleteOffers(p) ==
    /\ At(p, "paid")
    /\ offers' = [offers EXCEPT ![pseat[p]] = 0]
    /\ Return(p)
    /\ UNCHANGED <<tableVars, counter, hasCounter, waiting, clock, faultVars>>

-----------------------------------------------------------------------------
(* _offerSeatToNextWaiter.                                                  *)

\* INCR offers:<seat>; past the limit the seat goes to the public.
CountOffer(p) ==
    /\ At(p, "offer")
    /\ offers' = [offers EXCEPT ![pseat[p]] = @ + 1]
    /\ Goto(p, IF offers'[pseat[p]] > MaxOffers THEN "clear" ELSE "pop")
    /\ UNCHANGED <<tableVars, counter, hasCounter, waiting, clock, faultVars>>

Waiters(e) == {u \in Users : waiting[e][u] # 0}

\* Mutant: the skip loop has no bound.
MayPopAlways(p) == tries[p] >= 0

MayPop(p) == tries[p] < MaxSkips

\* RELEASE_AND_NOTIFY pops one of the longest-waiting users ...
PopWaiter(p, u) ==
    LET queue == waiting[pevent[p]]
    IN  /\ At(p, "pop") /\ MayPop(p)
        /\ u \in Waiters(pevent[p]) /\ \A v \in Waiters(pevent[p]) : queue[u] <= queue[v]
        /\ pc'      = [pc EXCEPT ![p] = "check"]
        /\ puser'   = [puser EXCEPT ![p] = u]
        /\ pscore'  = [pscore EXCEPT ![p] = queue[u]]
        /\ tries'   = [tries EXCEPT ![p] = IF @ < MaxSkips THEN @ + 1 ELSE @]
        /\ waiting' = [waiting EXCEPT ![pevent[p]][u] = 0]
        /\ UNCHANGED <<tableVars, counter, hasCounter, offers, clock, pevent, pseat, skipped, pcount, faultVars>>

\* ... or, with nobody waiting, puts the seat back on sale at once.
PopNobody(p) ==
    /\ At(p, "pop") /\ MayPop(p)
    /\ Waiters(pevent[p]) = {}
    /\ Increment(pevent[p])
    /\ Goto(p, "forget")
    /\ UNCHANGED <<tableVars, waiting, offers, clock, faultVars>>

GiveUpPopping(p) ==
    /\ At(p, "pop") /\ ~MayPop(p)
    /\ Goto(p, "clear")
    /\ UNCHANGED <<tableVars, redisVars, faultVars>>

\* Mutant: the DEL after an empty queue is missing.
ForgetNothing(p) ==
    /\ At(p, "forget")
    /\ EndRelease(p)
    /\ UNCHANGED <<tableVars, redisVars, faultVars>>

ForgetOffers(p) ==
    /\ At(p, "forget")
    /\ offers' = [offers EXCEPT ![pseat[p]] = 0]
    /\ EndRelease(p)
    /\ UNCHANGED <<tableVars, counter, hasCounter, waiting, clock, faultVars>>

\* isUserOnline says yes ...
FindOnline(p) ==
    /\ At(p, "check")
    /\ Goto(p, "hold")
    /\ UNCHANGED <<tableVars, redisVars, faultVars>>

\* ... or no: the user is remembered with the earliest place and the next one is tried ...
FindOffline(p) ==
    LET u == puser[p]
    IN  /\ At(p, "check")
        /\ skipped' = [skipped EXCEPT ![p][u] = IF @ = 0 THEN pscore[p] ELSE @]
        /\ pc' = [pc EXCEPT ![p] = "pop"]
        /\ UNCHANGED <<tableVars, redisVars, pevent, puser, pseat, pscore, tries, pcount, faultVars>>

\* _offerToWaiter: a short hold for the popped user.
HoldForWaiter(p, b) ==
    /\ At(p, "hold")
    /\ Insert(p, b)
    /\ EndRelease(p)
    /\ UNCHANGED <<redisVars, faultVars>>

\* Somebody else got the seat, or the database fails: back to the public.
HoldFails(p) ==
    /\ At(p, "hold")
    /\ Goto(p, "clear")
    /\ UNCHANGED <<tableVars, redisVars, faultVars>>

\* COMMIT or the SETEX after it fails although the hold is in the database.
HoldUnknown(p, b) ==
    /\ At(p, "hold")
    /\ Insert(p, b)
    /\ Goto(p, "clear")
    /\ Fault /\ UNCHANGED <<redisVars, intact>>

\* _releaseToPublic: DEL offers:<seat>, then INCR the counter.
ClearOffers(p) ==
    /\ At(p, "clear")
    /\ offers' = [offers EXCEPT ![pseat[p]] = 0]
    /\ Goto(p, "sell")
    /\ UNCHANGED <<tableVars, counter, hasCounter, waiting, clock, faultVars>>

Sell(p) ==
    /\ At(p, "sell")
    /\ Increment(pevent[p])
    /\ EndRelease(p)
    /\ UNCHANGED <<tableVars, waiting, offers, clock, faultVars>>

\* Mutant: the skipped user is put back as if joining now.
RequeueAtEnd(p, u) ==
    /\ At(p, "requeue") /\ skipped[p][u] # 0
    /\ waiting' = [waiting EXCEPT ![pevent[p]][u] = IF @ = 0 THEN clock ELSE @]
    /\ IF \A v \in Users \ {u} : skipped[p][v] = 0
       THEN Return(p)
       ELSE /\ skipped' = [skipped EXCEPT ![p][u] = 0]
            /\ UNCHANGED <<pc, pevent, puser, pseat, pscore, tries, pcount>>
    /\ UNCHANGED <<tableVars, counter, hasCounter, offers, clock, faultVars>>

\* The finally block: ZADD NX, one skipped user after the other (in any order).
Requeue(p, u) ==
    /\ At(p, "requeue") /\ skipped[p][u] # 0
    /\ waiting' = [waiting EXCEPT ![pevent[p]][u] = IF @ = 0 THEN skipped[p][u] ELSE @]
    /\ IF \A v \in Users \ {u} : skipped[p][v] = 0
       THEN Return(p)
       ELSE /\ skipped' = [skipped EXCEPT ![p][u] = 0]
            /\ UNCHANGED <<pc, pevent, puser, pseat, pscore, tries, pcount>>
    /\ UNCHANGED <<tableVars, counter, hasCounter, offers, clock, faultVars>>

-----------------------------------------------------------------------------
(* Faults.                                                                  *)

\* The presence check (another server does not answer) or a Redis command of a
\* release rejects, with or without having taken effect: the release ends there,
\* with only its finally block.
ReleaseRejects(p) ==
    /\ pc[p] \in ReleasePcs \ {"hold"}
    /\ EndRelease(p)
    /\ Fault /\ UNCHANGED <<tableVars, redisVars, intact>>

\* The process dies, or a Redis command of any other handler rejects outside its
\* catch block.
Crash(p) ==
    /\ ~At(p, "idle")
    /\ Return(p)
    /\ Fault /\ UNCHANGED <<tableVars, redisVars, intact>>

\* Redis comes back empty.
LoseRedis ==
    /\ counter' = [e \in Events |-> 0] /\ hasCounter' = [e \in Events |-> FALSE]
    /\ waiting' = Nobody
    /\ offers'  = [s \in Seats |-> 0]
    /\ intact'  = FALSE
    /\ Fault /\ UNCHANGED <<tableVars, clock, localVars>>

\* What a handler does once it has started.
Step(p) ==
    \/ Join(p) \/ CountSeats(p) \/ SetCounter(p)
    \/ \E b \in Bookings : ReserveSeat(p, b)
    \/ ReserveFails(p) \/ Restore(p) \/ Leave(p) \/ DeleteOffers(p)
    \/ CountOffer(p) \/ PopNobody(p) \/ GiveUpPopping(p) \/ ForgetOffers(p)
    \/ FindOnline(p) \/ FindOffline(p)
    \/ \E b \in Bookings : HoldForWaiter(p, b)
    \/ HoldFails(p) \/ ClearOffers(p) \/ Sell(p)
    \/ \E u \in Users : PopWaiter(p, u) \/ Requeue(p, u)

Request(p) ==
    \/ \E e \in Events, u \in Users, s \in Seats : TakeSeat(p, e, u, s)
    \/ \E e \in Events, u \in Users : FindSoldOut(p, e, u)
    \/ \E e \in Events : FindNoCounter(p, e)
    \/ \E b \in Bookings, u \in Users : CancelBooking(p, b, u)
    \/ \E b \in Bookings : FailPayment(p, b) \/ PayBooking(p, b) \/ ExpireHold(p, b)

Failure(p) ==
    \/ \E b \in Bookings : ReserveUnknown(p, b) \/ HoldUnknown(p, b)
    \/ ReleaseRejects(p)
    \/ Crash(p)

Next ==
    \/ \E p \in Procs : Step(p) \/ Request(p) \/ Failure(p)
    \/ LoseRedis

Spec == Init /\ [][Next]_vars

-----------------------------------------------------------------------------
(* Properties.                                                              *)

RedisTypeOK ==
    /\ bevent  \in [Bookings -> Events \cup {Nil}]
    /\ counter \in [Events -> Nat] /\ hasCounter \in [Events -> BOOLEAN]
    /\ waiting \in [Events -> [Users -> 0..MaxClock]]
    /\ offers  \in [Seats -> Nat]
    /\ clock   \in 0..MaxClock

LocalsTypeOK ==
    /\ pc      \in [Procs -> PCs]
    /\ pevent  \in [Procs -> Events \cup {Nil}]
    /\ puser   \in [Procs -> Users \cup {Nil}]
    /\ pseat   \in [Procs -> Seats \cup {Nil}]
    /\ pscore  \in [Procs -> 0..MaxClock]
    /\ tries   \in [Procs -> 0..MaxSkips]
    /\ skipped \in [Procs -> [Users -> 0..MaxClock]]
    /\ pcount  \in [Procs -> Nat]

\* What Redis and the handlers' local variables can hold; in particular the
\* counter never goes below zero, whatever interleaves with its DECR.
FlowTypeOK ==
    /\ LedgerTypeOK /\ RedisTypeOK /\ LocalsTypeOK
    /\ faults \in 0..MaxFaults /\ intact \in BOOLEAN

\* Handlers that owe the counter of e a seat: they took one and have no booking
\* yet, or freed one and have not yet sold it or passed it on.
TokenPcs  == {"reserve", "restore", "offer", "pop", "check", "hold", "clear", "sell"}
Tokens(e) == {p \in Procs : pc[p] \in TokenPcs /\ pevent[p] = e}

OnSale(e) == AvailableSeats \cap SeatsOf(e)

\* Seats that are held under the name of event e.
HeldUnder(e) == {s \in Seats : \E b \in Active(s) : bevent[b] = e}

\* Seats of e that are held under another event's name, and the reverse.
Lent(e)     == {s \in SeatsOf(e) : \E f \in Events \ {e} : s \in HeldUnder(f)}
Borrowed(e) == HeldUnder(e) \ SeatsOf(e)

Balance(e) ==
    Cardinality(OnSale(e)) + Cardinality(Lent(e)) - Cardinality(Borrowed(e))
        - counter[e] - Cardinality(Tokens(e))

\* No seat is lost and none is invented: an event's counter, together with what
\* the handlers in flight still owe it, is the number of its seats on sale, and
\* every fault puts it out by at most one.  Only a loss of Redis itself (or the
\* reconciler) can do more.  The code does not compare the event of a request
\* with the event of its seat, so a request that mixes the two moves the counter
\* of the event it names (bookingService.ts:46) and the seats of the other: the
\* one is too low and the other too high for as long as that booking lasts, by
\* exactly one each, and right again when it is released.
CounterWithinFaults ==
    intact => \A e \in Events : Balance(e) \in -faults..faults

\* The offer count never leaks into the next round: a seat that is on sale and
\* not being passed on starts with all its offers.
OnSaleSeatsStartFresh ==
    faults = 0 =>
        \A s \in Seats :
            seat[s] = "available" /\ (\A p \in Procs : pc[p] \in ReleasePcs => pseat[p] # s)
            => offers[s] = 0

\* Losing all of Redis, and anything short of it, never harms the sale itself:
\* the tables agree and no seat has two holders.
SaleIsSafe == NoDoubleBooking /\ SeatMatchesBooking

\* How far a release is from its end at most, whatever it meets on the way.
Distance(p) ==
    CASE pc[p] = "offer" -> 2 * MaxSkips + 7
      [] pc[p] = "check" -> 2 * (MaxSkips - tries[p]) + 6
      [] pc[p] = "pop"   -> 2 * (MaxSkips - tries[p]) + 5
      [] pc[p] = "hold"  -> 4
      [] pc[p] = "clear" -> 3
      [] pc[p] \in {"forget", "sell"} -> 2
      [] pc[p] = "requeue" -> 1
      [] OTHER -> 0

\* The skipped users whose places are still to be restored.
Remembered(p) == {u \in Users : skipped[p][u] # 0}

Nearer(p) ==
    \/ Distance(p)' < Distance(p)
    \/ /\ pc[p] = "requeue" /\ pc'[p] = "requeue"
       /\ Remembered(p)' \subseteq Remembered(p) /\ Remembered(p)' # Remembered(p)

\* A freed seat is passed on or put back on sale, even if users it skips keep
\* joining again: each step of a release brings it nearer to its end, so it ends
\* after a number of steps that depends on nothing but MAX_OFFLINE_SKIPS.
ReleasesRunDown ==
    [][\A p \in Procs :
        /\ pc[p] \in ReleasePcs \cup {"requeue"}
        /\ <<pc'[p], tries'[p], skipped'[p]>> # <<pc[p], tries[p], skipped[p]>>
        => Nearer(p)]_vars

\* Handler p has place n of user u in its hands: it has just popped u, or has
\* skipped u.
InHand(p, u, n) ==
    \/ skipped[p][u] = n
    \/ pc[p] \in {"check", "hold"} /\ puser[p] = u /\ pscore[p] = n

\* User u has place n in line for event e: in the waiting list, or in the hands
\* of a release.
InLine(e, u, n) ==
    \/ waiting[e][u] = n
    \/ \E p \in Procs : pevent[p] = e /\ InHand(p, u, n)

\* "Joining again keeps your original place" and "skipped, but keep their place for
\* the next seat" (README.md): nobody is forgotten by the releases that pop, skip
\* and put back the same users side by side.  A place goes only with the offer
\* it was for (also one that falls through), when its user has booked a seat, by
\* a fault, or against a later place of a user who has joined again while a
\* release remembered the first.
PlacesAreKept ==
    [][\A e \in Events, u \in Users, n \in 1 .. MaxClock :
        InLine(e, u, n) =>
            \/ \E m \in 1 .. n : InLine(e, u, m)'
            \/ faults' # faults
            \/ \E p \in Procs :
                pevent[p] = e /\ puser[p] = u /\ pc[p] \in {"leave", "hold"} /\ pc'[p] # pc[p]
            \/ \E m \in n + 1 .. MaxClock : InLine(e, u, m) /\ InLine(e, u, m)']_vars
=============================================================================

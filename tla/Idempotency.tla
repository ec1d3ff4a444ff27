---------------------------- MODULE Idempotency ----------------------------
(***************************************************************************)
(* Idempotency keys in createBooking: the claim in Redis, the wait of a      *)
(* repeated request, the stored answer, and the UNIQUE column behind them.  *)
(* Keys are scoped per user, so this is one user's view.  Whether a seat is *)
(* left is an open choice here (BookingFlow has the counter and the waiting *)
(* list), and so is a seat that somebody else holds.                        *)
(*                                                                          *)
(* A request is one call of createBooking.  It draws at most one booking    *)
(* id, which goes by the name of the request: Bookings are the requests.    *)
(***************************************************************************)
EXTENDS SeatLedger, Integers, FiniteSets

CONSTANTS
    User,       \* the user whose requests these are
    Keys,       \* values of the Idempotency-Key header
    MaxLapses   \* bound: how many claims of a key run out

ASSUME IdempotencyAssumption ==
    User \in Users /\ IsFiniteSet(Bookings) /\ MaxLapses \in Nat

VARIABLES
    stored,     \* idempotency:<user>:<key>
    lapses,     \* claims of a key that have run out
    lost,       \* history: stored answers that a request deleted or replaced
    pc,         \* what a request awaits next
    rkey,       \* its key; also bookings.idempotency_key of its row
    rseat,      \* the seat it asks for
    answer      \* what it will answer or has answered

idemVars == <<stored, lapses, lost, pc, rkey, rseat, answer>>
vars == <<ledgerVars, idemVars>>

OwnerPcs == {"event", "book", "save", "drop"}
PCs == OwnerPcs \cup {"idle", "claim", "poll", "leave", "done"}

\* What the key holds, and what a request answers: a status, and for a
\* response its booking and seat.
Value(status, b, s) == [status |-> status, booking |-> b, seat |-> s]
Plain(status) == Value(status, Nil, Nil)

Absent     == Plain("absent")
Processing == Plain("processing")
Responses  == {"pending", "queued"}         \* 201, 202
Failures   == {"refused", "error"}          \* 4xx; 5xx or no answer at all
Rebuffs    == {"conflict", "wrong_seat"}    \* 409, 422

Init ==
    /\ LedgerInit
    /\ stored = [k \in Keys |-> Absent]
    /\ lapses = [k \in Keys |-> 0]
    /\ lost   = [k \in Keys |-> 0]
    /\ pc     = [r \in Bookings |-> "idle"]
    /\ rkey   = [r \in Bookings |-> Nil]
    /\ rseat  = [r \in Bookings |-> Nil]
    /\ answer = [r \in Bookings |-> Absent]

-----------------------------------------------------------------------------
At(r, label) == pc[r] = label

Goto(r, label, a) ==
    /\ pc' = [pc EXCEPT ![r] = label]
    /\ answer' = [answer EXCEPT ![r] = a]
    /\ UNCHANGED <<lapses, rkey, rseat>>

Store(k, value) == stored' = [stored EXCEPT ![k] = value]

\* What an owner does at its end: the key takes the value, whatever it has.
Replace(k, value) ==
    /\ Store(k, value)
    /\ lost' = IF stored[k].status \in Responses THEN [lost EXCEPT ![k] = @ + 1] ELSE lost

Receive(r, k, s) ==
    /\ At(r, "idle")
    /\ pc'    = [pc EXCEPT ![r] = "claim"]
    /\ rkey'  = [rkey EXCEPT ![r] = k]
    /\ rseat' = [rseat EXCEPT ![r] = s]
    /\ UNCHANGED <<ledgerVars, stored, lapses, lost, answer>>

\* Mutant: SET without NX.
ClaimAlways(r) ==
    /\ At(r, "claim")
    /\ Store(rkey[r], Processing) /\ Goto(r, "event", Absent)
    /\ UNCHANGED <<ledgerVars, lost>>

\* CLAIM_IDEMPOTENCY: SET NX EX.
Claim(r) ==
    /\ At(r, "claim")
    /\ IF stored[rkey[r]] = Absent
       THEN Store(rkey[r], Processing) /\ Goto(r, "event", Absent)
       ELSE Goto(r, "poll", Absent) /\ UNCHANGED stored
    /\ UNCHANGED <<ledgerVars, lost>>

\* Mutant: a stored response is returned for whatever seat is asked for.
FindAnswerAnySeat(r) ==
    /\ At(r, "poll") /\ stored[rkey[r]].status \in Responses
    /\ Goto(r, "done", stored[rkey[r]])
    /\ UNCHANGED <<ledgerVars, stored, lost>>

\* The first request has answered; a key used for another seat is 422.
FindAnswer(r) ==
    LET found == stored[rkey[r]]
    IN  /\ At(r, "poll") /\ found.status \in Responses
        /\ Goto(r, "done", IF found.seat = rseat[r] THEN found ELSE Plain("wrong_seat"))
        /\ UNCHANGED <<ledgerVars, stored, lost>>

\* Mutant: whoever gives up waiting deletes the key for the next one.
GiveUpAndDrop(r) ==
    /\ At(r, "poll") /\ stored[rkey[r]].status \notin Responses
    /\ Goto(r, "drop", Plain("conflict"))
    /\ UNCHANGED <<ledgerVars, stored, lost>>

\* The key is gone, or still PROCESSING after ten seconds: 409.
GiveUpPolling(r) ==
    /\ At(r, "poll") /\ stored[rkey[r]].status \notin Responses
    /\ Goto(r, "done", Plain("conflict"))
    /\ UNCHANGED <<ledgerVars, stored, lost>>

\* No such event, not published, or no counter yet (503): the key is dropped.
TurnAway(r) ==
    /\ At(r, "event")
    /\ \E status \in {"refused", "error"} : Goto(r, "drop", Plain(status))
    /\ UNCHANGED <<ledgerVars, stored, lost>>

\* The counter is at zero and the user joins the waiting list.
FindSoldOut(r) ==
    /\ At(r, "event")
    /\ Goto(r, "save", Value("queued", Nil, rseat[r]))
    /\ UNCHANGED <<ledgerVars, stored, lost>>

TakeSeat(r) ==
    /\ At(r, "event")
    /\ Goto(r, "book", Absent)
    /\ UNCHANGED <<ledgerVars, stored, lost>>

\* Mutant: no UNIQUE on the column.
KeyIsFreeAlways(k) == k \in Keys

\* bookings.idempotency_key is UNIQUE, over settled bookings too.
KeyIsFree(k) == \A c \in Bookings : bstatus[c] # "none" => rkey[c] # k

Insert(r) == KeyIsFree(rkey[r]) /\ Reserve(r, User, rseat[r])

Book(r) ==
    /\ At(r, "book")
    /\ Insert(r)
    /\ Goto(r, "save", Value("pending", r, rseat[r]))
    /\ UNCHANGED <<stored, lost>>

\* A taken or locked seat, a duplicate key (4xx), or a failing database (5xx).
BookFails(r) ==
    /\ At(r, "book")
    /\ \E status \in {"refused", "error"} : Goto(r, "drop", Plain(status))
    /\ UNCHANGED <<ledgerVars, stored, lost>>

\* COMMIT takes effect but its answer is lost.
BookUnknown(r) ==
    /\ At(r, "book")
    /\ Insert(r)
    /\ Goto(r, "drop", Plain("error"))
    /\ UNCHANGED <<stored, lost>>

\* SETEX with the response, for a day; a booking goes on to the ZREM.
SaveAnswer(r) ==
    /\ At(r, "save")
    /\ Replace(rkey[r], answer[r])
    /\ Goto(r, IF answer[r].status = "pending" THEN "leave" ELSE "done", answer[r])
    /\ UNCHANGED ledgerVars

Leave(r) ==
    /\ At(r, "leave")
    /\ Goto(r, "done", answer[r])
    /\ UNCHANGED <<ledgerVars, stored, lost>>

\* Mutant: the failure is kept as the key's answer.
DropKeepsFailure(r) ==
    /\ At(r, "drop")
    /\ Replace(rkey[r], answer[r])
    /\ Goto(r, "done", answer[r])
    /\ UNCHANGED ledgerVars

\* DEL of the key, whoever has it by now.
Drop(r) ==
    /\ At(r, "drop")
    /\ Replace(rkey[r], Absent)
    /\ Goto(r, "done", answer[r])
    /\ UNCHANGED ledgerVars

\* A Redis command or a query outside the catch block rejects (500), or the
\* process dies and answers nothing.  The key keeps what it has.
Fail(r) ==
    /\ ~At(r, "idle") /\ ~At(r, "done")
    /\ Goto(r, "done", Plain("error"))
    /\ UNCHANGED <<ledgerVars, stored, lost>>

\* The key's lifetime ends: 30 seconds for a claim, a day for a response.
\* Nothing else bounds the time a request takes.
Lapse(k) ==
    /\ stored[k] # Absent
    /\ Store(k, Absent)
    /\ IF stored[k] = Processing
       THEN lapses[k] < MaxLapses /\ lapses' = [lapses EXCEPT ![k] = @ + 1]
       ELSE UNCHANGED lapses
    /\ UNCHANGED <<ledgerVars, lost, pc, rkey, rseat, answer>>

\* Payment, cancellation or expiry of a booking (SeatLedger, BookingFlow).
Settle(b) ==
    /\ Confirm(b) \/ Compensate(b) \/ Expire(b) \/ Cancel(b, User)
    /\ UNCHANGED idemVars

Handle(r) ==
    \/ Claim(r) \/ FindAnswer(r) \/ GiveUpPolling(r)
    \/ TurnAway(r) \/ FindSoldOut(r) \/ TakeSeat(r)
    \/ Book(r) \/ BookFails(r) \/ BookUnknown(r)
    \/ SaveAnswer(r) \/ Leave(r) \/ Drop(r)

Next ==
    \/ \E r \in Bookings, k \in Keys, s \in Seats : Receive(r, k, s)
    \/ \E r \in Bookings : Handle(r) \/ Fail(r)
    \/ \E k \in Keys : Lapse(k)
    \/ \E b \in Bookings : Settle(b)

Spec == Init /\ [][Next]_vars

-----------------------------------------------------------------------------
(* Properties.                                                              *)

Values ==
    [status : {"absent", "processing"} \cup Responses \cup Rebuffs \cup Failures,
     booking : Bookings \cup {Nil}, seat : Seats \cup {Nil}]

\* What the keys and the requests' variables can hold: a key never holds a
\* failure, and a request knows its key from its first step on.
IdempotencyTypeOK ==
    /\ LedgerTypeOK
    /\ stored \in [Keys -> Values]
    /\ \A k \in Keys : stored[k].status \in {"absent", "processing"} \cup Responses
    /\ lapses \in [Keys -> 0..MaxLapses]
    /\ lost   \in [Keys -> Nat]
    /\ pc     \in [Bookings -> PCs]
    /\ rkey   \in [Bookings -> Keys \cup {Nil}]
    /\ rseat  \in [Bookings -> Seats \cup {Nil}]
    /\ answer \in [Bookings -> Values]
    /\ \A r \in Bookings : pc[r] # "idle" => rkey[r] \in Keys /\ rseat[r] \in Seats

\* Requests that go on as the first one with key k.
Owners(k) == {r \in Bookings : rkey[r] = k /\ pc[r] \in OwnerPcs}

\* "Never process the same key twice at once" (bookingService.ts), as far as it
\* is true: besides one request, at most one more for every lapsed claim, also
\* when a request that has lost its claim deletes somebody else's.
OwnersWithinLapses == \A k \in Keys : Cardinality(Owners(k)) <= 1 + lapses[k]

\* "Client retries never create duplicate bookings" (README.md): a key makes at
\* most one booking, ever, however often its claim lapses and even if that
\* booking has ended.
OneBookingPerKey ==
    \A b, c \in Bookings :
        bstatus[b] # "none" /\ bstatus[c] # "none" /\ rkey[b] = rkey[c] => b = c

\* A success is never made up: a request that answers "reserved" names a booking
\* that exists, was made with its own key and is for the seat it asked for,
\* whether it made the booking or read the answer of another request.
AnswersAreTrue ==
    \A r \in Bookings :
        answer[r].status = "pending" =>
            LET b == answer[r].booking
            IN  /\ b \in Bookings /\ bstatus[b] # "none"
                /\ rkey[b] = rkey[r] /\ bseat[b] = rseat[r]

\* "If the same key has been seen recently, the cached response is returned"
\* (README.md), as far as it is true: a request deletes or replaces a stored
\* answer before its day is over no more often than claims of the key have lapsed.
\* Each time it is one that goes on although the key is no longer its own
\* (bookingService.ts, the DEL of a failed booking); a request that waits, or that
\* fails while its claim stands, never does.
AnswersAreKept == \A k \in Keys : lost[k] <= lapses[k]
=============================================================================

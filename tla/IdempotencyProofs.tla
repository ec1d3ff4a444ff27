------------------------- MODULE IdempotencyProofs -------------------------
(***************************************************************************)
(* Proofs about Idempotency and BookingAttempt, for any number of requests, *)
(* keys, seats and lapses.  The ledger half is SeatLedgerProofs' invariant;  *)
(* the rest says that whatever is stored or answered names a booking that   *)
(* was made, and that a page's requests with one key are for one seat.      *)
(***************************************************************************)
EXTENDS BookingAttempt, SeatLedgerProofs, FiniteSetTheorems

\* Booking b was made with key k for seat s.
Made(b, k, s) ==
    /\ b \in Bookings /\ bstatus[b] # "none"
    /\ rkey[b] = k /\ bseat[b] = s

KeysTypeOK ==
    /\ stored \in [Keys -> Values]
    /\ \A k \in Keys : stored[k].status \in {"absent", "processing"} \cup Responses
    /\ lapses \in [Keys -> 0..MaxLapses]
    /\ lost   \in [Keys -> Nat]

RequestsTypeOK ==
    /\ pc     \in [Bookings -> PCs]
    /\ rkey   \in [Bookings -> Keys \cup {Nil}]
    /\ rseat  \in [Bookings -> Seats \cup {Nil}]
    /\ answer \in [Bookings -> Values]
    /\ \A r \in Bookings : pc[r] # "idle" => rkey[r] \in Keys /\ rseat[r] \in Seats

\* Requests that have not started have no row and no answer; one that is about
\* to store its answer has a response.
PlacesFit ==
    \A r \in Bookings :
        /\ pc[r] = "idle" => bstatus[r] = "none" /\ answer[r].status = "absent"
        /\ pc[r] = "save" => answer[r].status \in Responses

StoredAreTrue ==
    \A k \in Keys :
        stored[k].status = "pending" => Made(stored[k].booking, k, stored[k].seat)

AnsweredTruly(r) ==
    answer[r].status = "pending" =>
        Made(answer[r].booking, rkey[r], rseat[r]) /\ answer[r].seat = rseat[r]

AnsweredAreTrue == \A r \in Bookings : AnsweredTruly(r)

IdemInv ==
    /\ LedgerInv /\ KeysTypeOK /\ RequestsTypeOK /\ PlacesFit
    /\ StoredAreTrue /\ AnsweredAreTrue /\ OneBookingPerKey

\* The fields of what a key holds.
LEMMA ValueFields ==
    ASSUME NEW status, NEW b, NEW s
    PROVE  /\ Value(status, b, s).status = status
           /\ Value(status, b, s).booking = b
           /\ Value(status, b, s).seat = s
  BY DEF Value

\* Where a value comes from.
LEMMA ValueType ==
    ASSUME NEW status \in {"absent", "processing"} \cup Responses \cup Rebuffs \cup Failures,
           NEW b \in Bookings \cup {Nil}, NEW s \in Seats \cup {Nil}
    PROVE  Value(status, b, s) \in Values
  BY DEF Value, Values

\* The values with neither a booking nor a seat.
LEMMA PlainValues ==
    /\ Absent \in Values /\ Absent.status = "absent"
    /\ Processing \in Values /\ Processing.status = "processing"
    /\ \A status \in Rebuffs \cup Failures :
            Plain(status) \in Values /\ Plain(status).status = status
  <1>1. \A status \in {"absent", "processing"} \cup Rebuffs \cup Failures :
            Plain(status) \in Values
    BY ValueType DEF Plain
  <1>2. \A status : Plain(status).status = status
    BY DEF Plain, Value
  <1> QED BY <1>1, <1>2 DEF Absent, Processing

\* What a step does to the tables is a step of SeatLedger, or nothing; a row
\* that is there keeps its key and its seat.
LEMMA RowsStay ==
    ASSUME RequestsTypeOK, LedgerTypeOK, PlacesFit, [Next]_vars
    PROVE  /\ [LedgerNext]_ledgerVars
           /\ \A b \in Bookings : \A k, s : Made(b, k, s) => Made(b, k, s)'
  <1>1. CASE \E r \in Bookings, k \in Keys, s \in Seats : Receive(r, k, s)
    BY <1>1 DEF Receive, At, Made, ledgerVars, PlacesFit, RequestsTypeOK
  <1>2. ASSUME NEW r \in Bookings, Book(r) \/ BookUnknown(r)
        PROVE  /\ Reserve(r, User, rseat[r]) /\ rseat[r] \in Seats
               /\ UNCHANGED rkey
    BY <1>2 DEF Book, BookUnknown, Insert, At, Goto, RequestsTypeOK
  <1>3. ASSUME NEW r \in Bookings, Handle(r) \/ Fail(r)
        PROVE  Book(r) \/ BookUnknown(r) \/ UNCHANGED <<ledgerVars, rkey>>
    BY <1>3 DEF Handle, Fail, Claim, FindAnswer, GiveUpPolling, TurnAway, FindSoldOut,
                TakeSeat, BookFails, SaveAnswer, Leave, Drop, Goto
  <1>4. CASE \E r \in Bookings : Book(r) \/ BookUnknown(r)
    <2>1. PICK r \in Bookings : Book(r) \/ BookUnknown(r)
      BY <1>4
    <2>2. Reserve(r, User, rseat[r]) /\ rseat[r] \in Seats /\ rkey' = rkey
      BY <1>2, <2>1
    <2> QED BY <2>2, IdempotencyAssumption DEF LedgerNext, Reserve, Made, LedgerTypeOK
  <1>5. CASE \E b \in Bookings : Settle(b)
    <2>1. PICK b \in Bookings : Settle(b)
      BY <1>5
    <2>2. rkey' = rkey /\ LedgerNext
      BY <2>1, IdempotencyAssumption DEF Settle, idemVars, LedgerNext
    <2>3. PICK from \in ActiveStatus, to \in BookingStatus, seatTo \in SeatStatus :
            Transition(b, from, to, seatTo)
      BY <2>1 DEF Settle, Confirm, Compensate, Expire, Cancel, ActiveStatus, BookingStatus, SeatStatus
    <2> QED BY <2>2, <2>3 DEF Transition, Made, LedgerTypeOK, BookingStatus, ActiveStatus
  <1>6. CASE UNCHANGED <<ledgerVars, rkey>>
    BY <1>6 DEF ledgerVars, Made
  <1>7. CASE \E k \in Keys : Lapse(k)
    BY <1>6, <1>7 DEF Lapse
  <1>8. CASE UNCHANGED vars
    BY <1>6, <1>8 DEF vars, idemVars
  <1> QED BY <1>1, <1>3, <1>4, <1>5, <1>6, <1>7, <1>8 DEF Next

-----------------------------------------------------------------------------
\* Nothing is stored, asked or answered in the beginning.
LEMMA IdemInit == Init => IdemInv
  <1> SUFFICES ASSUME Init PROVE IdemInv
    OBVIOUS
  <1>1. LedgerInv
    BY LedgerInitInv DEF Init
  <1>2. Absent \in Values /\ Absent.status = "absent"
    BY PlainValues
  <1>3. KeysTypeOK
    BY <1>2, IdempotencyAssumption DEF Init, KeysTypeOK
  <1>4. RequestsTypeOK
    BY <1>2 DEF Init, RequestsTypeOK, PCs
  <1>5. PlacesFit /\ StoredAreTrue /\ AnsweredAreTrue
    BY <1>2 DEF Init, LedgerInit, PlacesFit, StoredAreTrue, AnsweredAreTrue, AnsweredTruly
  <1>6. OneBookingPerKey
    BY DEF Init, LedgerInit, OneBookingPerKey
  <1> QED BY <1>1, <1>3, <1>4, <1>5, <1>6 DEF IdemInv

\* A request that goes on keeps its key and its seat.
LEMMA GotoKeeps ==
    ASSUME RequestsTypeOK, NEW r \in Bookings, pc[r] # "idle",
           NEW label \in PCs, NEW a \in Values, Goto(r, label, a)
    PROVE  RequestsTypeOK'
  BY DEF RequestsTypeOK, Goto

\* What the handlers store and answer are values.
LEMMA HandlersStore ==
    ASSUME IdemInv, NEW r \in Bookings, pc[r] # "idle"
    PROVE  /\ Absent \in Values /\ Processing \in Values
           /\ stored[rkey[r]] \in Values /\ answer[r] \in Values
           /\ \A status \in Rebuffs \cup Failures : Plain(status) \in Values
           /\ Value("queued", Nil, rseat[r]) \in Values
           /\ Value("pending", r, rseat[r]) \in Values
  <1>1. rkey[r] \in Keys /\ rseat[r] \in Seats
    BY DEF IdemInv, RequestsTypeOK
  <1>2. stored[rkey[r]] \in Values /\ answer[r] \in Values
    BY <1>1 DEF IdemInv, KeysTypeOK, RequestsTypeOK
  <1>3. Absent \in Values /\ Processing \in Values
    BY PlainValues
  <1>4. \A status \in Rebuffs \cup Failures : Plain(status) \in Values
    BY PlainValues
  <1>5. Value("queued", Nil, rseat[r]) \in Values
    BY <1>1, ValueType DEF Responses
  <1>6. Value("pending", r, rseat[r]) \in Values
    BY <1>1, ValueType DEF Responses
  <1> QED BY <1>2, <1>3, <1>4, <1>5, <1>6

\* Every handler's step is a Goto of a request that has started.
LEMMA HandlersGo ==
    ASSUME IdemInv, NEW r \in Bookings, Handle(r) \/ Fail(r)
    PROVE  /\ pc[r] # "idle"
           /\ \E label \in PCs \ {"idle"}, a \in Values : Goto(r, label, a)
  <1>1. pc[r] # "idle"
    BY DEF Handle, Fail, Claim, FindAnswer, GiveUpPolling, TurnAway, FindSoldOut, TakeSeat,
           Book, BookFails, BookUnknown, SaveAnswer, Leave, Drop, At
  <1>2. /\ Absent \in Values /\ stored[rkey[r]] \in Values /\ answer[r] \in Values
        /\ \A status \in Rebuffs \cup Failures : Plain(status) \in Values
        /\ Value("queued", Nil, rseat[r]) \in Values
        /\ Value("pending", r, rseat[r]) \in Values
    BY <1>1, HandlersStore
  <1>3. {"event", "book", "save", "drop", "claim", "poll", "leave", "done"} \subseteq PCs \ {"idle"}
    BY DEF PCs, OwnerPcs
  <1>4. CASE Claim(r) \/ FindAnswer(r) \/ GiveUpPolling(r)
    <2>1. \/ \E label \in {"event", "poll"} : Goto(r, label, Absent)
          \/ Goto(r, "done", stored[rkey[r]])
          \/ \E status \in Rebuffs : Goto(r, "done", Plain(status))
      BY <1>4 DEF Claim, FindAnswer, GiveUpPolling, Rebuffs
    <2> QED BY <1>1, <1>2, <1>3, <2>1
  <1>5. CASE TurnAway(r) \/ FindSoldOut(r) \/ TakeSeat(r)
    <2>1. \/ \E status \in Failures : Goto(r, "drop", Plain(status))
          \/ Goto(r, "save", Value("queued", Nil, rseat[r]))
          \/ Goto(r, "book", Absent)
      BY <1>5 DEF TurnAway, FindSoldOut, TakeSeat, Failures
    <2> QED BY <1>1, <1>2, <1>3, <2>1
  <1>6. CASE Book(r) \/ BookFails(r) \/ BookUnknown(r)
    <2>1. \/ Goto(r, "save", Value("pending", r, rseat[r]))
          \/ \E status \in Failures : Goto(r, "drop", Plain(status))
      BY <1>6 DEF Book, BookFails, BookUnknown, Failures
    <2> QED BY <1>1, <1>2, <1>3, <2>1
  <1>7. CASE SaveAnswer(r) \/ Leave(r) \/ Drop(r)
    <2>1. \E label \in {"leave", "done"} : Goto(r, label, answer[r])
      BY <1>7 DEF SaveAnswer, Leave, Drop
    <2> QED BY <1>1, <1>2, <1>3, <2>1
  <1>8. CASE Fail(r)
    <2>1. \E status \in Failures : Goto(r, "done", Plain(status))
      BY <1>8 DEF Fail, Failures
    <2> QED BY <1>1, <1>2, <1>3, <2>1
  <1> QED BY <1>1, <1>4, <1>5, <1>6, <1>7, <1>8 DEF Handle

\* What a handler may answer: a success only with the row it made or with what
\* it found for its seat, and "wrong seat" only for what it found for another.
LEMMA AnswerGiven ==
    ASSUME IdemInv, NEW r \in Bookings, Handle(r) \/ Fail(r)
    PROVE  \/ answer'[r] = Absent
           \/ \E status \in (Rebuffs \cup Failures) \ {"wrong_seat"} : answer'[r] = Plain(status)
           \/ /\ answer'[r] = Plain("wrong_seat")
              /\ stored[rkey[r]].status \in Responses /\ stored[rkey[r]].seat # rseat[r]
           \/ answer'[r] = Value("queued", Nil, rseat[r])
           \/ answer'[r] = answer[r]
           \/ /\ answer'[r] = stored[rkey[r]]
              /\ stored[rkey[r]].status \in Responses /\ stored[rkey[r]].seat = rseat[r]
           \/ answer'[r] = Value("pending", r, rseat[r]) /\ Reserve(r, User, rseat[r])
  <1>1. RequestsTypeOK
    BY DEF IdemInv
  <1>2. CASE FindAnswer(r)
    BY <1>1, <1>2 DEF FindAnswer, Goto, RequestsTypeOK
  <1>3. CASE Claim(r) \/ GiveUpPolling(r) \/ TurnAway(r) \/ FindSoldOut(r) \/ TakeSeat(r)
    BY <1>1, <1>3 DEF Claim, GiveUpPolling, TurnAway, FindSoldOut, TakeSeat, Goto,
                      RequestsTypeOK, Rebuffs, Failures
  <1>4. CASE Book(r) \/ BookFails(r) \/ BookUnknown(r)
    BY <1>1, <1>4 DEF Book, BookFails, BookUnknown, Insert, Goto, RequestsTypeOK, Rebuffs, Failures
  <1>5. CASE SaveAnswer(r) \/ Leave(r) \/ Drop(r) \/ Fail(r)
    BY <1>1, <1>5 DEF SaveAnswer, Leave, Drop, Fail, Goto, RequestsTypeOK, Rebuffs, Failures
  <1> QED BY <1>2, <1>3, <1>4, <1>5 DEF Handle

\* What is stored is a claim or a response.
LEMMA KeysStep ==
    ASSUME IdemInv, [Next]_vars
    PROVE  KeysTypeOK'
  <1>1. KeysTypeOK /\ RequestsTypeOK /\ PlacesFit
    BY DEF IdemInv
  <1>2. /\ Absent \in Values /\ Absent.status = "absent"
        /\ Processing \in Values /\ Processing.status = "processing"
    BY PlainValues
  <1>3. ASSUME NEW r \in Bookings, Handle(r) \/ Fail(r)
        PROVE  KeysTypeOK'
    <2>1. rkey[r] \in Keys /\ lapses' = lapses
      BY <1>1, <1>3, HandlersGo DEF RequestsTypeOK, Goto
    <2>2. \/ stored' = stored
          \/ Store(rkey[r], Processing)
          \/ Store(rkey[r], Absent)
          \/ Store(rkey[r], answer[r]) /\ pc[r] = "save"
      BY <1>3 DEF Handle, Fail, Claim, FindAnswer, GiveUpPolling, TurnAway, FindSoldOut,
                  TakeSeat, Book, BookFails, BookUnknown, SaveAnswer, Leave, Drop, At, Replace
    <2>3. pc[r] = "save" => answer[r] \in Values /\ answer[r].status \in Responses
      BY <1>1 DEF RequestsTypeOK, PlacesFit
    <2>4. lost' = lost \/ lost' = [lost EXCEPT ![rkey[r]] = @ + 1]
      BY <1>3 DEF Handle, Fail, Claim, FindAnswer, GiveUpPolling, TurnAway, FindSoldOut,
                  TakeSeat, Book, BookFails, BookUnknown, SaveAnswer, Leave, Drop, Replace
    <2>5. lost' \in [Keys -> Nat]
      BY <1>1, <2>4 DEF KeysTypeOK
    <2> QED BY <1>1, <1>2, <2>1, <2>2, <2>3, <2>5 DEF KeysTypeOK, Store
  <1>4. ASSUME NEW k \in Keys, Lapse(k)
        PROVE  KeysTypeOK'
    BY <1>1, <1>2, <1>4, IdempotencyAssumption DEF KeysTypeOK, Lapse, Store
  <1>5. CASE UNCHANGED <<stored, lapses, lost>>
    BY <1>1, <1>5 DEF KeysTypeOK
  <1> QED BY <1>3, <1>4, <1>5 DEF Next, Receive, Settle, idemVars, vars

\* A started request has a key, a seat and a place in createBooking.
LEMMA RequestsStep ==
    ASSUME IdemInv, [Next]_vars
    PROVE  RequestsTypeOK'
  <1>1. RequestsTypeOK
    BY DEF IdemInv
  <1>2. ASSUME NEW r \in Bookings, NEW k \in Keys, NEW s \in Seats, Receive(r, k, s)
        PROVE  RequestsTypeOK'
    BY <1>1, <1>2 DEF Receive, RequestsTypeOK, PCs
  <1>3. ASSUME NEW r \in Bookings, Handle(r) \/ Fail(r)
        PROVE  RequestsTypeOK'
    BY <1>1, <1>3, HandlersGo, GotoKeeps
  <1>4. CASE UNCHANGED <<pc, rkey, rseat, answer>>
    BY <1>1, <1>4 DEF RequestsTypeOK
  <1> QED BY <1>2, <1>3, <1>4 DEF Next, Lapse, Settle, idemVars, vars

\* Only Insert draws a request's booking id, and it only draws its own.
LEMMA RowsOfOthers ==
    ASSUME IdemInv, NEW r \in Bookings, Handle(r) \/ Fail(r)
    PROVE  \A q \in Bookings \ {r} : bstatus'[q] = bstatus[q]
  <1>1. LedgerTypeOK
    BY DEF IdemInv, LedgerInv
  <1>2. Reserve(r, User, rseat[r]) \/ UNCHANGED ledgerVars
    BY DEF Handle, Fail, Claim, FindAnswer, GiveUpPolling, TurnAway, FindSoldOut, TakeSeat,
           Book, BookFails, BookUnknown, Insert, SaveAnswer, Leave, Drop
  <1> QED BY <1>1, <1>2 DEF Reserve, LedgerTypeOK, ledgerVars

\* Only a request that has started draws a booking id.
LEMMA PlacesStep ==
    ASSUME IdemInv, [Next]_vars
    PROVE  PlacesFit'
  <1>1. PlacesFit /\ RequestsTypeOK /\ LedgerTypeOK
    BY DEF IdemInv, LedgerInv
  <1>2. ASSUME NEW r \in Bookings, NEW k \in Keys, NEW s \in Seats, Receive(r, k, s)
        PROVE  PlacesFit'
    BY <1>1, <1>2 DEF Receive, PlacesFit, RequestsTypeOK, ledgerVars
  <1>3. ASSUME NEW r \in Bookings, Handle(r) \/ Fail(r)
        PROVE  PlacesFit'
    <2>1. PICK label \in PCs \ {"idle"}, a \in Values : Goto(r, label, a)
      BY <1>3, HandlersGo
    <2>2. /\ pc' = [pc EXCEPT ![r] = label] /\ answer' = [answer EXCEPT ![r] = a]
          /\ pc'[r] = label /\ answer'[r] = a
      BY <1>1, <2>1 DEF Goto, RequestsTypeOK
    <2>3. label = "save" => a.status \in Responses
      <3>1. Value("queued", Nil, rseat[r]).status = "queued"
        BY DEF Value
      <3>2. Value("pending", r, rseat[r]).status = "pending"
        BY DEF Value
      <3>3. pc'[r] = "save" =>
              \/ answer'[r] = Value("queued", Nil, rseat[r])
              \/ answer'[r] = Value("pending", r, rseat[r])
        BY <1>1, <1>3 DEF Handle, Fail, Claim, FindAnswer, GiveUpPolling, TurnAway,
             FindSoldOut, TakeSeat, Book, BookFails, BookUnknown, SaveAnswer, Leave, Drop,
             Goto, RequestsTypeOK
      <3> QED BY <2>2, <3>1, <3>2, <3>3 DEF Responses
    <2>4. \A q \in Bookings \ {r} :
            bstatus'[q] = bstatus[q] /\ pc'[q] = pc[q] /\ answer'[q] = answer[q]
      BY <1>1, <1>3, <2>2, RowsOfOthers DEF RequestsTypeOK
    <2> QED BY <1>1, <2>2, <2>3, <2>4 DEF PlacesFit
  <1>4. ASSUME NEW b \in Bookings, Settle(b)
        PROVE  PlacesFit'
    <2>1. bstatus[b] # "none" /\ \A q \in Bookings \ {b} : bstatus'[q] = bstatus[q]
      BY <1>1, <1>4 DEF Settle, Confirm, Compensate, Expire, Cancel, Transition,
                        ActiveStatus, LedgerTypeOK
    <2> QED BY <1>1, <1>4, <2>1 DEF PlacesFit, Settle, idemVars
  <1>5. CASE UNCHANGED <<bstatus, pc, answer>>
    BY <1>1, <1>5 DEF PlacesFit
  <1> QED BY <1>2, <1>3, <1>4, <1>5 DEF Next, Lapse, ledgerVars, idemVars, vars

\* A stored response is the answer of a request with that key.
LEMMA StoredStep ==
    ASSUME IdemInv, [Next]_vars
    PROVE  StoredAreTrue'
  <1>1. StoredAreTrue /\ AnsweredAreTrue /\ KeysTypeOK /\ RequestsTypeOK /\ PlacesFit
    BY DEF IdemInv
  <1>2. \A b \in Bookings : \A k, s : Made(b, k, s) => Made(b, k, s)'
    BY <1>1, RowsStay DEF IdemInv, LedgerInv
  <1>3. Absent.status # "pending" /\ Processing.status # "pending"
    BY PlainValues
  <1>4. ASSUME NEW r \in Bookings, Handle(r) \/ Fail(r)
        PROVE  StoredAreTrue'
    <2>1. rkey[r] \in Keys /\ rkey' = rkey
      BY <1>1, <1>4, HandlersGo DEF RequestsTypeOK, Goto
    <2>2. \/ stored' = stored
          \/ \E v \in {Processing, Absent, answer[r]} : Store(rkey[r], v)
      BY <1>4 DEF Handle, Fail, Claim, FindAnswer, GiveUpPolling, TurnAway, FindSoldOut,
                  TakeSeat, Book, BookFails, BookUnknown, SaveAnswer, Leave, Drop, Replace
    <2>3. answer[r].status = "pending" => Made(answer[r].booking, rkey[r], answer[r].seat)
      BY <1>1 DEF AnsweredAreTrue, AnsweredTruly
    <2>4. \A b, k, s : Made(b, k, s) => b \in Bookings
      BY DEF Made
    <2>5. CASE stored' = stored
      BY <1>1, <1>2, <2>4, <2>5 DEF StoredAreTrue
    <2>6. ASSUME NEW v \in {Processing, Absent, answer[r]}, Store(rkey[r], v)
          PROVE  StoredAreTrue'
      BY <1>1, <1>2, <1>3, <2>1, <2>3, <2>4, <2>6 DEF StoredAreTrue, Store, KeysTypeOK
    <2> QED BY <2>2, <2>5, <2>6
  <1>5. ASSUME NEW k \in Keys, Lapse(k)
        PROVE  StoredAreTrue'
    BY <1>1, <1>2, <1>3, <1>5 DEF Lapse, Store, StoredAreTrue, KeysTypeOK, Made
  <1>6. CASE UNCHANGED stored
    BY <1>1, <1>2, <1>6 DEF StoredAreTrue, Made
  <1> QED BY <1>4, <1>5, <1>6 DEF Next, Receive, Settle, idemVars, vars

\* A request answers with a booking of its own key, made by itself or found.
LEMMA AnsweredStep ==
    ASSUME IdemInv, [Next]_vars
    PROVE  AnsweredAreTrue'
  <1>1. /\ StoredAreTrue /\ AnsweredAreTrue /\ KeysTypeOK /\ RequestsTypeOK
        /\ PlacesFit /\ LedgerTypeOK
    BY DEF IdemInv, LedgerInv
  <1>2. \A b \in Bookings : \A k, s : Made(b, k, s) => Made(b, k, s)'
    BY <1>1, RowsStay
  <1>3. \A b, k, s : Made(b, k, s) => b \in Bookings
    BY DEF Made
  <1>4. ASSUME NEW r \in Bookings, NEW k \in Keys, NEW s \in Seats, Receive(r, k, s)
        PROVE  AnsweredAreTrue'
    <2>1. At(r, "idle") /\ answer[r].status # "pending"
      BY <1>1, <1>4 DEF Receive, PlacesFit, At
    <2>2. answer' = answer /\ \A q \in Bookings \ {r} : rkey'[q] = rkey[q] /\ rseat'[q] = rseat[q]
      BY <1>1, <1>4 DEF Receive, RequestsTypeOK
    <2> QED BY <1>1, <1>2, <1>3, <2>1, <2>2 DEF AnsweredAreTrue, AnsweredTruly
  <1>5. ASSUME NEW r \in Bookings, Handle(r) \/ Fail(r)
        PROVE  AnsweredAreTrue'
    <2>1. PICK label \in PCs \ {"idle"}, a \in Values : Goto(r, label, a)
      BY <1>5, HandlersGo
    <2>2. /\ rkey' = rkey /\ rseat' = rseat /\ rkey[r] \in Keys /\ rseat[r] \in Seats
          /\ answer'[r] = a
          /\ \A q \in Bookings \ {r} : answer'[q] = answer[q]
      BY <1>1, <1>5, <2>1, HandlersGo DEF Goto, RequestsTypeOK
    <2>3. \A q \in Bookings \ {r} : AnsweredTruly(q)'
      BY <1>1, <1>2, <1>3, <2>2 DEF AnsweredAreTrue, AnsweredTruly
    <2>4. \/ answer'[r].status # "pending"
          \/ answer'[r] = answer[r]
          \/ answer'[r] = stored[rkey[r]] /\ stored[rkey[r]].seat = rseat[r]
          \/ answer'[r] = Value("pending", r, rseat[r]) /\ Reserve(r, User, rseat[r])
      <3>1. Absent.status # "pending"
        BY PlainValues
      <3>2. \A status \in Rebuffs \cup Failures : Plain(status).status # "pending"
        BY PlainValues DEF Failures, Rebuffs
      <3>3. Value("queued", Nil, rseat[r]).status # "pending"
        BY DEF Value
      <3>4. "wrong_seat" \in Rebuffs
        BY DEF Rebuffs
      <3> QED BY <1>5, <3>1, <3>2, <3>3, <3>4, AnswerGiven
    <2>5. AnsweredTruly(r)'
      <3>1. CASE answer'[r] = answer[r]
        BY <1>1, <1>2, <1>3, <2>2, <3>1 DEF AnsweredAreTrue, AnsweredTruly
      <3>2. CASE answer'[r] = stored[rkey[r]] /\ stored[rkey[r]].seat = rseat[r]
        BY <1>1, <1>2, <1>3, <2>2, <3>2 DEF StoredAreTrue, AnsweredTruly
      <3>3. CASE answer'[r] = Value("pending", r, rseat[r]) /\ Reserve(r, User, rseat[r])
        <4>1. Made(r, rkey[r], rseat[r])'
          BY <1>1, <2>2, <3>3 DEF Made, Reserve, LedgerTypeOK
        <4>2. answer'[r].booking = r /\ answer'[r].seat = rseat[r]
          BY <3>3 DEF Value
        <4> QED BY <2>2, <4>1, <4>2 DEF AnsweredTruly
      <3>4. CASE answer'[r].status # "pending"
        BY <3>4 DEF AnsweredTruly
      <3> QED BY <2>4, <3>1, <3>2, <3>3, <3>4
    <2> QED BY <2>3, <2>5 DEF AnsweredAreTrue, AnsweredTruly
  <1>6. CASE UNCHANGED <<rkey, rseat, answer>>
    BY <1>1, <1>2, <1>3, <1>6 DEF AnsweredAreTrue, AnsweredTruly
  <1> QED BY <1>4, <1>5, <1>6 DEF Next, Lapse, Settle, idemVars, vars

\* KeyIsFree looks at every row, and a row's key never changes.
LEMMA OneBookingStep ==
    ASSUME IdemInv, [Next]_vars
    PROVE  OneBookingPerKey'
  <1>1. /\ OneBookingPerKey /\ RequestsTypeOK /\ PlacesFit /\ LedgerTypeOK
    BY DEF IdemInv, LedgerInv
  <1>2. ASSUME NEW r \in Bookings, NEW k \in Keys, NEW s \in Seats, Receive(r, k, s)
        PROVE  OneBookingPerKey'
    BY <1>1, <1>2 DEF Receive, At, PlacesFit, RequestsTypeOK, OneBookingPerKey, ledgerVars
  <1>3. ASSUME NEW r \in Bookings, Handle(r) \/ Fail(r)
        PROVE  OneBookingPerKey'
    <2>1. rkey' = rkey
      BY <1>3, HandlersGo DEF Goto
    <2>2. Insert(r) \/ UNCHANGED ledgerVars
      BY <1>3 DEF Handle, Fail, Claim, FindAnswer, GiveUpPolling, TurnAway, FindSoldOut,
                  TakeSeat, Book, BookFails, BookUnknown, SaveAnswer, Leave, Drop
    <2>3. CASE Insert(r)
      <3>1. \A q \in Bookings \ {r} : bstatus'[q] = bstatus[q]
        BY <1>3, RowsOfOthers
      <3>2. \A q \in Bookings \ {r} : bstatus'[q] # "none" => rkey[q] # rkey[r]
        BY <2>3, <3>1 DEF Insert, KeyIsFree
      <3> QED BY <1>1, <2>1, <3>1, <3>2 DEF OneBookingPerKey
    <2>4. CASE UNCHANGED ledgerVars
      BY <1>1, <2>1, <2>4 DEF OneBookingPerKey, ledgerVars
    <2> QED BY <2>2, <2>3, <2>4
  <1>4. ASSUME NEW b \in Bookings, Settle(b)
        PROVE  OneBookingPerKey'
    <2>1. bstatus[b] # "none" /\ \A q \in Bookings \ {b} : bstatus'[q] = bstatus[q]
      BY <1>1, <1>4 DEF Settle, Confirm, Compensate, Expire, Cancel, Transition,
                        ActiveStatus, LedgerTypeOK
    <2> QED BY <1>1, <1>4, <2>1 DEF OneBookingPerKey, Settle, idemVars
  <1>5. CASE UNCHANGED <<bstatus, rkey>>
    BY <1>1, <1>5 DEF OneBookingPerKey
  <1> QED BY <1>2, <1>3, <1>4, <1>5 DEF Next, Lapse, ledgerVars, idemVars, vars

\* All parts of the invariant survive a step.
LEMMA IdemStep ==
    ASSUME IdemInv, [Next]_vars
    PROVE  IdemInv'
  <1>1. LedgerInv'
    <2>1. LedgerInv /\ [LedgerNext]_ledgerVars
      BY RowsStay DEF IdemInv, LedgerInv
    <2> QED BY <2>1, LedgerStepInv
  <1> QED BY <1>1, KeysStep, RequestsStep, PlacesStep, StoredStep, AnsweredStep,
             OneBookingStep DEF IdemInv

\* It holds of every request's history.
LEMMA IdemInvariant == Spec => []IdemInv
  BY IdemInit, IdemStep, PTL DEF Spec

-----------------------------------------------------------------------------
(* How many requests go on with one key.                                    *)

\* A claim stands for one of the owners: who drops or answers it while it is
\* somebody else's leaves that one in its own place, and so adds nobody.  Who
\* takes a stored answer away is an owner with no claim to stand for it, and no
\* owner any more afterwards.
Claimed(k) == IF stored[k] = Processing THEN 1 ELSE 0

OwnersBounded ==
    \A k \in Keys :
        /\ Cardinality(Owners(k)) + lost[k] <= lapses[k] + Claimed(k)
        /\ lost[k] <= lapses[k]

\* A set of requests has a size, and changes it by at most one with one request.
LEMMA RequestCount ==
    ASSUME NEW S \in SUBSET Bookings, NEW r
    PROVE  /\ Cardinality(S) \in Nat
           /\ Cardinality(S \cup {r}) <= Cardinality(S) + 1
           /\ r \in S => Cardinality(S \ {r}) = Cardinality(S) - 1
           /\ \A T \in SUBSET S : Cardinality(T) \in Nat /\ Cardinality(T) <= Cardinality(S)
  <1>1. IsFiniteSet(S)
    BY IdempotencyAssumption, FS_Subset
  <1>2. Cardinality(S) \in Nat
    BY <1>1, FS_CardinalityType
  <1>3. Cardinality(S \cup {r}) <= Cardinality(S) + 1
    <2>1. Cardinality(S \cup {r}) = IF r \in S THEN Cardinality(S) ELSE Cardinality(S) + 1
      BY <1>1, FS_AddElement
    <2> QED BY <1>2, <2>1
  <1>4. r \in S => Cardinality(S \ {r}) = Cardinality(S) - 1
    BY <1>1, FS_RemoveElement
  <1>5. \A T \in SUBSET S : Cardinality(T) \in Nat /\ Cardinality(T) <= Cardinality(S)
    BY <1>1, FS_Subset, FS_CardinalityType
  <1> QED BY <1>2, <1>3, <1>4, <1>5

\* One request's step adds itself when it finds the key free, leaves when it
\* stores or deletes, and otherwise adds nobody.
LEMMA OwnersOfStep ==
    ASSUME IdemInv, NEW r \in Bookings, Handle(r) \/ Fail(r)
    PROVE  /\ rkey[r] \in Keys /\ lapses' = lapses
           /\ \A k \in Keys \ {rkey[r]} :
                Owners(k)' = Owners(k) /\ stored'[k] = stored[k] /\ lost'[k] = lost[k]
           /\ \/ /\ stored[rkey[r]] = Absent /\ stored'[rkey[r]] = Processing
                 /\ Owners(rkey[r])' = Owners(rkey[r]) \cup {r} /\ lost' = lost
              \/ /\ r \in Owners(rkey[r]) /\ Owners(rkey[r])' = Owners(rkey[r]) \ {r}
                 /\ \/ lost'[rkey[r]] = lost[rkey[r]]
                    \/ /\ stored[rkey[r]].status \in Responses
                       /\ lost'[rkey[r]] = lost[rkey[r]] + 1
              \/ /\ stored' = stored /\ lost' = lost
                 /\ Owners(rkey[r])' \subseteq Owners(rkey[r])
  <1>1. RequestsTypeOK /\ KeysTypeOK
    BY DEF IdemInv
  <1>2. rkey[r] \in Keys /\ lapses' = lapses /\ rkey' = rkey
    BY <1>1, HandlersGo DEF Goto, RequestsTypeOK
  <1>3. \A q \in Bookings \ {r} : pc'[q] = pc[q]
    BY <1>1, HandlersGo DEF Goto, RequestsTypeOK
  <1>4. \/ stored' = stored /\ lost' = lost
        \/ \E v \in Values : Store(rkey[r], v) /\ lost' = lost
        \/ \E v \in Values : Replace(rkey[r], v)
    BY <1>1, HandlersGo, HandlersStore DEF Handle, Fail, Claim, FindAnswer, GiveUpPolling,
         TurnAway, FindSoldOut, TakeSeat, Book, BookFails, BookUnknown, SaveAnswer, Leave, Drop
  <1>5. \A k \in Keys \ {rkey[r]} :
            Owners(k)' = Owners(k) /\ stored'[k] = stored[k] /\ lost'[k] = lost[k]
    BY <1>1, <1>2, <1>3, <1>4 DEF Owners, Store, Replace, KeysTypeOK
  <1>6. \/ /\ stored[rkey[r]] = Absent /\ stored'[rkey[r]] = Processing
           /\ pc'[r] = "event" /\ lost' = lost
        \/ /\ pc[r] \in OwnerPcs /\ pc'[r] \notin OwnerPcs
           /\ lost' = lost \/ \E v \in Values : Replace(rkey[r], v)
        \/ stored' = stored /\ lost' = lost /\ (pc'[r] \in OwnerPcs => pc[r] \in OwnerPcs)
    BY <1>1, <1>2, HandlersGo, HandlersStore
       DEF Handle, Fail, Claim, FindAnswer, GiveUpPolling, TurnAway, FindSoldOut, TakeSeat,
           Book, BookFails, BookUnknown, SaveAnswer, Leave, Drop, Goto, At, Store,
           RequestsTypeOK, KeysTypeOK, OwnerPcs
  <1>7. ASSUME NEW v \in Values, Replace(rkey[r], v)
        PROVE  \/ lost'[rkey[r]] = lost[rkey[r]]
               \/ /\ stored[rkey[r]].status \in Responses
                  /\ lost'[rkey[r]] = lost[rkey[r]] + 1
    BY <1>1, <1>2, <1>7 DEF Replace, KeysTypeOK
  <1> QED BY <1>2, <1>3, <1>5, <1>6, <1>7 DEF Owners, OwnerPcs

\* The bound is kept: only a lapse frees a key whose owner goes on.
LEMMA OwnersStep ==
    ASSUME IdemInv, OwnersBounded, [Next]_vars
    PROVE  OwnersBounded'
  <1>1. RequestsTypeOK /\ KeysTypeOK
    BY DEF IdemInv
  <1>2. \A k \in Keys : lapses[k] \in Nat /\ lost[k] \in Nat /\ Cardinality(Owners(k)) \in Nat
    <2>1. \A k \in Keys : lapses[k] \in Nat /\ lost[k] \in Nat
      BY <1>1, IdempotencyAssumption DEF KeysTypeOK
    <2>2. \A k \in Keys : Owners(k) \in SUBSET Bookings
      BY DEF Owners
    <2> QED BY <2>1, <2>2, RequestCount
  <1>3. Processing # Absent /\ Processing.status \notin Responses
    BY PlainValues DEF Responses
  <1>4. ASSUME NEW r \in Bookings, Handle(r) \/ Fail(r), NEW k \in Keys
        PROVE  (/\ Cardinality(Owners(k)) + lost[k] <= lapses[k] + Claimed(k)
                /\ lost[k] <= lapses[k])'
    <2>1. CASE k # rkey[r]
      BY <1>4, <2>1, OwnersOfStep DEF OwnersBounded, Claimed
    <2>2. CASE k = rkey[r]
      <3>1. Owners(k) \in SUBSET Bookings
        BY DEF Owners
      <3>2. CASE /\ stored[k] = Absent /\ stored'[k] = Processing
                 /\ Owners(k)' = Owners(k) \cup {r} /\ lost' = lost
        <4>1. Cardinality(Owners(k)) + lost[k] <= lapses[k] /\ lost[k] <= lapses[k]
          BY <1>2, <1>3, <3>2 DEF OwnersBounded, Claimed
        <4>2. Claimed(k)' = 1
          BY <3>2 DEF Claimed
        <4>3. Cardinality(Owners(k)') <= Cardinality(Owners(k)) + 1 /\ Cardinality(Owners(k)') \in Nat
          <5>1. Owners(k) \cup {r} \in SUBSET Bookings
            BY <3>1
          <5> QED BY <3>1, <3>2, <5>1, RequestCount
        <4>4. lapses' = lapses
          BY <1>4, OwnersOfStep
        <4> QED BY <1>2, <3>2, <4>1, <4>2, <4>3, <4>4
      <3>3. CASE /\ r \in Owners(k) /\ Owners(k)' = Owners(k) \ {r}
                 /\ \/ lost'[k] = lost[k]
                    \/ stored[k].status \in Responses /\ lost'[k] = lost[k] + 1
        <4>1. Cardinality(Owners(k)') = Cardinality(Owners(k)) - 1
          BY <3>1, <3>3, RequestCount
        <4>2. Claimed(k) \in {0, 1} /\ Claimed(k)' \in {0, 1}
          BY DEF Claimed
        <4>3. lapses' = lapses
          BY <1>4, OwnersOfStep
        <4>4. stored[k].status \in Responses => Claimed(k) = 0
          BY <1>3 DEF Claimed
        <4>5. Cardinality(Owners(k)') \in Nat
          BY <3>1, <3>3, RequestCount
        <4> QED BY <1>2, <3>3, <4>1, <4>2, <4>3, <4>4, <4>5 DEF OwnersBounded
      <3>4. CASE stored' = stored /\ lost' = lost /\ Owners(k)' \subseteq Owners(k)
        <4>1. Cardinality(Owners(k)') <= Cardinality(Owners(k)) /\ Cardinality(Owners(k)') \in Nat
          BY <3>1, <3>4, RequestCount
        <4>2. Claimed(k)' = Claimed(k) /\ Claimed(k) \in {0, 1}
          BY <3>4 DEF Claimed
        <4>3. lapses' = lapses
          BY <1>4, OwnersOfStep
        <4> QED BY <1>2, <3>4, <4>1, <4>2, <4>3 DEF OwnersBounded
      <3>5. \/ /\ stored[k] = Absent /\ stored'[k] = Processing
               /\ Owners(k)' = Owners(k) \cup {r} /\ lost' = lost
            \/ /\ r \in Owners(k) /\ Owners(k)' = Owners(k) \ {r}
               /\ \/ lost'[k] = lost[k]
                  \/ stored[k].status \in Responses /\ lost'[k] = lost[k] + 1
            \/ stored' = stored /\ lost' = lost /\ Owners(k)' \subseteq Owners(k)
        <4>1. \/ /\ stored[rkey[r]] = Absent /\ stored'[rkey[r]] = Processing
                 /\ Owners(rkey[r])' = Owners(rkey[r]) \cup {r} /\ lost' = lost
              \/ /\ r \in Owners(rkey[r]) /\ Owners(rkey[r])' = Owners(rkey[r]) \ {r}
                 /\ \/ lost'[rkey[r]] = lost[rkey[r]]
                    \/ /\ stored[rkey[r]].status \in Responses
                       /\ lost'[rkey[r]] = lost[rkey[r]] + 1
              \/ /\ stored' = stored /\ lost' = lost
                 /\ Owners(rkey[r])' \subseteq Owners(rkey[r])
          BY <1>4, OwnersOfStep
        <4>2. rkey' = rkey
          BY <1>4, HandlersGo DEF Goto
        <4> QED BY <2>2, <4>1, <4>2 DEF Owners
      <3> QED BY <3>2, <3>3, <3>4, <3>5
    <2> QED BY <2>1, <2>2
  <1>5. ASSUME NEW k \in Keys, Lapse(k)
        PROVE  OwnersBounded'
    <2>1. \A j \in Keys : Owners(j)' = Owners(j)
      BY <1>5 DEF Lapse, Owners
    <2>2. \A j \in Keys \ {k} : lapses'[j] = lapses[j] /\ Claimed(j)' = Claimed(j)
      BY <1>1, <1>5 DEF Lapse, Store, Claimed, KeysTypeOK
    <2>3. /\ Claimed(k)' = 0 /\ Claimed(k) \in {0, 1} /\ lost' = lost
          /\ lapses'[k] = lapses[k] + Claimed(k)
      BY <1>1, <1>2, <1>3, <1>5 DEF Lapse, Store, Claimed, KeysTypeOK
    <2> QED BY <1>2, <2>1, <2>2, <2>3 DEF OwnersBounded
  <1>6. ASSUME NEW r \in Bookings, NEW k \in Keys, NEW s \in Seats, Receive(r, k, s)
        PROVE  OwnersBounded'
    <2>1. \A j \in Keys : Owners(j)' = Owners(j)
      BY <1>1, <1>6 DEF Receive, At, Owners, OwnerPcs, RequestsTypeOK
    <2> QED BY <1>6, <2>1 DEF Receive, OwnersBounded, Claimed
  <1>7. CASE UNCHANGED <<stored, lapses, lost, pc, rkey>>
    BY <1>7 DEF OwnersBounded, Owners, Claimed
  <1>8. CASE \E r \in Bookings : Handle(r) \/ Fail(r)
    BY <1>4, <1>8 DEF OwnersBounded
  <1> QED BY <1>5, <1>6, <1>7, <1>8 DEF Next, Settle, idemVars, vars

\* Both invariants together.
LEMMA OwnersInvariant == Spec => [](IdemInv /\ OwnersBounded)
  <1>1. Init => OwnersBounded
    <2> SUFFICES ASSUME Init, NEW k \in Keys
                 PROVE  /\ Cardinality(Owners(k)) + lost[k] <= lapses[k] + Claimed(k)
                        /\ lost[k] <= lapses[k]
      BY DEF OwnersBounded
    <2>1. Owners(k) = {}
      BY DEF Init, Owners, OwnerPcs
    <2>2. lapses[k] = 0 /\ lost[k] = 0 /\ Claimed(k) \in {0, 1}
      BY DEF Init, Claimed
    <2> QED BY <2>1, <2>2, FS_EmptySet
  <1> QED BY <1>1, IdemInvariant, OwnersStep, PTL DEF Spec

-----------------------------------------------------------------------------
(* The theorems.                                                            *)

\* Keys hold claims and responses, never failures, and a request that has
\* started has a key and a seat.
THEOREM IdempotencyTypeCorrect == Spec => []IdempotencyTypeOK
  <1>1. IdemInv => IdempotencyTypeOK
    BY DEF IdemInv, LedgerInv, KeysTypeOK, RequestsTypeOK, IdempotencyTypeOK
  <1> QED BY <1>1, IdemInvariant, PTL

\* Whatever the retries, the lapsed claims and the crashes, a key makes one
\* booking at most.
THEOREM KeysBookOnce == Spec => []OneBookingPerKey
  <1>1. IdemInv => OneBookingPerKey
    BY DEF IdemInv
  <1> QED BY <1>1, IdemInvariant, PTL

\* A success names a booking that was made with the request's key for its seat.
THEOREM SuccessesAreTrue == Spec => []AnswersAreTrue
  <1>1. IdemInv => AnswersAreTrue
    BY DEF IdemInv, AnsweredAreTrue, AnsweredTruly, Made, AnswersAreTrue
  <1> QED BY <1>1, IdemInvariant, PTL

\* At most one request goes on per key, and one more for every lapsed claim.
THEOREM OwnersAreFew == Spec => []OwnersWithinLapses
  <1>1. IdemInv /\ OwnersBounded => OwnersWithinLapses
    <2> SUFFICES ASSUME IdemInv, OwnersBounded, NEW k \in Keys
                 PROVE  Cardinality(Owners(k)) <= 1 + lapses[k]
      BY DEF OwnersWithinLapses
    <2>1. lapses[k] \in Nat /\ lost[k] \in Nat
      BY IdempotencyAssumption DEF IdemInv, KeysTypeOK
    <2>2. Owners(k) \in SUBSET Bookings
      BY DEF Owners
    <2>3. Cardinality(Owners(k)) \in Nat
      BY <2>2, RequestCount
    <2>4. Cardinality(Owners(k)) + lost[k] <= lapses[k] + Claimed(k) /\ Claimed(k) \in {0, 1}
      BY DEF OwnersBounded, Claimed
    <2> QED BY <2>1, <2>3, <2>4
  <1> QED BY <1>1, OwnersInvariant, PTL

\* Requests, retried and failing as they may, do to the tables what the ledger
\* does, and so keep to the orderly sale.
THEOREM RequestsImplementSale == Spec => LedgerSpec /\ ImplementsSale
  <1>1. Init => LedgerInit
    BY DEF Init
  <1>2. IdemInv /\ [Next]_vars => [LedgerNext]_ledgerVars
    BY RowsStay DEF IdemInv, LedgerInv
  <1>3. Spec => LedgerSpec
    BY <1>1, <1>2, IdemInvariant, PTL DEF Spec, LedgerSpec
  <1> QED BY <1>3, LedgerImplementsSale

\* A stored answer is taken away or replaced before its day is over at most once
\* for every claim that has lapsed: each time by an owner that the lapse has left
\* without a claim, and that is none any more afterwards.
THEOREM ResponsesStay == Spec => []AnswersAreKept
  <1>1. OwnersBounded => AnswersAreKept
    BY DEF OwnersBounded, AnswersAreKept
  <1> QED BY <1>1, OwnersInvariant, PTL

-----------------------------------------------------------------------------
(* The page's requests.                                                     *)

Started(r) == pc[r] # "idle"

\* A response, stored or answered, is for the seat that a request with its key
\* asked for.
ResponsesFit ==
    /\ \A r \in Bookings : answer[r].status \in Responses => answer[r].seat = rseat[r]
    /\ \A k \in Keys :
        stored[k].status \in Responses =>
            \E r \in Bookings : Started(r) /\ rkey[r] = k /\ rseat[r] = stored[k].seat

\* The panel's request is the present attempt's, and those the page still waits
\* for have been sent.
WaitsForAttempt ==
    /\ \A r \in Awaited : r \in Bookings /\ Started(r)
    /\ waiting # Nil => rkey[waiting] = attempt.key /\ attempt.seat \in Seats

\* A key is spent once its response has been heard, and only one request with a
\* key is listened to: another panel has another key.
KeysAreSpent ==
    /\ \A k \in heard : \E r \in Bookings : Started(r) /\ rkey[r] = k
    /\ attempt.seat \in Seats =>
        /\ attempt.key \notin heard
        /\ \E r \in Bookings : Started(r) /\ rkey[r] = attempt.key
        /\ \A r \in left : rkey[r] # attempt.key
    /\ \A q, r \in Awaited : rkey[q] = rkey[r] => q = r

\* A key in use has its seat: no request has gone out with it for another one.
OneSeatPerKey ==
    /\ \A q, r \in Bookings :
        Started(q) /\ Started(r) /\ rkey[q] = rkey[r] => rseat[q] = rseat[r]
    /\ attempt.seat \in Seats =>
        \A r \in Bookings : Started(r) /\ rkey[r] = attempt.key => rseat[r] = attempt.seat

AttemptInv ==
    /\ IdemInv /\ ResponsesFit /\ WaitsForAttempt
    /\ client = "page" => OneSeatPerKey
    /\ NeverWrongSeat
    /\ KeysAreSpent /\ NoStaleAnswer

\* Whatever the client does, the server sees requests.
LEMMA AttemptsAreRequests == [AttemptNext]_allVars => [Next]_vars
  BY DEF AttemptNext, allVars, Click, Scripted, GetSeat, GetInLine, Refused, GiveUp, Navigate,
         Reload, Settles, Next

\* A request that has started keeps its key and its seat.
LEMMA StartedStay ==
    ASSUME IdemInv, [Next]_vars
    PROVE  \A r \in Bookings :
            Started(r) => Started(r)' /\ rkey'[r] = rkey[r] /\ rseat'[r] = rseat[r]
  <1>1. RequestsTypeOK
    BY DEF IdemInv
  <1>2. ASSUME NEW q \in Bookings, NEW k \in Keys, NEW s \in Seats, Receive(q, k, s),
               NEW r \in Bookings, Started(r)
        PROVE  Started(r)' /\ rkey'[r] = rkey[r] /\ rseat'[r] = rseat[r]
    BY <1>1, <1>2 DEF Receive, At, Started, RequestsTypeOK
  <1>3. ASSUME NEW q \in Bookings, Handle(q) \/ Fail(q), NEW r \in Bookings, Started(r)
        PROVE  Started(r)' /\ rkey'[r] = rkey[r] /\ rseat'[r] = rseat[r]
    <2>1. PICK label \in PCs \ {"idle"}, a \in Values : Goto(q, label, a)
      BY <1>3, HandlersGo
    <2> QED BY <1>1, <1>3, <2>1 DEF Goto, Started, RequestsTypeOK
  <1>4. CASE UNCHANGED <<pc, rkey, rseat>>
    BY <1>4 DEF Started
  <1> QED BY <1>2, <1>3, <1>4 DEF Next, Lapse, Settle, idemVars, vars

\* Responses come from a request for their seat and go to requests for it.
LEMMA ResponsesStep ==
    ASSUME IdemInv, ResponsesFit, [Next]_vars
    PROVE  ResponsesFit'
  <1>1. KeysTypeOK /\ RequestsTypeOK /\ PlacesFit
    BY DEF IdemInv
  <1>2. /\ Absent.status \notin Responses /\ Processing.status \notin Responses
        /\ \A status \in Rebuffs \cup Failures : Plain(status).status \notin Responses
    BY PlainValues DEF Responses, Rebuffs, Failures
  <1>3. \A r \in Bookings :
            Started(r) => Started(r)' /\ rkey'[r] = rkey[r] /\ rseat'[r] = rseat[r]
    BY StartedStay
  <1>4. ASSUME stored' = stored
        PROVE  \A k \in Keys :
                stored'[k].status \in Responses =>
                    \E r \in Bookings : Started(r)' /\ rkey'[r] = k /\ rseat'[r] = stored'[k].seat
    BY <1>3, <1>4 DEF ResponsesFit
  <1>5. ASSUME NEW r \in Bookings, Handle(r) \/ Fail(r)
        PROVE  ResponsesFit'
    <2>1. PICK label \in PCs \ {"idle"}, a \in Values : Goto(r, label, a)
      BY <1>5, HandlersGo
    <2>2. /\ rseat' = rseat /\ rkey[r] \in Keys /\ Started(r)
          /\ \A q \in Bookings \ {r} : answer'[q] = answer[q]
      BY <1>1, <1>5, <2>1, HandlersGo DEF Goto, RequestsTypeOK, Started
    <2>3. answer'[r].status \in Responses => answer'[r].seat = rseat[r]
      <3>1. /\ Value("queued", Nil, rseat[r]).seat = rseat[r]
            /\ Value("pending", r, rseat[r]).seat = rseat[r]
        BY DEF Value
      <3>2. "wrong_seat" \in Rebuffs
        BY DEF Rebuffs
      <3>3. answer[r].status \in Responses => answer[r].seat = rseat[r]
        BY DEF ResponsesFit
      <3> QED BY <1>2, <1>5, <3>1, <3>2, <3>3, AnswerGiven
    <2>4. \A q \in Bookings : answer'[q].status \in Responses => answer'[q].seat = rseat'[q]
      BY <2>2, <2>3 DEF ResponsesFit
    <2>5. \/ stored' = stored
          \/ \E v \in {Processing, Absent, answer[r]} : Store(rkey[r], v)
      BY <1>5 DEF Handle, Fail, Claim, FindAnswer, GiveUpPolling, TurnAway, FindSoldOut,
                  TakeSeat, Book, BookFails, BookUnknown, SaveAnswer, Leave, Drop, Replace
    <2>6. ASSUME NEW v \in {Processing, Absent, answer[r]}, Store(rkey[r], v),
                 NEW k \in Keys, stored'[k].status \in Responses
          PROVE  \E q \in Bookings : Started(q)' /\ rkey'[q] = k /\ rseat'[q] = stored'[k].seat
      <3>1. CASE k = rkey[r]
        <4>1. stored'[k] = v /\ v = answer[r]
          BY <1>1, <1>2, <2>6, <3>1 DEF Store, KeysTypeOK
        <4>2. v.seat = rseat[r]
          BY <2>6, <4>1 DEF ResponsesFit
        <4> QED BY <1>3, <2>2, <3>1, <4>1, <4>2
      <3>2. CASE k # rkey[r]
        <4>1. stored'[k] = stored[k]
          BY <1>1, <2>6, <3>2 DEF Store, KeysTypeOK
        <4>2. PICK q \in Bookings : Started(q) /\ rkey[q] = k /\ rseat[q] = stored[k].seat
          BY <2>6, <4>1 DEF ResponsesFit
        <4> QED BY <1>3, <4>1, <4>2
      <3> QED BY <3>1, <3>2
    <2> QED BY <1>4, <2>4, <2>5, <2>6 DEF ResponsesFit
  <1>6. ASSUME NEW r \in Bookings, NEW k \in Keys, NEW s \in Seats, Receive(r, k, s)
        PROVE  ResponsesFit'
    <2>1. answer[r].status = "absent" /\ answer' = answer /\ stored' = stored
      BY <1>1, <1>6 DEF Receive, At, PlacesFit
    <2>2. \A q \in Bookings \ {r} : rseat'[q] = rseat[q]
      BY <1>1, <1>6 DEF Receive, RequestsTypeOK
    <2>3. "absent" \notin Responses
      BY DEF Responses
    <2> QED BY <1>4, <2>1, <2>2, <2>3 DEF ResponsesFit
  <1>7. ASSUME NEW k \in Keys, Lapse(k)
        PROVE  ResponsesFit'
    <2>1. stored' = [stored EXCEPT ![k] = Absent] /\ UNCHANGED <<pc, rkey, rseat, answer>>
      BY <1>7 DEF Lapse, Store
    <2> QED BY <1>1, <1>2, <2>1 DEF ResponsesFit, KeysTypeOK, Started
  <1>8. CASE UNCHANGED <<stored, pc, rkey, rseat, answer>>
    BY <1>8 DEF ResponsesFit, Started
  <1> QED BY <1>5, <1>6, <1>7, <1>8 DEF Next, Settle, idemVars, vars

\* What the page knows of its requests after a click: the key is fresh, or that of
\* an attempt whose earlier request it has given up.
LEMMA ClickStep ==
    ASSUME IdemInv, WaitsForAttempt, KeysAreSpent, NoStaleAnswer,
           NEW q \in Bookings, NEW k \in Keys, NEW s \in Seats, Click(q, k, s)
    PROVE  WaitsForAttempt' /\ KeysAreSpent' /\ NoStaleAnswer'
  <1>1. RequestsTypeOK /\ AttemptNext
    BY DEF IdemInv, AttemptNext
  <1>2. /\ pc'[q] = "claim" /\ rkey'[q] = k /\ ~Started(q) /\ Started(q)'
        /\ attempt'.key = k /\ attempt'.seat = s /\ waiting' = q
        /\ left' = left /\ heard' = heard /\ waiting = Nil
    BY <1>1 DEF Click, Receive, At, Started, RequestsTypeOK
  <1>3. \A r \in Bookings :
            Started(r) => Started(r)' /\ rkey'[r] = rkey[r] /\ rseat'[r] = rseat[r]
    BY <1>1, StartedStay, AttemptsAreRequests
  <1>4. Awaited = left /\ Awaited' = left \cup {q}
    BY <1>2, AttemptAssumption DEF Awaited
  <1>5. \A r \in left : r \in Bookings /\ Started(r) /\ rkey[r] # k /\ r # q
    <2>1. \A r \in left : r \in Bookings /\ Started(r) /\ r # q
      BY <1>2, <1>4 DEF WaitsForAttempt
    <2>2. \A r \in left : rkey[r] # k
      BY <2>1 DEF Click, KeyFor, FreshKeys, KeysAreSpent
    <2> QED BY <2>1, <2>2
  <1>6. k \notin heard
    BY DEF Click, KeyFor, FreshKeys, KeysAreSpent
  <1>7. WaitsForAttempt'
    BY <1>2, <1>3, <1>4, <1>5 DEF WaitsForAttempt
  <1>8. NoStaleAnswer'
    BY <1>2, <1>3, <1>4, <1>5, <1>6 DEF NoStaleAnswer
  <1>9. KeysAreSpent'
    <2>1. \A j \in heard' : \E r \in Bookings : Started(r)' /\ rkey'[r] = j
      BY <1>2, <1>3 DEF KeysAreSpent
    <2>2. \A r \in left' : rkey'[r] # attempt'.key
      BY <1>2, <1>3, <1>5
    <2>3. \A p, r \in Awaited' : rkey'[p] = rkey'[r] => p = r
      BY <1>2, <1>3, <1>4, <1>5 DEF KeysAreSpent
    <2> QED BY <1>2, <1>6, <2>1, <2>2, <2>3 DEF KeysAreSpent
  <1> QED BY <1>7, <1>8, <1>9

\* Every other step: the page waits for fewer requests or as many, and hears a
\* response only of one that it then waits for no more, in an attempt that ends
\* with it or has another key.
LEMMA OtherPageSteps ==
    ASSUME WaitsForAttempt, KeysAreSpent, [AttemptNext]_allVars,
           ~\E q \in Bookings, k \in Keys, s \in Seats : Click(q, k, s)
    PROVE  /\ Awaited' \subseteq Awaited
           /\ \/ attempt' = NoAttempt /\ waiting' = Nil
              \/ /\ attempt' = attempt /\ waiting' \in {waiting, Nil}
                 /\ left' \subseteq left
           /\ \/ heard' = heard
              \/ \E r \in Awaited :
                    /\ r \notin Awaited' /\ heard' = heard \cup {rkey[r]}
                    /\ attempt' = NoAttempt \/ (attempt.seat \in Seats => rkey[r] # attempt.key)
  <1>1. ASSUME NEW r \in Bookings, Settles(r)
        PROVE  /\ Awaited' = Awaited \ {r} /\ r \in Awaited
               /\ waiting' \in {waiting, Nil} /\ left' \subseteq left
               /\ waiting = r => waiting' = Nil
               /\ waiting # r => r \in left
    BY <1>1, AttemptAssumption DEF Settles, Awaited
  <1>2. ASSUME NEW remaining, Unmount(remaining)
        PROVE  Awaited' = remaining
    BY <1>2 DEF Unmount, Awaited
  <1>3. ASSUME NEW r \in Bookings, GetSeat(r)
        PROVE  /\ Awaited' = Awaited \ {r} /\ r \in Awaited
               /\ attempt' = NoAttempt /\ waiting' = Nil /\ heard' = heard \cup {rkey[r]}
    BY <1>2, <1>3 DEF GetSeat, Unmount
  <1>4. ASSUME NEW r \in Bookings, GetInLine(r)
        PROVE  /\ heard' = heard \cup {rkey[r]}
               /\ attempt' = (IF waiting = r THEN NoAttempt ELSE attempt)
               /\ waiting # r => r \in left
    BY <1>1, <1>4 DEF GetInLine, EndsAttempt
  <1>5. ASSUME NEW r \in Bookings, Refused(r) \/ GiveUp(r)
        PROVE  /\ Settles(r) /\ heard' = heard
               /\ attempt' = attempt \/ (waiting = r /\ attempt' = NoAttempt)
    BY <1>5 DEF Refused, GiveUp, EndsAttempt
  <1>6. CASE Navigate \/ Reload
    BY <1>2, <1>6 DEF Navigate, Reload, Unmount
  <1>7. CASE UNCHANGED clientVars
    BY <1>7 DEF clientVars, Awaited
  <1>8. CASE \E r \in Bookings : GetSeat(r)
    BY <1>3, <1>8
  <1>9. CASE \E r \in Bookings : GetInLine(r)
    <2>1. PICK r \in Bookings : GetInLine(r)
      BY <1>9
    <2>2. Settles(r)
      BY <2>1 DEF GetInLine
    <2>3. waiting # r /\ attempt.seat \in Seats => rkey[r] # attempt.key
      BY <1>4, <2>1 DEF KeysAreSpent
    <2> QED BY <1>1, <1>4, <2>1, <2>2, <2>3
  <1>10. CASE \E r \in Bookings : Refused(r) \/ GiveUp(r)
    BY <1>1, <1>5, <1>10
  <1> QED BY <1>6, <1>7, <1>8, <1>9, <1>10 DEF AttemptNext, Scripted, allVars

\* What the page knows of its requests stays true.
LEMMA PageStep ==
    ASSUME IdemInv, WaitsForAttempt, KeysAreSpent, NoStaleAnswer, [AttemptNext]_allVars
    PROVE  WaitsForAttempt' /\ KeysAreSpent' /\ NoStaleAnswer'
  <1>1. CASE \E q \in Bookings, k \in Keys, s \in Seats : Click(q, k, s)
    BY <1>1, ClickStep
  <1>2. CASE ~\E q \in Bookings, k \in Keys, s \in Seats : Click(q, k, s)
    <2>1. /\ Awaited' \subseteq Awaited
          /\ \/ attempt' = NoAttempt /\ waiting' = Nil
             \/ /\ attempt' = attempt /\ waiting' \in {waiting, Nil}
                /\ left' \subseteq left
          /\ \/ heard' = heard
             \/ \E r \in Awaited :
                   /\ r \notin Awaited' /\ heard' = heard \cup {rkey[r]}
                   /\ attempt' = NoAttempt \/ (attempt.seat \in Seats => rkey[r] # attempt.key)
      BY <1>2, OtherPageSteps
    <2>2. \A r \in Bookings :
            Started(r) => Started(r)' /\ rkey'[r] = rkey[r] /\ rseat'[r] = rseat[r]
      BY StartedStay, AttemptsAreRequests
    <2>3. \A r \in Awaited : r \in Bookings /\ Started(r) /\ Started(r)' /\ rkey'[r] = rkey[r]
      BY <2>2 DEF WaitsForAttempt
    <2>4. NoAttempt.seat \notin Seats
      BY NilAssumption DEF NoAttempt
    <2>5. WaitsForAttempt'
      <3>1. waiting' # Nil => waiting' = waiting /\ attempt' = attempt /\ waiting \in Awaited
        BY <2>1 DEF Awaited
      <3> QED BY <2>1, <2>3, <3>1 DEF WaitsForAttempt
    <2>6. NoStaleAnswer'
      BY <2>1, <2>3 DEF NoStaleAnswer, KeysAreSpent
    <2>7. KeysAreSpent'
      <3>1. \A j \in heard' : \E r \in Bookings : Started(r)' /\ rkey'[r] = j
        BY <2>1, <2>2, <2>3 DEF KeysAreSpent
      <3>2. \A q, r \in Awaited' : rkey'[q] = rkey'[r] => q = r
        BY <2>1, <2>3 DEF KeysAreSpent
      <3>3. ASSUME attempt'.seat \in Seats
            PROVE  /\ attempt'.key \notin heard'
                   /\ \E r \in Bookings : Started(r)' /\ rkey'[r] = attempt'.key
                   /\ \A r \in left' : rkey'[r] # attempt'.key
        <4>1. attempt' = attempt /\ attempt' # NoAttempt /\ left' \subseteq left
          BY <2>1, <2>4, <3>3
        <4>2. attempt.key \notin heard'
          BY <2>1, <3>3, <4>1 DEF KeysAreSpent
        <4>3. left \subseteq Awaited
          BY DEF Awaited
        <4>4. \E r \in Bookings : Started(r)' /\ rkey'[r] = attempt.key
          BY <2>2, <3>3, <4>1 DEF KeysAreSpent
        <4>5. \A r \in left' : rkey'[r] # attempt.key
          BY <2>3, <3>3, <4>1, <4>3 DEF KeysAreSpent
        <4> QED BY <4>1, <4>2, <4>4, <4>5
      <3> QED BY <3>1, <3>2, <3>3 DEF KeysAreSpent
    <2> QED BY <2>5, <2>6, <2>7
  <1> QED BY <1>1, <1>2

\* The page draws a fresh key, or has it from the attempt for the same seat.
LEMMA OneSeatStep ==
    ASSUME IdemInv, client = "page", OneSeatPerKey, [AttemptNext]_allVars
    PROVE  OneSeatPerKey'
  <1>1. RequestsTypeOK
    BY DEF IdemInv
  <1>2. ASSUME NEW q \in Bookings, NEW k \in Keys, NEW s \in Seats, Click(q, k, s)
        PROVE  OneSeatPerKey'
    <2>1. /\ rkey'[q] = k /\ rseat'[q] = s
          /\ \A r \in Bookings \ {q} :
                rkey'[r] = rkey[r] /\ rseat'[r] = rseat[r] /\ pc'[r] = pc[r]
      BY <1>1, <1>2 DEF Click, Receive, RequestsTypeOK
    <2>2. \A r \in Bookings : Started(r) /\ rkey[r] = k => rseat[r] = s
      BY <1>2 DEF Click, KeyFor, FreshKeys, OneSeatPerKey
    <2>3. attempt'.key = k /\ attempt'.seat = s
      BY <1>2 DEF Click
    <2> QED BY <2>1, <2>2, <2>3 DEF OneSeatPerKey, Started
  <1>3. \A r \in Bookings :
            Started(r) => Started(r)' /\ rkey'[r] = rkey[r] /\ rseat'[r] = rseat[r]
    BY StartedStay, AttemptsAreRequests
  <1>4. CASE UNCHANGED pc
    <2>1. \/ attempt' = attempt
          \/ attempt' = NoAttempt
          \/ \E q \in Bookings, k \in Keys, s \in Seats : Click(q, k, s)
      BY DEF AttemptNext, GetSeat, GetInLine, Refused, GiveUp, EndsAttempt, Navigate, Reload,
             Unmount, Scripted, allVars, clientVars
    <2>2. NoAttempt.seat \notin Seats
      BY NilAssumption DEF NoAttempt
    <2> QED BY <1>2, <1>3, <1>4, <2>1, <2>2 DEF OneSeatPerKey, Started
  <1>5. ASSUME NEW q \in Bookings, Handle(q) \/ Fail(q), UNCHANGED clientVars
        PROVE  OneSeatPerKey'
    <2>1. PICK label \in PCs \ {"idle"}, a \in Values : Goto(q, label, a)
      BY <1>5, HandlersGo
    <2>2. \A r \in Bookings : Started(r)' => Started(r)
      BY <1>1, <1>5, <2>1, HandlersGo DEF Goto, RequestsTypeOK, Started
    <2> QED BY <1>3, <1>5, <2>2 DEF OneSeatPerKey, clientVars
  <1> QED BY <1>2, <1>4, <1>5
          DEF AttemptNext, Scripted, GetSeat, GetInLine, Refused, GiveUp, Navigate, Reload,
              Settles, Lapse, Settle, idemVars, vars, allVars

\* A client does not change what it is.
LEMMA ClientStays == [AttemptNext]_allVars => client' = client
  BY DEF AttemptNext, Click, Scripted, GetSeat, GetInLine, Refused, GiveUp, Navigate, Reload,
         Settles, allVars, clientVars

\* What a page finds under its key is for the seat it asks for.
LEMMA NeverWrongStep ==
    ASSUME AttemptInv, [AttemptNext]_allVars
    PROVE  NeverWrongSeat'
  <1>1. /\ KeysTypeOK /\ RequestsTypeOK /\ PlacesFit /\ ResponsesFit
        /\ client = "page" => OneSeatPerKey /\ \A r \in Bookings : answer[r].status # "wrong_seat"
    BY DEF AttemptInv, IdemInv, NeverWrongSeat
  <1>2. client' = client
    BY ClientStays
  <1>3. SUFFICES ASSUME client = "page", NEW r \in Bookings, answer'[r] # answer[r]
                 PROVE  answer'[r].status # "wrong_seat"
    BY <1>1, <1>2 DEF NeverWrongSeat
  <1>4. Handle(r) \/ Fail(r)
    <2>1. \E q \in Bookings : Handle(q) \/ Fail(q)
      BY <1>3 DEF AttemptNext, Click, Scripted, Receive, GetSeat, GetInLine, Refused, GiveUp,
                  Navigate, Reload, Settles, Lapse, Settle, idemVars, vars, allVars
    <2>2. PICK q \in Bookings : Handle(q) \/ Fail(q)
      BY <2>1
    <2>3. answer'[r] # answer[r] => q = r
      <3>1. PICK label \in PCs \ {"idle"}, a \in Values : Goto(q, label, a)
        BY <1>1, <2>2, HandlersGo DEF AttemptInv
      <3> QED BY <1>1, <3>1 DEF Goto, RequestsTypeOK
    <2> QED BY <1>3, <2>2, <2>3
  <1>5. Started(r) /\ rkey[r] \in Keys
    BY <1>1, <1>4, HandlersGo DEF AttemptInv, RequestsTypeOK, Started
  <1>6. stored[rkey[r]].status \in Responses => stored[rkey[r]].seat = rseat[r]
    BY <1>1, <1>3, <1>5 DEF ResponsesFit, OneSeatPerKey
  <1>7. /\ Absent.status # "wrong_seat"
        /\ Value("queued", Nil, rseat[r]).status # "wrong_seat"
        /\ Value("pending", r, rseat[r]).status # "wrong_seat"
        /\ \A status : Plain(status).status = status
        /\ "wrong_seat" \notin Responses
    BY DEF Absent, Plain, Value, Responses
  <1> QED BY <1>3, <1>4, <1>6, <1>7, AnswerGiven DEF AttemptInv

\* The invariant of the page's steps.
LEMMA AttemptInvariant == AttemptSpec => []AttemptInv
  <1>1. AttemptInit => AttemptInv
    <2> SUFFICES ASSUME AttemptInit PROVE AttemptInv
      OBVIOUS
    <2>1. IdemInv /\ Init
      BY IdemInit DEF AttemptInit
    <2>2. Absent.status \notin Responses /\ Absent.status # "wrong_seat"
      BY PlainValues DEF Responses
    <2>3. \A r \in Bookings : ~Started(r)
      BY <2>1 DEF Init, Started
    <2>4. ResponsesFit /\ NeverWrongSeat
      BY <2>1, <2>2 DEF Init, ResponsesFit, NeverWrongSeat
    <2>5. WaitsForAttempt /\ KeysAreSpent /\ NoStaleAnswer
      <3>1. Awaited = {} /\ attempt.seat \notin Seats /\ heard = {} /\ waiting = Nil
        BY NilAssumption DEF AttemptInit, Awaited, NoAttempt
      <3> QED BY <3>1 DEF WaitsForAttempt, KeysAreSpent, NoStaleAnswer
    <2>6. OneSeatPerKey
      BY <2>3 DEF OneSeatPerKey
    <2> QED BY <2>1, <2>4, <2>5, <2>6 DEF AttemptInv
  <1>2. AttemptInv /\ [AttemptNext]_allVars => AttemptInv'
    <2> SUFFICES ASSUME AttemptInv, [AttemptNext]_allVars PROVE AttemptInv'
      OBVIOUS
    <2>1. [Next]_vars
      BY AttemptsAreRequests
    <2>2. IdemInv'
      BY <2>1, IdemStep DEF AttemptInv
    <2>3. ResponsesFit'
      BY <2>1, ResponsesStep DEF AttemptInv
    <2>4. WaitsForAttempt' /\ KeysAreSpent' /\ NoStaleAnswer'
      BY PageStep DEF AttemptInv
    <2>5. (client = "page" => OneSeatPerKey)'
      <3>1. client' = client
        BY ClientStays
      <3> QED BY <3>1, OneSeatStep DEF AttemptInv
    <2> QED BY <2>2, <2>3, <2>4, <2>5, NeverWrongStep DEF AttemptInv
  <1> QED BY <1>1, <1>2, PTL DEF AttemptSpec

\* A page, or a script, in front of the server is one of its clients: whatever
\* is proved of every sequence of requests holds for it too.
THEOREM AttemptsImplementRequests == AttemptSpec => Spec
  <1>1. AttemptInit => Init
    BY DEF AttemptInit
  <1> QED BY <1>1, AttemptsAreRequests, PTL DEF AttemptSpec, Spec

\* The page's user never sees the 422 of a key reused for another seat: the key
\* of an attempt is drawn fresh, and a retry for its seat keeps it.
THEOREM PageNeverWrongSeat == AttemptSpec => []NeverWrongSeat
  <1>1. AttemptInv => NeverWrongSeat
    BY DEF AttemptInv
  <1> QED BY <1>1, AttemptInvariant, PTL

\* The page never asks with a key whose response it has heard, so it never acts
\* twice on what the server has stored under one.
THEOREM PageNeverAsksTwice == AttemptSpec => []NoStaleAnswer
  <1>1. AttemptInv => NoStaleAnswer
    BY DEF AttemptInv
  <1> QED BY <1>1, AttemptInvariant, PTL
=============================================================================

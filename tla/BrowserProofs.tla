--------------------------- MODULE BrowserProofs ---------------------------
(***************************************************************************)
(* What one browser may tell its user, for any number of seats, bookings,   *)
(* handlers and requests: the seat map of SeatMapView, and the success      *)
(* screen of Checkout.  The two share the tables and nothing else, so each  *)
(* has an invariant and theorems of its own.                                *)
(***************************************************************************)
EXTENDS SeatMapView, Checkout, SeatLedgerProofs, Naturals

-----------------------------------------------------------------------------
(* The seat map.                                                            *)

\* A handler has changed the seat and has yet to say so.
InHand(s) == \E p \in Procs : news[p] # Nil /\ news[p].seat = s

\* What handlers have in hand is what the table says, one seat each.
NewsTrue ==
    /\ \A p \in Procs : news[p] # Nil =>
        seat[news[p].seat] = IF news[p].status = "undecided" THEN "available" ELSE news[p].status
    /\ \A p, q \in Procs : news[p] # Nil /\ news[q] # Nil /\ news[p].seat = news[q].seat => p = q

\* The last message about a seat nobody has in hand says what the table says.
MessagesTrue ==
    \A i \in 1..Len(inbox) :
        \/ InHand(inbox[i].seat)
        \/ \E j \in 1..Len(inbox) : j > i /\ inbox[j].seat = inbox[i].seat
        \/ inbox[i].status = seat[inbox[i].seat]

\* So does every list, and the map about a seat that nobody has in hand and no
\* message is about, unless a list is still to replace it.
ListsTrue == \A f \in Answered : lists[f] = seat

ShownTrue ==
    \A s \in Seats :
        \/ map[s] = seat[s]
        \/ InHand(s)
        \/ \E i \in 1..Len(inbox) : inbox[i].seat = s
        \/ Answered # {}

MapInv ==
    /\ ViewTypeOK
    /\ LedgerInv
    /\ smooth => joined /\ NewsTrue /\ MessagesTrue /\ ListsTrue /\ ShownTrue

-----------------------------------------------------------------------------
\* Nothing fetched, nothing announced.
LEMMA MapInitInv == ViewInit => MapInv
  <1> SUFFICES ASSUME ViewInit PROVE MapInv
    OBVIOUS
  <1>1. LedgerInv
    BY LedgerInitInv DEF ViewInit
  <1>2. inbox \in Seq(Message) /\ inbox = <<>> /\ Answered = {}
    BY DEF ViewInit, Answered
  <1>3. lists \in [Fetches -> {Blank}] /\ map \in [Seats -> SeatStatus \cup {"unknown"}]
    BY DEF ViewInit, Blank
  <1>4. ViewTypeOK
    BY <1>1, <1>2, <1>3 DEF ViewInit, ViewTypeOK, LedgerInv
  <1> QED BY <1>1, <1>4 DEF ViewInit, MapInv

\* What a message on its way is.
LEMMA MessageAt ==
    ASSUME ViewTypeOK, NEW i \in 1..Len(inbox)
    PROVE  inbox[i] \in Message /\ inbox[i].seat \in Seats
  <1>1. inbox \in Seq(Message)
    BY DEF ViewTypeOK
  <1>2. inbox[i] \in Message
    BY <1>1
  <1> QED BY <1>2 DEF Message

\* The invariant after a step on which smooth is lost is its type part.
LEMMA NotSmooth ==
    ASSUME ViewTypeOK', LedgerInv', ~smooth'
    PROVE  MapInv'
  BY DEF MapInv

\* A handler commits a change of a seat: as long as nothing is overtaken, only
\* what is said of this seat is no longer true, and the handler has it in hand.
LEMMA CommitsInv ==
    ASSUME MapInv, LedgerInv', NEW p \in Procs, NEW s \in Seats,
           NEW status \in SeatStatus \cup {"undecided"},
           news[p] # Nil => news[p].seat = s,
           seat' = [seat EXCEPT ![s] = IF status = "undecided" THEN "available" ELSE status],
           Commits(p, s, status)
    PROVE  MapInv'
  <1> USE DEF MapInv, ViewTypeOK, LedgerInv, LedgerTypeOK
  <1>1. /\ news' = [news EXCEPT ![p] = [seat |-> s, status |-> status]]
        /\ smooth' = (smooth /\ Undisturbed(p, s))
        /\ joined' = joined /\ inbox' = inbox /\ asked' = asked /\ lists' = lists /\ map' = map
    BY DEF Commits
  <1>2. news'[p] = [seat |-> s, status |-> status] /\ news'[p] \in News /\ news'[p] # Nil
    BY <1>1, ViewAssumption DEF News
  <1>3. Answered' = Answered
    BY <1>1 DEF Answered
  <1>4. ViewTypeOK'
    BY <1>1, <1>2, <1>3
  <1>5. CASE smooth /\ Undisturbed(p, s)
    <2>1. /\ joined /\ NewsTrue /\ MessagesTrue /\ ShownTrue
          /\ Answered = {} /\ \A q \in Procs \ {p} : news[q] # Nil => news[q].seat # s
      BY <1>5 DEF Undisturbed
    <2>2. NewsTrue'
      BY <1>1, <1>2, <2>1 DEF NewsTrue, News
    <2>3. InHand(s)' /\ \A r \in Seats : r # s /\ InHand(r) => InHand(r)'
      BY <1>1, <1>2 DEF InHand
    <2>4. ASSUME NEW i \in 1..Len(inbox), NEW r \in Seats, r = inbox[i].seat
          PROVE  \/ InHand(r)'
                 \/ \E j \in 1..Len(inbox) : j > i /\ inbox[j].seat = r
                 \/ inbox[i].status = seat'[r]
      <3>1. CASE r = s
        BY <2>3, <3>1
      <3>2. CASE r # s
        <4>1. seat'[r] = seat[r] /\ (InHand(r) => InHand(r)')
          BY <2>3, <3>2
        <4>2. InHand(r) \/ (\E j \in 1..Len(inbox) : j > i /\ inbox[j].seat = r) \/ inbox[i].status = seat[r]
          BY <2>1, <2>4 DEF MessagesTrue
        <4> QED BY <4>1, <4>2
      <3> QED BY <3>1, <3>2
    <2>5. ListsTrue' /\ ShownTrue'
      BY <1>1, <1>3, <2>1, <2>3 DEF ListsTrue, ShownTrue
    <2>6. MessagesTrue'
      <3> SUFFICES ASSUME NEW i \in 1..Len(inbox)
                   PROVE  \/ \E q \in Procs : news'[q] # Nil /\ news'[q].seat = inbox[i].seat
                          \/ \E j \in 1..Len(inbox) : j > i /\ inbox[j].seat = inbox[i].seat
                          \/ inbox[i].status = seat'[inbox[i].seat]
        BY <1>1 DEF MessagesTrue, InHand
      <3>1. inbox[i].seat \in Seats
        BY MessageAt
      <3> QED BY <2>4, <3>1 DEF InHand
    <2> QED BY <1>1, <1>4, <2>1, <2>2, <2>5, <2>6
  <1>6. CASE ~(smooth /\ Undisturbed(p, s))
    BY <1>1, <1>4, <1>6, NotSmooth
  <1> QED BY <1>5, <1>6

\* Every commit of a handler is one of these.
LEMMA HandlersInv ==
    ASSUME MapInv, NEW p \in Procs, NEW b \in Bookings,
           \/ \E u \in Users : HoldForWaiter(p, b, u) \/ \E s \in Seats : Book(p, b, u, s)
           \/ Pay(p, b) \/ Free(p, b)
    PROVE  MapInv'
  <1> USE DEF MapInv
  <1>1. LedgerInv' 
    BY LedgerStepInv, ViewAssumption DEF HoldForWaiter, Book, Pay, Free, LedgerNext, Undecided, ViewTypeOK, News
  <1>2. ASSUME NEW u \in Users, HoldForWaiter(p, b, u) PROVE MapInv'
    <2>1. news[p] # Nil /\ news[p].seat \in Seats
      BY <1>2 DEF HoldForWaiter, Undecided, ViewTypeOK, News
    <2> QED BY <1>1, <1>2, <2>1, CommitsInv DEF HoldForWaiter, Reserve, SeatStatus
  <1>3. ASSUME NEW u \in Users, NEW s \in Seats, Book(p, b, u, s) PROVE MapInv'
    BY <1>1, <1>3, CommitsInv DEF Book, Reserve, SeatStatus
  <1>4. bstatus[b] # "none" => bseat[b] \in Seats
    BY RowHasSeat DEF LedgerInv
  <1>5. CASE Pay(p, b)
    BY <1>1, <1>4, <1>5, CommitsInv DEF Pay, Confirm, Transition, SeatStatus
  <1>6. CASE Free(p, b)
    <2>1. seat' = [seat EXCEPT ![bseat[b]] = "available"] /\ bstatus[b] # "none"
      BY <1>6 DEF Free, Cancel, Compensate, Expire, Transition, ActiveStatus
    <2> QED BY <1>1, <1>4, <1>6, <2>1, CommitsInv DEF Free
  <1> QED BY <1>2, <1>3, <1>5, <1>6

\* The tables stay as they are in every other step.
LEMMA TablesKept ==
    ASSUME LedgerInv, UNCHANGED ledgerVars
    PROVE  /\ LedgerInv' /\ LedgerTypeOK' /\ LedgerTypeOK
           /\ seat' = seat /\ seat \in [Seats -> SeatStatus]
  BY LedgerStepInv DEF LedgerInv, LedgerTypeOK, ledgerVars

\* What is known of the map while it is smooth, and stays so when only the
\* requests for lists or the room change.
LEMMA ViewKept ==
    ASSUME MapInv, ViewTypeOK', LedgerInv', smooth' => smooth /\ joined',
           UNCHANGED <<seat, news, inbox, lists, map>>
    PROVE  MapInv'
  <1>1. Answered' = Answered
    BY DEF Answered
  <1> QED BY <1>1 DEF MapInv, NewsTrue, MessagesTrue, ListsTrue, ShownTrue, InHand

\* The seat goes back on sale: now there is something to announce.
LEMMA PutOnSaleInv ==
    ASSUME MapInv, NEW p \in Procs, PutOnSale(p)
    PROVE  MapInv'
  <1>1. /\ LedgerInv' /\ LedgerTypeOK' /\ seat' = seat
        /\ joined' = joined /\ inbox' = inbox /\ asked' = asked /\ lists' = lists
        /\ map' = map /\ smooth' = smooth
    BY TablesKept DEF MapInv, PutOnSale, viewVars
  <1>2. /\ news' = [news EXCEPT ![p].status = "available"]
        /\ news[p] \in News /\ news[p].status = "undecided" /\ news[p] # Nil
    BY DEF MapInv, ViewTypeOK, PutOnSale, Undecided
  <1>3. news'[p] = [seat |-> news[p].seat, status |-> "available"] /\ \A q \in Procs : q # p => news'[q] = news[q]
    BY <1>2 DEF MapInv, ViewTypeOK, News
  <1>4. news'[p] \in News /\ news'[p] # Nil
    BY <1>2, <1>3, ViewAssumption DEF News, SeatStatus
  <1>5. Answered' = Answered
    BY <1>1 DEF Answered
  <1>6. ViewTypeOK'
    BY <1>1, <1>2, <1>4, <1>5 DEF MapInv, ViewTypeOK
  <1>7. NewsTrue => NewsTrue'
    BY <1>1, <1>2, <1>3, <1>4 DEF NewsTrue
  <1>8. \A s \in Seats : InHand(s) => InHand(s)'
    BY <1>2, <1>3, <1>4 DEF InHand
  <1>9. MessagesTrue => MessagesTrue'
    <2> SUFFICES ASSUME MessagesTrue, NEW i \in 1..Len(inbox)
                 PROVE  \/ \E q \in Procs : news'[q] # Nil /\ news'[q].seat = inbox[i].seat
                        \/ \E j \in 1..Len(inbox) : j > i /\ inbox[j].seat = inbox[i].seat
                        \/ inbox[i].status = seat[inbox[i].seat]
      BY <1>1 DEF MessagesTrue, InHand
    <2> QED BY <1>8, MessageAt DEF MapInv, MessagesTrue, InHand
  <1>10. ShownTrue => ShownTrue'
    BY <1>1, <1>5, <1>8 DEF ShownTrue
  <1>11. ListsTrue => ListsTrue'
    BY <1>1, <1>5 DEF ListsTrue
  <1> QED BY <1>1, <1>6, <1>7, <1>9, <1>10, <1>11 DEF MapInv

\* The announcement is the last message about its seat, and true.
LEMMA AnnounceInv ==
    ASSUME MapInv, NEW p \in Procs, Announce(p)
    PROVE  MapInv'
  <1>1. /\ LedgerInv' /\ LedgerTypeOK' /\ seat' = seat
        /\ joined' = joined /\ asked' = asked /\ lists' = lists
        /\ map' = map /\ smooth' = smooth
    BY TablesKept DEF MapInv, Announce
  <1>2. /\ news' = [news EXCEPT ![p] = Nil]
        /\ news[p] \in News /\ news[p].status # "undecided" /\ news[p] # Nil
        /\ inbox' = IF joined THEN Append(inbox, news[p]) ELSE inbox
    BY DEF MapInv, ViewTypeOK, Announce, Undecided
  <1>3. news[p] \in Message
    BY <1>2 DEF News, Message
  <1>4. Answered' = Answered
    BY <1>1 DEF Answered
  <1>5. ViewTypeOK'
    <2>1. inbox' \in Seq(Message) /\ (inbox' # <<>> => joined)
      BY <1>2, <1>3 DEF MapInv, ViewTypeOK
    <2> QED BY <1>1, <1>2, <1>4, <2>1 DEF MapInv, ViewTypeOK
  <1>6. CASE smooth
    <2>1. /\ joined /\ NewsTrue /\ MessagesTrue /\ ListsTrue /\ ShownTrue
          /\ inbox \in Seq(Message) /\ inbox' = Append(inbox, news[p])
      BY <1>2, <1>6 DEF MapInv, ViewTypeOK
    <2> DEFINE n == Len(inbox)
    <2>2. /\ n \in Nat /\ Len(inbox') = n + 1 /\ inbox'[n + 1] = news[p]
          /\ \A i \in 1..n : inbox'[i] = inbox[i]
      BY <2>1, <1>3
    <2>3. \A s \in Seats : s # news[p].seat /\ InHand(s) => InHand(s)'
      BY <1>2 DEF InHand, MapInv, ViewTypeOK
    <2>4. NewsTrue'
      BY <1>1, <1>2, <2>1 DEF NewsTrue, MapInv, ViewTypeOK
    <2>5. seat[news[p].seat] = news[p].status
      BY <1>2, <2>1 DEF NewsTrue
    <2> HIDE DEF n
    <2>6. ASSUME NEW i \in 1..n, NEW r \in Seats, r = inbox[i].seat
          PROVE  \/ InHand(r)'
                 \/ \E j \in 1..(n + 1) : j > i /\ inbox'[j].seat = r
                 \/ inbox'[i].status = seat[r]
      <3>1. CASE r = news[p].seat
        BY <2>2, <3>1
      <3>2. CASE r # news[p].seat
        <4>1. InHand(r) \/ (\E j \in 1..n : j > i /\ inbox[j].seat = r) \/ inbox[i].status = seat[r]
          BY <2>1, <2>6 DEF MessagesTrue, n
        <4> QED BY <2>2, <2>3, <3>2, <4>1
      <3> QED BY <3>1, <3>2
    <2>7. MessagesTrue'
      <3> SUFFICES ASSUME NEW i \in 1..(n + 1)
                   PROVE  \/ \E q \in Procs : news'[q] # Nil /\ news'[q].seat = inbox'[i].seat
                          \/ \E j \in 1..(n + 1) : j > i /\ inbox'[j].seat = inbox'[i].seat
                          \/ inbox'[i].status = seat[inbox'[i].seat]
        BY <1>1, <2>2 DEF MessagesTrue, InHand
      <3>1. CASE i = n + 1
        BY <2>2, <2>5, <3>1
      <3>2. CASE i \in 1..n
        <4>1. inbox[i].seat \in Seats
          BY <3>2, MessageAt DEF MapInv, n
        <4> QED BY <2>2, <2>6, <3>2, <4>1 DEF InHand
      <3> QED BY <2>2, <3>1, <3>2
    <2>8. ShownTrue'
      <3> SUFFICES ASSUME NEW s \in Seats
                   PROVE  \/ map[s] = seat[s] \/ InHand(s)' \/ Answered # {}
                          \/ \E i \in 1..(n + 1) : inbox'[i].seat = s
        BY <1>1, <1>4, <2>2 DEF ShownTrue
      <3>1. CASE s = news[p].seat
        BY <2>2, <3>1
      <3>2. CASE s # news[p].seat
        BY <2>1, <2>2, <2>3, <3>2 DEF ShownTrue, n
      <3> QED BY <3>1, <3>2
    <2>9. ListsTrue'
      BY <1>1, <1>4, <2>1 DEF ListsTrue
    <2> QED BY <1>1, <1>5, <2>1, <2>4, <2>7, <2>8, <2>9 DEF MapInv
  <1>7. CASE ~smooth
    BY <1>1, <1>5, <1>7, NotSmooth
  <1> QED BY <1>6, <1>7

\* A message arrives: what it said is now what the map shows.
LEMMA DeliverInv ==
    ASSUME MapInv, Deliver
    PROVE  MapInv'
  <1>1. /\ LedgerInv' /\ LedgerTypeOK' /\ seat' = seat
        /\ joined' = joined /\ asked' = asked /\ lists' = lists
        /\ news' = news /\ smooth' = smooth
    BY TablesKept DEF MapInv, Deliver
  <1> DEFINE n == Len(inbox)
  <1>2. /\ inbox \in Seq(Message) /\ inbox # <<>> /\ inbox' = Tail(inbox)
        /\ map' = [map EXCEPT ![Head(inbox).seat] = Head(inbox).status]
    BY DEF MapInv, ViewTypeOK, Deliver
  <1>3. /\ n \in Nat /\ n > 0 /\ Len(inbox') = n - 1 /\ Head(inbox) = inbox[1]
        /\ \A i \in 1..(n - 1) : inbox'[i] = inbox[i + 1]
        /\ inbox' \in Seq(Message)
    BY <1>2
  <1> HIDE DEF n
  <1>4. inbox[1] \in Message
    BY <1>3, MessageAt DEF MapInv, n
  <1>5. Answered' = Answered
    BY <1>1 DEF Answered
  <1>6. ViewTypeOK'
    <2>1. map' \in [Seats -> SeatStatus \cup {"unknown"}]
      BY <1>2, <1>3, <1>4 DEF MapInv, ViewTypeOK, Message
    <2>2. joined
      BY <1>2 DEF MapInv, ViewTypeOK
    <2> QED BY <1>1, <1>3, <1>5, <2>1, <2>2 DEF MapInv, ViewTypeOK
  <1>7. CASE smooth
    <2>1. joined /\ NewsTrue /\ MessagesTrue /\ ListsTrue /\ ShownTrue
      BY <1>7 DEF MapInv
    <2>2. NewsTrue' /\ ListsTrue'
      BY <1>1, <1>5, <2>1 DEF NewsTrue, ListsTrue
    <2>3. MessagesTrue'
      <3> SUFFICES ASSUME NEW i \in 1..(n - 1)
                   PROVE  \/ \E q \in Procs : news[q] # Nil /\ news[q].seat = inbox'[i].seat
                          \/ \E j \in 1..(n - 1) : j > i /\ inbox'[j].seat = inbox'[i].seat
                          \/ inbox'[i].status = seat[inbox'[i].seat]
        BY <1>1, <1>3 DEF MessagesTrue, InHand
      <3>1. i + 1 \in 1..n /\ inbox'[i] = inbox[i + 1]
        BY <1>3
      <3>2. CASE \E j \in 1..n : j > i + 1 /\ inbox[j].seat = inbox[i + 1].seat
        <4>1. PICK j \in 1..n : j > i + 1 /\ inbox[j].seat = inbox[i + 1].seat
          BY <3>2
        <4>2. j - 1 \in 1..(n - 1) /\ j - 1 > i /\ inbox'[j - 1] = inbox[j]
          BY <1>3, <4>1
        <4> QED BY <3>1, <4>1, <4>2
      <3> QED BY <2>1, <3>1, <3>2 DEF MessagesTrue, InHand, n
    <2>4. ShownTrue'
      <3> SUFFICES ASSUME NEW s \in Seats
                   PROVE  \/ map'[s] = seat[s] \/ InHand(s) \/ Answered # {}
                          \/ \E i \in 1..(n - 1) : inbox'[i].seat = s
        BY <1>1, <1>3, <1>5 DEF ShownTrue, InHand
      <3>1. CASE \E i \in 2..n : inbox[i].seat = s
        <4>1. PICK i \in 2..n : inbox[i].seat = s
          BY <3>1
        <4>2. i - 1 \in 1..(n - 1) /\ inbox'[i - 1] = inbox[i]
          BY <1>3, <4>1
        <4> QED BY <4>1, <4>2
      <3>2. CASE \A i \in 2..n : inbox[i].seat # s
        <4>1. CASE inbox[1].seat = s
          <5>1. InHand(s) \/ inbox[1].status = seat[s]
            BY <1>3, <2>1, <3>2, <4>1 DEF MessagesTrue, n
          <5>2. map'[s] = inbox[1].status
            BY <1>2, <1>3, <4>1 DEF MapInv, ViewTypeOK
          <5> QED BY <5>1, <5>2
        <4>2. CASE inbox[1].seat # s
          <5>1. map'[s] = map[s]
            BY <1>2, <1>3, <4>2 DEF MapInv, ViewTypeOK
          <5>2. \A i \in 1..n : inbox[i].seat # s
            BY <1>3, <3>2, <4>2
          <5> QED BY <2>1, <5>1, <5>2 DEF ShownTrue, n
        <4> QED BY <4>1, <4>2
      <3> QED BY <3>1, <3>2
    <2> QED BY <1>1, <1>6, <2>1, <2>2, <2>3, <2>4 DEF MapInv
  <1>8. CASE ~smooth
    BY <1>1, <1>6, <1>8, NotSmooth
  <1> QED BY <1>7, <1>8

\* A list arrives.  As long as the map is smooth it is the table.
LEMMA ArriveInv ==
    ASSUME MapInv, NEW f \in Fetches, Arrive(f)
    PROVE  MapInv'
  <1>1. /\ LedgerInv' /\ LedgerTypeOK' /\ seat' = seat
        /\ joined' = joined /\ asked' = asked /\ inbox' = inbox
        /\ news' = news /\ smooth' = smooth
    BY TablesKept DEF MapInv, Arrive
  <1>2. /\ lists' = [lists EXCEPT ![f] = Blank] /\ map' = lists[f] /\ f \in Answered
        /\ lists[f] \in [Seats -> SeatStatus]
    BY DEF MapInv, ViewTypeOK, Arrive, Answered
  <1>3. Answered' = Answered \ {f} /\ \A g \in Answered' : lists'[g] = lists[g]
    BY <1>2 DEF Answered, MapInv, ViewTypeOK
  <1>4. ViewTypeOK'
    BY <1>1, <1>2, <1>3 DEF MapInv, ViewTypeOK
  <1>5. smooth => map' = seat
    BY <1>2 DEF MapInv, ListsTrue
  <1> QED BY <1>1, <1>3, <1>4, <1>5 DEF MapInv, NewsTrue, MessagesTrue, ListsTrue, ShownTrue, InHand

\* A list is read.  In calm it makes up for everything that was missed before.
LEMMA ReadSeatsInv ==
    ASSUME MapInv, NEW f \in Fetches, ReadSeats(f)
    PROVE  MapInv'
  <1>1. /\ LedgerInv' /\ LedgerTypeOK' /\ seat' = seat /\ seat \in [Seats -> SeatStatus]
        /\ joined' = joined /\ asked' = asked \ {f} /\ inbox' = inbox
        /\ news' = news /\ map' = map /\ smooth' = (smooth \/ Calm)
    BY TablesKept DEF MapInv, ReadSeats
  <1>2. lists' = [lists EXCEPT ![f] = seat] /\ f \in asked /\ f \notin Answered
    BY DEF MapInv, ViewTypeOK, ReadSeats
  <1>3. /\ Answered' \subseteq Answered \cup {f} /\ Answered \subseteq Answered'
        /\ \A g \in Answered' : lists'[g] = IF g = f THEN seat ELSE lists[g]
    BY <1>2 DEF Answered, MapInv, ViewTypeOK
  <1>4. ViewTypeOK'
    <2>1. smooth' \in BOOLEAN
      BY <1>1
    <2> QED BY <1>1, <1>2, <1>3, <2>1 DEF MapInv, ViewTypeOK
  <1>5. CASE smooth
    <2>1. joined /\ NewsTrue /\ MessagesTrue /\ ListsTrue /\ ShownTrue
      BY <1>5 DEF MapInv
    <2> QED BY <1>1, <1>3, <1>4, <2>1 DEF MapInv, NewsTrue, MessagesTrue, ListsTrue, ShownTrue, InHand
  <1>6. CASE ~smooth /\ Calm
    <2>1. joined' /\ NewsTrue' /\ MessagesTrue'
      BY <1>1, <1>6 DEF Calm, NewsTrue, MessagesTrue
    <2>2. ListsTrue'
      BY <1>1, <1>3, <1>6 DEF Calm, ListsTrue
    <2>3. \A s \in Seats : f \in Answered'
      <3> SUFFICES ASSUME NEW s \in Seats PROVE lists'[f] # Blank
        BY DEF Answered
      <3>1. lists'[f][s] \in SeatStatus /\ Blank[s] = "unknown"
        BY <1>1, <1>2 DEF MapInv, ViewTypeOK, Blank
      <3> QED BY <3>1 DEF SeatStatus
    <2>4. ShownTrue'
      BY <2>3 DEF ShownTrue
    <2> QED BY <1>1, <1>4, <2>1, <2>2, <2>4 DEF MapInv
  <1>7. CASE ~smooth /\ ~Calm
    BY <1>1, <1>4, <1>7, NotSmooth
  <1> QED BY <1>5, <1>6, <1>7

\* Handlers that die, a connection that comes and goes, requests for lists that
\* are sent or fail: nothing moves, or the map is smooth no longer.
LEMMA QuietInv ==
    ASSUME MapInv,
           \/ \E p \in Procs : Crash(p)
           \/ \E f \in Fetches : Ask(f) \/ FetchFails(f)
           \/ Join \/ Disconnect \/ UNCHANGED mapVars
    PROVE  MapInv'
  <1> USE DEF MapInv, ViewTypeOK
  <1>1. LedgerInv' /\ LedgerTypeOK' /\ seat' = seat
    BY TablesKept DEF Crash, Ask, FetchFails, Join, Disconnect, mapVars
  <1>2. ASSUME NEW p \in Procs, Crash(p) PROVE MapInv'
    <2>1. Answered' = Answered
      BY <1>2 DEF Crash, Answered
    <2>2. ViewTypeOK' /\ ~smooth'
      BY <1>1, <1>2, <2>1 DEF Crash
    <2> QED BY <1>1, <2>2, NotSmooth
  <1>3. ASSUME NEW f \in Fetches, Ask(f) PROVE MapInv'
    <2>1. Answered' = Answered
      BY <1>3 DEF Ask, Answered
    <2>2. ViewTypeOK'
      BY <1>1, <1>3, <2>1 DEF Ask
    <2> QED BY <1>1, <1>3, <2>2, ViewKept DEF Ask
  <1>4. ASSUME NEW f \in Fetches, FetchFails(f) PROVE MapInv'
    <2>1. Answered' \subseteq Answered
      BY <1>4 DEF FetchFails, Answered
    <2>2. ViewTypeOK' /\ ~smooth'
      BY <1>1, <1>4, <2>1 DEF FetchFails
    <2> QED BY <1>1, <2>2, NotSmooth
  <1>5. CASE Join
    <2>1. Answered' = Answered
      BY <1>5 DEF Join, Answered
    <2>2. ViewTypeOK'
      BY <1>1, <1>5, <2>1 DEF Join
    <2> QED BY <1>1, <1>5, <2>2, ViewKept DEF Join
  <1>6. CASE Disconnect
    <2>1. Answered' = Answered /\ inbox' \in Seq(Message)
      BY <1>6 DEF Disconnect, Answered
    <2>2. ViewTypeOK' /\ ~smooth'
      BY <1>1, <1>6, <2>1 DEF Disconnect
    <2> QED BY <1>1, <2>2, NotSmooth
  <1>7. CASE UNCHANGED mapVars
    <2>1. Answered' = Answered
      BY <1>7 DEF mapVars, viewVars, Answered
    <2>2. ViewTypeOK'
      BY <1>1, <1>7, <2>1 DEF mapVars, viewVars
    <2> QED BY <1>1, <1>7, <2>2, ViewKept DEF mapVars, viewVars
  <1> QED BY <1>2, <1>3, <1>4, <1>5, <1>6, <1>7

\* Every step of the page and of the tables keeps the map's invariant.
LEMMA MapStepInv == MapInv /\ [ViewNext]_mapVars => MapInv'
  BY HandlersInv, PutOnSaleInv, AnnounceInv, DeliverInv, ArriveInv, ReadSeatsInv, QuietInv DEF ViewNext

\* So it always holds.
LEMMA MapInvariant == ViewSpec => []MapInv
  BY MapInitInv, MapStepInv, PTL DEF ViewSpec

\* The parts of the browser and of the network are what they can be.
THEOREM ViewTypeCorrect == ViewSpec => []ViewTypeOK
  <1>1. MapInv => ViewTypeOK
    BY DEF MapInv
  <1> QED BY <1>1, MapInvariant, PTL

\* Once everything has arrived the map shows what the tables say, for any
\* number of handlers, seat lists and messages under way in between.
THEOREM MapAlwaysTrue == ViewSpec => []MapIsTrue
  <1>1. MapInv => MapIsTrue
    <2> SUFFICES ASSUME MapInv, smooth, Calm PROVE map = seat
      BY DEF MapIsTrue
    <2>1. ShownTrue /\ ViewTypeOK /\ LedgerTypeOK
      BY DEF MapInv, ViewTypeOK
    <2>2. Len(inbox) = 0 /\ Answered = {} /\ \A s \in Seats : ~InHand(s)
      BY DEF Calm, InHand
    <2>3. ~\E i \in 1..Len(inbox) : TRUE
      BY <2>2
    <2>4. \A s \in Seats : map[s] = seat[s]
      BY <2>1, <2>2, <2>3 DEF ShownTrue
    <2> QED BY <2>1, <2>4 DEF ViewTypeOK, LedgerTypeOK
  <1> QED BY <1>1, MapInvariant, PTL

-----------------------------------------------------------------------------
(* The checkout page.                                                       *)

\* Requests the browser has given up on belong to no page; a payment of this
\* page is for a booking it has shown; one that was served well was paid.
CallsTrue ==
    \A c \in Calls :
        /\ calls[c].stage = "late" => ~calls[c].here /\ calls[c].kind # "initiate"
        /\ c \in Payments => calls[c].booking \in shown
        /\ calls[c].kind = "pay" /\ calls[c].stage = "ok" => Paid(calls[c].booking)

\* The page and its requests, CheckoutTypeOK's part and what keeps it.
PageTrue ==
    /\ page \in Bookings \cup {"event", "other"} /\ pstate \in PaymentState /\ loading \in BOOLEAN
    /\ calls \in [Calls -> Call \cup {NoCall}]
    /\ shown \in SUBSET Bookings /\ (page \in Bookings => page \in shown)
    /\ pstate = "processing" => Payments # {}
    /\ loading => \E c \in Calls : calls[c].kind = "initiate"
    /\ CallsTrue
    /\ SuccessWasPaid

TabInv ==
    /\ LedgerInv
    /\ PageTrue
    /\ bounce \in BOOLEAN /\ active \in Bookings \cup {Nil}
    /\ toasts \in SUBSET Bookings /\ due \in SUBSET Bookings

-----------------------------------------------------------------------------
LEMMA TabInitInv == Init => TabInv
  <1> SUFFICES ASSUME Init PROVE TabInv
    OBVIOUS
  <1>1. LedgerInv
    BY LedgerInitInv DEF Init
  <1>2. PageTrue
    BY CheckoutAssumption DEF Init, PageTrue, PaymentState, CallsTrue, SuccessWasPaid, NoCall, Payments
  <1> QED BY <1>1, <1>2 DEF Init, TabInv

\* A request that is under way has all its parts.
LEMMA CallIs ==
    ASSUME PageTrue, NEW c \in Calls
    PROVE  /\ calls[c] = NoCall \/ calls[c] \in Call
           /\ calls[c].stage # "done" => calls[c] \in Call
           /\ calls[c].kind # "none" => calls[c] \in Call
           /\ calls[c] \in Call => /\ calls[c].kind \in {"book", "initiate", "pay", "fail"}
                                  /\ calls[c].booking \in Bookings
                                  /\ calls[c].stage \in {"sent", "late", "ok", "error"}
                                  /\ calls[c].here \in BOOLEAN
  BY DEF PageTrue, NoCall, Call

\* What the audit log says was paid, was paid.
LEMMA PaidStays ==
    ASSUME LedgerInv, [LedgerNext]_ledgerVars, NEW b \in Bookings, Paid(b)
    PROVE  Paid(b)'
  <1> USE DEF LedgerInv, LedgerTypeOK, Paid
  <1>1. CASE \E c \in Bookings, u \in Users, s \in Seats : Reserve(c, u, s)
    BY <1>1 DEF Reserve
  <1>2. CASE \E c \in Bookings, u \in Users : Cancel(c, u)
    BY <1>2 DEF Cancel, Transition
  <1>3. CASE \E c \in Bookings : Confirm(c) \/ Compensate(c) \/ Expire(c)
    BY <1>3 DEF Confirm, Compensate, Expire, Transition
  <1>4. CASE UNCHANGED ledgerVars
    BY <1>4 DEF ledgerVars
  <1> QED BY <1>1, <1>2, <1>3, <1>4 DEF LedgerNext

\* Leaving the page: none of its requests is a payment of the next one.
LEMMA AbandonedIs ==
    ASSUME NEW call \in Call \cup {NoCall}
    PROVE  /\ Abandoned(call) \in Call \cup {NoCall}
           /\ Abandoned(call).here = FALSE
           /\ Abandoned(call) # NoCall => /\ Abandoned(call).kind = call.kind
                                         /\ Abandoned(call).stage = call.stage
                                         /\ Abandoned(call).booking = call.booking
           /\ Abandoned(call).kind # "initiate"
           /\ NoCall \notin Call
  <1>1. /\ NoCall \notin Call /\ NoCall.here = FALSE /\ NoCall.kind = "none"
        /\ Abandoned(NoCall) = NoCall
    BY DEF NoCall, Call, Abandoned
  <1>2. CASE call \in Call /\ call.kind = "initiate"
    BY <1>1, <1>2 DEF Abandoned
  <1>3. CASE call \in Call /\ call.kind # "initiate"
    <2>1. Abandoned(call) = [call EXCEPT !.here = FALSE]
      BY <1>3 DEF Abandoned, Call
    <2> QED BY <1>1, <1>3, <2>1 DEF Call
  <1>4. CASE call = NoCall
    BY <1>1, <1>4
  <1> QED BY <1>2, <1>3, <1>4

\* Leaving the page keeps the tab's invariant.
LEMMA GoAwayInv ==
    ASSUME PageTrue, audit' = audit, NEW to \in {"event", "other"}, GoAway(to)
    PROVE  PageTrue'
  <1>1. /\ page' = to /\ pstate' = "idle" /\ loading' = FALSE /\ shown' = {}
        /\ calls' = [c \in Calls |-> Abandoned(calls[c])]
    BY DEF GoAway
  <1>2. calls' \in [Calls -> Call \cup {NoCall}] /\ \A c \in Calls : calls'[c].here = FALSE
    BY <1>1, AbandonedIs DEF PageTrue
  <1>3. CallsTrue'
    <2> SUFFICES ASSUME NEW c \in Calls
                 PROVE  /\ calls'[c].stage = "late" => ~calls'[c].here /\ calls'[c].kind # "initiate"
                        /\ c \in Payments' => calls'[c].booking \in shown'
                        /\ calls'[c].kind = "pay" /\ calls'[c].stage = "ok" => Paid(calls'[c].booking)
      BY DEF CallsTrue, Paid
    <2>1. c \notin Payments'
      BY <1>2 DEF Payments
    <2>2. calls'[c] = Abandoned(calls[c]) /\ calls[c] \in Call \cup {NoCall}
      BY <1>1 DEF PageTrue
    <2>3. calls'[c].kind = "pay" /\ calls'[c].stage = "ok" => Paid(calls'[c].booking)
      <3>1. calls'[c] # NoCall =>
                /\ calls'[c].kind = calls[c].kind /\ calls'[c].stage = calls[c].stage
                /\ calls'[c].booking = calls[c].booking
        BY <2>2, AbandonedIs
      <3>2. NoCall.kind # "pay"
        BY DEF NoCall
      <3> QED BY <3>1, <3>2 DEF PageTrue, CallsTrue
    <2> QED BY <1>2, <2>1, <2>2, <2>3, AbandonedIs
  <1>4. SuccessWasPaid'
    BY <1>1 DEF SuccessWasPaid
  <1> QED BY <1>1, <1>2, <1>3, <1>4, CheckoutAssumption DEF PageTrue, PaymentState

\* One request changes, the others stay true.
LEMMA OneCall ==
    ASSUME PageTrue, \A b \in Bookings : Paid(b) => Paid(b)', shown \subseteq shown',
           NEW c \in Calls, NEW call \in Call \cup {NoCall}, calls' = [calls EXCEPT ![c] = call],
           call.stage = "late" => call.here = FALSE /\ call.kind # "initiate",
           call.kind \in {"pay", "fail"} /\ call.here => call.booking \in shown',
           call.kind = "pay" /\ call.stage = "ok" => Paid(call.booking)'
    PROVE  /\ calls' \in [Calls -> Call \cup {NoCall}]
           /\ calls'[c] = call /\ \A d \in Calls : d # c => calls'[d] = calls[d]
           /\ CallsTrue'
  <1>1. /\ calls' \in [Calls -> Call \cup {NoCall}]
        /\ calls'[c] = call /\ \A d \in Calls : d # c => calls'[d] = calls[d]
    BY DEF PageTrue
  <1>2. ASSUME NEW d \in Calls
        PROVE  /\ calls'[d].stage = "late" => ~calls'[d].here /\ calls'[d].kind # "initiate"
               /\ d \in Payments' => calls'[d].booking \in shown'
               /\ calls'[d].kind = "pay" /\ calls'[d].stage = "ok" =>
                    [old |-> "pending", new |-> "confirmed"] \in audit'[calls'[d].booking]
    <2>1. CASE d = c
      BY <1>1, <2>1 DEF Payments, Paid
    <2>2. CASE d # c
      <3>1. calls'[d] = calls[d]
        BY <1>1, <2>2
      <3>2. calls[d].kind = "pay" => calls[d].booking \in Bookings
        BY CallIs
      <3> QED BY <3>1, <3>2 DEF PageTrue, CallsTrue, Payments, Paid
    <2> QED BY <2>1, <2>2
  <1> QED BY <1>1, <1>2 DEF CallsTrue, Paid

\* Going to a booking's checkout page, from elsewhere or from another booking.
LEMMA GoCheckoutInv ==
    ASSUME PageTrue, audit' = audit, NEW b \in Bookings, NEW rest, GoCheckout(b, rest),
           rest \in [Calls -> Call \cup {NoCall}],
           \A c \in Calls : rest[c] = calls[c] \/ (rest[c] = NoCall /\ calls[c].kind = "book")
    PROVE  PageTrue'
  <1> DEFINE kept == [c \in Calls |-> IF page \in Bookings THEN rest[c] ELSE Abandoned(rest[c])]
  <1>1. /\ page' = b
        /\ page \in Bookings => pstate' = pstate /\ loading' = loading /\ shown' = shown \cup {b}
        /\ page \notin Bookings => pstate' = "idle" /\ loading' = TRUE /\ shown' = {b}
    BY DEF GoCheckout
  <1>2. ASSUME NEW c \in Calls
        PROVE  /\ kept[c] \in Call \cup {NoCall}
               /\ kept[c] # NoCall => /\ kept[c].kind = calls[c].kind /\ kept[c].stage = calls[c].stage
                                      /\ kept[c].booking = calls[c].booking
                                      /\ kept[c].here => calls[c].here /\ page \in Bookings
               /\ page \in Bookings /\ calls[c].kind # "book" => kept[c] = calls[c]
    <2>1. rest[c] = calls[c] \/ (rest[c] = NoCall /\ calls[c].kind = "book")
      OBVIOUS
    <2>2. NoCall \in Call \cup {NoCall} /\ NoCall.kind = "none" /\ Abandoned(NoCall) = NoCall
      BY DEF NoCall, Abandoned
    <2>3. CASE page \in Bookings
      BY <2>1, <2>2, <2>3
    <2>4. CASE page \notin Bookings
      <3>1. kept[c] = Abandoned(rest[c])
        BY <2>4
      <3> HIDE DEF kept
      <3>2. kept[c] \in Call \cup {NoCall} /\ kept[c].here = FALSE
        <4>1. rest[c] \in Call \cup {NoCall}
          OBVIOUS
        <4>2. Abandoned(rest[c]) \in Call \cup {NoCall} /\ Abandoned(rest[c]).here = FALSE
          BY <4>1, AbandonedIs, Zenon
        <4> QED BY <3>1, <4>2
      <3>3. kept[c] # NoCall => rest[c] = calls[c]
        BY <2>1, <2>2, <3>1
      <3>4. kept[c] # NoCall => /\ kept[c].kind = calls[c].kind /\ kept[c].stage = calls[c].stage
                               /\ kept[c].booking = calls[c].booking
        BY <3>1, <3>3, AbandonedIs DEF PageTrue
      <3> QED BY <2>4, <3>2, <3>4
    <2> QED BY <2>3, <2>4
  <1>3. /\ kept \in [Calls -> Call \cup {NoCall}]
        /\ \/ page = b /\ calls' = kept
           \/ \E d \in Calls : kept[d] = NoCall /\ calls' = [kept EXCEPT ![d] = Sent("initiate", b)]
        /\ page # b => \E d \in Calls : kept[d] = NoCall /\ calls' = [kept EXCEPT ![d] = Sent("initiate", b)]
    BY <1>2 DEF GoCheckout
  <1> HIDE DEF kept
  <1>4. /\ Sent("initiate", b) \in Call
        /\ Sent("initiate", b).kind = "initiate" /\ Sent("initiate", b).stage = "sent"
    BY DEF Sent, Call
  <1>5. /\ calls' \in [Calls -> Call \cup {NoCall}]
        /\ \A c \in Calls : calls'[c] = kept[c] \/ (kept[c] = NoCall /\ calls'[c] = Sent("initiate", b))
        /\ page # b => \E c \in Calls : calls'[c] = Sent("initiate", b)
    BY <1>3, <1>4
  <1>6. CallsTrue'
    <2> SUFFICES ASSUME NEW c \in Calls
                 PROVE  /\ calls'[c].stage = "late" => ~calls'[c].here /\ calls'[c].kind # "initiate"
                        /\ c \in Payments' => calls'[c].booking \in shown'
                        /\ calls'[c].kind = "pay" /\ calls'[c].stage = "ok" => Paid(calls'[c].booking)
      BY DEF CallsTrue, Paid
    <2>1. CASE calls'[c] = Sent("initiate", b)
      BY <1>4, <2>1 DEF Payments
    <2>2. CASE calls'[c] = NoCall
      BY <2>2 DEF NoCall, Payments
    <2>3. CASE calls'[c] = kept[c] /\ kept[c] # NoCall
      <3>1. /\ calls[c].stage = "late" => ~calls[c].here /\ calls[c].kind # "initiate"
            /\ calls[c].kind \in {"pay", "fail"} /\ calls[c].here => calls[c].booking \in shown
            /\ calls[c].kind = "pay" /\ calls[c].stage = "ok" => Paid(calls[c].booking)
        BY DEF PageTrue, CallsTrue, Payments
      <3> QED BY <1>1, <1>2, <2>3, <3>1 DEF Payments
    <2> QED BY <1>5, <2>1, <2>2, <2>3
  <1>7. pstate' = "processing" => Payments' # {}
    <2> SUFFICES ASSUME page \in Bookings, pstate = "processing" PROVE Payments' # {}
      BY <1>1
    <2>1. PICK c \in Calls : calls[c].kind \in {"pay", "fail"} /\ calls[c].here
      BY DEF PageTrue, Payments
    <2>2. kept[c] = calls[c] /\ kept[c] # NoCall
      BY <1>2, <2>1 DEF NoCall
    <2> QED BY <1>5, <2>1, <2>2 DEF Payments
  <1>8. loading' => \E c \in Calls : calls'[c].kind = "initiate"
    <2>1. CASE page \notin Bookings
      BY <1>4, <1>5, <2>1
    <2>2. CASE page \in Bookings
      <3> SUFFICES ASSUME loading PROVE \E c \in Calls : calls'[c].kind = "initiate"
        BY <1>1, <2>2
      <3>1. PICK c \in Calls : calls[c].kind = "initiate"
        BY DEF PageTrue
      <3>2. kept[c] = calls[c]
        BY <1>2, <2>2, <3>1
      <3> QED BY <1>4, <1>5, <3>1, <3>2
    <2> QED BY <2>1, <2>2
  <1>9. SuccessWasPaid'
    BY <1>1 DEF PageTrue, SuccessWasPaid, Paid
  <1>10. /\ page' \in Bookings \cup {"event", "other"} /\ pstate' \in PaymentState /\ loading' \in BOOLEAN
         /\ shown' \in SUBSET Bookings /\ (page' \in Bookings => page' \in shown')
    BY <1>1 DEF PageTrue, PaymentState
  <1> QED BY <1>5, <1>6, <1>7, <1>8, <1>9, <1>10 DEF PageTrue

\* The page stays where it is while one of its requests goes on.
LEMMA PageOneCall ==
    ASSUME PageTrue, \A b \in Bookings : Paid(b) => Paid(b)', page' = page, shown' = shown,
           NEW c \in Calls, NEW call \in Call \cup {NoCall}, calls' = [calls EXCEPT ![c] = call],
           call.stage = "late" => call.here = FALSE /\ call.kind # "initiate",
           call.kind \in {"pay", "fail"} /\ call.here => call.booking \in shown,
           call.kind = "pay" /\ call.stage = "ok" => Paid(call.booking)',
           pstate' \in PaymentState, loading' \in BOOLEAN,
           pstate' = "processing" =>
                \/ call.kind \in {"pay", "fail"} /\ call.here
                \/ pstate = "processing" /\ c \notin Payments,
           loading' => loading /\ (calls[c].kind = "initiate" => call.kind = "initiate"),
           pstate' = "success" => pstate = "success" \/ \E b \in shown : Paid(b)'
    PROVE  PageTrue'
  <1>1. /\ calls' \in [Calls -> Call \cup {NoCall}]
        /\ calls'[c] = call /\ \A d \in Calls : d # c => calls'[d] = calls[d]
        /\ CallsTrue'
    BY OneCall
  <1>2. pstate' = "processing" => Payments' # {}
    BY <1>1 DEF PageTrue, Payments
  <1>3. loading' => \E d \in Calls : calls'[d].kind = "initiate"
    BY <1>1 DEF PageTrue
  <1>4. SuccessWasPaid'
    <2> SUFFICES ASSUME pstate' = "success"
                 PROVE  \E b \in shown : [old |-> "pending", new |-> "confirmed"] \in audit'[b]
      BY DEF SuccessWasPaid, Paid
    <2>1. shown \subseteq Bookings /\ (pstate = "success" => \E b \in shown : Paid(b))
      BY DEF PageTrue, SuccessWasPaid
    <2> QED BY <2>1 DEF Paid
  <1> QED BY <1>1, <1>2, <1>3, <1>4 DEF PageTrue

\* The page does not notice what goes on elsewhere.
LEMMA PageKept ==
    ASSUME PageTrue, \A b \in Bookings : Paid(b) => Paid(b)',
           UNCHANGED <<page, pstate, loading, shown, calls>>
    PROVE  PageTrue'
  <1>1. Payments' = Payments
    BY DEF Payments
  <1>2. CallsTrue'
    <2> SUFFICES ASSUME NEW c \in Calls
                 PROVE  /\ calls[c].stage = "late" => ~calls[c].here /\ calls[c].kind # "initiate"
                        /\ c \in Payments => calls[c].booking \in shown
                        /\ calls[c].kind = "pay" /\ calls[c].stage = "ok" =>
                                [old |-> "pending", new |-> "confirmed"] \in audit'[calls[c].booking]
      BY <1>1 DEF CallsTrue, Paid
    <2>1. calls[c].kind = "pay" => calls[c].booking \in Bookings
      BY CallIs
    <2> QED BY <2>1 DEF PageTrue, CallsTrue, Paid
  <1>3. SuccessWasPaid'
    <2> SUFFICES ASSUME pstate = "success"
                 PROVE  \E b \in shown : [old |-> "pending", new |-> "confirmed"] \in audit'[b]
      BY DEF SuccessWasPaid, Paid
    <2> QED BY DEF PageTrue, SuccessWasPaid, Paid
  <1> QED BY <1>1, <1>2, <1>3 DEF PageTrue

-----------------------------------------------------------------------------
\* Steps that leave the tables alone, and those that are transactions.
LEMMA TabTables ==
    ASSUME LedgerInv, LedgerNext \/ UNCHANGED ledgerVars
    PROVE  LedgerInv' /\ \A b \in Bookings : Paid(b) => Paid(b)'
  <1>1. LedgerInv'
    BY LedgerStepInv
  <1>2. ASSUME NEW b \in Bookings, Paid(b) PROVE Paid(b)'
    BY <1>2, PaidStays
  <1> QED BY <1>1, <1>2

\* The user goes somewhere else, or is taken there.
LEMMA RoutesInv ==
    ASSUME TabInv,
           \/ \E to \in {"event", "other"} : Leave(to)
           \/ Bounce \/ CountdownEnds
           \/ \E b \in Bookings : PayNow(b)
           \/ \E c \in Calls : BookAnswered(c)
    PROVE  TabInv'
  <1> USE DEF TabInv
  <1>1. LedgerInv' /\ audit' = audit
    BY TabTables DEF Leave, Bounce, CountdownEnds, PayNow, BookAnswered, ledgerVars
  <1>2. ASSUME NEW to \in {"event", "other"}, Leave(to) PROVE TabInv'
    BY <1>1, <1>2, GoAwayInv DEF Leave
  <1>3. CASE Bounce
    BY <1>1, <1>3, GoAwayInv DEF Bounce
  <1>4. CASE CountdownEnds
    BY <1>1, <1>4, GoAwayInv DEF CountdownEnds
  <1>5. ASSUME NEW b \in Bookings, PayNow(b) PROVE TabInv'
    <2>1. PageTrue'
      BY <1>1, <1>5, GoCheckoutInv DEF PayNow, PageTrue
    <2> QED BY <1>1, <1>5, <2>1 DEF PayNow
  <1>6. ASSUME NEW c \in Calls, BookAnswered(c) PROVE TabInv'
    <2>1. calls[c].booking \in Bookings /\ calls[c].kind = "book"
      BY <1>6, CallIs DEF BookAnswered
    <2> DEFINE rest == [calls EXCEPT ![c] = NoCall]
    <2>2. /\ rest \in [Calls -> Call \cup {NoCall}]
          /\ \A d \in Calls : rest[d] = calls[d] \/ (rest[d] = NoCall /\ calls[d].kind = "book")
      BY <2>1 DEF PageTrue
    <2>3. GoCheckout(calls[c].booking, rest)
      BY <1>6 DEF BookAnswered
    <2> HIDE DEF rest
    <2>4. PageTrue'
      BY <1>1, <2>1, <2>2, <2>3, GoCheckoutInv
    <2> QED BY <1>1, <1>6, <2>1, <2>4 DEF BookAnswered
  <1> QED BY <1>2, <1>3, <1>4, <1>5, <1>6

\* A new request is not a payment, or it is one for the booking of the page.
LEMMA RequestsInv ==
    ASSUME TabInv, NEW c \in Calls,
           \/ \E b \in Bookings : ClickReserve(c, b)
           \/ \E kind \in {"pay", "fail"} : Submit(c, kind)
    PROVE  TabInv'
  <1> USE DEF TabInv
  <1>1. LedgerInv' /\ \A b \in Bookings : Paid(b) => Paid(b)'
    BY TabTables DEF ClickReserve, Submit
  <1>2. calls[c].kind # "initiate" /\ c \notin Payments
    BY DEF ClickReserve, Submit, NoCall, Payments
  <1>3. ASSUME NEW b \in Bookings, ClickReserve(c, b) PROVE TabInv'
    <2>1. /\ Sent("book", b) \in Call /\ Sent("book", b).kind = "book" /\ Sent("book", b).stage = "sent"
          /\ calls' = [calls EXCEPT ![c] = Sent("book", b)]
          /\ UNCHANGED tabVars /\ UNCHANGED due
      BY <1>3 DEF ClickReserve, Sent, Call
    <2>2. PageTrue'
      BY <1>1, <1>2, <2>1, PageOneCall DEF tabVars, PageTrue, SuccessWasPaid
    <2> QED BY <1>1, <2>1, <2>2 DEF tabVars
  <1>4. ASSUME NEW kind \in {"pay", "fail"}, Submit(c, kind) PROVE TabInv'
    <2>1. page \in Bookings /\ page \in shown
      BY <1>4 DEF Submit, PageTrue
    <2>2. PICK call \in Call : call = Sent(kind, page)
      BY <2>1 DEF Sent, Call
    <2>3. call.kind = kind /\ call.stage = "sent" /\ call.booking = page /\ call.here
      BY <2>2 DEF Sent
    <2>4. /\ calls' = [calls EXCEPT ![c] = call] /\ pstate' = "processing"
          /\ UNCHANGED <<page, loading, shown, active, toasts, bounce, due>>
      BY <1>4, <2>2 DEF Submit
    <2>5. PageTrue'
      BY <1>1, <1>2, <2>1, <2>3, <2>4, PageOneCall DEF PageTrue, PaymentState
    <2> QED BY <1>1, <2>4, <2>5
  <1> QED BY <1>3, <1>4

\* What the tables do meanwhile: an offer, another tab, the worker, the clock.
LEMMA ElsewhereInv ==
    ASSUME TabInv, NEW b \in Bookings, Offered(b) \/ EndElsewhere(b) \/ RunOut(b)
    PROVE  TabInv'
  <1> USE DEF TabInv
  <1>1. LedgerInv' /\ \A a \in Bookings : Paid(a) => Paid(a)'
    <2>1. Me \in Users
      BY CheckoutAssumption
    <2>2. LedgerNext \/ UNCHANGED ledgerVars
      BY <2>1 DEF Offered, EndElsewhere, RunOut, LedgerNext
    <2> QED BY <2>2, TabTables
  <1>2. UNCHANGED <<page, pstate, loading, shown, calls>>
    BY DEF Offered, EndElsewhere, RunOut, tabVars
  <1>3. PageTrue'
    BY <1>1, <1>2, PageKept
  <1> QED BY <1>1, <1>3 DEF Offered, EndElsewhere, RunOut, tabVars

\* A payment is only served well when its booking is, or becomes, confirmed.
LEMMA EffectIs ==
    ASSUME LedgerInv, NEW call \in Call, NEW ok \in BOOLEAN, Effect(call, ok)
    PROVE  /\ LedgerNext \/ UNCHANGED ledgerVars
           /\ call.kind = "pay" /\ ok => Paid(call.booking)'
  <1>1. call.booking \in Bookings /\ Me \in Users
    BY CheckoutAssumption DEF Call
  <1>2. LedgerNext \/ UNCHANGED ledgerVars
    BY <1>1 DEF Effect, LedgerNext
  <1>3. ASSUME call.kind = "pay", ok PROVE Paid(call.booking)'
    <2>1. CASE Confirm(call.booking)
      BY <1>1, <2>1 DEF Confirm, Transition, Paid, LedgerInv, LedgerTypeOK
    <2>2. CASE bstatus[call.booking] = "confirmed" /\ UNCHANGED ledgerVars
      BY <1>1, <2>2 DEF LedgerInv, AuditPath, Row, Paid, ledgerVars
    <2> QED BY <1>3, <2>1, <2>2 DEF Effect
  <1> QED BY <1>2, <1>3

\* So does the server, whatever it answers.
LEMMA ServeInv ==
    ASSUME TabInv, NEW c \in Calls, Serve(c)
    PROVE  TabInv'
  <1> USE DEF TabInv
  <1>1. PICK ok \in BOOLEAN, fault \in BOOLEAN :
            /\ Effect(calls[c], ok) \/ (fault /\ UNCHANGED ledgerVars)
            /\ calls' = [calls EXCEPT ![c] =
                 IF calls[c].stage = "late" THEN NoCall
                 ELSE [@ EXCEPT !.stage = IF ok /\ ~fault THEN "ok" ELSE "error"]]
    BY DEF Serve
  <1>2. calls[c] \in Call /\ calls[c].stage \in {"sent", "late"} /\ UNCHANGED tabVars /\ UNCHANGED due
    BY CallIs DEF Serve
  <1>3. LedgerNext \/ UNCHANGED ledgerVars
    BY <1>1, <1>2, EffectIs
  <1>4. LedgerInv' /\ \A b \in Bookings : Paid(b) => Paid(b)'
    BY <1>3, TabTables
  <1>5. CASE calls[c].stage = "late"
    <2>1. /\ NoCall.kind = "none" /\ NoCall.stage = "done"
          /\ calls' = [calls EXCEPT ![c] = NoCall]
      BY <1>1, <1>5 DEF NoCall
    <2>2. c \notin Payments /\ calls[c].kind # "initiate"
      BY <1>5 DEF PageTrue, CallsTrue, Payments
    <2>3. PageTrue'
      BY <1>2, <1>4, <2>1, <2>2, PageOneCall DEF tabVars, PageTrue, SuccessWasPaid
    <2> QED BY <1>2, <1>4, <2>3 DEF tabVars
  <1>6. CASE calls[c].stage = "sent"
    <2>1. PICK call \in Call :
            /\ call.kind = calls[c].kind /\ call.booking = calls[c].booking /\ call.here = calls[c].here
            /\ call.stage = IF ok /\ ~fault THEN "ok" ELSE "error"
            /\ calls' = [calls EXCEPT ![c] = call]
      <3>1. [calls[c] EXCEPT !.stage = IF ok /\ ~fault THEN "ok" ELSE "error"] \in Call
        BY <1>2 DEF Call
      <3> QED BY <1>1, <1>2, <1>6, <3>1 DEF Call, PageTrue
    <2>2. call.kind = "pay" /\ call.stage = "ok" => Paid(call.booking)'
      <3> SUFFICES ASSUME calls[c].kind = "pay", ok, ~fault
                   PROVE  Paid(call.booking)'
        BY <2>1
      <3>1. Effect(calls[c], ok)
        BY <1>1
      <3>2. PICK was \in Call : was = calls[c]
        BY <1>2
      <3>3. Paid(was.booking)'
        BY <3>1, <3>2, EffectIs
      <3> QED BY <2>1, <3>2, <3>3 DEF Paid
    <2>3. call.kind \in {"pay", "fail"} /\ call.here <=> c \in Payments
      BY <2>1 DEF Payments
    <2>4. PageTrue'
      BY <1>2, <1>4, <2>1, <2>2, <2>3, PageOneCall DEF tabVars, PageTrue, CallsTrue, SuccessWasPaid
    <2> QED BY <1>2, <1>4, <2>4 DEF tabVars
  <1> QED BY <1>2, <1>5, <1>6

\* An answer removes its request.
LEMMA AnswersInv ==
    ASSUME TabInv, NEW c \in Calls, InitiateAnswered(c) \/ PayAnswered(c) \/ FailAnswered(c)
    PROVE  TabInv'
  <1> USE DEF TabInv
  <1>1. LedgerInv' /\ \A b \in Bookings : Paid(b) => Paid(b)'
    BY TabTables DEF InitiateAnswered, PayAnswered, FailAnswered
  <1>2. /\ NoCall.kind = "none" /\ NoCall.stage = "done"
        /\ calls' = [calls EXCEPT ![c] = NoCall] /\ page' = page /\ shown' = shown
    BY DEF NoCall, InitiateAnswered, PayAnswered, FailAnswered
  <1>3. CASE InitiateAnswered(c)
    <2>1. loading' = FALSE /\ pstate' = pstate /\ c \notin Payments
      BY <1>3 DEF InitiateAnswered, Payments
    <2>2. PageTrue'
      BY <1>1, <1>2, <2>1, PageOneCall DEF PageTrue, SuccessWasPaid
    <2> QED BY <1>1, <1>3, <2>2 DEF InitiateAnswered
  <1>4. CASE PayAnswered(c)
    <2>1. /\ calls[c].kind = "pay" /\ calls[c].stage = "ok" /\ loading' = loading
          /\ pstate' = IF calls[c].here THEN "success" ELSE pstate
      BY <1>4 DEF PayAnswered, Shows
    <2>2. /\ calls[c].here => c \in Payments /\ calls[c].booking \in shown
          /\ ~calls[c].here => c \notin Payments
          /\ Paid(calls[c].booking) /\ calls[c].booking \in Bookings
      BY <2>1, CallIs DEF PageTrue, CallsTrue, Payments
    <2>3. calls[c].here => \E b \in shown : Paid(b)'
      <3>1. PICK b \in Bookings : b = calls[c].booking
        BY <2>2
      <3>2. Paid(b)'
        BY <1>1, <2>2, <3>1
      <3> QED BY <2>2, <3>1, <3>2
    <2>4. PageTrue'
      BY <1>1, <1>2, <2>1, <2>2, <2>3, PageOneCall DEF PageTrue, SuccessWasPaid, PaymentState
    <2> QED BY <1>1, <1>4, <2>4 DEF PayAnswered
  <1>5. CASE FailAnswered(c)
    <2>1. /\ calls[c].kind = "fail" /\ loading' = loading
          /\ pstate' = IF calls[c].here THEN "failed" ELSE pstate
      BY <1>5 DEF FailAnswered, Shows
    <2>2. ~calls[c].here => c \notin Payments
      BY <2>1 DEF Payments
    <2>3. PageTrue'
      BY <1>1, <1>2, <2>1, <2>2, PageOneCall DEF PageTrue, SuccessWasPaid, PaymentState
    <2> QED BY <1>1, <1>5, <2>3 DEF FailAnswered
  <1> QED BY <1>3, <1>4, <1>5

\* A request that fails, or is given up while the server may still serve it.
LEMMA FailsInv ==
    ASSUME TabInv, NEW c \in Calls, Fails(c)
    PROVE  TabInv'
  <1> USE DEF TabInv
  <1>1. LedgerInv' /\ \A b \in Bookings : Paid(b) => Paid(b)'
    BY TabTables DEF Fails
  <1>2. /\ calls[c] \in Call /\ page' = page /\ shown' = shown
        /\ pstate' = IF calls[c].kind = "book" THEN pstate
                     ELSE IF calls[c].here THEN "failed" ELSE pstate
        /\ loading' = (loading /\ calls[c].kind # "initiate")
        /\ UNCHANGED <<active, toasts, bounce, due>>
    BY CallIs DEF Fails, Shows
  <1>3. PICK call \in Call \cup {NoCall} :
            /\ calls' = [calls EXCEPT ![c] = call]
            /\ call.stage = "late" => call.here = FALSE /\ call.kind # "initiate"
            /\ call.kind \in {"pay", "fail"} => call.here = FALSE
            /\ call.stage # "ok"
    <2>1. CASE calls[c].stage = "sent" /\ calls[c].kind # "initiate"
      <3>1. PICK call \in Call : call = [calls[c] EXCEPT !.stage = "late", !.here = FALSE]
        BY <1>2 DEF Call
      <3>2. call.stage = "late" /\ call.here = FALSE /\ call.kind = calls[c].kind
        BY <1>2, <3>1 DEF Call
      <3>3. calls' = [calls EXCEPT ![c] = call]
        BY <2>1, <3>1 DEF Fails, PageTrue
      <3> QED BY <2>1, <3>2, <3>3
    <2>2. CASE ~(calls[c].stage = "sent" /\ calls[c].kind # "initiate")
      <3>1. calls' = [calls EXCEPT ![c] = NoCall]
        BY <2>2 DEF Fails, PageTrue
      <3>2. NoCall.stage = "done" /\ NoCall.kind = "none"
        BY DEF NoCall
      <3> QED BY <3>1, <3>2
    <2> QED BY <2>1, <2>2
  <1>4. /\ pstate' = "processing" => pstate = "processing" /\ c \notin Payments
        /\ pstate' = "success" => pstate = "success"
        /\ pstate' \in PaymentState
    BY <1>2 DEF PageTrue, PaymentState, Payments
  <1>5. /\ loading' \in BOOLEAN
        /\ loading' => loading /\ calls[c].kind # "initiate"
    BY <1>2
  <1>6. PageTrue'
    BY <1>1, <1>2, <1>3, <1>4, <1>5, PageOneCall
  <1> QED BY <1>1, <1>2, <1>6

\* One lemma per kind of step makes the invariant inductive.
LEMMA TabStepInv == TabInv /\ [Next]_vars => TabInv'
  <1> SUFFICES ASSUME TabInv, [Next]_vars PROVE TabInv'
    OBVIOUS
  <1>1. ASSUME NEW c \in Calls, Answer(c) PROVE TabInv'
    BY <1>1, RoutesInv, AnswersInv, FailsInv DEF Answer
  <1>2. CASE UNCHANGED vars
    <2>1. LedgerInv' /\ \A b \in Bookings : Paid(b) => Paid(b)'
      BY <1>2, TabTables DEF TabInv, vars
    <2>2. PageTrue'
      BY <1>2, <2>1, PageKept DEF TabInv, vars, tabVars
    <2> QED BY <1>2, <2>1, <2>2 DEF TabInv, vars, tabVars
  <1> QED BY <1>1, <1>2, RoutesInv, RequestsInv, ElsewhereInv, ServeInv DEF Next

\* So it always holds.
LEMMA TabInvariant == Spec => []TabInv
  BY TabInitInv, TabStepInv, PTL DEF Spec

\* A page says it is processing, or loading, only while a request of its own is
\* under way, whatever was late, lost or turned to another booking.
THEOREM CheckoutTypeCorrect == Spec => []CheckoutTypeOK
  <1>1. TabInv => CheckoutTypeOK
    BY DEF TabInv, PageTrue, LedgerInv, CheckoutTypeOK
  <1> QED BY <1>1, TabInvariant, PTL

\* The success screen appears only after a payment of a booking this page has
\* shown, for any number of bookings and of requests under way.
THEOREM SuccessAlwaysPaid == Spec => []SuccessWasPaid
  <1>1. TabInv => SuccessWasPaid
    BY DEF TabInv, PageTrue
  <1> QED BY <1>1, TabInvariant, PTL
=============================================================================

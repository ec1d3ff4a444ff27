--------------------------- MODULE CatalogProofs ---------------------------
(***************************************************************************)
(* What holds of Catalog for a hall and rows of any size, any number of     *)
(* requests and any faults: the seat plan is complete and every seat is in  *)
(* its place, the counter is there, and the price charged was in force.     *)
(***************************************************************************)
EXTENDS Catalog, TLAPS

\* A third, rounded up: three of them hold the hall.
LEMMA ShareHolds ==
    ASSUME total \in Nat \ {0}
    PROVE  Share \in Nat \ {0} /\ 3 * Share >= total /\ Share <= total
  BY DEF Share

LEMMA LeastIs ==
    ASSUME NEW m \in Int, NEW n \in Int
    PROVE  /\ Least(m, n) \in Int /\ Least(m, n) <= m /\ Least(m, n) <= n
           /\ Least(m, n) = m \/ Least(m, n) = n
  BY DEF Least

-----------------------------------------------------------------------------
(* The seat plan.                                                           *)

\* Seats that the sections before this one take up.
Before == Least(total, (section - 1) * Share)

PlanInv ==
    /\ total \in Nat \ {0}
    /\ section \in 1..3 /\ made \in 0..Share /\ row \in Nat /\ next \in 1 .. total + 1
    /\ stage \in {"seats", "counter", "commit", "published", "failed"}
    /\ next - 1 = Before + made
    /\ stage = "seats" /\ RowIsOpen => made = row * RowSize
    /\ stage \in {"counter", "commit", "published"} => next = total + 1
    /\ stage # "failed" => DOMAIN plan = 1 .. next - 1 /\ \A k \in 1 .. next - 1 : InPlace(k)

LEMMA PlanInit == Init => PlanInv
  <1> SUFFICES ASSUME Init PROVE PlanInv
    OBVIOUS
  <1>1. total \in Nat \ {0}
    BY CatalogAssumption DEF Init
  <1>2. Before = 0
    BY <1>1, ShareHolds DEF Init, Before, Least
  <1>3. made = row * RowSize
    BY CatalogAssumption DEF Init
  <1> QED BY <1>1, <1>2, <1>3, ShareHolds DEF Init, PlanInv

\* A row goes on where the last one ended, and holds no more than it may.
LEMMA FillRowPlan ==
    ASSUME PlanInv, FillRow
    PROVE  PlanInv'
  <1> USE CatalogAssumption, ShareHolds DEF PlanInv
  <1> DEFINE size == RowLength
  <1>1. /\ stage = "seats" /\ made < Share /\ next <= total
        /\ total' = total /\ stage' = stage /\ section' = section
        /\ next' = next + size /\ made' = made + size /\ row' = row + 1
        /\ plan' = [k \in 1 .. next + size - 1 |->
                     IF k < next THEN plan[k] ELSE [section |-> section, row |-> row]]
    BY DEF FillRow, RowIsOpen, creation
  <1>2. /\ size \in Nat \ {0} /\ size <= RowSize /\ size <= Share - made /\ size <= total - next + 1
        /\ size = RowSize \/ size = Share - made \/ size = total - next + 1
    <2> DEFINE here == Share - made
               left == total - next + 1
    <2>1. here \in Nat \ {0} /\ left \in Nat \ {0}
      BY <1>1
    <2>2. size = Least(RowSize, Least(here, left))
      BY DEF RowLength
    <2> HIDE DEF here, left, size
    <2>3. /\ size \in Nat \ {0} /\ size <= RowSize /\ size <= here /\ size <= left
          /\ size = RowSize \/ size = here \/ size = left
      BY <2>1, <2>2, RowSize \in Nat \ {0} DEF Least
    <2> QED BY <2>3 DEF here, left
  <1> HIDE DEF size
  <1>3. Share' = Share /\ Before' = Before
    BY <1>1 DEF Share, Before
  <1>4. Before = (section - 1) * Share
    <2>1. (section - 1) * Share \in Int
      OBVIOUS
    <2> QED BY <1>1, <2>1 DEF Before, Least
  <1>5. /\ made = row * RowSize /\ (row + 1) * RowSize = row * RowSize + RowSize
    BY <1>1 DEF RowIsOpen
  <1>6. made' \in 0..Share /\ next' \in 1 .. total + 1 /\ row' \in Nat /\ next' - 1 = Before + made'
    <2>1. (section - 1) * Share \in Int
      OBVIOUS
    <2>2. Before \in Int
      BY <1>4, <2>1
    <2> HIDE DEF PlanInv
    <2>3. made \in 0..Share /\ next \in 1 .. total + 1 /\ row \in Nat /\ next - 1 = Before + made
          /\ total \in Nat
      BY DEF PlanInv
    <2> QED BY <1>1, <1>2, <2>2, <2>3
  <1>7. made' < Share /\ next' <= total => made' = (row + 1) * RowSize
    BY <1>1, <1>2, <1>5
  <1>8. ASSUME NEW k \in 1 .. next + size - 1 PROVE InPlace(k)'
    <2>1. CASE k < next
      <3>1. plan'[k] = plan[k] /\ InPlace(k)
        BY <1>1, <2>1
      <3> QED BY <1>1, <1>3, <3>1 DEF InPlace
    <2>2. CASE k >= next
      <3>1. plan'[k] = [section |-> section, row |-> row]
        BY <1>1, <2>2
      <3>2. plan'[k].section = section /\ plan'[k].row = row
        BY <3>1
      <3> DEFINE place == k - (section - 1) * Share
      <3>3. place = k - (next - 1) + made
        BY <1>4
      <3> HIDE DEF place
      <3>4. place \in made + 1 .. made + size
        BY <2>2, <3>3, <1>2
      <3>5. place \in 1..Share /\ row * RowSize < place /\ place <= (row + 1) * RowSize
        BY <3>4, <1>2, <1>5
      <3> QED BY <1>3, <3>2, <3>5 DEF InPlace, place
    <2> QED BY <2>1, <2>2, <1>2
  <1>9. DOMAIN plan' = 1 .. next' - 1
    BY <1>1, <1>2
  <1>10. \A k \in 1 .. next' - 1 : InPlace(k)'
    <2>1. next' - 1 = next + size - 1
      BY <1>1, <1>2
    <2> QED BY <1>8, <2>1
  <1> QED BY <1>1, <1>3, <1>6, <1>7, <1>9, <1>10 DEF RowIsOpen

\* The next section begins where this one is full, and after the last one the
\* hall is.
LEMMA NextSectionPlan ==
    ASSUME PlanInv, NextSection
    PROVE  PlanInv'
  <1> USE CatalogAssumption, ShareHolds DEF PlanInv
  <1>1. /\ stage = "seats" /\ ~(made < Share /\ next <= total)
        /\ total' = total /\ next' = next /\ plan' = plan
    BY DEF NextSection, RowIsOpen
  <1>2. Share' = Share /\ \A k : InPlace(k)' <=> InPlace(k)
    BY <1>1 DEF Share, InPlace
  <1>3. CASE section < 3
    <2>1. section' = section + 1 /\ made' = 0 /\ row' = 0 /\ stage' = stage
      BY <1>3 DEF NextSection
    <2>2. section * Share = (section - 1) * Share + Share
      OBVIOUS
    <2>3. (section - 1) * Share \in Nat
      OBVIOUS
    <2>4. Least(total, section * Share) = next - 1
      BY <1>1, <2>2, <2>3 DEF Before, Least
    <2>5. Before' = next - 1
      BY <1>1, <1>2, <2>1, <2>4 DEF Before
    <2>6. made' = row' * RowSize
      BY <2>1
    <2>7. next' - 1 = Before' + made' /\ section' \in 1..3 /\ made' \in 0..Share' /\ row' \in Nat
      BY <1>1, <1>2, <1>3, <2>1, <2>5
    <2>8. DOMAIN plan' = 1 .. next' - 1 /\ \A k \in 1 .. next' - 1 : InPlace(k)'
      BY <1>1, <1>2
    <2> QED BY <1>1, <2>1, <2>6, <2>7, <2>8
  <1>4. CASE section = 3
    <2>1. stage' = "counter" /\ section' = section /\ made' = made /\ row' = row
      BY <1>4 DEF NextSection
    <2>2. Before = Least(total, 2 * Share)
      BY <1>4 DEF Before
    <2>3. next = total + 1
      BY <1>1, <2>2 DEF Least
    <2>4. Before' = Before
      BY <1>1, <1>2, <2>1 DEF Before
    <2> QED BY <1>1, <1>2, <2>1, <2>3, <2>4
  <1> QED BY <1>3, <1>4

LEMMA PlanStep == PlanInv /\ [Next]_vars => PlanInv'
  <1> SUFFICES ASSUME PlanInv, [Next]_vars PROVE PlanInv'
    OBVIOUS
  <1>1. CASE FillRow
    BY <1>1, FillRowPlan
  <1>2. CASE NextSection
    BY <1>2, NextSectionPlan
  <1>3. ASSUME PublishCounter \/ Publish \/ CreationFails PROVE PlanInv'
    <2>1. /\ total' = total /\ section' = section /\ made' = made /\ row' = row /\ next' = next
          /\ stage \in {"seats", "counter", "commit"}
          /\ \/ stage \in {"counter", "commit"} /\ stage' \in {"commit", "published"} /\ plan' = plan
             \/ stage' = "failed"
      BY <1>3 DEF PublishCounter, Publish, CreationFails
    <2>2. Share' = Share /\ Before' = Before
      BY <2>1 DEF Share, Before
    <2>3. CASE stage' = "failed"
      BY <2>1, <2>2, <2>3 DEF PlanInv
    <2>4. CASE stage' # "failed"
      <3>1. plan' = plan /\ stage # "failed" /\ stage' \in {"commit", "published"} /\ next = total + 1
        BY <2>1, <2>4 DEF PlanInv
      <3>2. \A k : InPlace(k)' <=> InPlace(k)
        BY <2>2, <3>1 DEF InPlace
      <3> QED BY <2>1, <2>2, <3>1, <3>2 DEF PlanInv
    <2> QED BY <2>3, <2>4
  <1>4. ASSUME UNCHANGED creation PROVE PlanInv'
    <2>1. Share' = Share /\ Before' = Before /\ \A k : InPlace(k)' <=> InPlace(k)
      BY <1>4 DEF creation, Share, Before, InPlace
    <2> QED BY <1>4, <2>1 DEF creation, PlanInv, RowIsOpen
  <1>5. ASSUME NEW r \in Requests, Handle(r) PROVE UNCHANGED creation
    BY <1>5 DEF Handle, Ask, QueryEvent, ReadCounter, Decrement, Book, BookFails, GiveBack,
       CountSeats, SetCounter, FreeSeat
  <1>6. CacheLapses \/ LoseRedis \/ UNCHANGED vars => UNCHANGED creation
    BY DEF CacheLapses, LoseRedis, vars
  <1> QED BY <1>1, <1>2, <1>3, <1>4, <1>5, <1>6 DEF Next, Create

LEMMA PlanInvariant == Spec => []PlanInv
  BY PlanInit, PlanStep, PTL DEF Spec

\* For every size of hall and of row the published plan has each seat that was
\* asked for, once, in the section and the row where the numbering puts it.
THEOREM PlanAlwaysComplete == Spec => []PlanIsComplete
  <1>1. PlanInv => PlanIsComplete
    BY DEF PlanInv, PlanIsComplete
  <1> QED BY <1>1, PlanInvariant, PTL

-----------------------------------------------------------------------------
(* The counter and the price.                                               *)

LEMMA MultiplierIs == \A seats : Multiplier(seats) \in Prices
  BY DEF Multiplier, Prices

Labels == {"idle", "query", "fill", "refresh", "take", "book", "give back", "count", "set"}

RequestTypeOK ==
    /\ pc \in [Requests -> Labels]
    /\ avail \in [Requests -> Nat \cup {None}]
    /\ price \in [Requests -> Prices \cup {None}]
    /\ inForce \in [Requests -> SUBSET Prices]

ServiceInv ==
    /\ total \in Totals /\ free \in 0..total
    /\ counter \in Nat \cup {None} /\ cached \in Nat \cup {None}
    /\ faults \in 0..MaxFaults /\ intact \in BOOLEAN
    /\ RequestTypeOK
    /\ \A r \in Requests : pc[r] \in {"fill", "set"} => avail[r] \in Nat
    /\ stage \in {"commit", "published"} /\ intact => counter # None
    /\ ChargedInForce

LEMMA ServiceInit == Init => ServiceInv
  BY CatalogAssumption DEF Init, ServiceInv, RequestTypeOK, Labels, ChargedInForce

\* What a request has seen only grows while it is served, by the price there is
\* after each step.
LEMMA ObserveKeeps ==
    ASSUME ServiceInv, Observe, pc' \in [Requests -> Labels]
    PROVE  /\ inForce' \in [Requests -> SUBSET Prices]
           /\ \A r \in Requests : pc'[r] # "idle" =>
                PriceInForce' \in inForce'[r] /\ inForce[r] \subseteq inForce'[r]
  <1>1. PriceInForce' \in Prices
    BY MultiplierIs DEF PriceInForce, Multiplier, Prices
  <1> QED BY <1>1 DEF Observe, ServiceInv, RequestTypeOK

\* A step that gives no price to a request keeps the prices right.
LEMMA StillCharged ==
    ASSUME ServiceInv, Observe, RequestTypeOK',
           intact' => intact,
           \A r \in Requests : pc'[r] \in {"take", "book"} => pc[r] \in {"take", "book"} /\ price'[r] = price[r]
    PROVE  ChargedInForce'
  <1>1. \A r \in Requests : pc'[r] # "idle" => inForce[r] \subseteq inForce'[r]
    BY ObserveKeeps DEF RequestTypeOK
  <1> QED BY <1>1 DEF ServiceInv, ChargedInForce

LEMMA CreateService ==
    ASSUME ServiceInv, PlanInv, Create, Observe
    PROVE  ServiceInv'
  <1> USE CatalogAssumption
  <1>0. total \in Nat /\ next - 1 \in 0..total /\ free \in 0..total
    BY DEF PlanInv, ServiceInv
  <1> DEFINE Effect ==
        /\ total' = total /\ cached' = cached /\ pc' = pc /\ avail' = avail /\ price' = price
        /\ intact' = intact /\ faults' \in 0..MaxFaults
        /\ counter' \in {counter, total} /\ free' \in 0..total
        /\ stage' \in {"commit", "published"} /\ intact' => counter' # None
  <1>1. Effect
    <2>1. FillRow => Effect
      BY <1>0 DEF FillRow, RowLength, request, faultVars, ServiceInv
    <2>2. NextSection => Effect
      BY <1>0 DEF NextSection, request, faultVars, ServiceInv
    <2>3. PublishCounter => Effect
      BY <1>0 DEF PublishCounter, request, faultVars, ServiceInv
    <2>4. Publish => Effect
      BY <1>0 DEF Publish, request, faultVars, ServiceInv
    <2>5. CreationFails => Effect
      BY <1>0 DEF CreationFails, Fault, request, faultVars, ServiceInv
    <2> QED BY <2>1, <2>2, <2>3, <2>4, <2>5 DEF Create
  <1> HIDE DEF Effect
  <1>2. RequestTypeOK'
    BY <1>1, ObserveKeeps DEF Effect, ServiceInv, RequestTypeOK
  <1>3. ChargedInForce'
    BY <1>1, <1>2, StillCharged DEF Effect
  <1> QED BY <1>0, <1>1, <1>2, <1>3 DEF Effect, ServiceInv

\* The price of a request is read from the counter that is in force.
LEMMA ReadCounterService ==
    ASSUME ServiceInv, NEW r \in Requests, ReadCounter(r), Observe
    PROVE  ServiceInv'
  <1> USE CatalogAssumption DEF ServiceInv
  <1> DEFINE seats == LiveSeats(r)
  <1>1. /\ stage = "published" /\ stage' = stage /\ total' = total /\ free' = free /\ counter' = counter
        /\ faults' = faults /\ intact' = intact
        /\ pc' = [pc EXCEPT ![r] = "take"] /\ avail' = [avail EXCEPT ![r] = None]
        /\ price' = [price EXCEPT ![r] = Multiplier(seats)]
        /\ cached' \in {cached, seats}
    BY DEF ReadCounter, At, Goto, creation, faultVars
  <1>2. seats \in Nat \cup {None}
    BY DEF RequestTypeOK, LiveSeats
  <1> HIDE DEF seats
  <1>3. RequestTypeOK'
    BY <1>1, ObserveKeeps, MultiplierIs DEF RequestTypeOK, Labels
  <1>4. ASSUME intact', NEW q \in Requests, pc'[q] \in {"take", "book"} PROVE price'[q] \in inForce'[q]
    <2>1. PriceInForce' \in inForce'[q] /\ inForce[q] \subseteq inForce'[q]
      BY <1>3, <1>4, ObserveKeeps DEF RequestTypeOK
    <2>2. CASE q = r
      <3>1. counter # None /\ seats = counter
        BY <1>1, <1>4 DEF seats, LiveSeats
      <3>2. price'[r] = Multiplier(counter)
        BY <1>1, <3>1 DEF RequestTypeOK
      <3>3. PriceInForce' = Multiplier(counter)
        BY <1>1, <3>1 DEF PriceInForce, Multiplier
      <3> QED BY <2>1, <2>2, <3>2, <3>3
    <2>3. CASE q # r
      <3>1. pc'[q] = pc[q] /\ price'[q] = price[q]
        BY <1>1, <2>3 DEF RequestTypeOK
      <3> QED BY <1>1, <1>4, <2>1, <3>1 DEF ChargedInForce
    <2> QED BY <2>2, <2>3
  <1>5. \A q \in Requests : pc'[q] \in {"fill", "set"} => avail'[q] \in Nat
    BY <1>1 DEF RequestTypeOK
  <1> QED BY <1>1, <1>2, <1>3, <1>4, <1>5 DEF ChargedInForce

\* What the other steps of a handler leave alone, and what they change.
HandlerEffect(r, label, seats) ==
    /\ stage = "published" /\ UNCHANGED <<total, stage, cached, faults, intact>>
    /\ free' \in 0..total /\ counter' \in Nat \cup {None} /\ (counter # None => counter' # None)
    /\ label \in Labels /\ pc' = [pc EXCEPT ![r] = label]
    /\ label \in {"take", "book"} => pc[r] \in {"take", "book"} /\ price' = price
    /\ seats \in Nat \cup {None} /\ avail' \in {avail, [avail EXCEPT ![r] = seats]}
    /\ label \in {"fill", "set"} => avail' = [avail EXCEPT ![r] = seats] /\ seats \in Nat
    /\ price' \in {price, [price EXCEPT ![r] = None]}

LEMMA HandlerEffects ==
    ASSUME ServiceInv, NEW r \in Requests, Handle(r), ~ReadCounter(r)
    PROVE  \E label \in Labels, seats \in Nat \cup {None} : HandlerEffect(r, label, seats)
  <1> USE CatalogAssumption DEF At, Goto, Return, creation, faultVars, HandlerEffect, Labels
  <1>1. /\ total \in Nat /\ free \in 0..total /\ avail[r] \in Nat \cup {None}
        /\ counter \in Nat \cup {None} /\ cached \in Nat \cup {None}
        /\ pc[r] = "set" => avail[r] \in Nat
    BY DEF ServiceInv, RequestTypeOK
  <1>2. Ask(r) => HandlerEffect(r, IF cached = None THEN "query" ELSE "refresh", cached)
    BY <1>1 DEF Ask
  <1>3. QueryEvent(r) => HandlerEffect(r, "fill", free)
    BY <1>1 DEF QueryEvent
  <1>4. Decrement(r) => \E label \in Labels : HandlerEffect(r, label, None)
    <2> SUFFICES ASSUME Decrement(r) PROVE \E label \in Labels : HandlerEffect(r, label, None)
      OBVIOUS
    <2>1. CASE counter # None /\ counter > 0
      <3>1. counter' = counter - 1 /\ counter' \in Nat
        BY <1>1, <2>1 DEF Decrement
      <3>2. HandlerEffect(r, "book", None)
        BY <1>1, <2>1, <3>1 DEF Decrement
      <3> QED BY <3>2
    <2>2. CASE counter = 0
      <3>1. HandlerEffect(r, "idle", None)
        BY <1>1, <2>2 DEF Decrement
      <3> QED BY <3>1
    <2>3. CASE counter = None
      <3>1. HandlerEffect(r, "count", None)
        BY <1>1, <2>3 DEF Decrement
      <3> QED BY <3>1
    <2>4. counter = None \/ counter = 0 \/ (counter # None /\ counter > 0)
      BY <1>1
    <2> QED BY <2>1, <2>2, <2>3, <2>4
  <1>5. Book(r) => HandlerEffect(r, "idle", None)
    <2>1. free > 0 => free - 1 \in 0..total
      BY <1>1
    <2> QED BY <1>1, <2>1 DEF Book
  <1>6. BookFails(r) => HandlerEffect(r, "give back", None)
    BY <1>1 DEF BookFails
  <1>7. GiveBack(r) => HandlerEffect(r, "idle", None)
    <2>1. GiveBack(r) => counter' \in Nat
      <3>1. ASSUME GiveBack(r), counter = None PROVE counter' \in Nat
        <4>1. counter' = 0 + 1
          BY <3>1 DEF GiveBack
        <4> QED BY <4>1
      <3>2. ASSUME GiveBack(r), counter # None PROVE counter' \in Nat
        <4>1. counter \in Nat /\ counter' = counter + 1
          BY <1>1, <3>2 DEF GiveBack
        <4> QED BY <4>1
      <3> QED BY <3>1, <3>2
    <2>2. GiveBack(r) => counter' # None
      BY <2>1
    <2> QED BY <1>1, <2>1, <2>2 DEF GiveBack
  <1>8. CountSeats(r) => HandlerEffect(r, "set", free)
    BY <1>1 DEF CountSeats
  <1>9. SetCounter(r) => HandlerEffect(r, "idle", None)
    BY <1>1 DEF SetCounter
  <1>10. FreeSeat(r) => HandlerEffect(r, "give back", None)
    <2>1. free < total => free + 1 \in 0..total
      BY <1>1
    <2> QED BY <1>1, <2>1 DEF FreeSeat
  <1> HIDE DEF HandlerEffect
  <1>11. free \in Nat
    BY <1>1
  <1> QED
    BY <1>1, <1>2, <1>3, <1>4, <1>5, <1>6, <1>7, <1>8, <1>9, <1>10, <1>11 DEF Handle

LEMMA HandleService ==
    ASSUME ServiceInv, NEW r \in Requests, Handle(r), ~ReadCounter(r), Observe
    PROVE  ServiceInv'
  <1>1. PICK label \in Labels, seats \in Nat \cup {None} : HandlerEffect(r, label, seats)
    BY HandlerEffects
  <1>2. /\ pc' \in [Requests -> Labels] /\ avail' \in [Requests -> Nat \cup {None}]
        /\ price' \in [Requests -> Prices \cup {None}]
    BY <1>1 DEF HandlerEffect, ServiceInv, RequestTypeOK
  <1>3. RequestTypeOK'
    BY <1>2, ObserveKeeps DEF RequestTypeOK
  <1>4. \A q \in Requests : pc'[q] \in {"fill", "set"} => avail'[q] \in Nat
    BY <1>1 DEF HandlerEffect, ServiceInv, RequestTypeOK
  <1>5. \A q \in Requests : pc'[q] \in {"take", "book"} => pc[q] \in {"take", "book"} /\ price'[q] = price[q]
    BY <1>1 DEF HandlerEffect, ServiceInv, RequestTypeOK
  <1>6. ChargedInForce'
    BY <1>1, <1>3, <1>5, StillCharged DEF HandlerEffect
  <1> QED BY <1>1, <1>3, <1>4, <1>6 DEF HandlerEffect, ServiceInv

\* The cache lapses, or Redis loses its data.
LEMMA LossService ==
    ASSUME ServiceInv, CacheLapses \/ LoseRedis, Observe
    PROVE  ServiceInv'
  <1>1. /\ total' = total /\ stage' = stage /\ free' = free /\ pc' = pc /\ avail' = avail /\ price' = price
        /\ counter' \in {counter, None} /\ cached' \in {cached, None} /\ faults' \in 0..MaxFaults
        /\ intact' \in BOOLEAN /\ (intact' => intact /\ counter' = counter)
    <2>1. CASE CacheLapses
      BY <2>1 DEF CacheLapses, creation, request, faultVars, ServiceInv
    <2>2. CASE LoseRedis
      <3>1. faults' \in 0..MaxFaults
        BY <2>2, CatalogAssumption DEF LoseRedis, Fault, ServiceInv
      <3> QED BY <2>2, <3>1 DEF LoseRedis, Fault, creation, request, faultVars, ServiceInv
    <2> QED BY <2>1, <2>2
  <1>2. RequestTypeOK'
    BY <1>1, ObserveKeeps DEF ServiceInv, RequestTypeOK
  <1>3. ChargedInForce'
    BY <1>1, <1>2, StillCharged DEF ServiceInv
  <1> QED BY <1>1, <1>2, <1>3 DEF ServiceInv

LEMMA ServiceStep == PlanInv /\ ServiceInv /\ [Next]_vars => ServiceInv'
  <1> SUFFICES ASSUME PlanInv, ServiceInv, [Next]_vars PROVE ServiceInv'
    OBVIOUS
  <1>1. ASSUME Create, Observe PROVE ServiceInv'
    BY <1>1, CreateService
  <1>2. ASSUME NEW r \in Requests, Handle(r), Observe PROVE ServiceInv'
    BY <1>2, ReadCounterService, HandleService
  <1>3. ASSUME CacheLapses \/ LoseRedis, Observe PROVE ServiceInv'
    BY <1>3, LossService
  <1>4. CASE UNCHANGED vars
    BY <1>4 DEF vars, creation, request, faultVars, ServiceInv, RequestTypeOK, ChargedInForce
  <1> QED BY <1>1, <1>2, <1>3, <1>4 DEF Next

LEMMA ServiceInvariant == Spec => []ServiceInv
  BY ServiceInit, ServiceStep, PlanInvariant, PTL DEF Spec

\* The variables hold what the code expects, in particular no more seats than
\* were asked for are laid out or on sale, and the counter is never negative.
THEOREM CatalogTypeCorrect == Spec => []CatalogTypeOK
  <1>1. PlanInv /\ ServiceInv => CatalogTypeOK
    BY DEF PlanInv, ServiceInv, RequestTypeOK, Labels, CatalogTypeOK
  <1> QED BY <1>1, PlanInvariant, ServiceInvariant, PTL

\* The counter of a published event is there until Redis loses its data.
THEOREM CounterIsThere == Spec => []CounterFromTheStart
  <1>1. ServiceInv => CounterFromTheStart
    BY DEF ServiceInv, CounterFromTheStart
  <1> QED BY <1>1, ServiceInvariant, PTL

\* While Redis keeps its data nobody is charged a price that was not in force
\* during the request, whatever the cache holds and however many others book.
THEOREM PriceWasInForce == Spec => []ChargedInForce
  <1>1. ServiceInv => ChargedInForce
    BY DEF ServiceInv
  <1> QED BY <1>1, ServiceInvariant, PTL
=============================================================================

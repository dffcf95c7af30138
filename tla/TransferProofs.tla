--------------------------- MODULE TransferProofs ---------------------------
(***************************************************************************)
(* Proofs about Transfer, for any domains and specs and any number of      *)
(* orders: every chargeable order stays accounted for, what the host knows *)
(* is about its own order and final, and an order costs what was asked for *)
(* once, but for creates that were never answered.                         *)
(***************************************************************************)
EXTENDS Transfer, FiniteSetTheorems, SequenceTheorems, TLAPS

\* An accepted spec names a domain, and one that the user has wished.
LEMMA AcceptedNamesDomain ==
  ASSUME NEW s \in Specs, CreateAccepted(s)
  PROVE  s.domain \in Domains /\ s.domain \in Wish(s)
BY SpecAssumption DEF CreateAccepted, SpecValid, Wish

\* Orders are numbered from 1, and each is well formed.
LEMMA OrderFacts ==
  ASSUME TypeOK
  PROVE  /\ orders \in Seq(Order) /\ Len(orders) \in Nat
         /\ \A id \in DOMAIN orders : id \in Nat /\ orders[id] \in Order
BY ElementOfSeq DEF TypeOK

\* A placed order becomes the last one; the others stay as they were.
LEMMA OrderIsLast ==
  ASSUME TypeOK, NEW d \in Domains, NEW status, PlaceOrder(d, status)
  PROVE  /\ orders' \in Seq(Order)
         /\ Len(orders') = Len(orders) + 1 /\ Len(orders') <= MaxOrders
         /\ DOMAIN orders' = DOMAIN orders \cup {Len(orders')}
         /\ Len(orders') \in Nat /\ Len(orders') \notin DOMAIN orders
         /\ \A id \in DOMAIN orders : orders'[id] = orders[id]
         /\ orders'[Len(orders')].domain = d
         /\ orders'[Len(orders')].status = status
         /\ status \in {"pending", "failed"}
<1>1. orders \in Seq(Order)
  BY DEF TypeOK
<1> DEFINE order == [domain |-> d, status |-> status]
<1>2. orders' = Append(orders, order) /\ Len(orders) < MaxOrders
      /\ status \in {"pending", "failed"}
  BY DEF PlaceOrder
<1>3. order \in Order /\ order.domain = d /\ order.status = status
  BY <1>2 DEF Order, Statuses
<1> HIDE DEF order
<1>4. /\ orders' \in Seq(Order)
      /\ Len(orders') = Len(orders) + 1 /\ Len(orders') <= MaxOrders
      /\ DOMAIN orders' = DOMAIN orders \cup {Len(orders')}
      /\ Len(orders') \in Nat /\ Len(orders') \notin DOMAIN orders
      /\ \A id \in DOMAIN orders : orders'[id] = orders[id]
      /\ orders'[Len(orders')] = order
  BY <1>1, <1>2, <1>3, BoundAssumption
<1> QED BY <1>2, <1>3, <1>4

\* A placed order keeps the orders wished if its domain is.
LEMMA OrderIsWished ==
  ASSUME TypeOK, OrdersAreOwed, NEW d \in Domains, d \in wished, NEW status,
         PlaceOrder(d, status), UNCHANGED wished
  PROVE  \A id \in DOMAIN orders' : orders'[id].domain \in wished'
<1>1. \A id \in DOMAIN orders : orders[id].domain \in wished
  BY DEF OrdersAreOwed
<1>2. /\ DOMAIN orders' = DOMAIN orders \cup {Len(orders')}
      /\ \A id \in DOMAIN orders : orders'[id] = orders[id]
      /\ orders'[Len(orders')].domain = d
  BY OrderIsLast
<1> QED BY <1>1, <1>2

\* What Create answers is well formed, and is never the missing state.
LEMMA CreateTyped ==
  ASSUME NEW id \in Nat \cup {Absent}, NEW d \in Domains, NEW status \in {"pending", "failed"},
         NEW out, out = [id |-> id, domain |-> d, status |-> status]
  PROVE  /\ out \in Outputs /\ out # Absent
         /\ out.id = id /\ out.domain = d /\ out.status = status
<1>1. out \in Outputs
  BY DEF Outputs, Statuses
<1> QED BY <1>1, SentinelAssumption

\* The output of Read names the order and its status, and no domain.
LEMMA StatusTyped ==
  ASSUME TypeOK, NEW id \in DOMAIN orders
  PROVE  /\ StatusOutput(StatusAnswer(id)) \in Outputs
         /\ StatusOutput(StatusAnswer(id)) # Absent
         /\ StatusOutput(StatusAnswer(id))
              = [id |-> id, domain |-> Absent, status |-> orders[id].status]
<1>1. id \in Nat /\ orders[id] \in Order
  BY OrderFacts
<1> QED BY <1>1, SentinelAssumption DEF StatusOutput, StatusAnswer, Outputs, Order

\* The parts of the invariant that are not about orders, for a step that leaves
\* the spec alone and ends the plan.
LEMMA WishesStay ==
  ASSUME WishesAreKept, UNCHANGED <<spec, wished>>, plan' \in {plan, Absent}
  PROVE  WishesAreKept'
BY DEF WishesAreKept

\* Trouble only goes down, so the tags of late requests stay above it.
LEMMA TroubleFacts ==
  ASSUME TypeOK
  PROVE  /\ trouble \in Nat /\ MaxTrouble \in Nat /\ trouble <= MaxTrouble
         /\ Trouble => /\ trouble' \in 0..MaxTrouble
                       /\ trouble \in 1..MaxTrouble /\ trouble' < trouble
                       /\ \A n \in Nat : n > trouble => n > trouble'
BY BoundAssumption DEF TypeOK, Trouble

-----------------------------------------------------------------------------
\* The invariant holds at the start.
LEMMA InitEstablishes == Init => IInv
<1> SUFFICES ASSUME Init PROVE IInv
  OBVIOUS
<1>1. IsFiniteSet({}) /\ Cardinality({}) = 0
  BY FS_EmptySet
<1>2. wished \subseteq Domains
  BY SpecAssumption DEF Init, Wish
<1>3. TypeOK
  BY <1>1, <1>2, BoundAssumption DEF Init, TypeOK
<1>4. OrdersAreAccounted /\ SavedIsOwnOrder /\ WishesAreKept
  BY DEF Init, OrdersAreAccounted, SavedIsOwnOrder, WishesAreKept
<1>5. OrdersAreOwed
  BY <1>1 DEF Init, OrdersAreOwed
<1> QED BY <1>3, <1>4, <1>5 DEF IInv

\* An accepted plan's domain is one that was wished.
LEMMA PlanIsWished ==
  ASSUME TypeOK, WishesAreKept, plan # Absent, CreateAccepted(plan.spec)
  PROVE  plan.spec.domain \in Domains /\ plan.spec.domain \in wished
<1>1. plan.spec \in Specs
  BY DEF TypeOK, Plans
<1> QED BY <1>1, AcceptedNamesDomain DEF WishesAreKept

\* A create finds no state, so the order it places is the only one tracked.
LEMMA CreateStep ==
  ASSUME IInv, Create
  PROVE  IInv'
<1>0. /\ TypeOK /\ saved = Absent /\ DOMAIN orders = lost
      /\ WishesAreKept /\ OrdersAreOwed
  BY DEF IInv, OrdersAreAccounted, Create, Planned, TypeOK
<1>1. plan.spec.domain \in Domains /\ plan.spec.domain \in wished
  BY <1>0, PlanIsWished DEF Create, Planned
<1>2. plan' = Absent /\ UNCHANGED <<spec, late, lost, unanswered, wished, trouble>>
  BY DEF Create
<1>3. /\ Len(orders) \in Nat /\ unanswered \in Nat /\ Cardinality(late) \in Nat
      /\ Len(orders) + Cardinality(late) <= unanswered
  BY <1>0, OrderFacts, FS_CardinalityType DEF TypeOK, OrdersAreOwed
<1>4. WishesAreKept'
  BY <1>0, <1>2, WishesStay
<1>5. ASSUME NEW status \in Statuses, PlaceOrder(plan.spec.domain, status),
             saved' = CreateOutput([transfer |-> status = "pending", id |-> Len(orders'),
                                    domain |-> plan.spec.domain])
      PROVE  IInv'
  <2>0. PlaceOrder(plan.spec.domain, status)
    BY <1>5
  <2>1. /\ orders' \in Seq(Order)
        /\ Len(orders') = Len(orders) + 1
        /\ Len(orders') <= MaxOrders /\ Len(orders') \in Nat
        /\ DOMAIN orders' = DOMAIN orders \cup {Len(orders')}
        /\ orders'[Len(orders')].domain = plan.spec.domain
        /\ orders'[Len(orders')].status = status
        /\ status \in {"pending", "failed"}
    <3>1. PICK d \in Domains : d = plan.spec.domain /\ PlaceOrder(d, status)
      BY <1>1, <2>0
    <3>2. /\ orders' \in Seq(Order)
          /\ Len(orders') = Len(orders) + 1 /\ Len(orders') <= MaxOrders
          /\ DOMAIN orders' = DOMAIN orders \cup {Len(orders')}
          /\ Len(orders') \in Nat
          /\ orders'[Len(orders')].domain = d
          /\ orders'[Len(orders')].status = status
          /\ status \in {"pending", "failed"}
      BY <1>0, <3>1, OrderIsLast, Zenon
    <3> QED BY <3>1, <3>2
  <2>2. saved' = [id |-> Len(orders'), domain |-> plan.spec.domain, status |-> status]
    <3>1. CASE status = "pending"
      BY <1>5, <3>1 DEF CreateOutput
    <3>2. CASE status = "failed"
      BY <1>5, <3>2 DEF CreateOutput
    <3> QED BY <2>1, <3>1, <3>2
  <2>4. /\ saved' \in Outputs /\ saved' # Absent
        /\ saved'.id = Len(orders') /\ saved'.domain = plan.spec.domain
        /\ saved'.status = status
    BY <1>1, <2>1, <2>2, CreateTyped
  <2>5. saved'.id # Absent
    BY <2>1, <2>4, SentinelAssumption
  <2>6. TypeOK'
    BY <1>0, <1>2, <2>1, <2>4 DEF TypeOK
  <2>7. OrdersAreAccounted'
    BY <1>0, <1>2, <2>1, <2>4, <2>5 DEF OrdersAreAccounted
  <2>8. SavedIsOwnOrder'
    BY <2>1, <2>4, <2>5 DEF SavedIsOwnOrder
  <2>9. OrdersAreOwed'
    <3>1. \A id \in DOMAIN orders' : orders'[id].domain \in wished'
      BY <1>0, <1>1, <1>2, <1>5, OrderIsWished
    <3>2. Len(orders') + Cardinality(late') <= unanswered' + 1
      BY <1>2, <1>3, <2>1
    <3> QED BY <1>0, <1>2, <2>4, <3>1, <3>2 DEF OrdersAreOwed
  <2> QED BY <1>4, <2>6, <2>7, <2>8, <2>9 DEF IInv
<1>6. CASE /\ saved' = CreateOutput([transfer |-> FALSE, id |-> Absent,
                                     domain |-> plan.spec.domain])
           /\ UNCHANGED orders
  <2>1. /\ saved' \in Outputs /\ saved' # Absent
        /\ saved'.id = Absent /\ saved'.status = "failed"
    <3>1. saved' = [id |-> Absent, domain |-> plan.spec.domain, status |-> "failed"]
      BY <1>6 DEF CreateOutput
    <3> QED BY <1>1, <3>1, CreateTyped
  <2>2. TypeOK'
    BY <1>0, <1>2, <1>6, <2>1 DEF TypeOK
  <2>3. OrdersAreAccounted' /\ SavedIsOwnOrder'
    BY <1>0, <1>2, <1>6, <2>1 DEF OrdersAreAccounted, SavedIsOwnOrder
  <2>4. OrdersAreOwed'
    BY <1>0, <1>2, <1>3, <1>6, <2>1 DEF OrdersAreOwed
  <2> QED BY <1>4, <2>2, <2>3, <2>4 DEF IInv
<1> QED BY <1>5, <1>6 DEF Create

\* An unanswered create counts for the order it has placed, and for the request
\* it has left behind.
LEMMA LostStep ==
  ASSUME IInv, CreateAnswerLost
  PROVE  IInv'
<1>0. /\ TypeOK /\ saved = Absent /\ DOMAIN orders = lost
      /\ WishesAreKept /\ OrdersAreOwed
  BY DEF IInv, OrdersAreAccounted, CreateAnswerLost, Planned, TypeOK
<1>1. plan.spec.domain \in Domains /\ plan.spec.domain \in wished
  BY <1>0, PlanIsWished DEF CreateAnswerLost, Planned
<1>2. plan' = Absent /\ unanswered' = unanswered + 1 /\ Trouble
      /\ UNCHANGED <<spec, saved, wished>>
  BY DEF CreateAnswerLost
<1>3. /\ Len(orders) \in Nat /\ unanswered \in Nat /\ Cardinality(late) \in Nat
      /\ Len(orders) + Cardinality(late) <= unanswered /\ IsFiniteSet(late)
  BY <1>0, OrderFacts, FS_CardinalityType DEF TypeOK, OrdersAreOwed
<1>4. WishesAreKept'
  BY <1>0, <1>2, WishesStay
<1>5. /\ trouble' \in 0..MaxTrouble /\ trouble \in 1..MaxTrouble /\ trouble > trouble'
      /\ \A request \in late : request.tag > trouble'
  BY <1>0, <1>2, TroubleFacts DEF TypeOK, Requests
<1>6. SavedIsOwnOrder'
  BY <1>0, <1>2 DEF SavedIsOwnOrder
<1>7. ASSUME NEW status \in Statuses, PlaceOrder(plan.spec.domain, status),
             lost' = lost \cup {Len(orders')}, UNCHANGED late
      PROVE  IInv'
  <2>1. /\ orders' \in Seq(Order)
        /\ Len(orders') = Len(orders) + 1 /\ Len(orders') <= MaxOrders
        /\ DOMAIN orders' = DOMAIN orders \cup {Len(orders')}
    BY <1>0, <1>1, <1>7, OrderIsLast
  <2>2. TypeOK'
    BY <1>0, <1>2, <1>5, <1>7, <2>1 DEF TypeOK
  <2>3. OrdersAreAccounted'
    BY <1>0, <1>2, <1>7, <2>1 DEF OrdersAreAccounted
  <2>4. OrdersAreOwed'
    <3>1. \A id \in DOMAIN orders' : orders'[id].domain \in wished'
      BY <1>0, <1>1, <1>2, <1>7, OrderIsWished
    <3>2. Len(orders') + Cardinality(late') <= unanswered' + 0
      BY <1>2, <1>3, <1>7, <2>1
    <3> QED BY <1>0, <1>2, <1>7, <3>1, <3>2 DEF OrdersAreOwed
  <2> QED BY <1>4, <1>6, <2>2, <2>3, <2>4 DEF IInv
<1>8. CASE /\ late' = late \cup {[domain |-> plan.spec.domain, tag |-> trouble]}
           /\ UNCHANGED <<orders, lost>>
  <2> DEFINE request == [domain |-> plan.spec.domain, tag |-> trouble]
  <2>1. /\ request \in Requests /\ request.tag = trouble
        /\ request.domain = plan.spec.domain /\ late' = late \cup {request}
    BY <1>1, <1>5, <1>8 DEF Requests
  <2> HIDE DEF request
  <2>2. /\ IsFiniteSet(late') /\ Cardinality(late') \in Nat
        /\ Cardinality(late') <= Cardinality(late) + 1
    <3>1. /\ IsFiniteSet(late \cup {request})
          /\ Cardinality(late \cup {request}) =
               IF request \in late THEN Cardinality(late) ELSE Cardinality(late) + 1
      BY <1>3, FS_AddElement
    <3> QED BY <1>3, <2>1, <3>1
  <2>3. TypeOK'
    <3>1. late' \subseteq Requests /\ \A r \in late' : r.tag > trouble'
      BY <1>0, <1>5, <2>1 DEF TypeOK
    <3> QED BY <1>0, <1>2, <1>5, <1>8, <2>2, <3>1 DEF TypeOK
  <2>4. OrdersAreAccounted'
    BY <1>0, <1>2, <1>8 DEF OrdersAreAccounted
  <2>5. OrdersAreOwed'
    <3>1. Len(orders') + Cardinality(late') <= unanswered' + 0
      BY <1>2, <1>3, <1>8, <2>2
    <3> QED BY <1>0, <1>1, <1>2, <1>8, <2>1, <3>1 DEF OrdersAreOwed
  <2> QED BY <1>4, <1>6, <2>3, <2>4, <2>5 DEF IInv
<1> QED BY <1>7, <1>8 DEF CreateAnswerLost

\* A late request was counted when its create was given up, and it leaves the
\* state of the host alone.
LEMMA LandStep ==
  ASSUME IInv, NEW request \in late, Land(request)
  PROVE  IInv'
<1>0. TypeOK /\ OrdersAreAccounted /\ SavedIsOwnOrder /\ WishesAreKept /\ OrdersAreOwed
  BY DEF IInv
<1>1. /\ late' = late \ {request}
      /\ UNCHANGED <<spec, saved, plan, unanswered, wished, trouble>>
  BY DEF Land
<1>2. request.domain \in Domains /\ request.domain \in wished
  BY <1>0 DEF TypeOK, Requests, OrdersAreOwed
<1>3. /\ IsFiniteSet(late') /\ Cardinality(late') = Cardinality(late) - 1
      /\ Cardinality(late) \in Nat /\ Cardinality(late') \in Nat
  BY <1>0, <1>1, FS_RemoveElement, FS_CardinalityType DEF TypeOK
<1> DEFINE Tracked == IF saved = Absent THEN 0 ELSE 1
<1>4. /\ Tracked \in Nat /\ Len(orders) \in Nat /\ unanswered \in Nat
      /\ Len(orders) + Cardinality(late) <= unanswered + Tracked
  BY <1>0, OrderFacts DEF TypeOK, OrdersAreOwed
<1>5. WishesAreKept'
  BY <1>0, <1>1, WishesStay
<1>6. late' \subseteq Requests /\ \A r \in late' : r.tag > trouble' /\ r.domain \in wished'
  BY <1>0, <1>1 DEF TypeOK, OrdersAreOwed
<1>7. ASSUME NEW status \in Statuses, PlaceOrder(request.domain, status),
             lost' = lost \cup {Len(orders')}
      PROVE  IInv'
  <2>1. /\ orders' \in Seq(Order)
        /\ Len(orders') = Len(orders) + 1 /\ Len(orders') <= MaxOrders
        /\ DOMAIN orders' = DOMAIN orders \cup {Len(orders')}
        /\ \A id \in DOMAIN orders : orders'[id] = orders[id]
    BY <1>0, <1>2, <1>7, OrderIsLast
  <2>2. TypeOK'
    BY <1>0, <1>1, <1>3, <1>6, <1>7, <2>1 DEF TypeOK
  <2>3. OrdersAreAccounted'
    BY <1>0, <1>1, <1>7, <2>1 DEF OrdersAreAccounted
  <2>4. SavedIsOwnOrder'
    BY <1>0, <1>1, <2>1 DEF SavedIsOwnOrder
  <2>5. OrdersAreOwed'
    <3>1. \A id \in DOMAIN orders' : orders'[id].domain \in wished'
      BY <1>0, <1>1, <1>2, <1>7, OrderIsWished
    <3> HIDE DEF Tracked
    <3>2. Len(orders') + Cardinality(late') <= unanswered' + Tracked
      BY <1>1, <1>3, <1>4, <2>1
    <3> QED BY <1>1, <1>6, <3>1, <3>2 DEF OrdersAreOwed, Tracked
  <2> QED BY <1>5, <2>2, <2>3, <2>4, <2>5 DEF IInv
<1>8. CASE UNCHANGED <<orders, lost>>
  <2>1. TypeOK'
    BY <1>0, <1>1, <1>3, <1>6, <1>8 DEF TypeOK
  <2>2. OrdersAreAccounted' /\ SavedIsOwnOrder'
    BY <1>0, <1>1, <1>8 DEF OrdersAreAccounted, SavedIsOwnOrder
  <2>3. OrdersAreOwed'
    <3> HIDE DEF Tracked
    <3>1. Len(orders') + Cardinality(late') <= unanswered' + Tracked
      BY <1>1, <1>3, <1>4, <1>8
    <3> QED BY <1>0, <1>1, <1>6, <1>8, <3>1 DEF OrdersAreOwed, Tracked
  <2> QED BY <1>5, <2>1, <2>2, <2>3 DEF IInv
<1> QED BY <1>7, <1>8 DEF Land

\* What was owed stays owed where no order is placed and no request left behind,
\* and the host keeps its state or takes one up.
LEMMA OwedStays ==
  ASSUME TypeOK, OrdersAreOwed, orders' \in Seq(Order), Len(orders') = Len(orders),
         DOMAIN orders' = DOMAIN orders,
         \A id \in DOMAIN orders : orders'[id].domain = orders[id].domain,
         UNCHANGED <<late, unanswered>>, wished \subseteq wished',
         saved # Absent => saved' # Absent
  PROVE  OrdersAreOwed'
<1> DEFINE Tracked == IF saved = Absent THEN 0 ELSE 1
           TrackedNext == IF saved' = Absent THEN 0 ELSE 1
<1>1. /\ Tracked \in Nat /\ TrackedNext \in Nat /\ Tracked <= TrackedNext
      /\ Len(orders) \in Nat /\ unanswered \in Nat /\ Cardinality(late) \in Nat
      /\ Len(orders) + Cardinality(late) <= unanswered + Tracked
  BY OrderFacts, FS_CardinalityType DEF TypeOK, OrdersAreOwed
<1>2. Len(orders') + Cardinality(late') <= unanswered' + TrackedNext
  <2> HIDE DEF Tracked, TrackedNext
  <2> QED BY <1>1
<1>3. /\ \A id \in DOMAIN orders' : orders'[id].domain \in wished'
      /\ \A request \in late' : request.domain \in wished'
  BY DEF OrdersAreOwed
<1> QED BY <1>2, <1>3 DEF OrdersAreOwed

\* The host takes over what the registrar says of an order: the one it tracks,
\* or one that it adopts while it tracks none.
LEMMA StatusStep ==
  ASSUME IInv, Refresh \/ \E id \in DOMAIN orders : Adopt(id)
  PROVE  IInv'
<1>0. TypeOK /\ OrdersAreAccounted /\ SavedIsOwnOrder /\ WishesAreKept /\ OrdersAreOwed
  BY DEF IInv
<1>1. CASE Refresh
  <2>1. /\ saved # Absent /\ saved.id \in DOMAIN orders
        /\ saved' = StatusOutput(StatusAnswer(saved.id))
    BY <1>0, <1>1 DEF Refresh, TypeOK
  <2>2. /\ saved' \in Outputs /\ saved' # Absent
        /\ saved' = [id |-> saved.id, domain |-> Absent, status |-> orders[saved.id].status]
    BY <1>0, <2>1, StatusTyped
  <2>3. UNCHANGED <<orders, spec, plan, late, lost, unanswered, wished, trouble>>
    BY <1>1 DEF Refresh
  <2>4. TypeOK'
    BY <1>0, <2>1, <2>2, <2>3 DEF TypeOK
  <2>5. OrdersAreAccounted' /\ SavedIsOwnOrder'
    <3>1. /\ saved'.id = saved.id /\ saved'.domain = Absent
          /\ saved'.status = orders[saved.id].status
      BY <2>2
    <3>2. saved.id # Absent
      BY <1>1 DEF Refresh
    <3>3. OrdersAreAccounted'
      BY <1>0, <2>1, <2>2, <2>3, <3>1 DEF OrdersAreAccounted
    <3>4. SavedIsOwnOrder'
      BY <2>1, <2>2, <2>3, <3>1, <3>2 DEF SavedIsOwnOrder
    <3> QED BY <3>3, <3>4
  <2>6. WishesAreKept' /\ OrdersAreOwed'
    BY <1>0, <2>2, <2>3, WishesStay, OwedStays DEF TypeOK
  <2> QED BY <2>4, <2>5, <2>6 DEF IInv
<1>2. ASSUME NEW id \in DOMAIN orders, Adopt(id)
      PROVE  IInv'
  <2>1. /\ saved' \in Outputs /\ saved' # Absent
        /\ saved' = [id |-> id, domain |-> Absent, status |-> orders[id].status]
    BY <1>0, <1>2, StatusTyped DEF Adopt
  <2>2. id # Absent
    BY <1>0, OrderFacts, SentinelAssumption
  <2>3. /\ saved = Absent /\ plan = Absent /\ lost' = lost \ {id}
        /\ UNCHANGED <<orders, spec, plan, late, unanswered, wished, trouble>>
    BY <1>2 DEF Adopt
  <2>4. TypeOK'
    BY <1>0, <2>1, <2>3 DEF TypeOK
  <2>5. saved' # Absent /\ saved'.id = id /\ saved'.domain = Absent
        /\ saved'.status = orders[id].status
    BY <2>1
  <2>6. OrdersAreAccounted' /\ SavedIsOwnOrder'
    <3>1. DOMAIN orders = lost
      BY <1>0, <2>3 DEF OrdersAreAccounted
    <3>2. OrdersAreAccounted'
      BY <2>2, <2>3, <2>5, <3>1 DEF OrdersAreAccounted
    <3>3. SavedIsOwnOrder'
      BY <2>2, <2>3, <2>5 DEF SavedIsOwnOrder
    <3> QED BY <3>2, <3>3
  <2>7. WishesAreKept' /\ OrdersAreOwed'
    BY <1>0, <2>1, <2>3, WishesStay, OwedStays DEF TypeOK
  <2> QED BY <2>4, <2>6, <2>7 DEF IInv
<1> QED BY <1>1, <1>2

\* A decided order was pending before, so what the host knows is not refuted.
LEMMA DecideStep ==
  ASSUME IInv, NEW id \in DOMAIN orders, NEW status \in {"completed", "failed"},
         Decide(id, status)
  PROVE  IInv'
<1>0. TypeOK /\ OrdersAreAccounted /\ SavedIsOwnOrder /\ WishesAreKept /\ OrdersAreOwed
  BY DEF IInv
<1>1. /\ orders' \in Seq(Order)
      /\ Len(orders') = Len(orders) /\ DOMAIN orders' = DOMAIN orders
      /\ \A i \in DOMAIN orders : orders'[i].domain = orders[i].domain
      /\ \A i \in DOMAIN orders : orders'[i].status = orders[i].status \/ i = id
  <2>1. orders \in Seq(Order)
    BY <1>0, OrderFacts
  <2>2. orders[id] \in Order
    BY <1>0, OrderFacts
  <2>3. orders' = [orders EXCEPT ![id] = [domain |-> orders[id].domain, status |-> status]]
    <3>1. \A o \in Order : [o EXCEPT !.status = status] = [domain |-> o.domain, status |-> status]
      BY DEF Order
    <3>2. orders' = [orders EXCEPT ![id] = [orders[id] EXCEPT !.status = status]]
      BY Zenon DEF Decide
    <3>3. [orders[id] EXCEPT !.status = status] = [domain |-> orders[id].domain, status |-> status]
      BY <2>2, <3>1, Zenon
    <3> QED BY <3>2, <3>3, Zenon
  <2>4. [domain |-> orders[id].domain, status |-> status] \in Order
    BY <2>2 DEF Order, Statuses
  <2> QED BY <2>1, <2>3, <2>4
<1>2. orders[id].status = "pending"
  BY DEF Decide
<1>3. UNCHANGED <<spec, saved, plan, late, lost, unanswered, wished, trouble>>
  BY DEF Decide
<1>4. TypeOK'
  BY <1>0, <1>1, <1>3 DEF TypeOK
<1>5. OrdersAreAccounted' /\ SavedIsOwnOrder'
  BY <1>0, <1>1, <1>2, <1>3 DEF OrdersAreAccounted, SavedIsOwnOrder
<1>6. WishesAreKept' /\ OrdersAreOwed'
  BY <1>0, <1>1, <1>3, WishesStay, OwedStays
<1> QED BY <1>4, <1>5, <1>6 DEF IInv

\* Planning, editing and giving up leave the orders and the state alone.
LEMMA HostSteps ==
  ASSUME IInv, MakePlan \/ CreateFails \/ Replace \/ \E s \in Specs : EditSpec(s)
  PROVE  IInv'
<1>0. TypeOK /\ OrdersAreAccounted /\ SavedIsOwnOrder /\ WishesAreKept /\ OrdersAreOwed
  BY DEF IInv
<1>1. UNCHANGED <<orders, saved, late, lost, unanswered>> /\ wished \subseteq wished'
  BY DEF MakePlan, CreateFails, Replace, EditSpec
<1>2. OrdersAreAccounted' /\ SavedIsOwnOrder'
  BY <1>0, <1>1 DEF OrdersAreAccounted, SavedIsOwnOrder
<1>3. OrdersAreOwed'
  BY <1>0, <1>1, OwedStays DEF TypeOK
<1>4. CASE MakePlan
  <2>1. plan' = [action |-> IF saved = Absent THEN "create" ELSE Diff(spec, saved), spec |-> spec]
        /\ UNCHANGED <<spec, wished, trouble>>
    BY <1>4 DEF MakePlan
  <2>2. saved # Absent => Diff(spec, saved) = "replace"
    BY <1>4 DEF MakePlan, Diff
  <2>3. plan' \in Plans /\ (plan'.action = "create" <=> saved = Absent) /\ plan'.spec = spec
    BY <1>0, <2>1, <2>2 DEF TypeOK, Plans
  <2>4. TypeOK'
    BY <1>0, <1>1, <2>1, <2>3 DEF TypeOK
  <2>5. WishesAreKept'
    BY <1>0, <2>1, <2>3 DEF WishesAreKept
  <2> QED BY <1>2, <1>3, <2>4, <2>5 DEF IInv
<1>5. CASE CreateFails \/ Replace
  <2>1. plan' = Absent /\ UNCHANGED <<spec, wished, trouble>>
    BY <1>5 DEF CreateFails, Replace
  <2>2. TypeOK'
    BY <1>0, <1>1, <2>1 DEF TypeOK
  <2>3. WishesAreKept'
    BY <1>0, <2>1, WishesStay
  <2> QED BY <1>2, <1>3, <2>2, <2>3 DEF IInv
<1>6. ASSUME NEW s \in Specs, EditSpec(s)
      PROVE  IInv'
  <2>1. spec' = s /\ wished' = wished \cup Wish(s) /\ Trouble /\ UNCHANGED plan
    BY <1>6 DEF EditSpec
  <2>2. trouble' \in 0..MaxTrouble /\ \A request \in late : request.tag > trouble'
    BY <1>0, <2>1, TroubleFacts DEF TypeOK, Requests
  <2>3. wished' \subseteq Domains
    BY <1>0, <2>1, SpecAssumption DEF TypeOK, Wish
  <2>4. TypeOK'
    BY <1>0, <1>1, <2>1, <2>2, <2>3 DEF TypeOK
  <2>5. WishesAreKept'
    BY <1>0, <2>1 DEF WishesAreKept
  <2> QED BY <1>2, <1>3, <2>4, <2>5 DEF IInv
<1> QED BY <1>4, <1>5, <1>6

\* Every step keeps the invariant.
LEMMA StepPreserves == IInv /\ [Next]_vars => IInv'
<1>1. ASSUME IInv, Next PROVE IInv'
  BY <1>1, CreateStep, LostStep, LandStep, StatusStep, DecideStep, HostSteps DEF Next
<1>2. ASSUME IInv, UNCHANGED vars PROVE IInv'
  BY <1>2
  DEF IInv, TypeOK, OrdersAreAccounted, SavedIsOwnOrder, WishesAreKept, OrdersAreOwed, vars
<1> QED BY <1>1, <1>2

-----------------------------------------------------------------------------
(* The theorems                                                            *)

\* The inductive invariant holds in every reachable state.
THEOREM Invariance == Spec => []IInv
BY InitEstablishes, StepPreserves, PTL DEF Spec

\* Orders, state and plan of transfer.go's resource stay well formed, and a
\* create is only ever planned while the host has no state.
THEOREM TypeCorrect == Spec => []TypeOK
<1>1. IInv => TypeOK
  BY DEF IInv
<1> QED BY <1>1, Invariance, PTL

\* However often plan and apply run, every chargeable order is the one tracked
\* or one whose answer was lost.
THEOREM NoOrderIsForgotten == Spec => []OrdersAreAccounted
<1>1. IInv => OrdersAreAccounted
  BY DEF IInv
<1> QED BY <1>1, Invariance, PTL

\* Create's output and the status Read takes over are about the tracked order.
THEOREM StateIsOwnOrder == Spec => []SavedIsOwnOrder
<1>1. IInv => SavedIsOwnOrder
  BY DEF IInv
<1> QED BY <1>1, Invariance, PTL

\* Create and the requests it leaves behind spend money only on a domain asked for
\* in a complete, confirmed spec, and once, but for the creates never answered.
THEOREM OrdersOwed == Spec => []OrdersAreOwed
<1>1. IInv => OrdersAreOwed
  BY DEF IInv
<1> QED BY <1>1, Invariance, PTL

-----------------------------------------------------------------------------
(* What it rests on that the outcome of a transfer is seen                 *)

\* The registrar's decision changes the status of a pending order, and no more.
LEMMA DecideKeeps ==
  ASSUME TypeOK, NEW i \in DOMAIN orders, NEW status \in {"completed", "failed"},
         Decide(i, status)
  PROVE  /\ DOMAIN orders' = DOMAIN orders
         /\ \A id \in DOMAIN orders :
              /\ orders'[id].domain = orders[id].domain
              /\ orders[id].status # "pending" => orders'[id].status = orders[id].status
<1>1. orders[i].status = "pending"
  BY DEF Decide
<1>2. orders' = [orders EXCEPT ![i] = [orders[i] EXCEPT !.status = status]]
  BY Zenon DEF Decide
<1>3. orders[i] \in Order
  BY OrderFacts
<1>4. [orders[i] EXCEPT !.status = status].domain = orders[i].domain
  BY <1>3 DEF Order
<1> QED BY <1>1, <1>2, <1>4

\* The safety behind OutcomeIsSeen: Create finds no state to overwrite, Delete
\* refuses, and the status Read takes over is that of the very order.
THEOREM OutcomesStay == Spec => OutcomesAreFinal
<1> DEFINE OrdersStay ==
      \A id \in DOMAIN orders :
        /\ id \in DOMAIN orders' /\ orders'[id].domain = orders[id].domain
        /\ orders[id].status # "pending" => orders'[id].status = orders[id].status
    StateStays ==
      saved # Absent /\ saved.id # Absent =>
        /\ saved' # Absent /\ saved'.id = saved.id
        /\ saved.status # "pending" => saved'.status = saved.status
    Final ==
      \A id \in DOMAIN orders :
        /\ id \in DOMAIN orders' /\ orders'[id].domain = orders[id].domain
        /\ orders[id].status # "pending" => orders'[id].status = orders[id].status
        /\ saved # Absent /\ saved.id = id =>
             /\ saved' # Absent /\ saved'.id = id
             /\ saved.status # "pending" => saved'.status = saved.status
<1>1. ASSUME IInv, [Next]_vars
      PROVE  OrdersStay
  <2>0. TypeOK /\ WishesAreKept
    BY <1>1 DEF IInv
  <2>1. CASE Create \/ CreateAnswerLost
    <3>1. plan.spec.domain \in Domains
      BY <2>0, <2>1, PlanIsWished DEF Create, CreateAnswerLost, Planned
    <3>2. (\E status \in Statuses : PlaceOrder(plan.spec.domain, status)) \/ UNCHANGED orders
      BY <2>1 DEF Create, CreateAnswerLost
    <3> QED BY <2>0, <3>1, <3>2, OrderIsLast
  <2>2. CASE \E i \in DOMAIN orders, status \in {"completed", "failed"} : Decide(i, status)
    BY <2>0, <2>2, DecideKeeps
  <2>3. ASSUME NEW request \in late, Land(request)
        PROVE  OrdersStay
    <3>1. request.domain \in Domains
      BY <2>0 DEF TypeOK, Requests
    <3>2. (\E status \in Statuses : PlaceOrder(request.domain, status)) \/ UNCHANGED orders
      BY <2>3 DEF Land
    <3> QED BY <2>0, <3>1, <3>2, OrderIsLast
  <2>4. CASE UNCHANGED orders
    BY <2>4
  <2> QED
    BY <1>1, <2>1, <2>2, <2>3, <2>4
    DEF Next, vars, MakePlan, CreateFails, Replace, Refresh, Adopt, EditSpec
<1>2. ASSUME IInv, [Next]_vars, saved # Absent, saved.id # Absent
      PROVE  /\ saved' # Absent /\ saved'.id = saved.id
             /\ saved.status # "pending" => saved'.status = saved.status
  <2>0. /\ TypeOK /\ saved.id \in DOMAIN orders
        /\ saved.status \in {"pending", orders[saved.id].status}
    BY <1>2 DEF IInv, SavedIsOwnOrder
  <2>1. CASE Refresh
    <3>1. saved' = StatusOutput(StatusAnswer(saved.id))
      BY <2>1 DEF Refresh
    <3>2. saved' # Absent /\ saved'.id = saved.id /\ saved'.status = orders[saved.id].status
      BY <2>0, <3>1, StatusTyped
    <3> QED BY <2>0, <3>2
  <2>2. CASE Create \/ \E id \in DOMAIN orders : Adopt(id)
    BY <1>2, <2>0, <2>2 DEF TypeOK, Create, Adopt, Planned
  <2>3. CASE UNCHANGED saved
    BY <1>2, <2>3
  <2> QED
    BY <1>2, <2>1, <2>2, <2>3
    DEF Next, vars, CreateAnswerLost, MakePlan, CreateFails, Replace, Decide, EditSpec, Land
<1>3. ASSUME IInv, [Next]_vars
      PROVE  Final
  <2>1. OrdersStay /\ StateStays
    BY <1>1, <1>2, <1>3
  <2>2. \A id \in DOMAIN orders : id # Absent
    BY <1>3, OrderFacts, SentinelAssumption DEF IInv
  <2> QED BY <2>1, <2>2
<1>4. Spec => [][Final]_vars
  BY <1>3, Invariance, PTL DEF Spec
<1> QED BY <1>4 DEF OutcomesAreFinal
=============================================================================

------------------------ MODULE OrderFulfillmentProofs ------------------------
(***************************************************************************)
(* Type correctness of OrderFulfillment and the safety of the money path,  *)
(* for any orders and any number of aborted requests and rounds.           *)
(***************************************************************************)
EXTENDS OrderFulfillment, TLAPS

Places == {"record", "mirror", "mark", "check", "reverse", "enter", "ack"}
Targets == {"PLACED", "SHIPPED", "DELIVERED", "FAILED"}
Ids == {"none", "supplier", "dry"}

HookTypeOK == hook = Idle \/ hook \in [at : Places, event : sent]

WorkerTypeOK ==
  \/ worker = Idle
  \/ worker \in [at : {"next"}, doing : {"place", "poll"}, batch : SUBSET Orders]
  \/ worker \in [at : {"lookup", "create", "check", "write"}, doing : {"place", "poll"},
                 batch : SUBSET Orders, order : Orders, target : Targets, id : Ids]

\* The request and the round of TypeOK, by case.
LEMMA ActorTypes == TypeOK => HookTypeOK /\ WorkerTypeOK
BY DEF TypeOK, HookTypeOK, WorkerTypeOK, Places, Targets, Ids

\* An entry of a function is replaced.
LEMMA Entry ==
  ASSUME NEW S, NEW T, NEW f \in [S -> T], NEW s \in S, NEW v \in T
  PROVE  [f EXCEPT ![s] = v] \in [S -> T]
OBVIOUS

LEMMA TypeInit == Init => TypeOK
BY OrdersAssumption DEF Init, TypeOK, Idle, Events

LEMMA HookStepType ==
  ASSUME TypeOK, NEW from \in Places, NEW to \in Places, HookGoes(from, to)
  PROVE  /\ hook.event \in Events /\ hook.event.order \in Orders
         /\ hook.event \in sent /\ hook' \in [at : Places, event : sent]
<1> HookTypeOK
  BY ActorTypes
<1>1. hook # Idle
  BY DEF HookGoes, Idle, Places
<1>2. hook \in [at : Places, event : sent]
  BY <1>1 DEF HookTypeOK
<1>3. sent \subseteq Events
  BY DEF TypeOK
<1> QED
  BY <1>2, <1>3 DEF HookGoes, HookAt, Events

LEMMA WorkerStepType ==
  ASSUME TypeOK, worker.at \in {"lookup", "create", "check", "write"}
  PROVE  /\ worker \in [at : {"lookup", "create", "check", "write"}, doing : {"place", "poll"},
                        batch : SUBSET Orders, order : Orders, target : Targets, id : Ids]
         /\ worker.order \in Orders /\ worker.target \in Targets
<1> WorkerTypeOK
  BY ActorTypes
<1>1. worker # Idle
  BY DEF Idle
<1> QED
  BY <1>1 DEF WorkerTypeOK

LEMMA PicksType ==
  ASSUME TypeOK, NEW o \in Orders, NEW doing, Picks(o, doing)
  PROVE  worker.doing \in {"place", "poll"} /\ worker.batch \in SUBSET Orders
         /\ worker \in [at : {"next"}, doing : {"place", "poll"}, batch : SUBSET Orders]
<1> WorkerTypeOK
  BY ActorTypes
<1> QED
  BY DEF WorkerTypeOK, Picks, Idle

\* The round turns to one of its orders.
LEMMA HandlingType ==
  ASSUME TypeOK, NEW o \in Orders, NEW doing, Picks(o, doing),
         NEW at \in {"lookup", "check"}, NEW target \in Targets, NEW placed \in Ids
  PROVE  /\ Handling(at, worker, o, target, placed) \in
              [at : {"lookup", "create", "check", "write"}, doing : {"place", "poll"},
               batch : SUBSET Orders, order : Orders, target : Targets, id : Ids]
         /\ Handling(at, worker, o, target, placed).at = at
         /\ Handling(at, worker, o, target, placed).order = o
         /\ Handling(at, worker, o, target, placed).target = target
         /\ Handling(at, worker, o, target, placed).id = placed
         /\ Handling(at, worker, o, target, placed).doing = doing
         /\ Handling(at, worker, o, target, placed).batch = worker.batch \ {o}
<1>1. worker.doing \in {"place", "poll"} /\ worker.batch \in SUBSET Orders
  BY PicksType
<1>2. worker.doing = doing
  BY DEF Picks
<1> QED
  BY <1>1, <1>2 DEF Handling

\* The part of TypeOK that the two actors do not touch by themselves.
DataTypeOK ==
  /\ payment \in [Orders -> {"open", "pending", "settled", "returned"}]
  /\ sent \subseteq Events /\ seen \subseteq sent
  /\ row \in [Orders -> {"absent"} \cup FULFILLMENT_STATES] 
  /\ id \in [Orders -> Ids] /\ done \in [Orders -> BOOLEAN]
  /\ books \in [Orders -> SUBSET {"sale", "refund"}]
  /\ supplier \in [Orders -> {"none", "placed", "shipped", "delivered", "cancelled"}]
  /\ placements \in [Orders -> Nat] /\ blind \in [Orders -> Nat] /\ faults \in 0..MaxFaults

LEMMA Parts == TypeOK <=> DataTypeOK /\ HookTypeOK /\ WorkerTypeOK
BY DEF TypeOK, DataTypeOK, HookTypeOK, WorkerTypeOK, Places, Targets, Ids

LEMMA TypeStep == TypeOK /\ [Next]_vars => TypeOK'
<1> SUFFICES ASSUME TypeOK, [Next]_vars PROVE TypeOK'
  OBVIOUS
<1>p. DataTypeOK /\ HookTypeOK /\ WorkerTypeOK
  BY Parts
<1>s. DataTypeOK' /\ HookTypeOK' /\ WorkerTypeOK' => TypeOK'
  BY DEF TypeOK, DataTypeOK, HookTypeOK, WorkerTypeOK, Places, Targets, Ids
<1>1. ASSUME NEW o \in Orders, Customer(o) PROVE TypeOK'
  <2>1. PICK from, to \in {"open", "pending", "settled", "returned"}, k \in Kinds : Pays(o, from, to, k)
    BY <1>1 DEF Customer, Kinds, ReversalKinds
  <2>2. Event(o, k) \in Events
    BY DEF Event, Events
  <2>3. DataTypeOK'
    BY <1>p, <2>1, <2>2 DEF Pays, DataTypeOK, shop
  <2>4. HookTypeOK'
    BY <1>p, <2>1 DEF Pays, HookTypeOK
  <2> QED
    BY <1>p, <1>s, <2>1, <2>3, <2>4 DEF Pays, WorkerTypeOK
<1>2. ASSUME NEW o \in Orders, SupplierMoves(o) PROVE TypeOK'
  <2>1. PICK s \in {"shipped", "delivered", "cancelled"} : supplier' = [supplier EXCEPT ![o] = s]
    BY <1>2 DEF SupplierMoves
  <2>2. DataTypeOK'
    BY <1>p, <1>2, <2>1 DEF SupplierMoves, DataTypeOK, stripe
  <2> QED
    BY <1>p, <1>s, <1>2, <2>2 DEF SupplierMoves, HookTypeOK, WorkerTypeOK, stripe
<1>3. ASSUME NEW e \in Events, Deliver(e) PROVE TypeOK'
  <2>1. FirstStep(e.kind) \in Places
    BY DEF FirstStep, Places
  <2>2. HookTypeOK'
    BY <1>3, <2>1 DEF Deliver, HookAt, HookTypeOK, stripe
  <2> QED
    BY <1>p, <1>s, <1>3, <2>2 DEF Deliver, DataTypeOK, WorkerTypeOK, stripe, shop
<1>4. ASSUME Webhook PROVE TypeOK'
  <2> USE DEF Places
  <2>1. CASE Record
    <3>1. hook.event.order \in Orders /\ HookTypeOK'
      BY <2>1, HookStepType DEF Record, HookTypeOK, stripe
    <3>2. DataTypeOK'
      BY <1>p, <2>1, <3>1 DEF Record, DataTypeOK, FULFILLMENT_STATES, stripe, shop
    <3> QED
      BY <1>p, <1>s, <2>1, <3>1, <3>2 DEF Record, WorkerTypeOK
  <2>2. CASE RecordRaises
    BY <1>p, <1>s, <2>2, OrdersAssumption
       DEF RecordRaises, HookAfterError, DataTypeOK, HookTypeOK, WorkerTypeOK, stripe, shop
  <2>3. CASE Mirror
    <3>1. hook.event.order \in Orders /\ HookTypeOK'
      BY <2>3, HookStepType DEF Mirror, HookTypeOK, stripe
    <3>2. DataTypeOK'
      BY <1>p, <2>3, <3>1 DEF Mirror, DataTypeOK, stripe, shop
    <3> QED
      BY <1>p, <1>s, <2>3, <3>1, <3>2 DEF Mirror, WorkerTypeOK
  <2>4. CASE MarkDone
    <3>1. hook.event.order \in Orders /\ HookTypeOK'
      BY <2>4, HookStepType DEF MarkDone, HookTypeOK, stripe
    <3>2. DataTypeOK'
      BY <1>p, <2>4, <3>1 DEF MarkDone, DataTypeOK, stripe, shop
    <3> QED
      BY <1>p, <1>s, <2>4, <3>1, <3>2 DEF MarkDone, WorkerTypeOK
  <2>5. CASE FeedRaises
    <3>1. HookGoes(hook.at, "ack")
      BY <2>5 DEF FeedRaises, HookGoes, AfterFeedError
    <3>2. HookTypeOK'
      BY <2>5, <3>1, HookStepType DEF FeedRaises, HookTypeOK, stripe
    <3> QED
      BY <1>p, <1>s, <2>5, <3>2 DEF FeedRaises, DataTypeOK, WorkerTypeOK, stripe, shop
  <2>6. CASE CheckReversal
    <3>1. HookTypeOK'
      BY <2>6, HookStepType DEF CheckReversal, HookTypeOK, stripe
    <3> QED
      BY <1>p, <1>s, <2>6, <3>1 DEF CheckReversal, DataTypeOK, WorkerTypeOK, stripe, shop
  <2>7. CASE Reverse
    <3>1. hook.event.order \in Orders /\ HookTypeOK'
      BY <2>7, HookStepType DEF Reverse, HookTypeOK, stripe
    <3>2. DataTypeOK'
      BY <1>p, <2>7, <3>1 DEF Reverse, DataTypeOK, FULFILLMENT_STATES, stripe, shop
    <3> QED
      BY <1>p, <1>s, <2>7, <3>1, <3>2 DEF Reverse, WorkerTypeOK
  <2>8. CASE EnterRefund
    <3>1. hook.event.order \in Orders /\ HookTypeOK'
      BY <2>8, HookStepType DEF EnterRefund, HookTypeOK, stripe
    <3>2. DataTypeOK'
      BY <1>p, <2>8, <3>1 DEF EnterRefund, DataTypeOK, stripe, shop
    <3> QED
      BY <1>p, <1>s, <2>8, <3>1, <3>2 DEF EnterRefund, WorkerTypeOK
  <2>9. CASE MarkSeen
    <3>1. hook.event \in sent
      BY <1>p, <2>9 DEF MarkSeen, HookTypeOK, Idle
    <3>2. DataTypeOK'
      BY <1>p, <2>9, <3>1 DEF MarkSeen, DataTypeOK, stripe, shop
    <3> QED
      BY <1>p, <1>s, <2>9, <3>2 DEF MarkSeen, HookTypeOK, WorkerTypeOK
  <2> QED
    BY <1>4, <2>1, <2>2, <2>3, <2>4, <2>5, <2>6, <2>7, <2>8, <2>9 DEF Webhook
<1>5. ASSUME Fulfillment PROVE TypeOK'
  <2>a. ASSUME WorkerTypeOK', UNCHANGED <<stripe, seen, row, id, done, books, hook, shop, faults>>
        PROVE  TypeOK'
    BY <1>p, <1>s, <2>a DEF DataTypeOK, HookTypeOK, stripe, shop
  <2>b. \A doing \in {"place", "poll"}, batch \in SUBSET Orders :
          Round(doing, batch) \in [at : {"next"}, doing : {"place", "poll"}, batch : SUBSET Orders]
    BY DEF Round
  <2>1. CASE StartRound
    <3>1. WorkerTypeOK'
      BY <2>1, <2>b DEF StartRound, WorkerTypeOK, WithStatus
    <3> QED
      BY <2>1, <2>a, <3>1 DEF StartRound
  <2>2. CASE StartPolling
    <3>1. WorkerTypeOK'
      BY <2>2, <2>b DEF StartPolling, WorkerTypeOK, WithStatus
    <3> QED
      BY <2>2, <2>a, <3>1 DEF StartPolling
  <2>3. CASE EndRound
    BY <2>3, <2>a DEF EndRound, WorkerTypeOK
  <2>4. ASSUME NEW o \in Orders, RouteOrder(o) PROVE TypeOK'
    <3>1. WorkerTypeOK'
      BY <2>4, HandlingType DEF RouteOrder, WorkerTypeOK, Targets, Ids
    <3> QED
      BY <2>4, <2>a, <3>1 DEF RouteOrder
  <2>5. ASSUME NEW o \in Orders, PollStatus(o) PROVE TypeOK'
    <3>1. Answers(o) \subseteq Targets
      BY DEF Answers, Mapped, Targets
    <3>2. WorkerTypeOK'
      <4>1. Picks(o, "poll")
        BY <2>5 DEF PollStatus
      <4>2. CASE \E target \in Answers(o) : worker' = Handling("check", worker, o, target, "none")
        BY <3>1, <4>1, <4>2, HandlingType DEF WorkerTypeOK, Ids
      <4>3. CASE worker' = [worker EXCEPT !.batch = @ \ {o}]
        BY <4>1, <4>3, PicksType DEF WorkerTypeOK
      <4> QED
        BY <2>5, <4>2, <4>3 DEF PollStatus
    <3> QED
      BY <2>5, <2>a, <3>2 DEF PollStatus
  <2>6. CASE LookUp
    <3>1. WorkerTypeOK'
      BY <2>6, WorkerStepType DEF LookUp, WorkerGoes, WorkerTypeOK, Targets
    <3> QED
      BY <2>6, <2>a, <3>1 DEF LookUp
  <2>11. CASE LookUpFails
    <3>1. worker.at = "lookup"
      BY <2>11 DEF LookUpFails, WorkerGoes
    <3>2. worker.order \in Orders /\ WorkerTypeOK'
      BY <2>11, <3>1, WorkerStepType DEF LookUpFails, WorkerGoes, WorkerTypeOK, Targets
    <3>3. DataTypeOK'
      BY <1>p, <2>11, <3>2 DEF LookUpFails, DataTypeOK, stripe
    <3> QED
      BY <1>p, <1>s, <2>11, <3>2, <3>3 DEF LookUpFails, HookTypeOK, stripe
  <2>7. CASE Create
    <3>1. worker.at = "create"
      BY <2>7 DEF Create, WorkerGoes
    <3>2. worker.order \in Orders /\ WorkerTypeOK'
      BY <2>7, <3>1, WorkerStepType DEF Create, WorkerGoes, WorkerTypeOK, Targets
    <3>3. DataTypeOK'
      BY <1>p, <2>7, <3>2 DEF Create, DataTypeOK, stripe
    <3> QED
      BY <1>p, <1>s, <2>7, <3>2, <3>3 DEF Create, HookTypeOK, stripe
  <2>8. CASE CreateFails
    <3>1. WorkerTypeOK'
      BY <2>8, WorkerStepType DEF CreateFails, WorkerGoes, WorkerTypeOK, Targets
    <3> QED
      BY <2>8, <2>a, <3>1 DEF CreateFails
  <2>9. CASE CheckUpdate
    <3>1. WorkerTypeOK'
      BY <2>9, <2>b, WorkerStepType DEF CheckUpdate, WorkerTypeOK
    <3> QED
      BY <2>9, <2>a, <3>1 DEF CheckUpdate
  <2>10. CASE WriteUpdate
    <3>1. worker.order \in Orders /\ worker.target \in Targets /\ WorkerTypeOK'
      BY <2>10, <2>b, WorkerStepType DEF WriteUpdate, WorkerTypeOK
    <3>3. /\ row \in [Orders -> {"absent"} \cup FULFILLMENT_STATES] /\ id \in [Orders -> Ids]
          /\ worker.target \in {"absent"} \cup FULFILLMENT_STATES /\ worker.id \in Ids
      BY <1>p, <2>10, <3>1, WorkerStepType DEF WriteUpdate, DataTypeOK, Targets, FULFILLMENT_STATES
    <3>4. row' \in [Orders -> {"absent"} \cup FULFILLMENT_STATES] /\ id' \in [Orders -> Ids]
      BY <2>10, <3>1, <3>3 DEF WriteUpdate
    <3>2. DataTypeOK'
      BY <1>p, <2>10, <3>4 DEF WriteUpdate, DataTypeOK, stripe, shop
    <3> QED
      BY <1>p, <1>s, <2>10, <3>1, <3>2 DEF WriteUpdate, HookTypeOK, stripe
  <2> QED
    BY <1>5, <2>1, <2>2, <2>3, <2>4, <2>5, <2>6, <2>7, <2>8, <2>9, <2>10, <2>11 DEF Fulfillment
<1>6. CASE HookDies
  BY <1>p, <1>s, <1>6, OrdersAssumption
     DEF HookDies, DataTypeOK, HookTypeOK, WorkerTypeOK, stripe, shop
<1>7. CASE RoundDies
  BY <1>p, <1>s, <1>7, OrdersAssumption
     DEF RoundDies, DataTypeOK, HookTypeOK, WorkerTypeOK, stripe, shop
<1>8. CASE UNCHANGED vars
  BY <1>p, <1>s, <1>8 DEF vars, DataTypeOK, HookTypeOK, WorkerTypeOK, stripe, shop
<1> QED
  BY <1>1, <1>2, <1>3, <1>4, <1>5, <1>6, <1>7, <1>8 DEF Next

\* Type correctness of the webhook, the fulfillment round and the tables they share.
THEOREM Typed == Spec => []TypeOK
BY TypeInit, TypeStep, PTL DEF Spec

(***************************************************************************)
(* What is on file stays on file.                                          *)
(***************************************************************************)

OnFile(o) == row[o] # "absent"

LEMMA FileGrows ==
  ASSUME TypeOK, [Next]_vars, NEW o \in Orders, OnFile(o) PROVE OnFile(o)'
<1>t. row \in [Orders -> {"absent"} \cup FULFILLMENT_STATES]
  BY DEF TypeOK
<1>1. CASE Record
  <2>1. hook.event.order \in Orders
    BY <1>1, HookStepType DEF Record, Places
  <2> QED
    BY <1>1, <1>t, <2>1 DEF Record, OnFile
<1>2. CASE Reverse
  <2>1. hook.event.order \in Orders
    BY <1>2, HookStepType DEF Reverse, Places
  <2> QED
    BY <1>2, <1>t, <2>1 DEF Reverse, OnFile
<1>3. CASE WriteUpdate
  <2>1. worker.order \in Orders /\ worker.target \in Targets
    BY <1>3, WorkerStepType DEF WriteUpdate
  <2> QED
    BY <1>3, <1>t, <2>1 DEF WriteUpdate, OnFile, Targets
<1>4. ASSUME UNCHANGED row PROVE OnFile(o)'
  BY <1>4 DEF OnFile
<1>5. CASE Webhook
  BY <1>1, <1>2, <1>4, <1>5
     DEF Webhook, RecordRaises, Mirror, MarkDone, FeedRaises, CheckReversal, EnterRefund, MarkSeen
<1>6. CASE Fulfillment
  BY <1>3, <1>4, <1>6
     DEF Fulfillment, StartRound, StartPolling, EndRound, RouteOrder, PollStatus, LookUp, LookUpFails, Create,
         CreateFails, CheckUpdate
<1> QED
  BY <1>4, <1>5, <1>6 DEF Next, vars, Customer, Pays, SupplierMoves, Deliver, HookDies, RoundDies

(***************************************************************************)
(* An event that brings an order is seen only when the order is on file.   *)
(***************************************************************************)

\* What the request in progress has established about its order.
HookInv ==
  hook # Idle =>
    /\ hook.at = "record" => hook.event.kind \in OrderKinds
    /\ hook.at \in {"check", "reverse", "enter"} => hook.event.kind \in ReversalKinds
    /\ hook.at \in {"mirror", "mark", "reverse"} => OnFile(hook.event.order)
    /\ hook.at = "ack" /\ hook.event.kind \in OrderKinds => OnFile(hook.event.order)

LEMMA HookStep ==
  ASSUME TypeOK, HookInv, PaidNeverLost, [Next]_vars PROVE HookInv' /\ PaidNeverLost'
<1>e. sent \subseteq Events /\ seen \subseteq sent /\ seen \subseteq Events
  BY DEF TypeOK
<1>k. OrderKinds \cap ReversalKinds = {}
  BY DEF OrderKinds, ReversalKinds
<1>r. row \in [Orders -> {"absent"} \cup FULFILLMENT_STATES]
  BY DEF TypeOK
<1>s. ASSUME UNCHANGED seen PROVE PaidNeverLost'
  BY <1>s, <1>e, FileGrows DEF PaidNeverLost, Events, OnFile
<1>h. ASSUME UNCHANGED <<hook, seen>> PROVE HookInv' /\ PaidNeverLost'
  <2>1. hook # Idle => hook.event.order \in Orders
    BY <1>e, ActorTypes DEF HookTypeOK, Events
  <2>2. hook # Idle /\ OnFile(hook.event.order) => OnFile(hook.event.order)'
    BY <1>h, <2>1, FileGrows DEF OnFile
  <2> QED
    BY <1>h, <1>s, <2>2 DEF HookInv, Idle
<1>i. ASSUME hook' = Idle PROVE HookInv'
  BY <1>i DEF HookInv, Idle
<1>1. ASSUME NEW e \in Events, Deliver(e) PROVE HookInv' /\ PaidNeverLost'
  <2>1. e.kind \in Kinds
    BY DEF Events
  <2>2. hook' = HookAt(FirstStep(e.kind), e) /\ UNCHANGED seen
    BY <1>1 DEF Deliver
  <2>3. HookInv'
    BY <2>1, <2>2, <1>k DEF HookInv, HookAt, FirstStep
  <2> QED
    BY <2>2, <2>3, <1>s
<1>2. CASE Record
  <2>1. hook.event.order \in Orders /\ hook' = HookAt(hook'.at, hook.event) /\ hook'.at \in {"mirror", "ack"}
    BY <1>2, HookStepType DEF Record, Places, HookGoes, HookAt
  <2>2. row'[hook.event.order] # "absent"
    BY <1>2, <1>r, <2>1 DEF Record
  <2>3. hook'.event = hook.event /\ hook' # Idle
    BY <2>1 DEF HookAt, Idle
  <2>4. HookInv'
    BY <2>1, <2>2, <2>3 DEF HookInv, OnFile
  <2> QED
    BY <1>2, <1>s, <2>4 DEF Record
<1>3. CASE RecordRaises
  BY <1>3, <1>i, <1>s DEF RecordRaises, HookAfterError
<1>4. CASE Mirror \/ MarkDone \/ FeedRaises
  <2>1. hook # Idle /\ hook.at \in {"mirror", "mark"} /\ UNCHANGED <<row, seen>>
    BY <1>4 DEF Mirror, MarkDone, FeedRaises, HookGoes, Idle
  <2>2. hook' = HookAt(hook'.at, hook.event) /\ hook'.at \in {"mark", "ack"}
    BY <1>4 DEF Mirror, MarkDone, FeedRaises, HookGoes, HookAt, AfterFeedError
  <2>3. HookInv'
    BY <2>1, <2>2 DEF HookInv, HookAt, OnFile
  <2> QED
    BY <1>s, <2>1, <2>3
<1>5. CASE CheckReversal \/ Reverse \/ EnterRefund
  <2>1. hook # Idle /\ hook.at \in {"check", "reverse", "enter"} /\ UNCHANGED seen
    BY <1>5 DEF CheckReversal, Reverse, EnterRefund, HookGoes, Idle
  <2>2. hook' = HookAt(hook'.at, hook.event) /\ hook'.at \in {"reverse", "enter", "ack"}
    BY <1>5 DEF CheckReversal, Reverse, EnterRefund, HookGoes, HookAt
  <2>3. hook'.at = "reverse" => OnFile(hook.event.order) /\ UNCHANGED row
    BY <1>5, <2>1, <2>2 DEF CheckReversal, Reverse, EnterRefund, HookGoes, HookAt, Valid, OnFile
  <2>4. HookInv'
    BY <1>k, <2>1, <2>2, <2>3 DEF HookInv, HookAt, OnFile
  <2> QED
    BY <1>s, <2>1, <2>4
<1>6. CASE MarkSeen
  <2>1. HookInv' /\ hook # Idle
    BY <1>6, <1>i DEF MarkSeen, Idle
  <2>2. PaidNeverLost'
    BY <1>6, <2>1 DEF MarkSeen, PaidNeverLost, HookInv, OnFile
  <2> QED
    BY <2>1, <2>2
<1>7. CASE HookDies
  BY <1>7, <1>i, <1>s DEF HookDies
<1>8. CASE Fulfillment
  BY <1>8, <1>h
     DEF Fulfillment, StartRound, StartPolling, EndRound, RouteOrder, PollStatus, LookUp, LookUpFails, Create,
         CreateFails, CheckUpdate, WriteUpdate
<1> QED
  BY <1>1, <1>2, <1>3, <1>4, <1>5, <1>6, <1>7, <1>8, <1>h
     DEF Next, Webhook, vars, Customer, Pays, SupplierMoves, RoundDies

\* However requests are aborted, repeated and interleaved with the round, an
\* acknowledged order event means an order on file.
THEOREM PaidStaysOnFile == Spec => []PaidNeverLost
<1>1. Init => HookInv /\ PaidNeverLost
  BY DEF Init, HookInv, PaidNeverLost
<1>2. TypeOK /\ HookInv /\ PaidNeverLost /\ [Next]_vars => HookInv' /\ PaidNeverLost'
  BY HookStep
<1> QED
  BY <1>1, <1>2, Typed, PTL DEF Spec

(***************************************************************************)
(* The supplier is given no order that is not paid.                        *)
(***************************************************************************)

Settled(o) == payment[o] \in {"settled", "returned"}

PayInv == /\ \A e \in sent : e.kind \in OrderKinds => Settled(e.order)
          /\ \A o \in Orders : OnFile(o) => Settled(o)

\* The round works on orders on file, and so are the orders the supplier has.
PlacedInv == /\ \A o \in Orders : placements[o] > 0 => OnFile(o)
             /\ worker # Idle => \A o \in worker.batch : OnFile(o)
             /\ worker # Idle /\ worker.at # "next" => OnFile(worker.order)

LEMMA PlacedStep == ASSUME TypeOK, PlacedInv, [Next]_vars PROVE PlacedInv'
<1>t. placements \in [Orders -> Nat]
  BY DEF TypeOK
<1>w. WorkerTypeOK /\ worker'.at = worker'.at
  BY ActorTypes
<1>f. \A o \in Orders : OnFile(o) => OnFile(o)'
  BY FileGrows
<1>g. worker # Idle => /\ worker.batch \subseteq Orders
                       /\ worker.at # "next" => worker.order \in Orders
  BY <1>w DEF WorkerTypeOK, Idle
<1>1. ASSUME UNCHANGED placements,
             \/ worker' = Idle
             \/ /\ worker'.batch \subseteq Orders /\ \A o \in worker'.batch : OnFile(o)
                /\ worker'.at # "next" => worker'.order \in Orders /\ OnFile(worker'.order)
      PROVE  PlacedInv'
  <2>1. \A o \in Orders : placements'[o] > 0 => OnFile(o)'
    BY <1>1, <1>f DEF PlacedInv
  <2>2. worker' # Idle => \A o \in worker'.batch : row'[o] # "absent"
    BY <1>1, <1>f DEF OnFile
  <2>3. worker' # Idle /\ worker'.at # "next" => row'[worker'.order] # "absent"
    BY <1>1, <1>f DEF OnFile
  <2> QED
    BY <2>1, <2>2, <2>3 DEF PlacedInv, OnFile, Idle
<1>2. CASE UNCHANGED <<worker, placements>>
  BY <1>1, <1>2, <1>g DEF PlacedInv
<1>3. CASE StartRound \/ StartPolling \/ EndRound
  <2>1. \A s \in {"RECEIVED", "PLACED"} : WithStatus(s) \subseteq Orders /\ \A o \in WithStatus(s) : OnFile(o)
    BY DEF WithStatus, OnFile
  <2> QED
    BY <1>1, <1>3, <2>1 DEF StartRound, StartPolling, EndRound, Round, shop
<1>4. ASSUME NEW o \in Orders, RouteOrder(o) \/ PollStatus(o) PROVE PlacedInv'
  <2>1. /\ worker # Idle /\ o \in worker.batch
        /\ worker \in [at : {"next"}, doing : {"place", "poll"}, batch : SUBSET Orders]
    BY <1>4, PicksType DEF RouteOrder, PollStatus, Picks, Idle
  <2>2. worker'.batch = worker.batch \ {o} /\ (worker'.at # "next" => worker'.order = o)
    BY <1>4, <2>1 DEF RouteOrder, PollStatus, Handling
  <2> QED
    BY <1>1, <1>4, <1>g, <2>1, <2>2 DEF PlacedInv, RouteOrder, PollStatus, shop
<1>5. ASSUME NEW from \in {"lookup", "create"}, NEW target \in Targets,
             NEW to \in {"create", "check"}, WorkerGoes(from, to, target)
      PROVE  /\ worker # Idle /\ worker.at = from
             /\ worker'.batch = worker.batch /\ worker'.order = worker.order
  BY <1>5, WorkerStepType DEF WorkerGoes, Idle
<1>6. CASE LookUp \/ LookUpFails \/ CreateFails
  <2>1. /\ worker # Idle /\ worker.at \in {"lookup", "create"}
        /\ worker'.batch = worker.batch /\ worker'.order = worker.order
    BY <1>5, <1>6 DEF LookUp, LookUpFails, CreateFails, Targets
  <2>2. UNCHANGED <<row, placements>>
    BY <1>6 DEF LookUp, LookUpFails, CreateFails, shop
  <2> QED
    BY <1>1, <1>g, <2>1, <2>2 DEF PlacedInv
<1>7. CASE Create
  <2>1. /\ worker # Idle /\ worker.at = "create"
        /\ worker'.batch = worker.batch /\ worker'.order = worker.order
    BY <1>5, <1>7 DEF Create, Targets
  <2>2. worker.order \in Orders /\ OnFile(worker.order) /\ worker.batch \subseteq Orders
    BY <2>1, <1>g DEF PlacedInv
  <2>3. \A o \in Orders : placements'[o] > 0 => OnFile(o)'
    BY <1>7, <1>t, <1>f, <2>2 DEF Create, PlacedInv
  <2>4. \A o \in worker'.batch : row'[o] # "absent"
    BY <1>f, <2>1, <2>2 DEF PlacedInv, OnFile
  <2>5. row'[worker'.order] # "absent"
    BY <1>f, <2>1, <2>2 DEF OnFile
  <2> QED
    BY <2>3, <2>4, <2>5 DEF PlacedInv, OnFile, Idle
<1>8. CASE CheckUpdate \/ WriteUpdate
  <2>1. /\ worker # Idle /\ worker.at # "next"
        /\ worker'.batch = worker.batch
        /\ worker'.at # "next" => worker'.order = worker.order
    BY <1>8, WorkerStepType DEF CheckUpdate, WriteUpdate, Round, Idle
  <2> QED
    BY <1>1, <1>8, <1>g, <2>1 DEF CheckUpdate, WriteUpdate, PlacedInv, shop
<1>9. CASE RoundDies
  BY <1>1, <1>9 DEF RoundDies, shop
<1> QED
  BY <1>2, <1>3, <1>4, <1>6, <1>7, <1>8, <1>9
     DEF Next, vars, shop, Fulfillment, Customer, Pays, SupplierMoves, Deliver, HookDies, Webhook,
         Record, RecordRaises, Mirror, MarkDone, FeedRaises, CheckReversal, Reverse, EnterRefund, MarkSeen

LEMMA PayStep == ASSUME TypeOK, HookInv, PlacedInv, PayInv, [Next]_vars PROVE PayInv'
<1>t. /\ payment \in [Orders -> {"open", "pending", "settled", "returned"}] /\ sent \subseteq Events
      /\ row \in [Orders -> {"absent"} \cup FULFILLMENT_STATES]
  BY DEF TypeOK
<1>1. ASSUME NEW o \in Orders, Customer(o) PROVE PayInv'
  <2>1. UNCHANGED row
    BY <1>1 DEF Customer, Pays
  <2>2. \A u \in Orders : Settled(u) => Settled(u)'
    BY <1>1, <1>t DEF Customer, Pays, Settled
  <2>3. \A e \in sent' \ sent : e.kind \in OrderKinds => Settled(e.order)'
    BY <1>1, <1>t DEF Customer, Pays, Settled, Event, OrderKinds
  <2>4. \A e \in sent : e.kind \in OrderKinds => Settled(e.order)'
    BY <1>t, <2>2 DEF PayInv, Events
  <2> QED
    BY <2>1, <2>2, <2>3, <2>4 DEF PayInv, OnFile
<1>2. ASSUME UNCHANGED <<payment, sent>>, \A o \in Orders : OnFile(o)' => OnFile(o) \/ Settled(o)
      PROVE  PayInv'
  BY <1>2 DEF PayInv, Settled
<1>3. CASE Record
  <2>1. hook.event.order \in Orders /\ hook.event \in sent /\ hook # Idle /\ hook.at = "record"
    BY <1>3, HookStepType DEF Record, HookGoes, Places, Idle
  <2>2. Settled(hook.event.order)
    BY <2>1 DEF HookInv, PayInv
  <2> QED
    BY <1>2, <1>3, <1>t, <2>1, <2>2 DEF Record, OnFile, stripe
<1>4. CASE Reverse
  <2>1. hook.event.order \in Orders /\ hook # Idle /\ hook.at = "reverse"
    BY <1>4, HookStepType DEF Reverse, HookGoes, Places, Idle
  <2> QED
    BY <1>2, <1>4, <1>t, <2>1 DEF Reverse, OnFile, HookInv, stripe
<1>5. CASE WriteUpdate
  <2>1. worker.order \in Orders /\ worker # Idle /\ OnFile(worker.order)
    BY <1>5, WorkerStepType DEF WriteUpdate, PlacedInv, Idle
  <2> QED
    BY <1>2, <1>5, <1>t, <2>1 DEF WriteUpdate, OnFile, stripe
<1>6. CASE UNCHANGED <<payment, sent, row>>
  BY <1>2, <1>6 DEF OnFile
<1>7. CASE Webhook
  BY <1>3, <1>4, <1>6, <1>7
     DEF Webhook, RecordRaises, Mirror, MarkDone, FeedRaises, CheckReversal, EnterRefund, MarkSeen, stripe
<1>8. CASE Fulfillment
  BY <1>5, <1>6, <1>8
     DEF Fulfillment, StartRound, StartPolling, EndRound, RouteOrder, PollStatus, LookUp, LookUpFails, Create,
         CreateFails, CheckUpdate, stripe
<1> QED
  BY <1>1, <1>6, <1>7, <1>8 DEF Next, vars, SupplierMoves, Deliver, HookDies, RoundDies, stripe

\* No order reaches the supplier before its payment settles, whichever of the two
\* processes runs when.
THEOREM UnpaidIsNeverPlaced == Spec => []NothingSpentUnpaid
<1>1. Init => HookInv /\ PaidNeverLost /\ PlacedInv /\ PayInv
  BY DEF Init, HookInv, PaidNeverLost, PlacedInv, PayInv, OnFile
<1>2. TypeOK /\ HookInv /\ PaidNeverLost /\ PlacedInv /\ PayInv /\ [Next]_vars
        => HookInv' /\ PaidNeverLost' /\ PlacedInv' /\ PayInv'
  BY HookStep, PlacedStep, PayStep
<1>3. PlacedInv /\ PayInv => NothingSpentUnpaid
  BY DEF PlacedInv, PayInv, NothingSpentUnpaid, Settled
<1> QED
  BY <1>1, <1>2, <1>3, Typed, PTL DEF Spec

(***************************************************************************)
(* The supplier is given an order again only blindly.                      *)
(***************************************************************************)

\* Every placement but the first is paid for by a look-up that failed, and so is the
\* one the client is about to make.
OnceInv ==
  /\ \A o \in Orders : placements[o] <= blind[o] + (IF supplier[o] = "none" THEN 0 ELSE 1)
  /\ worker # Idle /\ worker.at = "create" => placements[worker.order] <= blind[worker.order]

LEMMA OnceStep ==
  ASSUME TypeOK, OnceInv, [Next]_vars PROVE OnceInv'
<1>t. /\ placements \in [Orders -> Nat] /\ blind \in [Orders -> Nat]
      /\ supplier \in [Orders -> {"none", "placed", "shipped", "delivered", "cancelled"}]
  BY DEF TypeOK
<1>o. worker # Idle /\ worker.at = "create" => worker.order \in Orders
  BY WorkerStepType
<1>1. ASSUME NEW o \in Orders, SupplierMoves(o) PROVE OnceInv'
  <2>1. UNCHANGED <<worker, placements, blind>>
    BY <1>1 DEF SupplierMoves
  <2>2. \A u \in Orders : supplier'[u] = "none" => supplier[u] = "none"
    BY <1>1, <1>t DEF SupplierMoves
  <2>3. \A u \in Orders : placements[u] \in Nat /\ blind[u] \in Nat
    BY <1>t
  <2>4. ASSUME NEW u \in Orders
        PROVE  placements[u] <= blind[u] + (IF supplier'[u] = "none" THEN 0 ELSE 1)
    <3>1. placements[u] <= blind[u] + (IF supplier[u] = "none" THEN 0 ELSE 1)
      BY DEF OnceInv
    <3> QED
      BY <2>2, <2>3, <3>1
  <2> QED
    BY <2>1, <2>4 DEF OnceInv, Idle
<1>2. CASE Create
  <2>1. worker # Idle /\ worker.at = "create" /\ worker.order \in Orders /\ worker'.at = "check"
    BY <1>2, WorkerStepType DEF Create, WorkerGoes, Idle
  <2>2. /\ placements' = [placements EXCEPT ![worker.order] = @ + 1]
        /\ supplier' = [supplier EXCEPT ![worker.order] = "placed"] /\ UNCHANGED blind
    BY <1>2 DEF Create
  <2>3. placements[worker.order] <= blind[worker.order]
    BY <2>1 DEF OnceInv
  <2>4. ASSUME NEW u \in Orders
        PROVE  placements'[u] <= blind'[u] + (IF supplier'[u] = "none" THEN 0 ELSE 1)
    <3>1. placements[u] \in Nat /\ blind[u] \in Nat
      BY <1>t
    <3>2. CASE u = worker.order
      BY <1>t, <2>2, <2>3, <3>1, <3>2
    <3>3. CASE u # worker.order
      BY <1>t, <2>2, <3>3 DEF OnceInv
    <3> QED
      BY <3>2, <3>3
  <2> QED
    BY <2>1, <2>4 DEF OnceInv
<1>3. ASSUME NEW to \in {"check", "create"}, WorkerGoes("lookup", to, "PLACED")
      PROVE  /\ worker # Idle /\ worker.at = "lookup" /\ worker.order \in Orders
             /\ worker'.at = to /\ worker'.order = worker.order
  <2>1. worker.at = "lookup" /\ worker' = [worker EXCEPT !.at = to, !.target = "PLACED"]
    BY <1>3 DEF WorkerGoes
  <2> QED
    BY <2>1, WorkerStepType DEF Idle
<1>4. CASE LookUp
  <2>1. PICK to \in {"check", "create"} :
          WorkerGoes("lookup", to, "PLACED") /\ (to = "create" => ~Found(worker.order))
    BY <1>4 DEF LookUp
  <2>2. worker.order \in Orders /\ worker'.at = to /\ worker'.order = worker.order
    BY <1>3, <2>1
  <2>3. UNCHANGED <<supplier, placements, blind>>
    BY <1>4 DEF LookUp, shop
  <2>4. to = "create" => placements[worker.order] <= blind[worker.order]
    <3>1. placements[worker.order] \in Nat /\ blind[worker.order] \in Nat
      BY <1>t, <2>2
    <3> QED
      BY <2>1, <2>2, <3>1 DEF Found, OnceInv
  <2> QED
    BY <2>2, <2>3, <2>4 DEF OnceInv
<1>10. CASE LookUpFails
  <2>1. worker.order \in Orders /\ worker'.order = worker.order
    BY <1>3, <1>10 DEF LookUpFails
  <2>2. /\ blind' = [blind EXCEPT ![worker.order] = IF Found(worker.order) THEN @ + 1 ELSE @]
        /\ UNCHANGED <<supplier, placements>>
    BY <1>10 DEF LookUpFails
  <2>3. \A u \in Orders : placements[u] \in Nat /\ blind[u] \in Nat
    BY <1>t
  <2>4. \A u \in Orders : placements[u] <= blind[u] + (IF supplier[u] = "none" THEN 0 ELSE 1)
    BY DEF OnceInv
  <2>5. \A u \in Orders : blind'[u] \in {blind[u], blind[u] + 1}
    BY <1>t, <2>1, <2>2
  <2>6. placements[worker.order] <= blind'[worker.order]
    BY <1>t, <2>1, <2>2, <2>3, <2>4 DEF Found
  <2>7. \A u \in Orders : placements[u] <= blind'[u] + (IF supplier[u] = "none" THEN 0 ELSE 1)
    BY <2>3, <2>4, <2>5
  <2> QED
    BY <2>1, <2>2, <2>6, <2>7 DEF OnceInv
<1>5. ASSUME UNCHANGED shop, worker' = worker \/ worker' = Idle \/ worker'.at # "create" PROVE OnceInv'
  BY <1>5 DEF OnceInv, shop, Idle
<1>6. ASSUME NEW o \in Orders, RouteOrder(o) \/ PollStatus(o) PROVE OnceInv'
  <2>1. /\ worker.at = "next" /\ UNCHANGED shop
        /\ worker \in [at : {"next"}, doing : {"place", "poll"}, batch : SUBSET Orders]
    BY <1>6, PicksType DEF RouteOrder, PollStatus, Picks
  <2>2. CASE worker' = [worker EXCEPT !.batch = @ \ {o}]
    <3>1. worker'.at = "next"
      BY <2>1, <2>2
    <3> QED
      BY <1>5, <2>1, <3>1
  <2>3. ASSUME NEW at \in {"lookup", "check"}, NEW target, NEW placed,
               worker' = Handling(at, worker, o, target, placed)
        PROVE  OnceInv'
    <3>1. worker'.at # "create"
      BY <2>3 DEF Handling
    <3> QED
      BY <1>5, <2>1, <3>1
  <2> QED
    BY <1>6, <2>2, <2>3 DEF RouteOrder, PollStatus
<1>7. CASE CheckUpdate \/ WriteUpdate \/ CreateFails
  <2>1. /\ worker.at \in {"lookup", "create", "check", "write"} /\ UNCHANGED shop
    BY <1>7 DEF CheckUpdate, WriteUpdate, CreateFails, WorkerGoes
  <2>2. worker'.at \in {"next", "write", "check"}
    <3>1. [worker EXCEPT !.at = "write"].at = "write"
      BY <2>1, WorkerStepType
    <3>2. [worker EXCEPT !.at = "check", !.target = "FAILED"].at = "check"
      BY <2>1, WorkerStepType
    <3>3. \A doing, batch : Round(doing, batch).at = "next"
      BY DEF Round
    <3>4. CASE CheckUpdate
      BY <3>1, <3>3, <3>4 DEF CheckUpdate
    <3>5. CASE WriteUpdate
      BY <3>3, <3>5 DEF WriteUpdate
    <3>6. CASE CreateFails
      BY <3>2, <3>6 DEF CreateFails, WorkerGoes
    <3> QED
      BY <1>7, <3>4, <3>5, <3>6
  <2>3. worker'.at # "create"
    BY <2>2
  <2> QED
    BY <1>5, <2>1, <2>3
<1>8. CASE StartRound \/ StartPolling \/ EndRound \/ RoundDies
  BY <1>5, <1>8 DEF StartRound, StartPolling, EndRound, RoundDies, Round
<1>9. CASE UNCHANGED <<shop, worker>>
  BY <1>5, <1>9
<1> QED
  BY <1>1, <1>2, <1>4, <1>6, <1>7, <1>8, <1>9, <1>10
     DEF Next, vars, Fulfillment, Customer, Pays, Deliver, HookDies, Webhook,
         Record, RecordRaises, Mirror, MarkDone, FeedRaises, CheckReversal, Reverse, EnterRefund, MarkSeen

\* However rounds are cut short and tried again, the supplier is given an order a
\* second time only by a client whose look-up failed, and once for each such failure.
THEOREM PlacedOnce == Spec => []PlacedAgainOnlyBlind
<1>1. Init => OnceInv
  BY DEF Init, OnceInv
<1>2. TypeOK /\ OnceInv /\ [Next]_vars => OnceInv'
  BY OnceStep
<1>3. TypeOK /\ OnceInv => PlacedAgainOnlyBlind
  <2> SUFFICES ASSUME TypeOK, OnceInv, NEW o \in Orders PROVE placements[o] <= 1 + blind[o]
    BY DEF PlacedAgainOnlyBlind
  <2>1. placements[o] \in Nat /\ blind[o] \in Nat
    BY DEF TypeOK
  <2>2. placements[o] <= blind[o] + (IF supplier[o] = "none" THEN 0 ELSE 1)
    BY DEF OnceInv
  <2> QED
    BY <2>1, <2>2
<1> QED
  BY <1>1, <1>2, <1>3, Typed, PTL DEF Spec

(***************************************************************************)
(* side_effects_done stands for revenue in the books.                      *)
(***************************************************************************)

\* The request that is about to set side_effects_done has made the entry.
BookedInv ==
  /\ DoneIsBooked
  /\ hook # Idle => (hook.at = "mark" => "sale" \in books[hook.event.order])

LEMMA BookedStep == ASSUME TypeOK, BookedInv, [Next]_vars PROVE BookedInv'
<1>t. books \in [Orders -> SUBSET {"sale", "refund"}] /\ done \in [Orders -> BOOLEAN]
  BY DEF TypeOK
<1>1. ASSUME UNCHANGED done, \A o \in Orders : books[o] \subseteq books'[o],
             hook' = Idle \/ hook' = hook \/ hook'.at # "mark"
      PROVE  BookedInv'
  <2>1. DoneIsBooked'
    BY <1>1 DEF BookedInv, DoneIsBooked
  <2>2. CASE hook' = Idle \/ hook'.at # "mark"
    BY <2>1, <2>2 DEF BookedInv, Idle
  <2>3. CASE hook' = hook
    <3>1. hook # Idle => hook.event.order \in Orders
      <4>1. HookTypeOK /\ sent \subseteq Events
        BY ActorTypes DEF TypeOK
      <4> QED
        BY <4>1 DEF HookTypeOK, Events
    <3> QED
      BY <1>1, <2>1, <2>3, <3>1 DEF BookedInv, Idle
  <2> QED
    BY <1>1, <2>2, <2>3
<1>a. \A at, e : HookAt(at, e).at = at /\ HookAt(at, e).event = e
  BY DEF HookAt
<1>2. CASE Mirror
  <2>1. hook.event.order \in Orders
    BY <1>2, HookStepType DEF Mirror, Places
  <2>2. UNCHANGED done /\ books' = [books EXCEPT ![hook.event.order] = @ \cup {"sale"}]
        /\ hook' = HookAt("mark", hook.event)
    BY <1>2 DEF Mirror, HookGoes
  <2>3. \A o \in Orders : books[o] \subseteq books'[o]
    BY <1>t, <2>1, <2>2
  <2>4. DoneIsBooked'
    BY <2>2, <2>3 DEF BookedInv, DoneIsBooked
  <2>5. hook'.event = hook.event
    BY <1>a, <2>2
  <2>6. "sale" \in books'[hook.event.order]
    BY <1>t, <2>1, <2>2
  <2> QED
    BY <2>4, <2>5, <2>6 DEF BookedInv
<1>3. CASE MarkDone
  <2>1. hook.event.order \in Orders /\ hook # Idle /\ hook.at = "mark"
    BY <1>3, HookStepType DEF MarkDone, HookGoes, Places, Idle
  <2>2. hook' = HookAt("ack", hook.event) /\ UNCHANGED books
        /\ done' = [done EXCEPT ![hook.event.order] = TRUE]
    BY <1>3 DEF MarkDone, HookGoes
  <2>3. DoneIsBooked'
    BY <1>t, <2>1, <2>2 DEF BookedInv, DoneIsBooked
  <2>4. hook'.at = "ack"
    BY <1>a, <2>2
  <2> QED
    BY <2>3, <2>4 DEF BookedInv
<1>4. CASE EnterRefund
  <2>1. hook.event.order \in Orders
    BY <1>4, HookStepType DEF EnterRefund, Places
  <2>2. \A o \in Orders : books[o] \subseteq books'[o]
    BY <1>4, <1>t, <2>1 DEF EnterRefund
  <2>3. UNCHANGED done /\ hook' = HookAt("ack", hook.event)
    BY <1>4 DEF EnterRefund, HookGoes
  <2> QED
    BY <1>1, <1>a, <2>2, <2>3
<1>5. CASE Record \/ CheckReversal \/ Reverse
  <2>1. \E to \in {"ack", "mirror", "reverse", "enter"} : hook' = HookAt(to, hook.event)
    BY <1>5 DEF Record, CheckReversal, Reverse, HookGoes
  <2>2. UNCHANGED <<done, books>>
    BY <1>5 DEF Record, CheckReversal, Reverse
  <2>3. hook'.at # "mark"
    BY <1>a, <2>1
  <2> QED
    BY <1>1, <2>2, <2>3
<1>6. CASE FeedRaises
  BY <1>1, <1>6, <1>a DEF FeedRaises, AfterFeedError
<1>7. CASE RecordRaises \/ MarkSeen \/ HookDies
  BY <1>1, <1>7 DEF RecordRaises, HookAfterError, MarkSeen, HookDies
<1>8. ASSUME NEW e \in Events, Deliver(e) PROVE BookedInv'
  <2>1. FirstStep(e.kind) # "mark"
    BY DEF FirstStep
  <2> QED
    BY <1>1, <1>8, <1>a, <2>1 DEF Deliver
<1>9. CASE UNCHANGED <<hook, done, books>>
  BY <1>1, <1>9
<1> QED
  BY <1>2, <1>3, <1>4, <1>5, <1>6, <1>7, <1>8, <1>9
     DEF Next, Webhook, Fulfillment, vars, Customer, Pays, SupplierMoves, StartRound, StartPolling,
         EndRound, RouteOrder, PollStatus, LookUp, LookUpFails, Create, CreateFails, CheckUpdate, WriteUpdate, RoundDies

\* However often feeds raise and events are delivered again, side_effects_done is
\* set only on orders whose sale is in the books.
THEOREM DoneStaysBooked == Spec => []DoneIsBooked
<1>1. Init => BookedInv
  BY DEF Init, BookedInv, DoneIsBooked
<1>2. BookedInv => DoneIsBooked
  BY DEF BookedInv
<1> QED
  BY <1>1, <1>2, BookedStep, Typed, PTL DEF Spec

(***************************************************************************)
(* The file never runs ahead of the supplier.                              *)
(***************************************************************************)

\* What must be true of the supplier (its n orders, and how far it is) for a status
\* to be written, of an order whose id is d.
Backs(d, status, n, s) ==
  IF d = "dry"
  THEN status # "DELIVERED"
  ELSE /\ status \in {"PLACED", "SHIPPED", "DELIVERED"} => n > 0
       /\ status = "SHIPPED" => s \in {"shipped", "delivered", "cancelled"}
       /\ status = "DELIVERED" => s = "delivered"

\* The row's id once the round has written it.
IdThen == IF worker.target = "PLACED" THEN worker.id ELSE id[worker.order]

\* The supplier's progress takes nothing back, and neither does a stutter.
LEMMA BacksKept ==
  ASSUME TypeOK, NEW o \in Orders, UNCHANGED shop \/ \E u \in Orders : SupplierMoves(u)
  PROVE  /\ placements'[o] = placements[o]
         /\ supplier'[o] # "none" => supplier[o] # "none"
         /\ \A d, status : Backs(d, status, placements[o], supplier[o])
                          => Backs(d, status, placements'[o], supplier'[o])
<1>1. supplier \in [Orders -> {"none", "placed", "shipped", "delivered", "cancelled"}]
  BY DEF TypeOK
<1>2. CASE UNCHANGED shop
  BY <1>2 DEF shop
<1>3. ASSUME NEW u \in Orders, SupplierMoves(u)
      PROVE  /\ placements'[o] = placements[o]
             /\ supplier'[o] # "none" => supplier[o] # "none"
             /\ \A d, status : Backs(d, status, placements[o], supplier[o])
                              => Backs(d, status, placements'[o], supplier'[o])
  <2>1. UNCHANGED placements
    BY <1>3 DEF SupplierMoves
  <2>2. \/ supplier'[o] = supplier[o]
        \/ supplier[o] = "placed" /\ supplier'[o] \in {"shipped", "cancelled"}
        \/ supplier[o] = "shipped" /\ supplier'[o] \in {"delivered", "cancelled"}
    BY <1>1, <1>3 DEF SupplierMoves
  <2> QED
    BY <2>1, <2>2 DEF Backs
<1> QED
  BY <1>2, <1>3

Fresh == {"RECEIVED", "REFUNDED"}

FileInv == \A o \in Orders :
  /\ supplier[o] # "none" => placements[o] > 0
  /\ Backs(id[o], row[o], placements[o], supplier[o])

\* The round has touched none of the orders it has still to place, and what it is
\* about to write is backed by the supplier.
RoundInv ==
  worker # Idle =>
    /\ worker.doing = "place" => \A o \in worker.batch : row[o] \in Fresh
    /\ worker.at # "next" => worker.order \notin worker.batch
    /\ worker.at \in {"lookup", "create"} => row[worker.order] \in Fresh
    /\ worker.at \in {"check", "write"} =>
         Backs(IdThen, worker.target, placements[worker.order], supplier[worker.order])

\* Where the round's orders are.
LEMMA RoundOrders ==
  ASSUME TypeOK, worker # Idle
  PROVE  worker.batch \subseteq Orders /\ (worker.at # "next" => worker.order \in Orders)
<1> WorkerTypeOK
  BY ActorTypes
<1> QED
  BY DEF WorkerTypeOK

\* A step of the webhook, of Stripe or of the supplier: the round stays where it is,
\* and a row becomes RECEIVED or REFUNDED if it changes.
LEMMA BackedElsewhere ==
  ASSUME TypeOK, FileInv, RoundInv, UNCHANGED <<worker, id>>,
         UNCHANGED shop \/ \E u \in Orders : SupplierMoves(u),
         \A o \in Orders : row'[o] = row[o] \/ row'[o] \in Fresh
  PROVE  FileInv' /\ RoundInv'
<1>1. \A o \in Orders : /\ placements'[o] = placements[o]
                        /\ supplier'[o] # "none" => supplier[o] # "none"
                        /\ \A d, status : Backs(d, status, placements[o], supplier[o])
                                         => Backs(d, status, placements'[o], supplier'[o])
  BY BacksKept
<1>2. \A status \in Fresh : \A d : \A n, s : Backs(d, status, n, s)
  BY DEF Backs, Fresh
<1>d. id \in [Orders -> Ids]
  BY DEF TypeOK, Ids
<1>3. \A o \in Orders : row[o] \in Fresh => row'[o] \in Fresh
  OBVIOUS
<1>4. ASSUME NEW o \in Orders
      PROVE  /\ supplier'[o] # "none" => placements'[o] > 0
             /\ Backs(id'[o], row'[o], placements'[o], supplier'[o])
  BY <1>1, <1>2, <1>d DEF FileInv
<1>5. FileInv'
  BY <1>4 DEF FileInv
<1>6. ASSUME worker # Idle
      PROVE  /\ worker.doing = "place" => \A o \in worker.batch : row'[o] \in Fresh
             /\ worker.at \in {"lookup", "create"} => row'[worker.order] \in Fresh
             /\ worker.at \in {"check", "write"} =>
                  Backs(IdThen, worker.target, placements'[worker.order], supplier'[worker.order])
  <2>1. worker.batch \subseteq Orders /\ (worker.at # "next" => worker.order \in Orders)
    BY <1>6, RoundOrders
  <2>2. worker.doing = "place" => \A o \in worker.batch : row'[o] \in Fresh
    BY <1>3, <1>6, <2>1 DEF RoundInv
  <2>3. worker.at \in {"lookup", "create"} => row'[worker.order] \in Fresh
    BY <1>3, <1>6, <2>1 DEF RoundInv
  <2>4. worker.at \in {"check", "write"} =>
          Backs(IdThen, worker.target, placements'[worker.order], supplier'[worker.order])
    BY <1>1, <1>6, <2>1 DEF RoundInv, IdThen
  <2> QED
    BY <2>2, <2>3, <2>4
<1>7. IdThen' = IdThen
  BY DEF IdThen
<1> QED
  BY <1>5, <1>6, <1>7 DEF RoundInv, Idle

\* A step of the round that leaves the file and the supplier alone.
LEMMA BackedRound ==
  ASSUME FileInv, UNCHANGED <<row, id, shop>>, RoundInv'
  PROVE  FileInv' /\ RoundInv'
BY DEF FileInv, shop

LEMMA WebhookRows ==
  ASSUME TypeOK, Webhook
  PROVE  \A o \in Orders : row'[o] = row[o] \/ row'[o] \in Fresh
<1>t. row \in [Orders -> {"absent"} \cup FULFILLMENT_STATES]
  BY DEF TypeOK
<1>1. CASE Record
  BY <1>t, <1>1 DEF Record, Fresh
<1>2. CASE Reverse
  BY <1>t, <1>2 DEF Reverse, Fresh
<1> QED
  BY <1>1, <1>2
     DEF Webhook, RecordRaises, Mirror, MarkDone, FeedRaises, CheckReversal, EnterRefund, MarkSeen

LEMMA BackedFulfillment ==
  ASSUME TypeOK, FileInv, RoundInv, Fulfillment
  PROVE  FileInv' /\ RoundInv'
<1>t. /\ placements \in [Orders -> Nat]
      /\ row \in [Orders -> {"absent"} \cup FULFILLMENT_STATES]
      /\ supplier \in [Orders -> {"none", "placed", "shipped", "delivered", "cancelled"}]
  BY DEF TypeOK
<1>y. id \in [Orders -> Ids]
  BY DEF TypeOK, Ids
<1>1. CASE StartRound
  <2>1. worker' = Round("place", WithStatus("RECEIVED")) /\ UNCHANGED <<row, id, shop>>
    BY <1>1 DEF StartRound
  <2>2. RoundInv'
    BY <2>1 DEF RoundInv, Round, WithStatus, Fresh
  <2> QED
    BY <2>1, <2>2, BackedRound
<1>2. CASE StartPolling \/ EndRound
  <2>1. UNCHANGED <<row, id, shop>> /\ (worker' = Idle \/ worker' = Round("poll", WithStatus("PLACED")))
    BY <1>2 DEF StartPolling, EndRound
  <2>2. RoundInv'
    BY <2>1 DEF RoundInv, Round, Idle
  <2> QED
    BY <2>1, <2>2, BackedRound
<1>3. ASSUME NEW o \in Orders, RouteOrder(o)
      PROVE  FileInv' /\ RoundInv'
  <2>1. /\ worker # Idle /\ worker.doing = "place" /\ o \in worker.batch
        /\ worker \in [at : {"next"}, doing : {"place", "poll"}, batch : SUBSET Orders]
    BY <1>3, PicksType DEF RouteOrder, Picks, Idle
  <2>2. UNCHANGED <<row, id, shop>>
        /\ \/ worker' = Handling("lookup", worker, o, "PLACED", "supplier")
           \/ worker' = Handling("check", worker, o, "PLACED", "dry")
           \/ worker' = Handling("check", worker, o, "FAILED", "none")
    BY <1>3 DEF RouteOrder
  <2>3. \A b \in worker.batch : row[b] \in Fresh
    BY <2>1 DEF RoundInv
  <2>4. /\ \A n, s : Backs("dry", "PLACED", n, s)
        /\ \A d, n, s : Backs(d, "FAILED", n, s)
    BY DEF Backs
  <2>9. Picks(o, "place") /\ {"PLACED", "FAILED"} \subseteq Targets
        /\ Ids = {"none", "supplier", "dry"}
    BY <1>3 DEF RouteOrder, Targets, Ids
  <2>6. CASE worker' = Handling("lookup", worker, o, "PLACED", "supplier")
    <3>1. /\ worker'.at = "lookup" /\ worker'.order = o /\ worker'.doing = "place"
          /\ worker'.batch = worker.batch \ {o}
      BY <2>6, <2>9, HandlingType
    <3>8. RoundInv'
      BY <2>1, <2>2, <2>3, <3>1 DEF RoundInv
    <3> QED
      BY <2>2, <3>8, BackedRound
  <2>7. CASE worker' = Handling("check", worker, o, "PLACED", "dry")
    <3>1. /\ worker'.at = "check" /\ worker'.order = o /\ worker'.doing = "place"
          /\ worker'.batch = worker.batch \ {o} /\ worker'.target = "PLACED" /\ worker'.id = "dry"
      BY <2>7, <2>9, HandlingType
    <3>2. IdThen' = "dry"
      BY <3>1 DEF IdThen
    <3>8. RoundInv'
      BY <2>1, <2>2, <2>3, <2>4, <3>1, <3>2 DEF RoundInv
    <3> QED
      BY <2>2, <3>8, BackedRound
  <2>8. CASE worker' = Handling("check", worker, o, "FAILED", "none")
    <3>1. /\ worker'.at = "check" /\ worker'.order = o /\ worker'.doing = "place"
          /\ worker'.batch = worker.batch \ {o} /\ worker'.target = "FAILED"
      BY <2>8, <2>9, HandlingType
    <3>8. RoundInv'
      BY <2>1, <2>2, <2>3, <2>4, <3>1 DEF RoundInv
    <3> QED
      BY <2>2, <3>8, BackedRound
  <2> QED
    BY <2>2, <2>6, <2>7, <2>8
<1>4. ASSUME NEW o \in Orders, PollStatus(o)
      PROVE  FileInv' /\ RoundInv'
  <2>1. /\ worker # Idle /\ worker.doing = "poll" /\ o \in worker.batch /\ worker.at = "next"
        /\ worker \in [at : {"next"}, doing : {"place", "poll"}, batch : SUBSET Orders]
    BY <1>4, PicksType DEF PollStatus, Picks, Idle
  <2>2. UNCHANGED <<row, id, shop>>
    BY <1>4 DEF PollStatus
  <2>3. ASSUME NEW target \in Answers(o)
        PROVE  target # "PLACED" /\ Backs(id[o], target, placements[o], supplier[o])
    <3>1. supplier[o] # "none" => placements[o] > 0
      BY DEF FileInv
    <3> QED
      BY <2>3, <3>1 DEF Answers, Mapped, Backs
  <2>4. ASSUME NEW target \in Answers(o), worker' = Handling("check", worker, o, target, "none")
        PROVE  FileInv' /\ RoundInv'
    <3>1. IdThen' = id[o]
      BY <2>2, <2>3, <2>4 DEF IdThen, Handling
    <3>2. RoundInv'
      BY <2>1, <2>2, <2>3, <2>4, <3>1 DEF RoundInv, Handling, shop
    <3> QED
      BY <2>2, <3>2, BackedRound
  <2>5. CASE worker' = [worker EXCEPT !.batch = @ \ {o}]
    <3>1. worker'.at = "next" /\ worker'.doing = "poll"
      BY <2>1, <2>5
    <3>2. RoundInv'
      BY <3>1 DEF RoundInv
    <3> QED
      BY <2>2, <3>2, BackedRound
  <2> QED
    BY <1>4, <2>4, <2>5 DEF PollStatus
<1>w. ASSUME worker.at \in {"lookup", "create", "check", "write"}
      PROVE  /\ worker # Idle /\ worker.order \in Orders /\ worker.order \notin worker.batch
             /\ worker.batch \subseteq Orders
             /\ worker.doing = "place" => \A o \in worker.batch : row[o] \in Fresh
             /\ worker.at \in {"lookup", "create"} => row[worker.order] \in Fresh
             /\ worker.at \in {"check", "write"} =>
                  Backs(IdThen, worker.target, placements[worker.order], supplier[worker.order])
  BY <1>w, RoundOrders DEF RoundInv, Idle
<1>g. ASSUME NEW from \in {"lookup", "create"}, NEW to \in {"create", "check"}, NEW target \in Targets,
             WorkerGoes(from, to, target)
      PROVE  /\ worker.at = from /\ worker'.at = to /\ worker'.target = target
             /\ worker'.order = worker.order /\ worker'.batch = worker.batch
             /\ worker'.doing = worker.doing /\ worker'.id = worker.id
             /\ worker.id \in Ids
  <2>1. worker.at = from /\ worker' = [worker EXCEPT !.at = to, !.target = target]
    BY <1>g DEF WorkerGoes
  <2> QED
    BY <2>1, WorkerStepType
<1>d. \A d : \A n \in Nat : \A s : n > 0 => Backs(d, "PLACED", n, s)
  BY DEF Backs
<1>5. CASE LookUp
  <2>1. PICK to \in {"create", "check"} :
          WorkerGoes("lookup", to, "PLACED") /\ (to = "check" => Found(worker.order))
    BY <1>5 DEF LookUp
  <2>2. /\ worker.at = "lookup" /\ worker'.at = to /\ worker'.target = "PLACED"
        /\ worker'.order = worker.order /\ worker'.batch = worker.batch /\ worker'.doing = worker.doing
        /\ worker'.id \in Ids
    BY <1>g, <2>1 DEF Targets
  <2>3. UNCHANGED <<row, id, shop>>
    BY <1>5 DEF LookUp
  <2>4. to = "check" => Backs(IdThen', "PLACED", placements[worker.order], supplier[worker.order])
    <3>1. to = "check" => placements[worker.order] > 0 /\ placements[worker.order] \in Nat
      BY <1>w, <1>t, <2>1, <2>2 DEF Found, FileInv
    <3>2. IdThen' \in Ids
      BY <2>2 DEF IdThen
    <3> QED
      BY <1>d, <3>1, <3>2
  <2>5. RoundInv'
    BY <1>w, <2>2, <2>3, <2>4 DEF RoundInv, shop
  <2> QED
    BY <2>3, <2>5, BackedRound
<1>10. CASE LookUpFails
  <2>1. /\ worker.at = "lookup" /\ worker'.at = "create"
        /\ worker'.order = worker.order /\ worker'.batch = worker.batch /\ worker'.doing = worker.doing
    BY <1>10, <1>g DEF LookUpFails, Targets
  <2>2. UNCHANGED <<row, id, supplier, placements>>
    BY <1>10 DEF LookUpFails
  <2>3. RoundInv'
    BY <1>w, <2>1, <2>2 DEF RoundInv
  <2> QED
    BY <2>2, <2>3 DEF FileInv
<1>6. CASE CreateFails
  <2>1. /\ worker.at = "create" /\ worker'.at = "check" /\ worker'.target = "FAILED"
        /\ worker'.order = worker.order /\ worker'.batch = worker.batch /\ worker'.doing = worker.doing
    BY <1>6, <1>g DEF CreateFails, Targets
  <2>2. UNCHANGED <<row, id, shop>>
    BY <1>6 DEF CreateFails
  <2>3. \A d, n, s : Backs(d, "FAILED", n, s)
    BY DEF Backs
  <2>4. RoundInv'
    BY <1>w, <2>1, <2>2, <2>3 DEF RoundInv
  <2> QED
    BY <2>2, <2>4, BackedRound
<1>7. CASE Create
  <2>1. PICK target \in {"PLACED", "FAILED"} : WorkerGoes("create", "check", target)
    BY <1>7 DEF Create
  <2>2. /\ worker.at = "create" /\ worker'.at = "check" /\ worker'.target = target
        /\ worker'.order = worker.order /\ worker'.batch = worker.batch /\ worker'.doing = worker.doing
        /\ worker'.id \in Ids
    BY <1>g, <2>1 DEF Targets
  <2>3. /\ UNCHANGED <<row, id>>
        /\ placements' = [placements EXCEPT ![worker.order] = @ + 1]
        /\ supplier' = [supplier EXCEPT ![worker.order] = "placed"]
    BY <1>7 DEF Create
  <2>4. worker.order \in Orders /\ worker.batch \subseteq Orders /\ row[worker.order] \in Fresh
        /\ worker.order \notin worker.batch
        /\ (worker.doing = "place" => \A o \in worker.batch : row[o] \in Fresh)
    BY <1>w, <2>2
  <2>5. placements'[worker.order] > 0 /\ placements'[worker.order] \in Nat
    BY <1>t, <2>3, <2>4
  <2>6. FileInv'
    <3>1. ASSUME NEW o \in Orders
          PROVE  /\ supplier'[o] # "none" => placements'[o] > 0
                 /\ Backs(id'[o], row'[o], placements'[o], supplier'[o])
      <4>1. CASE o = worker.order
        BY <2>3, <2>4, <2>5, <4>1, <1>y DEF Backs, Fresh
      <4>2. CASE o # worker.order
        <5>1. supplier'[o] = supplier[o] /\ placements'[o] = placements[o]
          BY <1>t, <2>3, <4>2
        <5> QED
          BY <2>3, <5>1 DEF FileInv
      <4> QED
        BY <4>1, <4>2
    <3> QED
      BY <3>1 DEF FileInv
  <2>7. Backs(IdThen', target, placements'[worker.order], supplier'[worker.order])
    <3>1. CASE target = "PLACED"
      <4>1. IdThen' \in Ids
        BY <2>2, <3>1 DEF IdThen
      <4> QED
        BY <1>d, <2>5, <3>1, <4>1
    <3>2. CASE target = "FAILED"
      BY <3>2 DEF Backs
    <3> QED
      BY <2>1, <3>1, <3>2
  <2>8. RoundInv'
    BY <2>2, <2>3, <2>4, <2>7 DEF RoundInv
  <2> QED
    BY <2>6, <2>8
<1>8. CASE CheckUpdate
  <2>1. worker.at = "check" /\ UNCHANGED <<row, id, shop>>
    BY <1>8 DEF CheckUpdate
  <2>2. CASE worker' = [worker EXCEPT !.at = "write"]
    <3>1. /\ worker'.at = "write" /\ worker'.target = worker.target /\ worker'.order = worker.order
          /\ worker'.batch = worker.batch /\ worker'.doing = worker.doing
          /\ worker'.id = worker.id
      BY <2>1, <2>2, WorkerStepType
    <3>3. IdThen' = IdThen
      BY <2>1, <3>1 DEF IdThen
    <3>2. RoundInv'
      BY <1>w, <2>1, <3>1, <3>3 DEF RoundInv, shop
    <3> QED
      BY <2>1, <3>2, BackedRound
  <2>3. CASE worker' = Round(worker.doing, worker.batch)
    <3>1. RoundInv'
      BY <1>w, <2>1, <2>3 DEF RoundInv, Round
    <3> QED
      BY <2>1, <3>1, BackedRound
  <2> QED
    BY <1>8, <2>2, <2>3 DEF CheckUpdate
<1>9. CASE WriteUpdate
  <2>1. worker.at = "write" /\ worker' = Round(worker.doing, worker.batch) /\ UNCHANGED shop
        /\ row' = [row EXCEPT ![worker.order] = worker.target]
        /\ id' = [id EXCEPT ![worker.order] = IdThen]
    <3>1. WriteUpdate
      BY <1>9
    <3>2. worker.order \in Orders
      BY <1>9, <1>w DEF WriteUpdate
    <3> QED
      BY <1>y, <3>1, <3>2 DEF WriteUpdate, IdThen
  <2>2. /\ worker.order \in Orders /\ worker.order \notin worker.batch /\ worker.batch \subseteq Orders
        /\ worker.doing = "place" => \A o \in worker.batch : row[o] \in Fresh
        /\ Backs(IdThen, worker.target, placements[worker.order], supplier[worker.order])
    BY <1>w, <2>1
  <2>3. \A o \in Orders : row'[o] = IF o = worker.order THEN worker.target ELSE row[o]
    BY <1>t, <2>1
  <2>6. \A o \in Orders : id'[o] = IF o = worker.order THEN IdThen ELSE id[o]
    BY <1>y, <2>1
  <2>4. FileInv'
    BY <2>1, <2>2, <2>3, <2>6 DEF FileInv, shop
  <2>5. RoundInv'
    BY <2>1, <2>2, <2>3 DEF RoundInv, Round
  <2> QED
    BY <2>4, <2>5
<1> QED
  BY <1>1, <1>2, <1>3, <1>4, <1>5, <1>6, <1>7, <1>8, <1>9, <1>10 DEF Fulfillment

LEMMA BackedStep ==
  ASSUME TypeOK, FileInv, RoundInv, [Next]_vars
  PROVE  FileInv' /\ RoundInv'
<1>1. CASE Webhook
  <2>1. UNCHANGED <<worker, id, shop>>
    BY <1>1 DEF Webhook, Record, RecordRaises, Mirror, MarkDone, FeedRaises, CheckReversal, Reverse,
                EnterRefund, MarkSeen
  <2> QED
    BY <1>1, <2>1, WebhookRows, BackedElsewhere
<1>2. CASE RoundDies
  <2>1. worker' = Idle /\ UNCHANGED <<row, id, shop>>
    BY <1>2 DEF RoundDies
  <2>2. RoundInv'
    BY <2>1 DEF RoundInv, Idle
  <2> QED
    BY <2>1, <2>2, BackedRound
<1>3. CASE UNCHANGED <<worker, shop, id, row>>
  BY <1>3, BackedElsewhere
<1>4. ASSUME NEW o \in Orders, SupplierMoves(o)
      PROVE  FileInv' /\ RoundInv'
  <2>1. UNCHANGED <<worker, id, row>>
    BY <1>4 DEF SupplierMoves
  <2> QED
    BY <1>4, <2>1, BackedElsewhere
<1> QED
  BY <1>1, <1>2, <1>3, <1>4, BackedFulfillment DEF Next, vars, Customer, Pays, Deliver, HookDies

\* However rounds are cut short, repeated and interleaved with reversals, and even
\* when the look-up fails and an order is placed twice: the file claims of an order that
\* carries the supplier's own id only what the supplier has done, and never calls an
\* order delivered that was placed dry.
THEOREM SupplierIsAhead == Spec => []NeverAheadOfSupplier
<1>1. Init => FileInv /\ RoundInv
  BY DEF Init, FileInv, RoundInv, Backs
<1>2. FileInv => NeverAheadOfSupplier
  BY DEF FileInv, Backs, NeverAheadOfSupplier
<1> QED
  BY <1>1, <1>2, BackedStep, Typed, PTL DEF Spec
=============================================================================

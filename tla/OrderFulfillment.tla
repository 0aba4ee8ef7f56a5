--------------------------- MODULE OrderFulfillment ---------------------------
(***************************************************************************)
(* The money path: api/routes/webhooks.py (Stripe), commerce/orders.py,    *)
(* commerce/fulfillment.py and data/repositories/order_repository.py, with *)
(* FULFILLMENT_LIVE=true and SUPPLIER_ORDERS_DRY_RUN=false.  A client with *)
(* no credentials places dry all the same.                                 *)
(*                                                                         *)
(* Two processes share one sqlite file.  hook is the webhook handler of    *)
(* the API, which serves one event at a time; worker is the fulfillment    *)
(* round of the orchestrator.  A step ends where a transaction on the file *)
(* commits, so the other process moves between any two of them.            *)
(***************************************************************************)
EXTENDS Naturals, FiniteSets

CONSTANTS Orders,
          DryShips,        \* the orders whose dry id hashes to "shipped"
          MaxFaults        \* bound on the aborts of a request or of a round

ASSUME OrdersAssumption == DryShips \subseteq Orders /\ MaxFaults \in Nat

VARIABLES
  payment,     \* payment[o]: the customer's money, as Stripe knows it
  sent,        \* the events Stripe has raised; each is delivered until it is seen
  seen,        \* webhook_events
  row,         \* row[o]: fulfillment_status of commerce_orders, "absent" before it
  id,          \* id[o]: the row's supplier_order_id: none, the supplier's own, or a dry one
  done,        \* done[o]: side_effects_done
  books,       \* books[o]: the order's entries in the ROAS repository
  hook,        \* the request in progress
  worker,      \* the fulfillment round in progress
  supplier,    \* supplier[o]: how far the supplier is with it
  placements,  \* placements[o]: the orders the supplier was given for it
  blind,       \* blind[o]: the look-ups of it that failed when they would have found it
  faults

stripe == <<payment, sent>>
shop   == <<supplier, placements, blind>>
vars   == <<stripe, seen, row, id, done, books, hook, worker, shop, faults>>

FULFILLMENT_STATES == {"RECEIVED", "PLACED", "SHIPPED", "DELIVERED", "FAILED", "REFUNDED"}

\* _VALID_TRANSITIONS.
Transitions ==
  [s \in FULFILLMENT_STATES |->
    CASE s = "RECEIVED"  -> {"PLACED", "FAILED", "REFUNDED"}
      [] s = "PLACED"    -> {"SHIPPED", "DELIVERED", "FAILED", "REFUNDED"}
      [] s = "SHIPPED"   -> {"DELIVERED", "FAILED", "REFUNDED"}
      [] s = "DELIVERED" -> {"REFUNDED"}
      [] s = "FAILED"    -> {"PLACED"}
      [] s = "REFUNDED"  -> {}]

\* Mutation: a session that completes before its payment settles is ingested.
OrderKindsWithUnpaid == {"paid", "settled_later", "unpaid"}

\* The events that ingest an order: checkout.session.completed of a paid session
\* and async_payment_succeeded; an unpaid session is ignored.
OrderKinds    == {"paid", "settled_later"}
ReversalKinds == {"refunded", "attempt_failed"}
Kinds  == {"paid", "unpaid", "settled_later"} \cup ReversalKinds
Events == [order : Orders, kind : Kinds]
Event(o, k) == [order |-> o, kind |-> k]

Idle == [at |-> "idle"]
HookAt(at, e) == [at |-> at, event |-> e]
\* A round over the orders of one snapshot: at "next" between two of them.
Round(doing, batch) == [at |-> "next", doing |-> doing, batch |-> batch]
Handling(at, w, o, target, placed) ==
  [at |-> at, doing |-> w.doing, batch |-> w.batch \ {o}, order |-> o, target |-> target,
   id |-> placed]

TypeOK ==
  /\ payment \in [Orders -> {"open", "pending", "settled", "returned"}]
  /\ sent \subseteq Events /\ seen \subseteq sent
  /\ row \in [Orders -> {"absent"} \cup FULFILLMENT_STATES] 
  /\ id \in [Orders -> {"none", "supplier", "dry"}] /\ done \in [Orders -> BOOLEAN]
  /\ books \in [Orders -> SUBSET {"sale", "refund"}]
  /\ hook \in {Idle} \cup
       [at : {"record", "mirror", "mark", "check", "reverse", "enter", "ack"}, event : sent]
  /\ worker \in {Idle} \cup [at : {"next"}, doing : {"place", "poll"}, batch : SUBSET Orders] \cup
       [at : {"lookup", "create", "check", "write"}, doing : {"place", "poll"},
        batch : SUBSET Orders, order : Orders, target : {"PLACED", "SHIPPED", "DELIVERED", "FAILED"},
        id : {"none", "supplier", "dry"}]
  /\ supplier \in [Orders -> {"none", "placed", "shipped", "delivered", "cancelled"}]
  /\ placements \in [Orders -> Nat] /\ blind \in [Orders -> Nat] /\ faults \in 0..MaxFaults

(***************************************************************************)
(* The customer and Stripe                                                 *)
(***************************************************************************)

Pays(o, from, to, k) ==
  /\ payment[o] = from /\ payment' = [payment EXCEPT ![o] = to]
  /\ Event(o, k) \notin sent /\ sent' = sent \cup {Event(o, k)}
  /\ UNCHANGED <<seen, row, id, done, books, hook, worker, shop, faults>>

\* A card attempt is declined, a session completes paid or with a delayed payment
\* that settles later, money is given back.
Customer(o) ==
  \/ Pays(o, "open", "open", "attempt_failed")
  \/ Pays(o, "open", "settled", "paid")
  \/ Pays(o, "open", "pending", "unpaid")
  \/ Pays(o, "pending", "settled", "settled_later")
  \/ Pays(o, "settled", "returned", "refunded")

(***************************************************************************)
(* stripe_webhook                                                          *)
(***************************************************************************)

FirstStep(k) ==
  CASE k \in OrderKinds -> "record" [] k \in ReversalKinds -> "check" [] OTHER -> "ack"

\* An event is delivered.  One already seen is answered and changes nothing.
Deliver(e) ==
  /\ hook = Idle /\ e \in sent \ seen
  /\ hook' = HookAt(FirstStep(e.kind), e)
  /\ UNCHANGED <<stripe, seen, row, id, done, books, worker, shop, faults>>

HookGoes(from, to) == hook.at = from /\ hook' = HookAt(to, hook.event)

\* ingest_order: insert the order unless it is there, and read its side_effects_done back.
Record ==
  LET o == hook.event.order IN
  /\ HookGoes("record", IF done[o] THEN "ack" ELSE "mirror")
  /\ row' = [row EXCEPT ![o] = IF @ = "absent" THEN "RECEIVED" ELSE @]
  /\ UNCHANGED <<stripe, seen, id, done, books, worker, shop, faults>>

\* Mutation: the error ingest_order returns is not raised.
HookAfterErrorAcks(e) == HookAt("ack", e)

\* The error becomes a 500, and the event stays unseen.
HookAfterError(e) == Idle

RecordRaises ==
  /\ hook.at = "record" /\ faults < MaxFaults /\ faults' = faults + 1
  /\ hook' = HookAfterError(hook.event)
  /\ UNCHANGED <<stripe, seen, row, id, done, books, worker, shop>>

\* Mutation: a feed that fails is skipped.
AfterFeedErrorGoesOn(at) == IF at = "mirror" THEN "mark" ELSE "ack"

\* _run_side_effects stops at a feed that raises, and ingest_order still returns ok.
AfterFeedError(at) == "ack"

Mirror ==
  /\ HookGoes("mirror", "mark")
  /\ books' = [books EXCEPT ![hook.event.order] = @ \cup {"sale"}]
  /\ UNCHANGED <<stripe, seen, row, id, done, worker, shop, faults>>

MarkDone ==
  /\ HookGoes("mark", "ack")
  /\ done' = [done EXCEPT ![hook.event.order] = TRUE]
  /\ UNCHANGED <<stripe, seen, row, id, books, worker, shop, faults>>

FeedRaises ==
  /\ hook.at \in {"mirror", "mark"} /\ hook' = HookAt(AfterFeedError(hook.at), hook.event)
  /\ UNCHANGED <<stripe, seen, row, id, done, books, worker, shop, faults>>

\* Mutation: an update to FAILED is refused.
ValidNeverFailed(o, status) == row[o] # "absent" /\ status \in Transitions[row[o]] \ {"FAILED"}

\* update_fulfillment's look at the row.
Valid(o, status) == row[o] # "absent" /\ status \in Transitions[row[o]]

\* reverse_order: update_fulfillment(REFUNDED) reads the row, then writes it ...
CheckReversal ==
  /\ HookGoes("check", IF Valid(hook.event.order, "REFUNDED") THEN "reverse" ELSE "ack")
  /\ UNCHANGED <<stripe, seen, row, id, done, books, worker, shop, faults>>

Reverse ==
  /\ HookGoes("reverse", "enter")
  /\ row' = [row EXCEPT ![hook.event.order] = "REFUNDED"]
  /\ UNCHANGED <<stripe, seen, id, done, books, worker, shop, faults>>

\* ... and the compensating entry is made, or its failure is swallowed.
EnterRefund ==
  /\ HookGoes("enter", "ack")
  /\ \/ books' = [books EXCEPT ![hook.event.order] = @ \cup {"refund"}]
     \/ books' = books
  /\ UNCHANGED <<stripe, seen, row, id, done, worker, shop, faults>>

MarkSeen ==
  /\ hook.at = "ack" /\ hook' = Idle
  /\ seen' = seen \cup {hook.event}
  /\ UNCHANGED <<stripe, row, id, done, books, worker, shop, faults>>

Webhook ==
  \/ Record \/ RecordRaises \/ Mirror \/ MarkDone \/ FeedRaises
  \/ CheckReversal \/ Reverse \/ EnterRefund \/ MarkSeen

(***************************************************************************)
(* _run_fulfillment: process_new_orders, then poll_placed_orders           *)
(***************************************************************************)

WithStatus(s) == {o \in Orders : row[o] = s}

StartRound ==
  /\ worker = Idle /\ worker' = Round("place", WithStatus("RECEIVED"))
  /\ UNCHANGED <<stripe, seen, row, id, done, books, hook, shop, faults>>

StartPolling ==
  /\ worker = Round("place", {}) /\ worker' = Round("poll", WithStatus("PLACED"))
  /\ UNCHANGED <<stripe, seen, row, id, done, books, hook, shop, faults>>

EndRound ==
  /\ worker = Round("poll", {}) /\ worker' = Idle
  /\ UNCHANGED <<stripe, seen, row, id, done, books, hook, shop, faults>>

Picks(o, doing) == worker.at = "next" /\ worker.doing = doing /\ o \in worker.batch

\* _place_one_order and place_order: the client found for the order asks its supplier,
\* or has no credentials and places dry; or no client is found, or it cannot place.
RouteOrder(o) ==
  /\ Picks(o, "place")
  /\ \/ worker' = Handling("lookup", worker, o, "PLACED", "supplier")
     \/ worker' = Handling("check", worker, o, "PLACED", "dry")
     \/ worker' = Handling("check", worker, o, "FAILED", "none")
  /\ UNCHANGED <<stripe, seen, row, id, done, books, hook, shop, faults>>

WorkerGoes(from, to, target) ==
  worker.at = from /\ worker' = [worker EXCEPT !.at = to, !.target = target]

\* Mutation: an order with the supplier is not found.
FoundNever(o) == FALSE

Found(o) == supplier[o] # "none"

\* The client looks for our order number before it creates an order ...
LookUp ==
  /\ WorkerGoes("lookup", IF Found(worker.order) THEN "check" ELSE "create", "PLACED")
  /\ UNCHANGED <<stripe, seen, row, id, done, books, hook, shop, faults>>

\* ... and creates one when it cannot look.
LookUpFails ==
  /\ WorkerGoes("lookup", "create", "PLACED")
  /\ blind' = [blind EXCEPT ![worker.order] = IF Found(worker.order) THEN @ + 1 ELSE @]
  /\ UNCHANGED <<stripe, seen, row, id, done, books, hook, supplier, placements, faults>>

\* The supplier takes the order; the answer may still be an error or none.
Create ==
  /\ \E target \in {"PLACED", "FAILED"} : WorkerGoes("create", "check", target)
  /\ placements' = [placements EXCEPT ![worker.order] = @ + 1]
  /\ supplier' = [supplier EXCEPT ![worker.order] = "placed"]
  /\ UNCHANGED <<stripe, seen, row, id, done, books, hook, blind, faults>>

CreateFails ==
  /\ WorkerGoes("create", "check", "FAILED")
  /\ UNCHANGED <<stripe, seen, row, id, done, books, hook, shop, faults>>

\* Mutation: an order in production counts as shipped.
MappedEagerly(s) == CASE s = "delivered" -> {"DELIVERED"} [] s = "cancelled" -> {"FAILED"}
                      [] OTHER -> {"SHIPPED"}

\* Mutation: the supplier's own words are taken for states.
MappedNot(s) == {s}

\* The state the supplier's answer stands for, if it stands for one.
Mapped(s) == CASE s = "shipped" -> {"SHIPPED"} [] s = "delivered" -> {"DELIVERED"}
               [] s = "cancelled" -> {"FAILED"} [] OTHER -> {}

\* order_status answers "failed" whenever it cannot ask; of a dry id it asks nobody.
Answers(o) ==
  IF id[o] = "dry" THEN IF o \in DryShips THEN {"SHIPPED"} ELSE {}
                   ELSE Mapped(supplier[o]) \cup {"FAILED"}

NoNews(o) == IF id[o] = "dry" THEN o \notin DryShips ELSE Mapped(supplier[o]) = {}

PollStatus(o) ==
  /\ Picks(o, "poll")
  /\ \/ \E target \in Answers(o) : worker' = Handling("check", worker, o, target, "none")
     \/ NoNews(o) /\ worker' = [worker EXCEPT !.batch = @ \ {o}]
  /\ UNCHANGED <<stripe, seen, row, id, done, books, hook, shop, faults>>

\* update_fulfillment reads the row in one connection and writes it in another.
CheckUpdate ==
  /\ worker.at = "check"
  /\ worker' = IF Valid(worker.order, worker.target)
               THEN [worker EXCEPT !.at = "write"]
               ELSE Round(worker.doing, worker.batch)
  /\ UNCHANGED <<stripe, seen, row, id, done, books, hook, shop, faults>>

\* The supplier's id is written with PLACED, and kept by every other update.
WriteUpdate ==
  /\ worker.at = "write" /\ worker' = Round(worker.doing, worker.batch)
  /\ row' = [row EXCEPT ![worker.order] = worker.target]
  /\ id' = [id EXCEPT ![worker.order] = IF worker.target = "PLACED" THEN worker.id ELSE @]
  /\ UNCHANGED <<stripe, seen, done, books, hook, shop, faults>>

Fulfillment ==
  \/ StartRound \/ StartPolling \/ EndRound
  \/ \E o \in Orders : RouteOrder(o) \/ PollStatus(o)
  \/ LookUp \/ LookUpFails \/ Create \/ CreateFails \/ CheckUpdate \/ WriteUpdate

(***************************************************************************)
(* The supplier, and what cuts a request or a round short: the death of    *)
(* the process, or a database error that reaches its top.                  *)
(***************************************************************************)

SupplierMoves(o) ==
  /\ \E s \in CASE supplier[o] = "placed" -> {"shipped", "cancelled"}
                [] supplier[o] = "shipped" -> {"delivered", "cancelled"}
                [] OTHER -> {} :
       supplier' = [supplier EXCEPT ![o] = s]
  /\ UNCHANGED <<stripe, seen, row, id, done, books, hook, worker, placements, blind, faults>>

HookDies ==
  /\ hook # Idle /\ hook' = Idle /\ faults < MaxFaults /\ faults' = faults + 1
  /\ UNCHANGED <<stripe, seen, row, id, done, books, worker, shop>>

RoundDies ==
  /\ worker # Idle /\ worker' = Idle /\ faults < MaxFaults /\ faults' = faults + 1
  /\ UNCHANGED <<stripe, seen, row, id, done, books, hook, shop>>

Init ==
  /\ payment = [o \in Orders |-> "open"] /\ sent = {} /\ seen = {}
  /\ row = [o \in Orders |-> "absent"] 
  /\ id = [o \in Orders |-> "none"] /\ done = [o \in Orders |-> FALSE]
  /\ books = [o \in Orders |-> {}]
  /\ hook = Idle /\ worker = Idle /\ faults = 0
  /\ supplier = [o \in Orders |-> "none"] /\ placements = [o \in Orders |-> 0]
  /\ blind = [o \in Orders |-> 0]

Next ==
  \/ \E o \in Orders : Customer(o) \/ SupplierMoves(o)
  \/ \E e \in Events : Deliver(e)
  \/ Webhook \/ Fulfillment \/ HookDies \/ RoundDies

Spec == Init /\ [][Next]_vars

\* Stripe delivers an event again until a 2xx answers it, a request runs to its
\* end, and the orchestrator's tick runs the round.
FairSpec ==
  /\ Spec /\ WF_vars(Webhook) /\ WF_vars(Fulfillment)
  /\ \A e \in Events : WF_vars(Deliver(e))

(***************************************************************************)
(* Properties                                                              *)
(***************************************************************************)

\* An event that brings an order is not acknowledged before the order is on file,
\* whatever fails on the way.
PaidNeverLost == \A e \in seen : e.kind \in OrderKinds => row[e.order] # "absent"

\* No supplier is given an order whose payment has not settled.
NothingSpentUnpaid ==
  \A o \in Orders : placements[o] > 0 => payment[o] \in {"settled", "returned"}

\* A placement that is repeated after a crash finds the first: the supplier is given an
\* order again only by a look-up that failed, and once for each.
PlacedAgainOnlyBlind == \A o \in Orders : placements[o] <= 1 + blind[o]

\* Of an order that carries a supplier's own id the file never says more than the
\* supplier has done; one placed dry is never called delivered.
NeverAheadOfSupplier ==
  \A o \in Orders :
    IF id[o] = "dry"
    THEN row[o] # "DELIVERED"
    ELSE /\ row[o] \in {"PLACED", "SHIPPED", "DELIVERED"} => placements[o] > 0
         /\ row[o] = "SHIPPED" => supplier[o] \in {"shipped", "delivered", "cancelled"}
         /\ row[o] = "DELIVERED" => supplier[o] = "delivered"

\* side_effects_done stands for revenue that is in the books.
DoneIsBooked == \A o \in Orders : done[o] => "sale" \in books[o]

\* "validated against the transition table": the state moves along the table only.
LegalMoves ==
  [][\A o \in Orders : row'[o] # row[o] /\ row[o] # "absent" => row'[o] \in Transitions[row[o]]]_row

\* A customer who has paid is not left waiting: the order is recorded and leaves
\* RECEIVED, through aborted requests and rounds.
PaidIsHandled ==
  \A o \in Orders : payment[o] = "settled" ~> row[o] \notin {"absent", "RECEIVED"}
=============================================================================

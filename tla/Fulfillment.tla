---------------------------- MODULE Fulfillment ----------------------------
(***************************************************************************)
(* One order's way through the example system: the ordering service and    *)
(* its fulfillment saga (ordering/internal/app/saga.go), billing,          *)
(* inventory and shipping, joined by topics.  The parts are taken at the   *)
(* level their own modules establish: an append is atomic (EventStore), a  *)
(* relay publishes in commit order and repeats itself after a restart      *)
(* (Relay), a saga delivery is one atomic decision (Saga), a command is    *)
(* executed and acknowledged at least once (CommandConsumer).              *)
(***************************************************************************)
EXTENDS Faults, Sequences, FiniteSets

CONSTANTS Amounts,     \* totals customers ask for, in cents
          Quantities   \* quantities they ask for

ASSUME OrderAssumption == /\ Amounts \subseteq Int
                          /\ Quantities \subseteq Int

CaptureLimitCents == 99999
AvailableStock == 10

Services == {"ordering", "billing", "inventory", "shipping"}

\* The contracts by topic: what is published where.
EventTopics == {"ordering.events", "billing.events", "inventory.events",
                "shipping.events"}
CommandTopics == {"billing.commands", "inventory.commands", "shipping.commands"}
Topics == EventTopics \cup CommandTopics

TopicOf(type) ==
    CASE type = "order_placed" -> "ordering.events"
      [] type \in {"payment_captured", "payment_failed", "payment_refunded"} ->
            "billing.events"
      [] type \in {"stock_reserved", "stock_rejected"} -> "inventory.events"
      [] type = "shipment_dispatched" -> "shipping.events"
      [] type \in {"capture_payment", "refund_payment"} -> "billing.commands"
      [] type = "reserve_stock" -> "inventory.commands"
      [] OTHER -> "shipping.commands"

ServiceOf(topic) == CASE topic = "billing.commands" -> "billing"
                      [] topic = "inventory.commands" -> "inventory"
                      [] OTHER -> "shipping"

VARIABLES store,     \* service -> its public events and commands, in order
          relayed,   \* service -> the relay's checkpoint
          topics,    \* topic -> messages
          position,  \* topic -> offset of its consumer: the saga or a service
          saga,      \* the instance: messages seen, the quantity, the end
          processed, \* command IDs known to a deduplicator
          rejected   \* commands reported as definitively rejected

consumed == <<position, saga, processed, rejected>>
orderVars == <<store, relayed, topics, consumed, faults>>

Event(type, cents, qty) == [type |-> type, cents |-> cents, qty |-> qty]

OrderInit ==
    /\ store = [s \in Services |-> <<>>]
    /\ relayed = [s \in Services |-> 0]
    /\ topics = [t \in Topics |-> <<>>]
    /\ position = [t \in Topics |-> 1]
    /\ saga = [seen |-> {}, qty |-> 0, ended |-> FALSE]
    /\ processed = {}
    /\ rejected = {}
    /\ faults = 0

Recorded(s, type) == \E i \in DOMAIN store[s] : store[s][i].type = type

-----------------------------------------------------------------------------
\* The value objects: a request becomes a command only when both exist.
NewMoney(cents) == cents > 0
NewQuantity(qty) == qty > 0

\* The order's own stream starts with OrderPlaced.
Place(cents, qty) == Event("order_placed", cents, qty)

\* The customer's request; one that does not parse is answered with an error
\* and changes nothing.
PlaceOrder ==
    /\ ~Recorded("ordering", "order_placed")
    /\ \E cents \in Amounts, qty \in Quantities :
          /\ NewMoney(cents) /\ NewQuantity(qty)
          /\ store' = [store EXCEPT !["ordering"] = Append(@, Place(cents, qty))]
    /\ UNCHANGED <<relayed, topics, consumed, faults>>

\* The envelope of a service's i-th event or command: its ID is derived from
\* its place, so every copy carries the same one.
Envelope(s, i) == [id |-> <<s, i>>, type |-> store[s][i].type,
                   cents |-> store[s][i].cents, qty |-> store[s][i].qty]

\* A service's relay publishes its next event.
Publish(s) ==
    /\ relayed[s] < Len(store[s])
    /\ LET m == Envelope(s, relayed[s] + 1)
       IN topics' = [topics EXCEPT ![TopicOf(m.type)] = Append(@, m)]
    /\ relayed' = [relayed EXCEPT ![s] = @ + 1]
    /\ UNCHANGED <<store, consumed, faults>>

\* The relay restarts from an older checkpoint.
Republish(s) ==
    /\ relayed[s] > 0
    /\ relayed' = [relayed EXCEPT ![s] = @ - 1]
    /\ Fault
    /\ UNCHANGED <<store, topics, consumed>>

\* Mutants of Decisions: the rejection is not compensated; the shipment does
\* not wait for the reservation; the quantity is not remembered.
DecisionsUncompensated(m, qty) ==
    CASE m.type = "order_placed" -> <<Event("capture_payment", m.cents, 0)>>
      [] m.type = "payment_captured" -> <<Event("reserve_stock", 0, qty)>>
      [] m.type = "stock_reserved" -> <<Event("create_shipment", 0, 0)>>
      [] OTHER -> <<>>

DecisionsShipEarly(m, qty) ==
    CASE m.type = "order_placed" -> <<Event("capture_payment", m.cents, 0)>>
      [] m.type = "payment_captured" -> <<Event("reserve_stock", 0, qty),
                                          Event("create_shipment", 0, 0)>>
      [] m.type = "stock_rejected" -> <<Event("refund_payment", 0, 0)>>
      [] OTHER -> <<>>

DecisionsForgetful(m, qty) ==
    CASE m.type = "order_placed" -> <<Event("capture_payment", m.cents, 0)>>
      [] m.type = "payment_captured" -> <<Event("reserve_stock", 0, 0)>>
      [] m.type = "stock_reserved" -> <<Event("create_shipment", 0, 0)>>
      [] m.type = "stock_rejected" -> <<Event("refund_payment", 0, 0)>>
      [] OTHER -> <<>>

\* The commands the saga's handlers decide on, given the quantity it
\* remembers.
Decisions(m, qty) ==
    CASE m.type = "order_placed" -> <<Event("capture_payment", m.cents, 0)>>
      [] m.type = "payment_captured" -> <<Event("reserve_stock", 0, qty)>>
      [] m.type = "stock_reserved" -> <<Event("create_shipment", 0, 0)>>
      [] m.type = "stock_rejected" -> <<Event("refund_payment", 0, 0)>>
      [] OTHER -> <<>>

\* The facts that end the saga, and those it has no handler for.
Ending == {"payment_failed", "stock_rejected", "shipment_dispatched"}
Unhandled == {"payment_refunded"}

\* A fact reaches the saga.  The acknowledgement may be lost.
SagaReceives(t) ==
    LET m == topics[t][position[t]]
        next == IF m.type = "order_placed" THEN m.qty ELSE saga.qty
    IN /\ position[t] <= Len(topics[t])
       /\ \/ /\ m.type \in Unhandled \/ saga.ended \/ m.id \in saga.seen
             /\ UNCHANGED <<store, saga>>
          \/ /\ m.type \notin Unhandled /\ ~saga.ended /\ m.id \notin saga.seen
             /\ saga' = [seen |-> saga.seen \cup {m.id}, qty |-> next,
                         ended |-> m.type \in Ending]
             /\ store' = [store EXCEPT !["ordering"] = @ \o Decisions(m, next)]
       /\ \/ position' = [position EXCEPT ![t] = @ + 1] /\ UNCHANGED faults
          \/ UNCHANGED position /\ Fault
       /\ UNCHANGED <<relayed, topics, processed, rejected>>

\* The aggregates' value objects and decisions: both outcomes are facts.
NewAmount(cents) == cents > 0
NewReservedQuantity(qty) == qty > 0

Capture(cents) ==
    IF cents > CaptureLimitCents THEN "payment_failed" ELSE "payment_captured"

Reserve(qty) ==
    IF qty > AvailableStock THEN "stock_rejected" ELSE "stock_reserved"

Refund == IF Recorded("billing", "payment_captured") THEN "payment_refunded"
          ELSE "rejected"

Create == "shipment_dispatched"

\* What the services' handlers make of a command: the fact they record,
\* "done" when there is one already, or "rejected".
CapturePayment(cents) ==
    IF store["billing"] # <<>> THEN "done"
    ELSE IF NewAmount(cents) THEN Capture(cents) ELSE "rejected"

RefundPayment ==
    IF Recorded("billing", "payment_refunded") THEN "done" ELSE Refund

ReserveStock(qty) ==
    IF store["inventory"] # <<>> THEN "done"
    ELSE IF NewReservedQuantity(qty) THEN Reserve(qty) ELSE "rejected"

CreateShipment ==
    IF store["shipping"] # <<>> THEN "done" ELSE Create

Outcome(c) == CASE c.type = "capture_payment" -> CapturePayment(c.cents)
                [] c.type = "refund_payment" -> RefundPayment
                [] c.type = "reserve_stock" -> ReserveStock(c.qty)
                [] OTHER -> CreateShipment

(***************************************************************************)
(* A service consumes a command: skip it when known, else execute, mark,   *)
(* acknowledge; the mark or the acknowledgement may be lost.               *)
(***************************************************************************)
Consume(t) ==
    LET c == topics[t][position[t]]
        s == ServiceOf(t)
        out == Outcome(c)
    IN /\ position[t] <= Len(topics[t])
       /\ \/ /\ c.id \in processed \/ out = "done"
             /\ UNCHANGED <<store, rejected>>
          \/ /\ c.id \notin processed /\ out # "done"
             /\ rejected' = IF out = "rejected" THEN rejected \cup {c.id}
                            ELSE rejected
             /\ store' = IF out = "rejected" THEN store
                         ELSE [store EXCEPT ![s] =
                                  Append(@, Event(out, c.cents, c.qty))]
       /\ \/ /\ position' = [position EXCEPT ![t] = @ + 1]
             /\ processed' = processed \cup {c.id}
             /\ UNCHANGED faults
          \/ /\ processed' \in {processed, processed \cup {c.id}}
             /\ UNCHANGED position
             /\ Fault
       /\ UNCHANGED <<relayed, topics, saga>>

\* Everything is published and consumed.
Quiet == /\ \A s \in Services : relayed[s] = Len(store[s])
         /\ \A t \in Topics : position[t] > Len(topics[t])
         /\ Recorded("ordering", "order_placed")
         /\ UNCHANGED orderVars

OrderNext ==
    \/ PlaceOrder
    \/ \E s \in Services : Publish(s) \/ Republish(s)
    \/ \E t \in EventTopics : SagaReceives(t)
    \/ \E t \in CommandTopics : Consume(t)
    \/ Quiet

OrderSpec == OrderInit /\ [][OrderNext]_orderVars

\* Relays and consumers keep running; faults are finite.  Nobody is obliged
\* to order.
OrderFairSpec ==
    /\ OrderSpec
    /\ \A s \in Services : WF_orderVars(Publish(s))
    /\ \A t \in EventTopics : WF_orderVars(SagaReceives(t))
    /\ \A t \in CommandTopics : WF_orderVars(Consume(t))

-----------------------------------------------------------------------------
(***************************************************************************)
(* Goods leave only for money that stays: a dispatched order was captured  *)
(* and reserved, and neither refunded nor about to be.                     *)
(***************************************************************************)
ShippedIsPaid ==
    Recorded("shipping", "shipment_dispatched") =>
        /\ Recorded("billing", "payment_captured")
        /\ Recorded("inventory", "stock_reserved")
        /\ ~Recorded("ordering", "refund_payment")
        /\ ~Recorded("billing", "payment_refunded")

(***************************************************************************)
(* The saga never asks for what a service must refuse: no reservation      *)
(* without its quantity, no refund of a payment that is not there,         *)
(* although the facts it decides on travel on four unordered topics.       *)
(***************************************************************************)
NoCommandRejected == rejected = {}

\* Every order comes to one of its ends, and its saga with it: no money
\* stays with an order that cannot be fulfilled.
EveryOrderSettles ==
    Recorded("ordering", "order_placed") ~>
        /\ saga.ended
        /\ \/ Recorded("billing", "payment_failed")
           \/ Recorded("billing", "payment_refunded")
           \/ Recorded("shipping", "shipment_dispatched")

-----------------------------------------------------------------------------
\* What the services record and the relays publish.
Types == {"order_placed", "payment_captured", "payment_failed",
          "payment_refunded", "stock_reserved", "stock_rejected",
          "shipment_dispatched", "capture_payment", "refund_payment",
          "reserve_stock", "create_shipment"}

Record == [type : Types, cents : Amounts \cup {0}, qty : Quantities \cup {0}]
Message == [id : Services \X Nat, type : Types, cents : Amounts \cup {0},
            qty : Quantities \cup {0}]

\* The types of the variables.
OrderTypeOK ==
    /\ store \in [Services -> Seq(Record)]
    /\ relayed \in [Services -> Nat]
    /\ \A s \in Services : relayed[s] <= Len(store[s])
    /\ topics \in [Topics -> Seq(Message)]
    /\ position \in [Topics -> Nat \ {0}]
    /\ saga \in [seen : SUBSET (Services \X Nat), qty : Quantities \cup {0},
                  ended : BOOLEAN]
    /\ processed \subseteq Services \X Nat
    /\ faults \in Nat

(***************************************************************************)
(* The inductive invariant.  Everything recorded has its cause, which is   *)
(* recorded too: commands the fact they answer, facts the command they     *)
(* carry out.  A capture also means that the saga knows the quantity.      *)
(***************************************************************************)
Caused(s, e) ==
    \/ s = "ordering" /\ e.type = "order_placed" /\ e.cents > 0 /\ e.qty > 0
    \/ s = "ordering" /\ e.type = "capture_payment" /\ e.cents > 0 /\ saga.qty > 0
    \/ /\ s = "ordering" /\ e.type = "reserve_stock" /\ e.qty > 0
       /\ Recorded("billing", "payment_captured")
    \/ /\ s = "ordering" /\ e.type = "create_shipment"
       /\ Recorded("inventory", "stock_reserved")
    \/ /\ s = "ordering" /\ e.type = "refund_payment"
       /\ Recorded("inventory", "stock_rejected")
    \/ /\ s = "billing" /\ e.type \in {"payment_captured", "payment_failed"}
       /\ Recorded("ordering", "capture_payment")
    \/ /\ s = "billing" /\ e.type = "payment_refunded"
       /\ Recorded("ordering", "refund_payment")
    \/ /\ s = "inventory" /\ e.type \in {"stock_reserved", "stock_rejected"}
       /\ Recorded("ordering", "reserve_stock")
    \/ /\ s = "shipping" /\ e.type = "shipment_dispatched"
       /\ Recorded("ordering", "create_shipment")

CausalInv == \A s \in Services : \A k \in DOMAIN store[s] : Caused(s, store[s][k])

\* A message is a copy of something recorded, on the topic of its type.
Genuine(t, m) == /\ TopicOf(m.type) = t
                 /\ \E s \in Services : \E k \in DOMAIN store[s] : m = Envelope(s, k)

TopicInv == \A t \in Topics : \A i \in DOMAIN topics[t] : Genuine(t, topics[t][i])

OrderInv ==
    /\ OrderTypeOK
    /\ CausalInv
    /\ TopicInv
    /\ Len(store["inventory"]) <= 1
    /\ NoCommandRejected
=============================================================================

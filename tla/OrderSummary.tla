---------------------------- MODULE OrderSummary ----------------------------
(***************************************************************************)
(* The ordering service's read side for one order: the order_summary row,  *)
(* written from two logs that have no order between them (ordering's own   *)
(* events and the inbox of foreign facts), the worklist of customer        *)
(* notifications the same handlers fill, and the notifiers that drain it   *)
(* (ordering/internal/app/projection.go, notifier.go, adapters/postgres).  *)
(*                                                                         *)
(* Handlers run at least once and in log order (Projection, Inbox); the    *)
(* read side may be rebuilt while notifiers run.                           *)
(***************************************************************************)
EXTENDS Faults, Sequences, FiniteSets

CONSTANTS Histories,   \* the orders of facts the foreign inbox may hold
          Notifiers,   \* Notifier workers, one per replica
          MaxRebuilds  \* bound on rebuilds of the read side

\* The foreign facts, by the status they set.
Facts == {"paid", "reserved", "shipped", "payment_failed", "rejected", "refunded"}

ASSUME SummaryAssumption == /\ Histories \subseteq Seq(Facts)
                            /\ MaxRebuilds \in Nat

\* The ranks of ports.go.
Rank(status) == CASE status = "none" -> 0
                  [] status = "placed" -> 1
                  [] status = "paid" -> 2
                  [] status = "reserved" -> 3
                  [] status = "shipped" -> 4
                  [] status = "payment_failed" -> 10
                  [] status = "rejected" -> 11
                  [] OTHER -> 12

\* The facts a customer is told about; the status is the reason.
Notified == {"shipped", "payment_failed"}

VARIABLES inbox,    \* the foreign facts, in inbox order
          placed,   \* CatchUp: 0 before OrderPlaced is applied, 1 after
          read,     \* InboxReader: facts applied
          row,      \* the order_summary row
          queue,    \* pending_notification: reason -> its row's state and id
          order,    \* the order's stream after OrderPlaced: reasons notified
          notifier, job, version,   \* a notifier: what it does, the row it works
                              \* on, the order's version it loaded
          rebuilds

readSide == <<placed, read, row, queue>>
workers == <<notifier, job, version>>
summaryVars == <<inbox, readSide, order, workers, rebuilds, faults>>

NoRow == [status |-> "none", base |-> FALSE]
NoEntry == [state |-> "absent", id |-> 0]
NoJob == [reason |-> "none", id |-> 0]

SummaryInit ==
    /\ inbox \in Histories
    /\ placed = 0 /\ read = 0
    /\ row = NoRow
    /\ queue = [r \in Notified |-> NoEntry]
    /\ order = <<>>
    /\ notifier = [n \in Notifiers |-> "idle"]
    /\ job = [n \in Notifiers |-> NoJob]
    /\ version = [n \in Notifiers |-> 0]
    /\ rebuilds = 0 /\ faults = 0

-----------------------------------------------------------------------------
\* Mutant: the last writer wins.
RaiseAlways(status) == status

\* status = CASE WHEN status_rank >= EXCLUDED.status_rank THEN ... : the
\* stored status gives way only to one of higher rank.
Raise(status) == IF Rank(row.status) >= Rank(status) THEN row.status ELSE status

\* UpsertPlaced: the base columns, and the status unless a foreign fact was
\* here first.  The checkpoint may not be saved: the event comes again.
ApplyPlaced ==
    /\ placed = 0
    /\ row' = [status |-> Raise("placed"), base |-> TRUE]
    /\ \/ placed' = 1 /\ UNCHANGED faults
       \/ UNCHANGED placed /\ Fault
    /\ UNCHANGED <<inbox, read, queue, order, workers, rebuilds>>

\* Enqueue: INSERT ... ON CONFLICT (order_id, reason) DO NOTHING.  The
\* identity column gives a row inserted after a rebuild a new id.
Enqueue(reason) ==
    queue' = [queue EXCEPT ![reason] =
                 IF @ = NoEntry THEN [state |-> "due", id |-> rebuilds + 1]
                 ELSE @]

(***************************************************************************)
(* A foreign fact: SetStatus, and for some facts Enqueue.  The handler may *)
(* fail between the two, and the batch may come again.                     *)
(***************************************************************************)
ApplyForeign ==
    /\ read < Len(inbox)
    /\ LET fact == inbox[read + 1]
       IN /\ row' = [row EXCEPT !.status = Raise(fact)]
          /\ \/ /\ \/ fact \in Notified /\ Enqueue(fact)
                   \/ fact \notin Notified /\ UNCHANGED queue
                /\ \/ read' = read + 1 /\ UNCHANGED faults
                   \/ UNCHANGED read /\ Fault
             \/ /\ fact \in Notified
                /\ Fault
                /\ UNCHANGED <<queue, read>>
    /\ UNCHANGED <<inbox, placed, order, workers, rebuilds>>

\* The read side is rebuilt: the summary truncated, both checkpoints zeroed.
\* The worklist, filled by the same projection, is truncated too or kept.
Rebuild ==
    /\ rebuilds < MaxRebuilds
    /\ rebuilds' = rebuilds + 1
    /\ placed' = 0 /\ read' = 0
    /\ row' = NoRow
    /\ queue' \in {queue, [r \in Notified |-> NoEntry]}
    /\ UNCHANGED <<inbox, order, workers, faults>>

-----------------------------------------------------------------------------
\* Pending: the row is there and unsent.
Due(r) == queue[r].state = "due"

\* A tick reads the unsent rows; an order never has two of them.
Tick(n) ==
    /\ notifier[n] = "idle"
    /\ \E r \in Notified :
          /\ Due(r)
          /\ job' = [job EXCEPT ![n] = [reason |-> r, id |-> queue[r].id]]
    /\ notifier' = [notifier EXCEPT ![n] = "load"]
    /\ UNCHANGED <<inbox, readSide, order, version, rebuilds, faults>>

\* The row is dealt with, or given up until a later tick.
EndTick(n) == /\ notifier' = [notifier EXCEPT ![n] = "idle"]
              /\ job' = [job EXCEPT ![n] = NoJob]

\* The order as replayed: has the customer been told?
Told(reason) == \E i \in DOMAIN order : order[i] = reason

\* Mutant: a reason that was recorded before is recorded again.
LoadForgetful(n) ==
    /\ notifier[n] = "load"
    /\ version' = [version EXCEPT ![n] = Len(order)]
    /\ notifier' = [notifier EXCEPT ![n] = "save"]
    /\ UNCHANGED <<inbox, readSide, order, job, rebuilds, faults>>

\* NotifyCustomer loads the order; Notify is a no-op for a recorded reason.
Load(n) ==
    /\ notifier[n] = "load"
    /\ version' = [version EXCEPT ![n] = Len(order)]
    /\ notifier' = [notifier EXCEPT ![n] =
                       IF Told(job[n].reason) THEN "mark" ELSE "save"]
    /\ UNCHANGED <<inbox, readSide, order, job, rebuilds, faults>>

(***************************************************************************)
(* Save appends CustomerNotified at the loaded version.  A conflict, or a  *)
(* lost answer, makes the bus load again; conflicts alone cannot use up    *)
(* its attempts, since a second append finds its reason recorded.          *)
(***************************************************************************)
Save(n) ==
    /\ notifier[n] = "save"
    /\ \/ /\ Len(order) = version[n]
          /\ order' = Append(order, job[n].reason)
          /\ \/ notifier' = [notifier EXCEPT ![n] = "mark"] /\ UNCHANGED faults
             \/ notifier' = [notifier EXCEPT ![n] = "load"] /\ Fault
       \/ /\ Len(order) # version[n]
          /\ notifier' = [notifier EXCEPT ![n] = "load"]
          /\ UNCHANGED <<order, faults>>
    /\ UNCHANGED <<inbox, readSide, job, version, rebuilds>>

\* UPDATE ... WHERE id = $1 AND sent_at IS NULL: nothing happens to a row
\* that took the place of the one this notifier read.
Retire(n) ==
    LET r == job[n].reason
    IN queue' = IF queue[r] = [state |-> "due", id |-> job[n].id]
                THEN [queue EXCEPT ![r].state = "sent"]
                ELSE queue

\* MarkSent; a failure is only logged.
MarkSent(n) ==
    /\ notifier[n] = "mark"
    /\ \/ Retire(n) /\ UNCHANGED faults
       \/ UNCHANGED queue /\ Fault
    /\ EndTick(n)
    /\ UNCHANGED <<inbox, placed, read, row, order, version, rebuilds>>

\* Mutant: the row is retired although the dispatch failed.
DispatchFailsSent(n) ==
    /\ notifier[n] \in {"load", "save"}
    /\ Fault
    /\ Retire(n)
    /\ EndTick(n)
    /\ UNCHANGED <<inbox, placed, read, row, order, version, rebuilds>>

\* The bus gives up on a row: it stays due for a later tick.
DispatchFails(n) ==
    /\ notifier[n] \in {"load", "save"}
    /\ Fault
    /\ EndTick(n)
    /\ UNCHANGED <<inbox, readSide, order, version, rebuilds>>

\* The process dies in the middle of a tick.
NotifierCrash(n) ==
    /\ notifier[n] # "idle"
    /\ Fault
    /\ EndTick(n)
    /\ UNCHANGED <<inbox, readSide, order, version, rebuilds>>

\* Both logs are applied and nothing is due.
Quiet == /\ placed = 1 /\ read = Len(inbox)
         /\ \A r \in Notified : ~Due(r)
         /\ \A n \in Notifiers : notifier[n] = "idle"
         /\ UNCHANGED summaryVars

Work(n) == Tick(n) \/ Load(n) \/ Save(n) \/ MarkSent(n)

SummaryNext ==
    \/ ApplyPlaced \/ ApplyForeign \/ Rebuild \/ Quiet
    \/ \E n \in Notifiers : Work(n) \/ DispatchFails(n) \/ NotifierCrash(n)

SummarySpec == SummaryInit /\ [][SummaryNext]_summaryVars

\* The runners and the notifiers keep running; faults are finite.
SummaryFairSpec ==
    /\ SummarySpec
    /\ WF_summaryVars(ApplyPlaced) /\ WF_summaryVars(ApplyForeign)
    /\ \A n \in Notifiers : WF_summaryVars(Work(n))

-----------------------------------------------------------------------------
\* What has been applied since the last truncation, as far as checkpoints
\* tell.
Applied == {inbox[i] : i \in 1..read}
           \cup (IF placed = 1 THEN {"placed"} ELSE {"none"})

(***************************************************************************)
(* Commutative and idempotent: the row shows at least the highest ranked   *)
(* fact the runners have passed, whichever log was ahead and whatever came *)
(* twice, and nothing that did not happen.                                 *)
(***************************************************************************)
StatusIsHighest ==
    /\ \A status \in Applied : Rank(row.status) >= Rank(status)
    /\ row.status \in {inbox[i] : i \in DOMAIN inbox} \cup {"placed", "none"}
    /\ placed = 1 => row.base

\* A customer is told once per reason, although rows are delivered, claimed
\* and rebuilt more than once and by several notifiers.
NotifiedOnce ==
    \A i, j \in DOMAIN order : order[i] = order[j] => i = j

\* A retired row's notification has been recorded on the order.
SentIsRecorded ==
    \A r \in Notified : queue[r].state = "sent" => Told(r)

\* The row settles on the order's last word, and its customer is told.
Settles ==
    <>[](/\ row.base
         /\ \A i \in DOMAIN inbox :
               /\ Rank(row.status) >= Rank(inbox[i])
               /\ inbox[i] \in Notified => Told(inbox[i]))

-----------------------------------------------------------------------------
\* The types of the variables.
SummaryTypeOK ==
    /\ inbox \in Histories
    /\ placed \in {0, 1} /\ read \in 0..Len(inbox)
    /\ row \in [status : Facts \cup {"placed", "none"}, base : BOOLEAN]
    /\ queue \in [Notified -> [state : {"absent", "due", "sent"}, id : Nat]]
    /\ order \in Seq(Notified)
    /\ notifier \in [Notifiers -> {"idle", "load", "save", "mark"}]
    /\ job \in [Notifiers -> [reason : Notified \cup {"none"}, id : Nat]]
    /\ version \in [Notifiers -> Nat]
    /\ rebuilds \in Nat /\ faults \in Nat

(***************************************************************************)
(* The inductive invariant.  A notifier about to save did not find its     *)
(* reason among the notifications up to the version it loaded; one about   *)
(* to retire its row knows that the customer has been told.                *)
(***************************************************************************)
NotifierInv(n) ==
    /\ notifier[n] # "idle" => job[n].reason \in Notified
    /\ notifier[n] = "save" =>
          /\ version[n] <= Len(order)
          /\ \A i \in 1..version[n] : order[i] # job[n].reason
    /\ notifier[n] = "mark" => Told(job[n].reason)

SummaryInv ==
    /\ SummaryTypeOK
    /\ StatusIsHighest
    /\ NotifiedOnce
    /\ SentIsRecorded
    /\ \A n \in Notifiers : NotifierInv(n)
=============================================================================

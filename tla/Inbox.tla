------------------------------- MODULE Inbox -------------------------------
(***************************************************************************)
(* Foreign facts on their way into a read model: one InboxWriter per       *)
(* foreign topic copies messages from the broker into the inbox, one       *)
(* InboxReader tails the inbox (projection/inbox.go).                      *)
(*                                                                         *)
(* The Postgres inbox (projection-postgres/inbox.go) appends by a single   *)
(* INSERT ... ON CONFLICT DO NOTHING: the identity column draws its value  *)
(* when the statement runs, the row becomes visible when the statement's   *)
(* own transaction commits.  Nothing serializes two writers.  The memory   *)
(* inbox appends under its mutex.  Serialized tells them apart: when TRUE, *)
(* nobody draws a number while a drawn one is not visible yet.  That is    *)
(* the memory inbox, and the Postgres one as long as it has one writer.    *)
(*                                                                         *)
(* The broker keeps one offset per topic and delivers the message there    *)
(* until the handler succeeds, as the memory broker's loop does message by *)
(* message (broker/memory.go); its group has one active member.            *)
(***************************************************************************)
EXTENDS Faults, Sequences, FiniteSets

CONSTANTS Topics,     \* the foreign topics, one writer each
          Feed,       \* what each topic delivers: message IDs, with duplicates
          Serialized, \* whether something serializes the writers
          BatchSize,  \* Config.BatchSize
          MaxSeq      \* last value of the identity column considered

Ids == UNION {{Feed[t][i] : i \in DOMAIN Feed[t]} : t \in Topics}

ASSUME InboxAssumption == /\ Feed \in [Topics -> Seq(Ids)]
                          /\ Serialized \in BOOLEAN
                          /\ BatchSize \in Nat \ {0}
                          /\ MaxSeq \in Nat

VARIABLES rows,       \* committed rows of the inbox table
          seqGen,     \* last value drawn from the identity sequence
          offset,     \* per topic, the group's committed offset
          writer,     \* what a topic's InboxWriter is doing
          open,       \* rows inserted by a statement not yet committed
          pc, seq, batch, pending,   \* the InboxReader
          checkpoint, \* InboxCheckpoint
          handled     \* messages handed to their handler, if they have one

reader == <<pc, seq, batch, pending, checkpoint, handled>>
writers == <<rows, seqGen, offset, writer, open>>
vars == <<writers, reader, faults>>

Init == /\ rows = {}
        /\ seqGen = 0
        /\ offset = [t \in Topics |-> 1]
        /\ writer = [t \in Topics |-> "idle"]
        /\ open = [t \in Topics |-> {}]
        /\ pc = "down" /\ seq = 0 /\ batch = {} /\ pending = {}
        /\ checkpoint = 0
        /\ handled = {}
        /\ faults = 0

-----------------------------------------------------------------------------
\* The loop of Subscribe has a message for the handler of topic t.
Deliverable(t) == writer[t] = "idle" /\ offset[t] <= Len(Feed[t])

\* Mutant: Append does not take the mutex.
Unguarded == TRUE

\* Append may run: nobody else holds the mutex.
Exclusive == Serialized => \A t \in Topics : writer[t] # "inserted"

\* The message has been stored before.
Known(id) == \E r \in rows : r.id = id

\* Mutant: no ON CONFLICT clause and no unique index.
InsertAlways(t) ==
    /\ Deliverable(t)
    /\ Exclusive
    /\ seqGen < MaxSeq
    /\ seqGen' = seqGen + 1
    /\ open' = [open EXCEPT ![t] = {[seq |-> seqGen + 1,
                                     id |-> Feed[t][offset[t]]]}]
    /\ writer' = [writer EXCEPT ![t] = "inserted"]
    /\ UNCHANGED <<rows, offset, reader, faults>>

(***************************************************************************)
(* The broker delivers the message at the offset and Append runs.  A known *)
(* ID inserts nothing; the identity column has drawn a value for it all    *)
(* the same, the memory inbox has not.                                     *)
(***************************************************************************)
Insert(t) ==
    LET id == Feed[t][offset[t]]
    IN /\ Deliverable(t)
       /\ Exclusive
       /\ seqGen < MaxSeq
       /\ \A u \in Topics : \A r \in open[u] : r.id # id
       /\ \/ seqGen' = seqGen + 1
          \/ Serialized /\ Known(id) /\ UNCHANGED seqGen
       /\ open' = [open EXCEPT ![t] =
                      IF Known(id) THEN {}
                      ELSE {[seq |-> seqGen + 1, id |-> id]}]
       /\ writer' = [writer EXCEPT ![t] = "inserted"]
       /\ UNCHANGED <<rows, offset, reader, faults>>

\* The statement's transaction commits, or the mutex is released.
Commit(t) ==
    /\ writer[t] = "inserted"
    /\ rows' = rows \cup open[t]
    /\ open' = [open EXCEPT ![t] = {}]
    /\ writer' = [writer EXCEPT ![t] = "stored"]
    /\ UNCHANGED <<seqGen, offset, reader, faults>>

\* Append returned nil: the message is acknowledged, the offset moves.
Ack(t) ==
    /\ writer[t] = "stored"
    /\ offset' = [offset EXCEPT ![t] = @ + 1]
    /\ writer' = [writer EXCEPT ![t] = "idle"]
    /\ UNCHANGED <<rows, seqGen, open, reader, faults>>

\* Mutant: a failed append is acknowledged.
WriterFailureAcked(t) ==
    /\ writer[t] # "idle"
    /\ Fault
    /\ open' = [open EXCEPT ![t] = {}]
    /\ writer' = [writer EXCEPT ![t] = "idle"]
    /\ offset' = [offset EXCEPT ![t] = @ + 1]
    /\ UNCHANGED <<rows, seqGen, reader>>

\* The statement fails, its answer is lost, the offset commit fails or the
\* writer dies: what was not committed is gone, the message comes again.
WriterFails(t) ==
    /\ writer[t] # "idle"
    /\ Fault
    /\ open' = [open EXCEPT ![t] = {}]
    /\ writer' = [writer EXCEPT ![t] = "idle"]
    /\ UNCHANGED <<rows, seqGen, offset, reader>>

-----------------------------------------------------------------------------
\* ReadAll: the lowest BatchSize rows after a position.
ReadAll(afterSeq) ==
    {r \in rows :
        /\ r.seq > afterSeq
        /\ Cardinality({q \in rows : afterSeq < q.seq /\ q.seq <= r.seq})
              <= BatchSize}

\* Run returns or dies: everything local is gone.
StopReader == pc' = "down" /\ seq' = 0 /\ batch' = {} /\ pending' = {}

Start ==
    /\ pc = "down"
    /\ pc' = "read"
    /\ seq' = checkpoint
    /\ UNCHANGED <<writers, batch, pending, checkpoint, handled, faults>>

Read ==
    /\ pc = "read"
    /\ ReadAll(seq) # {}
    /\ pc' = "handle"
    /\ batch' = ReadAll(seq)
    /\ pending' = ReadAll(seq)
    /\ UNCHANGED <<writers, seq, checkpoint, handled, faults>>

\* Nothing new: sleep for the poll interval and try again.
Idle == pc = "read" /\ ReadAll(seq) = {} /\ UNCHANGED vars

\* The next message of the batch goes to its handler.
Handle ==
    /\ pc = "handle"
    /\ \E r \in pending :
          /\ \A q \in pending : r.seq <= q.seq
          /\ handled' = handled \cup {r.id}
          /\ pending' = pending \ {r}
    /\ UNCHANGED <<writers, pc, seq, batch, checkpoint, faults>>

\* The batch is applied: advance.  A failed Set, applied or not, ends Run.
Advance ==
    /\ pc = "handle"
    /\ pending = {}
    /\ \E last \in batch :
          /\ \A r \in batch : r.seq <= last.seq
          /\ \/ /\ checkpoint' = last.seq
                /\ pc' = "read"
                /\ seq' = last.seq
                /\ batch' = {}
                /\ UNCHANGED <<pending, faults>>
             \/ /\ checkpoint' \in {checkpoint, last.seq}
                /\ StopReader
                /\ Fault
    /\ UNCHANGED <<writers, handled>>

\* A handler or a read fails, or the process dies.
Crash ==
    /\ pc # "down"
    /\ StopReader
    /\ Fault
    /\ UNCHANGED <<writers, checkpoint, handled>>

WriterNext(t) == Insert(t) \/ Commit(t) \/ Ack(t) \/ WriterFails(t)
ReaderNext == Start \/ Read \/ Idle \/ Handle \/ Advance \/ Crash

Next == ReaderNext \/ \E t \in Topics : WriterNext(t)

Spec == Init /\ [][Next]_vars

\* The broker redelivers, statements finish, the reader is restarted and
\* keeps running.  Faults are finite.
Fairness == /\ \A t \in Topics : /\ WF_vars(Insert(t))
                                 /\ WF_vars(Commit(t))
                                 /\ WF_vars(Ack(t))
            /\ WF_vars(Start) /\ WF_vars(Read)
            /\ WF_vars(Handle) /\ WF_vars(Advance)

FairSpec == Spec /\ Fairness

-----------------------------------------------------------------------------
(***************************************************************************)
(* The inbox misses nothing and keeps nothing twice: every acknowledged    *)
(* message has exactly one row, whatever was redelivered.                  *)
(***************************************************************************)
StoredOnce ==
    /\ \A t \in Topics : \A i \in 1..(offset[t] - 1) :
          \E r \in rows : r.id = Feed[t][i]
    /\ \A r, q \in rows : r.id = q.id => r = q

(***************************************************************************)
(* Delivery to handlers is at-least-once: every stored message at or below *)
(* the reader's checkpoint was handed to its handler.                      *)
(***************************************************************************)
DeliveredAtLeastOnce ==
    \A r \in rows : r.seq <= checkpoint => r.id \in handled

\* Every message of every topic reaches its handler.
EventuallyHandled == \A id \in Ids : <>(id \in handled)

-----------------------------------------------------------------------------
Row == [seq : 1..MaxSeq, id : Ids]

\* The types of the variables.
TypeOK == /\ rows \subseteq Row /\ IsFiniteSet(rows)
          /\ seqGen \in 0..MaxSeq
          /\ offset \in [Topics -> Nat \ {0}]
          /\ writer \in [Topics -> {"idle", "inserted", "stored"}]
          /\ open \in [Topics -> SUBSET Row]
          /\ pc \in {"down", "read", "handle"}
          /\ seq \in 0..MaxSeq
          /\ batch \subseteq Row /\ pending \subseteq Row
          /\ checkpoint \in 0..MaxSeq
          /\ handled \subseteq Ids
          /\ faults \in 0..MaxFaults

(***************************************************************************)
(* The inductive invariant, for the writers: an inserted row is the only   *)
(* one with its ID, visible or not, and a writer whose statement has run   *)
(* has stored its message or is about to.                                  *)
(***************************************************************************)
WriterInv ==
    /\ \A t \in Topics :
          /\ IsFiniteSet(open[t])
          /\ writer[t] # "inserted" => open[t] = {}
          /\ writer[t] # "idle" =>
                \E r \in rows \cup open[t] : r.id = Feed[t][offset[t]]
          /\ \A r \in open[t] : r.seq <= seqGen /\ ~Known(r.id)
    /\ \A t, u \in Topics : \A r \in open[t], q \in open[u] :
          r.id = q.id => t = u /\ r = q
    /\ \A r \in rows : r.seq <= seqGen

(***************************************************************************)
(* For the reader, when something serializes the writers: a row becomes    *)
(* visible above every visible one, hence above every position the reader  *)
(* holds, so what a position has passed stays complete.                    *)
(***************************************************************************)
OrderInv ==
    /\ \A t, u \in Topics :
          writer[t] = "inserted" /\ writer[u] = "inserted" => t = u
    /\ \A t \in Topics : \A r \in open[t], q \in rows : q.seq < r.seq

Passed(p) == /\ p = 0 \/ \E r \in rows : r.seq = p
             /\ \A r \in rows : r.seq <= p => r.id \in handled

ReaderInv ==
    /\ Passed(checkpoint)
    /\ Passed(seq)
    /\ pc # "handle" => batch = {}
    /\ pending \subseteq batch /\ batch \subseteq rows
    /\ \A r \in batch : r.seq > seq
    /\ \A r \in batch, q \in rows : seq < q.seq /\ q.seq <= r.seq => q \in batch
    /\ \A r \in batch : r \in pending \/ r.id \in handled

Inv == /\ TypeOK
       /\ WriterInv
       /\ StoredOnce
       /\ Serialized => OrderInv /\ ReaderInv
=============================================================================

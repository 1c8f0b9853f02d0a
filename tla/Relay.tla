------------------------------- MODULE Relay -------------------------------
(***************************************************************************)
(* The polling relay (relay/relay.go): it tails the event store by global  *)
(* sequence, translates events into messages, publishes them topic by      *)
(* topic and then advances its checkpoint.  The store is any store that    *)
(* implements EventStore; the broker accepts messages one by one, keeps    *)
(* the order of messages that share a key, and may fail a Publish after    *)
(* accepting a part of it.                                                 *)
(*                                                                         *)
(* Several replicas of the service (a rolling deployment, a scaled-out     *)
(* one) run the same relay: they share one checkpoint row, which Set       *)
(* overwrites without looking.                                             *)
(***************************************************************************)
EXTENDS Faults, EventStore, Functions

CONSTANTS Replicas,   \* processes running this relay
          Topics,     \* destination topics
          Keys,       \* message keys: the unit of ordering of the broker
          TopicOf,    \* payload -> its topic, Private or Poison
          KeyOf,      \* stream -> message key
          Private,    \* no translator: the event stays in the service
          Poison,     \* the event cannot be decoded or translated
          BatchSize   \* Config.BatchSize

ASSUME RelayAssumption == /\ TopicOf \in [Payloads -> Topics \cup {Private, Poison}]
                          /\ KeyOf \in [Streams -> Keys]
                          /\ Private \notin Topics /\ Poison \notin Topics
                          /\ Private # Poison
                          /\ BatchSize \in Nat \ {0}

VARIABLES log,        \* the broker: per topic and key, messages in order
          checkpoint, \* the persisted position, 0 when there is none
          pc,         \* what a replica's Run is doing
          seq,        \* Run's local position
          batch,      \* the events ReadAll returned
          todo,       \* topics of the batch not yet published
          unsent      \* messages of todo's topics not accepted in this attempt

local == <<pc, seq, batch, todo, unsent>>
vars == <<events, log, checkpoint, local, faults>>

Topic(e) == TopicOf[e.data]
Key(e) == KeyOf[e.stream]
Public(e) == Topic(e) \in Topics

\* The messages of a batch for one topic.
Messages(b, t) == {e \in b : Topic(e) = t}

\* Topics are published in the order the batch first mentions them.
CurrentTopic(r, t) ==
    \E e \in Messages(batch[r], t) :
        \A f \in batch[r] : Topic(f) \in todo[r] => e.seq <= f.seq

Init == /\ StoreInit
        /\ log = [t \in Topics |-> [k \in Keys |-> <<>>]]
        /\ checkpoint = 0
        /\ pc = [r \in Replicas |-> "down"]
        /\ seq = [r \in Replicas |-> 0]
        /\ batch = [r \in Replicas |-> {}]
        /\ todo = [r \in Replicas |-> {}]
        /\ unsent = [r \in Replicas |-> {}]
        /\ faults = 0

\* Run returns, or its process dies: everything local is gone.
Stop(r) == /\ pc' = [pc EXCEPT ![r] = "down"]
           /\ seq' = [seq EXCEPT ![r] = 0]
           /\ batch' = [batch EXCEPT ![r] = {}]
           /\ todo' = [todo EXCEPT ![r] = {}]
           /\ unsent' = [unsent EXCEPT ![r] = {}]

-----------------------------------------------------------------------------
\* The service's command handlers keep appending.
Write == StoreNext /\ UNCHANGED <<log, checkpoint, local, faults>>

\* The supervisor (re)starts Run, which reads the checkpoint.
Start(r) ==
    /\ pc[r] = "down"
    /\ pc' = [pc EXCEPT ![r] = "read"]
    /\ seq' = [seq EXCEPT ![r] = checkpoint]
    /\ UNCHANGED <<events, log, checkpoint, batch, todo, unsent, faults>>

\* Mutant: what cannot be translated is skipped like a private event.
ReadSkipsPoison(r) ==
    LET recs == ReadAll(seq[r], BatchSize)
        public == {e \in recs : Public(e)}
    IN /\ pc[r] = "read"
       /\ recs # {}
       /\ pc' = [pc EXCEPT ![r] = "publish"]
       /\ batch' = [batch EXCEPT ![r] = recs]
       /\ todo' = [todo EXCEPT ![r] = {Topic(e) : e \in public}]
       /\ unsent' = [unsent EXCEPT ![r] = public]
       /\ UNCHANGED <<events, log, checkpoint, seq, faults>>

(***************************************************************************)
(* ReadAll and the translation of the whole batch.  One event that cannot  *)
(* be translated stops the relay before anything of the batch is           *)
(* published.                                                              *)
(***************************************************************************)
Read(r) ==
    LET recs == ReadAll(seq[r], BatchSize)
        public == {e \in recs : Public(e)}
    IN /\ pc[r] = "read"
       /\ recs # {}
       /\ \A e \in recs : Topic(e) # Poison
       /\ pc' = [pc EXCEPT ![r] = "publish"]
       /\ batch' = [batch EXCEPT ![r] = recs]
       /\ todo' = [todo EXCEPT ![r] = {Topic(e) : e \in public}]
       /\ unsent' = [unsent EXCEPT ![r] = public]
       /\ UNCHANGED <<events, log, checkpoint, seq, faults>>

\* Nothing new: sleep for the poll interval and try again.
Idle(r) ==
    /\ pc[r] = "read"
    /\ ReadAll(seq[r], BatchSize) = {}
    /\ UNCHANGED vars

\* One event of the batch fails to decode or translate: Run returns.
ReadPoison(r) ==
    /\ pc[r] = "read"
    /\ \E e \in ReadAll(seq[r], BatchSize) : Topic(e) = Poison
    /\ Stop(r)
    /\ UNCHANGED <<events, log, checkpoint, faults>>

\* Mutant: the order within a key is not kept.
AcceptAnyOrder(r) ==
    /\ pc[r] = "publish"
    /\ \E t \in todo[r], m \in unsent[r] :
          /\ CurrentTopic(r, t)
          /\ Topic(m) = t
          /\ log' = [log EXCEPT ![t][Key(m)] = Append(@, m)]
          /\ unsent' = [unsent EXCEPT ![r] = @ \ {m}]
    /\ UNCHANGED <<events, checkpoint, pc, seq, batch, todo, faults>>

\* The broker accepts the next message of some key of the current topic.
Accept(r) ==
    /\ pc[r] = "publish"
    /\ \E t \in todo[r], m \in unsent[r] :
          /\ CurrentTopic(r, t)
          /\ Topic(m) = t
          /\ \A n \in unsent[r] :
                Topic(n) = t /\ Key(n) = Key(m) => m.seq <= n.seq
          /\ log' = [log EXCEPT ![t][Key(m)] = Append(@, m)]
          /\ unsent' = [unsent EXCEPT ![r] = @ \ {m}]
    /\ UNCHANGED <<events, checkpoint, pc, seq, batch, todo, faults>>

\* Publish returns nil: every message of the topic has been accepted.
PublishReturns(r) ==
    /\ pc[r] = "publish"
    /\ \E t \in todo[r] :
          /\ CurrentTopic(r, t)
          /\ Messages(unsent[r], t) = {}
          /\ todo' = [todo EXCEPT ![r] = @ \ {t}]
    /\ UNCHANGED <<events, log, checkpoint, pc, seq, batch, unsent, faults>>

\* Mutant: a failed publish is dropped instead of retried.
PublishFailureDropped(r) ==
    /\ pc[r] = "publish"
    /\ \E t \in todo[r] :
          /\ CurrentTopic(r, t)
          /\ unsent' = [unsent EXCEPT ![r] = @ \ Messages(batch[r], t)]
    /\ Fault
    /\ UNCHANGED <<events, log, checkpoint, pc, seq, batch, todo>>

\* Publish returns an error, after accepting some of the messages or all
\* of them: publishWithRetry starts over with the whole list.
PublishFails(r) ==
    /\ pc[r] = "publish"
    /\ \E t \in todo[r] :
          /\ CurrentTopic(r, t)
          /\ unsent' = [unsent EXCEPT ![r] = @ \cup Messages(batch[r], t)]
    /\ Fault
    /\ UNCHANGED <<events, log, checkpoint, pc, seq, batch, todo>>

(***************************************************************************)
(* The batch is out: the position moves to its last event, locally and in  *)
(* the checkpoint store.  A failed Set, applied or not, ends Run.          *)
(***************************************************************************)
Advance(r) ==
    /\ pc[r] = "publish"
    /\ todo[r] = {}
    /\ \E last \in batch[r] :
          /\ \A e \in batch[r] : e.seq <= last.seq
          /\ \/ /\ checkpoint' = last.seq
                /\ pc' = [pc EXCEPT ![r] = "read"]
                /\ seq' = [seq EXCEPT ![r] = last.seq]
                /\ batch' = [batch EXCEPT ![r] = {}]
                /\ UNCHANGED <<todo, unsent, faults>>
             \/ /\ checkpoint' \in {checkpoint, last.seq}
                /\ Stop(r)
                /\ Fault
    /\ UNCHANGED <<events, log>>

\* The context is cancelled, a read fails, or the process dies.
Crash(r) ==
    /\ pc[r] # "down"
    /\ Stop(r)
    /\ Fault
    /\ UNCHANGED <<events, log, checkpoint>>

ReplicaNext(r) == \/ Start(r)
                  \/ Read(r)
                  \/ Idle(r)
                  \/ ReadPoison(r)
                  \/ Accept(r)
                  \/ PublishReturns(r)
                  \/ PublishFails(r)
                  \/ Advance(r)
                  \/ Crash(r)

Next == Write \/ \E r \in Replicas : ReplicaNext(r)

Spec == Init /\ [][Next]_vars

(***************************************************************************)
(* Fairness: the supervisor restarts Run, Run keeps executing, and the     *)
(* broker keeps accepting.  Faults are finite, so retries get through.     *)
(***************************************************************************)
Fairness == \A r \in Replicas : /\ WF_vars(Start(r))
                                /\ WF_vars(Read(r))
                                /\ WF_vars(Accept(r))
                                /\ WF_vars(PublishReturns(r))
                                /\ WF_vars(Advance(r))

FairSpec == Spec /\ Fairness

-----------------------------------------------------------------------------
Published(e) == Public(e) /\ e \in Range(log[Topic(e)][Key(e)])

\* The broker's logs, the positions and the replicas' batches have their
\* types: a position is always one the sequence can have.
TypeOK == /\ events \subseteq Event
          /\ log \in [Topics -> [Keys -> Seq(Event)]]
          /\ checkpoint \in 0..MaxSeq
          /\ pc \in [Replicas -> {"down", "read", "publish"}]
          /\ seq \in [Replicas -> 0..MaxSeq]
          /\ batch \in [Replicas -> SUBSET Event]
          /\ todo \in [Replicas -> SUBSET Topics]
          /\ unsent \in [Replicas -> SUBSET Event]
          /\ faults \in 0..MaxFaults

(***************************************************************************)
(* At least once: whatever the checkpoint has passed, and is not private,  *)
(* is in the broker.  In particular the relay never passes an event it     *)
(* could not translate.                                                    *)
(***************************************************************************)
AtLeastOnce ==
    \A e \in events :
        e.seq <= checkpoint => Topic(e) = Private \/ Published(e)

(***************************************************************************)
(* Commit order: per topic and key, a message is only accepted after every *)
(* event committed before it, so the first copies of messages are in       *)
(* commit order whatever is duplicated in between.                         *)
(***************************************************************************)
KeyOrder ==
    \A t \in Topics, k \in Keys :
        \A i \in 1..Len(log[t][k]) :
            \A e \in events :
                Topic(e) = t /\ Key(e) = k /\ e.seq < log[t][k][i].seq
                   => \E j \in 1..(i - 1) : log[t][k][j] = e

\* Every public event is eventually in the broker, unless the service has
\* recorded one that stops its relay.
EventuallyPublished ==
    \A p \in 1..MaxSeq :
        (\E e \in events : e.seq = p /\ Public(e)) ~>
            (\E e \in events : Topic(e) = Poison
                               \/ (e.seq = p /\ Published(e)))

-----------------------------------------------------------------------------
(***************************************************************************)
(* The inductive invariant.  A position a replica holds or has persisted   *)
(* is 0 or that of a visible event, and everything up to it is done; a     *)
(* batch is the gapless continuation of the replica's position, and what   *)
(* is neither unsent nor published in it is private.                       *)
(***************************************************************************)
Reached(p) == p = 0 \/ \E e \in events : e.seq = p

Done(p) == \A e \in events :
              e.seq <= p => Topic(e) = Private \/ Published(e)

PositionInv == /\ Reached(checkpoint)
               /\ Done(checkpoint)
               /\ \A r \in Replicas : Reached(seq[r]) /\ Done(seq[r])

BatchInv ==
    \A r \in Replicas :
        /\ pc[r] # "publish" => batch[r] = {}
        /\ batch[r] \subseteq events
        /\ \A e \in batch[r] : e.seq > seq[r] /\ Topic(e) # Poison
        /\ \A e \in batch[r], f \in events :
              seq[r] < f.seq /\ f.seq <= e.seq => f \in batch[r]
        /\ unsent[r] \subseteq batch[r]
        /\ \A e \in unsent[r] : Topic(e) \in todo[r]
        /\ \A e \in batch[r] :
              Public(e) => e \in unsent[r] \/ Published(e)

LogInv == \A t \in Topics, k \in Keys : Range(log[t][k]) \subseteq events

Inv == /\ TypeOK
       /\ StoreInv
       /\ PositionInv
       /\ BatchInv
       /\ LogInv
       /\ KeyOrder
=============================================================================

----------------------------- MODULE EventStore -----------------------------
(***************************************************************************)
(* The event-store port (eventstore/store.go) as an abstract state         *)
(* machine: one append-only collection of recorded events.  A recorded     *)
(* event carries its position in the global sequence (GlobalSeq), its      *)
(* stream, its per-stream version and an opaque payload.                   *)
(*                                                                         *)
(* The module has two users.  It is what the adapters promise: the         *)
(* Postgres store is shown to implement StoreSpec; in the in-memory one a  *)
(* mutex makes Append a single step, with base the number of events.  And  *)
(* it is what repositories and the workers that tail a store rely on: they *)
(* extend or instantiate this module and take its actions as their         *)
(* environment, so what they guarantee holds over any store that           *)
(* implements StoreSpec.                                                   *)
(***************************************************************************)
EXTENDS Integers, Sequences, FiniteSets

CONSTANTS Streams,    \* the stream identities (StreamID)
          Payloads,   \* what an event says: its name and data
          MaxBatch,   \* most events one command raises
          MaxSeq      \* last value of the global sequence

ASSUME StoreAssumption == /\ MaxBatch \in Nat \ {0}
                          /\ MaxSeq \in Nat

VARIABLE events       \* the set of recorded events visible to readers

Event == [seq : 1..MaxSeq, stream : Streams, version : 1..MaxSeq,
          data : Payloads]

\* The non-empty argument lists of Append.
Batches == UNION {[1..n -> Payloads] : n \in 1..MaxBatch}

StoreInit == events = {}

Versions(s) == {e.version : e \in {f \in events : f.stream = s}}

(***************************************************************************)
(* The first k of the events an append of data records: consecutive        *)
(* versions after expected, consecutive positions after base.              *)
(***************************************************************************)
Recorded(s, expected, data, k, base) ==
    {[seq |-> base + i, stream |-> s, version |-> expected + i,
      data |-> data[i]] : i \in 1..k}

(***************************************************************************)
(* One successful Append.  The stream must be at version expected, and the *)
(* new events take positions above everything already visible: what a      *)
(* reader has passed never fills up behind its back.  A conflicting or     *)
(* failed call changes nothing.                                            *)
(***************************************************************************)
AppendEvents(s, expected, data, base) ==
    /\ Versions(s) = 1..expected
    /\ \A e \in events : e.seq <= base
    /\ base + Len(data) <= MaxSeq
    /\ events' = events \cup Recorded(s, expected, data, Len(data), base)

StoreNext == \E s \in Streams, expected \in 0..MaxSeq,
                data \in Batches, base \in 0..MaxSeq :
                   AppendEvents(s, expected, data, base)

StoreSpec == StoreInit /\ [][StoreNext]_events

-----------------------------------------------------------------------------
(***************************************************************************)
(* ReadAll(afterSeq, limit): the limit lowest events after a position.     *)
(***************************************************************************)
ReadAll(afterSeq, limit) ==
    {e \in events :
        /\ e.seq > afterSeq
        /\ Cardinality({f \in events : afterSeq < f.seq /\ f.seq <= e.seq})
              <= limit}

\* No two events of one stream share a version or a position, versions
\* of a stream have no hole, and they grow with the global sequence.
WellFormed ==
    /\ \A s \in Streams : \E n \in 0..MaxSeq : Versions(s) = 1..n
    /\ \A e, f \in events :
          /\ e.seq = f.seq => e = f
          /\ e.stream = f.stream /\ e.version < f.version => e.seq < f.seq
          /\ e.stream = f.stream /\ e.version = f.version => e = f

\* The inductive invariant of the port.
StoreInv == /\ events \subseteq Event
            /\ IsFiniteSet(events)
            /\ WellFormed
            /\ \A e \in events : e.version <= e.seq
=============================================================================

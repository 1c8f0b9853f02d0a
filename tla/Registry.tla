------------------------------ MODULE Registry ------------------------------
(***************************************************************************)
(* The event registry (eventstore/registry.go).  A release of a service    *)
(* registers the event names it knows and, per name, a chain of upcasters; *)
(* the length of the chain is the schema version of that release.  Stored  *)
(* payloads are immutable and are lifted when they are read.               *)
(*                                                                         *)
(* A payload is the fact it states together with the shape its JSON has.   *)
(* json.Unmarshal is tolerant: a payload of another shape does not fail,   *)
(* it leaves fields at their zero value, and so does an upcaster that is   *)
(* given a shape it was not written for.  That outcome is Garbled.         *)
(***************************************************************************)
EXTENDS Integers

CONSTANTS Commands,     \* what a client can ask for
          Names,        \* event names, over all releases
          LastRelease,  \* the newest release of the service
          Chain         \* release -> the names it registers -> length of the
                        \* upcaster chain

Releases == 1..LastRelease

ASSUME RegistryAssumption ==
    /\ LastRelease \in Nat \ {0}
    /\ DOMAIN Chain = Releases
    /\ \A r \in Releases : DOMAIN Chain[r] \subseteq Names
    /\ \A r \in Releases : \A n \in DOMAIN Chain[r] : Chain[r][n] \in Nat
    \* A release keeps the names and the upcasters of the one before.
    /\ \A r, q \in Releases : r < q =>
          \A n \in DOMAIN Chain[r] :
              n \in DOMAIN Chain[q] /\ Chain[r][n] <= Chain[q][n]

\* A domain event in memory is [cmd, name]: which command raised it, under
\* which name.  Two more values of that kind: an event whose fields were
\* lost, and the error of a refused one.
Garbled == [cmd |-> "zero", name |-> "zero"]
DecodeError == [cmd |-> "error", name |-> "error"]

\* Register: the names release r has a Go type for.
Known(r) == DOMAIN Chain[r]

SchemaVersion(r, name) == 1 + Chain[r][name]

\* Encode: stamped with the current version of the release that writes.
Encode(r, f) == [name |-> f.name, schema |-> SchemaVersion(r, f.name),
                 shape |-> SchemaVersion(r, f.name), fact |-> f]

\* What can be stored: anything some release has written.
Encoded == UNION {{Encode(r, f) : f \in [cmd : Commands, name : Known(r)]} :
                  r \in Releases}

\* Upcaster number v of a chain lifts shape v to shape v + 1.
Upcast(v, p) == IF p.shape = v
                THEN [p EXCEPT !.shape = v + 1]
                ELSE [p EXCEPT !.shape = v + 1, !.fact = Garbled]

\* Mutant: the whole chain, whatever the stored version.
LiftFromStart(p, current) ==
    LET lifted[v \in 1..current] ==
            IF v = 1 THEN p ELSE Upcast(v - 1, lifted[v - 1])
    IN lifted[current]

\* The loop of Decode: one upcaster per version still missing.
Lift(p, current) ==
    LET lifted[v \in p.schema..current] ==
            IF v = p.schema THEN p ELSE Upcast(v - 1, lifted[v - 1])
    IN lifted[current]

\* json.Unmarshal into the type of a release whose shape is current.
Unmarshal(p, current) == IF p.shape = current THEN p.fact ELSE Garbled

\* Mutant: a stamp above the current version is not refused.
DecodeUnbounded(r, p) ==
    IF p.name \notin Known(r) THEN DecodeError
    ELSE LET current == SchemaVersion(r, p.name)
         IN IF p.schema > current THEN Unmarshal(p, current)
            ELSE Unmarshal(Lift(p, current), current)

(***************************************************************************)
(* Decode by release r: an unknown name and a version from the future are  *)
(* refused, everything else is lifted to the current shape.                *)
(***************************************************************************)
Decode(r, p) ==
    IF p.name \notin Known(r) \/ p.schema \notin 1..SchemaVersion(r, p.name)
    THEN DecodeError
    ELSE LET current == SchemaVersion(r, p.name)
         IN Unmarshal(Lift(p, current), current)
=============================================================================

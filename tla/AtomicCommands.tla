--------------------------- MODULE AtomicCommands ---------------------------
(***************************************************************************)
(* What event sourcing with optimistic concurrency promises the domain     *)
(* code (kernel.Aggregate, eventstore.Repository): an aggregate is a state *)
(* that commands change one at a time.  A command decides on the current   *)
(* state, not on an older one, and all the events it raises take effect    *)
(* together.  Here every command may succeed once; its outcome is one of   *)
(* several sequences of facts.                                             *)
(***************************************************************************)
EXTENDS Sequences, Functions

CONSTANTS Commands,
          Initial,     \* the facts of the aggregate to begin with
          Outcomes(_)  \* command -> the sequences of facts it may record

VARIABLE state         \* the facts of the aggregate, in order

Init == state = Initial

Execute(c) ==
    /\ \A f \in Range(state) : f.cmd # c
    /\ \E facts \in Outcomes(c) : state' = state \o facts

Next == \E c \in Commands : Execute(c)

Spec == Init /\ [][Next]_state
=============================================================================

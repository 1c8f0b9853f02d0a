------------------------------- MODULE MCSaga -------------------------------
\* TLC instances of the saga runner.
EXTENDS Saga, TLC

CONSTANTS c1, c2, c3, placed, captured, rejected, other

\* Three consumers; a redelivered duplicate also reaches another consumer,
\* as after a rebalance.
MCFeed == (c1 :> <<placed, other, captured>>) @@ (c2 :> <<captured, placed>>)
          @@ (c3 :> <<rejected>>)
MCCommands == [m \in {placed, captured, rejected, other} |->
                  CASE m = placed -> 1 [] m = captured -> 2 [] OTHER -> 1]
=============================================================================

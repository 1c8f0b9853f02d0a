------------------------- MODULE MCCommandConsumer -------------------------
\* TLC instances of the command consumer.
EXTENDS CommandConsumer

CONSTANTS o1, o2

Command(id, order, kind) == [id |-> id, order |-> order, kind |-> kind]

\* A captured and refunded order, the relay's duplicates included, beside
\* commands that will never succeed.
Refunded == <<Command(1, o1, "capture"), Command(1, o1, "capture"),
              Command(2, o2, "garbage"), Command(3, o1, "refund"),
              Command(3, o1, "refund"), Command(4, o2, "invalid"),
              Command(5, o2, "excessive"), Command(6, o2, "refund")>>
============================================================================

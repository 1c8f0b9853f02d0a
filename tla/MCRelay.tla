------------------------------ MODULE MCRelay ------------------------------
\* TLC instance of the relay.
EXTENDS Relay

CONSTANTS t1, t2, k1, a, b, priv, bad

\* Payload a goes to t1, b to t2; the others stay or cannot be translated.
MCTopicOf == [p \in Payloads |-> CASE p = a -> t1
                                   [] p = b -> t2
                                   [] p = priv -> Private
                                   [] p = bad -> Poison]

OneKey == [s \in Streams |-> k1]
============================================================================

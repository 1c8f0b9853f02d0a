---------------------------- MODULE MCDeployment ----------------------------
\* A TLC instance of a deployment.  The second and the third release each
\* add an upcaster to the first event; the third has a new event.  The
\* aggregate was created under the first release; the others are in use.
EXTENDS Deployment, TLC

CONSTANTS c0, c1

MCChain == <<[placed |-> 0], [placed |-> 1], [placed |-> 2, tagged |-> 0]>>

MCRaises == <<{<<"placed">>}, {<<"placed">>},
              {<<"placed">>, <<"placed", "tagged">>}>>

MCHistory == <<[cmd |-> c0, name |-> "placed", rel |-> 1]>>
=============================================================================

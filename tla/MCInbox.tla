------------------------------ MODULE MCInbox ------------------------------
\* TLC instances of the inbox: two topics feed one projection, as billing
\* and inventory do in the ordering service.
EXTENDS Inbox, TLC

CONSTANTS ta, tb, a1, a2, b1

\* With messages the relays have published twice.
Duplicates == (ta :> <<a1, a2, a1>>) @@ (tb :> <<b1, b1>>)
Once == (ta :> <<a1, a2>>) @@ (tb :> <<b1>>)
============================================================================

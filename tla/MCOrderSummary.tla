--------------------------- MODULE MCOrderSummary ---------------------------
\* TLC instances of the ordering read side.
EXTENDS OrderSummary

\* The three outcomes of an order.  Each topic keeps its order, but topics
\* are copied into the inbox independently: facts of different services
\* come in any order.
MCHistories == {<<"paid", "reserved", "shipped">>,
                <<"paid", "shipped", "reserved">>,
                <<"reserved", "paid", "shipped">>,
                <<"reserved", "shipped", "paid">>,
                <<"shipped", "paid", "reserved">>,
                <<"shipped", "reserved", "paid">>,
                <<"payment_failed">>,
                <<"rejected", "paid", "refunded">>,
                <<"paid", "rejected", "refunded">>,
                <<"paid", "refunded", "rejected">>}
=============================================================================

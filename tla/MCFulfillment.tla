--------------------------- MODULE MCFulfillment ---------------------------
\* TLC instance of the fulfillment flow: both sides of both limits,
\* and requests that are no order.
EXTENDS Fulfillment

MCAmounts == {0, CaptureLimitCents, CaptureLimitCents + 1}
MCQuantities == {0, AvailableStock, AvailableStock + 1}
=============================================================================

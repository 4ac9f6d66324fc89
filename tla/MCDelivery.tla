----------------------------- MODULE MCDelivery -----------------------------
EXTENDS Delivery
MCSize == [j \in Jobs |-> 1]
=============================================================================

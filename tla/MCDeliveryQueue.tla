---------------------------- MODULE MCDeliveryQueue ----------------------------
EXTENDS DeliveryQueue

CONSTANTS t1, t2
=============================================================================

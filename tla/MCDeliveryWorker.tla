-------------------------- MODULE MCDeliveryWorker --------------------------
(* Three submissions and two callers: one can wait while the other stops,  *)
(* and a job can be queued behind one that raised.                         *)
EXTENDS DeliveryWorker
=============================================================================

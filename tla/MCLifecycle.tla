---------------------------- MODULE MCLifecycle ----------------------------
(* Lifecycle with listen_max_num negative, zero and positive.              *)
EXTENDS LifecycleContract

AnyNum == -1..1
PositiveNum == {1}
=============================================================================

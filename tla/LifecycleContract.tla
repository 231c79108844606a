------------------------- MODULE LifecycleContract -------------------------
(***************************************************************************)
(* start(), stop() and acceptThreadFunc keep ThreadContract's promises.    *)
(***************************************************************************)
EXTENDS Lifecycle

Life ==
    CASE loop = "none" -> "none"
      [] loop \in {"init", "list"} -> "starting"
      [] loop \in {"check", "wait", "clear"} -> "serving"
      [] loop = "ended" -> IF outcome = "success" THEN "stopped" ELSE "failed"

Contract == INSTANCE ThreadContract WITH life <- Life

(* However start() and stop() interleave with the thread and whatever      *)
(* fails: a thread is launched only when the last one is over, only a      *)
(* thread that is ready sets m_run_flag, and a thread that is not stopped  *)
(* does not return success.                                                *)
KeepsThreadContract == Contract!Spec
=============================================================================

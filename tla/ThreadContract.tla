--------------------------- MODULE ThreadContract ---------------------------
(***************************************************************************)
(* What the epoll thread and the owner of a server agree on: one thread at *)
(* a time, and a flag that says whether it shall go on.  Nothing is said   *)
(* of clients, of the future or of the calls that may fail.                *)
(***************************************************************************)
VARIABLES life,       (* the thread launched last, "none" if there was none *)
          flag        (* the run flag                                       *)

vars == <<life, flag>>

Init == life = "none" /\ flag = FALSE

(* A new thread is launched only when the last one is over.  The flag may  *)
(* still be set, by a thread that has failed.                              *)
Launch ==
    /\ life \in {"none", "stopped", "failed"}
    /\ life' = "starting"
    /\ UNCHANGED flag

(* The flag is set when the preparations are over, by the thread only.     *)
Serve ==
    /\ life = "starting"
    /\ life' = "serving"
    /\ flag' = TRUE

Stop ==
    /\ flag' = FALSE
    /\ UNCHANGED life

(* The thread ends normally only when it was told to, and leaves the flag  *)
(* clear for the next start.                                               *)
Finish ==
    /\ life = "serving" /\ ~flag
    /\ life' = "stopped"
    /\ UNCHANGED flag

(* A thread that fails does not touch the flag.                            *)
Fail ==
    /\ life \in {"starting", "serving"}
    /\ life' = "failed"
    /\ UNCHANGED flag

Next == Launch \/ Serve \/ Stop \/ Finish \/ Fail

Spec == Init /\ [][Next]_vars
=============================================================================

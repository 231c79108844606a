---------------------------- MODULE PeerContract ----------------------------
(***************************************************************************)
(* What TCPServer promises an application about the clients it announces,  *)
(* with no sockets, no epoll and no descriptors: which callbacks a client  *)
(* gets and in which order, and when the server lets go of a client        *)
(* without a word.                                                         *)
(***************************************************************************)
CONSTANTS Conn,       (* the connections                                    *)
          None,       (* no client                                          *)
          Racy        (* do other threads than the server's own read?       *)

VARIABLES up,         (* the server serves                                  *)
          phase,      (* what has become of each connection                 *)
          chosen,     (* the client whose receive callback comes next       *)
          serving     (* the client whose callback the server is in         *)

vars == <<up, phase, chosen, serving>>

Init ==
    /\ up = FALSE
    /\ phase = [c \in Conn |-> "unknown"]
    /\ chosen = None
    /\ serving = None

Begin ==
    /\ ~up
    /\ up' = TRUE
    /\ UNCHANGED <<phase, chosen, serving>>

(* The new-client callback: the first one a client gets.                   *)
Announce(c) ==
    /\ up /\ serving = None /\ chosen = None
    /\ phase[c] = "unknown"
    /\ phase' = [phase EXCEPT ![c] = "announced"]
    /\ serving' = c
    /\ UNCHANGED <<up, chosen>>

(* The server decides whom it calls next: a client that has been announced *)
(* and has not been told of its disconnection, whoever else reads.         *)
Choose(c) ==
    /\ up /\ serving = None /\ chosen = None
    /\ phase[c] = "announced"
    /\ chosen' = c
    /\ UNCHANGED <<up, phase, serving>>

(* The receive callback it has decided on, and no other.  When other       *)
(* threads read too, the client's disconnect callback may have overtaken   *)
(* this one: it is the last the client gets.                               *)
Receive(c) ==
    /\ up /\ chosen = c
    /\ phase[c] = "announced" \/ (Racy /\ phase[c] = "gone")
    /\ chosen' = None
    /\ serving' = c
    /\ UNCHANGED <<up, phase>>

Return ==
    /\ serving # None
    /\ serving' = None
    /\ UNCHANGED <<up, phase, chosen>>

(* The disconnect callback.                                                *)
Disconnect(c) ==
    /\ phase[c] = "announced"
    /\ phase' = [phase EXCEPT ![c] = "gone"]
    /\ UNCHANGED <<up, chosen, serving>>

(* Only when it ends, for whatever reason, does the server leave clients   *)
(* without telling, and never between a choice and its callback.           *)
End ==
    /\ up /\ chosen = None
    /\ up' = FALSE
    /\ serving' = None
    /\ \E left \in SUBSET {c \in Conn : phase[c] \in {"unknown", "announced"}} :
          phase' = [c \in Conn |-> IF c \in left THEN "left" ELSE phase[c]]
    /\ UNCHANGED chosen

Next ==
    \/ Begin \/ Return \/ End
    \/ \E c \in Conn : Announce(c) \/ Choose(c) \/ Receive(c) \/ Disconnect(c)

Spec == Init /\ [][Next]_vars
=============================================================================

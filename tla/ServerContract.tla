--------------------------- MODULE ServerContract ---------------------------
(***************************************************************************)
(* TCPServer keeps the promises of PeerContract.                           *)
(***************************************************************************)
EXTENDS TCPServer

(* The epoll thread is still preparing c for the map.                      *)
InSetup(c) == cur = c /\ pc \in {"config", "add", "insert"}

(* The server still has c: in the map, or in delClient's local variable    *)
(* between its removal and its disconnect callback.                        *)
Held(c) == Mapped(c) \/ \E a \in Actor : victim[a] = c

Phase == [c \in Conn |->
             IF told[c] > 0 THEN "gone"
             ELSE IF fdOf[c] = None \/ InSetup(c) THEN "unknown"
             ELSE IF Held(c) THEN "announced"
             ELSE "left"]

Contract == INSTANCE PeerContract
    WITH up <- Running,
         phase <- Phase,
         chosen <- IF pc = "found" THEN cur ELSE None,
         serving <- IF InCallback THEN cur ELSE None,
         Racy <- Thread # {}

(* A client is announced first, gets receive callbacks while the server    *)
(* has it, and is told of its disconnection; with other threads at work    *)
(* one receive callback, decided on before, may follow.  The server lets   *)
(* go of a client silently only when its epoll thread ends.                *)
KeepsContract == Contract!Spec
=============================================================================

------------------------------- MODULE Stream -------------------------------
(***************************************************************************)
(* One established TCP connection, as Linux offers it to the two programs  *)
(* at its ends.  None of it is under src/; it is modelled from the calls   *)
(* of send, recv, read and close that TCPClient and TCPPeerClient make.    *)
(*                                                                         *)
(* Each end's outgoing stream is kept whole, as the sequence of bytes ever *)
(* written to it, with two offsets: how far it has been delivered to the   *)
(* other end's receive buffer, and how far the program there has read.     *)
(***************************************************************************)
EXTENDS Integers, Sequences

CONSTANT Cap       (* how many bytes a send or a receive buffer holds       *)

ASSUME StreamAssumption == Cap \in Nat \ {0}

VARIABLES wire,    (* the bytes each end has written                        *)
          dlv,     (* how many of them have been delivered                  *)
          rcv,     (* how many of them the other end has read               *)
          closed,  (* has an end closed its socket?                         *)
          err      (* "none"; "reset": a reset arrived and is not reported  *)
                   (* yet; "pipe": the connection is gone, writing to it    *)
                   (* raises SIGPIPE                                        *)

streamVars == <<wire, dlv, rcv, closed, err>>

End == {"client", "server"}
Other(e) == IF e = "client" THEN "server" ELSE "client"

StreamTypeOK ==
    /\ wire \in [End -> Seq(Nat)]
    /\ dlv \in [End -> Nat]
    /\ rcv \in [End -> Nat]
    /\ closed \in [End -> BOOLEAN]
    /\ err \in [End -> {"none", "reset", "pipe"}]
    /\ \A e \in End : rcv[e] <= dlv[e] /\ dlv[e] <= Len(wire[e])

StreamInit ==
    /\ wire = [e \in End |-> <<>>]
    /\ dlv = [e \in End |-> 0]
    /\ rcv = [e \in End |-> 0]
    /\ closed = [e \in End |-> FALSE]
    /\ err = [e \in End |-> "none"]

AtMost(n, m) == IF n < m THEN n ELSE m

(* What an end may read at once, and may write without waiting.            *)
Avail(e) == dlv[Other(e)] - rcv[Other(e)]
Room(e) == Cap - (Len(wire[e]) - dlv[e])

(* The other end has closed, and its FIN has arrived behind all it sent.   *)
FinArrived(e) == closed[Other(e)] /\ dlv[Other(e)] = Len(wire[Other(e)])

(* A read returns 0: nothing is left to read, and either the FIN has       *)
(* arrived or a reset has been reported already.                           *)
EndOfFile(e) ==
    /\ Avail(e) = 0
    /\ err[e] = "pipe" \/ (err[e] = "none" /\ FinArrived(e))

Write(e, bytes) ==
    /\ wire' = [wire EXCEPT ![e] = @ \o bytes]
    /\ UNCHANGED <<dlv, rcv, closed, err>>

Read(e, n) ==
    /\ rcv' = [rcv EXCEPT ![Other(e)] = @ + n]
    /\ UNCHANGED <<wire, dlv, closed, err>>

(* A call of end e fails; a reset is reported once.                        *)
Report(e) ==
    /\ err' = [err EXCEPT ![e] = IF @ = "reset" THEN "pipe" ELSE @]
    /\ UNCHANGED <<wire, dlv, rcv, closed>>

(* Closing a socket with unread data resets the connection.                *)
CloseEnd(e) ==
    /\ closed' = [closed EXCEPT ![e] = TRUE]
    /\ err' = IF Avail(e) > 0 THEN [err EXCEPT ![Other(e)] = "reset"] ELSE err
    /\ UNCHANGED <<wire, dlv, rcv>>

(* The network moves a byte from e to the other end, which answers with a  *)
(* reset when it has closed.  An end that has seen the FIN goes straight   *)
(* to "pipe".                                                              *)
Deliver(e) ==
    /\ err[e] = "none" /\ err[Other(e)] = "none"
    /\ dlv[e] < Len(wire[e])
    /\ IF closed[Other(e)]
       THEN /\ \/ err' = [err EXCEPT ![e] = "reset"]
               \/ FinArrived(e) /\ err' = [err EXCEPT ![e] = "pipe"]
            /\ UNCHANGED dlv
       ELSE /\ dlv[e] - rcv[e] < Cap
            /\ dlv' = [dlv EXCEPT ![e] = @ + 1]
            /\ UNCHANGED err
    /\ UNCHANGED <<wire, rcv, closed>>
=============================================================================

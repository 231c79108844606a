--------------------------- MODULE ReplyContract ---------------------------
(***************************************************************************)
(* What a program may rely on that talks to the echo server of the example *)
(* through TCPClient: with no buffers, no network, no errors and no word   *)
(* on how its bytes travel.  A byte is known by its place among those the  *)
(* program has passed to sendData.                                         *)
(***************************************************************************)
EXTENDS Naturals, Sequences

VARIABLES asked,      (* bytes passed to sendData                           *)
          back,       (* the bytes recvData has returned                    *)
          intact,     (* no sendData, of either end, has been cut short     *)
          ended       (* recvData has met end of file                       *)

vars == <<asked, back, intact, ended>>

Init ==
    /\ asked = 0
    /\ back = <<>>
    /\ intact = TRUE
    /\ ended = FALSE

Ask ==
    /\ asked' \in Nat /\ asked' > asked
    /\ UNCHANGED <<back, intact, ended>>

(* More bytes come back: some of those that were sent, in their order,     *)
(* none of them twice; and every one of them, from the first, as long as   *)
(* no sendData was cut short.  Nothing comes after the end of file.        *)
Answer ==
    /\ ~ended
    /\ Len(back') > Len(back)
    /\ \A i \in 1..Len(back) : back'[i] = back[i]
    /\ \A i \in 1..Len(back') : back'[i] \in 1..asked
    /\ \A i, j \in 1..Len(back') : i < j => back'[i] < back'[j]
    /\ intact => \A i \in 1..Len(back') : back'[i] = i
    /\ UNCHANGED <<asked, intact, ended>>

(* Bytes are lost: for good, since nobody sends them again.                *)
Lose ==
    /\ intact' = FALSE
    /\ UNCHANGED <<asked, back, ended>>

EndOfFile ==
    /\ ended' = TRUE
    /\ UNCHANGED <<asked, back, intact>>

Next == Ask \/ Answer \/ Lose \/ EndOfFile

Spec == Init /\ [][Next]_vars
=============================================================================

---------------------------- MODULE EchoContract ----------------------------
(***************************************************************************)
(* TCPClient, the connection and the example's callback keep the promises  *)
(* of ReplyContract.                                                       *)
(***************************************************************************)
EXTENDS Echo

(* The bytes recvData has returned, out of the server's stream.            *)
Back == SubSeq(wire["server"], 1, rcv["server"])

(* Everything the program has passed to sendData and that is not in work   *)
(* has been written, and so has everything the callback has tried to.      *)
Intact == Len(wire["client"]) = pos - todo /\ "server" \notin short

Contract == INSTANCE ReplyContract
    WITH asked <- pos, back <- Back, intact <- Intact, ended <- eof

(* However reads and sends are cut, by whatever: replies come in order and *)
(* once, the reply is a prefix of what was asked while nothing was cut     *)
(* short, and nothing comes back after the end of file.                    *)
KeepsReplyContract == Contract!Spec
=============================================================================

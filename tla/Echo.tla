-------------------------------- MODULE Echo --------------------------------
(***************************************************************************)
(* A program that talks through JTCP::Client::TCPClient to the echo server *)
(* of src/example/server.cpp: createNew, sendData and recvData of the      *)
(* client in whatever order the program calls them, and the new-client     *)
(* callback of the server, which returns what TCPPeerClient::readData      *)
(* gives it with TCPPeerClient::sendData until one of them fails.          *)
(*                                                                         *)
(* The client's socket blocks, the server's does not.  A byte is known by  *)
(* its place in what the program passes to sendData: 1, 2, 3, ...          *)
(***************************************************************************)
EXTENDS Stream

CONSTANTS Buf,       (* buff_size                                           *)
          MaxBytes,  (* bound: how many bytes the program sends             *)
          Sizes,     (* bound: how many it may pass to one sendData         *)
          Faults     (* what else may fail                                  *)

ASSUME EchoAssumption ==
    /\ Buf \in Nat \ {0}
    /\ MaxBytes \in Nat
    /\ Sizes \subseteq Nat \ {0}
    /\ Faults \subseteq {"socket", "connect", "signal"}

VARIABLES cl,        (* where the program is                                *)
          pos,       (* bytes it has passed to sendData                     *)
          todo,      (* bytes sendData has still to write                   *)
          wrote,     (* has this sendData written any?                      *)
          eof,       (* history: recvData has met end of file               *)
          sv,        (* where the server's callback is                      *)
          chunk,     (* recv_data_size                                      *)
          short      (* history: ends whose sendData has returned success   *)
                     (* with fewer bytes written than it was given          *)

clientVars == <<cl, pos, todo, wrote, eof>>
serverVars == <<sv, chunk>>
vars == <<streamVars, clientVars, serverVars, short>>

ClientState == {"new", "idle", "send", "recv", "gone", "killed"}
ServerState == {"none", "backlog", "read", "send", "quit", "gone", "killed"}

TypeOK ==
    /\ StreamTypeOK
    /\ cl \in ClientState
    /\ pos \in Nat
    /\ todo \in 0..pos
    /\ wrote \in BOOLEAN
    /\ eof \in BOOLEAN
    /\ sv \in ServerState
    /\ chunk \in 0..rcv["client"]
    /\ short \subseteq End
    /\ cl \in {"gone", "killed"} <=> closed["client"]
    /\ sv \in {"gone", "killed"} <=> closed["server"]

Init ==
    /\ StreamInit
    /\ cl = "new"
    /\ pos = 0
    /\ todo = 0
    /\ wrote = FALSE
    /\ eof = FALSE
    /\ sv = "none"
    /\ chunk = 0
    /\ short = {}

-----------------------------------------------------------------------------
(* The client program.                                                     *)

(* connect succeeds when the connection is in the server's backlog.        *)
CreateNew ==
    /\ cl = "new"
    /\ cl' = "idle" /\ sv' = "backlog"
    /\ UNCHANGED <<streamVars, pos, todo, wrote, eof, chunk, short>>

CreateNewFails ==
    /\ cl = "new"
    /\ Faults \cap {"socket", "connect"} # {}
    /\ cl' = "gone" /\ CloseEnd("client")
    /\ UNCHANGED <<pos, todo, wrote, eof, serverVars, short>>

SendData(n) ==
    /\ cl = "idle" /\ pos + n <= MaxBytes
    /\ cl' = "send"
    /\ pos' = pos + n /\ todo' = n /\ wrote' = FALSE
    /\ UNCHANGED <<streamVars, eof, serverVars, short>>

(* send waits for room and returns when it has written everything.         *)
SendWrites ==
    LET n == AtMost(todo, Room("client"))
    IN  /\ cl = "send" /\ err["client"] = "none"
        /\ n > 0
        /\ Write("client", [i \in 1..n |-> pos - todo + i])
        /\ todo' = todo - n /\ wrote' = TRUE
        /\ cl' = IF todo' = 0 THEN "idle" ELSE "send"
        /\ UNCHANGED <<pos, eof, serverVars, short>>

(* send is cut short: it returns what it has written, which is a success,  *)
(* or -1 if that is nothing.  SIGPIPE kills.                               *)
SendStops ==
    /\ cl = "send" /\ todo > 0
    /\ IF wrote
       THEN /\ short' = short \cup {"client"}
            /\ cl' = "idle"
            /\ UNCHANGED streamVars
       ELSE /\ IF err["client"] = "pipe"
               THEN cl' = "killed" /\ CloseEnd("client")
               ELSE cl' = "idle" /\ Report("client")
            /\ UNCHANGED short
    /\ todo' = 0
    /\ UNCHANGED <<pos, wrote, eof, serverVars>>

(* The connection is broken.                                               *)
SendCutShort == err["client"] # "none" /\ SendStops

(* A signal ends the wait for room.                                        *)
SendInterrupted ==
    /\ "signal" \in Faults
    /\ err["client"] = "none" /\ Room("client") = 0
    /\ SendStops

RecvData ==
    /\ cl = "idle"
    /\ cl' = "recv"
    /\ UNCHANGED <<streamVars, pos, todo, wrote, eof, serverVars, short>>

(* recv returns what is there.                                             *)
RecvReads ==
    /\ cl = "recv"
    /\ Avail("client") > 0
    /\ Read("client", AtMost(Avail("client"), Buf))
    /\ cl' = "idle"
    /\ UNCHANGED <<pos, todo, wrote, eof, serverVars, short>>

(* recv returns 0, which recvData takes for a success.                     *)
RecvEndOfFile ==
    /\ cl = "recv"
    /\ EndOfFile("client")
    /\ eof' = TRUE
    /\ cl' = "idle"
    /\ UNCHANGED <<streamVars, pos, todo, wrote, serverVars, short>>

RecvFails ==
    /\ cl = "recv"
    /\ Avail("client") = 0 /\ err["client"] = "reset"
    /\ Report("client")
    /\ cl' = "idle"
    /\ UNCHANGED <<pos, todo, wrote, eof, serverVars, short>>

(* A signal ends the wait for a reply.                                     *)
RecvInterrupted ==
    /\ "signal" \in Faults
    /\ cl = "recv" /\ err["client"] = "none"
    /\ Avail("client") = 0 /\ ~EndOfFile("client")
    /\ cl' = "idle"
    /\ UNCHANGED <<streamVars, pos, todo, wrote, eof, serverVars, short>>

(* Faulty: the destructor of FileDescribe does not close.                  *)
Destroy_KeepsOpen ==
    /\ cl = "idle"
    /\ cl' = "gone"
    /\ UNCHANGED <<streamVars, pos, todo, wrote, eof, serverVars, short>>

(* The last shared_ptr to the client goes.                                 *)
Destroy ==
    /\ cl = "idle"
    /\ cl' = "gone" /\ CloseEnd("client")
    /\ UNCHANGED <<pos, todo, wrote, eof, serverVars, short>>

-----------------------------------------------------------------------------
(* The server's new-client callback.                                       *)

(* Faulty: the accepted socket is left blocking.                           *)
ReadRefused_Blocks ==
    Avail("server") = 0 /\ (EndOfFile("server") \/ err["server"] = "reset")
SendRefused_Blocks == err["server"] = "reset"

(* On a non-blocking socket read and send return instead of waiting: read  *)
(* with EAGAIN, 0 or an error when there is nothing to read, send with     *)
(* EAGAIN when there is no room or an error when there is a reset.         *)
ReadRefused == Avail("server") = 0
SendRefused == Room("server") = 0 \/ err["server"] = "reset"

Accept ==
    /\ sv = "backlog"
    /\ sv' = "read"
    /\ UNCHANGED <<streamVars, clientVars, chunk, short>>

ReadData ==
    /\ sv = "read"
    /\ Avail("server") > 0
    /\ chunk' = AtMost(Avail("server"), Buf)
    /\ Read("server", chunk')
    /\ sv' = "send"
    /\ UNCHANGED <<clientVars, short>>

(* Faulty: only -1 counts as a failure, the callback goes on after a 0.    *)
ReadFails_IgnoresEOF ==
    /\ sv = "read"
    /\ ReadRefused /\ ~EndOfFile("server")
    /\ sv' = "gone" /\ CloseEnd("server")
    /\ UNCHANGED <<clientVars, chunk, short>>

(* EAGAIN, end of file or an error: readData calls delClient, the callback *)
(* returns, and the last shared_ptr to the peer goes.                      *)
ReadFails ==
    /\ sv = "read"
    /\ ReadRefused
    /\ sv' = "gone" /\ CloseEnd("server")
    /\ UNCHANGED <<clientVars, chunk, short>>

(* The first n bytes of the buffer.                                        *)
Buffer(n) == SubSeq(wire["client"], rcv["client"] - chunk + 1,
                                    rcv["client"] - chunk + n)

(* Faulty: buff_size is passed instead of recv_data_size.                  *)
SendBack_WholeBuffer ==
    /\ sv = "send" /\ err["server"] = "none"
    /\ Room("server") > 0
    /\ Write("server", Buffer(chunk) \o [i \in 1..(Buf - chunk) |-> 0])
    /\ sv' = "read"
    /\ UNCHANGED <<clientVars, chunk, short>>

(* Faulty: after a short send the whole buffer is sent again.              *)
SendBack_Again ==
    LET n == AtMost(chunk, Room("server"))
    IN  /\ sv = "send" /\ err["server"] = "none"
        /\ Room("server") > 0
        /\ Write("server", Buffer(n))
        /\ sv' = IF n < chunk THEN "send" ELSE "read"
        /\ UNCHANGED <<clientVars, chunk, short>>

(* send writes what there is room for; nobody looks at how much that is.   *)
SendBack ==
    LET n == AtMost(chunk, Room("server"))
    IN  /\ sv = "send" /\ err["server"] = "none"
        /\ Room("server") > 0
        /\ Write("server", Buffer(n))
        /\ short' = IF n < chunk THEN short \cup {"server"} ELSE short
        /\ sv' = "read"
        /\ UNCHANGED <<clientVars, chunk>>

(* Faulty: the callback goes on after a failed sendData.                   *)
SendBackFails_GoesOn ==
    /\ sv = "send" /\ err["server"] # "pipe"
    /\ SendRefused
    /\ Report("server")
    /\ sv' = "read"
    /\ UNCHANGED <<clientVars, chunk, short>>

(* Faulty: a failed sendData deletes the client, as a failed readData does.*)
SendBackFails_Closes ==
    /\ sv = "send" /\ err["server"] # "pipe"
    /\ SendRefused
    /\ sv' = "gone" /\ CloseEnd("server")
    /\ UNCHANGED <<clientVars, chunk, short>>

(* EAGAIN or a reset: the callback returns, and leaves the client in the   *)
(* map with a receive callback that does nothing.                          *)
SendBackFails ==
    /\ sv = "send" /\ err["server"] # "pipe"
    /\ SendRefused
    /\ Report("server")
    /\ sv' = "quit"
    /\ UNCHANGED <<clientVars, chunk, short>>

(* Nothing blocks or handles SIGPIPE, nor is MSG_NOSIGNAL passed to send.  *)
SendBackKills ==
    /\ sv = "send" /\ err["server"] = "pipe"
    /\ sv' = "killed" /\ CloseEnd("server")
    /\ UNCHANGED <<clientVars, chunk, short>>

-----------------------------------------------------------------------------
(* What the program decides, what its calls do, and what the server does.  *)
ClientCalls ==
    \/ CreateNew \/ CreateNewFails
    \/ \E n \in Sizes : SendData(n)
    \/ RecvData
    \/ Destroy

ClientStep ==
    \/ SendWrites \/ SendCutShort
    \/ RecvReads \/ RecvEndOfFile \/ RecvFails

Signal == SendInterrupted \/ RecvInterrupted

ServerStep ==
    \/ Accept
    \/ ReadData \/ ReadFails
    \/ SendBack \/ SendBackFails \/ SendBackKills

Network == \E e \in End : Deliver(e) /\ UNCHANGED <<clientVars, serverVars, short>>

Next == ClientCalls \/ ClientStep \/ Signal \/ ServerStep \/ Network

Spec == Init /\ [][Next]_vars

(* A call that can go on does, the epoll thread comes to the connection,   *)
(* and the network delivers.  The program may stop calling at any time,    *)
(* and a signal may end a wait but never has to.                           *)
FairSpec ==
    /\ Spec
    /\ WF_vars(ClientStep) /\ WF_vars(ServerStep)
    /\ \A e \in End : WF_vars(Deliver(e) /\ UNCHANGED <<clientVars, serverVars, short>>)

-----------------------------------------------------------------------------
(* Safety.                                                                 *)

(* What comes back was read from the client, is in the order the program   *)
(* sent it, and nothing comes back twice, however sends and reads are cut  *)
(* and whatever short sends drop.                                          *)
EchoInOrder ==
    /\ \A e \in End : \A i, j \in 1..Len(wire[e]) : i < j => wire[e][i] < wire[e][j]
    /\ \A i \in 1..Len(wire["server"]) :
          \E k \in 1..rcv["client"] : wire["server"][i] = wire["client"][k]

(* As long as no sendData of the server is cut short, its stream is a      *)
(* prefix of the client's, and the callback has nothing read and not       *)
(* returned when it reads again.                                           *)
EchoIntact ==
    "server" \notin short =>
        /\ \A i \in 1..Len(wire["server"]) : wire["server"][i] = wire["client"][i]
        /\ sv = "read" => Len(wire["server"]) = rcv["client"]

(* When the program meets end of file and the connection is not broken,    *)
(* every byte the server has read has come back, unless a short send       *)
(* dropped it: closing loses no reply.                                     *)
EofIsComplete ==
    eof /\ err["client"] = "none" /\ "server" \notin short
        => rcv["server"] = rcv["client"]

(* Everyone waiting on everyone: the client in send for room or in recv    *)
(* for a reply, the callback with replies it cannot send, the network with *)
(* full buffers.  While a call of the program waits, one of the three can  *)
(* go on, unless the callback has returned after a failed sendData.        *)
ClientCanGoOn ==
    \/ cl = "send" /\ (Room("client") > 0 \/ err["client"] # "none")
    \/ cl = "recv" /\ (Avail("client") > 0 \/ EndOfFile("client") \/ err["client"] = "reset")

ServerCanGoOn ==
    \/ sv = "backlog"
    \/ sv = "read" /\ (Avail("server") > 0 \/ ReadRefused)
    \/ /\ sv = "send"
       /\ \/ err["server"] = "none" /\ Room("server") > 0
          \/ err["server"] # "pipe" /\ SendRefused
          \/ err["server"] = "pipe"

NetworkCanGoOn ==
    \E e \in End :
        /\ err[e] = "none" /\ err[Other(e)] = "none"
        /\ dlv[e] < Len(wire[e])
        /\ closed[Other(e)] \/ dlv[e] - rcv[e] < Cap

NobodyIsStuck ==
    cl \in {"send", "recv"} /\ sv # "quit" =>
        ClientCanGoOn \/ ServerCanGoOn \/ NetworkCanGoOn

-----------------------------------------------------------------------------
(* Liveness.                                                               *)

(* No sendData or recvData of the program waits for ever, unless the       *)
(* callback has returned after a failed sendData: then nobody reads.       *)
ClientCallsReturn ==
    /\ cl = "send" ~> cl # "send" \/ sv = "quit"
    /\ cl = "recv" ~> cl # "recv" \/ sv = "quit"

(* The server closes its end once the client has closed, with the same     *)
(* exception: a peer the callback left in the map stays open for ever.     *)
PeerReleased ==
    closed["client"] /\ sv # "none" ~> closed["server"] \/ sv = "quit"

-----------------------------------------------------------------------------
(* A statement of the code that the code does not keep.                    *)

(* sendData reports a broken connection to its caller as a failure, and    *)
(* the example's callback handles that: the server goes on.                *)
ServerSurvives == sv # "killed"
=============================================================================

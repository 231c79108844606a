----------------------------- MODULE EchoProofs -----------------------------
(***************************************************************************)
(* Proofs about the bytes an echo connection returns, for every size of    *)
(* the buffers, every number of bytes and every choice of failures.        *)
(***************************************************************************)
EXTENDS Echo, SequenceTheorems, TLAPS

(* How much of what it has read the callback has also handed to sendData.  *)
Base == rcv["client"] - (IF sv \in {"send", "quit", "killed"} THEN chunk ELSE 0)

(* The program's bytes are numbered in the order of its calls.             *)
Sent ==
    /\ \A i \in 1..Len(wire["client"]) :
          0 < wire["client"][i] /\ wire["client"][i] <= pos - todo
    /\ \A i, j \in 1..Len(wire["client"]) :
          i < j => wire["client"][i] < wire["client"][j]

(* What has come back lies before what has not been handed to sendData.    *)
Returned ==
    /\ \A i \in 1..Len(wire["server"]) :
          0 < wire["server"][i] /\ wire["server"][i] <= pos - todo
    /\ \A i, j \in 1..Len(wire["server"]) :
          i < j => wire["server"][i] < wire["server"][j]
    /\ \A i \in 1..Len(wire["server"]), j \in 1..Len(wire["client"]) :
          j > Base => wire["server"][i] < wire["client"][j]

(* Without a short send all of it has come back.                           *)
Complete ==
    "server" \notin short =>
        /\ Len(wire["server"]) = Base
        /\ \A i \in 1..Len(wire["server"]) : wire["server"][i] = wire["client"][i]

(* Only a client that has left breaks the server's end.                    *)
Breaks ==
    /\ err["server"] # "none" => closed["client"]
    /\ sv = "killed" => err["server"] = "pipe"

(* End of file on a sound connection: the server has gone, all is read.    *)
AtEnd ==
    eof /\ err["client"] = "none" =>
        sv = "gone" /\ rcv["server"] = Len(wire["server"])

NotYet == cl = "new" => sv = "none"

-----------------------------------------------------------------------------
(* The block of bytes a send of the program writes.                        *)
LEMMA ProgramBlock ==
    ASSUME NEW k \in Nat, NEW n \in Nat
    PROVE  /\ [i \in 1..n |-> k + i] \in Seq(Nat)
           /\ Len([i \in 1..n |-> k + i]) = n
           /\ \A i \in 1..n : [j \in 1..n |-> k + j][i] = k + i
<1>1. [i \in 1..n |-> k + i] \in [1..n -> Nat]
  OBVIOUS
<1>2. [i \in 1..n |-> k + i] \in Seq(Nat)
  BY <1>1, SeqDef
<1>3. DOMAIN [i \in 1..n |-> k + i] = 1..Len([i \in 1..n |-> k + i])
      /\ Len([i \in 1..n |-> k + i]) \in Nat
  BY <1>2, LenProperties
<1>4. DOMAIN [i \in 1..n |-> k + i] = 1..n
  OBVIOUS
<1> QED
  BY <1>2, <1>3, <1>4

(* The buffer holds the last chunk bytes that were read.                   *)
LEMMA BufferBlock ==
    ASSUME TypeOK, NEW n \in 0..chunk
    PROVE  /\ Buffer(n) \in Seq(Nat)
           /\ Len(Buffer(n)) = n
           /\ \A i \in 1..n : Buffer(n)[i] = wire["client"][rcv["client"] - chunk + i]
<1> DEFINE m == rcv["client"] - chunk + 1
           k == rcv["client"] - chunk + n
<1>1. /\ wire["client"] \in Seq(Nat) /\ rcv["client"] \in Nat /\ dlv["client"] \in Nat
      /\ rcv["client"] <= dlv["client"] /\ dlv["client"] <= Len(wire["client"])
      /\ chunk \in 0..rcv["client"]
  BY DEF TypeOK, StreamTypeOK, End
<1>2. m \in Int /\ k \in Int /\ n \in Nat /\ k <= rcv["client"] /\ m >= 1 /\ k - m + 1 = n
  BY <1>1
<1>3. Len(wire["client"]) \in Nat /\ \A i \in m..k : wire["client"][i] \in Nat
  <2>1. Len(wire["client"]) \in Nat
    BY <1>1, LenProperties
  <2>2. m \in Int /\ k \in Int /\ 1 <= m /\ k <= Len(wire["client"])
    <3>1. rcv["client"] \in Nat /\ dlv["client"] \in Nat
          /\ rcv["client"] <= dlv["client"] /\ dlv["client"] <= Len(wire["client"])
      BY <1>1
    <3> HIDE DEF m, k
    <3> QED
      BY <1>2, <2>1, <3>1
  <2>3. \A i \in m..k : i \in 1..Len(wire["client"])
    <3> HIDE DEF m, k
    <3> QED
      BY <2>1, <2>2
  <2> QED
    BY <1>1, <2>1, <2>3, ElementOfSeq
<1>4. /\ SubSeq(wire["client"], m, k) \in Seq(Nat)
      /\ Len(SubSeq(wire["client"], m, k)) = IF m <= k THEN k - m + 1 ELSE 0
      /\ \A i \in 1..(k - m + 1) : SubSeq(wire["client"], m, k)[i] = wire["client"][m + i - 1]
  <2> HIDE DEF m, k
  <2> QED
    BY <1>2, <1>3, SubSeqProperties
<1>5. (IF m <= k THEN k - m + 1 ELSE 0) = n
  BY <1>2
<1>6. \A i \in 1..n : m + i - 1 = rcv["client"] - chunk + i
  BY <1>1
<1> QED
  BY <1>2, <1>4, <1>5, <1>6 DEF Buffer

(* Either end's streams and offsets, one at a time.                        *)
LEMMA Ends ==
    ASSUME StreamTypeOK
    PROVE  /\ wire["client"] \in Seq(Nat) /\ wire["server"] \in Seq(Nat)
           /\ Len(wire["client"]) \in Nat /\ Len(wire["server"]) \in Nat
           /\ DOMAIN wire = End /\ DOMAIN rcv = End /\ DOMAIN dlv = End
           /\ rcv["client"] \in Nat /\ rcv["server"] \in Nat
           /\ dlv["client"] \in Nat /\ dlv["server"] \in Nat
           /\ rcv["client"] <= dlv["client"] /\ dlv["client"] <= Len(wire["client"])
           /\ rcv["server"] <= dlv["server"] /\ dlv["server"] <= Len(wire["server"])
  BY LenProperties DEF StreamTypeOK, End

-----------------------------------------------------------------------------
(* The operations of the connection keep its types.                        *)
LEMMA WriteTypes ==
    ASSUME StreamTypeOK, NEW e \in End, NEW b \in Seq(Nat), Write(e, b)
    PROVE  /\ StreamTypeOK'
           /\ wire' = [wire EXCEPT ![e] = wire[e] \o b]
           /\ Len(wire[e] \o b) = Len(wire[e]) + Len(b)
           /\ \A i \in 1..Len(wire[e]) + Len(b) :
                 (wire[e] \o b)[i] = IF i <= Len(wire[e]) THEN wire[e][i]
                                     ELSE b[i - Len(wire[e])]
<1>1. wire' = [wire EXCEPT ![e] = wire[e] \o b] /\ UNCHANGED <<dlv, rcv, closed, err>>
  BY DEF Write
<1>2. wire[e] \in Seq(Nat) /\ Len(wire[e]) \in Nat /\ Len(b) \in Nat
  BY LenProperties DEF StreamTypeOK
<1>3. /\ wire[e] \o b \in Seq(Nat)
      /\ Len(wire[e] \o b) = Len(wire[e]) + Len(b)
      /\ \A i \in 1..Len(wire[e]) + Len(b) :
            (wire[e] \o b)[i] = IF i <= Len(wire[e]) THEN wire[e][i]
                                ELSE b[i - Len(wire[e])]
  BY <1>2, ConcatProperties
<1>4. wire' \in [End -> Seq(Nat)]
  BY <1>1, <1>3 DEF StreamTypeOK
<1>5. \A d \in End : Len(wire[d]) <= Len(wire'[d])
  <2> TAKE d \in End
  <2>1. wire[d] \in Seq(Nat) /\ Len(wire[d]) \in Nat
    BY LenProperties DEF StreamTypeOK
  <2>2. wire'[d] = IF d = e THEN wire[e] \o b ELSE wire[d]
    BY <1>1 DEF StreamTypeOK
  <2>3. CASE d = e
    BY <1>2, <1>3, <2>2, <2>3
  <2>4. CASE d # e
    BY <2>1, <2>2, <2>4
  <2> QED
    BY <2>3, <2>4
<1>6. \A d \in End : rcv[d] <= dlv[d] /\ dlv[d] <= Len(wire'[d])
  <2> TAKE d \in End
  <2>1. /\ Len(wire[d]) \in Nat /\ Len(wire'[d]) \in Nat
        /\ rcv[d] \in Nat /\ dlv[d] \in Nat
    BY <1>4, LenProperties DEF StreamTypeOK
  <2> QED
    BY <1>5, <2>1 DEF StreamTypeOK
<1>7. StreamTypeOK'
  BY <1>1, <1>4, <1>6 DEF StreamTypeOK
<1> QED
  BY <1>1, <1>3, <1>7

LEMMA ReadTypes ==
    ASSUME StreamTypeOK, NEW e \in End, NEW n \in Nat, n <= Avail(e), Read(e, n)
    PROVE  StreamTypeOK' /\ rcv' = [rcv EXCEPT ![Other(e)] = rcv[Other(e)] + n]
<1>1. rcv' = [rcv EXCEPT ![Other(e)] = rcv[Other(e)] + n]
      /\ UNCHANGED <<wire, dlv, closed, err>>
  BY DEF Read
<1>2. Other(e) \in End /\ rcv[Other(e)] \in Nat /\ dlv[Other(e)] \in Nat
      /\ n <= dlv[Other(e)] - rcv[Other(e)]
  BY DEF StreamTypeOK, Other, End, Avail
<1>3. rcv' \in [End -> Nat] /\ rcv'[Other(e)] <= dlv[Other(e)]
  BY <1>1, <1>2 DEF StreamTypeOK
<1>4. \A d \in End : rcv'[d] <= dlv[d]
  BY <1>1, <1>3 DEF StreamTypeOK
<1> QED
  BY <1>1, <1>3, <1>4 DEF StreamTypeOK

LEMMA ReportTypes ==
    ASSUME StreamTypeOK, NEW e \in End, Report(e)
    PROVE  StreamTypeOK'
  BY DEF StreamTypeOK, Report

LEMMA CloseTypes ==
    ASSUME StreamTypeOK, NEW e \in End, CloseEnd(e)
    PROVE  StreamTypeOK' /\ closed' = [closed EXCEPT ![e] = TRUE]
<1>1. /\ closed' = [closed EXCEPT ![e] = TRUE] /\ UNCHANGED <<wire, dlv, rcv>>
      /\ err' \in {err, [err EXCEPT ![Other(e)] = "reset"]}
  BY DEF CloseEnd
<1>2. err' \in [End -> {"none", "reset", "pipe"}]
  BY <1>1 DEF StreamTypeOK
<1>3. closed' \in [End -> BOOLEAN]
  BY <1>1 DEF StreamTypeOK
<1> QED
  BY <1>1, <1>2, <1>3 DEF StreamTypeOK

LEMMA DeliverTypes ==
    ASSUME StreamTypeOK, NEW e \in End, Deliver(e)
    PROVE  StreamTypeOK'
<1>1. /\ UNCHANGED <<wire, rcv, closed>>
      /\ dlv' \in {dlv, [dlv EXCEPT ![e] = dlv[e] + 1]}
      /\ \E x \in {"reset", "pipe"} : err' \in {err, [err EXCEPT ![e] = x]}
  BY DEF Deliver
<1>2. dlv[e] \in Nat /\ Len(wire[e]) \in Nat /\ dlv[e] + 1 <= Len(wire[e])
  BY LenProperties DEF StreamTypeOK, Deliver
<1>3. err' \in [End -> {"none", "reset", "pipe"}]
  BY <1>1 DEF StreamTypeOK
<1>4. dlv' \in [End -> Nat]
  BY <1>1, <1>2 DEF StreamTypeOK
<1>5. \A d \in End : rcv[d] <= dlv'[d] /\ dlv'[d] <= Len(wire[d])
  <2> TAKE d \in End
  <2>1. rcv[d] \in Nat /\ dlv[d] \in Nat /\ rcv[d] <= dlv[d] /\ dlv[d] <= Len(wire[d])
    BY DEF StreamTypeOK
  <2>2. dlv'[d] = dlv[d] \/ (d = e /\ dlv'[d] = dlv[d] + 1)
    BY <1>1 DEF StreamTypeOK
  <2> QED
    BY <1>2, <2>1, <2>2
<1> QED
  BY <1>1, <1>3, <1>4, <1>5 DEF StreamTypeOK

-----------------------------------------------------------------------------
(* Types.                                                                  *)
TInv == TypeOK /\ NotYet

(* The calls of the program, and its steps that write nothing.             *)
LEMMA ClientTypes ==
    ASSUME TInv,
           \/ ClientCalls \/ SendCutShort \/ RecvReads \/ RecvEndOfFile
           \/ RecvFails \/ Signal
    PROVE  TInv'
<1> USE DEF TInv, TypeOK, NotYet, ClientState, ServerState
<1>1. CASE CreateNew \/ RecvData \/ RecvEndOfFile
  BY <1>1 DEF CreateNew, RecvData, RecvEndOfFile, streamVars, StreamTypeOK, serverVars
<1>2. CASE \E n \in Sizes : SendData(n)
  <2>1. PICK n \in Sizes : SendData(n)
    BY <1>2
  <2>2. n \in Nat /\ pos' = pos + n /\ todo' = n
    BY <2>1, EchoAssumption DEF SendData
  <2>3. pos' \in Nat /\ todo' \in 0..pos'
    BY <2>2
  <2>4. wrote' \in BOOLEAN
    BY <2>1 DEF SendData
  <2> QED
    BY <2>1, <2>3, <2>4 DEF SendData, streamVars, StreamTypeOK, serverVars
<1>3. CASE CreateNewFails \/ Destroy
  <2>1. CloseEnd("client") /\ cl' = "gone"
        /\ UNCHANGED <<pos, todo, wrote, eof, serverVars, short>>
    BY <1>3 DEF CreateNewFails, Destroy
  <2>2. StreamTypeOK' /\ closed' = [closed EXCEPT !["client"] = TRUE] /\ rcv' = rcv
    BY <2>1, CloseTypes DEF End, CloseEnd
  <2> QED
    BY <2>1, <2>2 DEF serverVars, StreamTypeOK, End
<1>4. CASE SendCutShort \/ SendInterrupted
  <2>1. /\ todo' = 0 /\ UNCHANGED <<pos, wrote, eof, serverVars>>
        /\ short' \in {short, short \cup {"client"}}
        /\ \/ cl' = "idle" /\ UNCHANGED streamVars
           \/ cl' = "killed" /\ CloseEnd("client")
           \/ cl' = "idle" /\ Report("client")
        /\ cl = "send"
    BY <1>4 DEF SendCutShort, SendInterrupted, SendStops
  <2>2. /\ StreamTypeOK' /\ rcv' = rcv
        /\ closed' = IF cl' = "killed" THEN [closed EXCEPT !["client"] = TRUE] ELSE closed
    BY <2>1, CloseTypes, ReportTypes DEF End, CloseEnd, Report, streamVars, StreamTypeOK
  <2>3. todo' \in 0..pos' /\ short' \subseteq End /\ cl' \in {"idle", "killed"}
    BY <2>1 DEF End
  <2> QED
    BY <2>1, <2>2, <2>3 DEF serverVars, StreamTypeOK, End
<1>5. CASE RecvReads
  <2>1. Avail("client") \in Nat /\ AtMost(Avail("client"), Buf) \in Nat
        /\ AtMost(Avail("client"), Buf) <= Avail("client")
    <3>1. Avail("client") = dlv["server"] - rcv["server"]
      BY DEF Avail, Other
    <3>2. Avail("client") \in Int /\ Avail("client") > 0
      BY <1>5, <3>1, Ends DEF RecvReads
    <3> QED
      BY <3>2, EchoAssumption DEF AtMost
  <2>2. StreamTypeOK' /\ rcv' = [rcv EXCEPT !["server"] = @ + AtMost(Avail("client"), Buf)]
    BY <1>5, <2>1, ReadTypes DEF RecvReads, End, Other
  <2>3. rcv'["client"] = rcv["client"]
    BY <2>2, Ends
  <2> QED
    BY <1>5, <2>2, <2>3 DEF RecvReads, Read, serverVars
<1>6. CASE RecvFails \/ RecvInterrupted
  <2>1. StreamTypeOK'
    BY <1>6, ReportTypes
    DEF RecvFails, RecvInterrupted, End, streamVars, StreamTypeOK
  <2> QED
    BY <1>6, <2>1 DEF RecvFails, RecvInterrupted, Report, serverVars, streamVars
<1> QED
  BY <1>1, <1>2, <1>3, <1>4, <1>5, <1>6 DEF ClientCalls, Signal

(* What a send of the program, and one of the callback, adds to its stream. *)
LEMMA SendWritesAdds ==
    ASSUME TypeOK, SendWrites
    PROVE  \E n \in 1..todo :
              /\ StreamTypeOK'
              /\ UNCHANGED <<dlv, rcv, closed, err>>
              /\ wire'["server"] = wire["server"]
              /\ Len(wire'["client"]) = Len(wire["client"]) + n
              /\ \A i \in 1..Len(wire["client"]) : wire'["client"][i] = wire["client"][i]
              /\ \A i \in (Len(wire["client"]) + 1)..(Len(wire["client"]) + n) :
                    wire'["client"][i] = pos - todo + (i - Len(wire["client"]))
              /\ todo' = todo - n
<1> DEFINE n == AtMost(todo, Room("client"))
           b == [i \in 1..n |-> (pos - todo) + i]
<1>1. /\ n > 0 /\ todo' = todo - n
      /\ Write("client", [i \in 1..n |-> pos - todo + i])
  BY DEF SendWrites
<1>2. StreamTypeOK /\ pos \in Nat /\ todo \in 0..pos
  BY DEF TypeOK
<1>3. Room("client") \in Int
  BY <1>2, Ends, StreamAssumption DEF Room
<1>4. n \in 1..todo
  BY <1>1, <1>2, <1>3 DEF AtMost
<1> HIDE DEF n
<1>5. pos - todo \in Nat /\ n \in Nat
  BY <1>2, <1>4
<1>6. /\ b \in Seq(Nat) /\ Len(b) = n
      /\ \A i \in 1..n : b[i] = pos - todo + i
  BY <1>5, ProgramBlock
<1>7. Write("client", b)
  BY <1>1
<1> HIDE DEF b
<1>8. /\ StreamTypeOK'
      /\ wire' = [wire EXCEPT !["client"] = wire["client"] \o b]
      /\ Len(wire["client"] \o b) = Len(wire["client"]) + n
      /\ \A i \in 1..Len(wire["client"]) + n :
            (wire["client"] \o b)[i] = IF i <= Len(wire["client"]) THEN wire["client"][i]
                                       ELSE b[i - Len(wire["client"])]
  BY <1>2, <1>6, <1>7, WriteTypes DEF End
<1>9. wire'["client"] = wire["client"] \o b /\ wire'["server"] = wire["server"]
  BY <1>2, <1>8, Ends DEF End
<1>10. Len(wire["client"]) \in Nat
  BY <1>2, Ends
<1>11. \A i \in 1..Len(wire["client"]) : wire'["client"][i] = wire["client"][i]
  BY <1>5, <1>8, <1>9, <1>10
<1>12. \A i \in (Len(wire["client"]) + 1)..(Len(wire["client"]) + n) :
          wire'["client"][i] = pos - todo + (i - Len(wire["client"]))
  <2> TAKE i \in (Len(wire["client"]) + 1)..(Len(wire["client"]) + n)
  <2>1. /\ i - Len(wire["client"]) \in 1..n
        /\ i \in 1..Len(wire["client"]) + n
        /\ ~(i <= Len(wire["client"]))
    BY <1>5, <1>10
  <2>2. wire'["client"][i] = b[i - Len(wire["client"])]
    BY <1>8, <1>9, <2>1
  <2> QED
    BY <1>6, <2>1, <2>2
<1>13. UNCHANGED <<dlv, rcv, closed, err>>
  BY <1>7 DEF Write
<1> QED
  BY <1>1, <1>4, <1>8, <1>9, <1>11, <1>12, <1>13

LEMMA SendBackAdds ==
    ASSUME TypeOK, SendBack
    PROVE  \E n \in 0..chunk :
              /\ StreamTypeOK'
              /\ UNCHANGED <<dlv, rcv, closed, err>>
              /\ wire'["client"] = wire["client"]
              /\ Len(wire'["server"]) = Len(wire["server"]) + n
              /\ \A i \in 1..Len(wire["server"]) : wire'["server"][i] = wire["server"][i]
              /\ \A i \in (Len(wire["server"]) + 1)..(Len(wire["server"]) + n) :
                    wire'["server"][i] =
                    wire["client"][rcv["client"] - chunk + (i - Len(wire["server"]))]
              /\ n = chunk \/ "server" \in short'
              /\ n <= Room("server")
<1> DEFINE n == AtMost(chunk, Room("server"))
           b == Buffer(n)
<1>1. /\ Write("server", b)
      /\ short' = IF n < chunk THEN short \cup {"server"} ELSE short
      /\ Room("server") > 0
  BY DEF SendBack
<1>2. StreamTypeOK /\ chunk \in 0..rcv["client"]
  BY DEF TypeOK
<1>3. Room("server") \in Int /\ rcv["client"] \in Nat
  BY <1>2, Ends, StreamAssumption DEF Room
<1>4. n \in 0..chunk
  BY <1>1, <1>2, <1>3 DEF AtMost
<1>14. n <= Room("server")
  BY <1>2, <1>3 DEF AtMost
<1> HIDE DEF n
<1>5. n \in Nat /\ chunk \in Nat
  BY <1>2, <1>3, <1>4
<1>6. /\ b \in Seq(Nat) /\ Len(b) = n
      /\ \A i \in 1..n : b[i] = wire["client"][rcv["client"] - chunk + i]
  BY <1>4, BufferBlock
<1> HIDE DEF b
<1>7. /\ StreamTypeOK'
      /\ wire' = [wire EXCEPT !["server"] = wire["server"] \o b]
      /\ Len(wire["server"] \o b) = Len(wire["server"]) + n
      /\ \A i \in 1..Len(wire["server"]) + n :
            (wire["server"] \o b)[i] = IF i <= Len(wire["server"]) THEN wire["server"][i]
                                       ELSE b[i - Len(wire["server"])]
  BY <1>1, <1>2, <1>6, WriteTypes DEF End
<1>8. wire'["server"] = wire["server"] \o b /\ wire'["client"] = wire["client"]
  BY <1>2, <1>7, Ends DEF End
<1>9. Len(wire["server"]) \in Nat
  BY <1>2, Ends
<1>10. \A i \in 1..Len(wire["server"]) : wire'["server"][i] = wire["server"][i]
  BY <1>5, <1>7, <1>8, <1>9
<1>11. \A i \in (Len(wire["server"]) + 1)..(Len(wire["server"]) + n) :
          wire'["server"][i] =
          wire["client"][rcv["client"] - chunk + (i - Len(wire["server"]))]
  <2> TAKE i \in (Len(wire["server"]) + 1)..(Len(wire["server"]) + n)
  <2>1. /\ i - Len(wire["server"]) \in 1..n
        /\ i \in 1..Len(wire["server"]) + n
        /\ ~(i <= Len(wire["server"]))
    BY <1>5, <1>9
  <2>2. wire'["server"][i] = b[i - Len(wire["server"])]
    BY <1>7, <1>8, <2>1
  <2> QED
    BY <1>6, <2>1, <2>2
<1>12. n = chunk \/ "server" \in short'
  <2>1. CASE n < chunk
    BY <1>1, <2>1
  <2>2. CASE ~(n < chunk)
    BY <1>4, <1>5, <2>2
  <2> QED
    BY <2>1, <2>2
<1>13. UNCHANGED <<dlv, rcv, closed, err>>
  BY <1>1 DEF Write
<1> QED
  BY <1>4, <1>7, <1>8, <1>10, <1>11, <1>12, <1>13, <1>14

(* The steps that write, those of the server and those of the network.     *)
LEMMA OtherTypes ==
    ASSUME TInv, SendWrites \/ ServerStep \/ Network
    PROVE  TInv'
<1> USE DEF TInv, TypeOK, NotYet, ClientState, ServerState
<1>1. CASE SendWrites
  <2>1. PICK n \in 1..todo : StreamTypeOK' /\ UNCHANGED <<rcv, closed>> /\ todo' = todo - n
    BY <1>1, SendWritesAdds
  <2>2. todo' \in 0..pos
    BY <2>1
  <2>3. /\ UNCHANGED <<pos, eof, serverVars, short>>
        /\ wrote' = TRUE /\ cl' \in {"idle", "send"} /\ cl = "send"
    BY <1>1 DEF SendWrites
  <2> QED
    BY <2>1, <2>2, <2>3 DEF serverVars
<1>2. CASE SendBack
  <2>1. StreamTypeOK' /\ UNCHANGED <<rcv, closed>>
    BY <1>2, SendBackAdds
  <2>2. short' \subseteq End
    <3>1. short' \in {short, short \cup {"server"}}
      BY <1>2 DEF SendBack
    <3> QED
      BY <3>1 DEF End
  <2> QED
    BY <1>2, <2>1, <2>2 DEF SendBack, clientVars
<1>3. CASE Accept
  BY <1>3 DEF Accept, streamVars, clientVars, StreamTypeOK
<1>4. CASE ReadData
  <2>1. Avail("server") = dlv["client"] - rcv["client"]
    BY DEF Avail, Other
  <2>2. Avail("server") \in Int /\ Avail("server") > 0
    BY <1>4, <2>1, Ends DEF ReadData
  <2>3. chunk' \in Nat /\ chunk' <= Avail("server")
    BY <1>4, <2>2, EchoAssumption DEF ReadData, AtMost
  <2>4. Read("server", chunk')
    BY <1>4 DEF ReadData
  <2>5. StreamTypeOK' /\ rcv' = [rcv EXCEPT !["client"] = rcv["client"] + chunk']
    <3> DEFINE n == chunk'
    <3>1. n \in Nat /\ n <= Avail("server") /\ Read("server", n)
      BY <2>3, <2>4
    <3> HIDE DEF n
    <3>2. StreamTypeOK' /\ rcv' = [rcv EXCEPT !["client"] = rcv["client"] + n]
      BY <3>1, ReadTypes DEF End, Other
    <3> QED
      BY <3>2 DEF n
  <2>6. chunk' \in 0..rcv'["client"]
    BY <2>3, <2>5, Ends DEF End
  <2>7. UNCHANGED closed /\ sv = "read" /\ sv' = "send" /\ UNCHANGED <<clientVars, short>>
    BY <1>4 DEF ReadData, Read
  <2> QED
    BY <2>5, <2>6, <2>7 DEF clientVars
<1>5. CASE ReadFails \/ SendBackKills
  <2>1. /\ CloseEnd("server") /\ sv' \in {"gone", "killed"} /\ sv \in {"read", "send"}
        /\ UNCHANGED <<clientVars, chunk, short>>
    BY <1>5 DEF ReadFails, SendBackKills
  <2>2. StreamTypeOK' /\ closed' = [closed EXCEPT !["server"] = TRUE] /\ rcv' = rcv
    BY <2>1, CloseTypes DEF End, CloseEnd
  <2> QED
    BY <2>1, <2>2 DEF clientVars, StreamTypeOK, End
<1>6. CASE SendBackFails
  <2>1. StreamTypeOK' /\ UNCHANGED <<rcv, closed>>
    BY <1>6, ReportTypes DEF SendBackFails, End, Report
  <2> QED
    BY <1>6, <2>1 DEF SendBackFails, clientVars
<1>7. CASE Network
  <2>1. PICK e \in End : Deliver(e) /\ UNCHANGED <<clientVars, serverVars, short>>
    BY <1>7 DEF Network
  <2>2. StreamTypeOK' /\ UNCHANGED <<rcv, closed>>
    BY <2>1, DeliverTypes DEF Deliver
  <2> QED
    BY <2>1, <2>2 DEF clientVars, serverVars
<1> QED
  BY <1>1, <1>2, <1>3, <1>4, <1>5, <1>6, <1>7 DEF ServerStep

LEMMA TypesStep ==
    ASSUME TInv, [Next]_vars
    PROVE  TInv'
<1>1. CASE UNCHANGED vars
  BY <1>1 DEF vars, streamVars, clientVars, serverVars, TInv, TypeOK, StreamTypeOK, NotYet
<1> QED
  BY <1>1, ClientTypes, OtherTypes DEF Next, ClientStep, Signal

LEMMA InitTypes == ASSUME Init PROVE TInv
<1>1. <<>> \in Seq(Nat) /\ Len(<<>>) = 0
  BY EmptySeq
<1>2. StreamTypeOK
  BY <1>1 DEF Init, StreamInit, StreamTypeOK, End
<1>3. rcv["client"] = 0 /\ closed["client"] = FALSE /\ closed["server"] = FALSE
  BY DEF Init, StreamInit, End
<1>4. cl \in ClientState /\ sv \in ServerState
  BY DEF Init, ClientState, ServerState
<1>5. wrote \in BOOLEAN /\ eof \in BOOLEAN /\ short \subseteq End
  BY DEF Init
<1>6. pos \in Nat /\ todo \in 0..pos /\ chunk \in 0..rcv["client"]
  BY <1>3 DEF Init
<1>7. /\ cl \in {"gone", "killed"} <=> closed["client"]
      /\ sv \in {"gone", "killed"} <=> closed["server"]
      /\ NotYet
  BY <1>3 DEF Init, NotYet
<1> QED
  BY <1>2, <1>4, <1>5, <1>6, <1>7 DEF TInv, TypeOK

(* Every variable of the two programs and of the connection is of its      *)
(* type, and an end is closed exactly when its program has gone.           *)
THEOREM EchoTypes == Spec => []TypeOK
<1>1. Init => TInv
  BY InitTypes
<1>2. TInv => TypeOK
  BY DEF TInv
<1> QED
  BY <1>1, <1>2, TypesStep, PTL DEF Spec

-----------------------------------------------------------------------------
(* How the base and the numbers of the program's bytes move.               *)

LEMMA WireMoves ==
    ASSUME [Next]_vars
    PROVE  wire' = wire \/ SendWrites \/ SendBack
  BY DEF Next, vars, streamVars, ClientCalls, ClientStep, Signal, ServerStep,
     Network, CreateNew, CreateNewFails, SendData, RecvData, Destroy,
     SendCutShort, SendInterrupted, SendStops, RecvReads, RecvEndOfFile,
     RecvFails, RecvInterrupted, Accept, ReadData, ReadFails, SendBackFails,
     SendBackKills, Deliver, CloseEnd, Report, Read

LEMMA NumbersMove ==
    ASSUME TInv, [Next]_vars
    PROVE  pos - todo \in Nat /\ pos' - todo' \in Nat /\ pos - todo <= pos' - todo'
<1>1. TypeOK /\ TypeOK'
  BY TypesStep DEF TInv
<1>2. pos \in Nat /\ pos' \in Nat /\ todo \in 0..pos /\ todo' \in 0..pos'
  BY <1>1 DEF TypeOK
<1>3. \/ pos' = pos /\ todo' = todo
      \/ pos' = pos /\ todo' = 0
      \/ pos' = pos + todo'
      \/ \E n \in 1..todo : pos' = pos /\ todo' = todo - n
  <2>1. CASE SendWrites
    BY <1>1, <2>1, SendWritesAdds DEF SendWrites
  <2>2. CASE ~SendWrites
    BY <2>2 DEF Next, vars, clientVars, ClientCalls, ClientStep, Signal,
       ServerStep, Network, CreateNew, CreateNewFails, SendData, RecvData,
       Destroy, SendCutShort, SendInterrupted, SendStops, RecvReads,
       RecvEndOfFile, RecvFails, RecvInterrupted, Accept, ReadData, ReadFails,
       SendBack, SendBackFails, SendBackKills
  <2> QED
    BY <2>1, <2>2
<1>4. pos - todo \in Nat /\ pos' - todo' \in Nat
  <2>1. \A p, t : p \in Nat /\ t \in 0..p => p - t \in Nat
    OBVIOUS
  <2> QED
    BY <1>2, <2>1
<1>5. pos - todo <= pos' - todo'
  <2>1. \A p, q, t, u : p \in Nat /\ q \in Nat /\ t \in 0..p /\ u \in 0..q =>
           /\ q = p /\ (u = t \/ u = 0) => p - t <= q - u
           /\ q = p + u => p - t <= q - u
           /\ \A n \in 1..t : q = p /\ u = t - n => p - t <= q - u
    OBVIOUS
  <2> QED
    BY <1>2, <1>3, <2>1
<1> QED
  BY <1>4, <1>5

LEMMA BaseMoves ==
    ASSUME TInv, [Next]_vars
    PROVE  /\ Base \in 0..rcv["client"] /\ Base \in Nat /\ rcv["client"] \in Nat
           /\ IF SendBack THEN Base = rcv["client"] - chunk /\ Base' = rcv["client"]
                          ELSE Base' = Base
<1>1. TypeOK /\ StreamTypeOK
  BY DEF TInv, TypeOK
<1>2. chunk \in 0..rcv["client"] /\ rcv["client"] \in Nat /\ DOMAIN rcv = End
  BY <1>1, Ends DEF TypeOK
<1>3. CASE SendBack
  <2>1. rcv' = rcv /\ sv = "send" /\ sv' = "read"
    BY <1>3 DEF SendBack, Write
  <2> QED
    BY <1>2, <1>3, <2>1 DEF Base
<1>4. CASE ReadData
  <2>1. /\ rcv' = [rcv EXCEPT !["client"] = rcv["client"] + chunk']
        /\ sv = "read" /\ sv' = "send"
    BY <1>4 DEF ReadData, Read, Other
  <2>2. rcv'["client"] = rcv["client"] + chunk' /\ chunk' \in Nat
    <3>1. TypeOK'
      BY TypesStep DEF TInv
    <3>2. chunk' \in 0..rcv'["client"] /\ rcv'["client"] \in Nat
      BY <3>1 DEF TypeOK, StreamTypeOK, End
    <3>3. rcv'["client"] = rcv["client"] + chunk'
      BY <1>2, <2>1 DEF End
    <3> QED
      BY <3>2, <3>3
  <2>3. ~SendBack
    BY <2>1 DEF SendBack
  <2> QED
    BY <1>2, <2>1, <2>2, <2>3 DEF Base
<1>5. CASE ~SendBack /\ ~ReadData
  <2>1. rcv'["client"] = rcv["client"]
    <3>1. CASE RecvReads
      BY <1>2, <3>1 DEF RecvReads, Read, Other, End
    <3>2. CASE ~RecvReads
      BY <1>5, <3>2 DEF Next, vars, streamVars, ClientCalls, ClientStep,
         Signal, ServerStep, Network, CreateNew, CreateNewFails, SendData,
         RecvData, Destroy, SendWrites, SendCutShort, SendInterrupted,
         SendStops, RecvEndOfFile, RecvFails, RecvInterrupted, Accept,
         ReadFails, SendBackFails, SendBackKills, Deliver, CloseEnd, Report,
         Write
    <3> QED
      BY <3>1, <3>2
  <2>2. /\ chunk' = chunk
        /\ sv' \in {"send", "quit", "killed"} <=> sv \in {"send", "quit", "killed"}
    <3>1. CASE CreateNew
      BY <3>1 DEF CreateNew, TInv, NotYet
    <3>2. CASE ~CreateNew
      BY <1>5, <3>2 DEF Next, vars, serverVars, ClientCalls, ClientStep,
         Signal, ServerStep, Network, CreateNewFails, SendData, RecvData,
         Destroy, SendWrites, SendCutShort, SendInterrupted, SendStops,
         RecvReads, RecvEndOfFile, RecvFails, RecvInterrupted, Accept,
         ReadFails, SendBackFails, SendBackKills
    <3> QED
      BY <3>1, <3>2
  <2> QED
    BY <1>2, <1>5, <2>1, <2>2 DEF Base
<1> QED
  BY <1>3, <1>4, <1>5

-----------------------------------------------------------------------------
(* The order of the bytes.                                                 *)
OrderInv == TInv /\ Sent /\ Returned

LEMMA SentStep ==
    ASSUME OrderInv, [Next]_vars
    PROVE  Sent'
<1>1. TInv /\ TypeOK /\ Sent
  BY DEF OrderInv, TInv
<1>2. pos - todo \in Nat /\ pos' - todo' \in Nat /\ pos - todo <= pos' - todo'
  BY <1>1, NumbersMove
<1>3. wire["client"] \in Seq(Nat) /\ Len(wire["client"]) \in Nat
  BY <1>1, Ends DEF TypeOK
<1>4. \A i \in 1..Len(wire["client"]) : wire["client"][i] \in Nat
  BY <1>3, ElementOfSeq
<1>5. CASE wire'["client"] = wire["client"]
  BY <1>1, <1>2, <1>4, <1>5 DEF Sent
<1>6. CASE SendWrites
  <2>1. PICK n \in 1..todo :
          /\ Len(wire'["client"]) = Len(wire["client"]) + n
          /\ \A i \in 1..Len(wire["client"]) : wire'["client"][i] = wire["client"][i]
          /\ \A i \in (Len(wire["client"]) + 1)..(Len(wire["client"]) + n) :
                wire'["client"][i] = pos - todo + (i - Len(wire["client"]))
          /\ todo' = todo - n
    BY <1>1, <1>6, SendWritesAdds
  <2>2. pos' = pos /\ pos \in Nat /\ todo \in 0..pos /\ n \in Nat
    BY <1>1, <1>6 DEF SendWrites, TypeOK
  <2> DEFINE L == Len(wire["client"])
             w == wire["client"]
             v == wire'["client"]
             k == pos - todo
  <2>3. /\ L \in Nat /\ k \in Nat /\ pos' - todo' = k + n /\ Len(v) = L + n
        /\ \A i \in 1..L : w[i] \in Nat /\ 0 < w[i] /\ w[i] <= k /\ v[i] = w[i]
        /\ \A i \in (L + 1)..(L + n) : v[i] = k + (i - L)
        /\ \A i, j \in 1..L : i < j => w[i] < w[j]
    <3>1. L \in Nat /\ k \in Nat /\ pos' - todo' = k + n
      BY <1>2, <1>3, <2>1, <2>2
    <3>2. /\ \A i \in 1..L : w[i] \in Nat /\ 0 < w[i] /\ w[i] <= k
          /\ \A i, j \in 1..L : i < j => w[i] < w[j]
      BY <1>1, <1>4 DEF Sent
    <3> QED
      BY <2>1, <3>1, <3>2
  <2> HIDE DEF L, w, v, k
  <2>4. \A i \in 1..(L + n) : 0 < v[i] /\ v[i] <= k + n
    <3> TAKE i \in 1..(L + n)
    <3>1. CASE i \in 1..L
      BY <2>2, <2>3, <3>1
    <3>2. CASE i \in (L + 1)..(L + n)
      BY <2>2, <2>3, <3>2
    <3> QED
      BY <2>2, <2>3, <3>1, <3>2
  <2>5. \A i, j \in 1..(L + n) : i < j => v[i] < v[j]
    <3> TAKE i, j \in 1..(L + n)
    <3> HAVE i < j
    <3>1. CASE j \in 1..L
      BY <2>2, <2>3, <3>1
    <3>2. CASE i \in 1..L /\ j \in (L + 1)..(L + n)
      BY <2>2, <2>3, <3>2
    <3>3. CASE i \in (L + 1)..(L + n)
      <4>1. j \in (L + 1)..(L + n)
        BY <2>2, <2>3, <3>3
      <4> QED
        BY <2>2, <2>3, <3>3, <4>1
    <3> QED
      BY <2>2, <2>3, <3>1, <3>2, <3>3
  <2> QED
    BY <2>3, <2>4, <2>5 DEF Sent, L, w, v, k
<1>7. CASE SendBack
  BY <1>1, <1>5, <1>7, SendBackAdds
<1> QED
  BY <1>5, <1>6, <1>7, WireMoves

LEMMA ReturnedStep ==
    ASSUME OrderInv, [Next]_vars
    PROVE  Returned'
<1>1. TInv /\ TypeOK /\ Sent /\ Returned
  BY DEF OrderInv, TInv
<1>2. pos - todo \in Nat /\ pos' - todo' \in Nat /\ pos - todo <= pos' - todo'
  BY <1>1, NumbersMove
<1>3. /\ wire["client"] \in Seq(Nat) /\ Len(wire["client"]) \in Nat
      /\ wire["server"] \in Seq(Nat) /\ Len(wire["server"]) \in Nat
  BY <1>1, Ends DEF TypeOK
<1>4. /\ \A i \in 1..Len(wire["client"]) : wire["client"][i] \in Nat
      /\ \A i \in 1..Len(wire["server"]) : wire["server"][i] \in Nat
  BY <1>3, ElementOfSeq
<1>5. /\ Base \in 0..rcv["client"] /\ Base \in Nat /\ rcv["client"] \in Nat
      /\ IF SendBack THEN Base = rcv["client"] - chunk /\ Base' = rcv["client"]
                     ELSE Base' = Base
  BY <1>1, BaseMoves
<1> DEFINE L == Len(wire["client"])
           w == wire["client"]
           M == Len(wire["server"])
           v == wire["server"]
           k == pos - todo
<1>6. /\ L \in Nat /\ M \in Nat /\ k \in Nat
      /\ \A i \in 1..M : v[i] \in Nat /\ 0 < v[i] /\ v[i] <= k
      /\ \A i, j \in 1..M : i < j => v[i] < v[j]
      /\ \A i \in 1..M, j \in 1..L : j > Base => v[i] < w[j]
      /\ \A i \in 1..L : w[i] \in Nat /\ 0 < w[i] /\ w[i] <= k
      /\ \A i, j \in 1..L : i < j => w[i] < w[j]
  BY <1>1, <1>2, <1>3, <1>4 DEF Sent, Returned
<1>7. CASE wire' = wire /\ ~SendBack
  <2>1. Base' = Base /\ k <= pos' - todo' /\ pos' - todo' \in Nat
    BY <1>2, <1>5, <1>7
  <2> HIDE DEF k
  <2>2. \A i \in 1..M : 0 < v[i] /\ v[i] <= pos' - todo'
    BY <1>6, <2>1
  <2> QED
    BY <1>6, <1>7, <2>1, <2>2 DEF Returned
<1>8. CASE SendWrites
  <2>1. PICK n \in 1..todo :
          /\ wire'["server"] = wire["server"]
          /\ Len(wire'["client"]) = Len(wire["client"]) + n
          /\ \A i \in 1..Len(wire["client"]) : wire'["client"][i] = wire["client"][i]
          /\ \A i \in (Len(wire["client"]) + 1)..(Len(wire["client"]) + n) :
                wire'["client"][i] = pos - todo + (i - Len(wire["client"]))
    BY <1>1, <1>8, SendWritesAdds
  <2>2. n \in Nat /\ ~SendBack
    <3>1. n \in Nat
      BY <1>1 DEF TypeOK
    <3>2. ~SendBack
      BY <1>8 DEF SendWrites, SendBack, serverVars
    <3> QED
      BY <3>1, <3>2
  <2> DEFINE x == wire'["client"]
  <2>3. /\ \A i \in 1..L : x[i] = w[i]
        /\ \A i \in (L + 1)..(L + n) : x[i] = k + (i - L)
        /\ Len(x) = L + n
    BY <2>1
  <2>4. wire'["server"] = v /\ Base' = Base /\ k <= pos' - todo' /\ pos' - todo' \in Nat
    BY <1>2, <1>5, <2>1, <2>2
  <2> HIDE DEF L, w, M, v, k, x
  <2>5. \A i \in 1..M, j \in 1..(L + n) : j > Base => v[i] < x[j]
    <3> TAKE i \in 1..M, j \in 1..(L + n)
    <3> HAVE j > Base
    <3>1. CASE j \in 1..L
      BY <1>6, <2>3, <3>1
    <3>2. CASE j \in (L + 1)..(L + n)
      <4>1. x[j] = k + (j - L) /\ v[i] <= k /\ v[i] \in Nat /\ j - L > 0
        BY <1>6, <2>2, <2>3, <3>2
      <4> QED
        BY <1>6, <2>2, <3>2, <4>1
    <3> QED
      BY <1>6, <2>2, <3>1, <3>2
  <2>6. \A i \in 1..M : 0 < v[i] /\ v[i] <= pos' - todo'
    BY <1>6, <2>4
  <2> QED
    BY <1>6, <2>3, <2>4, <2>5, <2>6 DEF Returned, L, w, M, v, k, x
<1>9. CASE SendBack
  <2>1. PICK n \in 0..chunk :
          /\ wire'["client"] = wire["client"]
          /\ Len(wire'["server"]) = Len(wire["server"]) + n
          /\ \A i \in 1..Len(wire["server"]) : wire'["server"][i] = wire["server"][i]
          /\ \A i \in (Len(wire["server"]) + 1)..(Len(wire["server"]) + n) :
                wire'["server"][i] =
                wire["client"][rcv["client"] - chunk + (i - Len(wire["server"]))]
    BY <1>1, <1>9, SendBackAdds
  <2>2. n \in Nat /\ chunk \in Nat /\ n <= chunk /\ rcv["client"] <= Len(wire["client"])
    <3>1. chunk \in 0..rcv["client"] /\ StreamTypeOK
      BY <1>1 DEF TypeOK
    <3>2. rcv["client"] <= dlv["client"] /\ dlv["client"] <= Len(wire["client"])
          /\ dlv["client"] \in Nat
      BY <3>1, Ends
    <3>3. rcv["client"] <= Len(wire["client"])
      BY <1>3, <1>5, <3>2
    <3> QED
      BY <1>5, <3>1, <3>3
  <2> DEFINE y == wire'["server"]
             b == rcv["client"] - chunk
             r == rcv["client"]
  <2>3. /\ \A i \in 1..M : y[i] = v[i]
        /\ \A i \in (M + 1)..(M + n) : y[i] = w[b + (i - M)]
        /\ Len(y) = M + n
    BY <2>1
  <2>4. /\ wire'["client"] = w /\ k <= pos' - todo' /\ pos' - todo' \in Nat
        /\ Base = b /\ Base' = r /\ b \in Nat /\ r \in Nat /\ b + n <= r /\ r <= L
    BY <1>2, <1>5, <1>9, <2>1, <2>2
  <2> HIDE DEF L, w, M, v, k, y, b, r
  <2>5. \A i \in (M + 1)..(M + n) : b + (i - M) \in (b + 1)..r /\ b + (i - M) \in 1..L
    BY <1>6, <2>2, <2>4
  <2>6. \A i \in 1..(M + n) : y[i] \in Nat /\ 0 < y[i] /\ y[i] <= k
    <3> TAKE i \in 1..(M + n)
    <3>1. CASE i \in 1..M
      BY <1>6, <2>3, <3>1
    <3>2. CASE i \in (M + 1)..(M + n)
      BY <1>6, <2>3, <2>5, <3>2
    <3> QED
      BY <1>6, <2>2, <3>1, <3>2
  <2>7. \A i, j \in 1..(M + n) : i < j => y[i] < y[j]
    <3> TAKE i, j \in 1..(M + n)
    <3> HAVE i < j
    <3>1. CASE j \in 1..M
      BY <1>6, <2>2, <2>3, <3>1
    <3>2. CASE i \in 1..M /\ j \in (M + 1)..(M + n)
      <4>1. b + (j - M) \in 1..L /\ b + (j - M) > Base
        BY <2>4, <2>5, <3>2
      <4>2. v[i] < w[b + (j - M)]
        BY <1>6, <3>2, <4>1
      <4> QED
        BY <2>3, <3>2, <4>2
    <3>3. CASE i \in (M + 1)..(M + n) /\ j \in (M + 1)..(M + n)
      <4>1. b + (i - M) \in 1..L /\ b + (j - M) \in 1..L /\ b + (i - M) < b + (j - M)
        BY <1>6, <2>4, <2>5, <3>3
      <4>2. w[b + (i - M)] < w[b + (j - M)]
        BY <1>6, <4>1
      <4> QED
        BY <2>3, <3>3, <4>2
    <3> QED
      BY <1>6, <2>2, <3>1, <3>2, <3>3
  <2>8. \A i \in 1..(M + n), j \in 1..L : j > r => y[i] < w[j]
    <3> TAKE i \in 1..(M + n), j \in 1..L
    <3> HAVE j > r
    <3>1. CASE i \in 1..M
      BY <1>6, <2>2, <2>3, <2>4, <3>1
    <3>2. CASE i \in (M + 1)..(M + n)
      <4>1. b + (i - M) \in 1..L /\ b + (i - M) < j
        BY <2>4, <2>5, <3>2
      <4>2. w[b + (i - M)] < w[j]
        BY <1>6, <4>1
      <4> QED
        BY <2>3, <3>2, <4>2
    <3> QED
      BY <1>6, <2>2, <3>1, <3>2
  <2>9. \A i \in 1..(M + n) : 0 < y[i] /\ y[i] <= pos' - todo'
    BY <1>6, <2>4, <2>6
  <2> QED
    BY <2>3, <2>4, <2>7, <2>8, <2>9 DEF Returned, L, w, M, v, y
<1> QED
  BY <1>7, <1>8, <1>9, WireMoves

(* What has come back was read before.                                     *)
Origin ==
    \A i \in 1..Len(wire["server"]) :
        \E k \in 1..rcv["client"] : wire["server"][i] = wire["client"][k]

LEMMA OriginStep ==
    ASSUME TInv, Origin, [Next]_vars
    PROVE  Origin'
<1>1. TypeOK /\ StreamTypeOK
  BY DEF TInv, TypeOK
<1>2. /\ wire["client"] \in Seq(Nat) /\ Len(wire["client"]) \in Nat
      /\ wire["server"] \in Seq(Nat) /\ Len(wire["server"]) \in Nat
      /\ rcv["client"] \in Nat /\ rcv["client"] <= Len(wire["client"])
      /\ chunk \in 0..rcv["client"]
  <2>1. dlv["client"] \in Nat /\ rcv["client"] <= dlv["client"]
        /\ dlv["client"] <= Len(wire["client"])
    BY <1>1, Ends
  <2>2. /\ wire["client"] \in Seq(Nat) /\ Len(wire["client"]) \in Nat
        /\ wire["server"] \in Seq(Nat) /\ Len(wire["server"]) \in Nat
        /\ rcv["client"] \in Nat
    BY <1>1, Ends
  <2> QED
    BY <1>1, <2>1, <2>2 DEF TypeOK
<1>3. rcv'["client"] \in Nat /\ rcv["client"] <= rcv'["client"]
  <2>1. CASE ReadData
    <3>1. chunk' = AtMost(Avail("server"), Buf)
          /\ rcv' = [rcv EXCEPT ![Other("server")] = @ + chunk']
      BY <2>1 DEF ReadData, Read
    <3>2. chunk' \in Nat
      BY <1>1, <2>1, <3>1, Ends, EchoAssumption DEF ReadData, AtMost, Avail, Other
    <3>3. rcv'["client"] = rcv["client"] + chunk'
      BY <1>1, <3>1 DEF Other, StreamTypeOK, End
    <3> QED
      BY <1>2, <3>2, <3>3
  <2>2. CASE RecvReads
    BY <1>1, <1>2, <2>2 DEF RecvReads, Read, Other, StreamTypeOK, End
  <2>3. CASE ~ReadData /\ ~RecvReads
    <3>1. rcv' = rcv
      BY <2>3 DEF Next, vars, streamVars, ClientCalls, ClientStep, Signal,
         ServerStep, Network, CreateNew, CreateNewFails, SendData, RecvData,
         Destroy, SendWrites, Write, SendCutShort, SendInterrupted, SendStops,
         RecvEndOfFile, RecvFails, RecvInterrupted, Accept, ReadFails,
         SendBack, SendBackFails, SendBackKills, Deliver, CloseEnd, Report
    <3> QED
      BY <1>2, <3>1
  <2> QED
    BY <2>1, <2>2, <2>3
<1>4. \A k \in 1..rcv["client"] : k \in 1..rcv'["client"] /\ k \in 1..Len(wire["client"])
  BY <1>2, <1>3
<1>5. CASE wire' = wire
  BY <1>4, <1>5 DEF Origin
<1>6. CASE SendWrites
  <2>1. /\ wire'["server"] = wire["server"]
        /\ \A i \in 1..Len(wire["client"]) : wire'["client"][i] = wire["client"][i]
    BY <1>1, <1>6, SendWritesAdds
  <2> QED
    BY <1>4, <2>1 DEF Origin
<1>7. CASE SendBack
  <2>1. PICK n \in 0..chunk :
          /\ wire'["client"] = wire["client"]
          /\ Len(wire'["server"]) = Len(wire["server"]) + n
          /\ \A i \in 1..Len(wire["server"]) : wire'["server"][i] = wire["server"][i]
          /\ \A i \in (Len(wire["server"]) + 1)..(Len(wire["server"]) + n) :
                wire'["server"][i] =
                wire["client"][rcv["client"] - chunk + (i - Len(wire["server"]))]
    BY <1>1, <1>7, SendBackAdds
  <2>2. n \in Nat /\ chunk \in Nat /\ n <= chunk /\ chunk <= rcv["client"]
    BY <1>2
  <2>3. ASSUME NEW i \in 1..Len(wire'["server"])
        PROVE  \E k \in 1..rcv["client"] : wire'["server"][i] = wire["client"][k]
    <3>1. CASE i \in 1..Len(wire["server"])
      BY <2>1, <3>1 DEF Origin
    <3>2. CASE i \in (Len(wire["server"]) + 1)..(Len(wire["server"]) + n)
      <4>1. rcv["client"] - chunk + (i - Len(wire["server"])) \in 1..rcv["client"]
        BY <1>2, <2>2, <3>2
      <4> QED
        BY <2>1, <3>2, <4>1
    <3>3. i \in 1..(Len(wire["server"]) + n)
      BY <2>1, <2>3
    <3>4. i \in 1..Len(wire["server"]) \/
          i \in (Len(wire["server"]) + 1)..(Len(wire["server"]) + n)
      BY <1>2, <2>2, <3>3
    <3> QED
      BY <3>1, <3>2, <3>4
  <2> QED
    BY <1>4, <2>1, <2>3 DEF Origin
<1> QED
  BY <1>5, <1>6, <1>7, WireMoves

(* What comes back was read, is in order, and comes back once.             *)
THEOREM EchoOrder == Spec => []EchoInOrder
<1>1. Init => OrderInv /\ Origin
  <2> SUFFICES ASSUME Init PROVE OrderInv /\ Origin
    OBVIOUS
  <2>1. <<>> \in Seq(Nat) /\ Len(<<>>) = 0
    BY EmptySeq
  <2>2. wire["client"] = <<>> /\ wire["server"] = <<>>
    BY DEF Init, StreamInit, End
  <2>3. Sent /\ Returned /\ Origin
    BY <2>1, <2>2 DEF Sent, Returned, Origin
  <2>4. TInv
    BY InitTypes
  <2> QED
    BY <2>3, <2>4 DEF OrderInv
<1>2. OrderInv /\ Origin /\ [Next]_vars => OrderInv' /\ Origin'
  BY TypesStep, SentStep, ReturnedStep, OriginStep DEF OrderInv
<1>3. OrderInv /\ Origin => EchoInOrder
  BY DEF OrderInv, Sent, Returned, Origin, EchoInOrder, End
<1> QED
  BY <1>1, <1>2, <1>3, PTL DEF Spec

-----------------------------------------------------------------------------
(* What comes back is all of it.                                           *)
WholeInv == TInv /\ Complete

LEMMA CompleteStep ==
    ASSUME WholeInv, [Next]_vars
    PROVE  Complete'
<1>1. TInv /\ TypeOK /\ Complete
  BY DEF WholeInv, TInv
<1>2. /\ Base \in 0..rcv["client"] /\ Base \in Nat /\ rcv["client"] \in Nat
      /\ IF SendBack THEN Base = rcv["client"] - chunk /\ Base' = rcv["client"]
                     ELSE Base' = Base
  BY <1>1, BaseMoves
<1>3. /\ Len(wire["client"]) \in Nat /\ Len(wire["server"]) \in Nat
      /\ rcv["client"] <= Len(wire["client"])
  <2>1. /\ Len(wire["client"]) \in Nat /\ Len(wire["server"]) \in Nat
        /\ rcv["client"] <= dlv["client"] /\ dlv["client"] <= Len(wire["client"])
        /\ dlv["client"] \in Nat
    BY <1>1, Ends DEF TypeOK
  <2> QED
    BY <1>2, <2>1
<1>4. short \subseteq short'
  BY DEF Next, vars, ClientCalls, ClientStep, Signal, ServerStep, Network,
     CreateNew, CreateNewFails, SendData, RecvData, Destroy, SendWrites,
     SendCutShort, SendInterrupted, SendStops, RecvReads, RecvEndOfFile,
     RecvFails, RecvInterrupted, Accept, ReadData, ReadFails, SendBack,
     SendBackFails, SendBackKills
<1> SUFFICES ASSUME "server" \notin short'
             PROVE  /\ Len(wire'["server"]) = Base'
                    /\ \A i \in 1..Len(wire'["server"]) :
                          wire'["server"][i] = wire'["client"][i]
  BY DEF Complete
<1>5. /\ Len(wire["server"]) = Base
      /\ \A i \in 1..Len(wire["server"]) : wire["server"][i] = wire["client"][i]
  BY <1>1, <1>4 DEF Complete
<1>6. CASE wire' = wire /\ ~SendBack
  BY <1>2, <1>5, <1>6
<1>7. CASE SendWrites
  <2>1. /\ wire'["server"] = wire["server"]
        /\ \A i \in 1..Len(wire["client"]) : wire'["client"][i] = wire["client"][i]
    BY <1>1, <1>7, SendWritesAdds
  <2>2. ~SendBack
    BY <1>7 DEF SendWrites, SendBack, serverVars
  <2>3. \A i \in 1..Len(wire["server"]) : i \in 1..Len(wire["client"])
    BY <1>2, <1>3, <1>5
  <2> QED
    BY <1>2, <1>5, <2>1, <2>2, <2>3
<1>8. CASE SendBack
  <2>1. PICK n \in 0..chunk :
          /\ wire'["client"] = wire["client"]
          /\ Len(wire'["server"]) = Len(wire["server"]) + n
          /\ \A i \in 1..Len(wire["server"]) : wire'["server"][i] = wire["server"][i]
          /\ \A i \in (Len(wire["server"]) + 1)..(Len(wire["server"]) + n) :
                wire'["server"][i] =
                wire["client"][rcv["client"] - chunk + (i - Len(wire["server"]))]
          /\ n = chunk \/ "server" \in short'
    BY <1>1, <1>8, SendBackAdds
  <2>2. n = chunk /\ chunk \in Nat
    BY <1>1, <1>2, <2>1 DEF TypeOK
  <2>3. rcv["client"] - chunk = Len(wire["server"]) /\ Base' = rcv["client"]
    BY <1>2, <1>5, <1>8
  <2>4. Len(wire'["server"]) = Base'
    BY <1>2, <1>3, <2>1, <2>2, <2>3
  <2>5. \A i \in 1..(Len(wire["server"]) + n) : wire'["server"][i] = wire["client"][i]
    <3> TAKE i \in 1..(Len(wire["server"]) + n)
    <3>1. CASE i \in 1..Len(wire["server"])
      BY <1>5, <2>1, <3>1
    <3>2. CASE i \in (Len(wire["server"]) + 1)..(Len(wire["server"]) + n)
      <4>1. rcv["client"] - chunk + (i - Len(wire["server"])) = i
        BY <1>2, <1>3, <2>2, <2>3, <3>2
      <4> QED
        BY <2>1, <3>2, <4>1
    <3> QED
      BY <1>3, <2>2, <3>1, <3>2
  <2> QED
    BY <2>1, <2>4, <2>5
<1> QED
  BY <1>6, <1>7, <1>8, WireMoves

LEMMA InitComplete == ASSUME Init PROVE WholeInv
<1>1. <<>> \in Seq(Nat) /\ Len(<<>>) = 0
  BY EmptySeq
<1>2. wire["client"] = <<>> /\ wire["server"] = <<>> /\ rcv["client"] = 0 /\ sv = "none"
  BY DEF Init, StreamInit, End
<1>3. Complete
  BY <1>1, <1>2 DEF Complete, Base
<1> QED
  BY <1>3, InitTypes DEF WholeInv

(* Without a short send the reply is a prefix of what was sent, and all of *)
(* what the callback has read when it reads again.                         *)
THEOREM EchoWhole == Spec => []EchoIntact
<1>1. WholeInv /\ [Next]_vars => WholeInv'
  BY TypesStep, CompleteStep DEF WholeInv
<1>2. WholeInv => EchoIntact
  <2> SUFFICES ASSUME WholeInv, "server" \notin short, sv = "read"
               PROVE  Base = rcv["client"]
    BY DEF WholeInv, Complete, EchoIntact
  <2>1. rcv["client"] \in Nat
    BY DEF WholeInv, TInv, TypeOK, StreamTypeOK, End
  <2> QED
    BY <2>1 DEF Base
<1> QED
  BY <1>1, <1>2, InitComplete, PTL DEF Spec

-----------------------------------------------------------------------------
(* The end of the connection.                                              *)
EndInv == TInv /\ Breaks /\ AtEnd

LEMMA BreaksStep ==
    ASSUME TInv, Breaks, [Next]_vars
    PROVE  Breaks'
<1> USE DEF TInv, TypeOK, StreamTypeOK, Breaks, NotYet
<1>1. CASE \E e \in End : Deliver(e) /\ UNCHANGED <<clientVars, serverVars, short>>
  BY <1>1 DEF Deliver, End, Other, serverVars
<1>2. CASE CreateNewFails \/ Destroy
  BY <1>2 DEF CreateNewFails, Destroy, CloseEnd, Other, End, serverVars
<1>3. CASE SendCutShort \/ SendInterrupted
  BY <1>3 DEF SendCutShort, SendInterrupted, SendStops, CloseEnd, Report, Other,
     End, serverVars, streamVars
<1>4. CASE ReadFails \/ SendBackKills
  BY <1>4 DEF ReadFails, SendBackKills, CloseEnd, Other, End, clientVars
<1>5. CASE SendBackFails
  BY <1>5 DEF SendBackFails, Report, End, clientVars
<1>6. CASE RecvFails \/ RecvInterrupted
  BY <1>6 DEF RecvFails, RecvInterrupted, Report, End, serverVars, streamVars
<1>7. CASE \/ CreateNew \/ (\E n \in Sizes : SendData(n)) \/ RecvData
           \/ SendWrites \/ RecvReads \/ RecvEndOfFile
           \/ Accept \/ ReadData \/ SendBack \/ UNCHANGED vars
  BY <1>7 DEF CreateNew, SendData, RecvData, SendWrites, RecvReads,
     RecvEndOfFile, Accept, ReadData, SendBack, Write, Read, vars, streamVars,
     serverVars
<1> QED
  BY <1>1, <1>2, <1>3, <1>4, <1>5, <1>6, <1>7
  DEF Next, ClientCalls, ClientStep, Signal, ServerStep, Network

LEMMA AtEndStep ==
    ASSUME EndInv, [Next]_vars
    PROVE  AtEnd'
<1>1. TInv /\ TypeOK /\ StreamTypeOK /\ Breaks /\ AtEnd
  BY DEF EndInv, TInv, TypeOK
<1>2. /\ rcv["server"] \in Nat /\ dlv["server"] \in Nat /\ Len(wire["server"]) \in Nat
      /\ rcv["server"] <= dlv["server"] /\ dlv["server"] <= Len(wire["server"])
  BY <1>1, Ends
<1>3. CASE RecvEndOfFile
  <2>1. EndOfFile("client") /\ cl = "recv" /\ UNCHANGED <<streamVars, serverVars>>
    BY <1>3 DEF RecvEndOfFile
  <2>2. CASE err["client"] = "pipe"
    BY <2>1, <2>2 DEF AtEnd, streamVars
  <2>3. CASE FinArrived("client")
    <3>1. closed["server"] /\ dlv["server"] = Len(wire["server"])
          /\ dlv["server"] - rcv["server"] = 0
      BY <2>1, <2>3 DEF EndOfFile, FinArrived, Avail, Other
    <3>2. sv \in {"gone", "killed"} /\ ~closed["client"]
      BY <1>1, <2>1, <3>1 DEF TypeOK
    <3>3. sv = "gone"
      BY <1>1, <3>2 DEF Breaks
    <3>4. rcv["server"] = Len(wire["server"])
      BY <1>2, <3>1
    <3> QED
      BY <2>1, <3>3, <3>4 DEF AtEnd, streamVars, serverVars
  <2> QED
    BY <2>1, <2>2, <2>3 DEF EndOfFile
<1>4. CASE ~RecvEndOfFile
  <2> SUFFICES ASSUME eof', err'["client"] = "none"
               PROVE  sv' = "gone" /\ rcv'["server"] = Len(wire'["server"])
    BY DEF AtEnd
  <2>1. eof
    BY <1>4 DEF Next, vars, clientVars, ClientCalls, ClientStep, Signal,
       ServerStep, Network, CreateNew, CreateNewFails, SendData, RecvData,
       Destroy, SendWrites, SendCutShort, SendInterrupted, SendStops,
       RecvReads, RecvFails, RecvInterrupted, Accept, ReadData, ReadFails,
       SendBack, SendBackFails, SendBackKills
  <2>2. err["client"] = "none"
    <3> USE <1>1 DEF StreamTypeOK
    <3>1. CASE \E e \in End : Deliver(e) /\ UNCHANGED <<clientVars, serverVars, short>>
      BY <3>1 DEF Deliver, End, Other
    <3>2. CASE \E e \in End : CloseEnd(e) \/ Report(e)
      BY <3>2 DEF CloseEnd, Report, End, Other
    <3>3. CASE err' = err
      BY <3>3
    <3> QED
      BY <1>4, <3>1, <3>2, <3>3 DEF Next, vars, streamVars, ClientCalls,
         ClientStep, Signal, ServerStep, Network, CreateNew, CreateNewFails,
         SendData, RecvData, Destroy, SendWrites, SendCutShort,
         SendInterrupted, SendStops, RecvReads, RecvFails, RecvInterrupted,
         Accept, ReadData, ReadFails, SendBack, SendBackFails, SendBackKills,
         Write, Read, End
  <2>3. sv = "gone" /\ rcv["server"] = Len(wire["server"])
    BY <1>1, <2>1, <2>2 DEF AtEnd
  <2>4. ~RecvReads
    <3>1. dlv["server"] - rcv["server"] = 0
      BY <1>2, <2>3
    <3>2. Avail("client") = 0
      BY <3>1 DEF Avail, Other
    <3>3. RecvReads => Avail("client") > 0
      BY DEF RecvReads
    <3> QED
      BY <3>2, <3>3
  <2>5. ~ServerStep /\ ~CreateNew
    BY <1>1, <2>3 DEF ServerStep, Accept, ReadData, ReadFails, SendBack,
       SendBackFails, SendBackKills, CreateNew, TInv, NotYet
  <2>6. sv' = sv
    BY <1>4, <2>4, <2>5 DEF Next, vars, serverVars, ClientCalls, ClientStep,
       Signal, Network, CreateNewFails, SendData, RecvData, Destroy,
       SendWrites, SendCutShort, SendInterrupted, SendStops, RecvFails,
       RecvInterrupted
  <2>7. rcv' = rcv
    BY <1>4, <2>4, <2>5 DEF Next, vars, streamVars, ClientCalls, ClientStep,
       Signal, Network, CreateNewFails, SendData, RecvData, Destroy,
       SendWrites, SendCutShort, SendInterrupted, SendStops, RecvFails,
       RecvInterrupted, Write, CloseEnd, Report, Deliver
  <2>8. wire'["server"] = wire["server"]
    <3>1. CASE SendWrites
      BY <1>1, <3>1, SendWritesAdds
    <3>2. CASE ~SendWrites
      BY <2>5, <3>2, WireMoves DEF ServerStep
    <3> QED
      BY <3>1, <3>2
  <2> QED
    BY <2>3, <2>6, <2>7, <2>8
<1> QED
  BY <1>3, <1>4

(* A program that meets end of file on a sound connection has every byte   *)
(* the server has read, unless a short send dropped it.                    *)
THEOREM EchoEnds == Spec => []EofIsComplete
<1>1. Init => EndInv
  <2> SUFFICES ASSUME Init PROVE EndInv
    OBVIOUS
  <2>1. Breaks /\ AtEnd
    BY DEF Init, StreamInit, Breaks, AtEnd, End
  <2> QED
    BY <2>1, InitTypes DEF EndInv
<1>2. EndInv /\ [Next]_vars => EndInv'
  BY TypesStep, BreaksStep, AtEndStep DEF EndInv
<1>3. WholeInv /\ [Next]_vars => WholeInv'
  BY TypesStep, CompleteStep DEF WholeInv
<1>4. WholeInv /\ EndInv => EofIsComplete
  <2> SUFFICES ASSUME WholeInv, EndInv, eof, err["client"] = "none", "server" \notin short
               PROVE  rcv["server"] = rcv["client"]
    BY DEF EofIsComplete
  <2>1. sv = "gone" /\ rcv["server"] = Len(wire["server"]) /\ Len(wire["server"]) = Base
    BY DEF EndInv, AtEnd, WholeInv, Complete
  <2>2. rcv["client"] \in Nat
    BY DEF WholeInv, TInv, TypeOK, StreamTypeOK, End
  <2> QED
    BY <2>1, <2>2 DEF Base
<1> QED
  BY <1>1, <1>2, <1>3, <1>4, InitComplete, PTL DEF Spec
=============================================================================

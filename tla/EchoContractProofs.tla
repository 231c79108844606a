------------------------- MODULE EchoContractProofs -------------------------
(***************************************************************************)
(* The echo connection keeps the promises of ReplyContract, and neither    *)
(* end of it waits for the other for ever with nothing on the way: for     *)
(* every size of the buffers, every number of bytes and every choice of    *)
(* failures.                                                               *)
(***************************************************************************)
EXTENDS EchoContract, EchoProofs

(* Where the program and the callback are.                                 *)
Places ==
    /\ todo > 0 => cl = "send"
    /\ sv = "none" => cl \in {"new", "gone"}

(* What has been written lies before what sendData has still to write, and *)
(* while nothing is missing from it, it is everything before that.         *)
Written ==
    /\ Len(wire["client"]) <= pos - todo
    /\ Len(wire["client"]) = pos - todo =>
          \A i \in 1..Len(wire["client"]) : wire["client"][i] = i

(* The server's send buffer holds what it can hold.                        *)
Buffered == Len(wire["server"]) - dlv["server"] <= Cap

(* Only a server that has left breaks the client's end.                    *)
Resets == err["client"] # "none" => closed["server"]

(* After an end of file nothing arrives any more.                          *)
Ended ==
    eof => /\ closed["server"]
           /\ rcv["server"] = dlv["server"]
           /\ err["client"] = "none" => dlv["server"] = Len(wire["server"])

ContractInv ==
    /\ TInv /\ Sent /\ Returned /\ Complete /\ Breaks
    /\ Places /\ Written /\ Buffered /\ Resets /\ Ended

-----------------------------------------------------------------------------
(* The steps that change what these invariants speak of.                   *)

LEMMA PlacesStep ==
    ASSUME TInv, Places, [Next]_vars
    PROVE  Places'
<1> USE DEF Places
<1>1. CASE \E n \in Sizes : SendData(n)
  <2>1. cl = "idle" /\ cl' = "send" /\ sv' = sv
    BY <1>1 DEF SendData, serverVars
  <2> QED
    BY <2>1
<1>2. CASE SendWrites
  <2>1. PICK n \in 1..todo : todo' = todo - n
    BY <1>2, SendWritesAdds DEF TInv
  <2>2. todo' \in Nat
    BY <2>1 DEF TInv, TypeOK
  <2>3. cl = "send" /\ (todo' = 0 \/ cl' = "send") /\ sv' = sv
    BY <1>2 DEF SendWrites, serverVars
  <2> QED
    BY <2>2, <2>3
<1>3. CASE SendCutShort \/ SendInterrupted
  <2>1. cl = "send" /\ todo' = 0 /\ sv' = sv
    BY <1>3 DEF SendCutShort, SendInterrupted, SendStops, serverVars
  <2> QED
    BY <2>1
<1>4. CASE CreateNew \/ CreateNewFails \/ RecvData \/ Destroy \/ RecvReads
           \/ RecvEndOfFile \/ RecvFails \/ RecvInterrupted
  <2>1. todo' = todo /\ cl # "send"
    BY <1>4 DEF CreateNew, CreateNewFails, RecvData, Destroy, RecvReads,
       RecvEndOfFile, RecvFails, RecvInterrupted
  <2>2. sv' = "none" => cl' = "gone" \/ cl \notin {"new", "gone"}
    BY <1>4 DEF CreateNew, CreateNewFails, RecvData, Destroy, RecvReads,
       RecvEndOfFile, RecvFails, RecvInterrupted, serverVars
  <2>3. sv' = "none" => sv = "none"
    BY <1>4 DEF CreateNew, CreateNewFails, RecvData, Destroy, RecvReads,
       RecvEndOfFile, RecvFails, RecvInterrupted, serverVars
  <2>4. todo \in Nat
    BY DEF TInv, TypeOK
  <2> QED
    BY <2>1, <2>2, <2>3, <2>4
<1>5. CASE ServerStep \/ Network \/ UNCHANGED vars
  <2>1. todo' = todo /\ cl' = cl /\ (sv' = sv \/ sv' # "none")
    BY <1>5 DEF ServerStep, Network, Accept, ReadData, ReadFails, SendBack,
       SendBackFails, SendBackKills, clientVars, serverVars, vars
  <2> QED
    BY <2>1
<1> QED
  BY <1>1, <1>2, <1>3, <1>4, <1>5 DEF Next, ClientCalls, ClientStep, Signal

(* A step that is no SendWrites leaves the client's stream alone, so that  *)
(* what is missing from it afterwards was missing before.                  *)
LEMMA MissingStays ==
    ASSUME TInv, Written, [Next]_vars
    PROVE  /\ Len(wire'["client"]) <= pos' - todo'
           /\ Len(wire'["client"]) = pos' - todo' => Len(wire["client"]) = pos - todo
<1>1. TypeOK /\ StreamTypeOK
  BY DEF TInv, TypeOK
<1>2. Len(wire["client"]) \in Nat /\ Len(wire["client"]) <= pos - todo
  BY <1>1, Ends DEF Written
<1>3. CASE SendWrites
  <2>1. PICK n \in 1..todo : /\ Len(wire'["client"]) = Len(wire["client"]) + n
                             /\ todo' = todo - n
    BY <1>1, <1>3, SendWritesAdds
  <2>2. pos' = pos /\ pos \in Nat /\ todo \in Nat /\ n \in Nat
    BY <1>1, <1>3 DEF SendWrites, TypeOK
  <2>3. \A l, p, t, k \in Nat : l <= p - t =>
           /\ l + k <= p - (t - k)
           /\ l + k = p - (t - k) => l = p - t
    OBVIOUS
  <2> QED
    BY <1>2, <2>1, <2>2, <2>3
<1>4. CASE ~SendWrites
  <2>1. wire'["client"] = wire["client"]
    BY <1>1, <1>4, WireMoves, SendBackAdds
  <2>2. pos - todo \in Nat /\ pos' - todo' \in Nat /\ pos - todo <= pos' - todo'
    BY NumbersMove
  <2>3. \A l, p, q \in Nat : l <= p /\ p <= q => l <= q /\ (l = q => l = p)
    OBVIOUS
  <2> QED
    BY <1>2, <2>1, <2>2, <2>3
<1> QED
  BY <1>3, <1>4

LEMMA WrittenStep ==
    ASSUME TInv, Written, [Next]_vars
    PROVE  Written'
<1>1. TypeOK /\ StreamTypeOK /\ Len(wire["client"]) \in Nat
  BY Ends DEF TInv, TypeOK
<1> SUFFICES ASSUME Len(wire'["client"]) = pos' - todo'
             PROVE  \A i \in 1..Len(wire'["client"]) : wire'["client"][i] = i
  BY MissingStays DEF Written
<1>2. /\ Len(wire["client"]) = pos - todo
      /\ \A i \in 1..Len(wire["client"]) : wire["client"][i] = i
  BY MissingStays DEF Written
<1>3. CASE SendWrites
  <2>1. PICK n \in 1..todo :
          /\ Len(wire'["client"]) = Len(wire["client"]) + n
          /\ \A i \in 1..Len(wire["client"]) : wire'["client"][i] = wire["client"][i]
          /\ \A i \in (Len(wire["client"]) + 1)..(Len(wire["client"]) + n) :
                wire'["client"][i] = pos - todo + (i - Len(wire["client"]))
    BY <1>1, <1>3, SendWritesAdds
  <2>2. n \in Nat
    BY <1>1 DEF TypeOK
  <2> DEFINE L == Len(wire["client"])
  <2>3. \A i \in (L + 1)..(L + n) : wire'["client"][i] = L + (i - L)
    BY <1>2, <2>1
  <2>4. \A i \in 1..L : wire'["client"][i] = i
    BY <1>2, <2>1
  <2>5. L \in Nat /\ Len(wire'["client"]) = L + n
    BY <1>1, <2>1
  <2> HIDE DEF L
  <2>6. \A i \in 1..(L + n) : i \in 1..L \/ (i \in (L + 1)..(L + n) /\ L + (i - L) = i)
    BY <2>2, <2>5
  <2> QED
    BY <2>3, <2>4, <2>5, <2>6
<1>4. CASE ~SendWrites
  <2>1. wire'["client"] = wire["client"]
    BY <1>1, <1>4, WireMoves, SendBackAdds
  <2> QED
    BY <1>2, <2>1
<1> QED
  BY <1>3, <1>4

LEMMA BufferedStep ==
    ASSUME TInv, Buffered, [Next]_vars
    PROVE  Buffered'
<1>1. TypeOK /\ StreamTypeOK
  BY DEF TInv, TypeOK
<1>2. /\ Len(wire["server"]) \in Nat /\ dlv["server"] \in Nat /\ Cap \in Nat
      /\ Len(wire["server"]) - dlv["server"] <= Cap
  BY <1>1, Ends, StreamAssumption DEF Buffered
<1>3. CASE SendBack
  <2>1. PICK n \in 0..chunk : /\ UNCHANGED <<dlv, rcv, closed, err>>
                              /\ Len(wire'["server"]) = Len(wire["server"]) + n
                              /\ n <= Room("server")
    BY <1>1, <1>3, SendBackAdds
  <2>2. n \in Nat
    BY <1>1 DEF TypeOK, StreamTypeOK, End
  <2> QED
    BY <1>2, <2>1, <2>2 DEF Buffered, Room
<1>4. CASE Network
  <2>1. PICK e \in End : Deliver(e)
    BY <1>4 DEF Network
  <2>2. wire' = wire /\ (dlv' = dlv \/ dlv' = [dlv EXCEPT ![e] = dlv[e] + 1])
    BY <2>1 DEF Deliver
  <2>3. dlv'["server"] = dlv["server"] \/ dlv'["server"] = dlv["server"] + 1
    BY <1>1, <2>2 DEF StreamTypeOK, End
  <2> QED
    BY <1>2, <2>2, <2>3 DEF Buffered
<1>5. CASE ~SendBack /\ ~Network
  <2>1. dlv' = dlv
    BY <1>5 DEF Next, vars, streamVars, ClientCalls, ClientStep, Signal,
       ServerStep, CreateNew, CreateNewFails, SendData, RecvData, Destroy,
       SendWrites, Write, SendCutShort, SendInterrupted, SendStops, RecvReads,
       RecvEndOfFile, RecvFails, RecvInterrupted, Accept, ReadData, ReadFails,
       SendBackFails, SendBackKills, CloseEnd, Report, Read
  <2>2. wire'["server"] = wire["server"]
    BY <1>1, <1>5, WireMoves, SendWritesAdds
  <2> QED
    BY <1>2, <2>1, <2>2 DEF Buffered
<1> QED
  BY <1>3, <1>4, <1>5

LEMMA ResetsStep ==
    ASSUME TInv, Resets, [Next]_vars
    PROVE  Resets'
<1> USE DEF TInv, TypeOK, StreamTypeOK, Resets
<1>1. CASE Network
  BY <1>1 DEF Network, Deliver, End, Other
<1>2. CASE CreateNewFails \/ Destroy
  BY <1>2 DEF CreateNewFails, Destroy, CloseEnd, Other, End
<1>3. CASE SendCutShort \/ SendInterrupted
  BY <1>3 DEF SendCutShort, SendInterrupted, SendStops, CloseEnd, Report, Other,
     End, streamVars
<1>4. CASE ReadFails \/ SendBackKills
  BY <1>4 DEF ReadFails, SendBackKills, CloseEnd, Other, End
<1>5. CASE SendBackFails \/ RecvFails \/ RecvInterrupted
  BY <1>5 DEF SendBackFails, RecvFails, RecvInterrupted, Report, End, streamVars
<1>6. CASE \/ CreateNew \/ (\E n \in Sizes : SendData(n)) \/ RecvData
           \/ SendWrites \/ RecvReads \/ RecvEndOfFile
           \/ Accept \/ ReadData \/ SendBack \/ UNCHANGED vars
  BY <1>6 DEF CreateNew, SendData, RecvData, SendWrites, RecvReads,
     RecvEndOfFile, Accept, ReadData, SendBack, Write, Read, vars, streamVars
<1> QED
  BY <1>1, <1>2, <1>3, <1>4, <1>5, <1>6
  DEF Next, ClientCalls, ClientStep, Signal, ServerStep

LEMMA EndedStep ==
    ASSUME TInv, Resets, Breaks, Ended, [Next]_vars
    PROVE  Ended'
<1>1. TypeOK /\ StreamTypeOK
  BY DEF TInv, TypeOK
<1>2. /\ rcv["server"] \in Nat /\ dlv["server"] \in Nat /\ Len(wire["server"]) \in Nat
      /\ rcv["server"] <= dlv["server"] /\ dlv["server"] <= Len(wire["server"])
  BY <1>1, Ends
<1>3. closed["server"] => closed'["server"]
  BY <1>1 DEF Next, vars, streamVars, ClientCalls, ClientStep, Signal,
     ServerStep, Network, CreateNew, CreateNewFails, SendData, RecvData,
     Destroy, SendWrites, SendCutShort, SendInterrupted, SendStops, RecvReads,
     RecvEndOfFile, RecvFails, RecvInterrupted, Accept, ReadData, ReadFails,
     SendBack, SendBackFails, SendBackKills, Deliver, CloseEnd, Report, Read,
     Write, StreamTypeOK, End
<1>4. CASE RecvEndOfFile
  <2>1. EndOfFile("client") /\ UNCHANGED streamVars
    BY <1>4 DEF RecvEndOfFile
  <2>2. dlv["server"] - rcv["server"] = 0
    BY <2>1 DEF EndOfFile, Avail, Other
  <2>3. closed["server"] /\ (err["client"] = "none" => dlv["server"] = Len(wire["server"]))
    BY <2>1 DEF EndOfFile, FinArrived, Other, Resets
  <2> QED
    BY <1>2, <2>1, <2>2, <2>3 DEF Ended, streamVars
<1>5. CASE ~RecvEndOfFile
  <2> SUFFICES ASSUME eof'
               PROVE  /\ closed'["server"]
                      /\ rcv'["server"] = dlv'["server"]
                      /\ err'["client"] = "none" => dlv'["server"] = Len(wire'["server"])
    BY DEF Ended
  <2>1. eof
    BY <1>5 DEF Next, vars, clientVars, ClientCalls, ClientStep, Signal,
       ServerStep, Network, CreateNew, CreateNewFails, SendData, RecvData,
       Destroy, SendWrites, SendCutShort, SendInterrupted, SendStops,
       RecvReads, RecvFails, RecvInterrupted, Accept, ReadData, ReadFails,
       SendBack, SendBackFails, SendBackKills
  <2>2. /\ closed["server"] /\ sv \in {"gone", "killed"}
        /\ rcv["server"] = dlv["server"]
        /\ err["client"] = "none" => dlv["server"] = Len(wire["server"])
    BY <1>1, <2>1 DEF Ended, TypeOK
  <2>3. ~RecvReads
    <3>1. dlv["server"] - rcv["server"] = 0
      BY <1>2, <2>2
    <3>2. Avail("client") = 0
      BY <3>1 DEF Avail, Other
    <3>3. RecvReads => Avail("client") > 0
      BY DEF RecvReads
    <3> QED
      BY <3>2, <3>3
  <2>4. ~ServerStep
    BY <2>2 DEF ServerStep, Accept, ReadData, ReadFails, SendBack,
       SendBackFails, SendBackKills
  <2>5. wire'["server"] = wire["server"]
    <3>1. ~SendBack
      BY <2>4 DEF ServerStep
    <3> QED
      BY <1>1, <3>1, WireMoves, SendWritesAdds
  <2>6. rcv' = rcv
    BY <1>5, <2>3, <2>4 DEF Next, vars, streamVars, ClientCalls, ClientStep,
       Signal, Network, CreateNew, CreateNewFails, SendData, RecvData, Destroy,
       SendWrites, SendCutShort, SendInterrupted, SendStops, RecvFails,
       RecvInterrupted, Write, CloseEnd, Report, Deliver
  <2>7. dlv'["server"] = dlv["server"]
    <3>1. CASE Network
      <4>1. PICK e \in End : Deliver(e)
        BY <3>1 DEF Network
      <4>2. CASE e = "server"
        <5>1. err["client"] = "none" /\ dlv["server"] < Len(wire["server"])
          BY <4>1, <4>2 DEF Deliver, Other
        <5> QED
          BY <1>2, <2>2, <5>1
      <4>3. CASE e = "client"
        BY <1>1, <4>1, <4>3 DEF Deliver, StreamTypeOK, End
      <4> QED
        BY <4>2, <4>3 DEF End
    <3>2. CASE ~Network
      BY <2>3, <2>4, <3>2 DEF Next, vars, streamVars, ClientCalls, ClientStep,
         Signal, CreateNew, CreateNewFails, SendData, RecvData, Destroy,
         SendWrites, Write, SendCutShort, SendInterrupted, SendStops,
         RecvEndOfFile, RecvFails, RecvInterrupted, CloseEnd, Report
    <3> QED
      BY <3>1, <3>2
  <2>8. err'["client"] = "none" => err["client"] = "none"
    <3> USE <1>1 DEF StreamTypeOK
    <3>1. CASE \E e \in End : Deliver(e)
      BY <3>1 DEF Deliver, End, Other
    <3>2. CASE \E e \in End : CloseEnd(e) \/ Report(e)
      BY <3>2 DEF CloseEnd, Report, End, Other
    <3>3. CASE err' = err
      BY <3>3
    <3> QED
      BY <2>3, <2>4, <3>1, <3>2, <3>3 DEF Next, vars, streamVars, ClientCalls,
         ClientStep, Signal, Network, CreateNew, CreateNewFails, SendData,
         RecvData, Destroy, SendWrites, SendCutShort, SendInterrupted,
         SendStops, RecvEndOfFile, RecvFails, RecvInterrupted, Write, End
  <2> QED
    BY <1>3, <2>2, <2>5, <2>6, <2>7, <2>8
<1> QED
  BY <1>4, <1>5

LEMMA ContractInvariance == Spec => []ContractInv
<1>1. Init => ContractInv
  <2> SUFFICES ASSUME Init PROVE ContractInv
    OBVIOUS
  <2>1. <<>> \in Seq(Nat) /\ Len(<<>>) = 0
    BY EmptySeq
  <2>2. wire["client"] = <<>> /\ wire["server"] = <<>>
    BY DEF Init, StreamInit, End
  <2>3. Sent /\ Returned
    BY <2>1, <2>2 DEF Sent, Returned
  <2>4. Breaks /\ Resets
    BY DEF Init, StreamInit, Breaks, Resets, End
  <2>5. Places /\ Ended
    BY DEF Init, Places, Ended
  <2>6. Written
    BY <2>1, <2>2 DEF Init, Written
  <2>7. Buffered
    BY <2>1, <2>2, StreamAssumption DEF Init, StreamInit, Buffered, End
  <2> QED
    BY <2>3, <2>4, <2>5, <2>6, <2>7, InitTypes, InitComplete DEF ContractInv, WholeInv
<1>2. ContractInv /\ [Next]_vars => ContractInv'
  BY TypesStep, SentStep, ReturnedStep, CompleteStep, BreaksStep, PlacesStep,
     WrittenStep, BufferedStep, ResetsStep, EndedStep
  DEF ContractInv, OrderInv, WholeInv
<1> QED
  BY <1>1, <1>2, PTL DEF Spec

-----------------------------------------------------------------------------
(* Nobody waits for ever with nothing on the way: while a call of the      *)
(* program waits, it can go on, or the callback, or the network can.       *)
THEOREM NoDeadlock == Spec => []NobodyIsStuck
<1>1. ContractInv => NobodyIsStuck
  <2> SUFFICES ASSUME ContractInv, cl \in {"send", "recv"}, sv # "quit"
               PROVE  ClientCanGoOn \/ ServerCanGoOn \/ NetworkCanGoOn
    BY DEF NobodyIsStuck
  <2>1. TypeOK /\ StreamTypeOK
    BY DEF ContractInv, TInv, TypeOK
  <2>2. /\ rcv["server"] \in Nat /\ dlv["server"] \in Nat /\ Len(wire["server"]) \in Nat
        /\ rcv["server"] <= dlv["server"] /\ dlv["server"] <= Len(wire["server"])
        /\ dlv["client"] \in Nat /\ Len(wire["client"]) \in Nat
        /\ Cap \in Nat /\ Cap > 0
    BY <2>1, Ends, StreamAssumption
  <2>3. CASE sv \in {"backlog", "read"}
    <3>1. /\ Avail("server") = dlv["client"] - rcv["client"]
          /\ rcv["client"] \in Nat /\ rcv["client"] <= dlv["client"]
      BY <2>1, Ends DEF Avail, Other
    <3>2. Avail("server") > 0 \/ Avail("server") = 0
      BY <2>2, <3>1
    <3> QED
      BY <2>3, <3>2 DEF ServerCanGoOn, ReadRefused
  <2>4. CASE sv = "send"
    <3>1. Len(wire["server"]) - dlv["server"] <= Cap
      BY DEF ContractInv, Buffered
    <3>2. Room("server") > 0 \/ Room("server") = 0
      BY <2>2, <3>1 DEF Room
    <3>3. err["server"] \in {"none", "reset", "pipe"}
      BY <2>1 DEF StreamTypeOK, End
    <3> QED
      BY <2>4, <3>2, <3>3 DEF ServerCanGoOn, SendRefused
  <2>5. CASE sv \in {"gone", "killed"}
    <3>1. closed["server"] /\ ~closed["client"] /\ err["server"] = "none"
      BY <2>1, <2>5 DEF TypeOK, ContractInv, Breaks
    <3>2. CASE cl = "send"
      <4>1. CASE err["client"] # "none" \/ Room("client") > 0
        BY <3>2, <4>1 DEF ClientCanGoOn
      <4>2. CASE err["client"] = "none" /\ ~(Room("client") > 0)
        <5>1. dlv["client"] < Len(wire["client"])
          BY <2>2, <4>2 DEF Room
        <5> QED
          BY <3>1, <4>2, <5>1 DEF NetworkCanGoOn, End, Other
      <4> QED
        BY <4>1, <4>2
    <3>3. CASE cl = "recv"
      <4>1. CASE Avail("client") > 0 \/ err["client"] = "reset"
        BY <3>3, <4>1 DEF ClientCanGoOn
      <4>2. CASE ~(Avail("client") > 0) /\ err["client"] # "reset"
        <5>1. Avail("client") = 0 /\ rcv["server"] = dlv["server"]
          BY <2>2, <4>2 DEF Avail, Other
        <5>2. CASE err["client"] = "pipe"
          BY <3>3, <5>1, <5>2 DEF ClientCanGoOn, EndOfFile
        <5>3. CASE err["client"] = "none" /\ dlv["server"] = Len(wire["server"])
          BY <3>1, <3>3, <5>1, <5>3 DEF ClientCanGoOn, EndOfFile, FinArrived, Other
        <5>4. CASE err["client"] = "none" /\ dlv["server"] # Len(wire["server"])
          <6>1. dlv["server"] < Len(wire["server"]) /\ dlv["server"] - rcv["server"] < Cap
            BY <2>2, <5>1, <5>4
          <6> QED
            BY <3>1, <5>4, <6>1 DEF NetworkCanGoOn, End, Other
        <5> QED
          BY <2>1, <4>2, <5>2, <5>3, <5>4 DEF StreamTypeOK, End
      <4> QED
        BY <4>1, <4>2
    <3> QED
      BY <3>2, <3>3
  <2>6. sv # "none"
    BY DEF ContractInv, Places
  <2> QED
    BY <2>1, <2>3, <2>4, <2>5, <2>6 DEF TypeOK, ServerState
<1> QED
  BY <1>1, ContractInvariance, PTL

-----------------------------------------------------------------------------
(* The refinement: what the program has got back, and how it moves.        *)

LEMMA Prefix ==
    ASSUME NEW w \in Seq(Nat), NEW r \in Nat, r <= Len(w)
    PROVE  /\ SubSeq(w, 1, r) \in Seq(Nat) /\ Len(SubSeq(w, 1, r)) = r
           /\ \A i \in 1..r : SubSeq(w, 1, r)[i] = w[i]
<1>1. \A i \in 1..r : w[i] \in Nat
  <2>1. \A i \in 1..r : i \in 1..Len(w)
    BY LenProperties
  <2> QED
    BY <2>1, ElementOfSeq
<1>2. /\ SubSeq(w, 1, r) \in Seq(Nat)
      /\ Len(SubSeq(w, 1, r)) = IF 1 <= r THEN r - 1 + 1 ELSE 0
      /\ \A i \in 1..(r - 1 + 1) : SubSeq(w, 1, r)[i] = w[1 + i - 1]
  BY <1>1, SubSeqProperties
<1>3. \A i \in 1..r : i \in 1..(r - 1 + 1) /\ 1 + i - 1 = i
  OBVIOUS
<1>4. Len(SubSeq(w, 1, r)) = r
  BY <1>2
<1> QED
  BY <1>2, <1>3, <1>4

(* As much has come back as the program has read, before and after a step. *)
LEMMA BackIs ==
    ASSUME TInv, [Next]_vars
    PROVE  /\ Back \in Seq(Nat) /\ Len(Back) = rcv["server"]
           /\ rcv["server"] \in Nat /\ rcv["server"] <= Len(wire["server"])
           /\ \A i \in 1..rcv["server"] : Back[i] = wire["server"][i]
           /\ Back' \in Seq(Nat) /\ Len(Back') = rcv'["server"]
           /\ rcv'["server"] \in Nat /\ rcv'["server"] <= Len(wire'["server"])
           /\ \A i \in 1..rcv'["server"] : Back'[i] = wire'["server"][i]
<1>1. StreamTypeOK /\ StreamTypeOK'
  BY TypesStep DEF TInv, TypeOK
<1>2. \A r, d, l : r \in Nat /\ d \in Nat /\ l \in Nat /\ r <= d /\ d <= l => r <= l
  OBVIOUS
<1>3. wire["server"] \in Seq(Nat) /\ rcv["server"] \in Nat
      /\ rcv["server"] <= Len(wire["server"])
  BY <1>1, <1>2, Ends
<1>4. wire'["server"] \in Seq(Nat) /\ rcv'["server"] \in Nat
      /\ rcv'["server"] <= Len(wire'["server"])
  <2>1. /\ wire'["server"] \in Seq(Nat) /\ rcv'["server"] \in Nat /\ dlv'["server"] \in Nat
        /\ rcv'["server"] <= dlv'["server"] /\ dlv'["server"] <= Len(wire'["server"])
    BY <1>1 DEF StreamTypeOK, End
  <2> QED
    BY <1>2, <2>1, LenProperties
<1> QED
  BY <1>3, <1>4, Prefix DEF Back

(* The server's stream only grows, so what has come back stays.            *)
LEMMA BackStays ==
    ASSUME TInv, [Next]_vars, rcv'["server"] = rcv["server"]
    PROVE  Back' = Back
<1>1. TypeOK /\ StreamTypeOK
  BY DEF TInv, TypeOK
<1>2. /\ Back \in Seq(Nat) /\ Len(Back) = rcv["server"]
      /\ rcv["server"] \in Nat /\ rcv["server"] <= Len(wire["server"])
      /\ \A i \in 1..rcv["server"] : Back[i] = wire["server"][i]
  BY BackIs
<1>3. /\ Back' \in Seq(Nat) /\ Len(Back') = rcv'["server"]
      /\ \A i \in 1..rcv'["server"] : Back'[i] = wire'["server"][i]
  BY BackIs
<1>4. \A i \in 1..Len(wire["server"]) : wire'["server"][i] = wire["server"][i]
  <2>1. CASE SendBack
    BY <1>1, <2>1, SendBackAdds
  <2>2. CASE ~SendBack
    BY <1>1, <2>2, WireMoves, SendWritesAdds
  <2> QED
    BY <2>1, <2>2
<1>5. \A i \in 1..rcv["server"] : i \in 1..Len(wire["server"])
  <2>1. Len(wire["server"]) \in Nat
    BY <1>1, Ends
  <2> QED
    BY <1>2, <2>1
<1>6. \A i \in 1..Len(Back') : Back'[i] = Back[i]
  BY <1>2, <1>3, <1>4, <1>5
<1> QED
  BY <1>2, <1>3, <1>6, SeqEqual

(* What was lost stays lost.                                               *)
LEMMA IntactBefore ==
    ASSUME TInv, Written, [Next]_vars, Intact'
    PROVE  Intact
<1>1. short \subseteq short'
  BY DEF Next, vars, ClientCalls, ClientStep, Signal, ServerStep, Network,
     CreateNew, CreateNewFails, SendData, RecvData, Destroy, SendWrites,
     SendCutShort, SendInterrupted, SendStops, RecvReads, RecvEndOfFile,
     RecvFails, RecvInterrupted, Accept, ReadData, ReadFails, SendBack,
     SendBackFails, SendBackKills
<1> QED
  BY <1>1, MissingStays DEF Intact

LEMMA SendDataAsks ==
    ASSUME ContractInv, NEW n \in Sizes, SendData(n)
    PROVE  Contract!Ask
<1>1. TInv /\ TypeOK /\ StreamTypeOK /\ Places
  BY DEF ContractInv, TInv, TypeOK
<1>2. n \in Nat /\ n > 0 /\ pos \in Nat /\ todo \in Nat /\ MaxBytes \in Nat
  BY <1>1, EchoAssumption DEF TypeOK
<1>3. todo = 0 /\ pos' = pos + n /\ todo' = n
  BY <1>1, <1>2 DEF SendData, Places
<1>4. UNCHANGED <<wire, rcv, eof, short>>
  BY DEF SendData, streamVars
<1>5. Back' = Back
  BY <1>4 DEF Back
<1>6. pos' - todo' = pos - todo
  BY <1>2, <1>3
<1>7. Intact' = Intact
  BY <1>4, <1>6 DEF Intact
<1>8. pos' \in Nat /\ pos' > pos
  BY <1>2, <1>3
<1> QED
  BY <1>4, <1>5, <1>7, <1>8 DEF Contract!Ask

LEMMA RecvReadsAnswers ==
    ASSUME ContractInv, RecvReads
    PROVE  Contract!Answer
<1>1. TInv /\ TypeOK /\ StreamTypeOK /\ [Next]_vars
  BY DEF ContractInv, TInv, TypeOK, Next, ClientStep
<1>2. /\ Len(Back) = rcv["server"] /\ rcv["server"] \in Nat
      /\ \A i \in 1..rcv["server"] : Back[i] = wire["server"][i]
  BY <1>1, BackIs
<1>3. /\ UNCHANGED <<wire, dlv, closed, err, pos, todo, eof, short>>
      /\ Avail("client") > 0
      /\ rcv' = [rcv EXCEPT !["server"] = @ + AtMost(Avail("client"), Buf)]
  BY DEF RecvReads, Read, Other
<1>4. /\ Len(Back') = rcv'["server"] /\ rcv'["server"] \in Nat
      /\ rcv'["server"] <= Len(wire["server"])
      /\ \A i \in 1..rcv'["server"] : Back'[i] = wire["server"][i]
  BY <1>1, <1>3, BackIs
<1>5. rcv["server"] < rcv'["server"] /\ rcv["server"] # dlv["server"]
  <2>1. Avail("client") = dlv["server"] - rcv["server"] /\ dlv["server"] \in Nat
    BY <1>1, Ends DEF Avail, Other
  <2>2. AtMost(Avail("client"), Buf) \in Nat /\ AtMost(Avail("client"), Buf) > 0
    BY <1>2, <1>3, <2>1, EchoAssumption DEF AtMost
  <2>3. rcv'["server"] = rcv["server"] + AtMost(Avail("client"), Buf)
    BY <1>1, <1>3 DEF StreamTypeOK, End
  <2> QED
    BY <1>2, <1>3, <2>1, <2>2, <2>3
<1>6. ~eof
  BY <1>5 DEF ContractInv, Ended
<1>7. Len(wire["server"]) \in Nat /\ pos \in Nat /\ todo \in 0..pos
      /\ wire["server"] \in Seq(Nat)
  BY <1>1, Ends DEF TypeOK
<1>8. \A i \in 1..Len(Back') : i \in 1..Len(wire["server"]) /\ Back'[i] = wire["server"][i]
  BY <1>4, <1>7
<1>9. \A i \in 1..Len(Back) : Back'[i] = Back[i]
  BY <1>2, <1>4, <1>5
<1>10. \A i \in 1..Len(Back') : Back'[i] \in 1..pos
  <2> TAKE i \in 1..Len(Back')
  <2>1. wire["server"][i] \in Nat /\ 0 < wire["server"][i]
        /\ wire["server"][i] <= pos - todo
    BY <1>7, <1>8, ElementOfSeq DEF ContractInv, Returned
  <2>2. \A x, p, t : x \in Nat /\ p \in Nat /\ t \in 0..p /\ 0 < x /\ x <= p - t
            => x \in 1..p
    OBVIOUS
  <2> QED
    BY <1>7, <1>8, <2>1, <2>2
<1>11. \A i, j \in 1..Len(Back') : i < j => Back'[i] < Back'[j]
  BY <1>8 DEF ContractInv, Returned
<1>12. Intact => \A i \in 1..Len(Back') : Back'[i] = i
  <2> SUFFICES ASSUME Intact, NEW i \in 1..Len(Back') PROVE Back'[i] = i
    OBVIOUS
  <2>1. /\ Len(wire["server"]) = Base
        /\ wire["server"][i] = wire["client"][i]
    BY <1>8 DEF ContractInv, Complete, Intact
  <2>2. i \in 1..Len(wire["client"])
    <3>1. Base \in 0..rcv["client"] /\ Base \in Nat
      BY <1>1, BaseMoves
    <3>2. /\ rcv["client"] \in Nat /\ dlv["client"] \in Nat /\ Len(wire["client"]) \in Nat
          /\ rcv["client"] <= dlv["client"] /\ dlv["client"] <= Len(wire["client"])
      BY <1>1, Ends
    <3> QED
      BY <1>8, <2>1, <3>1, <3>2
  <2>3. wire["client"][i] = i
    BY <2>2 DEF ContractInv, Written, Intact
  <2> QED
    BY <1>8, <2>1, <2>3
<1>13. Intact' = Intact
  BY <1>3 DEF Intact
<1>14. Len(Back') > Len(Back)
  BY <1>2, <1>4, <1>5
<1> QED
  BY <1>3, <1>6, <1>9, <1>10, <1>11, <1>12, <1>13, <1>14 DEF Contract!Answer

LEMMA EndOfFileEnds ==
    ASSUME RecvEndOfFile
    PROVE  Contract!EndOfFile
<1>1. eof' = TRUE /\ UNCHANGED <<wire, rcv, pos, todo, short>>
  BY DEF RecvEndOfFile, streamVars
<1> QED
  BY <1>1 DEF Contract!EndOfFile, Back, Intact

(* Every other step loses bytes for good, or shows nothing.                *)
LEMMA OthersLoseOrStutter ==
    ASSUME ContractInv, [Next]_vars, ~RecvReads, ~RecvEndOfFile,
           ~ \E n \in Sizes : SendData(n)
    PROVE  Contract!Lose \/ UNCHANGED Contract!vars
<1>1. TInv /\ TypeOK /\ StreamTypeOK /\ Written
  BY DEF ContractInv, TInv, TypeOK
<1>2. pos' = pos /\ eof' = eof
  BY DEF Next, vars, clientVars, ClientCalls, ClientStep, Signal, ServerStep,
     Network, CreateNew, CreateNewFails, RecvData, Destroy, SendWrites,
     SendCutShort, SendInterrupted, SendStops, RecvFails, RecvInterrupted,
     Accept, ReadData, ReadFails, SendBack, SendBackFails, SendBackKills
<1>3. rcv'["server"] = rcv["server"]
  <2>1. CASE ReadData
    BY <1>1, <2>1 DEF ReadData, Read, Other, StreamTypeOK, End
  <2>2. CASE ~ReadData
    BY <2>2 DEF Next, vars, streamVars, ClientCalls, ClientStep, Signal,
       ServerStep, Network, CreateNew, CreateNewFails, RecvData, Destroy,
       SendWrites, SendCutShort, SendInterrupted, SendStops, RecvFails,
       RecvInterrupted, Accept, ReadFails, SendBack, SendBackFails,
       SendBackKills, Write, CloseEnd, Report, Deliver
  <2> QED
    BY <2>1, <2>2
<1>4. Back' = Back
  BY <1>1, <1>3, BackStays
<1>5. Intact' = Intact \/ Intact' = FALSE
  BY <1>1, IntactBefore DEF Intact
<1> QED
  BY <1>2, <1>4, <1>5 DEF Contract!Lose, Contract!vars

(* The client, the connection and the callback together implement          *)
(* ReplyContract.                                                          *)
THEOREM EchoKeepsContract == Spec => KeepsReplyContract
<1>1. Init => Contract!Init
  <2> SUFFICES ASSUME Init PROVE Contract!Init
    OBVIOUS
  <2>1. wire["client"] = <<>> /\ wire["server"] = <<>> /\ rcv["server"] = 0
    BY DEF Init, StreamInit, End
  <2>2. Back = <<>>
    BY <2>1, SubSeqEmpty DEF Back
  <2>3. <<>> \in Seq(Nat) /\ Len(<<>>) = 0
    BY EmptySeq
  <2>4. Intact = TRUE
    BY <2>1, <2>3 DEF Init, Intact
  <2> QED
    BY <2>2, <2>4 DEF Init, Contract!Init
<1>2. ContractInv /\ [Next]_vars => [Contract!Next]_Contract!vars
  <2> SUFFICES ASSUME ContractInv, [Next]_vars PROVE [Contract!Next]_Contract!vars
    OBVIOUS
  <2> QED
    BY SendDataAsks, RecvReadsAnswers, EndOfFileEnds, OthersLoseOrStutter
    DEF Contract!Next
<1> QED
  BY <1>1, <1>2, ContractInvariance, PTL DEF Spec, Contract!Spec, KeepsReplyContract
=============================================================================

------------------------ MODULE ServerContractProofs ------------------------
(***************************************************************************)
(* TCPServer implements PeerContract, for every set of connections,        *)
(* descriptors and threads, whatever fails and however often it restarts:  *)
(* each of its steps is a step of the contract or leaves the contract's    *)
(* variables alone.                                                        *)
(***************************************************************************)
EXTENDS ServerContract, TCPServerProofs

(* The epoll thread is in delClient only within a callback.                *)
LoopIdle == ~InCallback => self[Loop] = None

(* The client whose receive callback comes next has been announced, and is *)
(* still mapped unless another thread has read from it.                    *)
FoundInv ==
    pc = "found" =>
        /\ fdOf[cur] # None
        /\ told[cur] > 0 \/ Held(cur)
        /\ Thread = {} => Mapped(cur)

CInv == IInv /\ LoopIdle /\ FoundInv

(* What the contract sees of the server's state.                           *)
Serving == IF InCallback THEN cur ELSE None
Chosen == IF pc = "found" THEN cur ELSE None

-----------------------------------------------------------------------------
(* The two places that keep a client for the server.                       *)
LEMMA HeldFrame ==
    ASSUME UNCHANGED <<mgr, victim>>
    PROVE  \A c : (Held(c)' <=> Held(c)) /\ (Mapped(c)' <=> Mapped(c))
  BY DEF Held, Mapped

(* A step that tells nobody, numbers nobody and keeps what is held keeps   *)
(* every phase.                                                            *)
LEMMA PhaseFrame ==
    ASSUME UNCHANGED <<told, fdOf>>,
           \A c \in Conn : (InSetup(c)' <=> InSetup(c)) /\ (Held(c)' <=> Held(c))
    PROVE  Phase' = Phase
  BY DEF Phase

(* delClient's removal moves its client from the map to a local variable.  *)
LEMMA EraseKeepsHeld ==
    ASSUME IInv, NEW a \in Actor, EraseClient(a)
    PROVE  \A c \in Conn : Held(c)' <=> Held(c)
<1>1. victim[a] = None
  BY DEF EraseClient, IInv, DelClientInv
<1>2. self[a] \in Conn /\ Alive(self[a]) /\ fdOf[self[a]] \in FD
  BY ServerAssumption DEF EraseClient, IInv, TypeOK, AliveHasFD, Alive
<1> DEFINE fd == fdOf[self[a]]
<1>3. /\ \A g \in FD \ {fd} : mgr'[g] = mgr[g]
      /\ mgr'[fd] = None
      /\ \A b \in Actor \ {a} : victim'[b] = victim[b]
      /\ victim'[a] = mgr[fd]
  BY <1>2 DEF EraseClient, IInv, TypeOK
<1> HIDE DEF fd
<1>4. fd \in FD
  BY <1>2 DEF fd
<1> QED
  BY <1>1, <1>3, <1>4, ServerAssumption DEF Held, Mapped

-----------------------------------------------------------------------------
(* The epoll thread's own steps keep LoopIdle and FoundInv: only           *)
(* handleClientMsg finds a client, in the map.                             *)
LEMMA LoopStepKeepsCInv ==
    ASSUME CInv, LoopStep \/ CallbackReturn \/ CallbackThrows \/ Start
    PROVE  LoopIdle' /\ FoundInv'
<1> USE DEF CInv, LoopIdle, FoundInv, InCallback, delVars
<1>1. CASE Start \/ InitEpoll \/ InitEpollFails \/ CheckRunFlag \/ Shutdown
  <2>1. CASE Start
    BY <2>1 DEF Start, Ended
  <2>2. CASE InitEpoll
    BY <2>2 DEF InitEpoll, Goto
  <2>3. CASE InitEpollFails \/ CheckRunFlag \/ Shutdown
    BY <2>3 DEF InitEpollFails, CheckRunFlag, Shutdown, Goto, Fail
  <2> QED
    BY <1>1, <2>1, <2>2, <2>3
<1>2. CASE EpollWait \/ EpollTimeout \/ EpollWaitFails \/ BatchDone
  BY <1>2 DEF EpollWait, EpollTimeout, EpollWaitFails, BatchDone, Goto, Fail
<1>3. CASE \E e \in batch : ListenEvent(e) \/ UnknownClient(e)
  BY <1>3 DEF ListenEvent, UnknownClient, Fail
<1>4. ASSUME NEW e \in batch, HandleClientMsg(e)
      PROVE  LoopIdle' /\ FoundInv'
  <2>1. e.fd \in FD /\ mgr[e.fd] \in Conn
    BY <1>4 DEF HandleClientMsg, IInv, TypeOK, Event
  <2>2. fdOf[mgr[e.fd]] = e.fd
    BY <2>1, ServerAssumption DEF IInv, MapKeys
  <2>3. pc' = "found" /\ cur' = mgr[e.fd] /\ pc = "batch"
        /\ UNCHANGED <<mgr, fdOf, self, victim, told>>
    BY <1>4 DEF HandleClientMsg
  <2>4. Mapped(cur)'
    BY <2>1, <2>3 DEF Mapped
  <2> QED
    BY <2>1, <2>2, <2>3, <2>4, ServerAssumption DEF Held
<1>5. CASE (\E f \in FD : Accept(f)) \/ AcceptFails \/ Config \/ ConfigFails
  BY <1>5 DEF Accept, AcceptFails, Config, ConfigFails, Goto, Fail
<1>6. CASE AddToEpoll \/ AddFails \/ InsertClient \/ OnRecvData
  BY <1>6 DEF AddToEpoll, AddFails, InsertClient, OnRecvData, Goto, Fail
<1>7. CASE CallbackReturn \/ CallbackThrows
  BY <1>7 DEF CallbackReturn, CallbackThrows, Fail
<1> QED
  BY <1>1, <1>2, <1>3, <1>4, <1>5, <1>6, <1>7 DEF LoopStep

(* So do the application, delClient and the remote clients.                *)
LEMMA OtherStepKeepsCInv ==
    ASSUME CInv,
           \/ Stop \/ Keep \/ ClientStep \/ UNCHANGED vars
           \/ \E c \in Conn : Release(c)
           \/ \E a \in Actor : ReadStep(a) \/ DelStep(a)
    PROVE  LoopIdle' /\ FoundInv'
<1> USE DEF CInv, LoopIdle, FoundInv, InCallback
<1>1. CASE \/ Stop \/ Keep \/ ClientStep \/ UNCHANGED vars
           \/ \E c \in Conn : Release(c)
  <2>1. UNCHANGED <<pc, cur, fdOf, mgr, self, victim, told>>
    BY <1>1 DEF Stop, Keep, ClientStep, vars, Release, loopVars, delVars
  <2> QED
    BY <2>1, HeldFrame
<1>2. ASSUME NEW a \in Actor, ReadStep(a) \/ DelStep(a)
      PROVE  LoopIdle' /\ FoundInv'
  <2>1. UNCHANGED <<pc, cur, fdOf>>
    BY <1>2 DEF ReadStep, DelStep, ReadData, ReadFails, DelFromEpoll,
       DelNotRegistered, EraseClient, OnDisconnect, loopVars
  <2>2. LoopIdle'
    BY <1>2, <2>1, ServerAssumption
    DEF ReadStep, DelStep, ReadData, ReadFails, CanRead, DelFromEpoll,
        DelNotRegistered, EraseClient, OnDisconnect, delVars, IInv, TypeOK, Actor
  <2>3. pc = "found" => cur \in Conn /\ told[cur] \in Nat
    BY ServerAssumption DEF IInv, TypeOK, HasClient
  <2>4. CASE UNCHANGED <<mgr, victim, told>>
    BY <2>1, <2>2, <2>4, HeldFrame
  <2>5. CASE EraseClient(a)
    <3>1. pc = "found" => a # Loop
      BY <2>5, ServerAssumption DEF EraseClient, IInv, TypeOK, Actor
    <3>2. pc = "found" => Thread # {}
      BY <3>1 DEF Actor
    <3>3. pc = "found" => (Held(cur)' <=> Held(cur)) /\ told' = told
      BY <2>5, <2>1, <2>3, EraseKeepsHeld DEF EraseClient, Held, Mapped
    <3> QED
      BY <2>1, <2>2, <3>2, <3>3
  <2>6. CASE OnDisconnect(a)
    <3>1. ASSUME pc = "found"
          PROVE  /\ told'[cur] > 0 \/ Held(cur)'
                 /\ Mapped(cur)' <=> Mapped(cur)
      <4>1. Mapped(cur)' <=> Mapped(cur)
        BY <2>1, <2>6 DEF OnDisconnect, Mapped
      <4>2. CASE victim[a] = cur
        <5>1. told'[cur] = told[cur] + 1
          BY <2>3, <2>6, <3>1, <4>2 DEF OnDisconnect
        <5> QED
          BY <2>3, <3>1, <4>1, <5>1
      <4>3. CASE victim[a] # cur
        <5>1. told'[cur] = told[cur]
          BY <2>3, <2>6, <3>1, <4>3 DEF OnDisconnect
        <5>2. Held(cur) => Held(cur)'
          BY <2>1, <2>6, <4>1, <4>3 DEF OnDisconnect, Held, IInv, TypeOK
        <5> QED
          BY <3>1, <4>1, <5>1, <5>2
      <4> QED
        BY <4>1, <4>2, <4>3
    <3> QED
      BY <2>1, <2>2, <3>1
  <2> QED
    BY <1>2, <2>4, <2>5, <2>6
    DEF ReadStep, DelStep, ReadData, ReadFails, DelFromEpoll, DelNotRegistered,
        delVars
<1> QED
  BY <1>1, <1>2

-----------------------------------------------------------------------------
(* Steps that the contract does not see.                                   *)
LEMMA UnseenLoopStep ==
    ASSUME CInv,
           \/ Start \/ Stop \/ InitEpollFails \/ CheckRunFlag
           \/ EpollWait \/ EpollTimeout \/ BatchDone
           \/ \E e \in batch : ListenEvent(e)
           \/ Config \/ AddToEpoll
    PROVE  UNCHANGED <<Running, Phase, Chosen, Serving>>
<1> USE DEF CInv
<1>1. UNCHANGED <<told, fdOf, mgr, victim>>
  BY DEF Start, Stop, InitEpollFails, CheckRunFlag, EpollWait, EpollTimeout,
     BatchDone, ListenEvent, Config, AddToEpoll, delVars
<1>2. UNCHANGED <<Running, Chosen, Serving>>
  BY DEF Start, Ended, Stop, InitEpollFails, CheckRunFlag, EpollWait,
     EpollTimeout, BatchDone, ListenEvent, Config, AddToEpoll,
     Goto, Fail, loopVars, Running, Chosen, Serving, InCallback
<1>3. \A c \in Conn : InSetup(c)' <=> InSetup(c)
  BY DEF Start, Ended, Stop, InitEpollFails, CheckRunFlag, EpollWait,
     EpollTimeout, BatchDone, ListenEvent, Config, AddToEpoll,
     Goto, Fail, loopVars, InSetup
<1> QED
  BY <1>1, <1>2, <1>3, HeldFrame, PhaseFrame

(* A connection that has just been accepted is as unknown as before.       *)
LEMMA UnseenAccept ==
    ASSUME CInv, NEW f \in FD, Accept(f)
    PROVE  UNCHANGED <<Running, Phase, Chosen, Serving>>
<1> USE DEF CInv
<1>1. UNCHANGED <<Running, Chosen, Serving>>
  BY DEF Accept, Running, Chosen, Serving, InCallback
<1>0. PICK d \in Conn : d = Head(backlog) /\ 1 \in DOMAIN backlog /\ d = backlog[1]
  BY DEF Accept, IInv, TypeOK, KernelTypeOK
<1>2. fdOf[d] = None /\ told[d] = 0
  BY <1>0 DEF IInv, PendingIsNew, ToldInv
<1>3. UNCHANGED <<told, mgr, victim>> /\ cur' = d /\ pc' = "config" /\ pc = "accept"
      /\ fdOf' = [fdOf EXCEPT ![d] = f]
  BY <1>0 DEF Accept, delVars
<1>4. \A c \in Conn : c # d => fdOf'[c] = fdOf[c] /\ ~InSetup(c)' /\ ~InSetup(c)
  BY <1>2, <1>3 DEF InSetup, IInv, TypeOK
<1>5. InSetup(d)'
  BY <1>3 DEF InSetup
<1>6. \A c : Held(c)' <=> Held(c)
  BY <1>3, HeldFrame
<1>7. ASSUME NEW c \in Conn PROVE Phase'[c] = Phase[c]
  <2>1. CASE c = d
    BY <1>2, <1>3, <1>5, <2>1 DEF Phase
  <2>2. CASE c # d
    BY <1>3, <1>4, <1>6, <2>2 DEF Phase
  <2> QED
    BY <2>1, <2>2
<1>8. Phase' = Phase
  BY <1>7 DEF Phase
<1> QED
  BY <1>1, <1>8

(* Neither does it see the application's and the clients' steps, reads, or *)
(* the first two steps of delClient.                                       *)
LEMMA UnseenOtherStep ==
    ASSUME CInv,
           \/ Keep \/ ClientStep \/ UNCHANGED vars
           \/ \E c \in Conn : Release(c)
           \/ \E a \in Actor : \/ ReadStep(a)
                              \/ DelFromEpoll(a) \/ DelNotRegistered(a)
                              \/ EraseClient(a)
    PROVE  UNCHANGED <<Running, Phase, Chosen, Serving>>
<1> USE DEF CInv
<1>1. UNCHANGED <<told, fdOf, pc, cur>>
  BY DEF Keep, ClientStep, vars, Release, ReadStep, ReadData, ReadFails,
     DelFromEpoll, DelNotRegistered, EraseClient, loopVars, delVars
<1>2. \A c \in Conn : Held(c)' <=> Held(c)
  <2>1. CASE \E a \in Actor : EraseClient(a)
    BY <2>1, EraseKeepsHeld
  <2>2. CASE UNCHANGED <<mgr, victim>>
    BY <2>2, HeldFrame
  <2> QED
    BY <2>1, <2>2
    DEF Keep, ClientStep, vars, Release, ReadStep, ReadData, ReadFails,
        DelFromEpoll, DelNotRegistered, delVars
<1>3. \A c \in Conn : InSetup(c)' <=> InSetup(c)
  BY <1>1 DEF InSetup
<1> QED
  BY <1>1, <1>2, <1>3, PhaseFrame DEF Running, Chosen, Serving, InCallback

-----------------------------------------------------------------------------
(* Steps of the contract.                                                  *)

(* initEpoll: the server serves.                                           *)
LEMMA InitEpollBegins ==
    ASSUME CInv, InitEpoll
    PROVE  ~Running /\ Running' /\ UNCHANGED <<Phase, Chosen, Serving>>
<1>1. UNCHANGED <<told, fdOf, mgr, victim, cur>> /\ pc = "init" /\ pc' \in {"check", "wait"}
  BY DEF InitEpoll, Goto, delVars
<1>2. \A c \in Conn : InSetup(c)' <=> InSetup(c)
  BY <1>1 DEF InSetup
<1> QED
  BY <1>1, <1>2, HeldFrame, PhaseFrame DEF Running, Chosen, Serving, InCallback

(* The insertion into the map announces its client, and nobody else.       *)
LEMMA InsertAnnounces ==
    ASSUME CInv, InsertClient
    PROVE  /\ cur \in Conn /\ Running /\ Running' /\ Serving = None
           /\ Serving' = cur
           /\ Chosen = None /\ Chosen' = None
           /\ Phase[cur] = "unknown"
           /\ Phase' = [Phase EXCEPT ![cur] = "announced"]
<1> USE DEF CInv
<1>1. UNCHANGED <<told, fdOf, victim, cur>> /\ pc = "insert" /\ pc' = "newcb"
      /\ mgr' = [mgr EXCEPT ![fdOf[cur]] = cur]
  BY DEF InsertClient, Goto, delVars
<1>2. cur \in Conn /\ fdOf[cur] \in FD /\ told[cur] = 0
  BY <1>1, ServerAssumption
  DEF IInv, TypeOK, HasClient, AliveHasFD, Alive, CurIsPrivate, NotShared
<1>3. mgr[fdOf[cur]] = None
  <2>1. mgr[fdOf[cur]] # None => mgr[fdOf[cur]] = cur
    <3> SUFFICES ASSUME mgr[fdOf[cur]] # None PROVE mgr[fdOf[cur]] = cur
      OBVIOUS
    <3>1. /\ mgr[fdOf[cur]] \in Conn /\ Alive(mgr[fdOf[cur]]) /\ Alive(cur)
          /\ fdOf[mgr[fdOf[cur]]] = fdOf[cur]
      BY <1>2 DEF IInv, TypeOK, MapKeys, Alive
    <3> QED
      BY <1>2, <3>1 DEF IInv, DistinctFDs
  <2> QED
    BY <1>1, <1>2, <2>1 DEF IInv, CurIsPrivate, NotShared
<1>4. Held(cur)'
  BY <1>1, <1>2 DEF Held, Mapped, IInv, TypeOK
<1>5. \A c \in Conn : c # cur => (Held(c)' <=> Held(c))
  BY <1>1, <1>2, <1>3, ServerAssumption DEF Held, Mapped, IInv, TypeOK
<1>6. InSetup(cur) /\ \A c \in Conn : ~InSetup(c)' /\ (c # cur => ~InSetup(c))
  BY <1>1 DEF InSetup
<1>7. Phase[cur] = "unknown"
  BY <1>2, <1>6 DEF Phase
<1>8. Phase' = [Phase EXCEPT ![cur] = "announced"]
  <2>1. Phase'[cur] = "announced"
    BY <1>1, <1>2, <1>4, <1>6, ServerAssumption DEF Phase
  <2>2. \A c \in Conn : c # cur => Phase'[c] = Phase[c]
    BY <1>1, <1>5, <1>6 DEF Phase
  <2> QED
    BY <1>2, <2>1, <2>2 DEF Phase
<1> QED
  BY <1>1, <1>2, <1>7, <1>8 DEF Running, Chosen, Serving, InCallback

(* handleClientMsg decides on a client of the map, which has not been told. *)
LEMMA HandleClientMsgChooses ==
    ASSUME CInv, NEW e \in batch, HandleClientMsg(e)
    PROVE  /\ Running /\ Chosen = None /\ Serving = None
           /\ Chosen' \in Conn
           /\ Phase[Chosen'] = "announced"
           /\ UNCHANGED <<Running, Phase, Serving>>
<1> USE DEF CInv
<1> DEFINE c == mgr[e.fd]
<1>1. /\ UNCHANGED <<told, fdOf, mgr, victim>>
      /\ pc = "batch" /\ pc' = "found" /\ cur' = c /\ c # None
  BY DEF HandleClientMsg, delVars
<1>2. e.fd \in FD /\ c \in Conn
  BY <1>1 DEF HandleClientMsg, IInv, TypeOK, Event
<1>3. Mapped(c) /\ fdOf[c] = e.fd
  BY <1>1, <1>2 DEF Mapped, IInv, MapKeys
<1>4. told[c] = 0 /\ Held(c)
  BY <1>1, <1>2, <1>3, ServerAssumption DEF Held, Mapped, IInv, ToldInv
<1>5. \A d \in Conn : ~InSetup(d)' /\ ~InSetup(d)
  BY <1>1 DEF InSetup
<1>6. Phase[c] = "announced"
  BY <1>2, <1>3, <1>4, <1>5, ServerAssumption DEF Phase
<1>7. Phase' = Phase
  BY <1>1, <1>5, HeldFrame, PhaseFrame
<1> HIDE DEF c
<1> QED
  BY <1>1, <1>2, <1>6, <1>7 DEF Running, Chosen, Serving, InCallback

(* The receive callback is that of a client which has been announced.      *)
LEMMA OnRecvDataReceives ==
    ASSUME CInv, OnRecvData
    PROVE  /\ cur \in Conn /\ Running
           /\ Chosen = cur /\ Chosen' = None
           /\ Serving' = cur
           /\ Phase[cur] = "announced" \/ (Thread # {} /\ Phase[cur] = "gone")
           /\ UNCHANGED <<Running, Phase>>
<1> USE DEF CInv
<1>1. UNCHANGED <<told, fdOf, mgr, victim, cur>> /\ pc = "found" /\ pc' = "recvcb"
  BY DEF OnRecvData, Goto, delVars
<1>2. cur \in Conn
  BY <1>1 DEF IInv, TypeOK, HasClient
<1>3. \A c \in Conn : ~InSetup(c)' /\ ~InSetup(c)
  BY <1>1 DEF InSetup
<1>4. Phase' = Phase
  BY <1>1, <1>3, HeldFrame, PhaseFrame
<1>5. Mapped(cur) => told[cur] = 0 /\ Held(cur)
  BY <1>2, ServerAssumption DEF Mapped, Held, IInv, ToldInv
<1>6. fdOf[cur] # None /\ (told[cur] > 0 \/ Held(cur)) /\ (Thread = {} => Mapped(cur))
  BY <1>1 DEF FoundInv
<1>7. told[cur] \in Nat
  BY <1>2 DEF IInv, TypeOK
<1>8. Phase[cur] = IF told[cur] > 0 THEN "gone" ELSE "announced"
  BY <1>2, <1>3, <1>6 DEF Phase
<1>9. Thread = {} => ~(told[cur] > 0)
  BY <1>5, <1>6, <1>7
<1>10. Phase[cur] = "announced" \/ (Thread # {} /\ Phase[cur] = "gone")
  BY <1>8, <1>9
<1> QED
  BY <1>1, <1>2, <1>4, <1>10 DEF Running, Chosen, Serving, InCallback

(* The end of a callback.                                                  *)
LEMMA CallbackReturns ==
    ASSUME CInv, CallbackReturn
    PROVE  Serving # None /\ Serving' = None /\ UNCHANGED <<Running, Phase, Chosen>>
<1> USE DEF CInv
<1>1. UNCHANGED <<told, fdOf, mgr, victim>> /\ InCallback /\ pc' = "batch"
  BY DEF CallbackReturn, delVars
<1>2. cur \in Conn /\ cur # None
  BY <1>1, ServerAssumption DEF IInv, TypeOK, HasClient, InCallback
<1>3. \A c \in Conn : ~InSetup(c)' /\ ~InSetup(c)
  BY <1>1 DEF InSetup, InCallback
<1> QED
  BY <1>1, <1>2, <1>3, HeldFrame, PhaseFrame
  DEF Running, Chosen, Serving, InCallback

(* delClient's third step tells its client, if it found one.               *)
LEMMA OnDisconnectTells ==
    ASSUME CInv, NEW a \in Actor, OnDisconnect(a)
    PROVE  /\ UNCHANGED <<Running, Chosen, Serving>>
           /\ \/ Phase' = Phase
              \/ /\ victim[a] \in Conn
                 /\ Phase[victim[a]] = "announced"
                 /\ Phase' = [Phase EXCEPT ![victim[a]] = "gone"]
<1> USE DEF CInv
<1>1. UNCHANGED <<pc, cur, fdOf, mgr>>
      /\ told' = [c \in Conn |-> IF victim[a] = c THEN told[c] + 1 ELSE told[c]]
      /\ victim' = [victim EXCEPT ![a] = None]
  BY DEF OnDisconnect, loopVars
<1>2. \A c \in Conn : InSetup(c)' <=> InSetup(c)
  BY <1>1 DEF InSetup
<1>3. \A c \in Conn : c # victim[a] => (Held(c)' <=> Held(c)) /\ told'[c] = told[c]
  BY <1>1, ServerAssumption DEF Held, Mapped, IInv, TypeOK
<1>4. CASE victim[a] = None
  <2>1. \A c \in Conn : (Held(c)' <=> Held(c)) /\ told'[c] = told[c]
    BY <1>3, <1>4, ServerAssumption
  <2>2. Phase' = Phase
    BY <1>1, <1>2, <2>1 DEF Phase
  <2> QED
    BY <1>1, <2>2 DEF Running, Chosen, Serving, InCallback
<1>5. CASE victim[a] # None
  <2> DEFINE v == victim[a]
  <2>1. v \in Conn /\ told[v] = 0 /\ fdOf[v] # None /\ Held(v)
    BY <1>5, ServerAssumption
    DEF IInv, TypeOK, ToldInv, AliveHasFD, Alive, Held
  <2>2. told'[v] > 0
    BY <1>1, <2>1
  <2>3. ~InSetup(v)
    BY <1>5 DEF InSetup, IInv, CurIsPrivate, NotShared
  <2>4. Phase[v] = "announced"
    BY <2>1, <2>3 DEF Phase
  <2>5. \A c \in Conn : c # v => (Held(c)' <=> Held(c)) /\ told'[c] = told[c]
    BY <1>3
  <2> HIDE DEF v
  <2>6. Phase' = [Phase EXCEPT ![v] = "gone"]
    BY <1>1, <1>2, <2>1, <2>2, <2>5 DEF Phase
  <2> QED
    BY <1>1, <2>1, <2>4, <2>6 DEF Running, Chosen, Serving, InCallback, v
<1> QED
  BY <1>4, <1>5

(* However the epoll thread ends, clients only go from unknown or          *)
(* announced to left.                                                      *)
LEMMA ThreadEnds ==
    ASSUME CInv,
           \/ Shutdown \/ EpollWaitFails \/ AcceptFails \/ ConfigFails \/ AddFails
           \/ CallbackThrows \/ \E e \in batch : UnknownClient(e)
    PROVE  /\ Running /\ ~Running' /\ Serving' = None
           /\ Chosen = None /\ Chosen' = None
           /\ \A c \in Conn :
                 \/ Phase'[c] = Phase[c]
                 \/ Phase[c] \in {"unknown", "announced"} /\ Phase'[c] = "left"
<1> USE DEF CInv
<1>1. /\ UNCHANGED <<told, fdOf, victim>>
      /\ pc \in {"check", "wait", "accept", "config", "add", "newcb", "recvcb", "batch"}
      /\ pc' \in {"done", "failed"}
  BY DEF Shutdown, EpollWaitFails, AcceptFails, ConfigFails, AddFails,
     CallbackThrows, InCallback, UnknownClient, Goto, Fail, delVars
<1>2. \A c \in Conn : Held(c)' => Held(c)
  <2>1. CASE Shutdown
    BY <2>1, <1>1, ServerAssumption DEF Shutdown, Held, Mapped
  <2>2. CASE UNCHANGED mgr
    BY <2>2, <1>1, HeldFrame
  <2> QED
    BY <2>1, <2>2 DEF EpollWaitFails, AcceptFails, ConfigFails, AddFails,
       CallbackThrows, UnknownClient
<1>3. \A c \in Conn : InSetup(c) => ~Held(c)
  BY DEF InSetup, Held, Mapped, IInv, CurIsPrivate, NotShared
<1>4. \A c \in Conn : ~InSetup(c)'
  BY <1>1 DEF InSetup
<1>5. ASSUME NEW c \in Conn
      PROVE  \/ Phase'[c] = Phase[c]
             \/ Phase[c] \in {"unknown", "announced"} /\ Phase'[c] = "left"
  BY <1>1, <1>2, <1>3, <1>4 DEF Phase
<1> QED
  BY <1>1, <1>5 DEF Running, Chosen, Serving, InCallback

-----------------------------------------------------------------------------
(* Every step of the server is one of the contract, or none.               *)
LEMMA StepKeepsContract ==
    ASSUME CInv, [Next]_vars
    PROVE  [Contract!Next]_(Contract!vars)
<1> USE DEF Contract!vars
<1>0. /\ Contract!vars = <<Running, Phase, Chosen, Serving>>
      /\ Contract!vars' = <<Running', Phase', Chosen', Serving'>>
  BY DEF Chosen, Serving
<1>1. CASE UNCHANGED <<Running, Phase, Chosen, Serving>>
  BY <1>1, <1>0
<1>2. CASE InitEpoll
  BY <1>2, InitEpollBegins DEF Contract!Next, Contract!Begin, Chosen, Serving
<1>3. CASE InsertClient
  <2>1. Contract!Announce(cur) /\ cur \in Conn
    BY <1>3, InsertAnnounces DEF Contract!Announce, Chosen, Serving
  <2> QED
    BY <2>1 DEF Contract!Next
<1>4. CASE OnRecvData
  <2>1. Contract!Receive(cur) /\ cur \in Conn
    BY <1>4, OnRecvDataReceives DEF Contract!Receive, Chosen, Serving
  <2> QED
    BY <2>1 DEF Contract!Next
<1>5. CASE CallbackReturn
  BY <1>5, CallbackReturns DEF Contract!Next, Contract!Return, Chosen, Serving
<1>6. ASSUME NEW a \in Actor, OnDisconnect(a)
      PROVE  [Contract!Next]_(Contract!vars)
  <2>1. CASE UNCHANGED <<Running, Phase, Chosen, Serving>>
    BY <2>1, <1>1
  <2>2. CASE ~UNCHANGED <<Running, Phase, Chosen, Serving>>
    <3>1. Contract!Disconnect(victim[a]) /\ victim[a] \in Conn
      BY <1>6, <2>2, OnDisconnectTells DEF Contract!Disconnect, Chosen, Serving
    <3> QED
      BY <3>1 DEF Contract!Next
  <2> QED
    BY <2>1, <2>2
<1>7. CASE \/ Shutdown \/ EpollWaitFails \/ AcceptFails \/ ConfigFails \/ AddFails
           \/ CallbackThrows \/ \E e \in batch : UnknownClient(e)
  <2> DEFINE left == {c \in Conn : Phase'[c] # Phase[c]}
  <2>1. /\ Running /\ ~Running' /\ Serving' = None
        /\ Chosen = None /\ Chosen' = None
        /\ \A c \in left : Phase[c] \in {"unknown", "announced"} /\ Phase'[c] = "left"
    BY <1>7, ThreadEnds
  <2>2. Phase' = [c \in Conn |-> IF c \in left THEN "left" ELSE Phase[c]]
    BY <2>1 DEF Phase
  <2>3. left \in SUBSET {c \in Conn : Phase[c] \in {"unknown", "announced"}}
    BY <2>1
  <2> HIDE DEF left
  <2>4. Contract!End
    BY <2>1, <2>2, <2>3 DEF Contract!End, Chosen, Serving
  <2> QED
    BY <2>4 DEF Contract!Next
<1>8. ASSUME NEW e \in batch, HandleClientMsg(e)
      PROVE  [Contract!Next]_(Contract!vars)
  <2>1. Contract!Choose(Chosen') /\ Chosen' \in Conn
    BY <1>8, HandleClientMsgChooses DEF Contract!Choose, Chosen, Serving
  <2> QED
    BY <2>1 DEF Contract!Next
<1> QED
  BY <1>1, <1>2, <1>3, <1>4, <1>5, <1>6, <1>7, <1>8, UnseenLoopStep, UnseenAccept,
     UnseenOtherStep DEF Next, LoopStep, DelStep

(* The epoll thread is in delClient only within a callback, and calls      *)
(* onRecvData for announced clients only.                                  *)
THEOREM CallbackInvariance == Spec => []CInv
<1>1. Init => LoopIdle /\ FoundInv
  BY DEF Init, LoopIdle, FoundInv, Actor
<1>2. CInv /\ [Next]_vars => LoopIdle' /\ FoundInv'
  BY LoopStepKeepsCInv, OtherStepKeepsCInv DEF Next
<1> QED
  BY <1>1, <1>2, Invariance, PTL DEF Spec, CInv

(* TCPServer implements PeerContract.                                      *)
THEOREM ServerKeepsContract == Spec => KeepsContract
<1>1. Init => Contract!Init
  <2> SUFFICES ASSUME Init PROVE Contract!Init
    OBVIOUS
  <2>1. ~Running /\ ~InCallback /\ pc # "found"
    BY DEF Init, Running, InCallback
  <2>2. Phase = [c \in Conn |-> "unknown"]
    <3>1. \A c \in Conn : told[c] = 0 /\ fdOf[c] = None
      BY DEF Init
    <3> QED
      BY <3>1 DEF Phase
  <2> QED
    BY <2>1, <2>2 DEF Contract!Init
<1>2. CInv /\ [Next]_vars => [Contract!Next]_(Contract!vars)
  BY StepKeepsContract
<1> QED
  BY <1>1, <1>2, CallbackInvariance, PTL DEF Spec, KeepsContract, Contract!Spec

(* Where only the server's own thread reads, the receive callback never    *)
(* follows the disconnect callback.                                        *)
THEOREM NoLateReceive ==
    ASSUME Thread = {}
    PROVE  Spec => NoRecvAfterDisconnect
<1> DEFINE InTime == pc = "found" => told[cur] = 0
<1>1. CInv => InTime
  <2> SUFFICES ASSUME CInv, pc = "found" PROVE told[cur] = 0
    OBVIOUS
  <2>1. cur \in Conn /\ Mapped(cur)
    BY DEF CInv, FoundInv, IInv, TypeOK, HasClient
  <2> QED
    BY <2>1, ServerAssumption DEF Mapped, CInv, IInv, ToldInv
<1>2. InTime => [pc = "found" /\ pc' = "recvcb" => told[cur] = 0]_vars
  OBVIOUS
<1> HIDE DEF InTime
<1> QED
  BY <1>1, <1>2, CallbackInvariance, PTL DEF NoRecvAfterDisconnect
=============================================================================

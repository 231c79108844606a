---------------------------- MODULE WakeupProofs ----------------------------
(***************************************************************************)
(* Proofs about edge-triggered notification: no wakeup is lost between the *)
(* kernel's ready list, event_list and the receive callback, whatever      *)
(* threads do and whatever fails; the clients of the map are served; and   *)
(* without application threads no event of event_list is stale.            *)
(***************************************************************************)
EXTENDS ServerContractProofs

(* An event carries the number of the descriptor it was reported for.      *)
Sources ==
    \A e \in batch :
        IF e.fd = Listen THEN e.src = Listen
                         ELSE e.src \in Conn /\ e.fd = fdOf[e.src] /\ e.fd \in FD

(* The map holds c, or handleNewClientConnect is about to insert it.       *)
Mapping(c) == Mapped(c) \/ (pc = "insert" /\ cur = c)

(* What is on its way to c's receive callback.                             *)
Pending(c) ==
    \/ c \in ready
    \/ \E e \in batch : e.src = c
    \/ pc = "found" /\ cur = c

Wake ==
    Running => \A c \in fresh :
        c \in interest /\ Mapping(c) /\ Readable(c) => Pending(c)

-----------------------------------------------------------------------------
(* Events keep their descriptors: a connection that has an event has been  *)
(* accepted before.                                                        *)
LEMMA SourcesStep ==
    ASSUME IInv, Sources, [Next]_vars
    PROVE  Sources'
<1>1. CASE EpollWait
  <2>1. PICK E \in SUBSET Deliverable(OpenItems) : batch' = {EventOf(i) : i \in E}
    BY <1>1 DEF EpollWait
  <2>2. \A i \in E : i = Listen \/ (i \in Conn /\ fdOf[i] \in FD)
    BY <2>1 DEF Deliverable, OpenItems, IInv, AliveHasFD
  <2>3. fdOf' = fdOf
    BY <1>1 DEF EpollWait
  <2>4. ASSUME NEW i \in E
        PROVE  IF EventOf(i).fd = Listen
               THEN EventOf(i).src = Listen
               ELSE /\ EventOf(i).src \in Conn /\ EventOf(i).fd = fdOf[EventOf(i).src]
                    /\ EventOf(i).fd \in FD
    BY <2>2, ServerAssumption, KernelAssumption DEF EventOf
  <2> QED
    BY <2>1, <2>3, <2>4 DEF Sources
<1>2. ASSUME NEW f \in FD, Accept(f)
      PROVE  Sources'
  <2>1. backlog # <<>> /\ Head(backlog) \in Conn /\ fdOf[Head(backlog)] = None
    BY <1>2 DEF Accept, IInv, TypeOK, KernelTypeOK, PendingIsNew
  <2>2. batch' = batch /\ fdOf' = [fdOf EXCEPT ![Head(backlog)] = f]
    BY <1>2 DEF Accept
  <2>3. \A e \in batch : e.fd # Listen => e.src # Head(backlog)
    BY <2>1, ServerAssumption DEF Sources
  <2>4. \A c \in Conn : c # Head(backlog) => fdOf'[c] = fdOf[c]
    BY <2>2 DEF IInv, TypeOK
  <2> QED
    BY <2>2, <2>3, <2>4 DEF Sources
<1>3. CASE batch' \subseteq batch /\ fdOf' = fdOf
  BY <1>3 DEF Sources
<1>4. CASE LoopStep
  BY <1>1, <1>2, <1>3, <1>4
  DEF LoopStep, InitEpoll, InitEpollFails, CheckRunFlag, Shutdown, EpollTimeout,
      EpollWaitFails, BatchDone, ListenEvent, HandleClientMsg, UnknownClient,
      AcceptFails, Config, ConfigFails, AddToEpoll, AddFails, InsertClient,
      OnRecvData, Goto, Fail
<1>5. CASE ~LoopStep
  BY <1>3, <1>5
  DEF Next, vars, loopVars, Start, Stop, CallbackReturn, CallbackThrows, Fail, Keep,
      Release, ReadStep, ReadData, ReadFails, DelStep, DelFromEpoll,
      DelNotRegistered, EraseClient, OnDisconnect, ClientStep
<1> QED
  BY <1>4, <1>5

(* A client of the map is mapped under its own number, and is open.        *)
LEMMA MappedIsOpen ==
    ASSUME IInv, NEW c \in Conn, Mapping(c)
    PROVE  c \in OpenItems /\ fdOf[c] \in FD
<1>1. Alive(c)
  BY ServerAssumption DEF Mapping, Mapped, Alive
<1> QED
  BY <1>1 DEF OpenItems, IInv, AliveHasFD

LEMMA MappedAt ==
    ASSUME IInv, NEW c \in Conn, Mapped(c)
    PROVE  mgr[fdOf[c]] = c /\ fdOf[c] \in FD
  BY ServerAssumption DEF IInv, MapKeys, Mapped

-----------------------------------------------------------------------------
(* The steps of the epoll thread.                                          *)
LEMMA WakeLoopStep ==
    ASSUME IInv, Sources, Wake, LoopStep
    PROVE  Wake'
<1> SUFFICES ASSUME Running', NEW c \in fresh', c \in interest', Mapping(c)', Readable(c)'
             PROVE  Pending(c)'
  BY DEF Wake
<1>1. c \in Conn /\ c # Listen /\ fresh' \subseteq fresh
  <2>1. fresh' \subseteq fresh
    BY DEF LoopStep, InitEpoll, InitEpollFails, CheckRunFlag, Shutdown, EpollWait,
       EpollTimeout, EpollWaitFails, BatchDone, ListenEvent, HandleClientMsg,
       UnknownClient, Accept, AcceptFails, Config, ConfigFails, AddToEpoll, AddFails,
       InsertClient, OnRecvData, kernelVars
  <2> QED
    BY <2>1, KernelAssumption DEF IInv, TypeOK, KernelTypeOK
<1>2. CASE InitEpoll \/ InitEpollFails
  BY <1>1, <1>2 DEF InitEpoll, InitEpollFails
<1>3. CASE EpollWaitFails \/ AcceptFails \/ ConfigFails \/ AddFails \/ Shutdown
           \/ \E e \in batch : UnknownClient(e)
  BY <1>3 DEF EpollWaitFails, AcceptFails, ConfigFails, AddFails, Shutdown,
     UnknownClient, Fail, Goto, Running
<1>4. CASE CheckRunFlag \/ BatchDone \/ Config
  <2>1. /\ UNCHANGED <<kernelVars, mgr, batch, cur>> /\ pc' # "insert" /\ Running
        /\ pc # "found"
    BY <1>4 DEF CheckRunFlag, BatchDone, Config, Goto, Running
  <2>2. Mapping(c) /\ Readable(c) /\ c \in interest
    BY <2>1 DEF Mapping, Mapped, Readable, kernelVars, netVars, epollVars
  <2>3. Pending(c)
    BY <1>1, <2>1, <2>2 DEF Wake
  <2> QED
    BY <2>1, <2>3 DEF Pending, kernelVars, epollVars
<1>5. CASE \E e \in batch : ListenEvent(e)
  <2>1. PICK e \in batch : ListenEvent(e)
    BY <1>5
  <2>2. /\ UNCHANGED <<kernelVars, mgr, cur>> /\ pc' = "accept" /\ pc = "batch"
        /\ batch' = batch \ {e} /\ e.fd = Listen
    BY <2>1 DEF ListenEvent
  <2>3. Mapping(c) /\ Readable(c) /\ c \in interest
    BY <2>2 DEF Mapping, Mapped, Readable, kernelVars, netVars, epollVars
  <2>4. Pending(c)
    BY <1>1, <2>2, <2>3 DEF Wake, Running
  <2>5. e.src = Listen
    BY <2>2 DEF Sources
  <2> QED
    BY <1>1, <2>2, <2>4, <2>5 DEF Pending, kernelVars, epollVars
<1>6. CASE EpollWait
  <2>1. PICK E \in SUBSET Deliverable(OpenItems) :
          ready' = Deliverable(OpenItems) \ E /\ batch' = {EventOf(i) : i \in E}
    BY <1>6 DEF EpollWait, EpollReport
  <2>2. /\ UNCHANGED <<netVars, fresh, interest, mgr, cur>> /\ pc' = "batch" /\ pc = "wait"
    BY <1>6 DEF EpollWait, EpollReport
  <2>3. Mapping(c) /\ Readable(c) /\ c \in interest
    BY <2>2 DEF Mapping, Mapped, Readable, netVars
  <2>4. Pending(c) /\ batch = {}
    BY <1>1, <2>2, <2>3 DEF Wake, Running, IInv, BatchInv
  <2>5. c \in Deliverable(OpenItems)
    BY <1>1, <2>2, <2>3, <2>4, MappedIsOpen DEF Pending, Deliverable
  <2>6. ASSUME c \in E
        PROVE  \E e \in batch' : e.src = c
    <3>1. EventOf(c) \in batch' /\ EventOf(c).src = c
      BY <2>1, <2>6 DEF EventOf
    <3> QED
      BY <3>1
  <2> QED
    BY <2>1, <2>5, <2>6 DEF Pending
<1>7. CASE EpollTimeout
  <2>1. /\ UNCHANGED <<netVars, fresh, interest, mgr, cur, batch>>
        /\ pc' = "check" /\ pc = "wait" /\ Deliverable(OpenItems) = {}
    BY <1>7 DEF EpollTimeout, EpollReport, Goto
  <2>2. Mapping(c) /\ Readable(c) /\ c \in interest
    BY <2>1 DEF Mapping, Mapped, Readable, netVars
  <2>3. Pending(c) /\ batch = {}
    BY <1>1, <2>1, <2>2 DEF Wake, Running, IInv, BatchInv
  <2>4. c \in Deliverable(OpenItems)
    BY <1>1, <2>1, <2>2, <2>3, MappedIsOpen DEF Pending, Deliverable
  <2> QED
    BY <2>1, <2>4
<1>8. CASE \E f \in FD : Accept(f)
  <2>1. /\ UNCHANGED <<rx, remote, epollVars, fresh, mgr, batch>>
        /\ pc' = "config" /\ pc = "accept"
    BY <1>8 DEF Accept
  <2>2. Mapping(c) /\ Readable(c) /\ c \in interest
    BY <1>1, <2>1 DEF Mapping, Mapped, Readable, epollVars
  <2>3. Pending(c)
    BY <1>1, <2>1, <2>2 DEF Wake, Running
  <2> QED
    BY <2>1, <2>3 DEF Pending, epollVars
<1>9. CASE AddToEpoll
  <2>1. /\ UNCHANGED <<netVars, fresh, mgr, batch, cur>> /\ pc' = "insert" /\ pc = "add"
        /\ EpollAdd(cur)
    BY <1>9 DEF AddToEpoll, Goto
  <2>2. Readable(c)
    BY <2>1 DEF Readable, netVars
  <2>3. CASE c = cur
    BY <2>1, <2>2, <2>3 DEF EpollAdd, Pending
  <2>4. CASE c # cur
    <3>1. c \in interest /\ Mapping(c) /\ ready \subseteq ready'
      BY <2>1, <2>4 DEF EpollAdd, Mapping, Mapped
    <3>2. Pending(c)
      BY <1>1, <2>1, <2>2, <3>1 DEF Wake, Running
    <3> QED
      BY <2>1, <3>1, <3>2 DEF Pending
  <2> QED
    BY <2>3, <2>4
<1>10. CASE InsertClient
  <2>1. /\ UNCHANGED <<kernelVars, batch, cur>> /\ pc' = "newcb" /\ pc = "insert"
        /\ mgr' = [mgr EXCEPT ![fdOf[cur]] = cur]
    BY <1>10 DEF InsertClient, Goto
  <2>2. Readable(c) /\ c \in interest
    BY <2>1 DEF Readable, kernelVars, netVars, epollVars
  <2>3. Mapping(c)
    <3>1. PICK f \in FD : mgr'[f] = c
      BY <2>1 DEF Mapping, Mapped
    <3>2. mgr[f] = c \/ c = cur
      BY <2>1, <3>1 DEF IInv, TypeOK
    <3> QED
      BY <2>1, <3>1, <3>2 DEF Mapping, Mapped
  <2>4. Pending(c)
    BY <1>1, <2>1, <2>2, <2>3 DEF Wake, Running
  <2> QED
    BY <2>1, <2>4 DEF Pending, kernelVars, epollVars
<1>11. CASE \E e \in batch : HandleClientMsg(e)
  <2>1. PICK e \in batch : HandleClientMsg(e)
    BY <1>11
  <2>2. /\ UNCHANGED <<kernelVars, mgr, fdOf>> /\ pc' = "found" /\ pc = "batch"
        /\ batch' = batch \ {e} /\ e.fd # Listen /\ cur' = mgr[e.fd]
    BY <2>1 DEF HandleClientMsg
  <2>3. Mapped(c) /\ Readable(c) /\ c \in interest
    BY <2>2 DEF Mapping, Mapped, Readable, kernelVars, netVars, epollVars
  <2>4. Pending(c)
    BY <1>1, <2>2, <2>3 DEF Wake, Running, Mapping
  <2>5. CASE e.src = c
    <3>1. e.fd = fdOf[c]
      BY <2>2, <2>5 DEF Sources
    <3>2. cur' = c
      BY <1>1, <2>2, <2>3, <3>1, MappedAt
    <3> QED
      BY <2>2, <3>2 DEF Pending
  <2>6. CASE e.src # c
    BY <2>2, <2>4, <2>6 DEF Pending, kernelVars, epollVars
  <2> QED
    BY <2>5, <2>6
<1>12. CASE OnRecvData
  <2>1. /\ UNCHANGED <<netVars, epollVars, mgr, batch, cur>> /\ fresh' = fresh \ {cur}
        /\ pc' = "recvcb" /\ pc = "found"
    BY <1>12 DEF OnRecvData, Goto
  <2>2. Mapping(c) /\ Readable(c) /\ c \in interest /\ c # cur
    BY <2>1 DEF Mapping, Mapped, Readable, netVars, epollVars
  <2>3. Pending(c)
    BY <1>1, <2>1, <2>2 DEF Wake, Running
  <2> QED
    BY <2>1, <2>2, <2>3 DEF Pending, epollVars
<1> QED
  BY <1>2, <1>3, <1>4, <1>5, <1>6, <1>7, <1>8, <1>9, <1>10, <1>11, <1>12 DEF LoopStep

(* The steps of the application, of delClient and of the remote clients.   *)
LEMMA WakeOtherStep ==
    ASSUME IInv, Wake, [Next]_vars, ~LoopStep
    PROVE  Wake'
<1> SUFFICES ASSUME Running', NEW c \in fresh', c \in interest', Mapping(c)', Readable(c)'
             PROVE  Pending(c)'
  BY DEF Wake
<1> USE DEF kernelVars, netVars, epollVars, loopVars, delVars
<1>1. CASE Start
  BY <1>1 DEF Start, Running
<1>2. CASE Stop \/ Keep \/ (\E d \in Conn : Release(d)) \/ UNCHANGED vars
  <2>1. UNCHANGED <<kernelVars, loopVars, mgr, fdOf>>
    BY <1>2 DEF Stop, Keep, Release, vars
  <2>2. Running /\ Mapping(c) /\ Readable(c)
    BY <2>1 DEF Running, Mapping, Mapped, Readable
  <2>3. Pending(c)
    BY <2>1, <2>2 DEF Wake
  <2> QED
    BY <2>1, <2>3 DEF Pending
<1>3. CASE CallbackReturn \/ CallbackThrows
  <2>1. /\ UNCHANGED <<kernelVars, mgr, fdOf, batch>>
        /\ pc \in {"newcb", "recvcb"} /\ pc' = "batch"
    BY <1>3 DEF CallbackReturn, CallbackThrows, Fail, Running, InCallback
  <2>2. Running /\ Mapping(c) /\ Readable(c)
    BY <2>1 DEF Running, Mapping, Mapped, Readable
  <2>3. Pending(c)
    BY <2>1, <2>2 DEF Wake
  <2> QED
    BY <2>1, <2>3 DEF Pending
<1>4. ASSUME NEW a \in Actor, ReadStep(a)
      PROVE  Pending(c)'
  <2>1. UNCHANGED <<listening, remote, backlog, epollVars, fresh, loopVars, mgr, fdOf>>
    BY <1>4 DEF ReadStep, ReadData, ReadFails
  <2>2. rx'[c] > 0 => rx[c] > 0
    BY <1>4 DEF ReadStep, ReadData, ReadFails, IInv, TypeOK, KernelTypeOK
  <2>3. Running /\ Mapping(c) /\ Readable(c)
    BY <2>1, <2>2 DEF Running, Mapping, Mapped, Readable
  <2>4. Pending(c)
    BY <2>1, <2>3 DEF Wake
  <2> QED
    BY <2>1, <2>4 DEF Pending
<1>5. ASSUME NEW a \in Actor, DelStep(a)
      PROVE  Pending(c)'
  <2>1. UNCHANGED <<netVars, fresh, loopVars, fdOf>>
    BY <1>5 DEF DelStep, DelFromEpoll, DelNotRegistered, EraseClient, OnDisconnect
  <2>2. c \in interest /\ (c \in ready => c \in ready')
    BY <1>5 DEF DelStep, DelFromEpoll, EpollDel, DelNotRegistered, EraseClient,
       OnDisconnect
  <2>3. Mapped(c)' => Mapped(c)
    <3>1. CASE EraseClient(a)
      BY <3>1, ServerAssumption, KernelAssumption
      DEF EraseClient, Mapped, IInv, TypeOK, KernelTypeOK
    <3>2. CASE mgr' = mgr
      BY <3>2 DEF Mapped
    <3> QED
      BY <1>5, <3>1, <3>2 DEF DelStep, DelFromEpoll, DelNotRegistered, OnDisconnect
  <2>4. Running /\ Mapping(c) /\ Readable(c)
    BY <2>1, <2>3 DEF Running, Mapping, Readable
  <2>5. Pending(c)
    BY <2>1, <2>2, <2>4 DEF Wake
  <2> QED
    BY <2>1, <2>2, <2>5 DEF Pending
<1>6. CASE ClientStep
  <2>0. UNCHANGED <<interest, loopVars, mgr, fdOf>> /\ ready \subseteq ready'
    BY <1>6 DEF ClientStep, Connect, Send, Close, Edge
  <2>1. PICK d \in Conn : Connect(d) \/ Send(d) \/ Close(d)
    BY <1>6 DEF ClientStep
  <2>2. CASE c = d /\ ~Connect(d)
    BY <2>1, <2>2, <2>0 DEF Send, Close, Edge, Pending
  <2>3. CASE c # d \/ Connect(d)
    <3>1. c \in fresh /\ c \in Conn
      BY <2>1, <2>3 DEF Connect, Send, Close, IInv, TypeOK, KernelTypeOK
    <3>2. rx'[c] = rx[c] /\ (remote'[c] = "closed" => remote[c] = "closed")
      BY <2>1, <2>3, <3>1 DEF Connect, Send, Close, IInv, TypeOK, KernelTypeOK
    <3>3. Running /\ Mapping(c) /\ Readable(c)
      BY <2>0, <3>1, <3>2, KernelAssumption DEF Running, Mapping, Mapped, Readable
    <3>4. Pending(c)
      BY <2>0, <3>1, <3>3 DEF Wake
    <3> QED
      BY <2>0, <3>4 DEF Pending
  <2> QED
    BY <2>2, <2>3
<1> QED
  BY <1>1, <1>2, <1>3, <1>4, <1>5, <1>6 DEF Next

(* Between the kernel's ready list, event_list and the receive callback no *)
(* arrival is lost, whatever threads do and whatever fails.                *)
THEOREM NothingIsLost == Spec => []NoLostWakeup
<1>1. Init => Sources /\ Wake
  BY DEF Init, Sources, Wake, Running
<1>2. IInv /\ Sources /\ Wake /\ [Next]_vars => Sources' /\ Wake'
  BY SourcesStep, WakeLoopStep, WakeOtherStep
<1>3. Wake => NoLostWakeup
  BY DEF Wake, NoLostWakeup, Mapping, Pending
<1> QED
  BY <1>1, <1>2, <1>3, Invariance, PTL DEF Spec

-----------------------------------------------------------------------------
(* While the thread has not failed, its clients are those of its own epoll *)
(* instance: the map is empty when the thread is not in its loop, and the  *)
(* client about to be inserted is registered already.                      *)
Served ==
    /\ pc \in {"off", "init", "done"} => \A f \in FD : mgr[f] = None
    /\ MappedIsServed
    /\ pc = "insert" => cur \in interest

LEMMA ServedStep ==
    ASSUME IInv, Served, LoopSurvives, LoopSurvives', [Next]_vars
    PROVE  Served'
<1> USE DEF kernelVars, netVars, epollVars, loopVars, delVars
<1>1. CASE InitEpoll
  <2>1. /\ \A f \in FD : mgr'[f] = None
        /\ pc' \in {"check", "wait"}
    BY <1>1 DEF InitEpoll, Goto, Served
  <2>2. \A c \in Conn : ~Mapped(c)'
    BY <2>1, ServerAssumption DEF Mapped
  <2> QED
    BY <2>1, <2>2 DEF Served, MappedIsServed
<1>2. CASE Shutdown
  BY <1>2 DEF Shutdown, Goto, Served, MappedIsServed, Running
<1>3. CASE InsertClient
  <2>1. /\ UNCHANGED <<interest, self, dpc, cur>> /\ pc' = "newcb" /\ pc = "insert"
        /\ mgr' = [mgr EXCEPT ![fdOf[cur]] = cur] /\ cur \in interest
    BY <1>3 DEF InsertClient, Goto, Served
  <2>2. ASSUME NEW c \in Conn, Mapped(c)', c # cur
        PROVE  Mapped(c)
    <3>1. PICK f \in FD : mgr'[f] = c
      BY <2>2 DEF Mapped
    <3>2. mgr[f] = c
      BY <2>1, <2>2, <3>1 DEF IInv, TypeOK
    <3> QED
      BY <3>2 DEF Mapped
  <2> QED
    BY <2>1, <2>2 DEF Served, MappedIsServed, Running
<1>4. CASE AddToEpoll
  BY <1>4 DEF AddToEpoll, EpollAdd, Goto, Served, MappedIsServed, Running, Mapped
<1>5. CASE Start
  <2>1. pc \in {"off", "done"}
    BY <1>5 DEF Start, Ended, LoopSurvives
  <2> QED
    BY <2>1, <1>5 DEF Start, Served, MappedIsServed, Running
<1>6. ASSUME NEW a \in Actor, DelFromEpoll(a)
      PROVE  Served'
  <2>1. PICK d \in AtFD(fdOf[self[a]]) \cap interest : EpollDel(d)
    BY <1>6 DEF DelFromEpoll
  <2>2. d = self[a] /\ d \in Conn
    <3>1. self[a] \in Conn
      BY <1>6 DEF DelFromEpoll, IInv, TypeOK
    <3>2. Alive(self[a])
      BY <3>1 DEF Alive
    <3> QED
      BY <2>1, <3>1, <3>2 DEF AtFD, IInv, DistinctFDs
  <2>3. UNCHANGED <<pc, cur, mgr, self>> /\ dpc' = [dpc EXCEPT ![a] = "erase"]
        /\ interest' = interest \ {d} /\ dpc[a] = "ctl"
    BY <1>6, <2>1 DEF DelFromEpoll, EpollDel
  <2>4. pc = "insert" => cur # d
    BY <2>2 DEF IInv, CurIsPrivate, NotShared
  <2>5. dpc'[a] = "erase" /\ \A b \in Actor : dpc[b] = "erase" => dpc'[b] = "erase"
    BY <2>3 DEF IInv, TypeOK
  <2>6. MappedIsServed'
    BY <2>2, <2>3, <2>5 DEF Served, MappedIsServed, Running, Mapped
  <2> QED
    BY <2>3, <2>4, <2>6 DEF Served
<1>7. ASSUME NEW a \in Actor, EraseClient(a)
      PROVE  Served'
  <2> DEFINE fd == fdOf[self[a]]
  <2>1. self[a] \in Conn /\ fd \in FD
    <3>1. self[a] \in Conn
      BY <1>7 DEF EraseClient, IInv, TypeOK
    <3>2. Alive(self[a])
      BY <3>1 DEF Alive
    <3> QED
      BY <3>1, <3>2 DEF IInv, AliveHasFD
  <2>2. /\ UNCHANGED <<pc, cur, interest, self>>
        /\ mgr' = [mgr EXCEPT ![fd] = None] /\ dpc' = [dpc EXCEPT ![a] = "notify"]
    BY <1>7 DEF EraseClient
  <2>3. \A f \in FD : mgr'[f] = IF f = fd THEN None ELSE mgr[f]
    BY <2>1, <2>2 DEF IInv, TypeOK
  <2>4. ASSUME NEW c \in Conn, Mapped(c)'
        PROVE  Mapped(c) /\ c # self[a]
    <3>1. PICK f \in FD : mgr'[f] = c
      BY <2>4 DEF Mapped
    <3>2. f # fd /\ mgr[f] = c
      BY <2>3, <3>1, ServerAssumption
    <3>3. fdOf[c] = f
      BY <3>2, ServerAssumption DEF IInv, MapKeys
    <3> QED
      BY <3>2, <3>3 DEF Mapped
  <2>5. \A b \in Actor : dpc[b] = "erase" /\ b # a => dpc'[b] = "erase"
    BY <2>2 DEF IInv, TypeOK
  <2>6. MappedIsServed'
    BY <2>2, <2>4, <2>5 DEF Served, MappedIsServed, Running
  <2> QED
    BY <2>2, <2>3, <2>6 DEF Served
<1>8. ASSUME NEW a \in Actor, DelNotRegistered(a) \/ OnDisconnect(a)
      PROVE  Served'
  <2>1. UNCHANGED <<pc, cur, interest, mgr>> /\ dpc[a] # "erase"
    BY <1>8 DEF DelNotRegistered, OnDisconnect
  <2>2. \A b \in Actor : b # a => dpc'[b] = dpc[b] /\ self'[b] = self[b]
    BY <1>8 DEF DelNotRegistered, OnDisconnect, IInv, TypeOK
  <2> QED
    BY <2>1, <2>2 DEF Served, MappedIsServed, Running, Mapped
<1>9. ASSUME NEW a \in Actor, ReadStep(a)
      PROVE  Served'
  <2>1. UNCHANGED <<pc, cur, interest, mgr>>
    BY <1>9 DEF ReadStep, ReadData, ReadFails
  <2>2. \A b \in Actor : dpc[b] = "erase" => dpc'[b] = "erase" /\ self'[b] = self[b]
    BY <1>9 DEF ReadStep, ReadData, ReadFails, CanRead, IInv, TypeOK
  <2> QED
    BY <2>1, <2>2 DEF Served, MappedIsServed, Running, Mapped
<1>10. CASE ClientStep
  BY <1>10 DEF ClientStep, Connect, Send, Close, Edge, Served, MappedIsServed,
     Running, Mapped
<1>11. CASE \/ Stop \/ Keep \/ CallbackReturn \/ (\E c \in Conn : Release(c))
            \/ UNCHANGED vars \/ CheckRunFlag \/ BatchDone \/ Config \/ OnRecvData
            \/ EpollTimeout \/ EpollWait \/ (\E f \in FD : Accept(f))
            \/ \E e \in batch : ListenEvent(e) \/ HandleClientMsg(e)
  <2>1. UNCHANGED <<interest, mgr, self, dpc>>
    BY <1>11 DEF Stop, Keep, CallbackReturn, Release, vars, CheckRunFlag, BatchDone,
       Config, OnRecvData, EpollTimeout, EpollWait, EpollReport, Accept, ListenEvent,
       HandleClientMsg
  <2>2. UNCHANGED <<pc, cur>> \/ (pc' \notin {"off", "init", "done", "insert"} /\ Running)
    BY <1>11 DEF Stop, Keep, CallbackReturn, Release, vars, CheckRunFlag, BatchDone,
       Config, OnRecvData, EpollTimeout, EpollWait, Accept, ListenEvent,
       HandleClientMsg, Goto, Running, InCallback
  <2> QED
    BY <2>1, <2>2 DEF Served, MappedIsServed, Running, Mapped
<1>12. ~(\/ InitEpollFails \/ EpollWaitFails \/ AcceptFails \/ ConfigFails \/ AddFails
         \/ CallbackThrows \/ \E e \in batch : UnknownClient(e))
  BY DEF InitEpollFails, EpollWaitFails, AcceptFails, ConfigFails, AddFails,
     CallbackThrows, UnknownClient, Fail, LoopSurvives
<1> QED
  BY <1>1, <1>2, <1>3, <1>4, <1>5, <1>6, <1>7, <1>8, <1>9, <1>10, <1>11, <1>12
  DEF Next, LoopStep, DelStep

(* As long as the epoll thread does not fail, through any number of stops  *)
(* and restarts, every client of the map is registered with the epoll      *)
(* instance in use, unless delClient is removing it.                       *)
THEOREM ClientsAreServed == Spec /\ []LoopSurvives => []MappedIsServed
<1>1. Init => Served
  BY DEF Init, Served, MappedIsServed, Running
<1>2. IInv /\ Served /\ LoopSurvives /\ LoopSurvives' /\ [Next]_vars => Served'
  BY ServedStep
<1>3. Served => MappedIsServed
  BY DEF Served
<1> QED
  BY <1>1, <1>2, <1>3, Invariance, PTL DEF Spec

-----------------------------------------------------------------------------
(* Without application threads, and with callbacks that read from their    *)
(* own client only: what is registered is in the map, and an event's       *)
(* client is neither deleted nor replaced before the event's turn comes.   *)
Current ==
    /\ ready \subseteq interest
    /\ Running => \A c \in interest \cap Conn : Mapping(c)
    /\ EventsAreCurrent
    /\ pc \in HasClient => \A e \in batch : e.src # cur
    /\ self[Loop] \in {None, cur}

(* The steps that change neither the map nor the descriptors.              *)
LEMMA CurrentQuietStep ==
    ASSUME Thread = {}, ~Nosy, CInv, Sources, Current,
           \/ Start \/ Stop \/ InitEpoll \/ InitEpollFails \/ CheckRunFlag
           \/ EpollTimeout \/ EpollWaitFails \/ BatchDone \/ AcceptFails
           \/ Config \/ ConfigFails \/ AddToEpoll \/ AddFails \/ OnRecvData
           \/ CallbackReturn \/ CallbackThrows \/ Keep
           \/ (\E c \in Conn : Release(c)) \/ ClientStep \/ UNCHANGED vars
           \/ (\E e \in batch : ListenEvent(e) \/ UnknownClient(e))
           \/ \E a \in Actor : \/ ReadStep(a) \/ DelFromEpoll(a)
                              \/ DelNotRegistered(a) \/ OnDisconnect(a)
    PROVE  Current'
<1> USE DEF kernelVars, netVars, epollVars, loopVars, delVars
<1>0. Actor = {Loop}
  BY DEF Actor
<1>1. ready' \subseteq interest'
  BY DEF Current, Start, Stop, InitEpoll, InitEpollFails, CheckRunFlag, EpollTimeout,
     EpollReport, Deliverable, EpollWaitFails, BatchDone, AcceptFails, Config,
     ConfigFails, AddToEpoll, EpollAdd, AddFails, OnRecvData, CallbackReturn,
     CallbackThrows, Keep, Release, ClientStep, Connect, Send, Close, Edge, vars,
     ListenEvent, UnknownClient, ReadStep, ReadData, ReadFails, DelFromEpoll,
     EpollDel, DelNotRegistered, OnDisconnect
<1>2. UNCHANGED <<mgr, fdOf>> /\ batch' \subseteq batch /\ cur' \in {cur, None}
  BY DEF Start, Stop, InitEpoll, InitEpollFails, CheckRunFlag, EpollTimeout,
     EpollWaitFails, BatchDone, AcceptFails, Config,
     ConfigFails, AddToEpoll, AddFails, OnRecvData, CallbackReturn,
     CallbackThrows, Keep, Release, ClientStep, vars,
     ListenEvent, UnknownClient, ReadStep, ReadData, ReadFails, DelFromEpoll,
     DelNotRegistered, OnDisconnect, Fail, Goto
<1>3. EventsAreCurrent'
  BY <1>2 DEF Current, EventsAreCurrent
<1>4. pc' \in HasClient => pc \in HasClient /\ cur' = cur
  BY DEF Start, Stop, InitEpoll, InitEpollFails, CheckRunFlag, EpollTimeout,
     EpollWaitFails, BatchDone, AcceptFails, Config,
     ConfigFails, AddToEpoll, AddFails, OnRecvData, CallbackReturn,
     CallbackThrows, Keep, Release, ClientStep, vars,
     ListenEvent, UnknownClient, ReadStep, ReadData, ReadFails, DelFromEpoll,
     DelNotRegistered, OnDisconnect, Fail, Goto, HasClient
<1>5. pc' \in HasClient => \A e \in batch' : e.src # cur'
  BY <1>2, <1>4 DEF Current
<1>6. self'[Loop] \in {None, cur'}
  <2>1. CASE self' = self
    <3>1. CASE cur' = cur
      BY <2>1, <3>1 DEF Current
    <3>2. CASE cur' # cur
      <4>1. self[Loop] = None
        BY <3>2 DEF Start, Stop, InitEpoll, InitEpollFails, CheckRunFlag,
           EpollTimeout, EpollWaitFails, BatchDone, AcceptFails, Config, ConfigFails,
           AddToEpoll, AddFails, OnRecvData, CallbackReturn, CallbackThrows, Keep,
           Release, ClientStep, vars, ListenEvent, UnknownClient, ReadStep, ReadData,
           ReadFails, DelFromEpoll, DelNotRegistered, OnDisconnect, Fail, Goto,
           CInv, LoopIdle, InCallback
      <4> QED
        BY <2>1, <4>1
    <3> QED
      BY <3>1, <3>2
  <2>2. CASE \E c \in Conn, len \in Lens : ReadFails(Loop, c, len)
    BY <2>2, ServerAssumption DEF ReadFails, CanRead, CInv, IInv, TypeOK, Actor
  <2>3. CASE DelNotRegistered(Loop) \/ OnDisconnect(Loop)
    BY <2>3 DEF DelNotRegistered, OnDisconnect, CInv, IInv, TypeOK, Actor
  <2> QED
    BY <1>0, <2>1, <2>2, <2>3
    DEF Start, Stop, InitEpoll, InitEpollFails, CheckRunFlag, EpollTimeout,
        EpollWaitFails, BatchDone, AcceptFails, Config, ConfigFails, AddToEpoll,
        AddFails, OnRecvData, CallbackReturn, CallbackThrows, Keep, Release,
        ClientStep, vars, ListenEvent, UnknownClient, ReadStep, ReadData,
        DelFromEpoll
<1>7. Running' => \A c \in interest' \cap Conn : Mapping(c)'
  <2> SUFFICES ASSUME Running', NEW c \in Conn, c \in interest'
               PROVE  Mapping(c)'
    OBVIOUS
  <2>0. c # Listen
    BY KernelAssumption
  <2>1. CASE Start \/ InitEpoll \/ InitEpollFails
    BY <2>0, <2>1 DEF Start, InitEpoll, InitEpollFails, Fail, Running
  <2>2. CASE AddToEpoll
    <3>1. pc = "add" /\ pc' = "insert" /\ cur' = cur /\ interest' = interest \cup {cur}
      BY <2>2 DEF AddToEpoll, Goto, EpollAdd
    <3>2. c = cur \/ Mapped(c)
      BY <3>1 DEF Current, Running, Mapping
    <3> QED
      BY <1>2, <3>1, <3>2 DEF Mapping, Mapped
  <2>3. CASE ~(Start \/ InitEpoll \/ InitEpollFails \/ AddToEpoll)
    <3>1. interest' \subseteq interest
      BY <2>3 DEF Stop, CheckRunFlag, EpollTimeout, EpollReport, EpollWaitFails,
         BatchDone, AcceptFails, Config, ConfigFails, AddFails, OnRecvData,
         CallbackReturn, CallbackThrows, Keep, Release, ClientStep, Connect, Send,
         Close, Edge, vars, ListenEvent, UnknownClient, ReadStep, ReadData, ReadFails,
         DelFromEpoll, EpollDel, DelNotRegistered, OnDisconnect
    <3>2. Running /\ (pc = "insert" => pc' = "insert" /\ cur' = cur)
      BY <2>3 DEF Stop, CheckRunFlag, EpollTimeout, EpollWaitFails,
         BatchDone, AcceptFails, Config, ConfigFails, AddFails, OnRecvData,
         CallbackReturn, CallbackThrows, Keep, Release, ClientStep,
         vars, ListenEvent, UnknownClient, ReadStep, ReadData, ReadFails,
         DelFromEpoll, DelNotRegistered, OnDisconnect, Fail, Goto, Running, InCallback
    <3>3. Mapping(c)
      BY <3>1, <3>2 DEF Current
    <3> QED
      BY <1>2, <3>2, <3>3 DEF Mapping, Mapped
  <2> QED
    BY <2>1, <2>2, <2>3
<1> QED
  BY <1>1, <1>3, <1>5, <1>6, <1>7 DEF Current

(* The steps that fill or consume event_list, accept, insert and erase.    *)
LEMMA CurrentBusyStep ==
    ASSUME Thread = {}, CInv, Sources, Current,
           \/ Shutdown \/ EpollWait \/ InsertClient
           \/ (\E f \in FD : Accept(f))
           \/ (\E e \in batch : HandleClientMsg(e))
           \/ \E a \in Actor : EraseClient(a)
    PROVE  Current'
<1> USE DEF kernelVars, netVars, epollVars, loopVars, delVars
<1>0. IInv /\ (self[Loop] # None => InCallback)
  BY DEF CInv, LoopIdle
<1>1. CASE Shutdown
  <2>1. batch = {}
    BY <1>0, <1>1 DEF Shutdown, IInv, BatchInv
  <2> QED
    BY <1>1, <2>1 DEF Shutdown, Goto, Current, EventsAreCurrent, Running
<1>2. CASE EpollWait
  <2>1. PICK E \in SUBSET Deliverable(OpenItems) : batch' = {EventOf(i) : i \in E}
    BY <1>2 DEF EpollWait
  <2>2. /\ UNCHANGED <<interest, mgr, cur, fdOf, self>> /\ pc = "wait" /\ pc' = "batch"
        /\ ready' \subseteq ready
    BY <1>2 DEF EpollWait, EpollReport, Deliverable
  <2>3. ASSUME NEW i \in E, EventOf(i).fd # Listen
        PROVE  mgr[EventOf(i).fd] = EventOf(i).src
    <3>1. i \in Conn /\ i \in interest /\ EventOf(i).fd = fdOf[i] /\ EventOf(i).src = i
      BY <2>1, <2>3 DEF EventOf, Deliverable, OpenItems, Current
    <3>2. Mapped(i)
      BY <2>2, <3>1 DEF Current, Running, Mapping
    <3> QED
      BY <1>0, <3>1, <3>2, MappedAt
  <2>4. EventsAreCurrent'
    BY <2>1, <2>2, <2>3 DEF EventsAreCurrent
  <2> QED
    BY <2>2, <2>4 DEF Current, Running, Mapping, Mapped, HasClient
<1>3. CASE InsertClient
  <2>1. /\ UNCHANGED <<epollVars, batch, cur, fdOf, self>> /\ pc = "insert"
        /\ pc' = "newcb" /\ mgr' = [mgr EXCEPT ![fdOf[cur]] = cur]
    BY <1>3 DEF InsertClient, Goto
  <2>2. cur \in Conn /\ fdOf[cur] \in FD
    BY <1>0, <2>1 DEF IInv, TypeOK, HasClient, AliveHasFD, Alive
  <2>3. mgr[fdOf[cur]] = None
    <3> SUFFICES ASSUME mgr[fdOf[cur]] # None PROVE FALSE
      OBVIOUS
    <3>1. /\ mgr[fdOf[cur]] \in Conn /\ Alive(mgr[fdOf[cur]]) /\ Alive(cur)
          /\ fdOf[mgr[fdOf[cur]]] = fdOf[cur]
      BY <1>0, <2>2 DEF IInv, TypeOK, MapKeys, Alive
    <3>2. mgr[fdOf[cur]] = cur
      BY <1>0, <2>2, <3>1 DEF IInv, DistinctFDs
    <3> QED
      BY <1>0, <2>1, <2>2, <3>2 DEF IInv, CurIsPrivate, NotShared
  <2>4. \A f \in FD : mgr'[f] = IF f = fdOf[cur] THEN cur ELSE mgr[f]
    BY <1>0, <2>1 DEF IInv, TypeOK
  <2>5. \A e \in batch : e.fd # Listen => e.fd \in FD /\ e.src \in Conn
    BY DEF Sources
  <2>6. EventsAreCurrent'
    BY <2>1, <2>3, <2>4, <2>5, ServerAssumption DEF Current, EventsAreCurrent
  <2>7. ASSUME NEW c \in Conn, c \in interest
        PROVE  Mapped(c)'
    <3>1. CASE c = cur
      BY <2>2, <2>4, <3>1, <2>1 DEF Mapped
    <3>2. CASE c # cur
      <4>1. PICK f \in FD : mgr[f] = c
        BY <2>1, <2>7, <3>2 DEF Current, Running, Mapping, Mapped
      <4>2. mgr'[f] = c
        BY <2>3, <2>4, <4>1, ServerAssumption
      <4> QED
        BY <4>2 DEF Mapped
    <3> QED
      BY <3>1, <3>2
  <2> QED
    BY <2>1, <2>6, <2>7 DEF Current, Mapping, HasClient
<1>4. ASSUME NEW f \in FD, Accept(f)
      PROVE  Current'
  <2>1. backlog # <<>> /\ Head(backlog) \in Conn /\ fdOf[Head(backlog)] = None
    BY <1>0, <1>4 DEF Accept, IInv, TypeOK, KernelTypeOK, PendingIsNew
  <2>2. /\ UNCHANGED <<epollVars, batch, mgr, self>> /\ cur' = Head(backlog)
        /\ pc = "accept" /\ pc' = "config"
    BY <1>4 DEF Accept
  <2>3. self[Loop] = None
    BY <1>0, <2>2 DEF InCallback
  <2>4. \A e \in batch : e.src # Head(backlog)
    BY <2>1, ServerAssumption, KernelAssumption DEF Sources
  <2> QED
    BY <2>2, <2>3, <2>4 DEF Current, EventsAreCurrent, Running, Mapping, Mapped
<1>5. ASSUME NEW e \in batch, HandleClientMsg(e)
      PROVE  Current'
  <2>1. /\ UNCHANGED <<epollVars, fdOf, mgr, self>> /\ cur' = mgr[e.fd] /\ e.fd # Listen
        /\ pc = "batch" /\ pc' = "found" /\ batch' = batch \ {e}
    BY <1>5 DEF HandleClientMsg
  <2>2. self[Loop] = None /\ cur' = e.src /\ e.src \in Conn /\ e.fd = fdOf[e.src]
    BY <1>0, <2>1 DEF InCallback, Current, EventsAreCurrent, Sources
  <2>3. \A d \in batch : d.src = e.src => d = e
    <3> SUFFICES ASSUME NEW d \in batch, d.src = e.src PROVE d = e
      OBVIOUS
    <3>1. d \in Event /\ e \in Event
      BY <1>0 DEF IInv, TypeOK
    <3>2. d.fd = e.fd
      BY <2>2, KernelAssumption DEF Sources
    <3> QED
      BY <3>1, <3>2 DEF Event
  <2> QED
    BY <2>1, <2>2, <2>3 DEF Current, EventsAreCurrent, Running, Mapping, Mapped
<1>6. CASE EraseClient(Loop)
  <2> DEFINE fd == fdOf[cur]
  <2>1. self[Loop] = cur /\ cur \in Conn /\ InCallback /\ cur \notin interest
    BY <1>0, <1>6, ServerAssumption
    DEF EraseClient, Current, IInv, TypeOK, DelClientInv, Actor
  <2>2. Alive(cur) /\ fd \in FD
    BY <1>0, <2>1 DEF Alive, IInv, AliveHasFD
  <2>3. /\ UNCHANGED <<epollVars, batch, pc, cur, fdOf, self>>
        /\ \A f \in FD : mgr'[f] = IF f = fd THEN None ELSE mgr[f]
    BY <1>0, <1>6, <2>1, <2>2 DEF EraseClient, IInv, TypeOK
  <2>4. mgr[fd] \in {None, cur}
    <3> SUFFICES ASSUME mgr[fd] # None PROVE mgr[fd] = cur
      OBVIOUS
    <3>1. mgr[fd] \in Conn /\ Alive(mgr[fd]) /\ fdOf[mgr[fd]] = fd
      BY <1>0, <2>2 DEF IInv, TypeOK, MapKeys, Alive
    <3> QED
      BY <1>0, <2>1, <2>2, <3>1 DEF IInv, DistinctFDs
  <2>5. pc \in HasClient /\ Running
    BY <2>1 DEF InCallback, HasClient, Running
  <2>6. \A e \in batch : e.fd # Listen => e.fd \in FD /\ e.src \in Conn /\ e.fd # fd
    BY <2>4, <2>5, ServerAssumption DEF Sources, Current, EventsAreCurrent
  <2>7. EventsAreCurrent'
    BY <2>3, <2>6 DEF Current, EventsAreCurrent
  <2>8. ASSUME NEW c \in Conn, c \in interest
        PROVE  Mapped(c)'
    <3>1. PICK f \in FD : mgr[f] = c
      BY <2>1, <2>5, <2>8 DEF Current, Mapping, Mapped, InCallback
    <3>2. f # fd
      BY <2>1, <2>4, <2>8, <3>1, ServerAssumption
    <3> QED
      BY <2>3, <3>1, <3>2 DEF Mapped
  <2> QED
    BY <2>3, <2>7, <2>8 DEF Current, Running, Mapping
<1> QED
  BY <1>1, <1>2, <1>3, <1>4, <1>5, <1>6 DEF Actor

LEMMA CurrentInvariance ==
    ASSUME Thread = {}, ~Nosy
    PROVE  Spec => [](Sources /\ Current)
<1>1. Init => Sources /\ Current
  BY DEF Init, KernelInit, Sources, Current, Running, EventsAreCurrent, HasClient, Actor
<1>2. CInv /\ Sources /\ Current /\ [Next]_vars => Sources' /\ Current'
  <2>1. CInv /\ Sources /\ Current /\ [Next]_vars => Sources'
    BY SourcesStep DEF CInv
  <2>2. CInv /\ Sources /\ Current /\ [Next]_vars => Current'
    BY CurrentQuietStep, CurrentBusyStep DEF Next, LoopStep, DelStep
  <2> QED
    BY <2>1, <2>2
<1> QED
  BY <1>1, <1>2, CallbackInvariance, PTL DEF Spec

(* Where only the server's own thread reads, and a callback only from its  *)
(* own client, every event of event_list still designates the client it    *)
(* was reported for: m_client_mgr.at never throws.                         *)
THEOREM NoStaleEvent ==
    ASSUME Thread = {}, ~Nosy
    PROVE  Spec => []EventsAreCurrent
<1>1. Current => EventsAreCurrent
  BY DEF Current
<1> QED
  BY <1>1, CurrentInvariance, PTL
=============================================================================

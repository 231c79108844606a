-------------------------- MODULE TCPServerProofs --------------------------
(***************************************************************************)
(* Proofs that TCPServer keeps its safety invariants for every set of      *)
(* connections, descriptors and threads, every choice of failing system    *)
(* calls and every number of restarts.  The inductive invariant IInv is    *)
(* stated in TCPServerInv; below, one lemma per action shows that the      *)
(* action preserves it.                                                    *)
(***************************************************************************)
EXTENDS TCPServerInv, TLAPS

(* While the map, the descriptors and the references do not change, except *)
(* that the epoll thread may drop its own, ownership stays as it is.       *)
LEMMA OwnershipFrame ==
    ASSUME IInv, UNCHANGED <<mgr, fdOf, app, delVars>>, cur' \in {cur, None}
    PROVE  AliveHasFD' /\ DistinctFDs' /\ MapKeys' /\ ToldInv'
<1> USE DEF delVars
<1>1. \A c \in Conn : Alive(c)' => Alive(c)
  BY ServerAssumption DEF Alive
<1>2. AliveHasFD' /\ DistinctFDs'
  BY <1>1 DEF IInv, AliveHasFD, DistinctFDs
<1>3. MapKeys' /\ ToldInv'
  BY DEF IInv, MapKeys, ToldInv
<1> QED
  BY <1>2, <1>3

(* Only a registration can disturb what is known of running delClients.    *)
LEMMA InterestFrame ==
    ASSUME IInv, UNCHANGED delVars, interest' \subseteq interest \cup {Listen}
    PROVE  DelClientInv'
  BY KernelAssumption, ServerAssumption
  DEF IInv, DelClientInv, TypeOK, delVars, Actor

(* stop() clears the run flag only.                                        *)
LEMMA StopPreserves ==
    ASSUME IInv, Stop
    PROVE  IInv'
<1> USE DEF Stop, vars, kernelVars, netVars, epollVars, loopVars, delVars
<1>1. TypeOK'
  BY KernelAssumption, ServerAssumption
  DEF IInv, TypeOK, KernelTypeOK, Item, Event, HasClient,
      LoopState, Actor
<1>2. AliveHasFD' /\ DistinctFDs' /\ MapKeys' /\ ToldInv'
  BY OwnershipFrame
<1>3. PendingIsNew'
  BY DEF IInv, PendingIsNew
<1>4. CurIsPrivate'
  BY DEF IInv, CurIsPrivate, NotShared
<1>5. DelClientInv'
  BY InterestFrame DEF IInv, TypeOK, KernelTypeOK
<1>6. BatchInv'
  BY DEF IInv, BatchInv
<1> QED
  BY <1>1, <1>2, <1>3, <1>4, <1>5, <1>6 DEF IInv

(* A fresh epoll instance watches the listening socket alone.              *)
LEMMA InitEpollPreserves ==
    ASSUME IInv, InitEpoll
    PROVE  IInv'
<1> USE DEF InitEpoll, vars, kernelVars, netVars, epollVars, loopVars, delVars, Goto, Readable
<1>1. TypeOK'
  BY KernelAssumption, ServerAssumption
  DEF IInv, TypeOK, KernelTypeOK, Item, Event, HasClient,
      LoopState, Actor
<1>2. AliveHasFD' /\ DistinctFDs' /\ MapKeys' /\ ToldInv'
  BY OwnershipFrame
<1>3. PendingIsNew'
  BY DEF IInv, PendingIsNew
<1>4. CurIsPrivate'
  BY DEF IInv, CurIsPrivate, NotShared
<1>5. DelClientInv'
  BY InterestFrame DEF IInv, TypeOK, KernelTypeOK
<1>6. BatchInv'
  BY DEF IInv, BatchInv
<1> QED
  BY <1>1, <1>2, <1>3, <1>4, <1>5, <1>6 DEF IInv

(* initEpoll fails: nothing was accepted by this thread.                   *)
LEMMA InitEpollFailsPreserves ==
    ASSUME IInv, InitEpollFails
    PROVE  IInv'
<1> USE DEF InitEpollFails, vars, kernelVars, netVars, epollVars, loopVars, delVars, Fail
<1>1. TypeOK'
  BY KernelAssumption, ServerAssumption
  DEF IInv, TypeOK, KernelTypeOK, Item, Event, HasClient,
      LoopState, Actor
<1>2. AliveHasFD' /\ DistinctFDs' /\ MapKeys' /\ ToldInv'
  BY OwnershipFrame
<1>3. PendingIsNew'
  BY DEF IInv, PendingIsNew
<1>4. CurIsPrivate'
  BY DEF IInv, CurIsPrivate, NotShared
<1>5. DelClientInv'
  BY InterestFrame DEF IInv, TypeOK, KernelTypeOK
<1>6. BatchInv'
  BY DEF IInv, BatchInv
<1> QED
  BY <1>1, <1>2, <1>3, <1>4, <1>5, <1>6 DEF IInv

(* The loop's condition holds.                                             *)
LEMMA CheckRunFlagPreserves ==
    ASSUME IInv, CheckRunFlag
    PROVE  IInv'
<1> USE DEF CheckRunFlag, vars, kernelVars, netVars, epollVars, loopVars, delVars, Goto
<1>1. TypeOK'
  BY KernelAssumption, ServerAssumption
  DEF IInv, TypeOK, KernelTypeOK, Item, Event, HasClient,
      LoopState, Actor
<1>2. AliveHasFD' /\ DistinctFDs' /\ MapKeys' /\ ToldInv'
  BY OwnershipFrame
<1>3. PendingIsNew'
  BY DEF IInv, PendingIsNew
<1>4. CurIsPrivate'
  BY DEF IInv, CurIsPrivate, NotShared
<1>5. DelClientInv'
  BY InterestFrame DEF IInv, TypeOK, KernelTypeOK
<1>6. BatchInv'
  BY DEF IInv, BatchInv
<1> QED
  BY <1>1, <1>2, <1>3, <1>4, <1>5, <1>6 DEF IInv

(* epoll_wait returns 0: the ready list only shrinks.                      *)
LEMMA EpollTimeoutPreserves ==
    ASSUME IInv, EpollTimeout
    PROVE  IInv'
<1> USE DEF EpollTimeout, vars, kernelVars, netVars, epollVars, loopVars, delVars, Goto, EpollReport, Deliverable
<1>1. TypeOK'
  BY KernelAssumption, ServerAssumption
  DEF IInv, TypeOK, KernelTypeOK, Item, Event, HasClient,
      LoopState, Actor
<1>2. AliveHasFD' /\ DistinctFDs' /\ MapKeys' /\ ToldInv'
  BY OwnershipFrame
<1>3. PendingIsNew'
  BY DEF IInv, PendingIsNew
<1>4. CurIsPrivate'
  BY DEF IInv, CurIsPrivate, NotShared
<1>5. DelClientInv'
  BY InterestFrame DEF IInv, TypeOK, KernelTypeOK
<1>6. BatchInv'
  BY DEF IInv, BatchInv
<1> QED
  BY <1>1, <1>2, <1>3, <1>4, <1>5, <1>6 DEF IInv

(* epoll_wait fails: the thread drops its locals.                          *)
LEMMA EpollWaitFailsPreserves ==
    ASSUME IInv, EpollWaitFails
    PROVE  IInv'
<1> USE DEF EpollWaitFails, vars, kernelVars, netVars, epollVars, loopVars, delVars, Fail
<1>1. TypeOK'
  BY KernelAssumption, ServerAssumption
  DEF IInv, TypeOK, KernelTypeOK, Item, Event, HasClient,
      LoopState, Actor
<1>2. AliveHasFD' /\ DistinctFDs' /\ MapKeys' /\ ToldInv'
  BY OwnershipFrame
<1>3. PendingIsNew'
  BY DEF IInv, PendingIsNew
<1>4. CurIsPrivate'
  BY DEF IInv, CurIsPrivate, NotShared
<1>5. DelClientInv'
  BY InterestFrame DEF IInv, TypeOK, KernelTypeOK
<1>6. BatchInv'
  BY DEF IInv, BatchInv
<1> QED
  BY <1>1, <1>2, <1>3, <1>4, <1>5, <1>6 DEF IInv

(* Every event has been handled.                                           *)
LEMMA BatchDonePreserves ==
    ASSUME IInv, BatchDone
    PROVE  IInv'
<1> USE DEF BatchDone, vars, kernelVars, netVars, epollVars, loopVars, delVars, Goto
<1>1. TypeOK'
  BY KernelAssumption, ServerAssumption
  DEF IInv, TypeOK, KernelTypeOK, Item, Event, HasClient,
      LoopState, Actor
<1>2. AliveHasFD' /\ DistinctFDs' /\ MapKeys' /\ ToldInv'
  BY OwnershipFrame
<1>3. PendingIsNew'
  BY DEF IInv, PendingIsNew
<1>4. CurIsPrivate'
  BY DEF IInv, CurIsPrivate, NotShared
<1>5. DelClientInv'
  BY InterestFrame DEF IInv, TypeOK, KernelTypeOK
<1>6. BatchInv'
  BY DEF IInv, BatchInv
<1> QED
  BY <1>1, <1>2, <1>3, <1>4, <1>5, <1>6 DEF IInv

(* accept fails: the thread drops its locals.                              *)
LEMMA AcceptFailsPreserves ==
    ASSUME IInv, AcceptFails
    PROVE  IInv'
<1> USE DEF AcceptFails, vars, kernelVars, netVars, epollVars, loopVars, delVars, Fail
<1>1. TypeOK'
  BY KernelAssumption, ServerAssumption
  DEF IInv, TypeOK, KernelTypeOK, Item, Event, HasClient,
      LoopState, Actor
<1>2. AliveHasFD' /\ DistinctFDs' /\ MapKeys' /\ ToldInv'
  BY OwnershipFrame
<1>3. PendingIsNew'
  BY DEF IInv, PendingIsNew
<1>4. CurIsPrivate'
  BY DEF IInv, CurIsPrivate, NotShared
<1>5. DelClientInv'
  BY InterestFrame DEF IInv, TypeOK, KernelTypeOK
<1>6. BatchInv'
  BY DEF IInv, BatchInv
<1> QED
  BY <1>1, <1>2, <1>3, <1>4, <1>5, <1>6 DEF IInv

(* The new socket no longer blocks.                                        *)
LEMMA ConfigPreserves ==
    ASSUME IInv, Config
    PROVE  IInv'
<1> USE DEF Config, vars, kernelVars, netVars, epollVars, loopVars, delVars, Goto
<1>1. TypeOK'
  BY KernelAssumption, ServerAssumption
  DEF IInv, TypeOK, KernelTypeOK, Item, Event, HasClient,
      LoopState, Actor
<1>2. AliveHasFD' /\ DistinctFDs' /\ MapKeys' /\ ToldInv'
  BY OwnershipFrame
<1>3. PendingIsNew'
  BY DEF IInv, PendingIsNew
<1>4. CurIsPrivate'
  BY DEF IInv, CurIsPrivate, NotShared
<1>5. DelClientInv'
  BY InterestFrame DEF IInv, TypeOK, KernelTypeOK
<1>6. BatchInv'
  BY DEF IInv, BatchInv
<1> QED
  BY <1>1, <1>2, <1>3, <1>4, <1>5, <1>6 DEF IInv

(* The new peer dies with the thread's only reference to it.               *)
LEMMA ConfigFailsPreserves ==
    ASSUME IInv, ConfigFails
    PROVE  IInv'
<1> USE DEF ConfigFails, vars, kernelVars, netVars, epollVars, loopVars, delVars, Fail
<1>1. TypeOK'
  BY KernelAssumption, ServerAssumption
  DEF IInv, TypeOK, KernelTypeOK, Item, Event, HasClient,
      LoopState, Actor
<1>2. AliveHasFD' /\ DistinctFDs' /\ MapKeys' /\ ToldInv'
  BY OwnershipFrame
<1>3. PendingIsNew'
  BY DEF IInv, PendingIsNew
<1>4. CurIsPrivate'
  BY DEF IInv, CurIsPrivate, NotShared
<1>5. DelClientInv'
  BY InterestFrame DEF IInv, TypeOK, KernelTypeOK
<1>6. BatchInv'
  BY DEF IInv, BatchInv
<1> QED
  BY <1>1, <1>2, <1>3, <1>4, <1>5, <1>6 DEF IInv

(* The new peer dies with the thread's only reference to it.               *)
LEMMA AddFailsPreserves ==
    ASSUME IInv, AddFails
    PROVE  IInv'
<1> USE DEF AddFails, vars, kernelVars, netVars, epollVars, loopVars, delVars, Fail
<1>1. TypeOK'
  BY KernelAssumption, ServerAssumption
  DEF IInv, TypeOK, KernelTypeOK, Item, Event, HasClient,
      LoopState, Actor
<1>2. AliveHasFD' /\ DistinctFDs' /\ MapKeys' /\ ToldInv'
  BY OwnershipFrame
<1>3. PendingIsNew'
  BY DEF IInv, PendingIsNew
<1>4. CurIsPrivate'
  BY DEF IInv, CurIsPrivate, NotShared
<1>5. DelClientInv'
  BY InterestFrame DEF IInv, TypeOK, KernelTypeOK
<1>6. BatchInv'
  BY DEF IInv, BatchInv
<1> QED
  BY <1>1, <1>2, <1>3, <1>4, <1>5, <1>6 DEF IInv

(* The receive callback begins.                                            *)
LEMMA OnRecvDataPreserves ==
    ASSUME IInv, OnRecvData
    PROVE  IInv'
<1> USE DEF OnRecvData, vars, kernelVars, netVars, epollVars, loopVars, delVars, Goto
<1>1. TypeOK'
  BY KernelAssumption, ServerAssumption
  DEF IInv, TypeOK, KernelTypeOK, Item, Event, HasClient,
      LoopState, Actor
<1>2. AliveHasFD' /\ DistinctFDs' /\ MapKeys' /\ ToldInv'
  BY OwnershipFrame
<1>3. PendingIsNew'
  BY DEF IInv, PendingIsNew
<1>4. CurIsPrivate'
  BY DEF IInv, CurIsPrivate, NotShared
<1>5. DelClientInv'
  BY InterestFrame DEF IInv, TypeOK, KernelTypeOK
<1>6. BatchInv'
  BY DEF IInv, BatchInv
<1> QED
  BY <1>1, <1>2, <1>3, <1>4, <1>5, <1>6 DEF IInv

(* The thread drops its peer_client.                                       *)
LEMMA CallbackReturnPreserves ==
    ASSUME IInv, CallbackReturn
    PROVE  IInv'
<1> USE DEF CallbackReturn, vars, kernelVars, netVars, epollVars, loopVars, delVars, InCallback
<1>1. TypeOK'
  BY KernelAssumption, ServerAssumption
  DEF IInv, TypeOK, KernelTypeOK, Item, Event, HasClient,
      LoopState, Actor
<1>2. AliveHasFD' /\ DistinctFDs' /\ MapKeys' /\ ToldInv'
  BY OwnershipFrame
<1>3. PendingIsNew'
  BY DEF IInv, PendingIsNew
<1>4. CurIsPrivate'
  BY DEF IInv, CurIsPrivate, NotShared
<1>5. DelClientInv'
  BY InterestFrame DEF IInv, TypeOK, KernelTypeOK
<1>6. BatchInv'
  BY DEF IInv, BatchInv
<1> QED
  BY <1>1, <1>2, <1>3, <1>4, <1>5, <1>6 DEF IInv

(* The thread drops its peer_client and ends.                              *)
LEMMA CallbackThrowsPreserves ==
    ASSUME IInv, CallbackThrows
    PROVE  IInv'
<1> USE DEF CallbackThrows, vars, kernelVars, netVars, epollVars, loopVars, delVars, Fail, InCallback
<1>1. TypeOK'
  BY KernelAssumption, ServerAssumption
  DEF IInv, TypeOK, KernelTypeOK, Item, Event, HasClient,
      LoopState, Actor
<1>2. AliveHasFD' /\ DistinctFDs' /\ MapKeys' /\ ToldInv'
  BY OwnershipFrame
<1>3. PendingIsNew'
  BY DEF IInv, PendingIsNew
<1>4. CurIsPrivate'
  BY DEF IInv, CurIsPrivate, NotShared
<1>5. DelClientInv'
  BY InterestFrame DEF IInv, TypeOK, KernelTypeOK
<1>6. BatchInv'
  BY DEF IInv, BatchInv
<1> QED
  BY <1>1, <1>2, <1>3, <1>4, <1>5, <1>6 DEF IInv

(* The only listen event leaves event_list, and a connection waits.        *)
LEMMA ListenEventPreserves ==
    ASSUME IInv,
           NEW e \in batch, ListenEvent(e)
    PROVE  IInv'
<1> USE DEF ListenEvent, vars, kernelVars, netVars, epollVars, loopVars, delVars
<1>1. TypeOK'
  BY KernelAssumption, ServerAssumption
  DEF IInv, TypeOK, KernelTypeOK, Item, Event, HasClient,
      LoopState, Actor
<1>2. AliveHasFD' /\ DistinctFDs' /\ MapKeys' /\ ToldInv'
  BY OwnershipFrame
<1>3. PendingIsNew'
  BY DEF IInv, PendingIsNew
<1>4. CurIsPrivate'
  BY DEF IInv, CurIsPrivate, NotShared
<1>5. DelClientInv'
  BY InterestFrame DEF IInv, TypeOK, KernelTypeOK
<1>6. BatchInv'
  <2>1. \A d \in batch \ {e} : d.fd # Listen
    BY DEF IInv, BatchInv, TypeOK, Event
  <2> QED
    BY <2>1 DEF IInv, BatchInv
<1> QED
  BY <1>1, <1>2, <1>3, <1>4, <1>5, <1>6 DEF IInv

(* m_client_mgr.at throws: event_list is dropped.                          *)
LEMMA UnknownClientPreserves ==
    ASSUME IInv,
           NEW e \in batch, UnknownClient(e)
    PROVE  IInv'
<1> USE DEF UnknownClient, vars, kernelVars, netVars, epollVars, loopVars, delVars, Fail
<1>1. TypeOK'
  BY KernelAssumption, ServerAssumption
  DEF IInv, TypeOK, KernelTypeOK, Item, Event, HasClient,
      LoopState, Actor
<1>2. AliveHasFD' /\ DistinctFDs' /\ MapKeys' /\ ToldInv'
  BY OwnershipFrame
<1>3. PendingIsNew'
  BY DEF IInv, PendingIsNew
<1>4. CurIsPrivate'
  BY DEF IInv, CurIsPrivate, NotShared
<1>5. DelClientInv'
  BY InterestFrame DEF IInv, TypeOK, KernelTypeOK
<1>6. BatchInv'
  BY DEF IInv, BatchInv
<1> QED
  BY <1>1, <1>2, <1>3, <1>4, <1>5, <1>6 DEF IInv

(* read(2) takes data from the socket's queue.                             *)
LEMMA ReadDataPreserves ==
    ASSUME IInv,
           NEW a \in Actor, NEW c \in Conn, NEW len \in Lens, ReadData(a, c, len)
    PROVE  IInv'
<1> USE DEF ReadData, vars, kernelVars, netVars, epollVars, loopVars, delVars
<1>1. TypeOK'
  BY KernelAssumption, ServerAssumption
  DEF IInv, TypeOK, KernelTypeOK, Item, Event, HasClient,
      LoopState, Actor
<1>2. AliveHasFD' /\ DistinctFDs' /\ MapKeys' /\ ToldInv'
  BY OwnershipFrame
<1>3. PendingIsNew'
  BY DEF IInv, PendingIsNew
<1>4. CurIsPrivate'
  BY DEF IInv, CurIsPrivate, NotShared
<1>5. DelClientInv'
  BY InterestFrame DEF IInv, TypeOK, KernelTypeOK
<1>6. BatchInv'
  BY DEF IInv, BatchInv
<1> QED
  BY <1>1, <1>2, <1>3, <1>4, <1>5, <1>6 DEF IInv

(* A reported listen event means that the backlog is not empty.            *)
LEMMA EpollWaitPreserves ==
    ASSUME IInv, EpollWait
    PROVE  IInv'
<1> USE DEF EpollWait, vars, kernelVars, netVars, epollVars, loopVars, delVars, EpollReport, Deliverable, OpenItems, EventOf
<1>1. TypeOK'
  <2>1. PICK E \in SUBSET Deliverable(OpenItems) :
           /\ Cardinality(E) <= evcap
           /\ batch' = {EventOf(i) : i \in E}
           /\ ready' = Deliverable(OpenItems) \ E
           /\ evcap' \in {evcap, 2 * evcap}
    OBVIOUS
  <2>2. \A i \in E : EventOf(i) \in Event
    BY DEF IInv, AliveHasFD, Event, Item
  <2>3. batch' \subseteq Event /\ ready' \subseteq Item /\ evcap' \in Nat
    BY <2>1, <2>2 DEF IInv, TypeOK, KernelTypeOK
  <2> QED
    BY <2>3 DEF IInv, TypeOK, KernelTypeOK, Item, Event, HasClient,
      LoopState, Actor
<1>2. AliveHasFD' /\ DistinctFDs' /\ MapKeys' /\ ToldInv'
  BY OwnershipFrame
<1>3. PendingIsNew'
  BY DEF IInv, PendingIsNew
<1>4. CurIsPrivate'
  BY DEF IInv, CurIsPrivate, NotShared
<1>5. DelClientInv'
  BY InterestFrame DEF IInv, TypeOK, KernelTypeOK
<1>6. BatchInv'
  <2>1. \A e \in batch' : \E i \in ready \cap OpenItems :
                                Readable(i) /\ e = EventOf(i)
    OBVIOUS
  <2>2. \A e \in batch' : e.fd = Listen => e.src = Listen /\ backlog # <<>>
    BY <2>1, KernelAssumption, ServerAssumption
    DEF IInv, TypeOK, KernelTypeOK, Item, Readable, AliveHasFD
  <2> QED
    BY <2>2 DEF BatchInv
<1> QED
  BY <1>1, <1>2, <1>3, <1>4, <1>5, <1>6 DEF IInv

(* A connection enters the backlog once, before it has a peer.             *)
LEMMA ConnectPreserves ==
    ASSUME IInv,
           NEW c \in Conn, UNCHANGED <<runFlag, starts, loopVars, mgr, fdOf, app, delVars>>, Connect(c)
    PROVE  IInv'
<1> USE DEF Connect, vars, kernelVars, netVars, epollVars, loopVars, delVars, Edge
<1>1. TypeOK'
  BY KernelAssumption, ServerAssumption
  DEF IInv, TypeOK, KernelTypeOK, Item, Event, HasClient,
      LoopState, Actor
<1>2. AliveHasFD' /\ DistinctFDs' /\ MapKeys' /\ ToldInv'
  BY OwnershipFrame
<1>3. PendingIsNew'
  <2>1. /\ \A i \in DOMAIN backlog : backlog'[i] = backlog[i] /\ backlog[i] # c
        /\ backlog'[Len(backlog) + 1] = c
        /\ DOMAIN backlog' = DOMAIN backlog \cup {Len(backlog) + 1}
    <3>1. backlog \in Seq(Conn) /\ backlog' = Append(backlog, c) /\ remote[c] = "new"
      BY DEF IInv, TypeOK, KernelTypeOK
    <3>2. \A i \in DOMAIN backlog : backlog[i] # c
      BY <3>1 DEF IInv, PendingIsNew
    <3>3. /\ \A i \in DOMAIN backlog : backlog'[i] = backlog[i]
          /\ backlog'[Len(backlog) + 1] = c
      BY <3>1
    <3>4. DOMAIN backlog' = DOMAIN backlog \cup {Len(backlog) + 1}
      BY <3>1
    <3> QED
      BY <3>2, <3>3, <3>4
  <2>2. fdOf[c] = None /\ remote'[c] = "open"
    BY DEF IInv, TypeOK, KernelTypeOK, PendingIsNew
  <2>3. \A i \in DOMAIN backlog' :
           fdOf'[backlog'[i]] = None /\ remote'[backlog'[i]] # "new"
    BY <2>1, <2>2 DEF IInv, TypeOK, KernelTypeOK, PendingIsNew
  <2>4. \A i, j \in DOMAIN backlog' : backlog'[i] = backlog'[j] => i = j
    BY <2>1 DEF IInv, PendingIsNew
  <2>5. \A d \in Conn : remote'[d] = "new" => fdOf'[d] = None
    BY <2>2 DEF IInv, TypeOK, KernelTypeOK, PendingIsNew
  <2> QED
    BY <2>3, <2>4, <2>5 DEF PendingIsNew
<1>4. CurIsPrivate'
  BY DEF IInv, CurIsPrivate, NotShared
<1>5. DelClientInv'
  BY InterestFrame DEF IInv, TypeOK, KernelTypeOK
<1>6. BatchInv'
  BY DEF IInv, BatchInv
<1> QED
  BY <1>1, <1>2, <1>3, <1>4, <1>5, <1>6 DEF IInv

(* Data arrives.                                                           *)
LEMMA SendPreserves ==
    ASSUME IInv,
           NEW c \in Conn, UNCHANGED <<runFlag, starts, loopVars, mgr, fdOf, app, delVars>>, Send(c)
    PROVE  IInv'
<1> USE DEF Send, vars, kernelVars, netVars, epollVars, loopVars, delVars, Edge
<1>1. TypeOK'
  BY KernelAssumption, ServerAssumption
  DEF IInv, TypeOK, KernelTypeOK, Item, Event, HasClient,
      LoopState, Actor
<1>2. AliveHasFD' /\ DistinctFDs' /\ MapKeys' /\ ToldInv'
  BY OwnershipFrame
<1>3. PendingIsNew'
  BY DEF IInv, PendingIsNew
<1>4. CurIsPrivate'
  BY DEF IInv, CurIsPrivate, NotShared
<1>5. DelClientInv'
  BY InterestFrame DEF IInv, TypeOK, KernelTypeOK
<1>6. BatchInv'
  BY DEF IInv, BatchInv
<1> QED
  BY <1>1, <1>2, <1>3, <1>4, <1>5, <1>6 DEF IInv

(* The client closes.                                                      *)
LEMMA ClosePreserves ==
    ASSUME IInv,
           NEW c \in Conn, UNCHANGED <<runFlag, starts, loopVars, mgr, fdOf, app, delVars>>, Close(c)
    PROVE  IInv'
<1> USE DEF Close, vars, kernelVars, netVars, epollVars, loopVars, delVars, Edge
<1>1. TypeOK'
  BY KernelAssumption, ServerAssumption
  DEF IInv, TypeOK, KernelTypeOK, Item, Event, HasClient,
      LoopState, Actor
<1>2. AliveHasFD' /\ DistinctFDs' /\ MapKeys' /\ ToldInv'
  BY OwnershipFrame
<1>3. PendingIsNew'
  BY DEF IInv, PendingIsNew
<1>4. CurIsPrivate'
  BY DEF IInv, CurIsPrivate, NotShared
<1>5. DelClientInv'
  BY InterestFrame DEF IInv, TypeOK, KernelTypeOK
<1>6. BatchInv'
  BY DEF IInv, BatchInv
<1> QED
  BY <1>1, <1>2, <1>3, <1>4, <1>5, <1>6 DEF IInv

(* The old backlog is reset; clients left in the map keep what they have.  *)
LEMMA StartPreserves ==
    ASSUME IInv, Start
    PROVE  IInv'
<1> USE DEF Start, Ended, vars, kernelVars, netVars, epollVars, loopVars, delVars, EpollDel
<1>1. TypeOK'
  <2>1. remote' \in [Conn -> {"new", "open", "closed"}] /\ backlog' \in Seq(Conn)
    BY DEF IInv, TypeOK, KernelTypeOK
  <2>2. batch' \subseteq Event /\ evcap' \in Nat /\ starts' \in Nat /\ cur' = None
    BY KernelAssumption DEF IInv, TypeOK, HasClient
  <2> QED
    BY <2>1, <2>2 DEF IInv, TypeOK, KernelTypeOK, HasClient, LoopState
<1>2. AliveHasFD' /\ DistinctFDs' /\ MapKeys' /\ ToldInv'
  BY OwnershipFrame
<1>3. PendingIsNew'
  BY DEF IInv, PendingIsNew
<1>4. CurIsPrivate'
  BY DEF IInv, CurIsPrivate, NotShared
<1>5. DelClientInv'
  BY InterestFrame DEF IInv, TypeOK, KernelTypeOK
<1>6. BatchInv'
  BY DEF IInv, BatchInv
<1> QED
  BY <1>1, <1>2, <1>3, <1>4, <1>5, <1>6 DEF IInv

(* Clearing the map only removes owners.                                   *)
LEMMA ShutdownPreserves ==
    ASSUME IInv, Shutdown
    PROVE  IInv'
<1> USE DEF Shutdown, vars, kernelVars, netVars, epollVars, loopVars, delVars, Goto
<1>1. TypeOK'
  BY KernelAssumption, ServerAssumption
  DEF IInv, TypeOK, KernelTypeOK, Item, Event, HasClient,
      LoopState, Actor
<1>2. AliveHasFD' /\ DistinctFDs'
  <2>1. \A c \in Conn : Alive(c)' => Alive(c)
    BY ServerAssumption DEF Alive
  <2> QED
    BY <2>1 DEF IInv, AliveHasFD, DistinctFDs
<1>3. MapKeys' /\ ToldInv'
  BY DEF IInv, MapKeys, ToldInv
<1>4. PendingIsNew'
  BY DEF IInv, PendingIsNew
<1>5. CurIsPrivate'
  BY DEF IInv, CurIsPrivate, NotShared
<1>6. DelClientInv'
  BY InterestFrame DEF IInv, TypeOK, KernelTypeOK
<1>7. BatchInv'
  BY DEF IInv, BatchInv
<1> QED
  BY <1>1, <1>2, <1>3, <1>4, <1>5, <1>6, <1>7 DEF IInv

(* A released peer may die; no survivor has its number.                    *)
LEMMA ReleasePreserves ==
    ASSUME IInv,
           NEW c \in Conn, Release(c)
    PROVE  IInv'
<1> USE DEF Release, vars, kernelVars, netVars, epollVars, loopVars, delVars
<1>1. TypeOK'
  BY KernelAssumption, ServerAssumption
  DEF IInv, TypeOK, KernelTypeOK, Item, Event, HasClient,
      LoopState, Actor
<1>2. AliveHasFD' /\ DistinctFDs'
  <2>1. \A d \in Conn : Alive(d)' => Alive(d)
    BY ServerAssumption DEF Alive
  <2> QED
    BY <2>1 DEF IInv, AliveHasFD, DistinctFDs
<1>3. MapKeys' /\ ToldInv'
  BY DEF IInv, MapKeys, ToldInv
<1>4. PendingIsNew'
  BY DEF IInv, PendingIsNew
<1>5. CurIsPrivate'
  BY DEF IInv, CurIsPrivate, NotShared
<1>6. DelClientInv'
  BY InterestFrame DEF IInv, TypeOK, KernelTypeOK
<1>7. BatchInv'
  BY DEF IInv, BatchInv
<1> QED
  BY <1>1, <1>2, <1>3, <1>4, <1>5, <1>6, <1>7 DEF IInv

(* Only a peer that is in the map already is kept.                         *)
LEMMA KeepPreserves ==
    ASSUME IInv, Keep
    PROVE  IInv'
<1> USE DEF Keep, vars, kernelVars, netVars, epollVars, loopVars, delVars, HasClient
<1>1. TypeOK'
  BY KernelAssumption, ServerAssumption
  DEF IInv, TypeOK, KernelTypeOK, Item, Event, HasClient,
      LoopState, Actor
<1>2. AliveHasFD' /\ DistinctFDs'
  <2>1. \A c \in Conn : Alive(c)' => Alive(c)
    BY ServerAssumption DEF Alive
  <2> QED
    BY <2>1 DEF IInv, AliveHasFD, DistinctFDs
<1>3. MapKeys' /\ ToldInv'
  BY DEF IInv, MapKeys, ToldInv
<1>4. PendingIsNew'
  BY DEF IInv, PendingIsNew
<1>5. CurIsPrivate'
  BY DEF IInv, CurIsPrivate, NotShared
<1>6. DelClientInv'
  BY InterestFrame DEF IInv, TypeOK, KernelTypeOK
<1>7. BatchInv'
  BY DEF IInv, BatchInv
<1> QED
  BY <1>1, <1>2, <1>3, <1>4, <1>5, <1>6, <1>7 DEF IInv

(* The peer found under a number owns that number.                         *)
LEMMA HandleClientMsgPreserves ==
    ASSUME IInv,
           NEW e \in batch, HandleClientMsg(e)
    PROVE  IInv'
<1> USE DEF HandleClientMsg, vars, kernelVars, netVars, epollVars, loopVars, delVars
<1>1. TypeOK'
  BY KernelAssumption, ServerAssumption
  DEF IInv, TypeOK, KernelTypeOK, Item, Event, HasClient,
      LoopState, Actor
<1>2. AliveHasFD' /\ DistinctFDs'
  <2>1. \A c \in Conn : Alive(c)' => Alive(c)
    BY ServerAssumption DEF IInv, TypeOK, Event, Alive
  <2> QED
    BY <2>1 DEF IInv, AliveHasFD, DistinctFDs
<1>3. MapKeys' /\ ToldInv'
  BY DEF IInv, MapKeys, ToldInv
<1>4. PendingIsNew'
  BY DEF IInv, PendingIsNew
<1>5. CurIsPrivate'
  BY DEF IInv, CurIsPrivate, NotShared
<1>6. DelClientInv'
  BY InterestFrame DEF IInv, TypeOK, KernelTypeOK
<1>7. BatchInv'
  BY DEF IInv, BatchInv
<1> QED
  BY <1>1, <1>2, <1>3, <1>4, <1>5, <1>6, <1>7 DEF IInv

(* A caller of readData holds a reference until delClient returns.         *)
LEMMA ReadFailsPreserves ==
    ASSUME IInv,
           NEW a \in Actor, NEW c \in Conn, NEW len \in Lens, ReadFails(a, c, len)
    PROVE  IInv'
<1> USE DEF ReadFails, vars, kernelVars, netVars, epollVars, loopVars, delVars, CanRead, InCallback
<1>1. TypeOK'
  BY KernelAssumption, ServerAssumption
  DEF IInv, TypeOK, KernelTypeOK, Item, Event, HasClient,
      LoopState, Actor
<1>2. AliveHasFD' /\ DistinctFDs'
  <2>1. \A d \in Conn : Alive(d)' => Alive(d)
    BY ServerAssumption DEF Alive
  <2> QED
    BY <2>1 DEF IInv, AliveHasFD, DistinctFDs
<1>3. MapKeys' /\ ToldInv'
  BY DEF IInv, MapKeys, ToldInv
<1>4. PendingIsNew'
  BY DEF IInv, PendingIsNew
<1>5. CurIsPrivate'
  BY DEF IInv, CurIsPrivate, NotShared
<1>6. DelClientInv'
  BY DEF IInv, DelClientInv, TypeOK
<1>7. BatchInv'
  BY DEF IInv, BatchInv
<1> QED
  BY <1>1, <1>2, <1>3, <1>4, <1>5, <1>6, <1>7 DEF IInv

(* The peer registered is not one that delClient works on.                 *)
LEMMA AddToEpollPreserves ==
    ASSUME IInv, AddToEpoll
    PROVE  IInv'
<1> USE DEF AddToEpoll, vars, kernelVars, netVars, epollVars, loopVars, delVars, Goto, EpollAdd
<1>1. TypeOK'
  BY KernelAssumption, ServerAssumption
  DEF IInv, TypeOK, KernelTypeOK, Item, Event, HasClient,
      LoopState, Actor
<1>2. AliveHasFD' /\ DistinctFDs' /\ MapKeys' /\ ToldInv'
  BY OwnershipFrame
<1>3. PendingIsNew'
  BY DEF IInv, PendingIsNew
<1>4. CurIsPrivate'
  BY DEF IInv, CurIsPrivate, NotShared
<1>5. DelClientInv'
  BY DEF IInv, DelClientInv, CurIsPrivate, NotShared
<1>6. BatchInv'
  BY DEF IInv, BatchInv
<1> QED
  BY <1>1, <1>2, <1>3, <1>4, <1>5, <1>6 DEF IInv

(* The entry replaced is nobody's: live numbers are distinct.              *)
LEMMA InsertClientPreserves ==
    ASSUME IInv, InsertClient
    PROVE  IInv'
<1> USE DEF InsertClient, vars, kernelVars, netVars, epollVars, loopVars, delVars, Goto
<1>1. TypeOK'
  BY KernelAssumption, ServerAssumption
  DEF IInv, TypeOK, KernelTypeOK, Item, Event, HasClient,
      LoopState, Actor
<1>2. AliveHasFD' /\ DistinctFDs'
  <2>1. \A c \in Conn : Alive(c)' => Alive(c)
    BY ServerAssumption DEF Alive
  <2> QED
    BY <2>1 DEF IInv, AliveHasFD, DistinctFDs
<1>3. MapKeys' /\ ToldInv'
  BY ServerAssumption DEF IInv, MapKeys, ToldInv, TypeOK, CurIsPrivate, NotShared, AliveHasFD, Alive, HasClient
<1>4. PendingIsNew'
  BY DEF IInv, PendingIsNew
<1>5. CurIsPrivate'
  BY DEF IInv, CurIsPrivate, NotShared
<1>6. DelClientInv'
  BY InterestFrame DEF IInv, TypeOK, KernelTypeOK
<1>7. BatchInv'
  BY DEF IInv, BatchInv
<1> QED
  BY <1>1, <1>2, <1>3, <1>4, <1>5, <1>6, <1>7 DEF IInv

(* The kernel hands out a number that no live peer has.                    *)
LEMMA AcceptPreserves ==
    ASSUME IInv,
           NEW f \in FD, Accept(f)
    PROVE  IInv'
<1> USE DEF Accept, vars, kernelVars, netVars, epollVars, loopVars, delVars
<1>a. DEFINE h == Head(backlog)
<1>b. /\ h \in Conn /\ fdOf[h] = None /\ remote[h] # "new" /\ h # None
      /\ ~Alive(h)
  <2>1. 1 \in DOMAIN backlog /\ h = backlog[1] /\ h \in Conn
    BY DEF IInv, TypeOK, KernelTypeOK
  <2> QED
    BY <2>1, ServerAssumption DEF IInv, PendingIsNew, AliveHasFD
<1>c. /\ Tail(backlog) \in Seq(Conn)
      /\ \A i \in DOMAIN Tail(backlog) :
            i + 1 \in DOMAIN backlog /\ Tail(backlog)[i] = backlog[i + 1]
      /\ \A i \in DOMAIN Tail(backlog) : i \in Nat \ {0}
      /\ 1 \in DOMAIN backlog /\ h = backlog[1]
  BY DEF IInv, TypeOK, KernelTypeOK
<1>1. TypeOK'
  BY <1>b, <1>c, KernelAssumption, ServerAssumption DEF IInv, TypeOK, KernelTypeOK, Item, Event, HasClient,
      LoopState, Actor
<1>2. AliveHasFD' /\ DistinctFDs'
  <2>1. \A c \in Conn : Alive(c)' => Alive(c) \/ c = h
    BY ServerAssumption DEF Alive
  <2>2. /\ fdOf'[h] = f
        /\ \A c \in Conn : c # h => fdOf'[c] = fdOf[c]
        /\ \A c \in Conn : Alive(c) => fdOf[c] # f /\ c # h
    BY <1>b DEF FreeFDs, IInv, TypeOK
  <2> QED
    BY <2>1, <2>2 DEF IInv, AliveHasFD, DistinctFDs
<1>3. MapKeys' /\ ToldInv'
  <2>1. \A g \in FD : mgr[g] # None => mgr[g] # h /\ mgr[g] \in Conn
    BY <1>b DEF Alive, IInv, TypeOK
  <2> QED
    BY <1>b, <2>1, ServerAssumption DEF IInv, MapKeys, ToldInv, TypeOK
<1>4. PendingIsNew'
  <2>1. \A i \in DOMAIN Tail(backlog) : Tail(backlog)[i] # h
    BY <1>c DEF IInv, PendingIsNew
  <2>2. \A i \in DOMAIN Tail(backlog) :
           fdOf'[Tail(backlog)[i]] = None /\ remote[Tail(backlog)[i]] # "new"
    BY <1>c, <2>1 DEF IInv, PendingIsNew, TypeOK
  <2>3. \A i, j \in DOMAIN Tail(backlog) : Tail(backlog)[i] = Tail(backlog)[j] => i = j
    BY <1>c DEF IInv, PendingIsNew
  <2>4. \A c \in Conn : remote[c] = "new" => fdOf'[c] = None
    BY <1>b DEF IInv, PendingIsNew, TypeOK
  <2> QED
    BY <2>2, <2>3, <2>4 DEF PendingIsNew
<1>5. CurIsPrivate'
  BY <1>b DEF IInv, CurIsPrivate, NotShared, Alive, ToldInv, TypeOK
<1>6. DelClientInv'
  BY InterestFrame DEF IInv, TypeOK, KernelTypeOK
<1>7. BatchInv'
  BY DEF IInv, BatchInv
<1> QED
  BY <1>1, <1>2, <1>3, <1>4, <1>5, <1>6, <1>7 DEF IInv

(* The number deregistered is the one of the failed peer, which is alive.  *)
LEMMA DelFromEpollPreserves ==
    ASSUME IInv,
           NEW a \in Actor, DelFromEpoll(a)
    PROVE  IInv'
<1> USE DEF DelFromEpoll, vars, kernelVars, netVars, epollVars, loopVars, delVars, EpollDel
<1>1. TypeOK'
  BY KernelAssumption, ServerAssumption
  DEF IInv, TypeOK, KernelTypeOK, Item, Event, HasClient,
      LoopState, Actor
<1>a. self[a] \in Conn /\ Alive(self[a])
  BY DEF IInv, TypeOK, Alive
<1>b. AtFD(fdOf[self[a]]) \subseteq {self[a]}
  BY <1>a DEF AtFD, IInv, DistinctFDs
<1>2. AliveHasFD' /\ DistinctFDs' /\ MapKeys' /\ ToldInv'
  <2>1. \A c \in Conn : Alive(c)' <=> Alive(c)
    BY DEF Alive
  <2> QED
    BY <2>1 DEF IInv, AliveHasFD, DistinctFDs, MapKeys, ToldInv
<1>3. PendingIsNew'
  BY DEF IInv, PendingIsNew
<1>4. CurIsPrivate'
  BY DEF IInv, CurIsPrivate, NotShared
<1>5. DelClientInv'
  BY <1>b DEF IInv, DelClientInv, TypeOK
<1>6. BatchInv'
  BY DEF IInv, BatchInv
<1> QED
  BY <1>1, <1>2, <1>3, <1>4, <1>5, <1>6 DEF IInv

(* The call ends: its reference goes.                                      *)
LEMMA DelNotRegisteredPreserves ==
    ASSUME IInv,
           NEW a \in Actor, DelNotRegistered(a)
    PROVE  IInv'
<1> USE DEF DelNotRegistered, vars, kernelVars, netVars, epollVars, loopVars, delVars
<1>1. TypeOK'
  BY KernelAssumption, ServerAssumption
  DEF IInv, TypeOK, KernelTypeOK, Item, Event, HasClient,
      LoopState, Actor
<1>2. AliveHasFD' /\ DistinctFDs'
  <2>1. \A c \in Conn : Alive(c)' => Alive(c)
    BY ServerAssumption DEF Alive
  <2> QED
    BY <2>1 DEF IInv, AliveHasFD, DistinctFDs
<1>3. MapKeys' /\ ToldInv'
  BY DEF IInv, MapKeys, ToldInv
<1>4. PendingIsNew'
  BY DEF IInv, PendingIsNew
<1>5. CurIsPrivate'
  BY ServerAssumption DEF IInv, CurIsPrivate, NotShared, TypeOK, HasClient
<1>6. DelClientInv'
  BY DEF IInv, DelClientInv, TypeOK
<1>7. BatchInv'
  BY DEF IInv, BatchInv
<1> QED
  BY <1>1, <1>2, <1>3, <1>4, <1>5, <1>6, <1>7 DEF IInv

(* The entry erased is the failed peer's own, by the keys of the map.      *)
LEMMA EraseClientPreserves ==
    ASSUME IInv,
           NEW a \in Actor, EraseClient(a)
    PROVE  IInv'
<1> USE DEF EraseClient, vars, kernelVars, netVars, epollVars, loopVars, delVars
<1>a. DEFINE fd == fdOf[self[a]]
<1>b. self[a] \in Conn /\ self[a] # None /\ fd \in FD /\ mgr[fd] \in {None, self[a]}
  <2>1. self[a] \in Conn /\ Alive(self[a])
    BY DEF IInv, TypeOK, Alive
  <2>2. fd \in FD
    BY <2>1 DEF IInv, AliveHasFD
  <2>3. mgr[fd] # None => Alive(mgr[fd]) /\ fdOf[mgr[fd]] = fd /\ mgr[fd] \in Conn
    BY <2>2 DEF IInv, TypeOK, Alive, MapKeys
  <2> QED
    BY <2>1, <2>2, <2>3, ServerAssumption DEF IInv, DistinctFDs
<1>c. /\ mgr' = [mgr EXCEPT ![fd] = None]
      /\ victim' = [victim EXCEPT ![a] = mgr[fd]]
  OBVIOUS
<1>1. TypeOK'
  BY <1>b, KernelAssumption, ServerAssumption DEF IInv, TypeOK, KernelTypeOK, Item, Event, HasClient,
      LoopState, Actor
<1>2. AliveHasFD' /\ DistinctFDs'
  <2>1. \A c \in Conn : Alive(c)' => Alive(c)
    BY <1>b, ServerAssumption DEF IInv, TypeOK, Alive
  <2> QED
    BY <2>1 DEF IInv, AliveHasFD, DistinctFDs
<1>3. MapKeys' /\ ToldInv'
  <2>1. MapKeys'
    BY <1>b, <1>c DEF IInv, MapKeys, TypeOK
  <2>2. \A g \in FD : g # fd => mgr[g] # self[a]
    BY <1>b DEF IInv, MapKeys
  <2>3. ToldInv'
    BY <1>b, <1>c, <2>2 DEF IInv, ToldInv, TypeOK
  <2> QED
    BY <2>1, <2>3
<1>4. PendingIsNew'
  BY DEF IInv, PendingIsNew
<1>5. CurIsPrivate'
  BY <1>b, <1>c, ServerAssumption DEF IInv, CurIsPrivate, NotShared, TypeOK, HasClient
<1>6. DelClientInv'
  BY <1>b, <1>c DEF IInv, DelClientInv, TypeOK
<1>7. BatchInv'
  BY DEF IInv, BatchInv
<1> QED
  BY <1>1, <1>2, <1>3, <1>4, <1>5, <1>6, <1>7 DEF IInv

(* The victim has left the map and is no other call's victim.              *)
LEMMA OnDisconnectPreserves ==
    ASSUME IInv,
           NEW a \in Actor, OnDisconnect(a)
    PROVE  IInv'
<1> USE DEF OnDisconnect, vars, kernelVars, netVars, epollVars, loopVars, delVars
<1>1. TypeOK'
  BY KernelAssumption, ServerAssumption
  DEF IInv, TypeOK, KernelTypeOK, Item, Event, HasClient,
      LoopState, Actor
<1>2. AliveHasFD' /\ DistinctFDs'
  <2>1. \A c \in Conn : Alive(c)' => Alive(c)
    BY ServerAssumption DEF Alive
  <2> QED
    BY <2>1 DEF IInv, AliveHasFD, DistinctFDs
<1>3. MapKeys' /\ ToldInv'
  <2>1. MapKeys'
    BY DEF IInv, MapKeys
  <2>2. \A c \in Conn : told'[c] = IF victim[a] = c THEN told[c] + 1 ELSE told[c]
    OBVIOUS
  <2>3. victim[a] # None => victim[a] \in Conn /\ told[victim[a]] = 0 /\ fdOf[victim[a]] # None
    BY ServerAssumption DEF IInv, ToldInv, TypeOK, AliveHasFD, Alive
  <2>4. \A b \in Actor \ {a} : victim'[b] = victim[b]
                             /\ (victim[b] # None => victim[b] # victim[a])
    BY DEF IInv, ToldInv, TypeOK
  <2>5. victim'[a] = None
    BY DEF IInv, TypeOK
  <2>6. \A g \in FD : mgr[g] # None => mgr[g] \in Conn /\ mgr[g] # victim[a]
    BY ServerAssumption DEF IInv, ToldInv, TypeOK
  <2>7. ToldInv'
    BY <2>2, <2>3, <2>4, <2>5, <2>6, ServerAssumption DEF IInv, ToldInv, TypeOK
  <2> QED
    BY <2>1, <2>7
<1>4. PendingIsNew'
  BY DEF IInv, PendingIsNew
<1>5. CurIsPrivate'
  BY ServerAssumption DEF IInv, CurIsPrivate, NotShared, TypeOK, HasClient
<1>6. DelClientInv'
  BY DEF IInv, DelClientInv, TypeOK
<1>7. BatchInv'
  BY DEF IInv, BatchInv
<1> QED
  BY <1>1, <1>2, <1>3, <1>4, <1>5, <1>6, <1>7 DEF IInv

-----------------------------------------------------------------------------
(* A server nobody has started satisfies the invariant.                    *)
LEMMA InitImpliesIInv ==
    ASSUME Init
    PROVE  IInv
<1> USE DEF Init, KernelInit
<1>1. TypeOK
  <2>1. <<>> \in Seq(Conn)
    OBVIOUS
  <2>2. KernelTypeOK
    BY <2>1 DEF KernelTypeOK
  <2>3. evcap \in Nat /\ starts \in Nat
    BY KernelAssumption
  <2>4. /\ runFlag \in BOOLEAN
        /\ batch \subseteq Event
        /\ cur \in Conn \cup {None}
        /\ app \subseteq Conn
    OBVIOUS
  <2>5. /\ pc \in LoopState
        /\ pc \in HasClient <=> cur # None
    BY DEF LoopState, HasClient
  <2>6. /\ mgr \in [FD -> Conn \cup {None}]
        /\ fdOf \in [Conn -> FD \cup {None}]
        /\ self \in [Actor -> Conn \cup {None}]
        /\ victim \in [Actor -> Conn \cup {None}]
        /\ told \in [Conn -> Nat]
    OBVIOUS
  <2>7. /\ dpc \in [Actor -> {"idle", "ctl", "erase", "notify"}]
        /\ \A a \in Actor : dpc[a] = "idle" <=> self[a] = None
    OBVIOUS
  <2> QED
    BY <2>2, <2>3, <2>4, <2>5, <2>6, <2>7 DEF TypeOK
<1>2. \A c \in Conn : ~Alive(c)
  BY ServerAssumption DEF Alive
<1>3. AliveHasFD /\ DistinctFDs /\ MapKeys
  BY <1>2 DEF AliveHasFD, DistinctFDs, MapKeys
<1>4. PendingIsNew /\ CurIsPrivate /\ DelClientInv /\ ToldInv /\ BatchInv
  BY DEF PendingIsNew, CurIsPrivate, DelClientInv, ToldInv, BatchInv
<1> QED
  BY <1>1, <1>3, <1>4 DEF IInv

(* No step of the server, the application or the remote clients breaks it. *)
LEMMA NextPreservesIInv ==
    ASSUME IInv, [Next]_vars
    PROVE  IInv'
<1>1. CASE Start \/ Stop
  BY <1>1, StartPreserves, StopPreserves
<1>2. CASE LoopStep
  <2>1. CASE InitEpoll \/ InitEpollFails \/ CheckRunFlag \/ Shutdown
    BY <2>1, InitEpollPreserves, InitEpollFailsPreserves,
       CheckRunFlagPreserves, ShutdownPreserves
  <2>2. CASE EpollWait \/ EpollTimeout \/ EpollWaitFails \/ BatchDone
    BY <2>2, EpollWaitPreserves, EpollTimeoutPreserves,
       EpollWaitFailsPreserves, BatchDonePreserves
  <2>3. CASE \E e \in batch : ListenEvent(e) \/ HandleClientMsg(e) \/ UnknownClient(e)
    BY <2>3, ListenEventPreserves, HandleClientMsgPreserves, UnknownClientPreserves
  <2>4. CASE (\E f \in FD : Accept(f)) \/ AcceptFails \/ Config \/ ConfigFails
    BY <2>4, AcceptPreserves, AcceptFailsPreserves, ConfigPreserves,
       ConfigFailsPreserves
  <2>5. CASE AddToEpoll \/ AddFails \/ InsertClient \/ OnRecvData
    BY <2>5, AddToEpollPreserves, AddFailsPreserves, InsertClientPreserves,
       OnRecvDataPreserves
  <2> QED
    BY <1>2, <2>1, <2>2, <2>3, <2>4, <2>5 DEF LoopStep
<1>3. CASE CallbackReturn \/ CallbackThrows \/ Keep \/ \E c \in Conn : Release(c)
  BY <1>3, CallbackReturnPreserves, CallbackThrowsPreserves, KeepPreserves,
     ReleasePreserves
<1>4. CASE \E a \in Actor : ReadStep(a)
  BY <1>4, ReadDataPreserves, ReadFailsPreserves DEF ReadStep
<1>5. CASE \E a \in Actor : DelStep(a)
  BY <1>5, DelFromEpollPreserves, DelNotRegisteredPreserves,
     EraseClientPreserves, OnDisconnectPreserves DEF DelStep
<1>6. CASE ClientStep
  BY <1>6, ConnectPreserves, SendPreserves, ClosePreserves DEF ClientStep
<1>7. CASE UNCHANGED vars
  <2> USE <1>7 DEF vars, kernelVars, netVars, epollVars, loopVars, delVars
  <2>1. TypeOK'
    BY DEF IInv, TypeOK, KernelTypeOK
  <2>2. AliveHasFD' /\ DistinctFDs' /\ MapKeys' /\ ToldInv'
    BY OwnershipFrame
  <2>3. PendingIsNew' /\ CurIsPrivate' /\ DelClientInv' /\ BatchInv'
    BY DEF IInv, PendingIsNew, CurIsPrivate, NotShared, DelClientInv, BatchInv
  <2> QED
    BY <2>1, <2>2, <2>3 DEF IInv
<1> QED
  BY <1>1, <1>2, <1>3, <1>4, <1>5, <1>6, <1>7 DEF Next

(* Ownership of descriptors, the client map and the steps of delClient     *)
(* agree in every reachable state.                                         *)
THEOREM Invariance == Spec => []IInv
<1>1. Init => IInv
  BY InitImpliesIInv
<1>2. IInv /\ [Next]_vars => IInv'
  BY NextPreservesIInv
<1> QED
  BY <1>1, <1>2, PTL DEF Spec

-----------------------------------------------------------------------------
(* Every variable keeps its type, and the epoll thread's and delClient's   *)
(* locals are set exactly while the control state says so.                 *)
THEOREM TypeCorrect == Spec => []TypeOK
<1>1. IInv => TypeOK
  BY DEF IInv
<1> QED
  BY <1>1, Invariance, PTL

(* The epoll thread never calls accept on an empty backlog, on which it    *)
(* would sleep for ever (server.cpp, handleNewClientConnect).              *)
THEOREM AcceptReturns == Spec => []AcceptNeverBlocks
<1>1. IInv => AcceptNeverBlocks
  BY DEF IInv, BatchInv, AcceptNeverBlocks
<1> QED
  BY <1>1, Invariance, PTL

(* m_client_mgr maps a number to the peer that owns it, and no client      *)
(* overwrites another one's entry.                                         *)
THEOREM RegistryIsConsistent == Spec => []RegistryConsistent
<1>1. IInv => RegistryConsistent
  <2> SUFFICES ASSUME IInv, pc = "insert" PROVE mgr[fdOf[cur]] = None
    BY DEF IInv, MapKeys, RegistryConsistent
  <2>1. cur \in Conn /\ Alive(cur) /\ fdOf[cur] \in FD
    BY ServerAssumption DEF IInv, TypeOK, HasClient, Alive, AliveHasFD
  <2>2. mgr[fdOf[cur]] # None => mgr[fdOf[cur]] \in Conn
                              /\ Alive(mgr[fdOf[cur]])
                              /\ fdOf[mgr[fdOf[cur]]] = fdOf[cur]
    BY <2>1 DEF IInv, TypeOK, MapKeys, Alive
  <2>3. mgr[fdOf[cur]] # None => mgr[fdOf[cur]] = cur
    BY <2>1, <2>2 DEF IInv, DistinctFDs
  <2> QED
    BY <2>1, <2>3 DEF IInv, CurIsPrivate, NotShared
<1> QED
  BY <1>1, Invariance, PTL

(* delClient, although it works by number and in three steps, disconnects  *)
(* nobody but the client whose read failed.                                *)
THEOREM DelClientIsPrecise == Spec => []DelClientHitsItself
<1>1. IInv => DelClientHitsItself
  BY DEF IInv, DelClientInv, DelClientHitsItself
<1> QED
  BY <1>1, Invariance, PTL

(* A peer's disconnect callback runs once at most, however many threads    *)
(* see its reads fail.                                                     *)
THEOREM ToldOnce == Spec => []DisconnectAtMostOnce
<1>1. IInv => DisconnectAtMostOnce
  <2> SUFFICES ASSUME IInv, NEW c \in Conn PROVE told[c] <= 1
    BY DEF DisconnectAtMostOnce
  <2>1. told[c] \in {0, 1}
    BY DEF IInv, ToldInv
  <2> QED
    BY <2>1
<1> QED
  BY <1>1, Invariance, PTL

(* A client whose disconnect callback is about to run is neither in the    *)
(* map nor registered with epoll.                                          *)
THEOREM ToldLast == Spec => []UnreachableWhenTold
<1>1. IInv => UnreachableWhenTold
  BY DEF IInv, ToldInv, DelClientInv, UnreachableWhenTold, Mapped
<1> QED
  BY <1>1, Invariance, PTL

(* Once told and not referred to any more, a peer's descriptor is closed.  *)
THEOREM NoDescriptorLeak == Spec => []DescriptorReclaimed
<1>1. IInv => DescriptorReclaimed
  <2> SUFFICES ASSUME IInv, NEW c \in Conn, told[c] > 0,
                      c \notin app \cup {cur}, \A a \in Actor : self[a] # c
               PROVE  ~Alive(c)
    BY DEF DescriptorReclaimed
  <2>1. \A f \in FD : mgr[f] # c
    BY ServerAssumption DEF IInv, ToldInv
  <2>2. \A a \in Actor : victim[a] # c
    BY ServerAssumption DEF IInv, ToldInv
  <2> QED
    BY <2>1, <2>2 DEF Alive
<1> QED
  BY <1>1, Invariance, PTL
=============================================================================

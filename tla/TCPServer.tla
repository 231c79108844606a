----------------------------- MODULE TCPServer -----------------------------
(***************************************************************************)
(* JTCP::Server::TCPServer at work: the epoll thread of acceptThreadFunc,  *)
(* the thread that starts and stops it, the callbacks it makes, and the    *)
(* application's own threads that read from clients they keep.  Every      *)
(* critical section of m_client_mgr_mutex is one action.                   *)
(***************************************************************************)
EXTENDS ServerState

-----------------------------------------------------------------------------
(* start() and stop(), as the thread that owns the server calls them.      *)

(* A new listening socket replaces the old one, whose queue the kernel     *)
(* resets; then the epoll thread is launched.                              *)
Start ==
    /\ pc = "off" \/ Ended
    /\ ~runFlag
    /\ starts < MaxStarts
    /\ starts' = starts + 1
    /\ pc' = "init"
    /\ evcap' = ListenMax
    /\ listening' = TRUE
    /\ remote' = [c \in Conn |->
                     IF \E i \in DOMAIN backlog : backlog[i] = c
                     THEN "closed" ELSE remote[c]]
    /\ backlog' = <<>>
    /\ EpollDel(Listen)
    /\ UNCHANGED <<sent, rx, fresh, runFlag, batch, cur, mgr, fdOf, app, delVars>>

Stop ==
    /\ runFlag
    /\ runFlag' = FALSE
    /\ UNCHANGED <<kernelVars, starts, loopVars, mgr, fdOf, app, delVars>>

-----------------------------------------------------------------------------
(* The epoll thread.                                                       *)

(* A fresh epoll instance takes the place of the old one.  m_run_flag is a *)
(* plain bool: the first test of the loop reads it, or the build takes it  *)
(* for the value just stored, whatever stop() does in between.             *)
InitEpoll ==
    /\ pc = "init"
    /\ interest' = {Listen}
    /\ ready' = IF Readable(Listen) THEN {Listen} ELSE {}
    /\ runFlag' = TRUE
    /\ \E next \in {"check", "wait"} : Goto(next)
    /\ UNCHANGED <<netVars, fresh, starts, mgr, fdOf, app, delVars>>

InitEpollFails ==
    /\ pc = "init"
    /\ "epoll_ctl" \in Faults
    /\ interest' = {} /\ ready' = {}
    /\ Fail
    /\ UNCHANGED <<netVars, fresh, runFlag, starts, mgr, fdOf, app, delVars>>

CheckRunFlag ==
    /\ pc = "check"
    /\ runFlag
    /\ Goto("wait")
    /\ UNCHANGED <<kernelVars, runFlag, starts, mgr, fdOf, app, delVars>>

(* Faulty: the client map survives the end of the loop.                    *)
Shutdown_KeepsMap ==
    /\ pc = "check"
    /\ ~runFlag
    /\ Goto("done")
    /\ UNCHANGED <<kernelVars, runFlag, starts, mgr, fdOf, app, delVars>>

(* After the loop: every entry of the map goes, with no callback.          *)
Shutdown ==
    /\ pc = "check"
    /\ ~runFlag
    /\ mgr' = [f \in FD |-> None]
    /\ Goto("done")
    /\ UNCHANGED <<kernelVars, runFlag, starts, fdOf, app, delVars>>

(* Faulty: the loop over event_list starts one event late.                 *)
EpollWait_SkipsOne ==
    /\ pc = "wait"
    /\ Deliverable(OpenItems) # {}
    /\ EpollReport(OpenItems, Deliverable(OpenItems))
    /\ \E i \in Deliverable(OpenItems) :
          batch' = {EventOf(j) : j \in Deliverable(OpenItems) \ {i}}
    /\ pc' = "batch"
    /\ UNCHANGED <<netVars, fresh, runFlag, starts, evcap, cur, mgr, fdOf, app,
                   delVars>>

(* Faulty: a full list is replaced by a longer one instead of resized.     *)
EpollWait_Reassigns ==
    /\ pc = "wait"
    /\ \E E \in SUBSET Deliverable(OpenItems) :
          /\ E # {}
          /\ Cardinality(E) <= evcap
          /\ Cardinality(E) < evcap => E = Deliverable(OpenItems)
          /\ EpollReport(OpenItems, E)
          /\ batch' = IF Cardinality(E) = evcap THEN {} ELSE {EventOf(i) : i \in E}
          /\ evcap' = IF Cardinality(E) = evcap THEN 2 * evcap ELSE evcap
    /\ pc' = "batch"
    /\ UNCHANGED <<netVars, fresh, runFlag, starts, cur, mgr, fdOf, app, delVars>>

(* A full list is doubled for the next call.                               *)
EpollWait ==
    /\ pc = "wait"
    /\ \E E \in SUBSET Deliverable(OpenItems) :
          /\ E # {}
          /\ Cardinality(E) <= evcap
          /\ Cardinality(E) < evcap => E = Deliverable(OpenItems)
          /\ EpollReport(OpenItems, E)
          /\ batch' = {EventOf(i) : i \in E}
          /\ evcap' = IF Cardinality(E) = evcap THEN 2 * evcap ELSE evcap
    /\ pc' = "batch"
    /\ UNCHANGED <<netVars, fresh, runFlag, starts, cur, mgr, fdOf, app, delVars>>

(* Faulty: epoll_wait is called without a timeout.                         *)
EpollTimeout_Never == FALSE /\ UNCHANGED vars

EpollTimeout ==
    /\ pc = "wait"
    /\ Deliverable(OpenItems) = {}
    /\ EpollReport(OpenItems, {})
    /\ Goto("check")
    /\ UNCHANGED <<netVars, fresh, runFlag, starts, mgr, fdOf, app, delVars>>

EpollWaitFails ==
    /\ pc = "wait"
    /\ "epoll_wait" \in Faults
    /\ Fail
    /\ UNCHANGED <<kernelVars, runFlag, starts, mgr, fdOf, app, delVars>>

BatchDone ==
    /\ pc = "batch"
    /\ batch = {}
    /\ Goto("check")
    /\ UNCHANGED <<kernelVars, runFlag, starts, mgr, fdOf, app, delVars>>

-----------------------------------------------------------------------------
(* handleNewClientConnect.                                                 *)

(* Faulty: a new client ends the loop over event_list: break instead of    *)
(* continue.                                                               *)
ListenEvent_DropsRest(e) ==
    /\ pc = "batch"
    /\ e \in batch /\ e.fd = Listen
    /\ batch' = {}
    /\ pc' = "accept"
    /\ UNCHANGED <<kernelVars, runFlag, starts, evcap, cur, mgr, fdOf, app, delVars>>

ListenEvent(e) ==
    /\ pc = "batch"
    /\ e \in batch /\ e.fd = Listen
    /\ batch' = batch \ {e}
    /\ pc' = "accept"
    /\ UNCHANGED <<kernelVars, runFlag, starts, evcap, cur, mgr, fdOf, app, delVars>>

(* The listening socket is a blocking one: on an empty backlog accept      *)
(* does not return.                                                        *)
Accept(f) ==
    /\ pc = "accept"
    /\ backlog # <<>>
    /\ f \in FreeFDs
    /\ cur' = Head(backlog)
    /\ fdOf' = [fdOf EXCEPT ![Head(backlog)] = f]
    /\ backlog' = Tail(backlog)
    /\ pc' = "config"
    /\ UNCHANGED <<listening, remote, sent, rx, epollVars, fresh, runFlag, starts,
                   batch, evcap, mgr, app, delVars>>

AcceptFails ==
    /\ pc = "accept"
    /\ FreeFDs = {} \/ "accept" \in Faults
    /\ Fail
    /\ UNCHANGED <<kernelVars, runFlag, starts, mgr, fdOf, app, delVars>>

(* setFileDiscribeBlock(fd, false).  When F_GETFL fails the code goes on,  *)
(* with flags -1 as O_NONBLOCK leaves it, and F_SETFL refuses those.       *)
Config ==
    /\ pc = "config"
    /\ Goto("add")
    /\ UNCHANGED <<kernelVars, runFlag, starts, mgr, fdOf, app, delVars>>

ConfigFails ==
    /\ pc = "config"
    /\ Faults \cap {"getfl", "setfl"} # {}
    /\ Fail
    /\ UNCHANGED <<kernelVars, runFlag, starts, mgr, fdOf, app, delVars>>

AddToEpoll ==
    /\ pc = "add"
    /\ EpollAdd(cur)
    /\ Goto("insert")
    /\ UNCHANGED <<netVars, fresh, runFlag, starts, mgr, fdOf, app, delVars>>

AddFails ==
    /\ pc = "add"
    /\ "epoll_ctl" \in Faults
    /\ Fail
    /\ UNCHANGED <<kernelVars, runFlag, starts, mgr, fdOf, app, delVars>>

(* Then m_on_new_client_cb runs, with a shared_ptr to the peer.            *)
InsertClient ==
    /\ pc = "insert"
    /\ mgr' = [mgr EXCEPT ![fdOf[cur]] = cur]
    /\ Goto("newcb")
    /\ UNCHANGED <<kernelVars, runFlag, starts, fdOf, app, delVars>>

-----------------------------------------------------------------------------
(* handleClientMsg.                                                        *)

HandleClientMsg(e) ==
    /\ pc = "batch"
    /\ e \in batch /\ e.fd # Listen
    /\ mgr[e.fd] # None
    /\ cur' = mgr[e.fd]
    /\ batch' = batch \ {e}
    /\ pc' = "found"
    /\ UNCHANGED <<kernelVars, runFlag, starts, evcap, mgr, fdOf, app, delVars>>

(* Faulty: operator[] instead of at(), and no test for nullptr.            *)
UnknownClient_NoCheck(e) ==
    /\ pc = "batch"
    /\ e \in batch /\ e.fd # Listen
    /\ mgr[e.fd] = None
    /\ batch' = batch \ {e}
    /\ pc' = "found"
    /\ UNCHANGED <<kernelVars, runFlag, starts, evcap, cur, mgr, fdOf, app, delVars>>

(* m_client_mgr.at throws std::out_of_range.                               *)
UnknownClient(e) ==
    /\ pc = "batch"
    /\ e \in batch /\ e.fd # Listen
    /\ mgr[e.fd] = None
    /\ Fail
    /\ UNCHANGED <<kernelVars, runFlag, starts, mgr, fdOf, app, delVars>>

OnRecvData ==
    /\ pc = "found"
    /\ fresh' = fresh \ {cur}
    /\ Goto("recvcb")
    /\ UNCHANGED <<netVars, epollVars, runFlag, starts, mgr, fdOf, app, delVars>>

(* Faulty: accept is called again until it fails, still on a blocking      *)
(* socket.                                                                 *)
CallbackReturn_AcceptsAgain ==
    /\ InCallback
    /\ self[Loop] = None
    /\ cur' = None
    /\ pc' = IF pc = "newcb" THEN "accept" ELSE "batch"
    /\ UNCHANGED <<kernelVars, runFlag, starts, batch, evcap, mgr, fdOf, app, delVars>>

(* Once readData has failed, its client is registered no longer.           *)
CallbackReturn ==
    /\ InCallback
    /\ self[Loop] = None
    /\ Drains /\ pc = "recvcb" => cur \notin interest
    /\ cur' = None
    /\ pc' = "batch"
    /\ UNCHANGED <<kernelVars, runFlag, starts, batch, evcap, mgr, fdOf, app, delVars>>

(* An exception leaves the callback, or m_on_new_client_cb was never set.  *)
CallbackThrows ==
    /\ InCallback
    /\ self[Loop] = None
    /\ "callback" \in Faults
    /\ Fail
    /\ UNCHANGED <<kernelVars, runFlag, starts, mgr, fdOf, app, delVars>>

-----------------------------------------------------------------------------
(* The application: what its callbacks and its threads do with a peer.     *)

Keep ==
    /\ pc = "newcb"
    /\ app' = app \cup {cur}
    /\ UNCHANGED <<kernelVars, runFlag, starts, loopVars, mgr, fdOf, delVars>>

Release(c) ==
    /\ app' = app \ {c}
    /\ c \in app
    /\ UNCHANGED <<kernelVars, runFlag, starts, loopVars, mgr, fdOf, delVars>>

(* read(2) returns data.                                                   *)
ReadData(a, c, len) ==
    /\ CanRead(a, c)
    /\ rx[c] > 0 /\ len > 0
    /\ rx' = [rx EXCEPT ![c] = IF len < @ THEN @ - len ELSE 0]
    /\ UNCHANGED <<listening, remote, sent, backlog, epollVars, fresh, runFlag,
                   starts, loopVars, mgr, fdOf, app, delVars>>

(* Faulty: end of file is not taken for a disconnection.                   *)
ReadFails_IgnoresEOF(a, c, len) ==
    /\ CanRead(a, c)
    /\ rx[c] = 0 \/ len = 0
    /\ remote[c] # "closed"
    /\ self' = [self EXCEPT ![a] = c]
    /\ dpc' = [dpc EXCEPT ![a] = "ctl"]
    /\ UNCHANGED <<kernelVars, runFlag, starts, loopVars, mgr, fdOf, app,
                   victim, told>>

(* read(2) returns -1 (EAGAIN: the socket does not block and is empty) or  *)
(* 0 (end of file, or expect_len is 0): either way delClient is called.    *)
ReadFails(a, c, len) ==
    /\ CanRead(a, c)
    /\ rx[c] = 0 \/ len = 0
    /\ self' = [self EXCEPT ![a] = c]
    /\ dpc' = [dpc EXCEPT ![a] = "ctl"]
    /\ UNCHANGED <<kernelVars, runFlag, starts, loopVars, mgr, fdOf, app,
                   victim, told>>

(* Faulty: EPOLL_CTL_DEL is forgotten.                                     *)
DelFromEpoll_NoDel(a) ==
    /\ dpc[a] = "ctl"
    /\ AtFD(fdOf[self[a]]) \cap interest # {}
    /\ dpc' = [dpc EXCEPT ![a] = "erase"]
    /\ UNCHANGED <<kernelVars, runFlag, starts, loopVars, mgr, fdOf, app,
                   self, victim, told>>

(* delClient(fd), first step: a descriptor that is not registered ends it. *)
DelFromEpoll(a) ==
    /\ dpc[a] = "ctl"
    /\ \E c \in AtFD(fdOf[self[a]]) \cap interest : EpollDel(c)
    /\ dpc' = [dpc EXCEPT ![a] = "erase"]
    /\ UNCHANGED <<netVars, fresh, runFlag, starts, loopVars, mgr, fdOf, app,
                   self, victim, told>>

DelNotRegistered(a) ==
    /\ dpc[a] = "ctl"
    /\ AtFD(fdOf[self[a]]) \cap interest = {}
    /\ dpc' = [dpc EXCEPT ![a] = "idle"]
    /\ self' = [self EXCEPT ![a] = None]
    /\ UNCHANGED <<kernelVars, runFlag, starts, loopVars, mgr, fdOf, app,
                   victim, told>>

(* Faulty: m_client_mgr.erase is forgotten.                                *)
EraseClient_KeepsEntry(a) ==
    /\ dpc[a] = "erase"
    /\ victim' = [victim EXCEPT ![a] = mgr[fdOf[self[a]]]]
    /\ dpc' = [dpc EXCEPT ![a] = "notify"]
    /\ UNCHANGED <<kernelVars, runFlag, starts, loopVars, mgr, fdOf, app, self, told>>

(* Second step, under the mutex: find the entry by number and erase it.    *)
EraseClient(a) ==
    LET fd == fdOf[self[a]]
    IN  /\ dpc[a] = "erase"
        /\ victim' = [victim EXCEPT ![a] = mgr[fd]]
        /\ mgr' = [mgr EXCEPT ![fd] = None]
        /\ dpc' = [dpc EXCEPT ![a] = "notify"]
        /\ UNCHANGED <<kernelVars, runFlag, starts, loopVars, fdOf, app, self, told>>

(* Faulty: onDisconnect is forgotten.                                      *)
OnDisconnect_Forgotten(a) ==
    /\ dpc[a] = "notify"
    /\ victim' = [victim EXCEPT ![a] = None]
    /\ self' = [self EXCEPT ![a] = None]
    /\ dpc' = [dpc EXCEPT ![a] = "idle"]
    /\ UNCHANGED <<kernelVars, runFlag, starts, loopVars, mgr, fdOf, app, told>>

(* Third step: the callback of the entry found, if there was one.          *)
OnDisconnect(a) ==
    /\ dpc[a] = "notify"
    /\ told' = [c \in Conn |-> IF victim[a] = c THEN told[c] + 1 ELSE told[c]]
    /\ victim' = [victim EXCEPT ![a] = None]
    /\ self' = [self EXCEPT ![a] = None]
    /\ dpc' = [dpc EXCEPT ![a] = "idle"]
    /\ UNCHANGED <<kernelVars, runFlag, starts, loopVars, mgr, fdOf, app>>

-----------------------------------------------------------------------------
LoopStep ==
    \/ InitEpoll \/ InitEpollFails
    \/ CheckRunFlag \/ Shutdown
    \/ EpollWait \/ EpollTimeout \/ EpollWaitFails
    \/ BatchDone
    \/ \E e \in batch : ListenEvent(e) \/ HandleClientMsg(e) \/ UnknownClient(e)
    \/ \E f \in FD : Accept(f)
    \/ AcceptFails
    \/ Config \/ ConfigFails
    \/ AddToEpoll \/ AddFails
    \/ InsertClient
    \/ OnRecvData

(* Faulty: delClient calls back first and removes the client afterwards.   *)
DelStep_NotifyFirst(a) ==
    LET c == self[a]
    IN  /\ \/ /\ dpc[a] = "ctl"
              /\ dpc' = [dpc EXCEPT ![a] = "erase"]
              /\ told' = [told EXCEPT ![c] =
                             IF mgr[fdOf[c]] = c THEN @ + 1 ELSE @]
              /\ UNCHANGED <<epollVars, mgr, self>>
           \/ /\ dpc[a] = "erase"
              /\ EpollDel(c)
              /\ mgr' = [mgr EXCEPT ![fdOf[c]] = None]
              /\ dpc' = [dpc EXCEPT ![a] = "idle"]
              /\ self' = [self EXCEPT ![a] = None]
              /\ UNCHANGED told
        /\ UNCHANGED <<netVars, fresh, runFlag, starts, loopVars, fdOf, app, victim>>

(* Faulty: delClient only calls back: removal is left to the end of the    *)
(* loop.                                                                   *)
DelStep_Deferred(a) ==
    /\ dpc[a] = "ctl"
    /\ told' = [told EXCEPT ![self[a]] = @ + 1]
    /\ self' = [self EXCEPT ![a] = None]
    /\ dpc' = [dpc EXCEPT ![a] = "idle"]
    /\ UNCHANGED <<kernelVars, runFlag, starts, loopVars, mgr, fdOf, app, victim>>

DelStep(a) ==
    DelFromEpoll(a) \/ DelNotRegistered(a) \/ EraseClient(a) \/ OnDisconnect(a)

ReadStep(a) ==
    \E c \in Conn, len \in Lens : ReadData(a, c, len) \/ ReadFails(a, c, len)

(* A client whose descriptor the server has closed has nobody to talk to.  *)
ClientStep ==
    /\ \E c \in Conn : Connect(c) \/ (~Dead(c) /\ (Send(c) \/ Close(c)))
    /\ UNCHANGED <<runFlag, starts, loopVars, mgr, fdOf, app, delVars>>

Next ==
    \/ Start \/ Stop
    \/ LoopStep
    \/ CallbackReturn \/ CallbackThrows
    \/ Keep
    \/ \E c \in Conn : Release(c)
    \/ \E a \in Actor : ReadStep(a) \/ DelStep(a)
    \/ ClientStep

Spec == Init /\ [][Next]_vars

(* The epoll thread and delClient are straight-line code that is always    *)
(* scheduled again; epoll_wait returns within its timeout of one second.   *)
(* Callbacks are the application's: they are assumed to return, and to     *)
(* make the reads they have to make before that.                           *)
FairSpec ==
    /\ Spec
    /\ WF_vars(LoopStep)
    /\ \A a \in Actor : WF_vars(DelStep(a))
    /\ WF_vars(Drains /\ ReadStep(Loop))
    /\ SF_vars(CallbackReturn)

-----------------------------------------------------------------------------
(* Safety.                                                                 *)

Mapped(c) == \E f \in FD : mgr[f] = c
Running == pc \notin {"off", "init", "done", "failed"}

(* The epoll thread calls accept, on a blocking socket, only when a        *)
(* connection waits: an empty backlog would hang it, and stop() with it.   *)
AcceptNeverBlocks == pc = "accept" => backlog # <<>>

(* m_client_mgr files every peer under the number of its own descriptor,   *)
(* and handleNewClientConnect never overwrites another client's entry,     *)
(* although the kernel reuses numbers.                                     *)
RegistryConsistent ==
    /\ \A f \in FD : mgr[f] # None => fdOf[mgr[f]] = f
    /\ pc = "insert" => mgr[fdOf[cur]] = None

(* delClient looks its client up by number, in two steps that other        *)
(* threads interleave with; the client it finds is the one whose read      *)
(* failed, never one that got the number in the meantime.                  *)
DelClientHitsItself == \A a \in Actor : victim[a] \in {None, self[a]}

(* However many threads see readData fail for a peer, its disconnect       *)
(* callback runs once at most.                                             *)
DisconnectAtMostOnce == \A c \in Conn : told[c] <= 1

(* When delClient calls onDisconnect, the client is out of the map and out *)
(* of epoll: no event of the client can follow its last callback's cause.  *)
UnreachableWhenTold ==
    \A a \in Actor : dpc[a] = "notify" /\ victim[a] # None =>
        ~Mapped(victim[a]) /\ victim[a] \notin interest

(* After its disconnect callback, the descriptor of a peer the application *)
(* does not keep is closed as soon as no call on the peer is under way.    *)
DescriptorReclaimed ==
    \A c \in Conn :
        told[c] > 0 /\ c \notin app \cup {cur} /\ (\A a \in Actor : self[a] # c)
            => ~Alive(c)

(* Edge-triggered epoll reports an arrival once; no arrival is lost        *)
(* between the kernel's list, event_list and the receive callback.         *)
NoLostWakeup ==
    Running => \A c \in fresh :
        c \in interest /\ Mapped(c) /\ Readable(c) =>
            \/ c \in ready
            \/ \E e \in batch : e.src = c
            \/ pc = "found" /\ cur = c

(* Every client in the map is registered with the epoll instance the       *)
(* thread waits on, a restarted server's too, unless delClient is at work  *)
(* on it: a mapped client that is not registered is never served again.    *)
MappedIsServed ==
    Running => \A c \in Conn : Mapped(c) =>
        c \in interest \/ \E a \in Actor : dpc[a] = "erase" /\ self[a] = c

(* An event of event_list still designates, when its turn comes, the       *)
(* client it was reported for: handleClientMsg neither throws nor wakes    *)
(* a newcomer that was given the same number.                              *)
EventsAreCurrent ==
    \A e \in batch : e.fd # Listen => mgr[e.fd] = e.src

(* A peer's receive callback is not called after its disconnect callback.  *)
NoRecvAfterDisconnect ==
    [][pc = "found" /\ pc' = "recvcb" => told[cur] = 0]_vars

-----------------------------------------------------------------------------
(* Liveness.                                                               *)

(* A connection that heads the backlog while the listening socket is on    *)
(* epoll's ready list is handed to the new-client callback, unless the     *)
(* server is stopped.                                                      *)
HeadAnnounced ==
    \A c \in Conn :
        runFlag /\ Listen \in ready /\ backlog # <<>> /\ Head(backlog) = c
            ~> (pc = "newcb" /\ cur = c) \/ ~runFlag

(* What the ready list holds for a client reaches its receive callback,    *)
(* unless somebody else reads it, the client is deleted, or the server     *)
(* stops.                                                                  *)
WakeupDelivered ==
    \A c \in Conn :
        c \in ready /\ Readable(c)
            ~> \/ pc = "recvcb" /\ cur = c
               \/ ~Readable(c) \/ c \notin interest \/ ~Mapped(c) \/ ~runFlag

(* When receive callbacks drain their client, as the one of the unit test  *)
(* does, every close of a client in the map leads to its disconnect        *)
(* callback, unless the server stops.                                      *)
CloseNoticed ==
    \A c \in Conn :
        Drains /\ Mapped(c) /\ remote[c] = "closed" ~> told[c] = 1 \/ ~runFlag

(* Once stop() has cleared the run flag, the epoll thread returns.         *)
StopCompletes == Running /\ ~runFlag ~> Ended

-----------------------------------------------------------------------------
(* Statements of the documentation that the code does not keep.            *)

(* README: when a client connects, the callback is told.                   *)
EveryClientAnnounced ==
    \A c \in Conn :
        runFlag /\ (\E i \in DOMAIN backlog : backlog[i] = c)
            ~> (pc = "newcb" /\ cur = c) \/ ~runFlag

(* The example and the unit test print "client disconnect" when readData   *)
(* fails: the client has gone.                                             *)
DisconnectMeansClosed ==
    \A c \in Conn : told[c] > 0 => remote[c] = "closed"

(* README: the application is free to operate on its clients as it likes;  *)
(* whatever it does the epoll thread goes on serving.                      *)
LoopSurvives == pc # "failed"
=============================================================================

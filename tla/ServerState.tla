---------------------------- MODULE ServerState ----------------------------
(***************************************************************************)
(* The state of JTCP::Server::TCPServer and of the TCPPeerClient objects   *)
(* it hands out: the epoll thread of acceptThreadFunc, the client map      *)
(* m_client_mgr, and the calls of readData that are under way.             *)
(*                                                                         *)
(* A connection c stands for the three objects made for it: the accepted   *)
(* socket, its FileDescribe and its TCPPeerClient.  The destructor of      *)
(* FileDescribe closes the descriptor, so a descriptor is open exactly     *)
(* while some shared_ptr still reaches its peer (Alive below).             *)
(***************************************************************************)
EXTENDS Kernel, FiniteSets

CONSTANTS FD,         (* descriptor numbers the process may still open      *)
          Thread,     (* application threads                                *)
          Loop,       (* the epoll thread                                   *)
          None,       (* nullptr, or no descriptor                          *)
          Lens,       (* values of expect_len the application passes        *)
          Nosy,       (* do callbacks also read from other clients?         *)
          Drains,     (* do receive callbacks read until readData fails?    *)
          Faults,     (* what may fail in this environment                  *)
          MaxStarts   (* bound: how often start() is called                 *)

FaultKind ==
    {"epoll_wait", "accept", "getfl", "setfl", "epoll_ctl", "callback"}

ASSUME ServerAssumption ==
    /\ Loop \notin Thread
    /\ None \notin Conn \cup FD
    /\ Listen \notin FD
    /\ Lens \subseteq Nat
    /\ Nosy \in BOOLEAN
    /\ Drains \in BOOLEAN
    /\ Faults \subseteq FaultKind
    /\ MaxStarts \in Nat

Actor == Thread \cup {Loop}

VARIABLES runFlag,    (* m_run_flag                                         *)
          starts,     (* how often start() was called                       *)
          pc,         (* where the epoll thread is                          *)
          batch,      (* the events of event_list not handled yet           *)
          evcap,      (* event_list.size()                                  *)
          cur,        (* the epoll thread's local peer_client               *)
          mgr,        (* m_client_mgr                                       *)
          fdOf,       (* m_fd of each TCPPeerClient                         *)
          app,        (* peers the application keeps a shared_ptr to        *)
          self,       (* the peer an actor is in a failed readData of       *)
          dpc,        (* where that actor is in delClient                   *)
          victim,     (* delClient's local client                           *)
          told        (* history: calls of each peer's onDisconnect         *)

loopVars == <<pc, batch, evcap, cur>>
delVars  == <<self, dpc, victim, told>>
vars == <<kernelVars, runFlag, starts, loopVars, mgr, fdOf, app, delVars>>

LoopState == {"off", "init", "check", "wait", "batch", "accept", "config",
              "add", "insert", "newcb", "found", "recvcb", "done", "failed"}

(* The thread has returned, normally or not; its future is ready.          *)
Ended == pc \in {"done", "failed"}
HasClient == {"config", "add", "insert", "newcb", "found", "recvcb"}
InCallback == pc \in {"newcb", "recvcb"}

(* The events a call of epoll_wait can write: the number the code stored   *)
(* in data.fd, and the socket it was stored for.                           *)
Event == [fd : FD \cup {Listen}, src : Item]

(* Faulty: the map holds no reference.                                     *)
Alive_MapHoldsNone(c) ==
    cur = c \/ c \in app \/ \E a \in Actor : self[a] = c \/ victim[a] = c

(* Faulty: the application and its calls use bare pointers.                *)
Alive_CallsHoldNone(c) ==
    cur = c \/ \E f \in FD : mgr[f] = c

(* Some shared_ptr reaches c's peer, so its descriptor is open.            *)
Alive(c) ==
    \/ cur = c
    \/ c \in app
    \/ \E f \in FD : mgr[f] = c
    \/ \E a \in Actor : self[a] = c \/ victim[a] = c

OpenItems == {c \in Conn : Alive(c)} \cup {Listen}
FreeFDs == {f \in FD : \A c \in Conn : Alive(c) => fdOf[c] # f}

(* The descriptor was closed: c's peer existed and nothing reaches it.     *)
Dead(c) == fdOf[c] # None /\ ~Alive(c)

(* The connections behind descriptor number f (never more than one).       *)
AtFD(f) == {c \in Conn : Alive(c) /\ fdOf[c] = f}

(* Which peers an actor may call readData on.                              *)
CanRead(a, c) ==
    /\ self[a] = None
    /\ \/ a \in Thread /\ c \in app
       \/ a = Loop /\ InCallback /\ (c = cur \/ (Nosy /\ c \in app))

EventOf(i) == [fd |-> IF i = Listen THEN Listen ELSE fdOf[i], src |-> i]

TypeOK ==
    /\ KernelTypeOK
    /\ runFlag \in BOOLEAN
    /\ starts \in Nat
    /\ pc \in LoopState
    /\ batch \subseteq Event
    /\ evcap \in Nat
    /\ cur \in Conn \cup {None}
    /\ mgr \in [FD -> Conn \cup {None}]
    /\ fdOf \in [Conn -> FD \cup {None}]
    /\ app \subseteq Conn
    /\ self \in [Actor -> Conn \cup {None}]
    /\ dpc \in [Actor -> {"idle", "ctl", "erase", "notify"}]
    /\ victim \in [Actor -> Conn \cup {None}]
    /\ told \in [Conn -> Nat]
    /\ pc \in HasClient <=> cur # None
    /\ \A a \in Actor : dpc[a] = "idle" <=> self[a] = None

Init ==
    /\ KernelInit
    /\ runFlag = FALSE
    /\ starts = 0
    /\ pc = "off"
    /\ batch = {}
    /\ evcap = ListenMax
    /\ cur = None
    /\ mgr = [f \in FD |-> None]
    /\ fdOf = [c \in Conn |-> None]
    /\ app = {}
    /\ self = [a \in Actor |-> None]
    /\ dpc = [a \in Actor |-> "idle"]
    /\ victim = [a \in Actor |-> None]
    /\ told = [c \in Conn |-> 0]

-----------------------------------------------------------------------------
(* The epoll thread returns a failure or lets an exception escape: its     *)
(* locals are destroyed, m_run_flag and m_client_mgr stay as they are.     *)
Fail ==
    /\ pc' = "failed"
    /\ batch' = {}
    /\ cur' = None
    /\ UNCHANGED evcap

Goto(next) ==
    /\ pc' = next
    /\ UNCHANGED <<batch, evcap, cur>>

=============================================================================

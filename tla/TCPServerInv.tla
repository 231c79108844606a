---------------------------- MODULE TCPServerInv ----------------------------
(***************************************************************************)
(* The inductive invariant of TCPServer's safety properties, as a          *)
(* conjunction of named parts.                                             *)
(***************************************************************************)
EXTENDS TCPServer

(* A live peer has a descriptor, and no two live peers have the same one.  *)
AliveHasFD == \A c \in Conn : Alive(c) => fdOf[c] \in FD
DistinctFDs ==
    \A c, d \in Conn : Alive(c) /\ Alive(d) /\ fdOf[c] = fdOf[d] => c = d

MapKeys == \A f \in FD : mgr[f] # None => fdOf[mgr[f]] = f

(* A connection is in the backlog once, and before it has a descriptor.    *)
PendingIsNew ==
    /\ \A i \in DOMAIN backlog :
          fdOf[backlog[i]] = None /\ remote[backlog[i]] # "new"
    /\ \A i, j \in DOMAIN backlog : backlog[i] = backlog[j] => i = j
    /\ \A c \in Conn : remote[c] = "new" => fdOf[c] = None

(* Nobody but the epoll thread knows a peer that is not in the map yet.    *)
NotShared(c) ==
    /\ c \notin app
    /\ \A a \in Actor : self[a] # c /\ victim[a] # c
    /\ \A f \in FD : mgr[f] # c
    /\ told[c] = 0
CurIsPrivate == pc \in {"config", "add", "insert"} => NotShared(cur)

(* The calls of delClient that are under way.                              *)
DelClientInv ==
    \A a \in Actor :
        /\ victim[a] \in {None, self[a]}
        /\ victim[a] # None => dpc[a] = "notify"
        /\ dpc[a] \in {"erase", "notify"} => self[a] \notin interest

(* The disconnect callback of a peer is ahead of it, in progress, or done. *)
ToldInv ==
    /\ \A c \in Conn : told[c] \in {0, 1}
    /\ \A c \in Conn : fdOf[c] = None => told[c] = 0
    /\ \A f \in FD : mgr[f] # None => told[mgr[f]] = 0
    /\ \A a \in Actor : victim[a] # None => told[victim[a]] = 0
    /\ \A a \in Actor, f \in FD : victim[a] # None => mgr[f] # victim[a]
    /\ \A a, b \in Actor : victim[a] # None /\ victim[a] = victim[b] => a = b

(* The listening socket is in event_list once at most, and then a          *)
(* connection waits for it.                                                *)
BatchInv ==
    /\ \A e \in batch : e.fd = Listen => e.src = Listen /\ backlog # <<>>
    /\ pc = "accept" => backlog # <<>> /\ \A e \in batch : e.fd # Listen
    /\ pc \in {"off", "init", "check", "wait", "done", "failed"} => batch = {}

IInv ==
    /\ TypeOK
    /\ AliveHasFD /\ DistinctFDs /\ MapKeys
    /\ PendingIsNew
    /\ CurIsPrivate
    /\ DelClientInv
    /\ ToldInv
    /\ BatchInv
=============================================================================

------------------------------- MODULE Kernel -------------------------------
(***************************************************************************)
(* What JTCP's server relies on from the operating system: one listening   *)
(* socket with its queue of completed connections, one connected socket    *)
(* per remote client, and one epoll instance used in edge-triggered mode.  *)
(* None of it is under src/; it is modelled from the calls that            *)
(* src/src/server/server.cpp makes.                                        *)
(*                                                                         *)
(* A message is counted, not spelt out: rx[c] says how many units sent by  *)
(* client c the server has not read yet.                                   *)
(***************************************************************************)
EXTENDS Naturals, Sequences

CONSTANTS Conn,       (* the connections remote clients may open            *)
          Listen,     (* the listening socket, as an epoll item             *)
          MaxMsgs,    (* bound: how many units one client sends             *)
          ListenMax   (* listen_max_num: backlog length, first list size    *)

ASSUME KernelAssumption ==
    /\ Listen \notin Conn
    /\ MaxMsgs \in Nat
    /\ ListenMax \in Nat \ {0}

VARIABLES listening,  (* the listening socket exists and listens            *)
          remote,     (* the client's end: "new", "open" or "closed"        *)
          sent,       (* units each client has sent                         *)
          rx,         (* units received and not yet read by the server      *)
          backlog,    (* completed connections that wait for accept         *)
          interest,   (* items registered with the epoll instance           *)
          ready,      (* items on the epoll instance's ready list           *)
          fresh       (* history: clients with an arrival that no call of   *)
                      (* their receive callback has followed yet            *)

netVars   == <<listening, remote, sent, rx, backlog>>
epollVars == <<interest, ready>>
kernelVars == <<netVars, epollVars, fresh>>

Item == Conn \cup {Listen}

KernelTypeOK ==
    /\ listening \in BOOLEAN
    /\ remote \in [Conn -> {"new", "open", "closed"}]
    /\ sent \in [Conn -> Nat]
    /\ rx \in [Conn -> Nat]
    /\ backlog \in Seq(Conn)
    /\ interest \subseteq Item
    /\ ready \subseteq Item
    /\ fresh \subseteq Conn

KernelInit ==
    /\ listening = FALSE
    /\ remote = [c \in Conn |-> "new"]
    /\ sent = [c \in Conn |-> 0]
    /\ rx = [c \in Conn |-> 0]
    /\ backlog = <<>>
    /\ interest = {}
    /\ ready = {}
    /\ fresh = {}

(* EPOLLIN holds of an item: a connection to accept, data, or end of file. *)
Readable(i) ==
    \/ i = Listen /\ backlog # <<>>
    \/ i \in Conn /\ (rx[i] > 0 \/ remote[i] = "closed")

(* An arrival puts a registered item on the ready list: the "edge".        *)
Edge(i) ==
    /\ ready' = IF i \in interest THEN ready \cup {i} ELSE ready
    /\ UNCHANGED interest

(* EPOLL_CTL_ADD looks at the item at once, so what arrived before counts. *)
EpollAdd(i) ==
    /\ interest' = interest \cup {i}
    /\ ready' = IF Readable(i) THEN ready \cup {i} ELSE ready

EpollDel(i) ==
    /\ interest' = interest \ {i}
    /\ ready' = ready \ {i}

(* epoll_wait reports the items E, a subset of what is still readable      *)
(* among the open ones, and takes them off the ready list; it drops what   *)
(* is no longer readable.                                                  *)
Deliverable(open) == {i \in ready \cap open : Readable(i)}

EpollReport(open, E) ==
    /\ ready' = Deliverable(open) \ E
    /\ UNCHANGED interest

-----------------------------------------------------------------------------
(* The remote clients.                                                     *)

Connect(c) ==
    /\ listening
    /\ remote[c] = "new"
    /\ Len(backlog) <= ListenMax
    /\ remote' = [remote EXCEPT ![c] = "open"]
    /\ backlog' = Append(backlog, c)
    /\ Edge(Listen)
    /\ UNCHANGED <<listening, sent, rx, fresh>>

Send(c) ==
    /\ remote[c] = "open"
    /\ sent[c] < MaxMsgs
    /\ sent' = [sent EXCEPT ![c] = @ + 1]
    /\ rx' = [rx EXCEPT ![c] = @ + 1]
    /\ fresh' = fresh \cup {c}
    /\ Edge(c)
    /\ UNCHANGED <<listening, remote, backlog>>

(* The client closes, or its connection breaks: the server reads what is   *)
(* left and then end of file.                                              *)
Close(c) ==
    /\ remote[c] = "open"
    /\ remote' = [remote EXCEPT ![c] = "closed"]
    /\ fresh' = fresh \cup {c}
    /\ Edge(c)
    /\ UNCHANGED <<listening, sent, rx, backlog>>
=============================================================================

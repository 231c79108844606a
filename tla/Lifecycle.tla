----------------------------- MODULE Lifecycle -----------------------------
(***************************************************************************)
(* TCPServer::start and TCPServer::stop statement by statement: the owner  *)
(* of the server, the epoll thread it launches with std::async, the future *)
(* that joins them and the plain bool m_run_flag they share.  What the     *)
(* epoll thread does for clients is left to TCPServer; here it only waits, *)
(* goes round its loop, fails or ends.                                     *)
(***************************************************************************)
EXTENDS Integers

CONSTANTS Num,           (* values of listen_max_num the owner passes       *)
          Faults,        (* the system calls that may fail                  *)
          ChecksResult,  (* does the owner look at what start() returns?    *)
          MaxStarts      (* bound: how often start() is called              *)

SystemCall == {"socket", "bind", "listen", "epoll_ctl", "epoll_wait"}

ASSUME LifecycleAssumption ==
    /\ Num \subseteq Int
    /\ Faults \subseteq SystemCall
    /\ ChecksResult \in BOOLEAN
    /\ MaxStarts \in Nat

VARIABLES owner,         (* where the owner is in start() or stop()         *)
          last,          (* history: the owner's last call and its result   *)
          starts,        (* how often start() was called                    *)
          num,           (* listen_max_num of the last start()              *)
          stale,         (* history: was m_run_flag set when the last       *)
                         (* start() was called, by a thread that has failed *)
          flag,          (* m_run_flag                                      *)
          future,        (* m_accept_thread.valid()                         *)
          loop,          (* where the epoll thread is                       *)
          outcome,       (* what the epoll thread returned or threw         *)
          served         (* history: the thread of the last start() has     *)
                         (* entered its loop                                *)

ownerVars == <<last, starts, num, stale>>
threadVars == <<loop, outcome, served>>
vars == <<owner, ownerVars, flag, future, threadVars>>

OwnerState == {"idle", "bind", "listen", "launch", "poll", "wait_for", "join",
               "threw", "destroyed"}
ThreadState == {"none", "init", "list", "check", "wait", "clear", "ended"}
Outcome == {"none", "success", "failure", "exception"}
Call == [op : {"none", "start", "stop"}, result : Outcome]

TypeOK ==
    /\ owner \in OwnerState
    /\ last \in Call
    /\ starts \in Nat
    /\ num \in Int
    /\ stale \in BOOLEAN
    /\ flag \in BOOLEAN
    /\ future \in BOOLEAN
    /\ loop \in ThreadState
    /\ outcome \in Outcome
    /\ served \in BOOLEAN
    /\ last.op = "none" <=> last.result = "none"
    /\ loop = "ended" <=> outcome # "none"

Init ==
    /\ owner = "idle"
    /\ last = [op |-> "none", result |-> "none"]
    /\ starts = 0
    /\ num = 0
    /\ stale = FALSE
    /\ flag = FALSE
    /\ future = FALSE
    /\ loop = "none"
    /\ outcome = "none"
    /\ served = FALSE

NoThread == loop \in {"none", "ended"}
Started == last.op = "start" /\ last.result = "success"

Return(op, result) ==
    /\ owner' = "idle"
    /\ last' = [op |-> op, result |-> result]

-----------------------------------------------------------------------------
(* The owner.  One that checks results stops a server that has started and *)
(* starts one that has not; one that does not, like the unit test, stops   *)
(* whatever it has started.                                                *)

MayStart == IF ChecksResult THEN ~Started ELSE last.op # "start"
MayStop == last.op = "start" /\ (ChecksResult => Started)

(* start() up to its first early return.                                   *)
StartCall(n) ==
    /\ owner = "idle" /\ MayStart
    /\ starts < MaxStarts
    /\ starts' = starts + 1
    /\ num' = n /\ stale' = flag
    /\ served' = FALSE
    /\ \/ owner' = "bind" /\ UNCHANGED last
       \/ "socket" \in Faults /\ Return("start", "failure")
    /\ UNCHANGED <<flag, future, loop, outcome>>

BindCall ==
    /\ owner = "bind"
    /\ \/ owner' = "listen" /\ UNCHANGED last
       \/ "bind" \in Faults /\ Return("start", "failure")
    /\ UNCHANGED <<starts, num, stale, flag, future, threadVars>>

ListenCall ==
    /\ owner = "listen"
    /\ \/ owner' = "launch" /\ UNCHANGED last
       \/ "listen" \in Faults /\ Return("start", "failure")
    /\ UNCHANGED <<starts, num, stale, flag, future, threadVars>>

Launch ==
    /\ owner = "launch"
    /\ owner' = "poll"
    /\ future' = TRUE
    /\ loop' = "init" /\ outcome' = "none"
    /\ UNCHANGED <<ownerVars, flag, served>>

(* while (m_run_flag == false)                                             *)
PollFlag ==
    /\ owner = "poll"
    /\ \/ flag /\ Return("start", "success")
       \/ ~flag /\ owner' = "wait_for" /\ UNCHANGED last
    /\ UNCHANGED <<starts, num, stale, flag, future, threadVars>>

(* Faulty: start() gives up at the first timeout.                          *)
WaitTimesOut_GivesUp ==
    /\ owner = "wait_for"
    /\ ~NoThread
    /\ Return("start", "failure")
    /\ UNCHANGED <<starts, num, stale, flag, future, threadVars>>

WaitTimesOut ==
    /\ owner = "wait_for"
    /\ ~NoThread
    /\ owner' = "poll"
    /\ UNCHANGED <<ownerVars, flag, future, threadVars>>

(* Faulty: the result of get() is not looked at.                           *)
ThreadEnded_IgnoresResult ==
    /\ owner = "wait_for"
    /\ NoThread
    /\ future' = FALSE
    /\ Return("start", "success")
    /\ UNCHANGED <<starts, num, stale, flag, threadVars>>

(* The future is ready: get() takes the result and invalidates it.         *)
ThreadEnded ==
    /\ owner = "wait_for"
    /\ NoThread
    /\ future' = FALSE
    /\ Return("start", outcome)
    /\ UNCHANGED <<starts, num, stale, flag, threadVars>>

(* Faulty: stop() does not clear the flag.                                 *)
StopCall_KeepsFlag ==
    /\ owner = "idle" /\ MayStop
    /\ owner' = IF future THEN "join" ELSE "threw"
    /\ UNCHANGED <<ownerVars, flag, future, threadVars>>

(* get() on an invalid future throws std::future_error.                    *)
StopCall ==
    /\ owner = "idle" /\ MayStop
    /\ flag' = FALSE
    /\ owner' = IF future THEN "join" ELSE "threw"
    /\ UNCHANGED <<ownerVars, future, threadVars>>

Join ==
    /\ owner = "join"
    /\ NoThread
    /\ future' = FALSE
    /\ Return("stop", outcome)
    /\ UNCHANGED <<starts, num, stale, flag, threadVars>>

(* The implicit destructor; an owner does not destroy a started server.    *)
Destroy ==
    /\ owner = "idle"
    /\ MayStart
    /\ owner' = "destroyed"
    /\ UNCHANGED <<ownerVars, flag, future, threadVars>>

-----------------------------------------------------------------------------
(* The epoll thread, acceptThreadFunc.                                     *)

End(result) == loop' = "ended" /\ outcome' = result

(* Faulty: the flag is set before initEpoll.                               *)
InitEpoll_FlagFirst ==
    /\ loop = "init"
    /\ flag' = TRUE
    /\ \/ loop' = "list" /\ UNCHANGED outcome
       \/ "epoll_ctl" \in Faults /\ End("failure")
    /\ UNCHANGED <<owner, ownerVars, future, served>>

InitEpoll ==
    /\ loop = "init"
    /\ \/ loop' = "list" /\ UNCHANGED outcome
       \/ "epoll_ctl" \in Faults /\ End("failure")
    /\ UNCHANGED <<owner, ownerVars, flag, future, served>>

(* event_list(listen_max_num): a negative number, as a size, is too long.  *)
(* Then the flag is set; whether the first test of the loop reads it again *)
(* is up to the build.                                                     *)
EnterLoop ==
    /\ loop = "list"
    /\ IF num < 0
       THEN End("exception") /\ UNCHANGED <<flag, served>>
       ELSE /\ flag' = TRUE /\ served' = TRUE
            /\ loop' \in {"check", "wait"} /\ UNCHANGED outcome
    /\ UNCHANGED <<owner, ownerVars, future>>

CheckRunFlag ==
    /\ loop = "check"
    /\ loop' = IF flag THEN "wait" ELSE "clear"
    /\ UNCHANGED <<owner, ownerVars, flag, future, outcome, served>>

(* Faulty: a timeout of epoll_wait leaves the loop.                        *)
EpollWait_BreaksOnTimeout ==
    /\ loop = "wait"
    /\ \/ num > 0 /\ loop' = "clear" /\ UNCHANGED outcome
       \/ (num = 0 \/ "epoll_wait" \in Faults) /\ End("failure")
    /\ UNCHANGED <<owner, ownerVars, flag, future, served>>

(* epoll_wait refuses a list of no events; EINTR is a failure too.  So is  *)
(* whatever fails in the handling of an event.                             *)
EpollWait ==
    /\ loop = "wait"
    /\ \/ num > 0 /\ loop' = "check" /\ UNCHANGED outcome
       \/ (num = 0 \/ "epoll_wait" \in Faults) /\ End("failure")
    /\ UNCHANGED <<owner, ownerVars, flag, future, served>>

(* Faulty: acceptThreadFunc ends without a return.                         *)
Clear_NoReturn ==
    /\ loop = "clear"
    /\ flag' = FALSE
    /\ End("none")
    /\ UNCHANGED <<owner, ownerVars, future, served>>

Clear ==
    /\ loop = "clear"
    /\ flag' = FALSE
    /\ End("success")
    /\ UNCHANGED <<owner, ownerVars, future, served>>

-----------------------------------------------------------------------------
OwnerStep ==
    \/ BindCall \/ ListenCall \/ Launch
    \/ PollFlag \/ WaitTimesOut \/ ThreadEnded
    \/ Join

ThreadStep == InitEpoll \/ EnterLoop \/ CheckRunFlag \/ EpollWait \/ Clear

Next ==
    \/ \E n \in Num : StartCall(n)
    \/ StopCall \/ Destroy
    \/ OwnerStep
    \/ ThreadStep

Spec == Init /\ [][Next]_vars

(* Both threads run straight-line code and every call they make returns:   *)
(* epoll_wait after a second, wait_for after 100 milliseconds.  Whether    *)
(* and when the owner calls start() or stop() is its own affair.           *)
FairSpec == Spec /\ WF_vars(OwnerStep) /\ WF_vars(ThreadStep)

-----------------------------------------------------------------------------
(* Safety.                                                                 *)

(* start() finds no epoll thread of an earlier start() at work, which it   *)
(* would share m_epollfd and the map with, and no thread outlives its      *)
(* server: a start() that reports failure has none left.                   *)
NoSecondThread == owner \in {"bind", "listen", "launch", "destroyed"} => NoThread

(* However the polling of m_run_flag and the epoll thread interleave: when *)
(* start() reports success the thread it launched has gone through         *)
(* initEpoll and into its loop, unless a failed thread had left the flag   *)
(* set; when it reports failure no thread is left at work.                 *)
StartTellsTruth ==
    owner = "idle" /\ last.op = "start" =>
        IF last.result = "success" THEN served \/ stale ELSE NoThread

(* When stop() has returned, its thread has ended and the server can be    *)
(* started anew: m_run_flag is clear, unless the start() was misled and    *)
(* the thread set the flag after stop() had cleared it, and failed.        *)
StopLeavesClean ==
    owner = "idle" /\ last.op = "stop" =>
        /\ NoThread /\ ~future
        /\ flag => stale /\ last.result # "success"

(* start() and stop() wait for a valid future only, and stop() always      *)
(* returns a result: it never throws std::future_error instead.            *)
FutureIsValid ==
    /\ owner # "threw"
    /\ owner \in {"wait_for", "join"} => future

-----------------------------------------------------------------------------
(* Liveness.                                                               *)

(* Every call of start() and stop() returns, whatever fails, but for a     *)
(* stop() after a start() that was misled by the flag of a failed thread.  *)
CallsReturn ==
    owner \notin {"idle", "destroyed"} /\ ~(owner = "join" /\ stale) ~> owner = "idle"

-----------------------------------------------------------------------------
(* Statements of the documentation that the code does not keep.            *)

(* server.h: stop() stops listening.  It must at least end the thread.     *)
StopStops == owner = "join" ~> NoThread
=============================================================================

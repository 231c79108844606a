-------------------------- MODULE LifecycleProofs --------------------------
(***************************************************************************)
(* Proofs about start() and stop() for every listen_max_num, every choice  *)
(* of failing system calls and every number of starts.                     *)
(***************************************************************************)
EXTENDS LifecycleContract, TLAPS

InStart == owner \in {"poll", "wait_for"}

(* m_accept_thread refers to the only thread there may be; an owner holds  *)
(* it between its start() and its stop().                                  *)
FutureInv ==
    /\ ~future => NoThread
    /\ future => loop # "none"
    /\ InStart \/ owner = "join" => future
    /\ owner \in {"bind", "listen", "launch", "threw", "destroyed"} => ~future
    /\ owner = "idle" => (future <=> Started)

(* While start() waits nobody clears the flag, so the thread cannot end    *)
(* with success.                                                           *)
WaitingInv ==
    InStart => /\ loop \in {"check", "wait"} => flag
               /\ loop # "clear"
               /\ outcome # "success"

IInv == TypeOK /\ FutureInv /\ WaitingInv

(* While start() runs, the flag is its own thread's or was set before.     *)
FlagInv ==
    owner \in {"bind", "listen", "launch"} \/ InStart => (flag => served \/ stale)

FullInv == IInv /\ FlagInv /\ StartTellsTruth

-----------------------------------------------------------------------------
(* What start() or stop() returns is a call with its result.               *)
LEMMA ReturnIsCall ==
    ASSUME NEW op \in {"start", "stop"}, NEW result \in Outcome \ {"none"},
           Return(op, result)
    PROVE  /\ last' \in Call
           /\ last'.op = op /\ last'.result = result
           /\ owner' = "idle"
  BY DEF Return, Call

(* A step of start() up to std::async, or the destructor: no thread.       *)
LEMMA BeforeLaunch ==
    ASSUME IInv, (\E n \in Num : StartCall(n)) \/ BindCall \/ ListenCall \/ Destroy
    PROVE  IInv'
<1> USE DEF IInv, TypeOK
<1>1. \/ owner' \in {"bind", "listen", "launch", "destroyed"} /\ UNCHANGED last
      \/ Return("start", "failure")
  BY DEF StartCall, BindCall, ListenCall, Destroy, ownerVars
<1>2. UNCHANGED <<flag, future, loop, outcome>> /\ ~future
  BY DEF StartCall, BindCall, ListenCall, Destroy, MayStart, threadVars,
     FutureInv, Started
<1>3. served' \in BOOLEAN /\ stale' \in BOOLEAN /\ starts' \in Nat /\ num' \in Int
  <2>1. CASE \E n \in Num : StartCall(n)
    <3>1. PICK n \in Num : StartCall(n)
      BY <2>1
    <3>2. n \in Int
      BY LifecycleAssumption
    <3>3. starts' = starts + 1 /\ num' = n /\ served' = FALSE /\ stale' = flag
      BY <3>1 DEF StartCall
    <3>4. served' \in BOOLEAN /\ stale' \in BOOLEAN
      BY <3>3
    <3>5. starts' \in Nat /\ num' \in Int
      BY <3>2, <3>3
    <3> QED
      BY <3>4, <3>5
  <2>2. CASE BindCall \/ ListenCall \/ Destroy
    BY <2>2 DEF BindCall, ListenCall, Destroy, ownerVars, threadVars
  <2> QED
    BY <2>1, <2>2
<1>4. CASE owner' \in {"bind", "listen", "launch", "destroyed"} /\ UNCHANGED last
  BY <1>2, <1>3, <1>4 DEF OwnerState, FutureInv, WaitingInv, InStart, NoThread
<1>5. CASE Return("start", "failure")
  <2>1. last' \in Call /\ last'.op = "start" /\ last'.result = "failure" /\ owner' = "idle"
    BY <1>5, ReturnIsCall DEF Outcome
  <2> QED
    BY <2>1, <1>2, <1>3 DEF OwnerState, FutureInv, WaitingInv, InStart, NoThread,
       Started
<1> QED
  BY <1>1, <1>4, <1>5

(* std::async.                                                             *)
LEMMA LaunchPreserves ==
    ASSUME IInv, Launch
    PROVE  IInv'
  BY DEF IInv, TypeOK, Launch, OwnerState, ThreadState, Outcome, FutureInv,
     WaitingInv, InStart, NoThread, ownerVars

(* start() polls, and may return success with the future it holds.         *)
LEMMA PollPreserves ==
    ASSUME IInv, PollFlag \/ WaitTimesOut
    PROVE  IInv'
<1> USE DEF IInv, TypeOK
<1>1. UNCHANGED <<starts, num, stale, flag, future, loop, outcome, served>>
      /\ InStart /\ future
  BY DEF PollFlag, WaitTimesOut, threadVars, ownerVars, InStart, FutureInv
<1>2. \/ owner' \in {"poll", "wait_for"} /\ UNCHANGED last
      \/ Return("start", "success")
  BY DEF PollFlag, WaitTimesOut, ownerVars
<1>3. CASE owner' \in {"poll", "wait_for"} /\ UNCHANGED last
  BY <1>1, <1>3 DEF OwnerState, FutureInv, WaitingInv, InStart, NoThread
<1>4. CASE Return("start", "success")
  <2>1. last' \in Call /\ last'.op = "start" /\ last'.result = "success" /\ owner' = "idle"
    BY <1>4, ReturnIsCall DEF Outcome
  <2> QED
    BY <2>1, <1>1 DEF OwnerState, FutureInv, WaitingInv, InStart, NoThread, Started
<1> QED
  BY <1>2, <1>3, <1>4

(* get() takes the result of a thread that has ended, in start() never a   *)
(* success.                                                                *)
LEMMA GetPreserves ==
    ASSUME IInv, ThreadEnded \/ Join
    PROVE  IInv'
<1> USE DEF IInv, TypeOK
<1>1. UNCHANGED <<starts, num, stale, flag, loop, outcome, served>> /\ ~future' /\ NoThread
  BY DEF ThreadEnded, Join, threadVars
<1>2. PICK op \in {"start", "stop"} :
         Return(op, outcome) /\ (op = "start" => owner = "wait_for")
  BY DEF ThreadEnded, Join
<1>3. outcome \in Outcome \ {"none"}
  BY DEF ThreadEnded, Join, NoThread, FutureInv, InStart
<1>4. op = "start" => outcome # "success"
  BY <1>2 DEF WaitingInv, InStart
<1>5. last' \in Call /\ last'.op = op /\ last'.result = outcome /\ owner' = "idle"
  BY <1>2, <1>3, ReturnIsCall
<1>6. ~Started'
  BY <1>4, <1>5 DEF Started
<1>7. TypeOK'
  <2>1. owner' \in OwnerState
    BY <1>5 DEF OwnerState
  <2>2. future' \in BOOLEAN
    BY DEF ThreadEnded, Join
  <2>3. last'.op = "none" <=> last'.result = "none"
    BY <1>3, <1>5
  <2> QED
    BY <1>1, <1>5, <2>1, <2>2, <2>3
<1>8. FutureInv' /\ WaitingInv'
  BY <1>1, <1>5, <1>6 DEF FutureInv, WaitingInv, InStart, NoThread
<1> QED
  BY <1>7, <1>8

(* stop() waits for the future, if it is valid.                            *)
LEMMA StopPreserves ==
    ASSUME IInv, StopCall
    PROVE  IInv'
  BY DEF IInv, TypeOK, StopCall, OwnerState, FutureInv, WaitingInv, InStart,
     NoThread, ownerVars, threadVars

(* The epoll thread moves; the owner waits or holds the future.            *)
LEMMA ThreadPreserves ==
    ASSUME IInv, ThreadStep
    PROVE  IInv'
<1> USE DEF IInv, TypeOK
<1>1. UNCHANGED <<owner, last, starts, num, stale, future>> /\ future /\ loop' # "none"
  BY DEF ThreadStep, InitEpoll, EnterLoop, CheckRunFlag, EpollWait, Clear, End,
     ownerVars, FutureInv, NoThread
<1>2. /\ loop' \in ThreadState /\ outcome' \in Outcome
      /\ flag' \in BOOLEAN /\ served' \in BOOLEAN
      /\ loop' = "ended" <=> outcome' # "none"
  BY DEF ThreadStep, InitEpoll, EnterLoop, CheckRunFlag, EpollWait, Clear, End,
     ThreadState, Outcome
<1>3. WaitingInv'
  BY <1>1 DEF ThreadStep, InitEpoll, EnterLoop, CheckRunFlag, EpollWait, Clear,
     End, WaitingInv, InStart
<1> QED
  BY <1>1, <1>2, <1>3 DEF FutureInv, NoThread, InStart, Started

(* The future, the flag and the two threads' positions agree at all times. *)
THEOREM LifecycleInvariance == Spec => []IInv
<1>1. Init => IInv
  <2> SUFFICES ASSUME Init PROVE IInv
    OBVIOUS
  <2>1. last \in Call /\ last.op = "none" /\ last.result = "none"
    BY DEF Init, Call, Outcome
  <2>2. TypeOK
    <3>1. flag \in BOOLEAN /\ future \in BOOLEAN /\ served \in BOOLEAN /\ stale \in BOOLEAN
      BY DEF Init
    <3>2. starts \in Nat /\ num \in Int
      BY DEF Init
    <3>3. owner \in OwnerState /\ loop \in ThreadState /\ outcome \in Outcome
      BY DEF Init, OwnerState, ThreadState, Outcome
    <3>4. loop = "ended" <=> outcome # "none"
      BY DEF Init
    <3> QED
      BY <2>1, <3>1, <3>2, <3>3, <3>4 DEF TypeOK
  <2>3. ~Started
    BY <2>1 DEF Started
  <2>4. FutureInv /\ WaitingInv
    BY <2>3 DEF Init, FutureInv, WaitingInv, InStart, NoThread
  <2> QED
    BY <2>2, <2>4 DEF IInv
<1>2. IInv /\ [Next]_vars => IInv'
  <2>1. ASSUME IInv, UNCHANGED vars PROVE IInv'
    BY <2>1 DEF vars, ownerVars, threadVars, IInv, TypeOK, FutureInv, WaitingInv,
       InStart, NoThread, Started
  <2> QED
    BY <2>1, BeforeLaunch, LaunchPreserves, PollPreserves, GetPreserves,
       StopPreserves, ThreadPreserves DEF Next, OwnerStep
<1> QED
  BY <1>1, <1>2, PTL DEF Spec

(* The variables of the two threads are of their types, whatever fails.    *)
THEOREM LifecycleTypes == Spec => []TypeOK
<1>1. IInv => TypeOK
  BY DEF IInv
<1> QED
  BY <1>1, LifecycleInvariance, PTL

(* No start() finds an earlier epoll thread at work, and none outlives its *)
(* server, whatever fails and whether or not the owner looks at results.   *)
THEOREM OneThread == Spec => []NoSecondThread
<1>1. IInv => NoSecondThread
  BY DEF IInv, FutureInv, NoSecondThread
<1> QED
  BY <1>1, LifecycleInvariance, PTL

(* An owner that stops only what has started never meets std::future_error. *)
THEOREM GetReturns == ASSUME ChecksResult PROVE Spec => []FutureIsValid
<1> DEFINE NoThrow == owner # "threw"
<1>1. Init => NoThrow
  BY DEF Init
<1>2. IInv /\ NoThrow /\ [Next]_vars => NoThrow'
  BY DEF IInv, FutureInv, Started, Next, vars, ownerVars, threadVars, StartCall,
     StopCall, Destroy, OwnerStep, ThreadStep, MayStop, BindCall, ListenCall,
     Launch, PollFlag, WaitTimesOut, ThreadEnded, Join, Return, InitEpoll,
     EnterLoop, CheckRunFlag, EpollWait, Clear
<1>3. IInv /\ NoThrow => FutureIsValid
  BY DEF IInv, FutureInv, InStart, FutureIsValid
<1> HIDE DEF NoThrow
<1> QED
  BY <1>1, <1>2, <1>3, LifecycleInvariance, PTL DEF Spec

LEMMA FullInvariance == Spec => []FullInv
<1>1. Init => FlagInv /\ StartTellsTruth
  BY DEF Init, FlagInv, StartTellsTruth, InStart
<1>2. FullInv /\ [Next]_vars => FlagInv' /\ StartTellsTruth'
  <2> SUFFICES ASSUME FullInv, [Next]_vars
               PROVE  FlagInv' /\ StartTellsTruth'
    OBVIOUS
  <2> USE DEF FullInv, FlagInv, StartTellsTruth, InStart, NoThread, Started, IInv, TypeOK, FutureInv, WaitingInv, vars,
                   ownerVars, threadVars
  <2>1. CASE \E n \in Num : StartCall(n)
    BY <2>1 DEF StartCall, Return, MayStart
  <2>2. CASE StopCall \/ Destroy
    BY <2>2 DEF StopCall, Destroy, MayStart, MayStop
  <2>3. CASE BindCall \/ ListenCall \/ Launch
    BY <2>3 DEF BindCall, ListenCall, Launch, Return
  <2>4. CASE PollFlag \/ WaitTimesOut
    BY <2>4 DEF PollFlag, WaitTimesOut, Return
  <2>5. CASE ThreadEnded \/ Join
    BY <2>5 DEF ThreadEnded, Join, Return
  <2>6. CASE InitEpoll \/ EnterLoop
    BY <2>6 DEF InitEpoll, EnterLoop, End
  <2>7. CASE CheckRunFlag \/ EpollWait \/ Clear
    BY <2>7 DEF CheckRunFlag, EpollWait, Clear, End
  <2>8. CASE UNCHANGED vars
    BY <2>8
  <2> QED
    BY <2>1, <2>2, <2>3, <2>4, <2>5, <2>6, <2>7, <2>8
    DEF Next, OwnerStep, ThreadStep
<1> QED
  BY <1>1, <1>2, LifecycleInvariance, PTL DEF Spec, FullInv

(* A start() that reports success has a thread in its loop, but for a flag *)
(* left set before; one that reports failure leaves no thread at work.     *)
THEOREM StartIsTruthful == Spec => []StartTellsTruth
<1>1. FullInv => StartTellsTruth
  BY DEF FullInv
<1> QED
  BY <1>1, FullInvariance, PTL

-----------------------------------------------------------------------------
(* What stop() leaves behind.                                              *)

(* A thread that has served sets the flag no more, so a stop() that has    *)
(* cleared it for that thread finds it clear at the end.                   *)
CleanInv ==
    /\ owner \in {"bind", "listen", "launch"} => ~served
    /\ served => loop \notin {"init", "list"}
    /\ loop = "clear" \/ outcome = "success" => ~flag
    /\ owner = "join" /\ ~stale => ~flag /\ served

EndInv == FullInv /\ CleanInv /\ StopLeavesClean

LEMMA OwnerKeepsClean ==
    ASSUME EndInv, (\E n \in Num : StartCall(n)) \/ StopCall \/ Destroy \/ OwnerStep
    PROVE  CleanInv' /\ StopLeavesClean'
<1> USE DEF EndInv, FullInv, CleanInv, StopLeavesClean, InStart, NoThread, Started,
            IInv, TypeOK, FutureInv, WaitingInv, FlagInv, StartTellsTruth,
            ownerVars, threadVars
<1>1. CASE \E n \in Num : StartCall(n)
  BY <1>1 DEF StartCall, Return
<1>2. CASE StopCall
  BY <1>2 DEF StopCall, MayStop
<1>3. CASE Destroy
  BY <1>3 DEF Destroy
<1>4. CASE BindCall \/ ListenCall \/ Launch
  BY <1>4 DEF BindCall, ListenCall, Launch, Return
<1>5. CASE PollFlag \/ WaitTimesOut
  BY <1>5 DEF PollFlag, WaitTimesOut, Return
<1>6. CASE ThreadEnded \/ Join
  BY <1>6 DEF ThreadEnded, Join, Return
<1> QED
  BY <1>1, <1>2, <1>3, <1>4, <1>5, <1>6 DEF OwnerStep

LEMMA ThreadKeepsClean ==
    ASSUME EndInv, ThreadStep
    PROVE  CleanInv' /\ StopLeavesClean'
<1> USE DEF EndInv, FullInv, CleanInv, StopLeavesClean, InStart, NoThread,
            IInv, TypeOK, FutureInv, WaitingInv, ownerVars
<1>1. CASE InitEpoll \/ EnterLoop
  BY <1>1 DEF InitEpoll, EnterLoop, End
<1>2. CASE CheckRunFlag \/ EpollWait \/ Clear
  BY <1>2 DEF CheckRunFlag, EpollWait, Clear, End
<1> QED
  BY <1>1, <1>2 DEF ThreadStep

LEMMA EndInvariance == Spec => []EndInv
<1>1. Init => CleanInv /\ StopLeavesClean
  BY DEF Init, CleanInv, StopLeavesClean
<1>2. EndInv /\ [Next]_vars => CleanInv' /\ StopLeavesClean'
  <2>1. ASSUME EndInv, UNCHANGED vars PROVE CleanInv' /\ StopLeavesClean'
    BY <2>1 DEF vars, ownerVars, threadVars, EndInv, CleanInv, StopLeavesClean, NoThread
  <2> QED
    BY <2>1, OwnerKeepsClean, ThreadKeepsClean DEF Next
<1> QED
  BY <1>1, <1>2, FullInvariance, PTL DEF Spec, EndInv

(* After stop() has returned no thread is left, and the next start() finds *)
(* the flag clear, but for a start() that had been misled by an old flag.  *)
THEOREM StopIsClean == Spec => []StopLeavesClean
<1>1. EndInv => StopLeavesClean
  BY DEF EndInv
<1> QED
  BY <1>1, EndInvariance, PTL

-----------------------------------------------------------------------------
(* ThreadContract.                                                         *)

(* Where the thread is decides what the owner may know of it.              *)
LEMMA LifeMoves ==
    ASSUME UNCHANGED <<loop, outcome>>
    PROVE  Life' = Life
  BY DEF Life

LEMMA OwnerKeepsContract ==
    ASSUME IInv, (\E n \in Num : StartCall(n)) \/ StopCall \/ Destroy \/ OwnerStep
    PROVE  [Contract!Next]_Contract!vars
<1>1. CASE Launch
  <2>1. loop \in {"none", "ended"}
    BY <1>1 DEF Launch, IInv, FutureInv, NoThread
  <2>2. Life \in {"none", "stopped", "failed"}
    BY <2>1 DEF Life
  <2>3. Life' = "starting" /\ UNCHANGED flag
    BY <1>1 DEF Launch, Life
  <2> QED
    BY <2>2, <2>3 DEF Contract!Next, Contract!Launch
<1>2. CASE StopCall
  <2>1. flag' = FALSE /\ Life' = Life
    BY <1>2, LifeMoves DEF StopCall, threadVars
  <2> QED
    BY <2>1 DEF Contract!Next, Contract!Stop
<1>3. CASE ~Launch /\ ~StopCall
  <2>1. UNCHANGED <<loop, outcome, flag>>
    BY <1>3 DEF OwnerStep, StartCall, Destroy, BindCall, ListenCall, PollFlag,
       WaitTimesOut, ThreadEnded, Join, threadVars
  <2> QED
    BY <2>1, LifeMoves DEF Contract!vars
<1> QED
  BY <1>1, <1>2, <1>3

LEMMA ThreadKeepsContract ==
    ASSUME TypeOK, CleanInv, ThreadStep
    PROVE  [Contract!Next]_Contract!vars
<1>1. CASE InitEpoll
  <2>1. Life = "starting" /\ UNCHANGED flag /\ Life' \in {"starting", "failed"}
    BY <1>1 DEF InitEpoll, End, Life
  <2> QED
    BY <2>1 DEF Contract!Next, Contract!Fail, Contract!vars
<1>2. CASE EnterLoop
  <2>1. Life = "starting"
    BY <1>2 DEF EnterLoop, Life
  <2>2. \/ Life' = "failed" /\ UNCHANGED flag
        \/ Life' = "serving" /\ flag' = TRUE
    BY <1>2 DEF EnterLoop, End, Life
  <2> QED
    BY <2>1, <2>2 DEF Contract!Next, Contract!Serve, Contract!Fail
<1>3. CASE CheckRunFlag \/ EpollWait
  <2>1. Life = "serving" /\ UNCHANGED flag /\ Life' \in {"serving", "failed"}
    BY <1>3 DEF CheckRunFlag, EpollWait, End, Life
  <2> QED
    BY <2>1 DEF Contract!Next, Contract!Fail, Contract!vars
<1>4. CASE Clear
  <2>1. Life = "serving" /\ Life' = "stopped"
    BY <1>4 DEF Clear, End, Life
  <2>2. flag = FALSE /\ flag' = FALSE
    BY <1>4 DEF Clear, CleanInv, TypeOK
  <2> QED
    BY <2>1, <2>2 DEF Contract!Next, Contract!Finish
<1> QED
  BY <1>1, <1>2, <1>3, <1>4 DEF ThreadStep

(* start(), stop() and acceptThreadFunc together implement ThreadContract. *)
THEOREM LifecycleKeepsContract == Spec => KeepsThreadContract
<1>1. Init => Contract!Init
  BY DEF Init, Contract!Init, Life
<1>2. EndInv /\ [Next]_vars => [Contract!Next]_Contract!vars
  <2> SUFFICES ASSUME EndInv, [Next]_vars PROVE [Contract!Next]_Contract!vars
    OBVIOUS
  <2>1. CASE UNCHANGED vars
    BY <2>1, LifeMoves DEF vars, threadVars, Contract!vars
  <2>2. IInv /\ TypeOK /\ CleanInv
    BY DEF EndInv, FullInv, IInv
  <2> QED
    BY <2>1, <2>2, OwnerKeepsContract, ThreadKeepsContract DEF Next
<1> QED
  BY <1>1, <1>2, EndInvariance, PTL DEF Spec, Contract!Spec, KeepsThreadContract
=============================================================================

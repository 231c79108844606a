--------------------------- MODULE SurvivalProofs ---------------------------
(***************************************************************************)
(* What keeps the epoll thread alive, for every set of connections and     *)
(* descriptors.                                                            *)
(***************************************************************************)
EXTENDS WakeupProofs, FiniteSetTheorems

-----------------------------------------------------------------------------
(* While a connection waits to be accepted the live peers are others, so   *)
(* that as many numbers as there are connections are enough.               *)
LEMMA NumbersSuffice ==
    ASSUME IInv, backlog # <<>>,
           IsFiniteSet(Conn), IsFiniteSet(FD), Cardinality(Conn) <= Cardinality(FD)
    PROVE  FreeFDs # {}
<1> SUFFICES ASSUME FreeFDs = {} PROVE FALSE
  OBVIOUS
<1> DEFINE first == Head(backlog)
           others == Conn \ {first}
           owner(f) == CHOOSE c \in others : fdOf[c] = f
           owners == [f \in FD |-> owner(f)]
<1>1. first \in Conn /\ fdOf[first] = None
  BY DEF IInv, TypeOK, KernelTypeOK, PendingIsNew
<1>2. ASSUME NEW f \in FD
      PROVE  owner(f) \in others /\ fdOf[owner(f)] = f
  <2>1. PICK c \in Conn : fdOf[c] = f
    BY <1>2 DEF FreeFDs
  <2>2. c \in others
    BY <1>1, <2>1, ServerAssumption
  <2> QED
    BY <2>1, <2>2
<1>3. owners \in Injection(FD, others)
  <2>1. owners \in [FD -> others]
    BY <1>2
  <2>2. \A f, g \in FD : owners[f] = owners[g] => f = g
    <3> HIDE DEF owner, others
    <3> QED
      BY <1>2
  <2> HIDE DEF owners
  <2> QED
    BY <2>1, <2>2 DEF Injection, IsInjective
<1> HIDE DEF owners, owner, others
<1>4. IsFiniteSet(others) /\ Cardinality(others) = Cardinality(Conn) - 1
  BY <1>1, FS_RemoveElement DEF others
<1>5. Cardinality(FD) <= Cardinality(others)
  BY <1>3, <1>4, FS_Injection
<1>6. Cardinality(FD) \in Nat /\ Cardinality(Conn) \in Nat
  BY FS_CardinalityType
<1> QED
  BY <1>4, <1>5, <1>6

(* An event that is current names a client of the map.                     *)
LEMMA LookupSucceeds ==
    ASSUME Sources, EventsAreCurrent, NEW e \in batch
    PROVE  ~UnknownClient(e)
<1> SUFFICES ASSUME UnknownClient(e) PROVE FALSE
  OBVIOUS
<1>1. e.fd # Listen /\ mgr[e.fd] = None
  BY DEF UnknownClient
<1>2. mgr[e.fd] = e.src /\ e.src \in Conn
  BY <1>1 DEF Sources, EventsAreCurrent
<1> QED
  BY <1>1, <1>2, ServerAssumption

(* The README's promise, with what it needs: when no system call and no    *)
(* callback fails, numbers do not run out, no other thread reads and a     *)
(* callback reads from its own client only, the epoll thread never fails.  *)
THEOREM ThreadSurvives ==
    ASSUME Thread = {}, ~Nosy, Faults = {},
           IsFiniteSet(Conn), IsFiniteSet(FD), Cardinality(Conn) <= Cardinality(FD)
    PROVE  Spec => []LoopSurvives
<1>1. Init => LoopSurvives
  BY DEF Init, LoopSurvives
<1>2. CInv /\ Sources /\ Current /\ LoopSurvives /\ [Next]_vars => LoopSurvives'
  <2> SUFFICES ASSUME CInv, Sources, Current, LoopSurvives, [Next]_vars
               PROVE  pc' # "failed"
    BY DEF LoopSurvives
  <2>1. ~AcceptFails
    <3>1. pc = "accept" => backlog # <<>>
      BY DEF CInv, IInv, BatchInv
    <3>2. pc = "accept" => FreeFDs # {}
      BY <3>1, NumbersSuffice DEF CInv
    <3> QED
      BY <3>2 DEF AcceptFails
  <2>2. \A e \in batch : ~UnknownClient(e)
    BY LookupSucceeds DEF Current
  <2>3. ~(InitEpollFails \/ EpollWaitFails \/ ConfigFails \/ AddFails \/ CallbackThrows)
    BY DEF InitEpollFails, EpollWaitFails, ConfigFails, AddFails, CallbackThrows
  <2>4. CASE LoopStep
    BY <2>1, <2>2, <2>3, <2>4
    DEF LoopStep, InitEpoll, CheckRunFlag, Shutdown, EpollWait, EpollTimeout,
        BatchDone, ListenEvent, HandleClientMsg, Accept, Config, AddToEpoll,
        InsertClient, OnRecvData, Goto
  <2>5. CASE ~LoopStep
    BY <2>3, <2>5
    DEF LoopSurvives, Next, vars, loopVars, Start, Stop, CallbackReturn, Keep,
        Release, ReadStep, ReadData, ReadFails, DelStep, DelFromEpoll,
        DelNotRegistered, EraseClient, OnDisconnect, ClientStep
  <2> QED
    BY <2>4, <2>5
<1> QED
  BY <1>1, <1>2, CallbackInvariance, CurrentInvariance, PTL DEF Spec

(* Under the same conditions every client of the map is registered with    *)
(* the epoll instance in use, through all stops and restarts.              *)
COROLLARY SurvivorServes ==
    ASSUME Thread = {}, ~Nosy, Faults = {},
           IsFiniteSet(Conn), IsFiniteSet(FD), Cardinality(Conn) <= Cardinality(FD)
    PROVE  Spec => []MappedIsServed
  BY ThreadSurvives, ClientsAreServed, PTL
=============================================================================

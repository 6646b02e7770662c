------------------------ MODULE CompanionShutdownProofs ------------------------
(***************************************************************************)
(* Proofs about CompanionShutdown, for any number of clients and any       *)
(* number of accept failures before the loop gives up.                     *)
(***************************************************************************)
EXTENDS CompanionShutdown, TLAPS

\* Every step keeps the variables within their types; that the accept loop does not
\* count past the number of failures it gives up at takes StagesAgree.
LEMMA TypeStep == TypeOK /\ StagesAgree /\ [Next]_vars => TypeOK'
<1> SUFFICES ASSUME TypeOK, StagesAgree, [Next]_vars PROVE TypeOK'
  OBVIOUS
<1> USE MaxFailuresAssumption
    DEF TypeOK, MainStates, Ended, acceptVars, taskVars, outside
<1>1. CASE UNCHANGED vars
  BY <1>1 DEF vars
<1>2. CASE MainStep
  <2>1. CASE WriteLock
    BY <2>1 DEF WriteLock
  <2>2. CASE SpawnTasks
    BY <2>2 DEF SpawnTasks
  <2>3. CASE InstallHandler
    BY <2>3 DEF InstallHandler
  <2>4. CASE ReadParent
    BY <2>4 DEF ReadParent
  <2>5. CASE SeeLspEnd
    BY <2>5 DEF SeeLspEnd
  <2>6. CASE SeeOrphaned
    BY <2>6 DEF SeeOrphaned
  <2>7. CASE SeeSignal
    BY <2>7 DEF SeeSignal
  <2>8. CASE SeeCancelled
    BY <2>8 DEF SeeCancelled
  <2>9. CASE DropLock
    BY <2>9 DEF DropLock
  <2>10. CASE CancelTasks
    BY <2>10 DEF CancelTasks
  <2>11. CASE TasksJoined
    BY <2>11 DEF TasksJoined
  <2>12. CASE GraceOver
    BY <2>12 DEF GraceOver
  <2>13. CASE Teardown
    BY <2>13 DEF Teardown
  <2> QED
    BY <1>2, <2>1, <2>2, <2>3, <2>4, <2>5, <2>6, <2>7, <2>8,
       <2>9, <2>10, <2>11, <2>12, <2>13 DEF MainStep
<1>3. CASE AcceptStep
  <2>1. CASE AcceptFails
    <3>1. failures < MaxFailures
      BY <2>1 DEF AcceptFails, Running, StagesAgree
    <3>2. failures' \in 0..MaxFailures
      BY <2>1, <3>1 DEF AcceptFails
    <3> QED
      BY <2>1, <3>2 DEF AcceptFails
  <2>2. CASE BackoffOver
    BY <2>2 DEF BackoffOver, Running
  <2>3. CASE AcceptBreaks
    BY <2>3 DEF AcceptBreaks, Running
  <2>4. CASE AcceptSeesCancel
    BY <2>4 DEF AcceptSeesCancel, Running
  <2> QED
    BY <1>3, <2>1, <2>2, <2>3, <2>4 DEF AcceptStep
<1>4. CASE TrackerEnds
  BY <1>4 DEF TrackerEnds
<1>5. CASE LspEnds
  BY <1>5 DEF LspEnds
<1>6. CASE Signal
  <2>1. CASE handler
    BY <1>6, <2>1 DEF Signal
  <2>2. CASE ~handler
    <3>1. conn' = [c \in Clients |-> IF conn[c] \in {"handshake", "serving"}
                                    THEN "dropped" ELSE conn[c]]
      BY <1>6, <2>2 DEF Signal
    <3>2. conn' \in [Clients -> {"away", "handshake", "serving", "left", "farewell", "dropped"}]
      BY <3>1
    <3> QED
      BY <1>6, <2>2, <3>2 DEF Signal
  <2> QED
    BY <2>1, <2>2
<1>7. CASE ParentDies
  BY <1>7 DEF ParentDies
<1>8. ASSUME NEW c \in Clients,
             AcceptClient(c) \/ Authorize(c) \/ Refuse(c) \/ Leave(c) \/ GoAway(c)
      PROVE  TypeOK'
  <2>1. CASE AcceptClient(c)
    BY <2>1 DEF AcceptClient, Running
  <2>2. CASE Authorize(c)
    BY <2>2 DEF Authorize, MoveConn
  <2>3. CASE Refuse(c)
    BY <2>3 DEF Refuse, MoveConn
  <2>4. CASE Leave(c)
    BY <2>4 DEF Leave, MoveConn
  <2>5. CASE GoAway(c)
    BY <2>5 DEF GoAway, MoveConn
  <2> QED
    BY <1>8, <2>1, <2>2, <2>3, <2>4, <2>5
<1> QED
  BY <1>1, <1>2, <1>3, <1>4, <1>5, <1>6, <1>7, <1>8 DEF Next

\* Every step keeps StagesAgree.
LEMMA StageStep == TypeOK /\ StagesAgree /\ [Next]_vars => StagesAgree'
<1> SUFFICES ASSUME TypeOK, StagesAgree, [Next]_vars PROVE StagesAgree'
  OBVIOUS
<1> USE MaxFailuresAssumption
    DEF TypeOK, StagesAgree, MainStates, Ended, acceptVars, taskVars, outside
<1>1. CASE UNCHANGED vars
  BY <1>1 DEF vars
<1>2. CASE MainStep
  <2>1. CASE WriteLock
    BY <2>1 DEF WriteLock
  <2>2. CASE SpawnTasks
    BY <2>2 DEF SpawnTasks
  <2>3. CASE InstallHandler
    BY <2>3 DEF InstallHandler
  <2>4. CASE ReadParent
    BY <2>4 DEF ReadParent
  <2>5. CASE SeeLspEnd
    BY <2>5 DEF SeeLspEnd
  <2>6. CASE SeeOrphaned
    BY <2>6 DEF SeeOrphaned
  <2>7. CASE SeeSignal
    BY <2>7 DEF SeeSignal
  <2>8. CASE SeeCancelled
    BY <2>8 DEF SeeCancelled
  <2>9. CASE DropLock
    BY <2>9 DEF DropLock
  <2>10. CASE CancelTasks
    BY <2>10 DEF CancelTasks
  <2>11. CASE TasksJoined
    BY <2>11 DEF TasksJoined
  <2>12. CASE GraceOver
    BY <2>12 DEF GraceOver
  <2>13. CASE Teardown
    BY <2>13 DEF Teardown
  <2> QED
    BY <1>2, <2>1, <2>2, <2>3, <2>4, <2>5, <2>6, <2>7, <2>8,
       <2>9, <2>10, <2>11, <2>12, <2>13 DEF MainStep
<1>3. CASE AcceptStep
  <2>1. CASE AcceptFails
    BY <2>1 DEF AcceptFails, Running
  <2>2. CASE BackoffOver
    BY <2>2 DEF BackoffOver, Running
  <2>3. CASE AcceptBreaks
    BY <2>3 DEF AcceptBreaks, Running
  <2>4. CASE AcceptSeesCancel
    BY <2>4 DEF AcceptSeesCancel, Running
  <2> QED
    BY <1>3, <2>1, <2>2, <2>3, <2>4 DEF AcceptStep
<1>4. CASE TrackerEnds
  BY <1>4 DEF TrackerEnds
<1>5. CASE LspEnds
  BY <1>5 DEF LspEnds
<1>6. CASE Signal
  BY <1>6 DEF Signal
<1>7. CASE ParentDies
  BY <1>7 DEF ParentDies
<1>8. ASSUME NEW c \in Clients,
             AcceptClient(c) \/ Authorize(c) \/ Refuse(c) \/ Leave(c) \/ GoAway(c)
      PROVE  StagesAgree'
  <2>1. CASE AcceptClient(c)
    BY <2>1 DEF AcceptClient, Running
  <2>2. CASE Authorize(c)
    BY <2>2 DEF Authorize, MoveConn
  <2>3. CASE Refuse(c)
    BY <2>3 DEF Refuse, MoveConn
  <2>4. CASE Leave(c)
    BY <2>4 DEF Leave, MoveConn
  <2>5. CASE GoAway(c)
    BY <2>5 DEF GoAway, MoveConn
  <2> QED
    BY <1>8, <2>1, <2>2, <2>3, <2>4, <2>5
<1> QED
  BY <1>1, <1>2, <1>3, <1>4, <1>5, <1>6, <1>7, <1>8 DEF Next

\* The two hold together: the types need the stages, and the stages the types.
LEMMA BothCorrect == Spec => [](TypeOK /\ StagesAgree)
<1>1. Init => TypeOK /\ StagesAgree
  <2> SUFFICES ASSUME Init PROVE TypeOK /\ StagesAgree
    OBVIOUS
  <2>1. failures \in 0..MaxFailures /\ failures < MaxFailures
    BY MaxFailuresAssumption DEF Init
  <2>2. conn \in [Clients -> {"away", "handshake", "serving", "left", "farewell", "dropped"}]
    BY DEF Init
  <2>3. TypeOK
    BY <2>1, <2>2 DEF Init, TypeOK, MainStates
  <2>4. StagesAgree
    BY <2>1 DEF Init, StagesAgree
  <2> QED
    BY <2>3, <2>4
<1> QED
  BY <1>1, TypeStep, StageStep, PTL DEF Spec

\* The process, its tasks and its clients stay within their types: the accept loop
\* gives up at MaxFailures and never counts past it.
THEOREM TypeCorrect == Spec => []TypeOK
  BY BothCorrect, PTL

\* At each stage of the main task the tasks, the token and the lock fit together.
THEOREM StagesCorrect == Spec => []StageInv
  BY BothCorrect, PTL DEF StageInv

\* As long as nobody has cancelled the token, a lock leads to a port that is served.
THEOREM LockServed == Spec => []LockMeansServing
<1>1. StageInv => LockMeansServing
  BY DEF StageInv, StagesAgree, LockMeansServing
<1> QED
  BY <1>1, StagesCorrect, PTL

\* Whatever the reason to stop, main ends without its lock and with every task told.
THEOREM EndIsClean == Spec => []EndOfMainIsClean
<1>1. StageInv => EndOfMainIsClean
  BY DEF StageInv, StagesAgree, EndOfMainIsClean
<1> QED
  BY <1>1, StagesCorrect, PTL

\* A client is told to go away after the lock is gone, but for the two paths that
\* cancel first.
THEOREM FarewellIsLate == Spec => []FarewellAfterWithdrawal
<1>1. StageInv => FarewellAfterWithdrawal
  BY DEF StageInv, StagesAgree, FarewellAfterWithdrawal
<1> QED
  BY <1>1, StagesCorrect, PTL
-----------------------------------------------------------------------------
(* The life of the companion, as those who read its lock see it *)

\* Each step of the process is a step of the life or none.  Of the ways to stop, some
\* tell the tasks first and some remove the lock first, and both are allowed; what the
\* invariant is needed for is that the port is not lost in a step that tells nobody, and
\* that the end finds the lock gone and the tasks told.
LEMMA StepIsOfLife == StageInv /\ [Next]_vars => [Life!LNext]_(Life!lvars)
<1> SUFFICES ASSUME StageInv, [Next]_vars PROVE [Life!LNext]_(Life!lvars)
  OBVIOUS
<1> USE DEF StageInv, TypeOK, StagesAgree, MainStates, Ended, acceptVars, taskVars, outside,
            Life!lvars
<1>1. CASE UNCHANGED vars
  BY <1>1 DEF vars
<1>2. CASE MainStep
  <2>1. CASE WriteLock
    BY <2>1 DEF WriteLock, Life!LNext, Life!Offer
  <2>2. CASE SpawnTasks
    BY <2>2 DEF SpawnTasks
  <2>3. CASE InstallHandler \/ ReadParent
    BY <2>3 DEF InstallHandler, ReadParent
  <2>4. CASE SeeLspEnd
    BY <2>4 DEF SeeLspEnd, Life!LNext, Life!Tell
  <2>5. CASE SeeOrphaned \/ SeeSignal \/ SeeCancelled
    BY <2>5 DEF SeeOrphaned, SeeSignal, SeeCancelled
  <2>6. CASE DropLock
    BY <2>6 DEF DropLock, Life!LNext, Life!Withdraw
  <2>7. CASE CancelTasks
    BY <2>7 DEF CancelTasks, Life!LNext, Life!Tell
  <2>8. CASE TasksJoined \/ GraceOver
    BY <2>8 DEF TasksJoined, GraceOver
  <2>9. CASE Teardown
    BY <2>9 DEF Teardown, Life!LNext, Life!End
  <2> QED
    BY <1>2, <2>1, <2>2, <2>3, <2>4, <2>5, <2>6, <2>7, <2>8, <2>9 DEF MainStep
<1>3. CASE AcceptStep
  <2>1. CASE AcceptFails
    BY <2>1 DEF AcceptFails, Running, Life!LNext, Life!Tell
  <2>2. CASE BackoffOver
    BY <2>2 DEF BackoffOver
  <2>3. CASE AcceptBreaks
    BY <2>3 DEF AcceptBreaks, Running, Life!LNext, Life!Tell
  <2>4. CASE AcceptSeesCancel
    BY <2>4 DEF AcceptSeesCancel, Life!LNext, Life!Close
  <2> QED
    BY <1>3, <2>1, <2>2, <2>3, <2>4 DEF AcceptStep
<1>4. CASE TrackerEnds \/ LspEnds \/ ParentDies
  BY <1>4 DEF TrackerEnds, LspEnds, ParentDies
<1>5. CASE Signal
  BY <1>5 DEF Signal, Life!LNext, Life!Kill
<1>6. ASSUME NEW c \in Clients,
             AcceptClient(c) \/ Authorize(c) \/ Refuse(c) \/ Leave(c) \/ GoAway(c)
      PROVE  [Life!LNext]_(Life!lvars)
  BY <1>6 DEF AcceptClient, Running, Authorize, Refuse, Leave, GoAway, MoveConn
<1> QED
  BY <1>1, <1>2, <1>3, <1>4, <1>5, <1>6 DEF Next

\* The process lives the life its lock promises, whatever the reason it stops for.
THEOREM ShutdownImplementsLife == Spec => ImplementsLife
<1>1. Init => Life!LInit
  BY DEF Init, Ended, Life!LInit
<1> QED
  BY <1>1, StepIsOfLife, StagesCorrect, PTL DEF Spec, ImplementsLife, Life!LSpec
=============================================================================

-------------------------- MODULE LockDirectoryProofs --------------------------
(***************************************************************************)
(* Proofs about LockDirectory, for any number of companions and ports.     *)
(***************************************************************************)
EXTENDS LockDirectory, TLAPS

\* Every step keeps the variables within their types.
LEMMA TypeStep == TypeOK /\ [Next]_vars => TypeOK'
<1> SUFFICES ASSUME TypeOK, [Next]_vars PROVE TypeOK'
  OBVIOUS
<1> USE NoneIsNobody DEF Names, Starting, Stopping, Gone, Owners, Move, ReleasePorts, Ends,
                         dirVars, sweepVars, Alive
<1>1. CASE UNCHANGED vars
  BY <1>1 DEF vars, TypeOK
<1>2. ASSUME NEW c \in Companions, Step(c) PROVE TypeOK'
  <2>1. CASE Start(c)
    BY <2>1 DEF Start, TypeOK
  <2>2. ASSUME NEW n \in Names, SweepRead(c, n) PROVE TypeOK'
    BY <2>2 DEF SweepRead, TypeOK
  <2>3. CASE SweepRemove(c)
    BY <2>3 DEF SweepRemove, TypeOK
  <2>4. ASSUME NEW p \in Ports, Bind(c, p) \/ BindZero(c, p) PROVE TypeOK'
    BY <2>4 DEF Bind, BindZero, TypeOK
  <2>5. CASE BindFails(c)
    BY <2>5 DEF BindFails, TypeOK
  <2>6. CASE ClearTmp(c)
    BY <2>6 DEF ClearTmp, TypeOK
  <2>7. CASE WriteTmp(c)
    BY <2>7 DEF WriteTmp, TypeOK
  <2>8. CASE Publish(c)
    BY <2>8 DEF Publish, TypeOK
  <2>9. CASE WriteFails(c)
    BY <2>9 DEF WriteFails, TypeOK
  <2>10. CASE StopAsked(c) \/ LspEnds(c) \/ AcceptGivesUp(c) \/ SeeStopped(c)
    <3>1. CASE StopAsked(c)
      BY <3>1 DEF StopAsked, TypeOK
    <3>2. CASE LspEnds(c)
      BY <3>2 DEF LspEnds, TypeOK
    <3>3. CASE AcceptGivesUp(c)
      BY <3>3 DEF AcceptGivesUp, TypeOK
    <3>4. CASE SeeStopped(c)
      BY <3>4 DEF SeeStopped, TypeOK
    <3> QED
      BY <2>10, <3>1, <3>2, <3>3, <3>4
  <2>11. CASE DropLock(c)
    BY <2>11 DEF DropLock, TypeOK
  <2>12. CASE CancelTasks(c)
    BY <2>12 DEF CancelTasks, TypeOK
  <2>13. CASE CloseListener(c)
    BY <2>13 DEF CloseListener, TypeOK
  <2>14. CASE Exit(c) \/ Kill(c)
    <3>1. CASE Exit(c)
      BY <3>1 DEF Exit, TypeOK
    <3>2. CASE Kill(c)
      BY <3>2 DEF Kill, TypeOK
    <3> QED
      BY <2>14, <3>1, <3>2
  <2> QED
    BY <1>2, <2>1, <2>2, <2>3, <2>4, <2>5, <2>6, <2>7, <2>8, <2>9, <2>10, <2>11,
       <2>12, <2>13, <2>14 DEF Step
<1>3. ASSUME NEW p \in Ports, StrangerOpens(p) \/ StrangerLeaves(p) PROVE TypeOK'
  <2>1. CASE StrangerOpens(p)
    BY <2>1 DEF StrangerOpens, TypeOK
  <2>2. CASE StrangerLeaves(p)
    BY <2>2 DEF StrangerLeaves, TypeOK
  <2> QED
    BY <1>3, <2>1, <2>2
<1> QED
  BY <1>1, <1>2, <1>3 DEF Next

\* The lock directory and the companions stay within their types.
THEOREM TypeCorrect == Spec => []TypeOK
<1>1. Init => TypeOK
  BY DEF Init, TypeOK, Starting, Stopping, Gone
<1> QED
  BY <1>1, TypeStep, PTL DEF Spec
-----------------------------------------------------------------------------
(* The invariant *)

\* Every step keeps PortsAndLocksAgree.  What makes it go through: a port is released only with
\* the process, or once its token is cancelled, so up to there nobody else can bind
\* it and write over the lock; and a sweep visits what it listed before it binds.
LEMMA DirStep == TypeOK /\ PortsAndLocksAgree /\ [Next]_vars => PortsAndLocksAgree'
<1> SUFFICES ASSUME TypeOK, PortsAndLocksAgree, [Next]_vars PROVE PortsAndLocksAgree'
  OBVIOUS
<1> USE NoneIsNobody, StrangerIsOther, ZeroIsNoPort
    DEF TypeOK, PortsAndLocksAgree, HoldsPort, IsOnItsPort, Listens, HasOwnPort, WriterHasPort,
        HasWritten, OwnerIsPastStart, ListenerHasBound, TmpIsPrivate, DeadOnesAreSwept, Names,
        Starting, Stopping, Gone, Owners, Alive, DeadCompanion, Move, ReleasePorts, Ends, dirVars,
        sweepVars
<1>1. CASE UNCHANGED vars
  BY <1>1 DEF vars
<1>2. ASSUME NEW c \in Companions, Step(c) PROVE PortsAndLocksAgree'
  <2>1. CASE Start(c)
    BY <2>1 DEF Start
  <2>2. CASE SweepRemove(c)
    BY <2>2 DEF SweepRemove
  <2>3. CASE BindFails(c)
    BY <2>3 DEF BindFails, SweepDone
  <2>4. CASE ClearTmp(c)
    BY <2>4 DEF ClearTmp
  <2>5. CASE WriteTmp(c)
    BY <2>5 DEF WriteTmp
  <2>6. CASE Publish(c)
    BY <2>6 DEF Publish
  <2>7. CASE WriteFails(c)
    BY <2>7 DEF WriteFails
  <2>8. CASE StopAsked(c)
    BY <2>8 DEF StopAsked
  <2>9. CASE LspEnds(c)
    BY <2>9 DEF LspEnds
  <2>10. CASE AcceptGivesUp(c)
    BY <2>10 DEF AcceptGivesUp
  <2>11. CASE SeeStopped(c)
    BY <2>11 DEF SeeStopped
  <2>12. CASE DropLock(c)
    BY <2>12 DEF DropLock
  <2>13. CASE CancelTasks(c)
    BY <2>13 DEF CancelTasks
  <2>14. CASE CloseListener(c)
    BY <2>14 DEF CloseListener
  <2>15. CASE Exit(c)
    BY <2>15 DEF Exit
  <2>16. CASE Kill(c)
    BY <2>16 DEF Kill
  <2>17. ASSUME NEW n \in Names, SweepRead(c, n) PROVE PortsAndLocksAgree'
    BY <2>17 DEF SweepRead
  <2>18. ASSUME NEW p \in Ports, Bind(c, p) PROVE PortsAndLocksAgree'
    BY <2>18 DEF Bind, SweepDone
  <2>19. ASSUME NEW p \in Ports, BindZero(c, p) PROVE PortsAndLocksAgree'
    BY <2>19 DEF BindZero, SweepDone
  <2> QED
    BY <1>2, <2>1, <2>2, <2>3, <2>4, <2>5, <2>6, <2>7, <2>8, <2>9,
       <2>10, <2>11, <2>12, <2>13, <2>14, <2>15, <2>16, <2>17, <2>18, <2>19 DEF Step
<1>3. ASSUME NEW p \in Ports, StrangerOpens(p) PROVE PortsAndLocksAgree'
  BY <1>3 DEF StrangerOpens
<1>4. ASSUME NEW p \in Ports, StrangerLeaves(p) PROVE PortsAndLocksAgree'
  BY <1>4 DEF StrangerLeaves
<1> QED
  BY <1>1, <1>2, <1>3, <1>4 DEF Next

\* Ports, locks and the sweeps agree with each other in every reachable state.
THEOREM DirectoryCorrect == Spec => []DirInv
<1>1. Init => PortsAndLocksAgree
  BY NoneIsNobody DEF Init, PortsAndLocksAgree, HoldsPort, WriterHasPort, OwnerIsPastStart,
                      ListenerHasBound, TmpIsPrivate, DeadOnesAreSwept, Names, Starting
<1> QED
  BY <1>1, DirStep, TypeCorrect, PTL DEF Spec, DirInv

\* The lock of a serving companion leads to it: it names the port that companion
\* listens on.  The one exception is the lock of a companion that was asked for port 0.
THEOREM LockLeadsToOwner == Spec => []LockNamesItsListener
<1>1. DirInv => LockNamesItsListener
  BY DEF TypeOK, DirInv, PortsAndLocksAgree, HoldsPort, WriterHasPort, Serving,
         LockNamesItsListener
<1> QED
  BY <1>1, DirectoryCorrect, PTL

\* The port of a serving companion carries its own lock or none, if it is not 0.
THEOREM NoForeignLock == Spec => []NoForeignLockOnMyPort
<1>1. DirInv => NoForeignLockOnMyPort
  BY DEF DirInv, PortsAndLocksAgree, HoldsPort, Serving, NoForeignLockOnMyPort
<1> QED
  BY <1>1, DirectoryCorrect, PTL

\* The fixed name of the temporary file is safe: only the holder of the port uses it,
\* and port 0, which has no holder, is the exception.
THEOREM TmpNeverShared == Spec => []TmpIsPrivate
  BY DirectoryCorrect, PTL DEF DirInv, PortsAndLocksAgree

\* A companion that exits, or fails to start, leaves no lock behind, if it is not on
\* port 0, where another may have published it.
THEOREM ExitIsClean == Spec => []OwnExitLeavesNoLock
<1>1. DirInv => OwnExitLeavesNoLock
  BY DEF DirInv, PortsAndLocksAgree, WriterHasPort, HasOwnPort, Names, OwnerIsPastStart,
         OwnExitLeavesNoLock
<1> QED
  BY <1>1, DirectoryCorrect, PTL

\* A companion that has bound has removed every lock that was dead when it started,
\* however many companions sweep, start and die beside it.
THEOREM SweepLeavesNoDead == Spec => []SweepIsComplete
<1>1. DirInv => SweepIsComplete
  BY DEF DirInv, PortsAndLocksAgree, DeadOnesAreSwept, SweepIsComplete
<1> QED
  BY <1>1, DirectoryCorrect, PTL

\* Stopped by a signal or the watchdog, a companion removes its own lock only, if it is
\* not the one that all on port 0 share.
THEOREM AskedStopIsSafe == Spec => AskedStopRemovesOwnLock
<1>1. DirInv /\ [Next]_vars =>
        [\A c \in Companions : DropLock(c) /\ ~cancelled[c] /\ HasOwnPort(c)
            => file[port[c]] \in {c, None}]_vars
  BY DEF DirInv, PortsAndLocksAgree, HoldsPort, DropLock
<1> QED
  BY <1>1, DirectoryCorrect, PTL DEF Spec, AskedStopRemovesOwnLock
-----------------------------------------------------------------------------
(* Each companion's life *)

\* What a step leaves of the life of a companion that does not take it: everything
\* but, perhaps, its lock.
LeavesButLock(c) ==
    /\ phase'[c] = phase[c] /\ cancelled'[c] = cancelled[c]
    /\ Listens(c)' <=> Listens(c)
    /\ \A n \in Names : file'[n] = c => file[n] = c

\* Another companion can take a companion's lock away, by sweeping it, by removing it
\* as its own, or by renaming its own lock over it, and do nothing else to it.
LEMMA OthersLeave ==
    ASSUME DirInv, NEW c \in Companions, NEW d \in Companions, Step(d), d # c, HasOwnPort(c)
    PROVE  LeavesButLock(c)
<1> USE NoneIsNobody, StrangerIsOther
    DEF DirInv, TypeOK, LeavesButLock, Listens, Ends, Names, Starting, Stopping, Gone, Owners, Move, ReleasePorts,
        dirVars, sweepVars
<1>1. CASE Start(d) \/ SweepRemove(d) \/ BindFails(d) \/ ClearTmp(d) \/ WriteTmp(d)
  BY <1>1 DEF Start, SweepRemove, BindFails, SweepDone, ClearTmp, WriteTmp
<1>2. CASE Publish(d)
  BY <1>2 DEF Publish, PortsAndLocksAgree, TmpIsPrivate, WriterHasPort, HasOwnPort
<1>3. CASE WriteFails(d) \/ StopAsked(d) \/ LspEnds(d) \/ AcceptGivesUp(d) \/ SeeStopped(d)
  BY <1>3 DEF WriteFails, StopAsked, LspEnds, AcceptGivesUp, SeeStopped
<1>4. CASE DropLock(d) \/ CancelTasks(d) \/ CloseListener(d) \/ Exit(d) \/ Kill(d)
  BY <1>4 DEF DropLock, CancelTasks, CloseListener, Exit, Kill
<1>5. ASSUME NEW n \in Names, SweepRead(d, n) PROVE LeavesButLock(c)
  BY <1>5 DEF SweepRead
<1>6. ASSUME NEW p \in Ports, Bind(d, p) \/ BindZero(d, p) PROVE LeavesButLock(c)
  BY <1>6 DEF Bind, BindZero, SweepDone
<1> QED
  BY <1>1, <1>2, <1>3, <1>4, <1>5, <1>6 DEF Step

\* So can another editor.
LEMMA StrangersLeave ==
    ASSUME DirInv, NEW c \in Companions, NEW p \in Ports, StrangerOpens(p) \/ StrangerLeaves(p)
    PROVE  LeavesButLock(c)
  BY NoneIsNobody, StrangerIsOther
     DEF DirInv, TypeOK, LeavesButLock, Listens, Names, Owners, sweepVars, StrangerOpens,
         StrangerLeaves

\* And that is a step of the life of the companion it is done to.
LEMMA LeavingIsWithdrawal ==
    ASSUME NEW c \in Companions, LeavesButLock(c)
    PROVE  [Life(c)!LNext]_(Life(c)!lvars)
<1>1. CASE \E n \in Names : file'[n] = c
  BY <1>1 DEF LeavesButLock, Listens, Life!lvars
<1>2. CASE ~\E n \in Names : file'[n] = c
  BY <1>2 DEF LeavesButLock, Listens, Life!LNext, Life!Withdraw
<1> QED
  BY <1>1, <1>2

\* Each step of a companion is a step of its own life, or none: its lock names the port
\* it listens on until its tasks are told, and no other file, and it exits with its
\* tasks told and its lock gone.
LEMMA OwnStepIsOfLife ==
    ASSUME DirInv, NEW c \in Companions, Step(c), HasOwnPort(c)'
    PROVE  [Life(c)!LNext]_(Life(c)!lvars)
<1> USE NoneIsNobody, StrangerIsOther
    DEF DirInv, TypeOK, PortsAndLocksAgree, HoldsPort, IsOnItsPort, Listens, HasOwnPort,
        WriterHasPort, HasWritten, OwnerIsPastStart, ListenerHasBound, TmpIsPrivate, Names, Ends,
        Starting, Stopping, Gone, Owners, Alive, Move, ReleasePorts, dirVars,
        sweepVars, Life!lvars
<1>1. CASE Start(c) \/ ClearTmp(c) \/ WriteTmp(c) \/ StopAsked(c) \/ SeeStopped(c)
  BY <1>1 DEF Start, ClearTmp, WriteTmp, StopAsked, SeeStopped
<1>2. CASE SweepRemove(c)
  <2>1. ~\E n \in Names : file[n] = c
    BY <1>2 DEF SweepRemove
  <2> QED
    BY <1>2, <2>1 DEF SweepRemove
<1>3. CASE BindFails(c) \/ WriteFails(c)
  BY <1>3 DEF BindFails, WriteFails, SweepDone, Life!LNext, Life!End
<1>4. CASE Publish(c)
  <2>1. file'[port[c]] = c
    BY <1>4 DEF Publish
  <2>2. listening[port[c]] = c
    BY <1>4 DEF Publish
  <2> QED
    BY <1>4, <2>1, <2>2 DEF Publish, Life!LNext, Life!Offer
<1>5. CASE LspEnds(c) \/ CancelTasks(c)
  BY <1>5 DEF LspEnds, CancelTasks, Life!LNext, Life!Tell
<1>6. CASE AcceptGivesUp(c)
  <2>1. Listens(c)' = FALSE
    BY <1>6 DEF AcceptGivesUp
  <2>2. (\E n \in Names : file'[n] = c) = (\E n \in Names : file[n] = c)
    BY <1>6 DEF AcceptGivesUp
  <2>3. phase'[c] = "serving" /\ phase[c] = "serving" /\ cancelled'[c] = TRUE
    BY <1>6 DEF AcceptGivesUp
  <2>4. Life(c)!Tell
    BY <2>1, <2>2, <2>3 DEF Life!Tell
  <2> QED
    BY <2>4 DEF Life!LNext
<1>7. CASE DropLock(c)
  <2>1. ~\E n \in Names : file'[n] = c
    BY <1>7 DEF DropLock
  <2> QED
    BY <1>7, <2>1 DEF DropLock, Life!LNext, Life!Withdraw
<1>8. CASE CloseListener(c)
  BY <1>8 DEF CloseListener, Life!LNext, Life!Close
<1>9. CASE Exit(c)
  BY <1>9 DEF Exit, Life!LNext, Life!End
<1>10. CASE Kill(c)
  BY <1>10 DEF Kill, Life!LNext, Life!Kill
<1>11. ASSUME NEW n \in Names, SweepRead(c, n) PROVE [Life(c)!LNext]_(Life(c)!lvars)
  BY <1>11 DEF SweepRead
<1>12. ASSUME NEW p \in Ports, Bind(c, p) PROVE [Life(c)!LNext]_(Life(c)!lvars)
  BY <1>12 DEF Bind, SweepDone, Life!LNext, Life!Listen
<1>13. ASSUME NEW p \in Ports PROVE ~BindZero(c, p)
  BY DEF BindZero
<1> QED
  BY <1>1, <1>2, <1>3, <1>4, <1>5, <1>6, <1>7, <1>8, <1>9, <1>10, <1>11, <1>12, <1>13
  DEF Step

\* A number, once returned by find_available_port, is the companion's for life.
LEMMA NumberIsKept ==
    ASSUME DirInv, [Next]_vars, NEW c \in Companions, port[c] # None
    PROVE  port'[c] = port[c]
<1> USE DEF DirInv, TypeOK, PortsAndLocksAgree, HoldsPort, Ends, dirVars, sweepVars
<1>1. CASE UNCHANGED vars
  BY <1>1 DEF vars
<1>2. ASSUME NEW d \in Companions, Step(d) PROVE port'[c] = port[c]
  <2>1. CASE Start(d) \/ SweepRemove(d) \/ BindFails(d) \/ ClearTmp(d) \/ WriteTmp(d)
    BY <2>1 DEF Start, SweepRemove, BindFails, ClearTmp, WriteTmp
  <2>2. CASE Publish(d) \/ WriteFails(d) \/ StopAsked(d) \/ LspEnds(d) \/ AcceptGivesUp(d)
    BY <2>2 DEF Publish, WriteFails, StopAsked, LspEnds, AcceptGivesUp
  <2>3. CASE SeeStopped(d) \/ DropLock(d) \/ CancelTasks(d) \/ CloseListener(d)
             \/ Exit(d) \/ Kill(d)
    BY <2>3 DEF SeeStopped, DropLock, CancelTasks, CloseListener, Exit, Kill
  <2>4. ASSUME NEW n \in Names, SweepRead(d, n) PROVE port'[c] = port[c]
    BY <2>4 DEF SweepRead
  <2>5. ASSUME NEW p \in Ports, Bind(d, p) \/ BindZero(d, p) PROVE port'[c] = port[c]
    BY <2>5 DEF Bind, BindZero, SweepDone
  <2> QED
    BY <1>2, <2>1, <2>2, <2>3, <2>4, <2>5 DEF Step
<1>3. ASSUME NEW p \in Ports, StrangerOpens(p) \/ StrangerLeaves(p) PROVE port'[c] = port[c]
  BY <1>3 DEF StrangerOpens, StrangerLeaves
<1> QED
  BY <1>1, <1>2, <1>3 DEF Next

\* So who is not on port 0 after a step was not on it before.
LEMMA NeverOnZero ==
    ASSUME DirInv, [Next]_vars, NEW c \in Companions, HasOwnPort(c)'
    PROVE  HasOwnPort(c)
  BY NumberIsKept, NoneIsNobody DEF HasOwnPort, Names

\* A step of the directory is, for each companion with a port of its own, a step of its
\* life or none.
LEMMA StepIsOfEachLife ==
    ASSUME DirInv, [Next]_vars, NEW c \in Companions, HasOwnPort(c)'
    PROVE  [Life(c)!LNext]_(Life(c)!lvars)
<1>1. CASE UNCHANGED vars
  BY <1>1 DEF vars, Listens, Life!lvars
<1>2. ASSUME NEW d \in Companions, Step(d) PROVE [Life(c)!LNext]_(Life(c)!lvars)
  BY <1>2, NeverOnZero, OwnStepIsOfLife, OthersLeave, LeavingIsWithdrawal
<1>3. ASSUME NEW p \in Ports, StrangerOpens(p) \/ StrangerLeaves(p)
      PROVE  [Life(c)!LNext]_(Life(c)!lvars)
  BY <1>3, StrangersLeave, LeavingIsWithdrawal
<1> QED
  BY <1>1, <1>2, <1>3 DEF Next

LEMMA EachLifeBegins == ASSUME Init, NEW c \in Companions PROVE Life(c)!LInit
  BY NoneIsNobody DEF Init, Stopping, Listens, Names, Life!LInit

\* The directory, with all the companions and editors that share it, is as many lives as
\* CompanionLife describes as there are companions with a port of their own.
THEOREM DirectoryImplementsLives == Spec => ImplementsLives
<1>1. Init => \A c \in Companions : Life(c)!LInit
  BY EachLifeBegins
<1>2. DirInv /\ [Next]_vars =>
        [\A c \in Companions : HasOwnPort(c)' => [Life(c)!LNext]_(Life(c)!lvars)]_vars
  BY StepIsOfEachLife
<1> QED
  BY <1>1, <1>2, DirectoryCorrect, PTL DEF Spec, ImplementsLives

\* The same, one companion at a time.
THEOREM EachLivesALife ==
    Spec => \A c \in Companions : []HasOwnPort(c) => Life(c)!LSpec
<1> SUFFICES ASSUME NEW c \in Companions PROVE Spec => ([]HasOwnPort(c) => Life(c)!LSpec)
  OBVIOUS
<1>1. Init => Life(c)!LInit
  BY EachLifeBegins
<1>2. DirInv /\ [Next]_vars /\ HasOwnPort(c)' => [Life(c)!LNext]_(Life(c)!lvars)
  BY StepIsOfEachLife
<1> QED
  BY <1>1, <1>2, DirectoryCorrect, PTL DEF Spec, Life!LSpec

\* What a reader of the directory may rely on, of each companion that is not on port 0.
THEOREM OffersCanBeReliedOn ==
    Spec => \A c \in Companions : [](HasOwnPort(c) => Life(c)!OffersAreGood)
<1> SUFFICES ASSUME NEW c \in Companions
             PROVE  Spec => [](HasOwnPort(c) => Life(c)!OffersAreGood)
  OBVIOUS
<1>1. Init => Life(c)!OffersAreGood
  BY EachLifeBegins DEF Life!LInit, Life!OffersAreGood
<1>2. Life(c)!OffersAreGood /\ [Life(c)!LNext]_(Life(c)!lvars) => Life(c)!OffersAreGood'
  BY DEF Life!OffersAreGood, Life!lvars, Life!LNext, Life!Listen, Life!Offer, Life!Tell,
         Life!Close, Life!Withdraw, Life!End, Life!Kill
<1>3. DirInv /\ [Next]_vars /\ (HasOwnPort(c) => Life(c)!OffersAreGood)
        => (HasOwnPort(c) => Life(c)!OffersAreGood)'
  BY <1>2, StepIsOfEachLife, NeverOnZero
<1> QED
  BY <1>1, <1>3, DirectoryCorrect, PTL DEF Spec

\* Whoever has seen that a started companion's lock is gone will not see it again, and
\* one killed before its rename is never offered: not even through the temporary file
\* it left, which the next holder of the port finds under the same name.  On port 0 a
\* second companion may rename the file of the first.
THEOREM LocksGoForGood ==
    Spec => \A c \in Companions : []HasOwnPort(c) => Life(c)!NoSecondOffer
<1> SUFFICES ASSUME NEW c \in Companions
             PROVE  Spec => ([]HasOwnPort(c) => Life(c)!NoSecondOffer)
  OBVIOUS
<1>1. Life(c)!Withdrawn /\ [Life(c)!LNext]_(Life(c)!lvars) => Life(c)!Withdrawn'
  BY DEF Life!Withdrawn, Life!lvars, Life!LNext, Life!Listen, Life!Offer, Life!Tell,
         Life!Close, Life!Withdraw, Life!End, Life!Kill
<1>2. DirInv /\ [Next]_vars /\ HasOwnPort(c)' /\ Life(c)!Withdrawn => Life(c)!Withdrawn'
  BY <1>1, StepIsOfEachLife
<1> QED
  BY <1>2, DirectoryCorrect, PTL DEF Spec, Life!NoSecondOffer
=============================================================================

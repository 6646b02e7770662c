---------------------------- MODULE DiscoveryProofs ----------------------------
(***************************************************************************)
(* Proofs about Discovery, for any number of companions and ports.  What   *)
(* LockDirectoryProofs says of the directory alone carries over, because   *)
(* the helper only reads it.                                               *)
(***************************************************************************)
EXTENDS Discovery, LockDirectoryProofs

ScanNext == Scan \/ Others

\* The helper changes nothing of the directory.
LEMMA ScanReadsOnly == [ScanNext]_allVars => [Next]_vars
  BY DEF ScanNext, Scan, Others, ListLocks, NotFound, Dial, ReadLock, Choose,
         HelperEnds, allVars

\* So the directory beside it is the one that was proved about: whatever a search does,
\* and wherever it is broken off, no companion can tell (discovery.rs, at_mention.rs).
THEOREM SearchIsUnseen == ScanSpec => Spec
  BY ScanReadsOnly, PTL DEF ScanSpec, ScanInit, Spec, ScanNext

LEMMA DirectoryHolds == ScanSpec => []DirInv
  BY SearchIsUnseen, DirectoryCorrect, PTL

\* The helper's variables keep their types; a lock is chosen among those it read.
LEMMA ScanTypeStep == ScanTypes /\ [ScanNext]_allVars => ScanTypes'
<1> SUFFICES ASSUME ScanTypes, [ScanNext]_allVars PROVE ScanTypes'
  OBVIOUS
<1> USE NoneIsNobody DEF ScanTypes, Outcomes
<1>1. CASE UNCHANGED allVars
  BY <1>1 DEF allVars, scanVars
<1>2. CASE ListLocks
  BY <1>2 DEF ListLocks, Advertised
<1>3. CASE NotFound \/ Dial
  BY <1>3 DEF NotFound, Dial, HelperEnds
<1>4. ASSUME NEW n \in Names, ReadLock(n) PROVE ScanTypes'
  BY <1>4 DEF ReadLock
<1>5. ASSUME NEW n \in Names, Choose(n) PROVE ScanTypes'
  BY <1>5 DEF Choose, Candidates
<1>6. CASE Others
  BY <1>6 DEF Others
<1> QED
  BY <1>1, <1>2, <1>3, <1>4, <1>5, <1>6 DEF ScanNext, Scan

\* The helper's variables keep their types.
THEOREM ScanTypeCorrect == ScanSpec => []ScanTypes
<1>1. NoScan => ScanTypes
  BY DEF NoScan, ScanTypes
<1> QED
  BY <1>1, ScanTypeStep, PTL DEF ScanSpec, ScanInit, ScanNext
-----------------------------------------------------------------------------
(* The invariant *)

\* A companion that has written its lock keeps its number, and has written it for good.
LEMMA PastIsForGood ==
    ASSUME DirInv, [Next]_vars, NEW c \in Companions, HasWritten(c)
    PROVE  port'[c] = port[c] /\ HasWritten(c)'
<1> USE DEF DirInv, TypeOK, HasWritten, Gone, Stopping, Starting, Alive, Move, Ends, sweepVars
<1>1. CASE UNCHANGED vars
  BY <1>1 DEF vars
<1>2. ASSUME NEW d \in Companions, Step(d) PROVE port'[c] = port[c] /\ HasWritten(c)'
  <2>1. CASE Start(d) \/ SweepRemove(d) \/ BindFails(d) \/ ClearTmp(d) \/ WriteTmp(d)
    BY <2>1 DEF Start, SweepRemove, BindFails, SweepDone, ClearTmp, WriteTmp
  <2>2. CASE Publish(d) \/ WriteFails(d) \/ StopAsked(d) \/ LspEnds(d) \/ AcceptGivesUp(d)
    BY <2>2 DEF Publish, WriteFails, StopAsked, LspEnds, AcceptGivesUp
  <2>3. CASE SeeStopped(d) \/ DropLock(d) \/ CancelTasks(d) \/ CloseListener(d)
             \/ Exit(d) \/ Kill(d)
    BY <2>3 DEF SeeStopped, DropLock, CancelTasks, CloseListener, Exit, Kill
  <2>4. ASSUME NEW n \in Names, SweepRead(d, n) PROVE port'[c] = port[c] /\ HasWritten(c)'
    BY <2>4 DEF SweepRead
  <2>5. ASSUME NEW p \in Ports, Bind(d, p) \/ BindZero(d, p)
        PROVE  port'[c] = port[c] /\ HasWritten(c)'
    BY <2>5 DEF Bind, BindZero, SweepDone
  <2> QED
    BY <1>2, <2>1, <2>2, <2>3, <2>4, <2>5 DEF Step
<1>3. ASSUME NEW p \in Ports, StrangerOpens(p) \/ StrangerLeaves(p)
      PROVE  port'[c] = port[c] /\ HasWritten(c)'
  BY <1>3 DEF StrangerOpens, StrangerLeaves
<1> QED
  BY <1>1, <1>2, <1>3 DEF Next

\* Every step keeps ScanInv.
LEMMA ScanStep ==
    DirInv /\ ScanTypes /\ ScanInv /\ [ScanNext]_allVars => ScanInv'
<1> SUFFICES ASSUME DirInv, ScanTypes, ScanInv, [ScanNext]_allVars PROVE ScanInv'
  OBVIOUS
<1> USE NoneIsNobody DEF DirInv, ScanInv, SeenIsPast, SteadyIsListed, ScanTypes
<1>1. CASE UNCHANGED allVars
  BY <1>1 DEF allVars, scanVars, vars, Advertised, Serving, HasWritten
<1>2. CASE ListLocks
  BY <1>2 DEF ListLocks, Advertised, Serving, HasWritten, vars, TypeOK
<1>3. CASE NotFound \/ Dial
  BY <1>3 DEF NotFound, Dial, HelperEnds
<1>4. ASSUME NEW n \in Names, ReadLock(n) PROVE ScanInv'
  <2>1. SeenIsPast'
    BY <1>4 DEF ReadLock, DirInv, PortsAndLocksAgree, WriterHasPort, HasWritten, vars
  <2>2. SteadyIsListed'
    BY <1>4 DEF ReadLock, Advertised, Serving, vars, TypeOK
  <2> QED
    BY <2>1, <2>2
<1>5. ASSUME NEW n \in Names, Choose(n) PROVE ScanInv'
  BY <1>5 DEF Choose, Advertised, Serving, HasWritten, vars
<1>6. CASE Others
  <2>1. SeenIsPast'
    BY <1>6, PastIsForGood DEF Others
  <2>2. SteadyIsListed'
    <3> SUFFICES ASSUME NEW c \in steady' PROVE
            /\ scan' \in {"reading", "chosen"}
            /\ c \in Advertised'
            /\ port'[c] \in unread' \/ seen'[port'[c]] = c
      OBVIOUS
    <3>1. c \in steady /\ c \in Advertised' /\ c \in Companions
      BY <1>6 DEF Others
    <3>2. port'[c] = port[c]
      BY <3>1, <1>6, PastIsForGood DEF Others, Advertised, Serving, HasWritten
    <3> QED
      BY <3>1, <3>2, <1>6 DEF Others
  <2> QED
    BY <2>1, <2>2
<1> QED
  BY <1>1, <1>2, <1>3, <1>4, <1>5, <1>6 DEF ScanNext, Scan

\* What the helper has read and has yet to read, beside everything that runs.
THEOREM ScanCorrect == ScanSpec => []ScanInv
<1>1. NoScan => ScanInv
  BY NoneIsNobody DEF NoScan, ScanInv, SeenIsPast, SteadyIsListed
<1> QED
  BY <1>1, ScanStep, ScanTypeCorrect, DirectoryHolds, PTL DEF ScanSpec, ScanInit, ScanNext
-----------------------------------------------------------------------------
(* The properties *)

\* A lock, once read, leads to its companion for as long as that one serves, the lock of
\* port 0 excepted.
THEOREM ReadLockIsGood == ScanSpec => []SeenLocksStayTrue
<1>1. DirInv /\ ScanTypes /\ ScanInv => SeenLocksStayTrue
  BY NoneIsNobody DEF ScanInv, SeenIsPast, ScanTypes, SeenLocksStayTrue, Serving, DirInv,
                      PortsAndLocksAgree, HoldsPort
<1> QED
  BY <1>1, ScanCorrect, ScanTypeCorrect, DirectoryHolds, PTL

\* No companion that keeps its lock during the search is overlooked.
THEOREM NoneOverlooked == ScanSpec => []SteadyAreFound
<1>1. ASSUME DirInv, ScanTypes, ScanInv PROVE SteadyAreFound
  <2> SUFFICES ASSUME unread = {}, NEW c \in steady
               PROVE  port[c] \in Candidates /\ seen[port[c]] = c
    BY DEF SteadyAreFound
  <2>1. c \in Companions /\ phase[c] = "serving" /\ seen[port[c]] = c
    BY <1>1 DEF ScanInv, SteadyIsListed, Advertised, Serving
  <2>2. port[c] \in Names
    BY <1>1, <2>1 DEF DirInv, TypeOK
  <2> QED
    BY <2>1, <2>2, NoneIsNobody DEF Candidates, Alive
<1> QED
  BY <1>1, ScanCorrect, ScanTypeCorrect, DirectoryHolds, PTL
=============================================================================

------------------------ MODULE ExtensionInstallProofs ------------------------
(***************************************************************************)
(* Proofs about ExtensionInstall, for every set of releases, every order   *)
(* their names may sort in, and every failure and interruption.            *)
(***************************************************************************)
EXTENDS ExtensionInstall, TLAPS

\* What a call keeps in hand as it goes through its steps.
InHand ==
    /\ step \in {"marking", "renaming"} => disk[Temp(target)] \in Whole
    /\ step \in {"found", "pruning", "copying", "writing", "sealing"} => Build(target) \in Usable
    /\ target # None => Build(target) \notin todo
    /\ target # None => target <= released
    /\ step # "pruning" => todo = {}

\* No build on disk is newer than the newest release, nor than the one a call installs.
OnDisk(v) == disk[Build(v)] # "absent"
BuildsAreOld ==
    \A v \in Versions : OnDisk(v) => v <= released /\ (target # None => v <= target)

StableIsOld == stable.of <= released /\ (target # None => stable.of <= target)

\* The newest build given, or a newer one, is on disk.
BestIsThere == best # 0 => \E v \in Versions : v >= best /\ OnDisk(v)

\* Only the cached path was given, and a call only begins when it is gone.
GivenIsCached == given \subseteq {cached} /\ (step # "idle" => given = {})

StatusInv ==
    status = "downloading" => step \notin {"idle", "fetching", "found", "falling_back", "which"}

IInv ==
    /\ TypeOK /\ BuildsAreWhole /\ GivenStay
    /\ InHand /\ BuildsAreOld /\ StableIsOld /\ BestIsThere /\ GivenIsCached /\ StatusInv

-----------------------------------------------------------------------------
(* Names *)

\* The names are told apart, and those that may be run are the builds and the legacy one.
LEMMA NameFacts ==
    /\ Binaries \subseteq Names /\ Legacy \in Binaries /\ OnPath \notin Names
    /\ \A v \in Versions : Build(v) \in Binaries /\ Temp(v) \in Names \ Binaries
    /\ \A v \in Versions : Build(v) # Legacy /\ Build(v)[1] = "build" /\ Build(v)[2] = v
    /\ Legacy[1] # "build" /\ Legacy[2] = 0 /\ OnPath[1] # "build"
    /\ \A n \in Binaries : n = Legacy \/ \E v \in Versions : n = Build(v)
    /\ \A n \in Names : is_versioned_binary(n) \/ n = Legacy <=> n \in Binaries
    /\ \A v \in Versions : v \in Nat /\ v # 0
    /\ None \notin Versions /\ None \notin Binaries
  BY VersionsAssumption, NoneAssumption
     DEF Build, Temp, Legacy, OnPath, Names, Binaries, is_versioned_binary

\* What may be run is what is on disk under one of those names.
LEMMA ExistingIs == existing_binaries = {n \in Binaries : disk[n] # "absent"}
  BY NameFacts DEF existing_binaries

\* What is fallen back on is on disk; it is a build if there is one, and none sorts after it.
LEMMA FallbackIs ==
    ASSUME NEW n \in fallback_binary
    PROVE  /\ n \in Binaries /\ disk[n] # "absent"
           /\ \A v \in Versions : OnDisk(v) =>
                 \E w \in Versions : n = Build(w) /\ rank[v] <= rank[w]
<1> DEFINE builds == {m \in existing_binaries : is_versioned_binary(m)}
<1>1. n \in existing_binaries
  BY DEF fallback_binary
<1>2. n \in Binaries /\ disk[n] # "absent"
  BY <1>1, ExistingIs
<1>3. ASSUME NEW v \in Versions, OnDisk(v)
      PROVE  \E w \in Versions : n = Build(w) /\ rank[v] <= rank[w]
  <2>1. Build(v) \in builds
    BY <1>3, ExistingIs, NameFacts DEF OnDisk, is_versioned_binary
  <2>2. n \in builds /\ rank[Build(v)[2]] <= rank[n[2]]
    BY <2>1 DEF fallback_binary
  <2>3. n # Legacy
    BY <2>2, NameFacts DEF is_versioned_binary
  <2>4. PICK w \in Versions : n = Build(w)
    BY <2>3, <1>2, NameFacts
  <2> QED
    BY <2>2, <2>4, NameFacts
<1> QED
  BY <1>2, <1>3

-----------------------------------------------------------------------------
(* The inductive invariant *)

LEMMA InitIInv == Init => IInv
<1> SUFFICES ASSUME Init PROVE IInv
  OBVIOUS
<1>1. \A n \in Names : n # Legacy => disk[n] = "absent"
  BY DEF Init
<1>2. \A v \in Versions : ~OnDisk(v)
  BY <1>1, NameFacts DEF OnDisk
<1>3. TypeOK
  BY NameFacts DEF Init, TypeOK, Contents, Whole, Steps
<1>4. BuildsAreWhole
  BY <1>1, ExistingIs, NameFacts DEF Init, BuildsAreWhole, Usable, Whole
<1> QED
  BY <1>2, <1>3, <1>4 DEF Init, IInv, GivenStay, InHand, BuildsAreOld, StableIsOld,
     BestIsThere, GivenIsCached, StatusInv

\* Every step keeps the variables within their types.
LEMMA TypeStep == TypeOK /\ [Next]_vars => TypeOK'
<1> SUFFICES ASSUME TypeOK, [Next]_vars PROVE TypeOK'
  OBVIOUS
<1> USE NameFacts DEF TypeOK, Contents, Whole, Steps, Download, Go, Put, Idle, Return,
        callVars, results, world
<1>1. CASE FromCache
  BY <1>1 DEF FromCache
<1>2. CASE Resolve
  BY <1>2 DEF Resolve
<1>3. CASE FetchFails
  BY <1>3 DEF FetchFails
<1>4. CASE FetchFindsBuild
  BY <1>4 DEF FetchFindsBuild
<1>5. CASE FetchFindsNoAsset
  BY <1>5 DEF FetchFindsNoAsset
<1>6. CASE FetchFindsAsset
  BY <1>6 DEF FetchFindsAsset
<1>7. CASE MarkFound
  BY <1>7 DEF MarkFound
<1>8. CASE StartDownload
  BY <1>8 DEF StartDownload
<1>9. CASE FinishDownload
  BY <1>9 DEF FinishDownload
<1>10. CASE MarkTemp
  BY <1>10 DEF MarkTemp
<1>11. CASE Promote
  <2>1. existing_binaries' \subseteq Binaries
    BY DEF existing_binaries
  <2> QED
    BY <1>11, <2>1 DEF Promote
<1>12. CASE DownloadFails
  BY <1>12 DEF DownloadFails
<1>13. CASE CleanUp
  BY <1>13 DEF CleanUp
<1>14. CASE PruneDone
  BY <1>14 DEF PruneDone
<1>15. CASE OpenStable
  BY <1>15 DEF OpenStable
<1>16. CASE FillStable
  BY <1>16 DEF FillStable
<1>17. CASE FromRelease
  BY <1>17 DEF FromRelease
<1>18. CASE FallBack
  BY <1>18, FallbackIs DEF FallBack
<1>19. CASE NothingOnDisk
  BY <1>19 DEF NothingOnDisk
<1>20. CASE FromPath
  BY <1>20 DEF FromPath
<1>21. CASE Fail
  BY <1>21 DEF Fail
<1>22. CASE Release
  BY <1>22 DEF Release
<1>23. CASE Quit
  BY <1>23 DEF Quit
<1>24. ASSUME NEW n \in Binaries, Prune(n) PROVE TypeOK'
  BY <1>24 DEF Prune
<1>25. ASSUME NEW n \in Names, Vanish(n) PROVE TypeOK'
  BY <1>25 DEF Vanish
<1>26. CASE UNCHANGED vars
  BY <1>26 DEF vars
<1> QED
  BY <1>1, <1>2, <1>3, <1>4, <1>5, <1>6, <1>7, <1>8, <1>9, <1>10, <1>11, <1>12, <1>13, <1>14, <1>15, <1>16, <1>17, <1>18, <1>19, <1>20, <1>21, <1>22, <1>23, <1>24, <1>25, <1>26 DEF Next, CallStep

\* What the invariant says beyond the types, name by name.
Rest ==
    /\ \A n \in Binaries : disk[n] # "absent" => disk[n] \in Whole
    /\ given \subseteq Usable
    /\ InHand /\ BuildsAreOld /\ StableIsOld /\ BestIsThere /\ GivenIsCached /\ StatusInv

LEMMA TypeNat == TypeOK => released \in Nat /\ stable.of \in Nat /\ best \in Nat
<1>1. Versions \cup {0} \subseteq Nat
  BY VersionsAssumption
<1> QED
  BY <1>1 DEF TypeOK

LEMMA RestIs == IInv <=> TypeOK /\ Rest
  BY ExistingIs, NameFacts DEF IInv, Rest, BuildsAreWhole, GivenStay, Usable

LEMMA RestStep == TypeOK /\ TypeOK' /\ Rest /\ [Next]_vars => Rest'
<1> SUFFICES ASSUME TypeOK, TypeOK', Rest, [Next]_vars PROVE Rest'
  OBVIOUS
<1> USE NameFacts DEF TypeOK, Rest, InHand, BuildsAreOld, StableIsOld, BestIsThere,
        GivenIsCached, StatusInv, OnDisk, Usable, Whole, Download, Go, Put, Idle, Return,
        callVars, results, world, there
<1>1. CASE FromCache
  BY <1>1 DEF FromCache
<1>2. CASE Resolve
  BY <1>2 DEF Resolve
<1>3. CASE FetchFails
  BY <1>3 DEF FetchFails
<1>4. CASE FetchFindsBuild
  BY <1>4 DEF FetchFindsBuild
<1>5. CASE FetchFindsNoAsset
  BY <1>5 DEF FetchFindsNoAsset
<1>6. CASE FetchFindsAsset
  BY <1>6 DEF FetchFindsAsset
<1>7. CASE MarkFound
  BY <1>7 DEF MarkFound
<1>8. CASE StartDownload
  BY <1>8 DEF StartDownload
<1>9. CASE FinishDownload
  BY <1>9 DEF FinishDownload
<1>10. CASE MarkTemp
  BY <1>10 DEF MarkTemp
<1>11. CASE Promote
  BY <1>11, ExistingIs DEF Promote
<1>12. CASE DownloadFails
  BY <1>12 DEF DownloadFails
<1>13. CASE CleanUp
  BY <1>13 DEF CleanUp
<1>14. CASE PruneDone
  BY <1>14 DEF PruneDone
<1>15. CASE OpenStable
  BY <1>15 DEF OpenStable
<1>16. CASE FillStable
  BY <1>16 DEF FillStable
<1>17. CASE FromRelease
  BY <1>17 DEF FromRelease
<1>18. CASE FallBack
  BY <1>18, FallbackIs DEF FallBack
<1>19. CASE NothingOnDisk
  BY <1>19 DEF NothingOnDisk
<1>20. CASE FromPath
  BY <1>20 DEF FromPath
<1>21. CASE Fail
  BY <1>21 DEF Fail
<1>22. CASE Release
  <2>1. released \in Nat /\ released' = released + 1 /\ stable.of \in Nat
    BY <1>22, TypeNat DEF Release
  <2>2. \A v \in Versions : v <= released => v <= released'
    BY <2>1
  <2>3. BuildsAreOld' /\ StableIsOld'
    BY <1>22, <2>1, <2>2 DEF Release
  <2>4. InHand'
    BY <1>22, <2>2 DEF Release
  <2>5. BestIsThere' /\ GivenIsCached' /\ StatusInv'
    BY <1>22 DEF Release
  <2>6. given' \subseteq Usable' /\ \A n \in Binaries : disk'[n] # "absent" => disk'[n] \in Whole
    BY <1>22 DEF Release
  <2> QED
    BY <2>3, <2>4, <2>5, <2>6
<1>23. CASE Quit
  BY <1>23 DEF Quit
<1>24. ASSUME NEW n \in Binaries, Prune(n) PROVE Rest'
  BY <1>24 DEF Prune
<1>25. ASSUME NEW n \in Names, Vanish(n) PROVE Rest'
  BY <1>25 DEF Vanish
<1>26. CASE UNCHANGED vars
  BY <1>26 DEF vars
<1> QED
  BY <1>1, <1>2, <1>3, <1>4, <1>5, <1>6, <1>7, <1>8, <1>9, <1>10, <1>11, <1>12, <1>13, <1>14, <1>15, <1>16, <1>17, <1>18, <1>19, <1>20, <1>21, <1>22, <1>23, <1>24, <1>25, <1>26 DEF Next, CallStep

LEMMA Inductive == IInv /\ [Next]_vars => IInv'
<1> SUFFICES ASSUME IInv, [Next]_vars PROVE IInv'
  OBVIOUS
<1>1. TypeOK /\ Rest
  BY RestIs
<1>2. TypeOK'
  BY <1>1, TypeStep
<1>3. Rest'
  BY <1>1, <1>2, RestStep
<1>4. existing_binaries' = {n \in Binaries : disk'[n] # "absent"}
  BY NameFacts DEF existing_binaries
<1> QED
  BY <1>2, <1>3, <1>4 DEF IInv, Rest, BuildsAreWhole, GivenStay, Usable

LEMMA Invariant == Spec => []IInv
  BY InitIInv, Inductive, PTL DEF Spec

-----------------------------------------------------------------------------
(* What holds of every state *)

\* The variables keep their types (server_binary and what it calls).
THEOREM InstallTypes == Spec => []TypeOK
  BY Invariant, PTL DEF IInv

\* No name that may be run is ever a download cut short, whatever fails and wherever the
\* editor quits: what the temporary name of release_binary is for.
THEOREM InterruptedNeverRuns == Spec => []BuildsAreWhole
  BY Invariant, PTL DEF IInv

\* What a session's worktrees were given stays on disk through every later call.
THEOREM GivenNeverPruned == Spec => []GivenStay
  BY Invariant, PTL DEF IInv

\* Zed is not left showing a download that is over.
THEOREM DownloadIsReported == Spec => []StatusSettles
<1>1. IInv => StatusSettles
  BY DEF IInv, StatusInv, StatusSettles
<1> QED
  BY <1>1, Invariant, PTL

-----------------------------------------------------------------------------
(* What holds of every step *)

\* The whole builds there are stay, or a newer one is there.
LEMMA NewestStep ==
    ASSUME IInv, IInv', [Next]_vars, step # "idle", NEW n \in Usable
    PROVE  \E m \in Usable' : m[2] >= n[2]
<1>1. TypeOK /\ Rest /\ TypeOK' /\ Rest'
  BY RestIs, ExistingIs, NameFacts DEF IInv, Rest, BuildsAreWhole, GivenStay, Usable, existing_binaries
<1>2. n \in Binaries /\ disk[n] \in Whole /\ disk[n] # "absent"
  BY DEF Usable, Whole
<1>3. n[2] \in Nat
  BY <1>2, NameFacts
<1>4. CASE n \in Usable'
  BY <1>3, <1>4
<1>5. ASSUME NEW o \in Binaries, Prune(o), n \notin Usable' PROVE \E m \in Usable' : m[2] >= n[2]
  <2>1. target \in Versions /\ Build(target) \in Usable /\ Build(target) \notin todo
    BY <1>1, <1>5 DEF Rest, InHand, TypeOK, Prune
  <2>2. o # Build(target) /\ Build(target) \in Usable'
    BY <1>1, <1>5, <2>1, NameFacts DEF Prune, Put, Usable, TypeOK
  <2>3. target >= n[2]
    <3>1. CASE n = Legacy
      BY <3>1, <2>1, NameFacts
    <3>2. CASE \E v \in Versions : n = Build(v)
      BY <3>2, <1>1, <1>2, <2>1, NameFacts DEF Rest, BuildsAreOld, OnDisk
    <3> QED
      BY <3>1, <3>2, <1>2, NameFacts
  <2> QED
    BY <2>1, <2>2, <2>3, NameFacts
<1>6. ASSUME n \notin Usable', ~\E o \in Binaries : Prune(o) PROVE FALSE
  <2>1. disk' \in [Names -> Contents] /\ disk \in [Names -> Contents] /\ n \in Names
    BY <1>1, <1>2, NameFacts DEF TypeOK
  <2>2. ASSUME NEW o \in Names, disk' = [disk EXCEPT ![o] = "executable"] PROVE FALSE
    BY <1>2, <1>6, <2>1, <2>2 DEF Usable, Whole
  <2>3. ASSUME NEW v \in Versions, NEW c, disk' = [disk EXCEPT ![Temp(v)] = c] PROVE FALSE
    BY <1>2, <1>6, <2>1, <2>3, NameFacts DEF Usable
  <2>4. ASSUME UNCHANGED disk PROVE FALSE
    BY <1>6, <2>4 DEF Usable
  <2>5. CASE Promote
    <3>1. target \in Versions /\ disk[Temp(target)] \in Whole
      BY <1>1, <2>5 DEF Promote, Go, Rest, InHand, TypeOK
    <3>2. Temp(target) # n /\ Build(target) \in Names /\ Build(target) # Temp(target)
      BY <1>2, <3>1, NameFacts
    <3>3. disk'[n] = IF n = Build(target) THEN disk[Temp(target)] ELSE disk[n]
      BY <2>1, <2>5, <3>2 DEF Promote
    <3> QED
      BY <1>2, <1>6, <3>1, <3>3 DEF Usable
  <2>6. CASE FetchFindsAsset \/ StartDownload \/ FinishDownload \/ MarkTemp \/ CleanUp
    <3>1. CASE FetchFindsAsset
      BY <1>1, <2>3, <2>4, <3>1 DEF TypeOK, FetchFindsAsset, Put
    <3>2. CASE StartDownload \/ FinishDownload \/ MarkTemp \/ CleanUp
      <4>1. target \in Versions
        BY <1>1, <3>2 DEF TypeOK, Go, StartDownload, FinishDownload, MarkTemp, CleanUp
      <4> QED
        BY <2>3, <2>4, <3>2, <4>1 DEF StartDownload, FinishDownload, MarkTemp, CleanUp, Put
    <3> QED
      BY <2>6, <3>1, <3>2
  <2>7. CASE MarkFound \/ FallBack
    BY <1>1, <2>2, <2>4, <2>7, NameFacts, FallbackIs DEF TypeOK, MarkFound, FallBack, Put
  <2> QED
    BY <1>6, <2>4, <2>5, <2>6, <2>7
       DEF Next, CallStep, vars, FromCache, Resolve, FetchFails, FetchFindsBuild,
           FetchFindsNoAsset, DownloadFails, PruneDone, OpenStable, FillStable, FromRelease,
           NothingOnDisk, FromPath, Fail, Release, Quit, Vanish
<1> QED
  BY <1>4, <1>5, <1>6

\* An update never costs the build that was there.
THEOREM UpdateKeepsABuild == Spec => NewestIsKept
<1>1. IInv /\ IInv' /\ [Next]_vars =>
        [step # "idle" => \A n \in Usable : \E m \in Usable' : m[2] >= n[2]]_vars
  BY NewestStep
<1> QED
  BY <1>1, Invariant, PTL DEF Spec, NewestIsKept

\* What a step gives to a worktree is no older than what any was given before.
LEMMA DowngradeStep ==
    ASSUME IInv, IInv', [Next]_vars
    PROVE  /\ SortsAsReleased /\ cached' # cached /\ cached' \in Binaries => cached'[2] >= best
           /\ stable'.of >= stable.of
<1>1. TypeOK /\ Rest /\ TypeOK'
  BY RestIs DEF IInv
<1>2. stable'.of >= stable.of
  <2>1. CASE OpenStable
    BY <1>1, <2>1, TypeNat, NameFacts DEF OpenStable, Go, Rest, StableIsOld, TypeOK
  <2>2. CASE ~OpenStable
    <3>1. stable'.of = stable.of
      BY <1>1, <2>2 DEF Next, CallStep, vars, FromCache, Resolve, FetchFails, FetchFindsBuild,
         FetchFindsNoAsset, FetchFindsAsset, MarkFound, StartDownload, FinishDownload, MarkTemp,
         Promote, DownloadFails, CleanUp, Prune, PruneDone, FillStable, FromRelease, FallBack,
         NothingOnDisk, FromPath, Fail, Release, Quit, Vanish, TypeOK
    <3> QED
      BY <1>1, <3>1, TypeNat
  <2> QED
    BY <2>1, <2>2
<1>3. ASSUME SortsAsReleased, cached' # cached, cached' \in Binaries PROVE cached'[2] >= best
  <2>1. CASE FromRelease
    <3>1. target \in Versions /\ cached' = Build(target)
      BY <1>1, <2>1 DEF FromRelease, Return, TypeOK
    <3>2. CASE best = 0
      BY <3>1, <3>2, NameFacts
    <3>3. CASE best # 0
      <4>1. PICK v \in Versions : v >= best /\ OnDisk(v)
        BY <1>1, <3>3 DEF Rest, BestIsThere
      <4>2. v <= target
        BY <1>1, <3>1, <4>1, NameFacts DEF Rest, BuildsAreOld
      <4> QED
        BY <1>1, <3>1, <4>1, <4>2, TypeNat, NameFacts
    <3> QED
      BY <3>2, <3>3
  <2>2. CASE FallBack
    <3>1. PICK n \in fallback_binary : cached' = n
      BY <2>2 DEF FallBack, Return
    <3>2. CASE best = 0
      BY <1>3, <3>2, NameFacts
    <3>3. CASE best # 0
      <4>1. PICK v \in Versions : v >= best /\ OnDisk(v)
        BY <1>1, <3>3 DEF Rest, BestIsThere
      <4>2. PICK w \in Versions : n = Build(w) /\ rank[v] <= rank[w]
        BY <3>1, <4>1, FallbackIs
      <4>3. w >= v
        <5>1. rank \in [Versions -> Nat]
          BY <1>1, OrdersAssumption DEF TypeOK
        <5>2. w < v => rank[w] < rank[v]
          BY <1>3 DEF SortsAsReleased
        <5> QED
          BY <4>2, <5>1, <5>2, NameFacts
      <4> QED
        BY <1>1, <3>1, <4>1, <4>2, <4>3, TypeNat, NameFacts
    <3> QED
      BY <3>2, <3>3
  <2>3. CASE FromCache
    BY <1>3, <2>3 DEF FromCache, Return
  <2>4. CASE FromPath
    BY <1>3, <2>4, NameFacts DEF FromPath, Return
  <2>5. CASE Quit
    BY <1>3, <2>5, NameFacts DEF Quit
  <2> QED
    BY <1>3, <2>1, <2>2, <2>3, <2>4, <2>5 DEF Next, CallStep, vars, Resolve, FetchFails,
       FetchFindsBuild, FetchFindsNoAsset, FetchFindsAsset, MarkFound, StartDownload,
       FinishDownload, MarkTemp, Promote, DownloadFails, CleanUp, Prune, PruneDone, OpenStable,
       FillStable, NothingOnDisk, Fail, Release, Vanish, results, callVars
<1> QED
  BY <1>2, <1>3

\* Neither a worktree nor the stable copy is taken back to an older release.
THEOREM NeverDowngraded == Spec => NoDowngrade
<1>1. IInv /\ IInv' /\ [Next]_vars =>
        [/\ SortsAsReleased /\ cached' # cached /\ cached' \in Binaries => cached'[2] >= best
         /\ stable'.of >= stable.of]_vars
  BY DowngradeStep
<1> QED
  BY <1>1, Invariant, PTL DEF Spec, NoDowngrade
=============================================================================

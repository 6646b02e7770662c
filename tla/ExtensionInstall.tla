--------------------------- MODULE ExtensionInstall ---------------------------
(***************************************************************************)
(* How the Zed extension finds the companion it starts: the path resolved  *)
(* before, the release on GitHub, what is left on disk, or the PATH        *)
(* (extension/src/lib.rs, with the rules on names of resolve/src/lib.rs).  *)
(*                                                                         *)
(* The extension's one instance answers one call at a time, but the editor *)
(* may quit between any two of its steps, and any call to the file system  *)
(* or the network may fail.  What it finds on the next start is what the   *)
(* interrupted call left in its work directory.                            *)
(***************************************************************************)
EXTENDS Naturals

CONSTANTS
    Versions,     \* releases, in the order they are made: 1..n
    StringOrders, \* the orders the names of the builds may sort in, as ranks
    None

ASSUME VersionsAssumption == Versions \subseteq Nat \ {0}
ASSUME OrdersAssumption   == \A r \in StringOrders : r \in [Versions -> Nat]

VARIABLES
    disk,        \* the work directory: what is under each name
    stable,      \* the copy under STABLE_NAME
    rank,        \* the string order of the builds' names
    released,    \* the newest release on GitHub
    step,        \* where the current call is, "idle" between calls
    target,      \* the release it installs
    todo,        \* the old builds it has still to remove
    cached,      \* cached_binary_path
    status,      \* the installation status Zed shows
    given,       \* history: the builds that this session's worktrees were given
    best         \* history: the newest version given so far, 0 if none

vars == <<disk, stable, rank, released, step, target, todo, cached, status, given, best>>

callVars == <<target, todo>>
results  == <<cached, given, best>>
world    == <<rank, released>>

-----------------------------------------------------------------------------
(* Names *)

\* versioned_name, download_temp_name and the name of old without a version.
Build(v) == <<"build", v>>
Temp(v)  == <<"temp", v>>
Legacy   == <<"legacy", 0>>

\* A companion on PATH, outside the work directory.
OnPath   == <<"path", 0>>

Names  == {Build(v) : v \in Versions} \cup {Temp(v) : v \in Versions} \cup {Legacy}
Binaries == {Build(v) : v \in Versions} \cup {Legacy}

ASSUME NoneAssumption == None \notin Versions /\ None \notin Binaries

\* A file whose last byte is missing, one without and one with its executable bit.
Contents == {"absent", "partial", "plain", "executable"}
Whole    == {"plain", "executable"}

is_versioned_binary(n) == n[1] = "build"

existing_binaries == {n \in Names : disk[n] # "absent" /\ (is_versioned_binary(n) \/ n = Legacy)}

\* Mutant of fallback_binary: the list is not reversed.
OldestFirst ==
    LET builds == {n \in existing_binaries : is_versioned_binary(n)}
    IN  IF builds # {} THEN {n \in builds : \A o \in builds : rank[o[2]] >= rank[n[2]]}
                       ELSE existing_binaries

\* The last versioned build in string order, or else the legacy one; none if empty.
fallback_binary ==
    LET builds == {n \in existing_binaries : is_versioned_binary(n)}
    IN  IF builds # {} THEN {n \in builds : \A o \in builds : rank[o[2]] <= rank[n[2]]}
                       ELSE existing_binaries

-----------------------------------------------------------------------------
Steps == {"idle", "fetching", "found", "downloading", "streaming", "marking", "renaming",
          "pruning", "copying", "writing", "sealing", "cleaning", "falling_back", "which"}

TypeOK ==
    /\ disk \in [Names -> Contents]
    /\ stable \in [of : Versions \cup {0}, is : Contents]
    /\ rank \in StringOrders
    /\ released \in Versions \cup {0}
    /\ step \in Steps
    /\ target \in Versions \cup {None}
    /\ todo \in SUBSET Binaries
    /\ cached \in Binaries \cup {OnPath, None}
    /\ status \in {"none", "checking", "downloading", "failed"}
    /\ given \in SUBSET Binaries
    /\ best \in Versions \cup {0}
    /\ step \notin {"idle", "fetching", "falling_back", "which"} => target # None

\* A fresh work directory, or one with the binary of an old release of the extension.
Init ==
    /\ \E old \in {"absent"} \cup Whole :
          disk = [n \in Names |-> IF n = Legacy THEN old ELSE "absent"]
    /\ stable = [of |-> 0, is |-> "absent"]
    /\ rank \in StringOrders
    /\ released = 0
    /\ step = "idle"
    /\ target = None
    /\ todo = {}
    /\ cached = None
    /\ status = "none"
    /\ given = {}
    /\ best = 0

-----------------------------------------------------------------------------
(* The world *)

Release ==
    /\ released + 1 \in Versions
    /\ released' = released + 1
    /\ UNCHANGED <<disk, stable, rank, step, callVars, results, status>>

\* Somebody tidies the work directory between two calls.
Vanish(n) ==
    /\ step = "idle"
    /\ disk[n] # "absent"
    /\ disk' = [disk EXCEPT ![n] = "absent"]
    /\ given' = given \ {n}
    /\ best' = 0
    /\ UNCHANGED <<stable, world, step, callVars, cached, status>>

\* The editor quits, or reloads the extension: nothing but the disk is kept.
Quit ==
    /\ step' = "idle"
    /\ target' = None /\ todo' = {}
    /\ cached' = None /\ given' = {}
    /\ status' = "none"
    /\ UNCHANGED <<disk, stable, world, best>>

-----------------------------------------------------------------------------
(* server_binary *)

Put(n, content) == disk' = [disk EXCEPT ![n] = content]
Go(from, to) == step = from /\ step' = to

Idle == step' = "idle" /\ target' = None /\ todo' = {}

\* The call returns this path, and the session keeps it.
Return(path) ==
    /\ Idle
    /\ cached' = path
    /\ given' = IF path \in Binaries THEN given \cup {path} ELSE given
    /\ best' = IF path[1] = "build" /\ path[2] > best THEN path[2] ELSE best

there(path) == path \in {n \in Names : disk[n] # "absent"} \cup {OnPath}

\* The path resolved earlier, if there is still a file.
FromCache ==
    /\ step = "idle"
    /\ cached # None /\ there(cached)
    /\ Return(cached)
    /\ UNCHANGED <<disk, stable, world, status>>

\* release_binary begins.  What was on PATH may have gone, too.
Resolve ==
    /\ Go("idle", "fetching")
    /\ cached \notin {None, OnPath} => ~there(cached)
    /\ status' = "checking"
    /\ UNCHANGED <<disk, stable, world, callVars, results>>

\* latest_github_release: offline, out of requests, or nothing released.
FetchFails ==
    /\ Go("fetching", "falling_back")
    /\ UNCHANGED <<disk, stable, world, callVars, results, status>>

\* The release is on disk already ...
FetchFindsBuild ==
    /\ Go("fetching", "found")
    /\ released # 0
    /\ disk[Build(released)] # "absent"
    /\ target' = released
    /\ status' = "none"
    /\ UNCHANGED <<disk, stable, world, todo, results>>

\* ... or it has no asset for this platform ...
FetchFindsNoAsset ==
    /\ Go("fetching", "which")
    /\ released # 0
    /\ disk[Build(released)] = "absent"
    /\ UNCHANGED <<disk, stable, world, callVars, results, status>>

\* ... or it is downloaded.  What an interrupted download left is removed, if it can be.
FetchFindsAsset ==
    /\ Go("fetching", "downloading")
    /\ released # 0
    /\ disk[Build(released)] = "absent"
    /\ target' = released
    /\ status' = "downloading"
    /\ UNCHANGED disk \/ Put(Temp(released), "absent")
    /\ UNCHANGED <<stable, world, todo, results>>

\* make_file_executable of the build that is there; if that fails it is not used.
MarkFound ==
    /\ \/ Go("found", "copying") /\ Put(Build(target), "executable")
       \/ Go("found", "which") /\ UNCHANGED disk
    /\ UNCHANGED <<stable, world, callVars, results, status>>

-----------------------------------------------------------------------------
(* The download *)

Download == {"downloading", "streaming", "marking", "renaming"}

\* download_file creates the file ...
StartDownload ==
    /\ Go("downloading", "streaming")
    /\ Put(Temp(target), "partial")
    /\ UNCHANGED <<stable, world, callVars, results, status>>

\* ... and receives all of it.
FinishDownload ==
    /\ Go("streaming", "marking")
    /\ Put(Temp(target), "plain")
    /\ UNCHANGED <<stable, world, callVars, results, status>>

MarkTemp ==
    /\ Go("marking", "renaming")
    /\ Put(Temp(target), "executable")
    /\ UNCHANGED <<stable, world, callVars, results, status>>

\* Mutant of Promote: the new build is listed with the old ones.
PromoteForgets ==
    /\ Go("renaming", "pruning")
    /\ disk' = [disk EXCEPT ![Build(target)] = disk[Temp(target)], ![Temp(target)] = "absent"]
    /\ todo' \in {existing_binaries', {}}
    /\ UNCHANGED <<stable, world, target, results, status>>

\* Into place; then the directory is listed, if it can be.
Promote ==
    /\ Go("renaming", "pruning")
    /\ disk' = [disk EXCEPT ![Build(target)] = disk[Temp(target)], ![Temp(target)] = "absent"]
    /\ todo' \in {existing_binaries' \ {Build(target)}, {}}
    /\ UNCHANGED <<stable, world, target, results, status>>

\* Mutant of DownloadFails: it is taken for complete.
DownloadPasses ==
    /\ \E from \in Download : Go(from, "renaming")
    /\ UNCHANGED <<disk, stable, world, callVars, results, status>>

\* Any of the four fails.
DownloadFails ==
    /\ \E from \in Download : Go(from, "cleaning")
    /\ UNCHANGED <<disk, stable, world, callVars, results, status>>

\* Mutant of CleanUp: Zed is not told.
CleanUpSilently ==
    /\ Go("cleaning", "falling_back")
    /\ UNCHANGED disk \/ Put(Temp(target), "absent")
    /\ UNCHANGED <<stable, world, callVars, results, status>>

\* The temporary file goes, if it can, and the user is told.
CleanUp ==
    /\ Go("cleaning", "falling_back")
    /\ UNCHANGED disk \/ Put(Temp(target), "absent")
    /\ status' = "failed"
    /\ UNCHANGED <<stable, world, callVars, results>>

\* An old build is removed, if it can be.
Prune(n) ==
    /\ step = "pruning"
    /\ n \in todo
    /\ UNCHANGED disk \/ Put(n, "absent")
    /\ todo' = todo \ {n}
    /\ UNCHANGED <<stable, world, step, target, results, status>>

PruneDone ==
    /\ Go("pruning", "copying")
    /\ todo = {}
    /\ UNCHANGED <<disk, stable, world, callVars, results, status>>

-----------------------------------------------------------------------------
(* refresh_stable_copy *)

\* fs::copy opens the stable name, which truncates it and keeps its mode ...
OpenStable ==
    /\ Go("copying", "writing")
    /\ stable' = [of |-> target, is |-> "partial"]
    /\ UNCHANGED <<disk, world, callVars, results, status>>

\* ... and fills it ...
FillStable ==
    /\ Go("writing", "sealing")
    /\ stable' = [stable EXCEPT !.is = "plain"]
    /\ UNCHANGED <<disk, world, callVars, results, status>>

\* ... and it is made executable.  None of this failing is more than logged.
FromRelease ==
    /\ step \in {"copying", "writing", "sealing"}
    /\ stable' \in IF step = "sealing" THEN {stable, [stable EXCEPT !.is = "executable"]}
                                       ELSE {stable}
    /\ status' = "none"
    /\ Return(Build(target))
    /\ UNCHANGED <<disk, world>>

-----------------------------------------------------------------------------
(* Without the release *)

\* Mutant of FallBack: it is not kept for the session's next call.
FallBackOnce ==
    /\ step = "falling_back"
    /\ \E n \in fallback_binary :
          /\ UNCHANGED disk \/ Put(n, "executable")
          /\ given' = given \cup {n}
    /\ Idle
    /\ UNCHANGED <<stable, world, status, cached, best>>

\* The build on disk, made executable if possible.
FallBack ==
    /\ step = "falling_back"
    /\ \E n \in fallback_binary : (UNCHANGED disk \/ Put(n, "executable")) /\ Return(n)
    /\ UNCHANGED <<stable, world, status>>

\* There is none, or the directory cannot be listed.
NothingOnDisk ==
    /\ Go("falling_back", "which")
    /\ UNCHANGED <<disk, stable, world, callVars, results, status>>

\* Worktree::which
FromPath ==
    /\ step = "which"
    /\ Return(OnPath)
    /\ UNCHANGED <<disk, stable, world, status>>

Fail ==
    /\ step = "which"
    /\ Idle
    /\ status' = "failed"
    /\ UNCHANGED <<disk, stable, world, results>>

-----------------------------------------------------------------------------
CallStep ==
    \/ FetchFails \/ FetchFindsBuild \/ FetchFindsNoAsset \/ FetchFindsAsset \/ MarkFound
    \/ StartDownload \/ FinishDownload \/ MarkTemp \/ Promote \/ DownloadFails \/ CleanUp
    \/ PruneDone \/ OpenStable \/ FillStable \/ FromRelease
    \/ FallBack \/ NothingOnDisk \/ FromPath \/ Fail
    \/ \E n \in Binaries : Prune(n)

Next ==
    \/ FromCache \/ Resolve \/ CallStep
    \/ Release \/ Quit
    \/ \E n \in Names : Vanish(n)

Spec == Init /\ [][Next]_vars

\* A call that was made goes on: every step of it returns or fails.
FairSpec == Spec /\ WF_vars(CallStep)

-----------------------------------------------------------------------------
(* Properties *)

Usable == {n \in Binaries : disk[n] \in Whole}

\* Nothing that may be run is a download that was cut short: not after a failed one, not
\* after the editor quit in the middle (extension/src/lib.rs:202).
BuildsAreWhole == existing_binaries \subseteq Usable

\* The builds this session's worktrees were given are still there, and whole: no call for
\* another worktree prunes the file that a companion is run from.
GivenStay == given \subseteq Usable

\* Once a download is over Zed is not left showing it (extension/src/lib.rs:197-235).
StatusSettles == step \in {"idle", "falling_back", "which"} => status # "downloading"

\* An update never costs the build that was there: whatever fails, and wherever the editor
\* quits, a whole build at least as new is on disk after every step.
NewestIsKept == [][step # "idle" => \A n \in Usable : \E m \in Usable' : m[2] >= n[2]]_vars

SortsAsReleased == \A v, w \in Versions : v < w => rank[v] < rank[w]

\* As long as the names sort as the releases, no call, on this start or a later one, gives
\* an older build than an earlier call did; nor is the stable copy ever set back.
NoDowngrade ==
    [][/\ SortsAsReleased /\ cached' # cached /\ cached' \in Binaries => cached'[2] >= best
       /\ stable'.of >= stable.of]_vars

\* Every call returns, whatever fails on its way, and then Zed shows no download.
CallSettles == step # "idle" ~> step = "idle" /\ status # "downloading"
=============================================================================

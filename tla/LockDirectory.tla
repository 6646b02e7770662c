----------------------------- MODULE LockDirectory -----------------------------
(***************************************************************************)
(* The lock directory, the one thing companions share with each other, with *)
(* other editors and with the CLI (server/src/lockfile.rs), and the part of *)
(* a companion's life that touches it: the sweep at start, the bind, the    *)
(* write by temporary file and rename, and the ways to stop                 *)
(* (server/src/companion.rs, server/src/main.rs, mcp/server.rs).            *)
(*                                                                         *)
(* file[p] is the content of <p>.lock: whose process id, name and token it  *)
(* holds.  Processes share no memory and no file lock, so every system call *)
(* is a step: the sweep's listing, its read of each file and its removal,   *)
(* and each call of LockDir::write.  Process ids are not reused.            *)
(*                                                                         *)
(* Permissions are left out: a removal of the sweep or of the guard, whose  *)
(* failure the code ignores or only logs, succeeds.                         *)
(***************************************************************************)
CONSTANTS
    Companions,   \* companion processes, each started once
    Stranger,     \* another editor that writes locks into the same directory
    Ports,        \* the ports a listener can have
    Zero,         \* the number 0: a lock can have it in its name, a listener cannot
    None

\* The numbers a lock file can be named by.
Names == Ports \cup {Zero}

ASSUME NoneIsNobody == None \notin Companions \cup Names \cup {Stranger}
ASSUME ZeroIsNoPort == Zero \notin Ports
ASSUME StrangerIsOther == Stranger \notin Companions

VARIABLES
    file,       \* file[n]: the owner named in <n>.lock, or None
    tmp,        \* tmp[n]: the owner named in .<n>.lock.tmp, or None
    listening,  \* listening[p]: the process whose listener holds port p
    phase,      \* where each companion is
    port,       \* the number find_available_port returned, which its lock is named by
    todo,       \* the directory entries its sweep has still to visit
    doomed,     \* the entry its sweep has judged dead and is about to remove
    deadAtStart,\* history: the <<port, owner>> locks that were dead when it started
    cancelled   \* its cancellation token

vars == <<file, tmp, listening, phase, port, todo, doomed, deadAtStart, cancelled>>
dirVars   == <<file, tmp>>
sweepVars == <<todo, doomed, deadAtStart>>

Starting == {"sweeping", "bound", "cleared", "written"}
Stopping == {"stopping", "unlocked", "draining"}
Gone     == {"exited", "failed", "killed"}

Owners   == Companions \cup {Stranger}
Alive(c) == phase[c] \in Starting \cup {"serving"} \cup Stopping

\* pid_is_alive, applied to the owner a lock names: a companion that is gone.
DeadCompanion(o) == o \in Companions /\ ~Alive(o)

TypeOK ==
    /\ file \in [Names -> Owners \cup {None}]
    /\ tmp \in [Names -> Companions \cup {None}]
    /\ listening \in [Ports -> Owners \cup {None}]
    /\ phase \in [Companions -> {"absent", "serving"} \cup Starting \cup Stopping \cup Gone]
    /\ port \in [Companions -> Names \cup {None}]
    /\ todo \in [Companions -> SUBSET Names]
    /\ doomed \in [Companions -> Names \cup {None}]
    /\ deadAtStart \in [Companions -> SUBSET (Names \X Companions)]
    /\ cancelled \in [Companions -> BOOLEAN]
    /\ \A c \in Companions : phase[c] \in (Starting \ {"sweeping"}) \cup {"serving"} \cup Stopping
                               => port[c] # None

Init ==
    /\ file = [n \in Names |-> None]
    /\ tmp = [n \in Names |-> None]
    /\ listening = [p \in Ports |-> None]
    /\ phase = [c \in Companions |-> "absent"]
    /\ port = [c \in Companions |-> None]
    /\ todo = [c \in Companions |-> {}]
    /\ doomed = [c \in Companions |-> None]
    /\ deadAtStart = [c \in Companions |-> {}]
    /\ cancelled = [c \in Companions |-> FALSE]

Move(c, to) == phase' = [phase EXCEPT ![c] = to]

Listens(c) == \E p \in Ports : listening[p] = c

\* The kernel closes what a process had open ...
ReleasePorts(c) ==
    listening' = [p \in Ports |-> IF listening[p] = c THEN None ELSE listening[p]]

\* ... and what it had in memory is gone when it ends.
Ends(c, how) ==
    /\ ReleasePorts(c)
    /\ todo' = [todo EXCEPT ![c] = {}]
    /\ doomed' = [doomed EXCEPT ![c] = None]
    /\ deadAtStart' = [deadAtStart EXCEPT ![c] = {}]
    /\ Move(c, how)
    /\ UNCHANGED <<dirVars, port, cancelled>>

-----------------------------------------------------------------------------
(* Companion::start *)

\* sweep_dead lists the directory ...
Start(c) ==
    /\ phase[c] = "absent"
    /\ Move(c, "sweeping")
    /\ todo' = [todo EXCEPT ![c] = {n \in Names : file[n] # None}]
    /\ deadAtStart' = [deadAtStart EXCEPT ![c] =
          {e \in Names \X Companions : file[e[1]] = e[2] /\ DeadCompanion(e[2])}]
    /\ UNCHANGED <<dirVars, listening, port, doomed, cancelled>>

\* ... reads one entry, and goes on unless it names one of ours that is dead ...
SweepRead(c, n) ==
    /\ phase[c] = "sweeping"
    /\ doomed[c] = None
    /\ n \in todo[c]
    /\ todo' = [todo EXCEPT ![c] = @ \ {n}]
    /\ doomed' = [doomed EXCEPT ![c] = IF DeadCompanion(file[n]) THEN n ELSE None]
    /\ UNCHANGED <<dirVars, listening, phase, port, deadAtStart, cancelled>>

\* Mutant of SweepRemove: the loop ends with the first lock removed.
SweepOnlyOne(c) ==
    /\ phase[c] = "sweeping"
    /\ doomed[c] # None
    /\ file' = [file EXCEPT ![doomed[c]] = None]
    /\ doomed' = [doomed EXCEPT ![c] = None]
    /\ todo' = [todo EXCEPT ![c] = {}]
    /\ UNCHANGED <<tmp, listening, phase, port, deadAtStart, cancelled>>

\* ... which it then removes, by path.
SweepRemove(c) ==
    /\ phase[c] = "sweeping"
    /\ doomed[c] # None
    /\ file' = [file EXCEPT ![doomed[c]] = None]
    /\ doomed' = [doomed EXCEPT ![c] = None]
    /\ UNCHANGED <<tmp, listening, phase, port, todo, deadAtStart, cancelled>>

SweepDone(c) == phase[c] = "sweeping" /\ todo[c] = {} /\ doomed[c] = None

\* Mutant of Bind: the port may be shared.
BindShared(c, p) ==
    /\ SweepDone(c)
    /\ listening' = [listening EXCEPT ![p] = c]
    /\ port' = [port EXCEPT ![c] = p]
    /\ Move(c, "bound")
    /\ UNCHANGED <<dirVars, sweepVars, cancelled>>

\* find_available_port: any free port, whether asked for, drawn or assigned.
Bind(c, p) ==
    /\ SweepDone(c)
    /\ listening[p] = None
    /\ listening' = [listening EXCEPT ![p] = c]
    /\ port' = [port EXCEPT ![c] = p]
    /\ Move(c, "bound")
    /\ UNCHANGED <<dirVars, sweepVars, cancelled>>

\* Started with `serve --port 0`: the system assigns some port, and what is returned
\* is the number that was asked for.
BindZero(c, p) ==
    /\ SweepDone(c)
    /\ listening[p] = None
    /\ listening' = [listening EXCEPT ![p] = c]
    /\ port' = [port EXCEPT ![c] = Zero]
    /\ Move(c, "bound")
    /\ UNCHANGED <<dirVars, sweepVars, cancelled>>

BindFails(c) ==
    /\ SweepDone(c)
    /\ \A p \in Ports : listening[p] # None
    /\ Ends(c, "failed")

\* Mutant of ClearTmp: the leftover stays.
KeepTmp(c) ==
    /\ phase[c] = "bound"
    /\ Move(c, "cleared")
    /\ UNCHANGED <<dirVars, listening, port, sweepVars, cancelled>>

\* LockDir::write removes a leftover temporary file ...
ClearTmp(c) ==
    /\ phase[c] = "bound"
    /\ tmp' = [tmp EXCEPT ![port[c]] = None]
    /\ Move(c, "cleared")
    /\ UNCHANGED <<file, listening, port, sweepVars, cancelled>>

\* ... creates its own, which must not exist (create_new), and fills it ...
WriteTmp(c) ==
    /\ phase[c] = "cleared"
    /\ tmp[port[c]] = None
    /\ tmp' = [tmp EXCEPT ![port[c]] = c]
    /\ Move(c, "written")
    /\ UNCHANGED <<file, listening, port, sweepVars, cancelled>>

\* ... and renames it over whatever <port>.lock there was.  Two companions on port 0
\* have one temporary name, so it may be gone, or another's.
Publish(c) ==
    /\ phase[c] = "written"
    /\ tmp[port[c]] # None
    /\ file' = [file EXCEPT ![port[c]] = tmp[port[c]]]
    /\ tmp' = [tmp EXCEPT ![port[c]] = None]
    /\ Move(c, "serving")
    /\ UNCHANGED <<listening, port, sweepVars, cancelled>>

\* Any of those calls may fail: start returns the error, the listener is dropped
\* and the process ends.  The temporary file, if written, stays.
WriteFails(c) ==
    /\ phase[c] \in {"bound", "cleared", "written"}
    /\ Ends(c, "failed")

-----------------------------------------------------------------------------
(* Stopping *)

\* Mutant of StopAsked: the listener goes before the lock.
StopClosesFirst(c) ==
    /\ phase[c] = "serving"
    /\ ReleasePorts(c)
    /\ Move(c, "stopping")
    /\ UNCHANGED <<dirVars, port, sweepVars, cancelled>>

\* A signal or the watchdog: main's select goes on to Handle::shutdown.
StopAsked(c) ==
    /\ phase[c] = "serving"
    /\ Move(c, "stopping")
    /\ UNCHANGED <<dirVars, listening, port, sweepVars, cancelled>>

\* The editor closes the LSP channel: run_lsp's future cancels the token itself,
\* then main's select goes on to Handle::shutdown.
LspEnds(c) ==
    /\ phase[c] = "serving"
    /\ cancelled' = [cancelled EXCEPT ![c] = TRUE]
    /\ Move(c, "stopping")
    /\ UNCHANGED <<dirVars, listening, port, sweepVars>>

\* Mutant of AcceptGivesUp: nobody is told.
AcceptGivesUpSilently(c) ==
    /\ phase[c] = "serving"
    /\ ~cancelled[c]
    /\ ReleasePorts(c)
    /\ UNCHANGED <<dirVars, phase, port, sweepVars, cancelled>>

\* The accept loop gives up on its listener, which goes with it, and cancels ...
AcceptGivesUp(c) ==
    /\ phase[c] = "serving"
    /\ ~cancelled[c]
    /\ cancelled' = [cancelled EXCEPT ![c] = TRUE]
    /\ ReleasePorts(c)
    /\ UNCHANGED <<dirVars, phase, port, sweepVars>>

\* ... which main's select hears of through Handle::stopped.
SeeStopped(c) ==
    /\ phase[c] = "serving"
    /\ cancelled[c]
    /\ Move(c, "stopping")
    /\ UNCHANGED <<dirVars, listening, port, sweepVars, cancelled>>

\* Mutant of DropLock: the guard is forgotten.
ForgetLock(c) ==
    /\ phase[c] = "stopping"
    /\ Move(c, "unlocked")
    /\ UNCHANGED <<dirVars, listening, port, sweepVars, cancelled>>

\* Handle::shutdown drops the guard first: <port>.lock is removed, by path.
DropLock(c) ==
    /\ phase[c] = "stopping"
    /\ file' = [file EXCEPT ![port[c]] = None]
    /\ Move(c, "unlocked")
    /\ UNCHANGED <<tmp, listening, port, sweepVars, cancelled>>

\* ... then cancels.
CancelTasks(c) ==
    /\ phase[c] = "unlocked"
    /\ cancelled' = [cancelled EXCEPT ![c] = TRUE]
    /\ Move(c, "draining")
    /\ UNCHANGED <<dirVars, listening, port, sweepVars>>

\* The accept loop sees the token, whoever cancelled it, and drops the listener.
CloseListener(c) ==
    /\ Alive(c)
    /\ cancelled[c]
    /\ Listens(c)
    /\ ReleasePorts(c)
    /\ UNCHANGED <<dirVars, phase, port, sweepVars, cancelled>>

\* The tasks have ended, or the two seconds are over.
Exit(c) ==
    /\ phase[c] = "draining"
    /\ Ends(c, "exited")

\* SIGKILL, a crash, or SIGTERM while no handler is installed.
Kill(c) ==
    /\ Alive(c)
    /\ Ends(c, "killed")

-----------------------------------------------------------------------------
(* Another editor: it listens, writes its lock, and may or may not clean up. *)

StrangerOpens(p) ==
    /\ listening[p] = None
    /\ listening' = [listening EXCEPT ![p] = Stranger]
    /\ file' = [file EXCEPT ![p] = Stranger]
    /\ UNCHANGED <<tmp, phase, port, sweepVars, cancelled>>

StrangerLeaves(p) ==
    /\ listening[p] = Stranger
    /\ listening' = [listening EXCEPT ![p] = None]
    /\ file' \in {file, [file EXCEPT ![p] = IF @ = Stranger THEN None ELSE @]}
    /\ UNCHANGED <<tmp, phase, port, sweepVars, cancelled>>

Step(c) ==
    \/ Start(c) \/ SweepRemove(c) \/ BindFails(c) \/ ClearTmp(c) \/ WriteTmp(c)
    \/ Publish(c) \/ WriteFails(c) \/ StopAsked(c) \/ LspEnds(c) \/ AcceptGivesUp(c)
    \/ SeeStopped(c) \/ DropLock(c) \/ CancelTasks(c) \/ CloseListener(c) \/ Exit(c)
    \/ Kill(c)
    \/ \E n \in Names : SweepRead(c, n)
    \/ \E p \in Ports : Bind(c, p) \/ BindZero(c, p)

Next == \/ \E c \in Companions : Step(c)
        \/ \E p \in Ports : StrangerOpens(p) \/ StrangerLeaves(p)

Spec == Init /\ [][Next]_vars

-----------------------------------------------------------------------------
(* Safety *)

Serving(c) == phase[c] = "serving" /\ ~cancelled[c]

\* Port 0 sets a companion apart: no listener has that port, every companion that was
\* asked for it writes to the same two names, and nothing keeps them from each other.
HasOwnPort(c) == port[c] # Zero
IsOnItsPort(c) == IF HasOwnPort(c) THEN listening[port[c]] = c ELSE Listens(c)

\* Whoever dials the port in a lock that names a companion still serving reaches that
\* companion, and nobody who has since taken the port.  A companion that was asked for
\* port 0 listens too, but its lock says 0 and does not tell where.
LockNamesItsListener ==
    \A n \in Names, c \in Companions :
        file[n] = c /\ Serving(c)
            => port[c] = n /\ IsOnItsPort(c)

\* A serving companion's port never carries somebody else's lock: the rename has
\* replaced what a killed process left there, and only the holder of a port writes.
NoForeignLockOnMyPort ==
    \A c \in Companions :
        Serving(c) /\ HasOwnPort(c) => file[port[c]] \in {c, None}

\* Two writers never share a temporary file, although its name depends on the port
\* alone: create_new does not fail for a leftover, and the rename publishes the
\* token of the process that holds the port.
TmpIsPrivate ==
    \A c \in Companions : HasOwnPort(c) =>
        /\ phase[c] = "cleared" => tmp[port[c]] = None
        /\ phase[c] = "written" => tmp[port[c]] = c

\* A companion that ends on its own, also after a failed start, leaves no lock.
OwnExitLeavesNoLock ==
    \A c \in Companions : phase[c] \in {"exited", "failed"} /\ HasOwnPort(c) =>
        \A n \in Names : file[n] # c

\* When a companion has bound its port, every lock that was dead when it started
\* is gone, whatever other companions swept, wrote and died in the meantime.
SweepIsComplete ==
    \A c \in Companions : phase[c] \in {"bound", "serving"} =>
        \A e \in deadAtStart[c] : file[e[1]] # e[2]

\* On the path of a signal or the watchdog the port is held until the lock is gone,
\* so the guard, which removes by path, removes its own lock and no other.
AskedStopRemovesOwnLock ==
    [][\A c \in Companions : DropLock(c) /\ ~cancelled[c] /\ HasOwnPort(c)
          => file[port[c]] \in {c, None}]_vars

\* The inductive strengthening of the properties above: who holds a port when, whose
\* name a file can hold, and what a sweep has still to do.
HoldsPort(c) ==
    /\ phase[c] \in {"bound", "cleared", "written"} => IsOnItsPort(c)
    /\ phase[c] \in {"serving", "stopping"} /\ ~cancelled[c] =>
          /\ IsOnItsPort(c)
          /\ HasOwnPort(c) => file[port[c]] \in {c, None}
    /\ phase[c] \in {"absent"} \cup Starting => ~cancelled[c]
    /\ phase[c] \in {"draining", "exited"} => cancelled[c]
    /\ phase[c] \in {"absent", "sweeping"} => port[c] = None

ListenerHasBound(p, c) == listening[p] = c => Alive(c) /\ phase[c] # "sweeping"

HasWritten(c) == phase[c] \in {"written", "serving"} \cup Stopping \cup Gone

\* A companion writes its name once, so it is never in both files.
WriterHasPort(n, c) ==
    /\ c \in {file[n], tmp[n]} => port[c] = n /\ HasWritten(c)
    /\ file[n] = c => tmp[n] # c

OwnerIsPastStart(p, c) ==
    file[p] = c => phase[c] \in {"serving", "stopping", "killed"}

DeadOnesAreSwept(c) ==
    \A e \in deadAtStart[c] :
        /\ phase[e[2]] \in Gone
        /\ tmp[e[1]] # e[2]
        /\ file[e[1]] = e[2] =>
              /\ phase[c] \notin {"bound", "cleared", "written", "serving"}
              /\ phase[c] = "sweeping" => e[1] \in todo[c] \cup {doomed[c]}

PortsAndLocksAgree ==
    /\ \A c \in Companions : HoldsPort(c)
    /\ \A n \in Names, c \in Companions : WriterHasPort(n, c)
    /\ \A p \in Ports, c \in Companions : OwnerIsPastStart(p, c) /\ ListenerHasBound(p, c)
    /\ TmpIsPrivate
    /\ \A c \in Companions : DeadOnesAreSwept(c)

DirInv == TypeOK /\ PortsAndLocksAgree

-----------------------------------------------------------------------------
(* What each companion promises those who read the directory. *)

Life(c) == INSTANCE CompanionLife WITH
               life    <- CASE phase[c] = "killed"                  -> "killed"
                            [] phase[c] \in {"serving"} \cup Stopping -> "offering"
                            [] phase[c] \in {"exited", "failed"}     -> "ended"
                            [] OTHER                               -> "starting",
               offered <- \E n \in Names : file[n] = c,
               open    <- Listens(c),
               told    <- cancelled[c]

\* Whatever companions and other editors do to the ports and files they share, each
\* companion that has a port of its own lives as CompanionLife says: the lock that names
\* it is written while its port is open and never comes back once it is gone, and a
\* companion that ends by itself has first told its tasks and lost its lock, whoever
\* removed it.
ImplementsLives ==
    /\ \A c \in Companions : Life(c)!LInit
    /\ [][\A c \in Companions : HasOwnPort(c)'
             => [Life(c)!LNext]_(Life(c)!lvars)]_vars

-----------------------------------------------------------------------------
(* What the comments say of this code, and the code does not do. *)

\* "Only our own name: a stranger's lock is not ours to judge.  Only dead pids: a
\* live one belongs to another window": but the file that is removed need not be the
\* file that was judged.
SweepRemovesOnlyOurDead ==
    [][\A c \in Companions : SweepRemove(c) =>
          LET o == file[doomed[c]] IN o = None \/ DeadCompanion(o)]_vars

\* "The lock goes first" and "these two lines are the only things that unlink or
\* cancel, in that order": a port is not given up while a lock still offers it.
LockGoesFirst ==
    \A c \in Companions : phase[c] = "stopping" /\ file[port[c]] = c => Listens(c)
=============================================================================

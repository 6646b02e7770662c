--------------------------- MODULE CompanionShutdown ---------------------------
(***************************************************************************)
(* One companion process from the moment its port is bound: the main task, *)
(* which waits for a reason to stop and then takes the one shutdown path   *)
(* (server/src/main.rs, server/src/companion.rs), the accept loop          *)
(* (server/src/mcp/server.rs), the connections it has spawned, the tracker *)
(* task, the LSP thread and the parent watchdog (lsp/watchdog.rs).         *)
(*                                                                         *)
(* Tasks run on several threads, so any two of their steps interleave.     *)
(* The accept loop and the tracker are in the JoinSet that shutdown drains;*)
(* a connection is a detached task, which ends with the runtime.           *)
(***************************************************************************)
EXTENDS Naturals

CONSTANTS Clients, MaxFailures

ASSUME MaxFailuresAssumption == MaxFailures \in Nat \ {0}

VARIABLES
    main,       \* where the main task is
    lock,       \* the lock file of this process is in the directory
    cancelled,  \* the cancellation token
    accept,     \* where the accept loop is
    failures,   \* its consecutive_failures
    conn,       \* where the task, or the socket, of each client is
    tracker,    \* the tracker task runs
    lsp,        \* where the LSP thread is
    handler,    \* the signal handlers are installed
    signalled,  \* a signal was delivered to them
    parent,     \* the parent process now ...
    initial     \* ... and when the watchdog first looked

vars == <<main, lock, cancelled, accept, failures, conn, tracker, lsp, handler,
          signalled, parent, initial>>
acceptVars == <<accept, failures, conn>>
taskVars   == <<tracker, lsp>>
outside    == <<handler, signalled, parent, initial>>

MainStates == {"bound", "locked", "selecting", "stopping", "unlocked", "draining",
               "returned", "exited", "killed"}
Ended == main \in {"exited", "killed"}

TypeOK ==
    /\ main \in MainStates
    /\ lock \in BOOLEAN
    /\ cancelled \in BOOLEAN
    /\ accept \in {"none", "accepting", "backoff", "ended"}
    /\ failures \in 0..MaxFailures
    /\ conn \in [Clients -> {"away", "handshake", "serving", "left", "farewell", "dropped"}]
    /\ tracker \in BOOLEAN
    /\ lsp \in {"none", "reading", "finished"}
    /\ handler \in BOOLEAN
    /\ signalled \in BOOLEAN
    /\ parent \in {"zed", "init"}
    /\ initial \in {"unread", "zed", "init"}

Init ==
    /\ main = "bound"
    /\ lock = FALSE
    /\ cancelled = FALSE
    /\ accept = "none"
    /\ failures = 0
    /\ conn = [c \in Clients |-> "away"]
    /\ tracker = FALSE
    /\ lsp = "none"
    /\ handler = FALSE
    /\ signalled = FALSE
    /\ parent = "zed"
    /\ initial = "unread"

-----------------------------------------------------------------------------
(* The main task, up to its select *)

WriteLock ==
    /\ main = "bound"
    /\ lock' = TRUE
    /\ main' = "locked"
    /\ UNCHANGED <<cancelled, acceptVars, taskVars, outside>>

\* The tasks and the LSP thread are spawned, and the select is polled.
SpawnTasks ==
    /\ main = "locked"
    /\ main' = "selecting"
    /\ accept' = "accepting"
    /\ tracker' = TRUE
    /\ lsp' = "reading"
    /\ UNCHANGED <<lock, cancelled, failures, conn, outside>>

\* Two branches of the select do something the first time they are polled only:
\* termination_signal installs the handlers, parent_exited reads the parent's id.
InstallHandler ==
    /\ main = "selecting"
    /\ ~handler
    /\ handler' = TRUE
    /\ UNCHANGED <<main, lock, cancelled, acceptVars, taskVars, signalled, parent, initial>>

ReadParent ==
    /\ main = "selecting"
    /\ initial = "unread"
    /\ initial' = parent
    /\ UNCHANGED <<main, lock, cancelled, acceptVars, taskVars, handler, signalled, parent>>

-----------------------------------------------------------------------------
(* The reasons to stop *)

\* run_lsp's future: the LSP thread is done, and the token is cancelled.
SeeLspEnd ==
    /\ main = "selecting"
    /\ lsp = "finished"
    /\ cancelled' = TRUE
    /\ main' = "stopping"
    /\ UNCHANGED <<lock, acceptVars, taskVars, outside>>

\* Mutants of SeeOrphaned: the watchdog ends the process itself; it waits for a
\* parent that is init from the start.
OrphanExits ==
    /\ main = "selecting"
    /\ initial # "unread"
    /\ parent # initial
    /\ main' = "exited"
    /\ UNCHANGED <<lock, cancelled, acceptVars, taskVars, outside>>
OrphanOfInit ==
    /\ main = "selecting"
    /\ initial = "init"
    /\ main' = "stopping"
    /\ UNCHANGED <<lock, cancelled, acceptVars, taskVars, outside>>

SeeOrphaned ==
    /\ main = "selecting"
    /\ initial # "unread"
    /\ parent # initial
    /\ main' = "stopping"
    /\ UNCHANGED <<lock, cancelled, acceptVars, taskVars, outside>>

\* Mutant of SeeSignal: shutdown's `..` drops the cancel guard before the lock.
SignalCancels ==
    /\ main = "selecting"
    /\ signalled
    /\ cancelled' = TRUE
    /\ main' = "stopping"
    /\ UNCHANGED <<lock, acceptVars, taskVars, outside>>

SeeSignal ==
    /\ main = "selecting"
    /\ signalled
    /\ main' = "stopping"
    /\ UNCHANGED <<lock, cancelled, acceptVars, taskVars, outside>>

\* Mutant of SeeCancelled: it hears of a cancellation by run_lsp only.
StoppedIsDeaf ==
    /\ main = "selecting"
    /\ cancelled /\ lsp = "finished"
    /\ main' = "stopping"
    /\ UNCHANGED <<lock, cancelled, acceptVars, taskVars, outside>>

\* Handle::stopped.
SeeCancelled ==
    /\ main = "selecting"
    /\ cancelled
    /\ main' = "stopping"
    /\ UNCHANGED <<lock, cancelled, acceptVars, taskVars, outside>>

-----------------------------------------------------------------------------
(* Handle::shutdown, and the end of the process *)

\* The guard only warns when the file cannot be removed; permissions are left out.
DropLock ==
    /\ main = "stopping"
    /\ lock' = FALSE
    /\ main' = "unlocked"
    /\ UNCHANGED <<cancelled, acceptVars, taskVars, outside>>

CancelTasks ==
    /\ main = "unlocked"
    /\ cancelled' = TRUE
    /\ main' = "draining"
    /\ UNCHANGED <<lock, acceptVars, taskVars, outside>>

\* The JoinSet is empty ...
TasksJoined ==
    /\ main = "draining"
    /\ accept = "ended"
    /\ ~tracker
    /\ main' = "returned"
    /\ UNCHANGED <<lock, cancelled, acceptVars, taskVars, outside>>

\* ... or SHUTDOWN_GRACE is over.
GraceOver ==
    /\ main = "draining"
    /\ main' = "returned"
    /\ UNCHANGED <<lock, cancelled, acceptVars, taskVars, outside>>

\* runtime.shutdown_timeout drops every task that is left, sockets and all.
Teardown ==
    /\ main = "returned"
    /\ main' = "exited"
    /\ conn' = [c \in Clients |-> IF conn[c] \in {"handshake", "serving"} THEN "dropped"
                                  ELSE conn[c]]
    /\ accept' = "ended"
    /\ tracker' = FALSE
    /\ UNCHANGED <<lock, cancelled, failures, lsp, outside>>

-----------------------------------------------------------------------------
(* The tracker task and the LSP thread *)

TrackerEnds ==
    /\ tracker /\ cancelled /\ ~Ended
    /\ tracker' = FALSE
    /\ UNCHANGED <<main, lock, cancelled, acceptVars, lsp, outside>>

\* `exit`, or the end of the input.
LspEnds ==
    /\ lsp = "reading" /\ ~Ended
    /\ lsp' = "finished"
    /\ UNCHANGED <<main, lock, cancelled, acceptVars, tracker, outside>>

-----------------------------------------------------------------------------
(* The accept loop.  Its select is not biased: a connection may still be accepted, *)
(* or an error taken, after the token is cancelled.                                *)

Running == accept = "accepting" /\ ~Ended

AcceptClient(c) ==
    /\ Running
    /\ conn[c] = "away"
    /\ failures' = 0
    /\ conn' = [conn EXCEPT ![c] = "handshake"]
    /\ UNCHANGED <<main, lock, cancelled, accept, taskVars, outside>>

\* Mutant of AcceptFails: one failure too many.
AcceptFailsOnceMore ==
    /\ Running
    /\ failures' = failures + 1
    /\ accept' = IF failures' > MaxFailures THEN "ended" ELSE "backoff"
    /\ cancelled' = (cancelled \/ failures' > MaxFailures)
    /\ UNCHANGED <<main, lock, conn, taskVars, outside>>

\* An error of policy Backoff.  (One of policy Retry changes nothing.)
AcceptFails ==
    /\ Running
    /\ failures' = failures + 1
    /\ accept' = IF failures' >= MaxFailures THEN "ended" ELSE "backoff"
    /\ cancelled' = (cancelled \/ failures' >= MaxFailures)
    /\ UNCHANGED <<main, lock, conn, taskVars, outside>>

BackoffOver ==
    /\ accept = "backoff" /\ ~Ended
    /\ accept' = "accepting"
    /\ UNCHANGED <<main, lock, cancelled, failures, conn, taskVars, outside>>

\* Mutant of AcceptBreaks: the loop ends and nobody is told.
AcceptBreaksSilently ==
    /\ Running
    /\ accept' = "ended"
    /\ UNCHANGED <<main, lock, cancelled, failures, conn, taskVars, outside>>

\* An error of policy Fatal.
AcceptBreaks ==
    /\ Running
    /\ accept' = "ended"
    /\ cancelled' = TRUE
    /\ UNCHANGED <<main, lock, failures, conn, taskVars, outside>>

AcceptSeesCancel ==
    /\ accept \in {"accepting", "backoff"} /\ ~Ended
    /\ cancelled
    /\ accept' = "ended"
    /\ UNCHANGED <<main, lock, cancelled, failures, conn, taskVars, outside>>

-----------------------------------------------------------------------------
(* Connections.  A handshake has no time limit and does not look at the token. *)

MoveConn(c, from, to) ==
    /\ conn[c] = from /\ ~Ended
    /\ conn' = [conn EXCEPT ![c] = to]
    /\ UNCHANGED <<main, lock, cancelled, accept, failures, taskVars, outside>>

Authorize(c) == MoveConn(c, "handshake", "serving")
Refuse(c)    == MoveConn(c, "handshake", "left")
Leave(c)     == MoveConn(c, "serving", "left")

\* The close frame 1001.
GoAway(c) == cancelled /\ MoveConn(c, "serving", "farewell")

-----------------------------------------------------------------------------
(* The world outside *)

\* SIGTERM or SIGINT.  Without a handler the default action ends the process.
Signal ==
    /\ ~Ended
    /\ \/ handler /\ ~signalled /\ signalled' = TRUE /\ UNCHANGED <<main, conn>>
       \/ /\ ~handler
          /\ main' = "killed"
          /\ conn' = [c \in Clients |-> IF conn[c] \in {"handshake", "serving"}
                                        THEN "dropped" ELSE conn[c]]
          /\ UNCHANGED signalled
    /\ UNCHANGED <<lock, cancelled, accept, failures, taskVars, handler, parent, initial>>

\* Zed dies; its end of our stdin may stay open all the same.
ParentDies ==
    /\ ~Ended
    /\ parent = "zed"
    /\ parent' = "init"
    /\ UNCHANGED <<main, lock, cancelled, acceptVars, taskVars, handler, signalled, initial>>

-----------------------------------------------------------------------------
MainStep == \/ WriteLock \/ SpawnTasks \/ InstallHandler \/ ReadParent
            \/ SeeLspEnd \/ SeeOrphaned \/ SeeSignal \/ SeeCancelled
            \/ DropLock \/ CancelTasks \/ TasksJoined \/ GraceOver \/ Teardown

AcceptStep == AcceptFails \/ BackoffOver \/ AcceptBreaks \/ AcceptSeesCancel

Next == \/ MainStep \/ AcceptStep \/ TrackerEnds \/ LspEnds \/ Signal \/ ParentDies
        \/ \E c \in Clients : AcceptClient(c) \/ Authorize(c) \/ Refuse(c) \/ Leave(c)
                              \/ GoAway(c)

Spec == Init /\ [][Next]_vars

(***************************************************************************)
(* Fairness.  The runtime polls what is ready, timers fire, and a select   *)
(* with a ready branch takes one.  Nothing outside the process is fair:    *)
(* clients, errors, signals, the end of the LSP input, the parent's death. *)
(***************************************************************************)
Fairness ==
    /\ WF_vars(WriteLock) /\ WF_vars(SpawnTasks)
    /\ WF_vars(InstallHandler) /\ WF_vars(ReadParent)
    /\ WF_vars(SeeLspEnd \/ SeeOrphaned \/ SeeSignal \/ SeeCancelled)
    /\ WF_vars(DropLock) /\ WF_vars(CancelTasks)
    /\ WF_vars(TasksJoined) /\ WF_vars(GraceOver) /\ WF_vars(Teardown)
    /\ WF_vars(TrackerEnds) /\ WF_vars(BackoffOver) /\ WF_vars(AcceptSeesCancel)
    /\ \A c \in Clients : WF_vars(GoAway(c))

FairSpec == Spec /\ Fairness

-----------------------------------------------------------------------------
(* Safety *)

\* A lock that nobody has begun to withdraw offers a port that is being served, also
\* while a signal or the watchdog is being acted on: the accept loop and the tracker
\* end only when the token is cancelled.
LockMeansServing ==
    lock /\ main \in {"selecting", "stopping"} /\ ~cancelled =>
        accept # "ended" /\ tracker

\* A process that reaches the end of main has removed its lock and has told every
\* task to stop, whatever the reason it stopped for.
EndOfMainIsClean == main \in {"returned", "exited"} => ~lock /\ cancelled

\* A client that is told to go away does not find the lock again and come back: the
\* lock is removed first, unless the editor closed the LSP channel or the listener was
\* lost, where the token is cancelled before shutdown runs.
FarewellAfterWithdrawal ==
    (\E c \in Clients : conn[c] = "farewell") /\ lock => lsp = "finished" \/ accept = "ended"

\* The inductive strengthening of the three: which tasks there are at each stage of
\* the main task, who can have cancelled the token while the lock is there, and that
\* an accept loop that still runs is short of the failures it gives up at.
StagesAgree ==
    /\ main \in {"bound", "locked"} =>
          /\ ~cancelled /\ accept = "none" /\ lsp = "none"
          /\ \A c \in Clients : conn[c] = "away"
    /\ main \in {"selecting", "stopping", "unlocked"} /\ ~cancelled =>
          accept \in {"accepting", "backoff"} /\ tracker
    /\ main \in {"unlocked", "draining", "returned", "exited"} => ~lock
    /\ main \in {"draining", "returned", "exited"} => cancelled
    /\ failures < MaxFailures \/ accept = "ended"
    /\ lock /\ cancelled => lsp = "finished" \/ accept = "ended"
    /\ (\E c \in Clients : conn[c] = "farewell") => cancelled

StageInv == TypeOK /\ StagesAgree

-----------------------------------------------------------------------------
(* Liveness *)

\* Each reason to stop that the process can perceive ends it, within the grace
\* periods, also with clients that never finish their handshake.
ReasonEndsProcess ==
    (signalled \/ lsp = "finished" \/ cancelled \/ (initial = "zed" /\ parent = "init"))
        ~> Ended

-----------------------------------------------------------------------------
(* What the process promises to whoever reads the lock directory. *)

Life == INSTANCE CompanionLife WITH
            life    <- CASE main = "bound"  -> "starting"
                         [] main = "exited" -> "ended"
                         [] main = "killed" -> "killed"
                         [] OTHER           -> "offering",
            offered <- lock,
            open    <- accept # "ended" /\ ~Ended,
            told    <- cancelled

\* The order of a companion's life, whatever the reason it stops for: the lock while
\* the port is open, then the tasks are told and the lock removed, in either order,
\* and only then the end.
ImplementsLife == Life!LSpec

\* A companion whose tasks are told, for whatever reason, closes its port, withdraws
\* its lock and ends, or is killed.  So a listener that is lost for good takes the
\* lock with it: "the caller's lock file should say so".
ImplementsFairLife == Life!LFairSpec

-----------------------------------------------------------------------------
(* What a comment says of this code, and the code does not do. *)

\* "cancelling the parent closes every client with a 1001 (going away) frame rather
\* than a dropped socket": nothing waits for the connections.
ClientsGetFarewell ==
    [][\A c \in Clients : main = "returned" /\ main' = "exited" => conn[c] # "serving"]_vars
=============================================================================

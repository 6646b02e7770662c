------------------------------- MODULE Discovery -------------------------------
(***************************************************************************)
(* A client of the lock directory: lock_for and the dial that follows it    *)
(* (server/src/discovery.rs, server/src/main.rs, server/src/at_mention.rs), *)
(* run once beside the companions of LockDirectory, which start, stop, are  *)
(* killed and are replaced on their ports between any two of its steps.     *)
(*                                                                         *)
(* Which companions' folders contain the helper's path is not fixed: any    *)
(* candidate may be the one that covers it, so the order of the candidates, *)
(* newest file first, plays no part.                                        *)
(***************************************************************************)
EXTENDS LockDirectory

VARIABLES
    scan,     \* where the helper is
    unread,   \* the directory entries it has still to read
    seen,     \* seen[n]: our companion that <n>.lock named when it was read
    pick,     \* the number of the lock it chose
    steady    \* history: who has served, with its lock in place, since the listing

scanVars == <<scan, unread, seen, pick, steady>>
allVars  == <<vars, scanVars>>

Outcomes == {"reached", "refused", "rejected", "notfound"}

ScanTypes ==
    /\ scan \in {"idle", "reading", "chosen"} \cup Outcomes
    /\ unread \subseteq Names
    /\ seen \in [Names -> Companions \cup {None}]
    /\ pick \in Names \cup {None}
    /\ steady \subseteq Companions
    /\ scan = "chosen" => seen[pick] # None

NoScan ==
    /\ scan = "idle"
    /\ unread = {}
    /\ seen = [n \in Names |-> None]
    /\ pick = None
    /\ steady = {}

\* The companions a client must be able to find.
Advertised == {c \in Companions : Serving(c) /\ file[port[c]] = c}

\* The next helper is run when the last one has ended.  all_locks: read_dir ...
ListLocks ==
    /\ scan \in {"idle"} \cup Outcomes
    /\ scan' = "reading"
    /\ unread' = {n \in Names : file[n] # None}
    /\ steady' = Advertised
    /\ UNCHANGED <<vars, seen, pick>>

\* Mutant of ReadLock: the first lock is the only one read.
ReadOneLock(n) ==
    /\ scan = "reading"
    /\ n \in unread
    /\ unread' = {}
    /\ seen' = [seen EXCEPT ![n] = IF file[n] \in Companions THEN file[n] ELSE None]
    /\ UNCHANGED <<vars, scan, pick, steady>>

\* ... then each file, which may have gone or been replaced.  What another editor
\* wrote is passed over by its ide name.
ReadLock(n) ==
    /\ scan = "reading"
    /\ n \in unread
    /\ unread' = unread \ {n}
    /\ seen' = [seen EXCEPT ![n] = IF file[n] \in Companions THEN file[n] ELSE None]
    /\ UNCHANGED <<vars, scan, pick, steady>>

\* lock_for: ours, alive, and its folder contains the path.
Candidates == {n \in Names : seen[n] # None /\ Alive(seen[n])}

Choose(n) ==
    /\ scan = "reading"
    /\ unread = {}
    /\ n \in Candidates
    /\ scan' = "chosen"
    /\ pick' = n
    /\ UNCHANGED <<vars, unread, seen, steady>>

\* With either outcome the process ends, and what it had read with it.
HelperEnds ==
    /\ seen' = [n \in Names |-> None]
    /\ pick' = None
    /\ steady' = {}
    /\ UNCHANGED <<vars, unread>>

\* Whatever it found, no candidate covers the path.
NotFound ==
    /\ scan = "reading"
    /\ unread = {}
    /\ scan' = "notfound"
    /\ HelperEnds

\* connect_async, with the token of the lock: refused, as port 0 always is, the companion
\* that wrote the lock, or whoever holds its port now, to whom the token means nothing.
Dial ==
    /\ scan = "chosen"
    /\ scan' = CASE pick = Zero \/ listening[pick] = None -> "refused"
                 [] listening[pick] = seen[pick] -> "reached"
                 [] OTHER -> "rejected"
    /\ HelperEnds

Scan == \/ ListLocks \/ NotFound \/ Dial
        \/ \E n \in Names : ReadLock(n) \/ Choose(n)

\* A step of the others; whoever stops serving or loses its lock is steady no more.
Others ==
    /\ Next
    /\ steady' = steady \cap Advertised'
    /\ UNCHANGED <<scan, unread, seen, pick>>

ScanInit == Init /\ NoScan

ScanSpec == ScanInit /\ [][Scan \/ Others]_allVars

-----------------------------------------------------------------------------
(* Safety *)

\* A lock that was read stays true for as long as its companion serves, however long
\* ago it was read: the dial can miss only a companion that has begun to stop, or was
\* killed, and never one that serves on another port or lost its port to someone.  A
\* lock that says 0 leads nowhere, before it is read and after.
SeenLocksStayTrue ==
    \A n \in Names : seen[n] # None /\ Serving(seen[n])
        => port[seen[n]] = n /\ IsOnItsPort(seen[n])

\* The search finds every companion that has kept its lock since the listing, also
\* while others start, sweep, rename and die on the ports beside it: "no running
\* companion covers" is never said of one of these.
SteadyAreFound ==
    unread = {} => \A c \in steady : port[c] \in Candidates /\ seen[port[c]] = c

\* The inductive strengthening of the two: what was read names a companion by the
\* number it keeps for life, and what is still to read is in the directory.
SeenIsPast ==
    \A n \in Names, c \in Companions : seen[n] = c => port[c] = n /\ HasWritten(c)

SteadyIsListed ==
    \A c \in steady :
        /\ scan \in {"reading", "chosen"}
        /\ c \in Advertised
        /\ port[c] \in unread \/ seen[port[c]] = c

ScanInv == SeenIsPast /\ SteadyIsListed
=============================================================================

----------------------------- MODULE SelectionBus -----------------------------
(***************************************************************************)
(* The live path of the companion: the selections the editor reports, the  *)
(* tracker task that debounces them, the bus that fans them out, and one   *)
(* task per connected CLI that replays the current selection and forwards  *)
(* events (server/src/selection.rs, server/src/mcp/connection.rs).         *)
(*                                                                         *)
(* `events` is everything ever stored in the tokio broadcast channel; the  *)
(* channel itself retains the last RingSize of them.  A receiver is a      *)
(* cursor, the position of the next event it will take, so what a slow     *)
(* client still has to read is events[cursor .. Len(events)] and what it   *)
(* can still read is the part of that in Retained.                         *)
(*                                                                         *)
(* `latest` and `events` are two separately locked objects, so the two     *)
(* writes of publish_selection are two steps (Record, Send), and the read  *)
(* and the publication of an at-mention are two steps as well.             *)
(***************************************************************************)
EXTENDS Integers, Sequences, FiniteSets

CONSTANTS
    Selections,   \* values of Selection (path, range and text): compared by Eq
    Mentions,     \* values of Mention (path and lines)
    MentionOf,    \* Mention::of, which forgets the text and the columns
    None,         \* no selection yet
    Conns,        \* connections, each accepted once
    RingSize,     \* event_capacity, as tokio rounds it up
    MaxReports,   \* bound: selections the editor reports
    MaxMentions   \* bound: at-mention requests the clients send

ASSUME RingAssumption    == RingSize \in Nat \ {0}
ASSUME NoneAssumption    == None \notin Selections /\ None \notin Mentions
ASSUME MentionAssumption == MentionOf \in [Selections -> Mentions]
ASSUME BoundAssumption   == MaxReports \in Nat /\ MaxMentions \in Nat

VARIABLES
    input,      \* the tracker's watch channel: the last selection reported
    changed,    \* it holds a value the tracker task has not marked seen
    tracker,    \* where the tracker task is
    lastSent,   \* the tracker task's last_sent
    latest,     \* EventBus.latest
    events,     \* every event stored in EventBus.events
    phase,      \* where each connection's task is
    cursor,     \* its broadcast receiver: position of the next event
    shown,      \* the selection its client was last told about
    held,       \* the mention it is about to publish
    cancelled,  \* the companion's cancellation token
    reports, mentions   \* how much of the two bounds is used

trackerVars == <<input, changed, tracker, lastSent>>
connVars    == <<phase, cursor, shown, held>>
vars == <<input, changed, tracker, lastSent, latest, events, phase, cursor,
          shown, held, cancelled, reports, mentions>>

Event == [kind : {"selection"}, of : Selections]
           \cup [kind : {"mention"}, of : Mentions]

SelectionChanged(s) == [kind |-> "selection", of |-> s]
AtMentioned(m)      == [kind |-> "mention", of |-> m]

TrackerStates == {"waiting", "settling", "record", "send", "stopped"}
Phases == {"absent", "authorized", "subscribed", "serving", "mentioning", "closed"}

Attached(c) == phase[c] \in {"subscribed", "serving", "mentioning"}
Receivers   == {c \in Conns : Attached(c)}

\* Position of the oldest event the broadcast ring still holds.
Oldest   == IF Len(events) < RingSize THEN 1 ELSE Len(events) - RingSize + 1
Retained == Oldest .. Len(events)

\* broadcast::Sender::send: with no receiver the event is not stored at all.
Broadcast(e) == events' = IF Receivers = {} THEN events ELSE Append(events, e)

TypeOK ==
    /\ input \in Selections \cup {None}
    /\ changed \in BOOLEAN
    /\ tracker \in TrackerStates
    /\ lastSent \in Selections \cup {None}
    /\ tracker \in {"record", "send"} => lastSent # None
    /\ latest \in Selections \cup {None}
    /\ events \in Seq(Event)
    /\ phase \in [Conns -> Phases]
    /\ cursor \in [Conns -> Nat \ {0}]
    /\ \A c \in Conns : cursor[c] <= Len(events) + 1
    /\ shown \in [Conns -> Selections \cup {None}]
    /\ held \in [Conns -> Mentions \cup {None}]
    /\ \A c \in Conns : phase[c] = "mentioning" => held[c] # None
    /\ cancelled \in BOOLEAN
    /\ reports \in 0..MaxReports
    /\ mentions \in 0..MaxMentions

Init ==
    /\ input = None
    /\ changed = FALSE
    /\ tracker = "waiting"
    /\ lastSent = None
    /\ latest = None
    /\ events = <<>>
    /\ phase = [c \in Conns |-> "absent"]
    /\ cursor = [c \in Conns |-> 1]
    /\ shown = [c \in Conns |-> None]
    /\ held = [c \in Conns |-> None]
    /\ cancelled = FALSE
    /\ reports = 0
    /\ mentions = 0

-----------------------------------------------------------------------------
(* The editor side *)

\* SelectionTracker::update.  An equal value is a change like any other.
Report(s) ==
    /\ reports < MaxReports
    /\ reports' = reports + 1
    /\ input' = s
    /\ changed' = TRUE
    /\ UNCHANGED <<tracker, lastSent, latest, events, connVars, cancelled, mentions>>

-----------------------------------------------------------------------------
(* The tracker task *)

\* The first changed().await of a round returns, and marks the value seen.
Wake ==
    /\ tracker = "waiting"
    /\ changed
    /\ changed' = FALSE
    /\ tracker' = "settling"
    /\ UNCHANGED <<input, lastSent, latest, events, connVars, cancelled, reports, mentions>>

\* Mutant of Restart: a further report ends the round, and with it the settling.
RestartForgets ==
    /\ tracker = "settling"
    /\ changed
    /\ changed' = FALSE
    /\ tracker' = "waiting"
    /\ UNCHANGED <<input, lastSent, latest, events, connVars, cancelled, reports, mentions>>

\* A further report while settling restarts the debounce timer.
Restart ==
    /\ tracker = "settling"
    /\ changed
    /\ changed' = FALSE
    /\ UNCHANGED <<input, tracker, lastSent, latest, events, connVars, cancelled,
                   reports, mentions>>

\* Mutant of Settle: what was already sent is sent again.
SettleRepeats ==
    /\ tracker = "settling"
    /\ changed' = FALSE
    /\ lastSent' = input
    /\ tracker' = "record"
    /\ UNCHANGED <<input, latest, events, connVars, cancelled, reports, mentions>>

\* The debounce elapses.  borrow_and_update takes the newest report, also one
\* that arrived as the timer fired; what was already sent is dropped here.
Settle ==
    /\ tracker = "settling"
    /\ changed' = FALSE
    /\ \/ /\ input \in {None, lastSent}
          /\ tracker' = "waiting"
          /\ UNCHANGED lastSent
       \/ /\ input \notin {None, lastSent}
          /\ lastSent' = input
          /\ tracker' = "record"
    /\ UNCHANGED <<input, latest, events, connVars, cancelled, reports, mentions>>

\* publish_selection, first write: latest.send_replace.
Record ==
    /\ tracker = "record"
    /\ latest' = lastSent
    /\ tracker' = "send"
    /\ UNCHANGED <<input, changed, lastSent, events, connVars, cancelled, reports, mentions>>

\* publish_selection, second write: events.send.
Send ==
    /\ tracker = "send"
    /\ Broadcast(SelectionChanged(lastSent))
    /\ tracker' = "waiting"
    /\ UNCHANGED <<input, changed, lastSent, latest, connVars, cancelled, reports, mentions>>

\* The select around the task drops it, at one of its two awaits.
StopTracker ==
    /\ cancelled
    /\ tracker \in {"waiting", "settling"}
    /\ tracker' = "stopped"
    /\ UNCHANGED <<input, changed, lastSent, latest, events, connVars, cancelled,
                   reports, mentions>>

-----------------------------------------------------------------------------
(* The connections *)

\* The handshake completes and the token is right.
Connect(c) ==
    /\ phase[c] = "absent"
    /\ phase' = [phase EXCEPT ![c] = "authorized"]
    /\ UNCHANGED <<trackerVars, latest, events, cursor, shown, held, cancelled,
                   reports, mentions>>

\* The handshake fails, or the token is missing or wrong: closed (1008) before
\* the connection has touched the bus.
Reject(c) ==
    /\ phase[c] = "absent"
    /\ phase' = [phase EXCEPT ![c] = "closed"]
    /\ UNCHANGED <<trackerVars, latest, events, cursor, shown, held, cancelled,
                   reports, mentions>>

\* bus.subscribe(): the receiver starts behind the newest event.
Subscribe(c) ==
    /\ phase[c] = "authorized"
    /\ cursor' = [cursor EXCEPT ![c] = Len(events) + 1]
    /\ phase' = [phase EXCEPT ![c] = "subscribed"]
    /\ UNCHANGED <<trackerVars, latest, events, shown, held, cancelled, reports, mentions>>

\* Mutant of ReadLatest: no replay.
NoReplay(c) ==
    /\ phase[c] = "subscribed"
    /\ phase' = [phase EXCEPT ![c] = "serving"]
    /\ UNCHANGED <<trackerVars, latest, events, cursor, shown, held, cancelled, reports,
                   mentions>>

\* bus.latest(), and the replay of what it returned.
ReadLatest(c) ==
    /\ phase[c] = "subscribed"
    /\ shown' = [shown EXCEPT ![c] = latest]
    /\ phase' = [phase EXCEPT ![c] = "serving"]
    /\ UNCHANGED <<trackerVars, latest, events, cursor, held, cancelled, reports, mentions>>

\* recv() returns an event, which is forwarded to the client.
Forward(c) ==
    /\ phase[c] = "serving"
    /\ cursor[c] \in Retained
    /\ cursor' = [cursor EXCEPT ![c] = @ + 1]
    /\ shown' = [shown EXCEPT ![c] = IF events[cursor[c]].kind = "selection"
                                     THEN events[cursor[c]].of ELSE @]
    /\ UNCHANGED <<trackerVars, latest, events, phase, held, cancelled, reports, mentions>>

\* Mutants of Lag: subscribe anew; miss one event more; stay where one is.
LagTo(c, i) ==
    /\ phase[c] = "serving"
    /\ cursor[c] < Oldest
    /\ cursor' = [cursor EXCEPT ![c] = i]
    /\ UNCHANGED <<trackerVars, latest, events, phase, shown, held, cancelled,
                   reports, mentions>>
LagResubscribes(c) == LagTo(c, Len(events) + 1)
LagOneTooFar(c)    == LagTo(c, Oldest + 1)
LagStays(c)        == LagTo(c, cursor[c])

\* recv() returns Lagged: the cursor jumps to the oldest retained event.
Lag(c) ==
    /\ phase[c] = "serving"
    /\ cursor[c] < Oldest
    /\ cursor' = [cursor EXCEPT ![c] = Oldest]
    /\ UNCHANGED <<trackerVars, latest, events, phase, shown, held, cancelled,
                   reports, mentions>>

\* An at_mention_request arrives: handle_at_mention_request reads `latest`, and
\* gives up when there is none.
MentionRequest(c) ==
    /\ phase[c] = "serving"
    /\ mentions < MaxMentions
    /\ mentions' = mentions + 1
    /\ \/ /\ latest = None
          /\ UNCHANGED <<phase, held>>
       \/ /\ latest # None
          /\ held' = [held EXCEPT ![c] = MentionOf[latest]]
          /\ phase' = [phase EXCEPT ![c] = "mentioning"]
    /\ UNCHANGED <<trackerVars, latest, events, cursor, shown, cancelled, reports>>

\* ... and publishes the mention to every connection, its own included.
PublishMention(c) ==
    /\ phase[c] = "mentioning"
    /\ Broadcast(AtMentioned(held[c]))
    /\ held' = [held EXCEPT ![c] = None]
    /\ phase' = [phase EXCEPT ![c] = "serving"]
    /\ UNCHANGED <<trackerVars, latest, cursor, shown, cancelled, reports, mentions>>

\* The client leaves, its socket fails, or a frame cannot be sent to it: the task
\* ends and its receiver is dropped.
HangUp(c) ==
    /\ phase[c] = "serving"
    /\ phase' = [phase EXCEPT ![c] = "closed"]
    /\ UNCHANGED <<trackerVars, latest, events, cursor, shown, held, cancelled,
                   reports, mentions>>

\* The task sees the cancelled token in its select: 1001, and it ends.
GoAway(c) ==
    /\ cancelled
    /\ phase[c] = "serving"
    /\ phase' = [phase EXCEPT ![c] = "closed"]
    /\ UNCHANGED <<trackerVars, latest, events, cursor, shown, held, cancelled,
                   reports, mentions>>

Cancel ==
    /\ ~cancelled
    /\ cancelled' = TRUE
    /\ UNCHANGED <<trackerVars, latest, events, connVars, reports, mentions>>

-----------------------------------------------------------------------------
TrackerStep == Wake \/ Restart \/ Settle \/ Record \/ Send \/ StopTracker

ConnStep(c) ==
    \/ Connect(c) \/ Reject(c) \/ Subscribe(c) \/ ReadLatest(c)
    \/ Forward(c) \/ Lag(c) \/ MentionRequest(c) \/ PublishMention(c)
    \/ HangUp(c) \/ GoAway(c)

Next ==
    \/ \E s \in Selections : Report(s)
    \/ TrackerStep
    \/ \E c \in Conns : ConnStep(c)
    \/ Cancel

Spec == Init /\ [][Next]_vars

(***************************************************************************)
(* Fairness.  Tasks are polled by the runtime until they block, so a step  *)
(* that stays possible is taken.  The editor, the arrival of clients and   *)
(* the cancellation owe nothing.  Fairness of Settle is where the bound on *)
(* reports counts: a user who never stops moving the cursor restarts the   *)
(* timer for ever.  Fairness of Forward and Lag says the client reads its  *)
(* socket; one that does not is a client that has hung up.                 *)
(***************************************************************************)
Fairness ==
    /\ WF_vars(Wake) /\ WF_vars(Settle) /\ WF_vars(Record) /\ WF_vars(Send)
    /\ \A c \in Conns : /\ WF_vars(Subscribe(c))
                        /\ WF_vars(ReadLatest(c))
                        /\ WF_vars(Forward(c) \/ Lag(c))
                        /\ WF_vars(PublishMention(c))
                        /\ WF_vars(GoAway(c))

FairSpec == Spec /\ Fairness

-----------------------------------------------------------------------------
(* Safety *)

\* Positions of the selections c has still to take, retained or not.
Pending(c) == {i \in cursor[c]..Len(events) : events[i].kind = "selection"}

\* The ring is full and holds mentions only: whatever selection was sent last
\* has been pushed out of it.
MentionFlood ==
    /\ Len(events) >= RingSize
    /\ \A i \in Retained : events[i].kind # "selection"

InSync(c) == phase[c] \in {"serving", "mentioning"} /\ cursor[c] = Len(events) + 1

\* Every client that has worked off its events was last told about the newest
\* selection, whichever way it subscribed, replayed, fell behind and caught up:
\* the reason connection.rs subscribes before it reads `latest`, and lets a
\* lagging receiver go on from the oldest retained event.  The two exceptions are
\* the code's own: `latest` is written before the event is sent, and mentions
\* share the ring with selections.
NewestSelectionNotMissed ==
    \A c \in Conns :
        InSync(c) /\ tracker # "send" /\ ~MentionFlood => shown[c] = latest

\* What a client has still to read ends in the newest selection: the tracker and
\* the connections agree on it although they share no lock.
PendingEndsInLatest(c) ==
    Pending(c) # {} =>
        \E i \in Pending(c) : /\ events[i].of = latest
                              /\ \A j \in Pending(c) : j <= i

\* With nothing left to read and no flood, the replay or the stream showed it.
ShownWhenNothingPending(c) ==
    Pending(c) = {} /\ phase[c] # "subscribed" /\ ~MentionFlood => shown[c] = latest

\* The tracker's private last_sent and the bus's latest differ only between the
\* two steps that set them, so de-duplicating against the one never withholds a
\* change of the other, and nothing is published twice in a row.
LastSentAgrees == (lastSent = latest) <=> (tracker # "record")

\* The inductive strengthening of NewestSelectionNotMissed.
NewestIsPending ==
    /\ LastSentAgrees
    /\ tracker # "send" =>
          \A c \in Receivers : PendingEndsInLatest(c) /\ ShownWhenNothingPending(c)

ReplayInv == TypeOK /\ NewestIsPending

\* Two publications in a row never carry the same selection (the tracker drops
\* what every client already has), and none carries "nothing".
PublicationsAlternate ==
    [][tracker = "record" /\ tracker' = "send" => latest' # latest /\ latest' # None]_vars

-----------------------------------------------------------------------------
(* Liveness *)

\* A selection the editor rests on is published, unless the companion is told to
\* stop first: the debounce delays it and never loses it.
SettledSelectionIsPublished ==
    \A s \in Selections : input = s ~> (latest = s \/ input # s \/ cancelled)

\* ... and every client that stays connected is told about it, or a flood of
\* mentions has pushed it out of the ring.
ClientsConverge ==
    \A c \in Conns, s \in Selections :
        (phase[c] = "serving" /\ latest = s)
            ~> (shown[c] = s \/ latest # s \/ phase[c] = "closed" \/ MentionFlood)

-----------------------------------------------------------------------------
(* What a comment says of this path, and the code does not do. *)

\* "only the newest selection matters, so that is harmless" (falling behind):
\* mentions ride in the same ring, and enough of them push the newest selection
\* out of it before a slow client has read it.
NewestSurvivesLag ==
    \A c \in Conns : InSync(c) /\ tracker # "send" => shown[c] = latest

-----------------------------------------------------------------------------
(* The bus implements one lossy queue per client. *)

Backlog(c) == IF Attached(c) THEN SubSeq(events, cursor[c], Len(events)) ELSE <<>>

FanOut == INSTANCE LossyFanOut WITH
              Clients  <- Conns,
              Events   <- Event,
              Window   <- RingSize,
              attached <- Receivers,
              queue    <- [c \in Conns |-> Backlog(c)]

\* The shared ring and its cursors lose an event only to a client more than
\* RingSize behind, and then only its oldest: each client sees its own queue.
ImplementsFanOut == FanOut!QSpec

\* A client that stays attached is also handed everything it has not lost.
ImplementsFairFanOut == FanOut!QFairSpec
=============================================================================

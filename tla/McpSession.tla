------------------------------ MODULE McpSession ------------------------------
(***************************************************************************)
(* The conversations over the companion's WebSocket: the connection task   *)
(* that answers JSON-RPC and pushes events (server/src/mcp/connection.rs), *)
(* the dispatcher behind it (server/src/mcp/protocol.rs), and the helper   *)
(* that a Zed task runs to mention the selection (server/src/at_mention.rs).*)
(*                                                                         *)
(* A task has one frame in hand at a time, and while it waits for room to  *)
(* send it, it neither reads, nor takes an event, nor sees a cancellation. *)
(* The event bus is LossyFanOut, which SelectionBus implements; here it    *)
(* carries selections and the mention that the helper asks for.            *)
(***************************************************************************)
EXTENDS Naturals, Sequences

CONSTANTS
    Clis, Helper,    \* the clients: claude, and the helper of the hotkey
    Window,          \* events the bus keeps for a connection that lags
    Room,            \* frames the network takes in either direction that are not read
    MaxMessages,     \* bounds: messages of a client,
    MaxSelections    \*         selections published

ASSUME ClientsAssumption == Helper \notin Clis
ASSUME RoomAssumption    == {Window, Room} \subseteq Nat \ {0}
ASSUME BoundsAssumption  == {MaxMessages, MaxSelections} \subseteq Nat

VARIABLES
    phase,       \* where each client's task is: "absent", "serving", "closing", "closed"
    here,        \* the clients that have not hung up
    attached, queue,   \* the bus
    inbox,       \* messages of each client that its task has not read
    held,        \* the frame the task is sending, if any
    unread,      \* how many frames each client has not read
    known,       \* whether there is a selection: EventBus::latest
    cancelled,   \* the companion is shutting down
    selections,  \* how much of that bound is used
    said,        \* how many messages each client has sent
    answers,     \* history: the ids of the answers that went out
    owed,        \* history: the ids that each client still waits for
    edits,       \* history: those of them that ask for an edit
    fate         \* history: what became of the helper's request

busVars  == <<attached, queue>>
sideVars == <<known, cancelled, selections>>
vars == <<phase, here, busVars, inbox, held, unread, sideVars, said, answers, owed, edits, fate>>

Clients == Clis \cup {Helper}

Events == {"selection", "mention"}

Bus == INSTANCE LossyFanOut

-----------------------------------------------------------------------------
(* Messages and frames *)

NoId == 0                  \* none, or an explicit null
Null == MaxMessages + 1    \* the null that answers what has no id to be read
Ids  == 1..Null

Msg(form, id, method, name) == [form |-> form, id |-> id, method |-> method, name |-> name]

\* Methods that nothing can go wrong with: initialize, tools/list, logging/setLevel and
\* prompts/list.  A call without a name may be one without params.
Calls == {<<"plain", "none">>, <<"other", "none">>, <<"at_mention_request", "none">>,
          <<"tools/call", "none">>, <<"tools/call", "getDiagnostics">>, <<"tools/call", "openDiff">>,
          <<"prompts/get", "none">>, <<"prompts/get", "some">>}

\* Text that is not JSON, JSON that is no request, a request or notification, a frame that
\* is not text, and one that breaks the WebSocket protocol.
Inputs(id) ==
    {Msg("call", id, call[1], call[2]) : call \in Calls}
        \cup {Msg("call", NoId, "other", "none")}
        \cup {Msg("malformed", i, "none", "none") : i \in {NoId, id}}
        \cup {Msg("garbage", Null, "none", "none"), Msg("binary", NoId, "none", "none"), Msg("broken", NoId, "none", "none")}

Frame(id, what) == [id |-> id, what |-> what]

Bye      == Frame(NoId, "bye")
Replay   == Frame(NoId, "replay")

Verdicts == {"done", "refused", "bad params", "internal", "not found", "parse", "invalid"}

Messages ==
    {m \in [form : {"call", "malformed", "garbage", "binary", "broken"}, id : 0..Null,
            method : {"none", "plain", "other", "at_mention_request", "tools/call", "prompts/get"},
            name : {"none", "getDiagnostics", "openDiff", "some"}] :
        m.form \in {"binary", "broken"} => m.id = NoId}

Frames == [id : 0..Null, what : Verdicts \cup Events \cup {"bye", "replay"}]

TypeOK ==
    /\ phase \in [Clients -> {"absent", "serving", "closing", "closed"}]
    /\ here \subseteq Clients
    /\ Bus!QTypeOK /\ attached = {c \in Clients : phase[c] = "serving"}
    /\ inbox \in [Clients -> Seq(Messages)] /\ \A c \in Clients : Len(inbox[c]) <= Room
    /\ held \in [Clients -> {<<>>} \cup {<<f>> : f \in Frames}]
    /\ unread \in [Clients -> 0..Room]
    /\ known \in BOOLEAN /\ cancelled \in BOOLEAN
    /\ selections \in 0..MaxSelections /\ said \in [Clients -> 0..MaxMessages]
    /\ answers \in [Clients -> Seq(Ids)] /\ owed \in [Clients -> Seq(Ids)]
    /\ edits \in [Clients -> SUBSET Ids]
    /\ fate \in {"none", "sent", "lost", "nothing", "unheard", "published", "skipped", "shown"}

Init ==
    /\ phase = [c \in Clients |-> "absent"]
    /\ here = {}
    /\ Bus!QInit
    /\ inbox = [c \in Clients |-> <<>>] /\ held = [c \in Clients |-> <<>>]
    /\ unread = [c \in Clients |-> 0]
    /\ known = FALSE /\ cancelled = FALSE /\ selections = 0
    /\ said = [c \in Clients |-> 0]
    /\ answers = [c \in Clients |-> <<>>]
    /\ owed = [c \in Clients |-> <<>>]
    /\ edits = [c \in Clients |-> {}]
    /\ fate = "none"

-----------------------------------------------------------------------------
(* The dispatcher *)

\* Mutant of dispatch_tool: the refusal is not flagged.
Unflagged(name) == "done"

dispatch_tool(name) == IF name = "getDiagnostics" THEN "done" ELSE "refused"

handle_tools_call(name) == IF name = "none" THEN "bad params" ELSE dispatch_tool(name)

handle_prompts_get(name) == IF name = "none" THEN "internal" ELSE "done"

handle_request(m) ==
    CASE m.method = "plain"       -> "done"
      [] m.method = "tools/call"  -> handle_tools_call(m.name)
      [] m.method = "prompts/get" -> handle_prompts_get(m.name)
      [] OTHER                    -> "not found"

verdict(m) ==
    CASE m.form = "garbage"   -> "parse"
      [] m.form = "malformed" -> "invalid"
      [] m.form = "call"      -> handle_request(m)

\* Mutant of Reply: `ide_connected` is not known for a notification.
AnswersNotifications(m) ==
    IF m.id # NoId THEN <<Frame(m.id, verdict(m))>>
    ELSE IF m.method = "other" THEN <<Frame(Null, verdict(m))>> ELSE <<>>

\* A message with an id, or one whose id cannot be told, is answered; no other is.
Reply(m) == IF m.id # NoId THEN <<Frame(m.id, verdict(m))>> ELSE <<>>

-----------------------------------------------------------------------------
(* The connection task *)

\* The handshake is done, maybe after the listener is gone.  Subscribe, then replay.
Connect(c) ==
    /\ phase[c] = "absent"
    /\ phase' = [phase EXCEPT ![c] = "serving"]
    /\ here' = here \cup {c}
    /\ Bus!Attach(c)
    /\ held' = [held EXCEPT ![c] = IF known THEN <<Replay>> ELSE <<>>]
    /\ UNCHANGED <<inbox, unread, sideVars, said, answers, owed, edits, fate>>

Ready(c) == phase[c] = "serving" /\ held[c] = <<>>

Hold(c, frames) == held' = [held EXCEPT ![c] = frames]

IsMention(m) == m.form = "call" /\ m.id = NoId /\ m.method = "at_mention_request"

Reads(c) ==
    /\ Ready(c) /\ inbox[c] # <<>>
    /\ inbox' = [inbox EXCEPT ![c] = Tail(@)]

\* Any message but the two below.
HandleMessage(c) ==
    /\ Reads(c)
    /\ LET m == Head(inbox[c])
       IN  ~IsMention(m) /\ m.form # "broken" /\ Hold(c, Reply(m))
    /\ UNCHANGED <<phase, here, busVars, unread, sideVars, said, answers, owed, edits, fate>>

\* Mutant of HandleMention: a notification is a notification.
IgnoreMention(c) ==
    /\ Reads(c)
    /\ IsMention(Head(inbox[c]))
    /\ UNCHANGED <<phase, here, busVars, held, unread, sideVars, said, answers, owed, edits, fate>>

\* handle_at_mention_request
HandleMention(c) ==
    /\ Reads(c)
    /\ IsMention(Head(inbox[c]))
    /\ IF known THEN Bus!Publish("mention") ELSE UNCHANGED busVars
    /\ fate' = IF ~known THEN "nothing" ELSE IF attached \cap Clis = {} THEN "unheard" ELSE "published"
    /\ UNCHANGED <<phase, here, held, unread, sideVars, said, answers, owed, edits>>

Forward(c) ==
    /\ Ready(c)
    /\ Bus!Deliver(c)
    /\ Hold(c, <<Frame(NoId, Head(queue[c]))>>)
    /\ UNCHANGED <<phase, here, inbox, unread, sideVars, said, answers, owed, edits, fate>>

\* Mutant of Over: the receiver outlives the task.
OverSubscribed(c, to, frames) ==
    /\ phase' = [phase EXCEPT ![c] = to]
    /\ UNCHANGED busVars
    /\ inbox' = [inbox EXCEPT ![c] = <<>>]
    /\ owed' = [owed EXCEPT ![c] = <<>>]
    /\ edits' = [edits EXCEPT ![c] = {}]
    /\ Hold(c, frames)
    /\ fate' = IF c = Helper /\ inbox[c] # <<>> THEN "lost" ELSE fate
    /\ UNCHANGED <<sideVars, said, answers>>

\* The task of c stops serving; what it has not read is lost.
Over(c, to, frames) ==
    /\ phase' = [phase EXCEPT ![c] = to]
    /\ IF c \in attached THEN Bus!Detach(c) ELSE UNCHANGED busVars
    /\ inbox' = [inbox EXCEPT ![c] = <<>>]
    /\ owed' = [owed EXCEPT ![c] = <<>>]
    /\ edits' = [edits EXCEPT ![c] = {}]
    /\ Hold(c, frames)
    /\ fate' = IF c = Helper /\ inbox[c] # <<>> THEN "lost" ELSE fate
    /\ UNCHANGED <<sideVars, said, answers>>

\* It returns or is aborted, and the connection is closed.
Ends(c) ==
    /\ Over(c, "closed", <<>>)
    /\ here' = here \ {c}
    /\ unread' = [unread EXCEPT ![c] = 0]

\* Mutant of Lag: it is an error like any other.
LagCloses(c) ==
    /\ Ready(c)
    /\ Len(queue[c]) > Window
    /\ Ends(c)

InQueue(e, q) == \E i \in DOMAIN q : q[i] = e

\* RecvError::Lagged: the task goes on with the oldest event kept.
Lag(c) ==
    /\ Ready(c)
    /\ Bus!Overflow(c)
    /\ fate' = IF fate = "published" /\ c \in Clis /\ ~InQueue("mention", queue'[c])
               THEN "skipped" ELSE fate
    /\ UNCHANGED <<phase, here, inbox, held, unread, sideVars, said, answers, owed, edits>>

\* There is room for the frame, whether or not the client still reads.
SendFrame(c) ==
    /\ held[c] # <<>> /\ held[c] # <<Bye>> /\ unread[c] < Room
    /\ LET f == Head(held[c])
       IN  /\ answers' = [answers EXCEPT ![c] = IF f.id = NoId THEN @ ELSE Append(@, f.id)]
           /\ owed' = [owed EXCEPT ![c] = IF f.id = NoId \/ @ = <<>> THEN @ ELSE Tail(@)]
           /\ edits' = [edits EXCEPT ![c] = @ \ {f.id}]
           /\ fate' = IF fate = "published" /\ c \in Clis /\ f = Frame(NoId, "mention")
                      THEN "shown" ELSE fate
    /\ Hold(c, <<>>)
    /\ unread' = [unread EXCEPT ![c] = @ + 1]
    /\ UNCHANGED <<phase, here, busVars, inbox, sideVars, said>>

SendBye(c) ==
    /\ held[c] = <<Bye>> /\ unread[c] < Room
    /\ Ends(c)

\* The client is gone.  A replay that fails is not looked at: the next read will tell.
SendFails(c) ==
    /\ held[c] # <<>> /\ c \notin here
    /\ IF held[c] = <<Replay>>
       THEN /\ Hold(c, <<>>)
            /\ UNCHANGED <<phase, here, busVars, inbox, unread, sideVars, said, answers, owed, edits, fate>>
       ELSE Ends(c)

\* The stream of the client ends or breaks, at once or when all of it was read; or the
\* client breaks the protocol.
StreamEnds(c) ==
    /\ Ready(c)
    /\ c \in here => inbox[c] # <<>> /\ Head(inbox[c]).form = "broken"
    /\ Ends(c)

\* The cancellation arm: the last frame says goodbye.
Farewell(c) ==
    /\ Ready(c) /\ cancelled
    /\ Over(c, "closing", <<Bye>>)
    /\ UNCHANGED <<here, unread>>

\* The runtime is torn down, and the task is dropped where it waits.
Teardown(c) ==
    /\ cancelled /\ phase[c] \in {"serving", "closing"}
    /\ Ends(c)

-----------------------------------------------------------------------------
(* The world *)

Say(c, m) ==
    /\ phase[c] = "serving" /\ c \in here
    /\ said[c] < MaxMessages /\ Len(inbox[c]) < Room
    /\ said' = [said EXCEPT ![c] = @ + 1]
    /\ inbox' = [inbox EXCEPT ![c] = Append(@, m)]
    /\ UNCHANGED <<phase, here, busVars, held, unread, sideVars, answers>>

\* The CLI sends anything, with an id of its own.
CliSays(c) ==
    \E m \in Inputs(said[c] + 1) :
        /\ Say(c, m)
        /\ owed' = IF m.id = NoId THEN owed ELSE [owed EXCEPT ![c] = Append(@, m.id)]
        /\ edits' = IF m.name = "openDiff" THEN [edits EXCEPT ![c] = @ \cup {m.id}] ELSE edits
        /\ UNCHANGED fate

\* send_at_mention_request: one notification, and nothing is read.
HelperAsks ==
    /\ fate = "none"
    /\ Say(Helper, Msg("call", NoId, "at_mention_request", "none"))
    /\ fate' = "sent"
    /\ UNCHANGED <<owed, edits>>

ClientReads(c) ==
    /\ c \in here /\ phase[c] # "closed" /\ unread[c] > 0
    /\ unread' = [unread EXCEPT ![c] = @ - 1]
    /\ UNCHANGED <<phase, here, busVars, inbox, held, sideVars, said, answers, owed, edits, fate>>

\* The socket is closed, by the helper 80 ms after it has sent, or the client dies.
Leave(c) ==
    /\ c \in here /\ phase[c] # "closed"
    /\ here' = here \ {c}
    /\ UNCHANGED <<phase, busVars, inbox, held, unread, sideVars, said, answers, owed, edits, fate>>

Select ==
    /\ selections < MaxSelections
    /\ selections' = selections + 1
    /\ known' = TRUE
    /\ Bus!Publish("selection")
    /\ UNCHANGED <<phase, here, inbox, held, unread, cancelled, said, answers, owed, edits, fate>>

Cancel ==
    /\ ~cancelled
    /\ cancelled' = TRUE
    /\ UNCHANGED <<phase, here, busVars, inbox, held, unread, known, selections, said, answers,
                   owed, edits, fate>>

-----------------------------------------------------------------------------
Task(c) ==
    \/ HandleMessage(c) \/ HandleMention(c) \/ Forward(c) \/ Lag(c)
    \/ SendFrame(c) \/ SendBye(c) \/ SendFails(c) \/ StreamEnds(c) \/ Farewell(c)

Next ==
    \/ \E c \in Clients : Connect(c) \/ Task(c) \/ Teardown(c) \/ Leave(c)
    \/ \E c \in Clis : CliSays(c) \/ ClientReads(c)
    \/ HelperAsks \/ Select \/ Cancel

Spec == Init /\ [][Next]_vars

\* Tasks run, the runtime is torn down in the end, the CLI reads what it is sent, and the
\* helper hangs up.
FairSpec ==
    /\ Spec
    /\ \A c \in Clients : WF_vars(Task(c)) /\ WF_vars(Teardown(c))
    /\ \A c \in Clis : WF_vars(ClientReads(c))
    /\ WF_vars(Leave(Helper))

-----------------------------------------------------------------------------
(* Properties *)

Promise == INSTANCE RequestReply WITH
    Askers   <- Clients,
    open     <- {c \in Clients : phase[c] \in {"absent", "serving"}},
    waiting  <- owed,
    answered <- answers

\* Every request is answered in its turn and once, with its own id, and so is what cannot
\* be read as one; a notification is never answered; and as long as the CLI reads, no
\* push, no lagging and no other connection keeps an answer back for good
\* (connection.rs:228-398).
ImplementsRequestReply == Promise!RFairSpec

\* No client is ever told that an edit it asked for was made: such a call is refused in a
\* result that says so, or in an error (protocol.rs:270-292).
NoEditIsClaimed ==
    \A c \in Clients : \A i \in DOMAIN held[c] :
        held[c][i].id \in edits[c] => held[c][i].what # "done"

\* A conversation ends because its client left or broke the protocol, or the companion
\* stops: not because of what was in a message, nor of lagging, nor of another client.
EndsForAReason ==
    [][\A c \in Clients :
          phase[c] = "serving" /\ phase'[c] # "serving" =>
              \/ c \notin here \/ cancelled
              \/ (inbox[c] # <<>> /\ Head(inbox[c]).form = "broken")]_vars

\* The inductive strengthening of the three.  What a task holds and has yet to read
\* belongs to a conversation that is not over ...
TasksAreWhole(c) ==
    /\ phase[c] = "closing" => held[c] = <<Bye>>
    /\ phase[c] = "serving" => held[c] # <<Bye>>
    /\ phase[c] \in {"absent", "closed"} => held[c] = <<>>
    /\ phase[c] # "serving" => inbox[c] = <<>> /\ owed[c] = <<>>

\* ... what is owed is the id of the answer it holds, then those of the messages it has
\* not read, in their order: due[i] counts them up to the i-th message ...
CountsUp(first, box, ids) ==
    \E due \in [0..Len(box) -> 0..Len(ids)] :
        /\ due[0] = first /\ due[Len(box)] = Len(ids)
        /\ \A i, j \in 0..Len(box) : i <= j => due[i] <= due[j]
        /\ \A i \in 1..Len(box) :
              IF box[i].id = NoId
              THEN due[i] = due[i - 1]
              ELSE due[i] = due[i - 1] + 1 /\ ids[due[i]] = box[i].id

InHand(c) == IF held[c] # <<>> /\ held[c][1].id # NoId THEN 1 ELSE 0

OwedInTurn(c) ==
    /\ InHand(c) = 1 => owed[c] # <<>> /\ owed[c][1] = held[c][1].id
    /\ CountsUp(InHand(c), inbox[c], owed[c])

\* ... and an id stands for one message: an edit's is never another call's.
EditsAreRefused(c) ==
    /\ edits[c] \subseteq 1..said[c]
    /\ \A i \in DOMAIN inbox[c] :
          /\ inbox[c][i].id \in 0..said[c] \cup {Null}
          /\ inbox[c][i].id \in edits[c] =>
                inbox[c][i] = Msg("call", inbox[c][i].id, "tools/call", "openDiff")
    /\ \A i \in DOMAIN held[c] :
          /\ held[c][i].id \in 0..said[c] \cup {Null}
          /\ held[c][i].id \in edits[c] => held[c][i].what # "done"

\* Told from the CLI's side: an id it has an answer to it does not get again, and the
\* answers to its requests come in the order of the requests.  (The null id of what could
\* not be read may come any number of times.)
Rising(ids, top) ==
    /\ \A i \in DOMAIN ids : ids[i] # Null => ids[i] <= top
    /\ \A i, j \in DOMAIN ids : i < j /\ ids[i] # Null /\ ids[j] # Null => ids[i] < ids[j]

AnsweredOnce == \A c \in Clients : Rising(answers[c] \o owed[c], said[c])

McpInv ==
    /\ TypeOK
    /\ \A c \in Clients : TasksAreWhole(c) /\ OwedInTurn(c) /\ EditsAreRefused(c)
    /\ AnsweredOnce

\* The hotkey: what the helper asks for reaches the CLI that is connected, unless nothing
\* was ever selected, the helper is gone before it is read, the CLI lags behind, or leaves.
HotkeyIsHonoured ==
    fate \in {"sent", "published"} ~>
        \/ fate \in {"shown", "nothing", "unheard", "lost", "skipped"}
        \/ \A c \in Clis : phase[c] \in {"closing", "closed"}
=============================================================================

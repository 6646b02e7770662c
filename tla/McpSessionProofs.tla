--------------------------- MODULE McpSessionProofs ---------------------------
(***************************************************************************)
(* Proofs about McpSession, for any number of clients, any window of the   *)
(* bus and any room in the network.  That everybody is answered in the end *)
(* is liveness, and left to TLC: what is proved is that nobody is answered *)
(* out of turn, twice, or unasked.                                         *)
(***************************************************************************)
EXTENDS McpSession, SequenceTheorems, TLAPS

ConvInv(c) == TasksAreWhole(c) /\ OwedInTurn(c) /\ EditsAreRefused(c)

-----------------------------------------------------------------------------
(* Messages and answers *)

LEMMA IdFacts == /\ MaxMessages \in Nat /\ MaxSelections \in Nat
                 /\ Window \in Nat \ {0} /\ Room \in Nat \ {0}
                 /\ Null \in Nat \ {0} /\ NoId = 0
                 /\ Null \notin 0..MaxMessages
  BY BoundsAssumption, RoomAssumption DEF Null, NoId

Forms   == {"call", "malformed", "garbage", "binary", "broken"}
Methods == {"none", "plain", "other", "at_mention_request", "tools/call", "prompts/get"}
Tools   == {"none", "getDiagnostics", "openDiff", "some"}

LEMMA MsgFields ==
    ASSUME NEW form, NEW id, NEW method, NEW name
    PROVE  LET m == Msg(form, id, method, name)
           IN  m.form = form /\ m.id = id /\ m.method = method /\ m.name = name
  BY DEF Msg

LEMMA MsgTypes ==
    ASSUME NEW form \in Forms, NEW id \in 0..Null, NEW method \in Methods, NEW name \in Tools,
           form \in {"binary", "broken"} => id = NoId
    PROVE  Msg(form, id, method, name) \in Messages
  BY DEF Msg, Messages, Forms, Methods, Tools

\* What the CLI may send: its id is its own or none, unless it cannot be read.
LEMMA InputFacts ==
    ASSUME NEW id \in 1..MaxMessages, NEW m \in Inputs(id)
    PROVE  /\ m \in Messages
           /\ m.id \in {NoId, id, Null}
           /\ m.name = "openDiff" => m = Msg("call", id, "tools/call", "openDiff")
<1> USE IdFacts DEF Forms, Methods, Tools
<1>0. {NoId, id, Null} \subseteq 0..Null
  BY DEF Null
<1>1. ASSUME NEW call \in Calls, m = Msg("call", id, call[1], call[2])
      PROVE  /\ m \in Messages /\ m.id = id
             /\ m.name = "openDiff" => m = Msg("call", id, "tools/call", "openDiff")
  <2>1. /\ call[1] \in Methods /\ call[2] \in Tools
        /\ call[2] = "openDiff" => call[1] = "tools/call"
    BY DEF Calls
  <2>2. m \in Messages
    BY <1>0, <1>1, <2>1, MsgTypes
  <2>3. m.id = id /\ m.name = call[2]
    BY <1>1, MsgFields
  <2> QED
    BY <1>1, <2>1, <2>2, <2>3
<1>2. ASSUME NEW form \in Forms, NEW i \in {NoId, id, Null}, NEW method \in Methods,
             form \in {"binary", "broken"} => i = NoId,
             m = Msg(form, i, method, "none")
      PROVE  m \in Messages /\ m.id = i /\ m.name # "openDiff"
  <2>1. m \in Messages
    BY <1>0, <1>2, MsgTypes
  <2>2. m.id = i /\ m.name = "none"
    BY <1>2, MsgFields
  <2> QED
    BY <2>1, <2>2
<1>3. CASE \E call \in Calls : m = Msg("call", id, call[1], call[2])
  BY <1>1, <1>3
<1>4. CASE m = Msg("call", NoId, "other", "none")
  BY <1>2, <1>4
<1>5. CASE \E i \in {NoId, id} : m = Msg("malformed", i, "none", "none")
  BY <1>2, <1>5
<1>6. CASE m \in {Msg("garbage", Null, "none", "none"), Msg("binary", NoId, "none", "none"), Msg("broken", NoId, "none", "none")}
  BY <1>2, <1>6
<1> QED
  BY <1>3, <1>4, <1>5, <1>6 DEF Inputs

\* A message with an id gets one frame with that id, any other none.
LEMMA ReplyFacts ==
    ASSUME NEW m \in Messages
    PROVE  /\ m.id = NoId => Reply(m) = <<>>
           /\ m.id # NoId => /\ Reply(m) = <<Frame(m.id, verdict(m))>>
                             /\ Frame(m.id, verdict(m)) \in Frames
           /\ m = Msg("call", m.id, "tools/call", "openDiff") => verdict(m) # "done"
<1>1. m.id # NoId => verdict(m) \in Verdicts
  BY DEF Messages, verdict, Verdicts, handle_request, handle_tools_call, handle_prompts_get,
         dispatch_tool
<1>2. m = Msg("call", m.id, "tools/call", "openDiff") => verdict(m) = "refused"
  <2> SUFFICES ASSUME m = Msg("call", m.id, "tools/call", "openDiff")
               PROVE  verdict(m) = "refused"
    OBVIOUS
  <2>1. m.form = "call" /\ m.method = "tools/call" /\ m.name = "openDiff"
    BY MsgFields
  <2> QED
    BY <2>1 DEF verdict, handle_request, handle_tools_call, dispatch_tool
<1>3. m.id \in 0..Null
  BY DEF Messages
<1>4. m.id # NoId => Frame(m.id, verdict(m)) \in Frames
  BY <1>1, <1>3 DEF Frame, Frames
<1>5. m.id # NoId => Reply(m) = <<Frame(m.id, verdict(m))>>
  BY DEF Reply
<1>6. m.id = NoId => Reply(m) = <<>>
  BY DEF Reply
<1> QED
  BY <1>2, <1>4, <1>5, <1>6

LEMMA FrameFacts ==
    /\ Bye \in Frames /\ Replay \in Frames /\ Bye.id = NoId /\ Replay.id = NoId
    /\ \A e \in Events : Frame(NoId, e) \in Frames /\ Frame(NoId, e) # Bye
    /\ \A i \in 0..Null, w \in Verdicts : Frame(i, w) # Bye
    /\ Replay # Bye
<1>1. \A i : \A w \in Verdicts \cup Events \cup {"replay"} : Frame(i, w).what # "bye"
  BY DEF Frame, Verdicts, Events
<1>2. Bye.what = "bye" /\ Bye.id = NoId /\ Replay.id = NoId
  BY DEF Bye, Replay, Frame
<1>3. \A w \in Verdicts \cup Events \cup {"bye", "replay"} : Frame(NoId, w) \in Frames
  BY IdFacts DEF Frame, Frames
<1> QED
  BY <1>1, <1>2, <1>3 DEF Bye, Replay

-----------------------------------------------------------------------------
(* Types *)

LEMMA SeqFacts ==
    ASSUME NEW S, NEW s \in Seq(S)
    PROVE  /\ s # <<>> => Head(s) \in S /\ Tail(s) \in Seq(S) /\ Len(Tail(s)) = Len(s) - 1
           /\ \A e \in S : Append(s, e) \in Seq(S) /\ Len(Append(s, e)) = Len(s) + 1
           /\ Len(s) \in Nat /\ (s = <<>> <=> Len(s) = 0)
           /\ <<>> \in Seq(S) /\ Len(<<>>) = 0
  BY HeadTailProperties, AppendProperties, EmptySeq, LenProperties

\* What the end of a conversation leaves of the types.
LEMMA OverTypes ==
    ASSUME TypeOK, NEW c \in Clients, NEW to \in {"closing", "closed"},
           NEW frames \in {<<>>, <<Bye>>}, Over(c, to, frames), phase[c] # "absent",
           here' \subseteq Clients, unread' \in [Clients -> 0..Room]
    PROVE  TypeOK'
<1> USE SeqFacts, IdFacts, FrameFacts DEF Over, TypeOK, Hold, sideVars, busVars, Bus!QTypeOK
<1>1. Bus!QTypeOK' /\ attached' = {d \in Clients : phase'[d] = "serving"}
  <2>1. CASE c \in attached
    <3>1. attached' = attached \ {c} /\ queue' = [queue EXCEPT ![c] = <<>>]
      BY <2>1 DEF Bus!Detach
    <3>2. queue' \in [Clients -> Seq(Events)]
      BY <3>1
    <3> QED
      BY <3>1, <3>2
  <2>2. CASE c \notin attached
    BY <2>2
  <2> QED
    BY <2>1, <2>2
<1>2. inbox' \in [Clients -> Seq(Messages)] /\ \A d \in Clients : Len(inbox'[d]) <= Room
  OBVIOUS
<1>3. held' \in [Clients -> {<<>>} \cup {<<f>> : f \in Frames}]
  OBVIOUS
<1>4. owed' \in [Clients -> Seq(Ids)] /\ edits' \in [Clients -> SUBSET Ids]
  OBVIOUS
<1> QED
  BY <1>1, <1>2, <1>3, <1>4

LEMMA EndsTypes ==
    ASSUME TypeOK, NEW c \in Clients, Ends(c), phase[c] # "absent"
    PROVE  TypeOK'
<1>1. here' \subseteq Clients
  BY DEF Ends, TypeOK
<1>2. unread' \in [Clients -> 0..Room]
  BY IdFacts DEF Ends, TypeOK
<1>3. Over(c, "closed", <<>>)
  BY DEF Ends
<1> QED
  BY <1>1, <1>2, <1>3, OverTypes

\* An event reaches every queue it should.
LEMMA PublishTypes ==
    ASSUME Bus!QTypeOK, NEW e \in Events, Bus!Publish(e)
    PROVE  Bus!QTypeOK' /\ attached' = attached
  BY SeqFacts DEF Bus!QTypeOK, Bus!Publish

LEMMA SayTypes ==
    ASSUME TypeOK, NEW c \in Clients, NEW m \in Messages, Say(c, m),
           owed' \in [Clients -> Seq(Ids)], edits' \in [Clients -> SUBSET Ids],
           fate' \in {fate, "sent"}
    PROVE  TypeOK'
<1> USE SeqFacts, IdFacts DEF Say, TypeOK, sideVars, busVars, Bus!QTypeOK
<1>1. inbox' \in [Clients -> Seq(Messages)] /\ \A d \in Clients : Len(inbox'[d]) <= Room
  OBVIOUS
<1>2. said' \in [Clients -> 0..MaxMessages]
  OBVIOUS
<1> QED
  BY <1>1, <1>2

LEMMA ReadTypes ==
    ASSUME TypeOK, NEW c \in Clients, Reads(c)
    PROVE  /\ inbox' \in [Clients -> Seq(Messages)] /\ \A d \in Clients : Len(inbox'[d]) <= Room
           /\ Head(inbox[c]) \in Messages /\ inbox[c] \in Seq(Messages)
           /\ phase[c] = "serving" /\ held[c] = <<>> /\ inbox[c] # <<>>
           /\ inbox'[c] = Tail(inbox[c])
  BY SeqFacts, IdFacts DEF Reads, Ready, TypeOK

\* Every step keeps the variables within their types.
LEMMA TypeStep == McpInv /\ [Next]_vars => TypeOK'
<1> SUFFICES ASSUME McpInv, [Next]_vars PROVE TypeOK'
  OBVIOUS
<1>t. TypeOK
  BY DEF McpInv
<1>w. \A c \in Clients : TasksAreWhole(c)
  BY DEF McpInv
<1> USE IdFacts, FrameFacts DEF busVars, sideVars
<1>1. CASE UNCHANGED vars
  BY <1>1, <1>t DEF vars, TypeOK, Bus!QTypeOK
<1>2. ASSUME NEW c \in Clients, Connect(c) PROVE TypeOK'
  <2>1. held' \in [Clients -> {<<>>} \cup {<<f>> : f \in Frames}]
    BY <1>2, <1>t DEF Connect, TypeOK
  <2>2. Bus!QTypeOK' /\ attached' = {d \in Clients : phase'[d] = "serving"}
    BY <1>2, <1>t DEF Connect, TypeOK, Bus!QTypeOK, Bus!Attach
  <2> QED
    BY <1>2, <1>t, <2>1, <2>2 DEF Connect, TypeOK
<1>3. ASSUME NEW c \in Clients, Task(c) PROVE TypeOK'
  <2>1. CASE HandleMessage(c)
    <3>1. held' \in [Clients -> {<<>>} \cup {<<f>> : f \in Frames}]
      BY <2>1, <1>t, ReadTypes, ReplyFacts DEF HandleMessage, Hold, TypeOK
    <3> QED
      BY <2>1, <1>t, <3>1, ReadTypes DEF HandleMessage, TypeOK, Bus!QTypeOK
  <2>2. CASE HandleMention(c)
    <3>1. Bus!QTypeOK' /\ attached' = attached
      BY <2>2, <1>t, PublishTypes DEF HandleMention, TypeOK, Bus!QTypeOK, Events
    <3> QED
      BY <2>2, <1>t, <3>1, ReadTypes DEF HandleMention, TypeOK
  <2>3. CASE Forward(c)
    <3>1. queue[c] \in Seq(Events) /\ queue[c] # <<>>
      BY <2>3, <1>t DEF Forward, Bus!Deliver, TypeOK, Bus!QTypeOK
    <3>2. Head(queue[c]) \in Events /\ Tail(queue[c]) \in Seq(Events)
      BY <3>1, SeqFacts
    <3>3. Bus!QTypeOK' /\ attached' = attached
      BY <2>3, <1>t, <3>2 DEF Forward, Bus!Deliver, TypeOK, Bus!QTypeOK
    <3>4. held' \in [Clients -> {<<>>} \cup {<<f>> : f \in Frames}]
      BY <2>3, <1>t, <3>2 DEF Forward, Hold, TypeOK
    <3> QED
      BY <2>3, <1>t, <3>3, <3>4 DEF Forward, TypeOK
  <2>4. CASE Lag(c)
    <3>1. queue[c] \in Seq(Events) /\ Len(queue[c]) \in Nat /\ Len(queue[c]) > Window
      BY <2>4, <1>t, SeqFacts DEF Lag, Bus!Overflow, TypeOK, Bus!QTypeOK
    <3>2. SubSeq(queue[c], Len(queue[c]) - Window + 1, Len(queue[c])) \in Seq(Events)
      BY <3>1
    <3>3. Bus!QTypeOK' /\ attached' = attached
      BY <2>4, <1>t, <3>2 DEF Lag, Bus!Overflow, TypeOK, Bus!QTypeOK
    <3> QED
      BY <2>4, <1>t, <3>3 DEF Lag, TypeOK
  <2>5. CASE SendFrame(c)
    <3>1. held[c] # <<>> /\ Head(held[c]) \in Frames
      BY <2>5, <1>t DEF SendFrame, TypeOK
    <3>2. Head(held[c]).id # NoId => Head(held[c]).id \in Ids
      BY <3>1 DEF Frames, Ids
    <3>3. answers' \in [Clients -> Seq(Ids)]
      BY <2>5, <1>t, <3>2, SeqFacts DEF SendFrame, TypeOK
    <3>4. owed' \in [Clients -> Seq(Ids)]
      BY <2>5, <1>t, SeqFacts DEF SendFrame, TypeOK
    <3>5. edits' \in [Clients -> SUBSET Ids]
      BY <2>5, <1>t DEF SendFrame, TypeOK
    <3> QED
      BY <2>5, <1>t, <3>3, <3>4, <3>5 DEF SendFrame, Hold, TypeOK, Bus!QTypeOK
  <2>6. CASE SendBye(c) \/ StreamEnds(c)
    <3>1. Ends(c)
      BY <2>6 DEF SendBye, StreamEnds
    <3>2. phase[c] # "absent"
      <4>1. CASE SendBye(c)
        <5>1. held[c] # <<>>
          BY <4>1 DEF SendBye
        <5> QED
          BY <5>1, <1>w DEF TasksAreWhole
      <4>2. CASE StreamEnds(c)
        BY <4>2 DEF StreamEnds, Ready
      <4> QED
        BY <2>6, <4>1, <4>2
    <3> QED
      BY <3>1, <3>2, <1>t, EndsTypes
  <2>7. CASE SendFails(c)
    <3>1. phase[c] # "absent"
      BY <2>7, <1>w DEF SendFails, TasksAreWhole
    <3>2. CASE held[c] = <<Replay>>
      BY <3>2, <2>7, <1>t DEF SendFails, Hold, TypeOK, Bus!QTypeOK
    <3>3. CASE held[c] # <<Replay>>
      BY <3>1, <3>3, <2>7, <1>t, EndsTypes DEF SendFails
    <3> QED
      BY <3>2, <3>3
  <2>8. CASE Farewell(c)
    BY <2>8, <1>t, OverTypes DEF Farewell, Ready, TypeOK
  <2> QED
    BY <1>3, <2>1, <2>2, <2>3, <2>4, <2>5, <2>6, <2>7, <2>8 DEF Task
<1>4. ASSUME NEW c \in Clients, Teardown(c) PROVE TypeOK'
  BY <1>4, <1>t, EndsTypes DEF Teardown
<1>5. ASSUME NEW c \in Clients, Leave(c) PROVE TypeOK'
  BY <1>5, <1>t DEF Leave, TypeOK, Bus!QTypeOK
<1>6. ASSUME NEW c \in Clis, CliSays(c) PROVE TypeOK'
  <2>1. c \in Clients
    BY DEF Clients
  <2>2. PICK m \in Inputs(said[c] + 1) :
          /\ Say(c, m)
          /\ owed' = IF m.id = NoId THEN owed ELSE [owed EXCEPT ![c] = Append(@, m.id)]
          /\ edits' = IF m.name = "openDiff" THEN [edits EXCEPT ![c] = @ \cup {m.id}] ELSE edits
          /\ UNCHANGED fate
    BY <1>6 DEF CliSays
  <2>3. said[c] + 1 \in 1..MaxMessages
    BY <2>1, <2>2, <1>t DEF Say, TypeOK
  <2>4. /\ m \in Messages
        /\ m.id # NoId => m.id \in Ids
        /\ m.name = "openDiff" => m.id = said[c] + 1 /\ m.id \in Ids
    BY <2>3, InputFacts, MsgFields DEF Ids, Null
  <2>5. owed' \in [Clients -> Seq(Ids)]
    BY <2>1, <2>2, <2>4, <1>t, SeqFacts DEF TypeOK
  <2>6. edits' \in [Clients -> SUBSET Ids]
    BY <2>1, <2>2, <2>4, <1>t DEF TypeOK
  <2>7. fate' \in {fate, "sent"}
    BY <2>2
  <2>8. m \in Messages /\ Say(c, m)
    BY <2>2, <2>4
  <2> QED
    BY <2>1, <2>5, <2>6, <2>7, <2>8, <1>t, SayTypes
<1>7. ASSUME NEW c \in Clis, ClientReads(c) PROVE TypeOK'
  BY <1>7, <1>t DEF ClientReads, TypeOK, Bus!QTypeOK
<1>8. CASE HelperAsks
  <2>1. Msg("call", NoId, "at_mention_request", "none") \in Messages
    BY MsgTypes DEF Forms, Methods, Tools
  <2> QED
    BY <1>8, <1>t, <2>1, SayTypes DEF HelperAsks, Clients, TypeOK
<1>9. CASE Select
  <2>1. Bus!QTypeOK' /\ attached' = attached
    BY <1>9, <1>t, PublishTypes DEF Select, TypeOK, Events
  <2> QED
    BY <1>9, <1>t, <2>1 DEF Select, TypeOK
<1>10. CASE Cancel
  BY <1>10, <1>t DEF Cancel, TypeOK, Bus!QTypeOK
<1> QED
  BY <1>1, <1>2, <1>3, <1>4, <1>5, <1>6, <1>7, <1>8, <1>9, <1>10 DEF Next

-----------------------------------------------------------------------------
(* What is owed, counted up along the messages that are not read *)

LEMMA CountsNone == CountsUp(0, <<>>, <<>>)
<1> DEFINE due == [i \in 0..0 |-> 0]
<1>1. Len(<<>>) = 0
  OBVIOUS
<1>2. due \in [0..Len(<<>>) -> 0..Len(<<>>)]
  BY <1>1
<1>3. /\ due[0] = 0 /\ due[Len(<<>>)] = Len(<<>>)
      /\ \A i, j \in 0..Len(<<>>) : i <= j => due[i] <= due[j]
      /\ 1..Len(<<>>) = {}
  BY <1>1
<1> QED
  BY <1>2, <1>3 DEF CountsUp

\* The next message is read.
LEMMA CountsRead ==
    ASSUME NEW box \in Seq(Messages), NEW ids \in Seq(Ids), box # <<>>,
           CountsUp(0, box, ids)
    PROVE  /\ Head(box).id = NoId => CountsUp(0, Tail(box), ids)
           /\ Head(box).id # NoId => /\ ids # <<>> /\ ids[1] = Head(box).id
                                     /\ CountsUp(1, Tail(box), ids)
<1> DEFINE n == Len(box)
<1>1. /\ n \in Nat \ {0} /\ Len(Tail(box)) = n - 1 /\ Head(box) = box[1]
      /\ \A i \in 1..(n - 1) : Tail(box)[i] = box[i + 1]
      /\ Len(ids) \in Nat
  BY HeadTailProperties, LenProperties, EmptySeq
<1>2. PICK due \in [0..n -> 0..Len(ids)] :
        /\ due[0] = 0 /\ due[n] = Len(ids)
        /\ \A i, j \in 0..n : i <= j => due[i] <= due[j]
        /\ \A i \in 1..n :
              IF box[i].id = NoId
              THEN due[i] = due[i - 1]
              ELSE due[i] = due[i - 1] + 1 /\ ids[due[i]] = box[i].id
  BY DEF CountsUp
<1> DEFINE rest == [i \in 0..(n - 1) |-> due[i + 1]]
<1>3. rest \in [0..Len(Tail(box)) -> 0..Len(ids)]
  BY <1>1
<1>4. rest[Len(Tail(box))] = Len(ids)
  BY <1>1, <1>2
<1>5. \A i, j \in 0..Len(Tail(box)) : i <= j => rest[i] <= rest[j]
  BY <1>1, <1>2
<1>6. ASSUME NEW i \in 1..Len(Tail(box))
      PROVE  IF Tail(box)[i].id = NoId
             THEN rest[i] = rest[i - 1]
             ELSE rest[i] = rest[i - 1] + 1 /\ ids[rest[i]] = Tail(box)[i].id
  <2>1. /\ i + 1 \in 1..n /\ Tail(box)[i] = box[i + 1]
        /\ rest[i] = due[i + 1] /\ rest[i - 1] = due[(i + 1) - 1]
    BY <1>1
  <2> QED
    BY <1>2, <2>1
<1>7. CountsUp(rest[0], Tail(box), ids)
  <2> HIDE DEF rest
  <2> QED
    BY <1>3, <1>4, <1>5, <1>6 DEF CountsUp
<1>8. /\ 1 \in 1..n /\ rest[0] = due[1]
      /\ Head(box).id = NoId => due[1] = 0
      /\ Head(box).id # NoId => due[1] = 1 /\ ids[1] = Head(box).id
      /\ due[1] \in 0..Len(ids)
  BY <1>1, <1>2
<1>9. ASSUME Head(box).id # NoId PROVE ids # <<>>
  <2>1. Len(ids) # 0
    BY <1>1, <1>8, <1>9
  <2> QED
    BY <2>1
<1> QED
  BY <1>7, <1>8, <1>9

\* The answer in hand goes out.
LEMMA CountsSend ==
    ASSUME NEW box \in Seq(Messages), NEW ids \in Seq(Ids), ids # <<>>,
           CountsUp(1, box, ids)
    PROVE  CountsUp(0, box, Tail(ids))
<1> DEFINE n == Len(box)
<1>1. /\ n \in Nat /\ Len(ids) \in Nat \ {0} /\ Len(Tail(ids)) = Len(ids) - 1
      /\ \A i \in 1..(Len(ids) - 1) : Tail(ids)[i] = ids[i + 1]
  BY HeadTailProperties, LenProperties, EmptySeq
<1>2. PICK due \in [0..n -> 0..Len(ids)] :
        /\ due[0] = 1 /\ due[n] = Len(ids)
        /\ \A i, j \in 0..n : i <= j => due[i] <= due[j]
        /\ \A i \in 1..n :
              IF box[i].id = NoId
              THEN due[i] = due[i - 1]
              ELSE due[i] = due[i - 1] + 1 /\ ids[due[i]] = box[i].id
  BY DEF CountsUp
<1> DEFINE left == [i \in 0..n |-> due[i] - 1]
<1>3. \A i \in 0..n : due[i] >= 1 /\ due[i] \in 0..Len(ids)
  BY <1>1, <1>2
<1>4. left \in [0..n -> 0..Len(Tail(ids))]
  BY <1>1, <1>3
<1>5. left[0] = 0 /\ left[n] = Len(Tail(ids))
  BY <1>1, <1>2
<1>6. \A i, j \in 0..n : i <= j => left[i] <= left[j]
  BY <1>1, <1>2, <1>3
<1>7. ASSUME NEW i \in 1..n
      PROVE  IF box[i].id = NoId
             THEN left[i] = left[i - 1]
             ELSE left[i] = left[i - 1] + 1 /\ Tail(ids)[left[i]] = box[i].id
  <2>1. /\ i \in 0..n /\ i - 1 \in 0..n
        /\ left[i] = due[i] - 1 /\ left[i - 1] = due[i - 1] - 1
    BY <1>1
  <2>2. CASE box[i].id = NoId
    BY <1>2, <2>1, <2>2
  <2>3. CASE box[i].id # NoId
    <3>1. due[i] = due[i - 1] + 1 /\ ids[due[i]] = box[i].id
      BY <1>2, <2>3
    <3>2. due[i - 1] >= 1 /\ due[i] \in 0..Len(ids) /\ due[i - 1] \in 0..Len(ids)
      BY <1>3, <2>1
    <3>3. left[i] \in 1..(Len(ids) - 1) /\ left[i] + 1 = due[i]
      BY <1>1, <2>1, <3>1, <3>2
    <3>4. Tail(ids)[left[i]] = ids[left[i] + 1]
      BY <1>1, <3>3
    <3> QED
      BY <2>1, <2>3, <3>1, <3>2, <3>3, <3>4
  <2> QED
    BY <2>2, <2>3
<1> HIDE DEF left
<1> QED
  BY <1>4, <1>5, <1>6, <1>7 DEF CountsUp

\* One more message is sent; the sender waits for its id, if it has one.
LEMMA CountsSay ==
    ASSUME NEW box \in Seq(Messages), NEW ids \in Seq(Ids), NEW first, NEW m \in Messages,
           NEW more \in Seq(Ids),
           m.id = NoId => more = ids,
           m.id # NoId => more = Append(ids, m.id) /\ m.id \in Ids,
           CountsUp(first, box, ids)
    PROVE  CountsUp(first, Append(box, m), more)
<1> DEFINE n == Len(box)
           long == Append(box, m)
<1>1. /\ n \in Nat /\ Len(long) = n + 1 /\ long[n + 1] = m
      /\ \A i \in 1..n : long[i] = box[i]
      /\ Len(ids) \in Nat
  BY AppendProperties, LenProperties
<1>2. /\ Len(more) = IF m.id = NoId THEN Len(ids) ELSE Len(ids) + 1
      /\ \A i \in 1..Len(ids) : more[i] = ids[i]
      /\ m.id # NoId => more[Len(ids) + 1] = m.id
  BY <1>1, AppendProperties
<1>3. PICK due \in [0..n -> 0..Len(ids)] :
        /\ due[0] = first /\ due[n] = Len(ids)
        /\ \A i, j \in 0..n : i <= j => due[i] <= due[j]
        /\ \A i \in 1..n :
              IF box[i].id = NoId
              THEN due[i] = due[i - 1]
              ELSE due[i] = due[i - 1] + 1 /\ ids[due[i]] = box[i].id
  BY DEF CountsUp
<1> DEFINE all == [i \in 0..(n + 1) |-> IF i <= n THEN due[i] ELSE Len(more)]
<1> HIDE DEF long
<1>4. /\ all[0] = first /\ all[n + 1] = Len(more) /\ all[n] = Len(ids)
      /\ \A i \in 0..n : all[i] = due[i] /\ due[i] \in 0..Len(ids)
  BY <1>1, <1>3
<1>5. all \in [0..Len(long) -> 0..Len(more)]
  BY <1>1, <1>2
<1>6. \A i, j \in 0..Len(long) : i <= j => all[i] <= all[j]
  BY <1>1, <1>2, <1>3, <1>4
<1>7. ASSUME NEW i \in 1..Len(long)
      PROVE  IF long[i].id = NoId
             THEN all[i] = all[i - 1]
             ELSE all[i] = all[i - 1] + 1 /\ more[all[i]] = long[i].id
  <2>1. CASE i \in 1..n
    <3>1. /\ i \in 0..n /\ i - 1 \in 0..n
          /\ all[i] = due[i] /\ all[i - 1] = due[i - 1] /\ long[i] = box[i]
      BY <1>1, <1>4, <2>1
    <3>2. CASE box[i].id = NoId
      BY <1>3, <2>1, <3>1, <3>2
    <3>3. CASE box[i].id # NoId
      <4>1. due[i] = due[i - 1] + 1 /\ ids[due[i]] = box[i].id
        BY <1>3, <2>1, <3>3
      <4>2. due[i] \in 1..Len(ids)
        <5>1. due[i] \in 0..Len(ids) /\ due[i - 1] \in 0..Len(ids)
          BY <3>1
        <5> QED
          BY <1>1, <4>1, <5>1
      <4> QED
        BY <1>2, <3>1, <3>3, <4>1, <4>2
    <3> QED
      BY <3>2, <3>3
  <2>2. CASE i = n + 1
    BY <1>1, <1>2, <1>4, <2>2
  <2> QED
    BY <1>1, <2>1, <2>2
<1>8. all[Len(long)] = Len(more)
  BY <1>1, <1>4
<1>9. CountsUp(first, long, more)
  <2> HIDE DEF all
  <2> QED
    BY <1>4, <1>5, <1>6, <1>7, <1>8 DEF CountsUp
<1> QED
  BY <1>9 DEF long

-----------------------------------------------------------------------------
(* Each conversation *)

LEMMA Singles ==
    /\ DOMAIN <<>> = {}
    /\ \A f : <<f>> # <<>> /\ <<f>>[1] = f /\ Head(<<f>>) = f /\ DOMAIN <<f>> = {1}
    /\ \A f, g : f # g => <<f>> # <<g>>
  OBVIOUS

\* A step leaves alone the conversations it does not touch.
LEMMA Unmoved ==
    ASSUME NEW d \in Clients, ConvInv(d),
           phase'[d] = phase[d], held'[d] = held[d], inbox'[d] = inbox[d],
           owed'[d] = owed[d], edits'[d] = edits[d], said'[d] = said[d]
    PROVE  ConvInv(d)'
<1>1. TasksAreWhole(d)'
  BY DEF ConvInv, TasksAreWhole
<1>2. InHand(d)' = InHand(d)
  BY DEF InHand
<1>3. OwedInTurn(d)'
  BY <1>2 DEF ConvInv, OwedInTurn
<1>4. EditsAreRefused(d)'
  BY DEF ConvInv, EditsAreRefused
<1> QED
  BY <1>1, <1>3, <1>4 DEF ConvInv

LEMMA OverConv ==
    ASSUME TypeOK, \A d \in Clients : ConvInv(d), NEW c \in Clients, NEW to, NEW frames,
           Over(c, to, frames),
           \/ to = "closed" /\ frames = <<>>
           \/ to = "closing" /\ frames = <<Bye>>
    PROVE  \A d \in Clients : ConvInv(d)'
<1>1. /\ phase'[c] = to /\ inbox'[c] = <<>> /\ owed'[c] = <<>> /\ edits'[c] = {}
      /\ held'[c] = frames /\ said'[c] = said[c] /\ said[c] \in Nat
  BY IdFacts DEF TypeOK, Over, Hold
<1>2. TasksAreWhole(c)'
  BY <1>1 DEF TasksAreWhole
<1>3. OwedInTurn(c)'
  <2>1. InHand(c)' = 0
    BY <1>1, Singles, FrameFacts DEF InHand
  <2> QED
    BY <1>1, <2>1, CountsNone DEF OwedInTurn
<1>4. EditsAreRefused(c)'
  <2>1. \A i \in DOMAIN frames : frames[i].id = NoId
    BY Singles, FrameFacts
  <2>2. NoId \in 0..said[c] /\ DOMAIN inbox'[c] = {}
    BY <1>1, Singles, IdFacts
  <2> QED
    BY <1>1, <2>1, <2>2 DEF EditsAreRefused
<1>5. ConvInv(c)'
  BY <1>2, <1>3, <1>4 DEF ConvInv
<1>6. ASSUME NEW d \in Clients \ {c} PROVE ConvInv(d)'
  BY <1>6, Unmoved DEF TypeOK, Over, Hold
<1> QED
  BY <1>5, <1>6

\* A frame is held for a conversation that goes on.
LEMMA HoldsServing ==
    ASSUME TypeOK, NEW c \in Clients, TasksAreWhole(c), held[c] # <<>>, held[c] # <<Bye>>
    PROVE  phase[c] = "serving"
  BY DEF TypeOK, TasksAreWhole

LEMMA MessageConv ==
    ASSUME TypeOK, NEW c \in Clients, ConvInv(c), HandleMessage(c)
    PROVE  ConvInv(c)'
<1> DEFINE box == inbox[c]
           m   == Head(box)
<1>1. /\ m \in Messages /\ box \in Seq(Messages) /\ box # <<>>
      /\ phase[c] = "serving" /\ held[c] = <<>> /\ inbox'[c] = Tail(box)
  BY ReadTypes DEF HandleMessage
<1>2. /\ held'[c] = Reply(m) /\ phase'[c] = "serving" /\ owed'[c] = owed[c]
      /\ edits'[c] = edits[c] /\ said'[c] = said[c]
      /\ owed[c] \in Seq(Ids)
  BY <1>1 DEF HandleMessage, Hold, TypeOK
<1>3. /\ m = box[1] /\ 1 \in DOMAIN box
      /\ \A i \in DOMAIN Tail(box) : i + 1 \in DOMAIN box /\ Tail(box)[i] = box[i + 1]
  BY <1>1, HeadTailProperties, LenProperties
<1>4. CountsUp(0, box, owed[c])
  BY <1>1 DEF ConvInv, OwedInTurn, InHand
<1>5. CASE m.id = NoId
  <2>1. held'[c] = <<>> /\ InHand(c)' = 0
    BY <1>1, <1>2, <1>5, ReplyFacts DEF InHand
  <2>2. TasksAreWhole(c)'
    BY <1>2, <2>1, Singles DEF TasksAreWhole
  <2>3. OwedInTurn(c)'
    BY <1>1, <1>2, <1>4, <1>5, <2>1, CountsRead DEF OwedInTurn
  <2>4. EditsAreRefused(c)'
    BY <1>1, <1>2, <1>3, <2>1, Singles DEF ConvInv, EditsAreRefused
  <2> QED
    BY <2>2, <2>3, <2>4 DEF ConvInv
<1>6. CASE m.id # NoId
  <2> DEFINE f == Frame(m.id, verdict(m))
  <2>1. held'[c] = <<f>> /\ f.id = m.id /\ f.what = verdict(m)
    BY <1>1, <1>2, <1>6, ReplyFacts DEF Frame
  <2>2. f # Bye
    BY <1>6, <2>1, FrameFacts
  <2> HIDE DEF f
  <2>3. TasksAreWhole(c)'
    BY <1>2, <2>1, <2>2, Singles DEF TasksAreWhole
  <2>4. InHand(c)' = 1
    BY <1>6, <2>1, Singles DEF InHand
  <2>5. OwedInTurn(c)'
    BY <1>1, <1>2, <1>4, <1>6, <2>1, <2>4, CountsRead, Singles DEF OwedInTurn
  <2>6. /\ f.id \in 0..said[c] \cup {Null}
        /\ f.id \in edits[c] => f.what # "done"
    BY <1>1, <1>3, <2>1, ReplyFacts DEF ConvInv, EditsAreRefused
  <2>7. EditsAreRefused(c)'
    BY <1>1, <1>2, <1>3, <2>1, <2>6, Singles DEF ConvInv, EditsAreRefused
  <2> QED
    BY <2>3, <2>5, <2>7 DEF ConvInv
<1> QED
  BY <1>5, <1>6

LEMMA MentionConv ==
    ASSUME TypeOK, NEW c \in Clients, ConvInv(c), HandleMention(c)
    PROVE  ConvInv(c)'
<1> DEFINE box == inbox[c]
<1>1. /\ box \in Seq(Messages) /\ box # <<>> /\ Head(box).id = NoId
      /\ phase[c] = "serving" /\ held[c] = <<>> /\ inbox'[c] = Tail(box)
  BY ReadTypes DEF HandleMention, IsMention
<1>2. /\ held'[c] = <<>> /\ phase'[c] = "serving" /\ owed'[c] = owed[c]
      /\ edits'[c] = edits[c] /\ said'[c] = said[c]
      /\ owed[c] \in Seq(Ids)
  BY <1>1 DEF HandleMention, TypeOK
<1>3. \A i \in DOMAIN Tail(box) : i + 1 \in DOMAIN box /\ Tail(box)[i] = box[i + 1]
  BY <1>1, HeadTailProperties, LenProperties
<1>4. InHand(c) = 0 /\ InHand(c)' = 0
  BY <1>1, <1>2 DEF InHand
<1>5. TasksAreWhole(c)'
  BY <1>2 DEF TasksAreWhole
<1>6. OwedInTurn(c)'
  BY <1>1, <1>2, <1>4, CountsRead DEF ConvInv, OwedInTurn
<1>7. EditsAreRefused(c)'
  BY <1>1, <1>2, <1>3, Singles DEF ConvInv, EditsAreRefused
<1> QED
  BY <1>5, <1>6, <1>7 DEF ConvInv

\* What a task pushes of itself has no id.
LEMMA PushConv ==
    ASSUME TypeOK, NEW c \in Clients, ConvInv(c), NEW f, f.id = NoId, f # Bye,
           phase'[c] = "serving", held[c] = <<>>, held'[c] \in {<<>>, <<f>>},
           phase[c] \in {"absent", "serving"},
           inbox'[c] = inbox[c], owed'[c] = owed[c], edits'[c] = edits[c], said'[c] = said[c]
    PROVE  ConvInv(c)'
<1>1. InHand(c) = 0 /\ InHand(c)' = 0
  BY Singles DEF InHand
<1>2. TasksAreWhole(c)'
  BY Singles DEF TasksAreWhole
<1>3. OwedInTurn(c)'
  BY <1>1 DEF ConvInv, OwedInTurn
<1>4. said[c] \in Nat /\ NoId \in 0..said[c] /\ NoId \notin 1..said[c]
  BY IdFacts DEF TypeOK
<1>5. EditsAreRefused(c)'
  BY <1>4, Singles DEF ConvInv, EditsAreRefused
<1> QED
  BY <1>2, <1>3, <1>5 DEF ConvInv

LEMMA SendConv ==
    ASSUME TypeOK, NEW c \in Clients, ConvInv(c), SendFrame(c)
    PROVE  ConvInv(c)'
<1>1. phase[c] = "serving" /\ phase'[c] = phase[c] /\ held'[c] = <<>>
  BY HoldsServing DEF SendFrame, Hold, TypeOK, ConvInv
<1>2. PICK f \in Frames : held[c] = <<f>>
  BY DEF SendFrame, TypeOK
<1>3. Head(held[c]) = f /\ held[c][1] = f /\ held[c] # <<>>
  BY <1>2
<1>4. /\ owed'[c] = IF f.id = NoId \/ owed[c] = <<>> THEN owed[c] ELSE Tail(owed[c])
      /\ edits'[c] \subseteq edits[c] /\ inbox'[c] = inbox[c] /\ said'[c] = said[c]
      /\ inbox[c] \in Seq(Messages) /\ owed[c] \in Seq(Ids)
  BY <1>3 DEF SendFrame, TypeOK
<1>5. TasksAreWhole(c)'
  BY <1>1 DEF TasksAreWhole
<1>6. InHand(c)' = 0
  BY <1>1 DEF InHand
<1>7. OwedInTurn(c)'
  <2>1. CASE f.id = NoId
    <3>1. InHand(c) = 0
      BY <1>3, <2>1 DEF InHand
    <3> QED
      BY <1>4, <1>6, <2>1, <3>1 DEF ConvInv, OwedInTurn
  <2>2. CASE f.id # NoId
    <3>1. InHand(c) = 1
      BY <1>3, <2>2 DEF InHand
    <3>2. owed[c] # <<>> /\ CountsUp(1, inbox[c], owed[c])
      BY <3>1 DEF ConvInv, OwedInTurn
    <3>3. CountsUp(0, inbox[c], Tail(owed[c]))
      BY <1>4, <3>2, CountsSend
    <3> QED
      BY <1>4, <1>6, <2>2, <3>2, <3>3 DEF OwedInTurn
  <2> QED
    BY <2>1, <2>2
<1>8. EditsAreRefused(c)'
  BY <1>1, <1>4, Singles DEF ConvInv, EditsAreRefused
<1> QED
  BY <1>5, <1>7, <1>8 DEF ConvInv

LEMMA SayConv ==
    ASSUME TypeOK, NEW c \in Clients, ConvInv(c), NEW m \in Messages, Say(c, m),
           m.id \in {NoId, said[c] + 1, Null},
           m.name = "openDiff" => m = Msg("call", said[c] + 1, "tools/call", "openDiff"),
           owed'[c] = IF m.id = NoId THEN owed[c] ELSE Append(owed[c], m.id),
           edits'[c] = IF m.name = "openDiff" THEN edits[c] \cup {m.id} ELSE edits[c]
    PROVE  ConvInv(c)'
<1> DEFINE id == said[c] + 1
<1>1. /\ phase[c] = "serving" /\ phase'[c] = phase[c] /\ held'[c] = held[c]
      /\ inbox'[c] = Append(inbox[c], m) /\ said'[c] = id
      /\ inbox[c] \in Seq(Messages) /\ owed[c] \in Seq(Ids) /\ said[c] \in Nat
  BY IdFacts DEF Say, TypeOK
<1>2. id \in 1..MaxMessages /\ id \notin 0..said[c] /\ id # Null
  BY IdFacts, <1>1 DEF Say, TypeOK, Null
<1>3. /\ m \in Messages /\ m.id \in {NoId, id, Null}
      /\ m.name = "openDiff" => m = Msg("call", id, "tools/call", "openDiff")
  OBVIOUS
<1>4. m.name = "openDiff" => m.id = id
  BY <1>3, MsgFields
<1>5. InHand(c)' = InHand(c)
  BY <1>1 DEF InHand
<1>6. m.id # NoId => m.id \in Ids
  BY IdFacts, <1>2, <1>3 DEF Ids, Null
<1>7. OwedInTurn(c)'
  <2>1. owed'[c] \in Seq(Ids)
    BY <1>1, <1>6
  <2>2. CountsUp(InHand(c), inbox'[c], owed'[c])
    BY <1>1, <1>3, <1>6, <2>1, CountsSay DEF ConvInv, OwedInTurn
  <2>3. owed[c] # <<>> => owed'[c] # <<>> /\ owed'[c][1] = owed[c][1]
    BY <1>1, <1>6, AppendProperties, LenProperties, EmptySeq
  <2> QED
    BY <1>1, <1>5, <2>2, <2>3 DEF ConvInv, OwedInTurn
<1>8. TasksAreWhole(c)'
  BY <1>1 DEF ConvInv, TasksAreWhole
<1>9. EditsAreRefused(c)'
  <2>1. edits'[c] \subseteq 1..said'[c]
    BY <1>1, <1>2, <1>4 DEF ConvInv, EditsAreRefused
  <2>2. \A i \in 0..said[c] \cup {Null} :
            i \in 0..said'[c] \cup {Null} /\ (i \in edits'[c] => i \in edits[c])
    BY <1>1, <1>2, <1>4
  <2>3. \A i \in DOMAIN inbox'[c] :
            (i \in DOMAIN inbox[c] /\ inbox'[c][i] = inbox[c][i]) \/ inbox'[c][i] = m
    BY <1>1, <1>3, AppendProperties, LenProperties
  <2>4. /\ m.id \in 0..said'[c] \cup {Null}
        /\ m.id \in edits'[c] => m = Msg("call", m.id, "tools/call", "openDiff")
    <3>1. m.id \in 0..said'[c] \cup {Null} /\ Null \notin 1..said[c] /\ NoId \notin 1..said[c]
      BY IdFacts, <1>1, <1>2, <1>3
    <3>2. m.id \notin edits[c]
      BY <1>2, <1>3, <3>1 DEF ConvInv, EditsAreRefused
    <3> QED
      BY <1>3, <1>4, <3>1, <3>2
  <2>5. ASSUME NEW i \in DOMAIN inbox'[c]
        PROVE  /\ inbox'[c][i].id \in 0..said'[c] \cup {Null}
               /\ inbox'[c][i].id \in edits'[c] =>
                     inbox'[c][i] = Msg("call", inbox'[c][i].id, "tools/call", "openDiff")
    <3>1. CASE inbox'[c][i] = m
      BY <2>4, <3>1
    <3>2. CASE i \in DOMAIN inbox[c] /\ inbox'[c][i] = inbox[c][i]
      <4>1. /\ inbox[c][i].id \in 0..said[c] \cup {Null}
            /\ inbox[c][i].id \in edits[c] =>
                  inbox[c][i] = Msg("call", inbox[c][i].id, "tools/call", "openDiff")
        BY <3>2 DEF ConvInv, EditsAreRefused
      <4>2. /\ inbox[c][i].id \in 0..said'[c] \cup {Null}
            /\ inbox[c][i].id \in edits'[c] => inbox[c][i].id \in edits[c]
        <5> DEFINE x == inbox[c][i].id
        <5>1. x \in 0..said[c] \cup {Null}
          BY <4>1
        <5> HIDE DEF x
        <5>2. x \in 0..said'[c] \cup {Null} /\ (x \in edits'[c] => x \in edits[c])
          BY <2>2, <5>1
        <5> QED
          BY <5>2 DEF x
      <4> QED
        BY <3>2, <4>1, <4>2
    <3> QED
      BY <2>3, <3>1, <3>2
  <2>6. ASSUME NEW i \in DOMAIN held'[c]
        PROVE  /\ held'[c][i].id \in 0..said'[c] \cup {Null}
               /\ held'[c][i].id \in edits'[c] => held'[c][i].what # "done"
    <3> DEFINE x == held[c][i].id
    <3>1. /\ x \in 0..said[c] \cup {Null}
          /\ x \in edits[c] => held[c][i].what # "done"
      BY <1>1 DEF ConvInv, EditsAreRefused
    <3> HIDE DEF x
    <3>2. x \in 0..said'[c] \cup {Null} /\ (x \in edits'[c] => x \in edits[c])
      BY <2>2, <3>1
    <3> QED
      BY <1>1, <3>1, <3>2 DEF x
  <2> QED
    BY <2>1, <2>5, <2>6 DEF EditsAreRefused
<1> QED
  BY <1>7, <1>8, <1>9 DEF ConvInv

LEMMA ConvStep == McpInv /\ [Next]_vars => \A d \in Clients : ConvInv(d)'
<1> SUFFICES ASSUME McpInv, [Next]_vars PROVE \A d \in Clients : ConvInv(d)'
  OBVIOUS
<1>t. TypeOK /\ \A d \in Clients : ConvInv(d)
  BY DEF McpInv, ConvInv
<1> DEFINE Other(c) == \A d \in Clients \ {c} :
              /\ phase'[d] = phase[d] /\ held'[d] = held[d] /\ inbox'[d] = inbox[d]
              /\ owed'[d] = owed[d] /\ edits'[d] = edits[d] /\ said'[d] = said[d]
<1>o. ASSUME NEW c \in Clients, Other(c), ConvInv(c)' PROVE \A d \in Clients : ConvInv(d)'
  <2>1. ASSUME NEW d \in Clients \ {c} PROVE ConvInv(d)'
    <3>1. /\ phase'[d] = phase[d] /\ held'[d] = held[d] /\ inbox'[d] = inbox[d]
          /\ owed'[d] = owed[d] /\ edits'[d] = edits[d] /\ said'[d] = said[d]
      BY <1>o
    <3> QED
      BY <1>t, <3>1, Unmoved
  <2> QED
    BY <1>o, <2>1
<1>s. ASSUME UNCHANGED <<phase, held, inbox, owed, edits, said>>
      PROVE  \A d \in Clients : ConvInv(d)'
  BY <1>s, <1>t, Unmoved
<1>e. ASSUME NEW c \in Clients, Ends(c) PROVE \A d \in Clients : ConvInv(d)'
  BY <1>e, <1>t, OverConv DEF Ends
<1> USE DEF busVars, sideVars
<1>1. CASE UNCHANGED vars
  BY <1>1, <1>s DEF vars
<1>2. ASSUME NEW c \in Clients, Connect(c) PROVE \A d \in Clients : ConvInv(d)'
  <2>1. Other(c)
    BY <1>2, <1>t DEF Connect, TypeOK
  <2>2. phase[c] = "absent" /\ phase'[c] = "serving" /\ held[c] = <<>>
    BY <1>2, <1>t DEF Connect, TypeOK, ConvInv, TasksAreWhole
  <2>3. /\ held'[c] \in {<<>>, <<Replay>>} /\ inbox'[c] = inbox[c] /\ owed'[c] = owed[c]
        /\ edits'[c] = edits[c] /\ said'[c] = said[c]
    BY <1>2, <1>t DEF Connect, TypeOK
  <2>4. ConvInv(c)'
    BY <1>t, <2>2, <2>3, PushConv, FrameFacts
  <2> QED
    BY <1>o, <2>1, <2>4
<1>3. ASSUME NEW c \in Clients, Task(c) PROVE \A d \in Clients : ConvInv(d)'
  <2>1. CASE HandleMessage(c)
    <3>1. Other(c)
      BY <2>1, <1>t DEF HandleMessage, Reads, Hold, TypeOK
    <3> QED
      BY <2>1, <3>1, <1>o, <1>t, MessageConv
  <2>2. CASE HandleMention(c)
    <3>1. Other(c)
      BY <2>2, <1>t DEF HandleMention, Reads, TypeOK
    <3> QED
      BY <2>2, <3>1, <1>o, <1>t, MentionConv
  <2>3. CASE Forward(c)
    <3>1. Other(c)
      BY <2>3, <1>t DEF Forward, Hold, TypeOK
    <3>2. queue[c] \in Seq(Events) /\ queue[c] # <<>>
      BY <2>3, <1>t DEF Forward, Bus!Deliver, TypeOK, Bus!QTypeOK
    <3> DEFINE f == Frame(NoId, Head(queue[c]))
    <3>3. f.id = NoId /\ f # Bye
      BY <3>2, SeqFacts, FrameFacts DEF Frame
    <3>4. /\ phase[c] = "serving" /\ phase'[c] = "serving" /\ held[c] = <<>> /\ held'[c] = <<f>>
          /\ inbox'[c] = inbox[c] /\ owed'[c] = owed[c]
          /\ edits'[c] = edits[c] /\ said'[c] = said[c]
      BY <2>3, <1>t DEF Forward, Ready, Hold, TypeOK
    <3> HIDE DEF f
    <3>5. ConvInv(c)'
      BY <1>t, <3>3, <3>4, PushConv
    <3> QED
      BY <3>1, <3>5, <1>o
  <2>4. CASE Lag(c)
    BY <2>4, <1>s DEF Lag
  <2>5. CASE SendFrame(c)
    <3>1. Other(c)
      BY <2>5, <1>t DEF SendFrame, Hold, TypeOK
    <3> QED
      BY <2>5, <3>1, <1>o, <1>t, SendConv
  <2>6. CASE SendBye(c) \/ StreamEnds(c)
    BY <2>6, <1>e DEF SendBye, StreamEnds
  <2>7. CASE SendFails(c)
    <3>1. CASE held[c] = <<Replay>>
      <4>1. Other(c)
        BY <2>7, <3>1, <1>t DEF SendFails, Hold, TypeOK
      <4>2. held[c] # <<>> /\ held[c] # <<Bye>>
        BY <3>1, FrameFacts, Singles
      <4>3. phase[c] = "serving"
        BY <4>2, <1>t, HoldsServing DEF ConvInv
      <4>4. /\ phase'[c] = "serving" /\ held'[c] = <<>>
            /\ inbox'[c] = inbox[c] /\ owed'[c] = owed[c]
            /\ edits'[c] = edits[c] /\ said'[c] = said[c]
        BY <2>7, <3>1, <4>3, <1>t DEF SendFails, Hold, TypeOK
      <4>5. ConvInv(c)'
        <5>1. InHand(c) = 0 /\ InHand(c)' = 0
          BY <3>1, <4>4, Singles, FrameFacts DEF InHand
        <5>2. TasksAreWhole(c)'
          BY <4>4, Singles DEF TasksAreWhole
        <5>3. OwedInTurn(c)'
          BY <1>t, <4>4, <5>1 DEF ConvInv, OwedInTurn
        <5>4. EditsAreRefused(c)'
          BY <1>t, <4>4, Singles DEF ConvInv, EditsAreRefused
        <5> QED
          BY <5>2, <5>3, <5>4 DEF ConvInv
      <4> QED
        BY <4>1, <4>5, <1>o
    <3>2. CASE held[c] # <<Replay>>
      BY <2>7, <3>2, <1>e DEF SendFails
    <3> QED
      BY <3>1, <3>2
  <2>8. CASE Farewell(c)
    BY <2>8, <1>t, OverConv DEF Farewell
  <2> QED
    BY <1>3, <2>1, <2>2, <2>3, <2>4, <2>5, <2>6, <2>7, <2>8 DEF Task
<1>4. ASSUME NEW c \in Clients, Teardown(c) PROVE \A d \in Clients : ConvInv(d)'
  BY <1>4, <1>e DEF Teardown
<1>5. ASSUME NEW c \in Clients, Leave(c) PROVE \A d \in Clients : ConvInv(d)'
  BY <1>5, <1>s DEF Leave
<1>6. ASSUME NEW c \in Clis, CliSays(c) PROVE \A d \in Clients : ConvInv(d)'
  <2>1. c \in Clients
    BY DEF Clients
  <2>2. PICK m \in Inputs(said[c] + 1) :
          /\ Say(c, m)
          /\ owed' = IF m.id = NoId THEN owed ELSE [owed EXCEPT ![c] = Append(@, m.id)]
          /\ edits' = IF m.name = "openDiff" THEN [edits EXCEPT ![c] = @ \cup {m.id}] ELSE edits
          /\ UNCHANGED fate
    BY <1>6 DEF CliSays
  <2>3. Other(c)
    BY <2>1, <2>2, <1>t DEF Say, TypeOK
  <2>4. /\ owed'[c] = IF m.id = NoId THEN owed[c] ELSE Append(owed[c], m.id)
        /\ edits'[c] = IF m.name = "openDiff" THEN edits[c] \cup {m.id} ELSE edits[c]
    BY <2>1, <2>2, <1>t DEF TypeOK
  <2>5. said[c] + 1 \in 1..MaxMessages
    BY <2>1, <2>2, <1>t, IdFacts DEF Say, TypeOK
  <2>6. /\ m \in Messages /\ m.id \in {NoId, said[c] + 1, Null}
        /\ m.name = "openDiff" => m = Msg("call", said[c] + 1, "tools/call", "openDiff")
    BY <2>5, InputFacts
  <2>7. ConvInv(c)'
    BY <2>1, <2>2, <2>4, <2>6, <1>t, SayConv
  <2> QED
    BY <2>1, <2>3, <2>7, <1>o
<1>7. ASSUME NEW c \in Clis, ClientReads(c) PROVE \A d \in Clients : ConvInv(d)'
  BY <1>7, <1>s DEF ClientReads
<1>8. CASE HelperAsks
  <2>1. Helper \in Clients /\ UNCHANGED <<phase, held, owed, edits>>
    BY <1>8 DEF HelperAsks, Say, Clients
  <2> DEFINE m == Msg("call", NoId, "at_mention_request", "none")
  <2>2. /\ Say(Helper, m) /\ m.id = NoId /\ m.name # "openDiff" /\ m \in Messages
    BY <1>8, MsgFields, MsgTypes, IdFacts DEF HelperAsks, Forms, Methods, Tools
  <2> HIDE DEF m
  <2>3. Other(Helper)
    BY <2>1, <2>2, <1>t DEF Say, TypeOK
  <2>4. ConvInv(Helper)'
    BY <1>t, <2>1, <2>2, SayConv
  <2> QED
    BY <2>1, <2>3, <2>4, <1>o
<1>9. CASE Select
  BY <1>9, <1>s DEF Select
<1>10. CASE Cancel
  BY <1>10, <1>s DEF Cancel
<1> QED
  BY <1>1, <1>2, <1>3, <1>4, <1>5, <1>6, <1>7, <1>8, <1>9, <1>10 DEF Next

-----------------------------------------------------------------------------
(* What each step is to those who ask *)

\* When a conversation is over, so is its waiting.
LEMMA OverQuits ==
    ASSUME McpInv, NEW c \in Clients, NEW to \in {"closing", "closed"}, NEW frames,
           Over(c, to, frames), phase[c] # "absent"
    PROVE  Promise!Quit(c) \/ UNCHANGED Promise!rvars
<1>1. TypeOK /\ TasksAreWhole(c)
  BY DEF McpInv
<1>2. /\ phase' = [phase EXCEPT ![c] = to] /\ owed' = [owed EXCEPT ![c] = <<>>]
      /\ answers' = answers
  BY DEF Over
<1>3. CASE phase[c] = "serving"
  <2>1. {d \in Clients : phase'[d] \in {"absent", "serving"}}
          = {d \in Clients : phase[d] \in {"absent", "serving"}} \ {c}
    BY <1>1, <1>2 DEF TypeOK
  <2> QED
    BY <1>2, <1>3, <2>1 DEF Promise!Quit
<1>4. CASE phase[c] # "serving"
  <2>1. phase[c] \in {"closing", "closed"}
    BY <1>1, <1>4 DEF TypeOK
  <2>2. {d \in Clients : phase'[d] \in {"absent", "serving"}}
          = {d \in Clients : phase[d] \in {"absent", "serving"}}
    BY <1>1, <1>2, <2>1 DEF TypeOK
  <2>3. owed' = owed
    BY <1>1, <1>2, <1>4 DEF TypeOK, TasksAreWhole
  <2> QED
    BY <1>2, <2>2, <2>3 DEF Promise!rvars
<1> QED
  BY <1>3, <1>4

\* An answer that goes out is the one that is due.
LEMMA SendAnswers ==
    ASSUME McpInv, NEW c \in Clients, SendFrame(c)
    PROVE  Promise!Answer(c) \/ UNCHANGED Promise!rvars
<1>t. TypeOK /\ ConvInv(c)
  BY DEF McpInv, ConvInv
<1>1. phase[c] = "serving" /\ phase' = phase
  BY <1>t, HoldsServing DEF SendFrame, ConvInv
<1>2. PICK f \in Frames : held[c] = <<f>>
  BY <1>t DEF SendFrame, TypeOK
<1>3. Head(held[c]) = f /\ held[c][1] = f /\ held[c] # <<>>
  BY <1>2
<1>4. /\ answers' = [answers EXCEPT ![c] = IF f.id = NoId THEN @ ELSE Append(@, f.id)]
      /\ owed' = [owed EXCEPT ![c] = IF f.id = NoId \/ @ = <<>> THEN @ ELSE Tail(@)]
  BY <1>3 DEF SendFrame
<1>5. CASE f.id = NoId
  BY <1>1, <1>4, <1>5, <1>t DEF Promise!rvars, TypeOK
<1>6. CASE f.id # NoId
  <2>1. owed[c] # <<>> /\ owed[c][1] = f.id
    BY <1>3, <1>6, <1>t DEF ConvInv, OwedInTurn, InHand
  <2>2. Head(owed[c]) = f.id
    BY <2>1, <1>t, HeadTailProperties DEF TypeOK
  <2>3. /\ answers' = [answers EXCEPT ![c] = Append(@, Head(owed[c]))]
        /\ owed' = [owed EXCEPT ![c] = Tail(@)]
    BY <1>4, <1>6, <2>1, <2>2, <1>t DEF TypeOK
  <2> QED
    BY <1>1, <2>1, <2>3 DEF Promise!Answer
<1> QED
  BY <1>5, <1>6

\* A request comes with the next id of its client, or as something that has none.
AsksNext(c) ==
    /\ \E i \in {said[c] + 1, Null} : i \in Ids /\ Promise!Ask(c, i)
    /\ said' = [said EXCEPT ![c] = @ + 1]

LEMMA SayAsks ==
    ASSUME McpInv, NEW c \in Clis, CliSays(c)
    PROVE  /\ AsksNext(c) \/ UNCHANGED Promise!rvars
           /\ said' = [said EXCEPT ![c] = @ + 1]
<1>t. TypeOK /\ c \in Clients
  BY DEF McpInv, Clients
<1>1. PICK m \in Inputs(said[c] + 1) :
        /\ Say(c, m)
        /\ owed' = IF m.id = NoId THEN owed ELSE [owed EXCEPT ![c] = Append(@, m.id)]
  BY DEF CliSays
<1>2. said[c] + 1 \in 1..MaxMessages /\ said' = [said EXCEPT ![c] = @ + 1]
  BY <1>1, <1>t, IdFacts DEF Say, TypeOK
<1>3. m.id \in {NoId, said[c] + 1, Null}
  BY <1>2, InputFacts
<1>4. CASE m.id = NoId
  BY <1>1, <1>2, <1>4 DEF Say, Promise!rvars
<1>5. CASE m.id # NoId
  <2>1. m.id \in Ids
    BY <1>2, <1>3, <1>5, IdFacts DEF Ids, Null
  <2>2. Promise!Ask(c, m.id)
    BY <1>1, <1>5, <1>t DEF Say, Promise!Ask
  <2> QED
    BY <1>2, <1>3, <1>5, <2>1, <2>2 DEF AsksNext
<1> QED
  BY <1>4, <1>5

\* What a step is to those who ask.
PromiseStep ==
    \/ UNCHANGED Promise!rvars
    \/ \E c \in Clients : Promise!Answer(c) \/ Promise!Quit(c) \/ AsksNext(c)

LEMMA StepKeepsPromise ==
    ASSUME McpInv, [Next]_vars
    PROVE  PromiseStep /\ \A c \in Clients : said[c] <= said'[c]
<1>t. TypeOK /\ \A c \in Clients : ConvInv(c)
  BY DEF McpInv, ConvInv
<1>h. \A c \in Clients : held[c] # <<>> => phase[c] # "absent"
  BY <1>t DEF ConvInv, TasksAreWhole
<1>s. said \in [Clients -> Nat]
  BY <1>t, IdFacts DEF TypeOK
<1>e. ASSUME NEW c \in Clients, Ends(c), phase[c] # "absent"
      PROVE  PromiseStep /\ said' = said
  BY <1>e, OverQuits DEF Ends, Over, sideVars, PromiseStep
<1>1. ASSUME NEW c \in Clients, Connect(c) PROVE PromiseStep /\ said' = said
  <2>1. {d \in Clients : phase'[d] \in {"absent", "serving"}}
          = {d \in Clients : phase[d] \in {"absent", "serving"}}
    BY <1>1, <1>t DEF Connect, TypeOK
  <2> QED
    BY <1>1, <2>1 DEF Connect, Promise!rvars, PromiseStep
<1>2. ASSUME NEW c \in Clients, Task(c) PROVE PromiseStep /\ said' = said
  <2>1. CASE HandleMessage(c) \/ HandleMention(c) \/ Forward(c) \/ Lag(c)
    BY <2>1 DEF HandleMessage, HandleMention, Forward, Lag, Promise!rvars, PromiseStep
  <2>2. CASE SendFrame(c)
    BY <2>2, SendAnswers DEF SendFrame, PromiseStep
  <2>3. CASE SendBye(c)
    <3>1. held[c] # <<>> /\ Ends(c)
      BY <2>3 DEF SendBye
    <3> QED
      BY <3>1, <1>e, <1>h
  <2>4. CASE SendFails(c)
    <3>1. CASE held[c] = <<Replay>>
      BY <2>4, <3>1 DEF SendFails, Promise!rvars, PromiseStep
    <3>2. CASE held[c] # <<Replay>>
      BY <2>4, <3>2, <1>e, <1>h DEF SendFails
    <3> QED
      BY <3>1, <3>2
  <2>5. CASE StreamEnds(c)
    BY <2>5, <1>e DEF StreamEnds, Ready
  <2>6. CASE Farewell(c)
    <3>1. phase[c] # "absent" /\ Over(c, "closing", <<Bye>>) /\ said' = said
      BY <2>6 DEF Farewell, Ready, Over
    <3> QED
      BY <3>1, OverQuits DEF PromiseStep
  <2> QED
    BY <1>2, <2>1, <2>2, <2>3, <2>4, <2>5, <2>6 DEF Task
<1>3. ASSUME NEW c \in Clients, Teardown(c) PROVE PromiseStep /\ said' = said
  BY <1>3, <1>e DEF Teardown
<1>4. ASSUME NEW c \in Clis, CliSays(c)
      PROVE  PromiseStep /\ said' = [said EXCEPT ![c] = @ + 1]
  BY <1>4, SayAsks DEF Clients, PromiseStep
<1>5. ASSUME NEW c \in Clients, Leave(c) \/ (c \in Clis /\ ClientReads(c))
      PROVE  PromiseStep /\ said' = said
  BY <1>5 DEF Leave, ClientReads, Promise!rvars, PromiseStep
<1>6. ASSUME HelperAsks \/ Select \/ Cancel \/ UNCHANGED vars PROVE PromiseStep
  <2>1. phase' = phase /\ answers' = answers /\ owed' = owed
    BY <1>6 DEF HelperAsks, Say, Select, Cancel, vars
  <2> QED
    BY <2>1 DEF Promise!rvars, PromiseStep
<1>7. \/ said' = said
      \/ \E c \in Clients : said' = [said EXCEPT ![c] = @ + 1]
  <2>1. CASE HelperAsks
    BY <2>1 DEF HelperAsks, Say, Clients
  <2>2. CASE Select \/ Cancel \/ UNCHANGED vars
    BY <2>2 DEF Select, Cancel, vars, sideVars
  <2> QED
    BY <1>1, <1>2, <1>3, <1>4, <1>5, <2>1, <2>2 DEF Next, Clients
<1>8. PromiseStep
  BY <1>1, <1>2, <1>3, <1>4, <1>5, <1>6 DEF Next, Clients
<1>9. \A c \in Clients : said[c] <= said'[c]
  BY <1>7, <1>s
<1> QED
  BY <1>8, <1>9

-----------------------------------------------------------------------------
(* No answer comes twice *)

\* A list of ids that rises does so when it is cut short, and when a new id, or one that
\* stands for none, comes behind it.
LEMMA RisingShorter ==
    ASSUME NEW s \in Seq(Ids), NEW t \in Seq(Ids), NEW top, Rising(t, top),
           Len(s) <= Len(t), \A i \in 1..Len(s) : s[i] = t[i]
    PROVE  Rising(s, top)
  BY DEF Rising

LEMMA RisingLonger ==
    ASSUME NEW s \in Seq(Ids), NEW top \in Nat, Rising(s, top), NEW i \in Ids,
           i \in {top + 1, Null}
    PROVE  Rising(Append(s, i), top + 1)
<1>1. /\ DOMAIN s = 1..Len(s) /\ DOMAIN Append(s, i) = 1..(Len(s) + 1) /\ Len(s) \in Nat
      /\ \A k \in 1..Len(s) : Append(s, i)[k] = s[k] /\ s[k] \in Nat
      /\ Append(s, i)[Len(s) + 1] = i
  BY IdFacts DEF Ids
<1>2. i \in Nat
  BY IdFacts DEF Ids
<1>3. ASSUME NEW k \in DOMAIN Append(s, i), Append(s, i)[k] # Null
      PROVE  Append(s, i)[k] <= top + 1
  BY <1>1, <1>2, <1>3 DEF Rising
<1>4. ASSUME NEW j \in DOMAIN Append(s, i), NEW k \in DOMAIN Append(s, i), j < k,
             Append(s, i)[j] # Null, Append(s, i)[k] # Null
      PROVE  Append(s, i)[j] < Append(s, i)[k]
  <2>1. j \in 1..Len(s) /\ s[j] <= top /\ s[j] \in Nat /\ Append(s, i)[j] = s[j] /\ s[j] # Null
    BY <1>1, <1>4 DEF Rising
  <2>2. CASE k = Len(s) + 1
    BY <1>1, <1>4, <2>1, <2>2
  <2>3. CASE k # Len(s) + 1
    <3>1. k \in 1..Len(s) /\ Append(s, i)[k] = s[k] /\ s[k] # Null
      BY <1>1, <1>4, <2>3
    <3> QED
      BY <1>1, <1>4, <2>1, <3>1 DEF Rising
  <2> QED
    BY <2>2, <2>3
<1> QED
  BY <1>3, <1>4 DEF Rising

LEMMA RisingMore ==
    ASSUME NEW s \in Seq(Ids), NEW top \in Nat, NEW more \in Nat, Rising(s, top), top <= more
    PROVE  Rising(s, more)
<1>1. \A i \in DOMAIN s : s[i] \in Nat
  BY IdFacts DEF Ids
<1> QED
  BY <1>1 DEF Rising

\* What waits and what has gone out, one behind the other, is what was asked.
LEMMA OnceStep == McpInv /\ [Next]_vars => AnsweredOnce'
<1> SUFFICES ASSUME McpInv, [Next]_vars, NEW d \in Clients
             PROVE  Rising(answers'[d] \o owed'[d], said'[d])
  BY DEF AnsweredOnce
<1>t. TypeOK
  BY DEF McpInv
<1> DEFINE all == answers[d] \o owed[d]
<1>1. /\ answers \in [Clients -> Seq(Ids)] /\ owed \in [Clients -> Seq(Ids)]
      /\ said \in [Clients -> Nat] /\ said[d] \in Nat
  BY <1>t, IdFacts DEF TypeOK
<1>2. Rising(all, said[d]) /\ all \in Seq(Ids)
  BY <1>1 DEF McpInv, AnsweredOnce
<1>3. answers'[d] \in Seq(Ids) /\ owed'[d] \in Seq(Ids) /\ said'[d] \in Nat
  BY TypeStep, IdFacts DEF TypeOK
<1>4. PromiseStep /\ said[d] <= said'[d]
  BY StepKeepsPromise
<1>5. ASSUME Rising(answers'[d] \o owed'[d], said[d])
      PROVE  Rising(answers'[d] \o owed'[d], said'[d])
  <2>1. answers'[d] \o owed'[d] \in Seq(Ids)
    BY <1>3
  <2> QED
    BY <1>1, <1>3, <1>4, <1>5, <2>1, RisingMore
<1>6. CASE UNCHANGED Promise!rvars
  BY <1>2, <1>5, <1>6 DEF Promise!rvars
<1>7. ASSUME NEW c \in Clients, Promise!Answer(c)
      PROVE  Rising(answers'[d] \o owed'[d], said'[d])
  <2>1. answers'[d] \o owed'[d] = all
    <3>1. CASE c = d
      <4>1. /\ answers'[d] = Append(answers[d], Head(owed[d])) /\ owed'[d] = Tail(owed[d])
            /\ owed[d] # <<>>
        BY <1>1, <1>7, <3>1 DEF Promise!Answer
      <4> QED
        BY <1>1, <4>1
    <3>2. CASE c # d
      BY <1>1, <1>7, <3>2 DEF Promise!Answer
    <3> QED
      BY <3>1, <3>2
  <2> QED
    BY <1>2, <1>5, <2>1
<1>8. ASSUME NEW c \in Clients, Promise!Quit(c)
      PROVE  Rising(answers'[d] \o owed'[d], said'[d])
  <2>1. answers'[d] = answers[d] /\ owed'[d] \in {owed[d], <<>>}
    BY <1>1, <1>8 DEF Promise!Quit
  <2>2. Rising(answers[d] \o <<>>, said[d])
    <3>1. /\ answers[d] \o <<>> \in Seq(Ids) /\ Len(answers[d] \o <<>>) <= Len(all)
          /\ \A i \in 1..Len(answers[d] \o <<>>) : (answers[d] \o <<>>)[i] = all[i]
      BY <1>1
    <3> QED
      BY <1>2, <3>1, RisingShorter
  <2> QED
    BY <1>2, <1>5, <2>1, <2>2
<1>9. ASSUME NEW c \in Clients, AsksNext(c)
      PROVE  Rising(answers'[d] \o owed'[d], said'[d])
  <2>1. PICK i \in {said[c] + 1, Null} : i \in Ids /\ Promise!Ask(c, i)
    BY <1>9 DEF AsksNext
  <2>2. CASE c = d
    <3>1. /\ answers'[d] = answers[d] /\ owed'[d] = Append(owed[d], i)
          /\ said'[d] = said[d] + 1
      BY <1>1, <1>9, <2>1, <2>2 DEF AsksNext, Promise!Ask
    <3>2. answers[d] \o Append(owed[d], i) = Append(all, i)
      BY <1>1, <2>1
    <3>3. Rising(Append(all, i), said[d] + 1)
      BY <1>1, <1>2, <2>1, <2>2, RisingLonger
    <3> QED
      BY <3>1, <3>2, <3>3
  <2>3. CASE c # d
    BY <1>1, <1>2, <1>5, <2>1, <2>3 DEF Promise!Ask
  <2> QED
    BY <2>2, <2>3
<1> QED
  BY <1>4, <1>6, <1>7, <1>8, <1>9 DEF PromiseStep

-----------------------------------------------------------------------------
(* Theorems *)

LEMMA McpInit == Init => McpInv
<1> SUFFICES ASSUME Init PROVE McpInv
  OBVIOUS
<1> USE IdFacts DEF Init
<1>1. TypeOK
  <2>1. Bus!QTypeOK /\ attached = {}
    BY SeqFacts DEF Bus!QTypeOK, Bus!QInit
  <2>2. inbox \in [Clients -> Seq(Messages)] /\ \A c \in Clients : Len(inbox[c]) <= Room
    BY SeqFacts
  <2>3. owed \in [Clients -> Seq(Ids)] /\ answers \in [Clients -> Seq(Ids)]
    BY SeqFacts
  <2>4. {c \in Clients : phase[c] = "serving"} = {}
    OBVIOUS
  <2>5. /\ edits \in [Clients -> SUBSET Ids] /\ said \in [Clients -> 0..MaxMessages]
        /\ unread \in [Clients -> 0..Room] /\ selections \in 0..MaxSelections
    OBVIOUS
  <2>6. /\ phase \in [Clients -> {"absent", "serving", "closing", "closed"}]
        /\ held \in [Clients -> {<<>>} \cup {<<f>> : f \in Frames}]
    OBVIOUS
  <2> QED
    BY <2>1, <2>2, <2>3, <2>4, <2>5, <2>6 DEF TypeOK
<1>2. ASSUME NEW c \in Clients PROVE ConvInv(c)
  <2>1. /\ phase[c] = "absent" /\ held[c] = <<>> /\ inbox[c] = <<>> /\ owed[c] = <<>>
        /\ edits[c] = {}
    OBVIOUS
  <2>2. TasksAreWhole(c)
    BY <2>1 DEF TasksAreWhole
  <2>3. OwedInTurn(c)
    BY <2>1, CountsNone DEF OwedInTurn, InHand
  <2>4. EditsAreRefused(c)
    BY <2>1, Singles DEF EditsAreRefused
  <2> QED
    BY <2>2, <2>3, <2>4 DEF ConvInv
<1>3. ASSUME NEW c \in Clients PROVE Rising(answers[c] \o owed[c], said[c])
  <2>1. answers[c] \o owed[c] = <<>>
    OBVIOUS
  <2> QED
    BY <2>1 DEF Rising
<1> QED
  BY <1>1, <1>2, <1>3 DEF McpInv, ConvInv, AnsweredOnce

\* What a task holds and has not read accounts for all that its client waits for, in order,
\* and nothing that went out comes again, whatever the other clients, the bus and the shutdown do (connection.rs:228-398).
THEOREM McpCorrect == Spec => []McpInv
<1>1. McpInv /\ [Next]_vars => McpInv'
  BY TypeStep, ConvStep, OnceStep DEF McpInv, ConvInv
<1> QED
  BY <1>1, McpInit, PTL DEF Spec

\* No answer that is held for a client says that an edit it asked for was made
\* (protocol.rs:270-292).
THEOREM EditsRefused == Spec => []NoEditIsClaimed
<1>1. McpInv => NoEditIsClaimed
  BY DEF McpInv, EditsAreRefused, NoEditIsClaimed
<1> QED
  BY <1>1, McpCorrect, PTL

\* A conversation that ends does so because the client left or broke the protocol, or the
\* companion stops (connection.rs:228-398).
THEOREM EndsOnlyForAReason == Spec => EndsForAReason
<1> DEFINE Reason(c) == \/ c \notin here \/ cancelled
                        \/ (inbox[c] # <<>> /\ Head(inbox[c]).form = "broken")
           Reasoned == \A c \in Clients :
                          phase[c] = "serving" /\ phase'[c] # "serving" => Reason(c)
<1>1. McpInv /\ [Next]_vars => Reasoned
  <2> SUFFICES ASSUME McpInv, [Next]_vars, NEW c \in Clients,
                      phase[c] = "serving", phase'[c] # "serving"
               PROVE  Reason(c)
    OBVIOUS
  <2>1. phase \in [Clients -> {"absent", "serving", "closing", "closed"}]
    BY DEF McpInv, TypeOK
  <2>2. held[c] # <<Bye>>
    BY DEF McpInv, TasksAreWhole
  <2>3. ASSUME NEW d \in Clients, Connect(d) \/ Task(d) \/ Teardown(d) \/ Leave(d)
        PROVE  Reason(c)
    <3>1. CASE Connect(d)
      BY <2>1, <3>1 DEF Connect
    <3>2. CASE HandleMessage(d) \/ HandleMention(d) \/ Forward(d) \/ Lag(d) \/ SendFrame(d)
      BY <3>2 DEF HandleMessage, HandleMention, Forward, Lag, SendFrame
    <3>3. CASE SendBye(d)
      BY <2>1, <2>2, <3>3 DEF SendBye, Ends, Over
    <3>4. CASE SendFails(d)
      BY <2>1, <3>4 DEF SendFails, Ends, Over
    <3>5. CASE StreamEnds(d)
      BY <2>1, <3>5 DEF StreamEnds, Ends, Over
    <3>6. CASE Farewell(d)
      BY <3>6 DEF Farewell
    <3>7. CASE Teardown(d)
      BY <3>7 DEF Teardown
    <3>8. CASE Leave(d)
      BY <3>8 DEF Leave
    <3> QED
      BY <2>3, <3>1, <3>2, <3>3, <3>4, <3>5, <3>6, <3>7, <3>8 DEF Task
  <2>4. ASSUME NEW d \in Clis, CliSays(d) \/ ClientReads(d) PROVE Reason(c)
    BY <2>4 DEF CliSays, Say, ClientReads
  <2>5. CASE HelperAsks \/ Select \/ Cancel \/ UNCHANGED vars
    BY <2>5 DEF HelperAsks, Say, Select, Cancel, vars
  <2> QED
    BY <2>3, <2>4, <2>5 DEF Next
<1>2. McpInv /\ [Next]_vars => [Reasoned]_vars
  BY <1>1
<1> QED
  BY <1>2, McpCorrect, PTL DEF Spec, EndsForAReason

\* The safety of ImplementsRequestReply: whatever the interleaving, requests are answered in
\* the order they came, once, with their own ids, and nothing else is (connection.rs:228-398,
\* protocol.rs:70-133).
THEOREM AnswersInTurn == Spec => Promise!RSpec
<1>1. Init => Promise!RInit
  BY DEF Init, Promise!RInit
<1>2. McpInv /\ [Next]_vars => [Promise!RNext]_(Promise!rvars)
  BY StepKeepsPromise DEF PromiseStep, AsksNext, Promise!RNext
<1> QED
  BY <1>1, <1>2, McpCorrect, PTL DEF Spec, Promise!RSpec

\* No CLI gets a second answer to a request, nor one out of turn, whatever the events that
\* are pushed between them and the messages that have no answer (connection.rs:228-398).
THEOREM AnswersOnlyOnce == Spec => []AnsweredOnce
  BY McpCorrect, PTL DEF McpInv
=============================================================================

-------------------------- MODULE SelectionBusProofs --------------------------
(***************************************************************************)
(* Proofs about SelectionBus, for every number of connections, every set   *)
(* of selections, every ring size and every bound on the inputs.           *)
(***************************************************************************)
EXTENDS SelectionBus, SequenceTheorems, TLAPS

-----------------------------------------------------------------------------
(* Type correctness *)

\* An event of either kind is a member of Event, with the fields it was made of.
LEMMA EventFields ==
    /\ \A s \in Selections : SelectionChanged(s) \in Event
    /\ \A m \in Mentions : AtMentioned(m) \in Event
    /\ \A e \in Event : e.kind = "selection" => e.of \in Selections
  BY DEF SelectionChanged, AtMentioned, Event

\* What a broadcast does to the log: nothing, or one event at its end.
LEMMA BroadcastAppends ==
    ASSUME NEW e \in Event, events \in Seq(Event), Broadcast(e)
    PROVE  /\ events' \in Seq(Event)
           /\ Receivers = {} => events' = events
           /\ Receivers # {} => events' = Append(events, e)
           /\ Len(events) <= Len(events')
           /\ \A i \in 1..Len(events) : events'[i] = events[i]
  BY DEF Broadcast

\* Every step keeps the variables within their types: in particular no cursor
\* runs past the position after the newest event.
LEMMA TypeStep == TypeOK /\ [Next]_vars => TypeOK'
<1> SUFFICES ASSUME TypeOK, [Next]_vars PROVE TypeOK'
  OBVIOUS
<1> USE DEF TrackerStates, Phases
<1>1. CASE UNCHANGED vars
  BY <1>1 DEF TypeOK, vars
<1>2. ASSUME NEW s \in Selections, Report(s) PROVE TypeOK'
  BY <1>2, BoundAssumption DEF TypeOK, Report, connVars
<1>3. CASE TrackerStep
  <2>1. CASE Wake
    BY <2>1 DEF TypeOK, Wake, connVars
  <2>2. CASE Restart
    BY <2>2 DEF TypeOK, Restart, connVars
  <2>3. CASE Settle
    BY <2>3 DEF TypeOK, Settle, connVars
  <2>4. CASE Record
    BY <2>4 DEF TypeOK, Record, connVars
  <2>5. CASE Send
    <3>1. Broadcast(SelectionChanged(lastSent)) /\ SelectionChanged(lastSent) \in Event
      BY <2>5, EventFields DEF Send, TypeOK
    <3>2. events' \in Seq(Event) /\ Len(events) <= Len(events')
      BY <3>1, BroadcastAppends DEF TypeOK
    <3>3. \A c \in Conns : cursor'[c] <= Len(events') + 1
      BY <2>5, <3>2 DEF TypeOK, Send, connVars
    <3> QED
      BY <2>5, <3>2, <3>3 DEF TypeOK, Send, connVars
  <2>6. CASE StopTracker
    BY <2>6 DEF TypeOK, StopTracker, connVars
  <2> QED
    BY <1>3, <2>1, <2>2, <2>3, <2>4, <2>5, <2>6 DEF TrackerStep
<1>4. ASSUME NEW c \in Conns, ConnStep(c) PROVE TypeOK'
  <2> USE DEF trackerVars
  <2>1. CASE Connect(c)
    BY <2>1 DEF TypeOK, Connect
  <2>2. CASE Reject(c)
    BY <2>2 DEF TypeOK, Reject
  <2>3. CASE Subscribe(c)
    BY <2>3 DEF TypeOK, Subscribe
  <2>4. CASE ReadLatest(c)
    BY <2>4 DEF TypeOK, ReadLatest
  <2>5. CASE Forward(c)
    <3>1. cursor[c] \in 1..Len(events)
      BY <2>5 DEF TypeOK, Forward, Retained, Oldest
    <3>2. events[cursor[c]].kind = "selection" => events[cursor[c]].of \in Selections
      BY <3>1, EventFields DEF TypeOK
    <3> QED
      BY <2>5, <3>1, <3>2 DEF TypeOK, Forward
  <2>6. CASE Lag(c)
    BY <2>6, RingAssumption DEF TypeOK, Lag, Oldest
  <2>7. CASE MentionRequest(c)
    <3>1. mentions' \in 0..MaxMentions
      BY <2>7, BoundAssumption DEF TypeOK, MentionRequest
    <3>2. CASE latest = None
      BY <2>7, <3>1, <3>2 DEF TypeOK, MentionRequest
    <3>3. CASE latest # None
      <4>1. MentionOf[latest] \in Mentions /\ MentionOf[latest] # None
        BY <3>3, NoneAssumption, MentionAssumption DEF TypeOK
      <4>2. /\ held' = [held EXCEPT ![c] = MentionOf[latest]]
            /\ phase' = [phase EXCEPT ![c] = "mentioning"]
        BY <2>7, <3>3 DEF MentionRequest
      <4>3. \A d \in Conns : phase'[d] = "mentioning" => held'[d] # None
        BY <4>1, <4>2 DEF TypeOK
      <4> QED
        BY <2>7, <3>1, <4>1, <4>2, <4>3 DEF TypeOK, MentionRequest
    <3> QED
      BY <3>2, <3>3
  <2>8. CASE PublishMention(c)
    <3>1. Broadcast(AtMentioned(held[c])) /\ AtMentioned(held[c]) \in Event
      BY <2>8, EventFields DEF PublishMention, TypeOK
    <3>2. events' \in Seq(Event) /\ Len(events) <= Len(events')
      BY <3>1, BroadcastAppends DEF TypeOK
    <3>3. \A d \in Conns : cursor'[d] <= Len(events') + 1
      BY <2>8, <3>2 DEF TypeOK, PublishMention
    <3> QED
      BY <2>8, <3>2, <3>3 DEF TypeOK, PublishMention
  <2>9. CASE HangUp(c)
    BY <2>9 DEF TypeOK, HangUp
  <2>10. CASE GoAway(c)
    BY <2>10 DEF TypeOK, GoAway
  <2> QED
    BY <1>4, <2>1, <2>2, <2>3, <2>4, <2>5, <2>6, <2>7, <2>8, <2>9, <2>10 DEF ConnStep
<1>5. CASE Cancel
  BY <1>5 DEF TypeOK, Cancel, trackerVars, connVars
<1> QED
  BY <1>1, <1>2, <1>3, <1>4, <1>5 DEF Next

\* The tracker, the bus and the connections stay within their types whatever the
\* editor and the clients do.
THEOREM TypeCorrect == Spec => []TypeOK
<1>1. Init => TypeOK
  <2> SUFFICES ASSUME Init PROVE TypeOK
    OBVIOUS
  <2>1. events \in Seq(Event) /\ Len(events) = 0
    BY DEF Init
  <2>2. /\ cursor \in [Conns -> Nat \ {0}]
        /\ \A c \in Conns : cursor[c] <= Len(events) + 1
    BY <2>1 DEF Init
  <2>3. /\ phase \in [Conns -> Phases]
        /\ \A c \in Conns : phase[c] # "mentioning"
    BY DEF Init, Phases
  <2>4. /\ shown \in [Conns -> Selections \cup {None}]
        /\ held \in [Conns -> Mentions \cup {None}]
    BY DEF Init
  <2>5. reports \in 0..MaxReports /\ mentions \in 0..MaxMentions
    BY BoundAssumption DEF Init
  <2> QED
    BY <2>1, <2>2, <2>3, <2>4, <2>5 DEF Init, TypeOK, TrackerStates
<1> QED
  BY <1>1, TypeStep, PTL DEF Spec

-----------------------------------------------------------------------------
(* The newest selection is not missed *)

\* The invariant for one connection, in a state that publishes nothing just now.
LEMMA ReplayQuiet ==
    ASSUME NEW c \in Conns, TypeOK,
           Attached(c)', phase'[c] = phase[c],
           PendingEndsInLatest(c), ShownWhenNothingPending(c),
           UNCHANGED <<latest, events>>, cursor'[c] = cursor[c], shown'[c] = shown[c]
    PROVE  PendingEndsInLatest(c)' /\ ShownWhenNothingPending(c)'
<1>1. Pending(c)' = Pending(c)
  BY DEF Pending
<1>2. MentionFlood' = MentionFlood
  BY DEF MentionFlood, Retained, Oldest
<1> QED
  BY <1>1, <1>2 DEF PendingEndsInLatest, ShownWhenNothingPending

\* A mention at the end of the log adds nothing to what is pending, and a flood
\* stays a flood.
LEMMA ReplayMention ==
    ASSUME NEW c \in Conns, TypeOK, NEW m \in Mentions,
           phase'[c] # "subscribed" => phase[c] # "subscribed",
           PendingEndsInLatest(c), ShownWhenNothingPending(c),
           events' = Append(events, AtMentioned(m)),
           latest' = latest, cursor'[c] = cursor[c], shown'[c] = shown[c]
    PROVE  PendingEndsInLatest(c)' /\ ShownWhenNothingPending(c)'
<1>1. /\ events \in Seq(Event) /\ cursor[c] \in Nat \ {0} /\ RingSize \in Nat \ {0}
      /\ Len(events) \in Nat /\ Len(events') = Len(events) + 1
      /\ \A i \in 1..Len(events) : events'[i] = events[i]
      /\ events'[Len(events) + 1].kind = "mention"
  BY RingAssumption DEF TypeOK, AtMentioned
<1>2. Pending(c)' = Pending(c)
  BY <1>1 DEF Pending
<1>3. \A i \in Pending(c) : events'[i] = events[i]
  BY <1>1 DEF Pending
<1>4. MentionFlood => MentionFlood'
  BY <1>1 DEF MentionFlood, Retained, Oldest
<1> QED
  BY <1>2, <1>3, <1>4 DEF PendingEndsInLatest, ShownWhenNothingPending

\* Every step keeps NewestIsPending.  The steps that matter are the four that move a
\* cursor or write what a client was told, and the two that append to the log.
LEMMA ReplayStep == TypeOK /\ NewestIsPending /\ [Next]_vars => NewestIsPending'
<1> SUFFICES ASSUME TypeOK, NewestIsPending, [Next]_vars PROVE NewestIsPending'
  OBVIOUS
<1> USE DEF Receivers, Attached
<1>q. ASSUME UNCHANGED <<latest, events, connVars>>,
             LastSentAgrees', tracker' # "send" => tracker # "send"
      PROVE  NewestIsPending'
  <2> SUFFICES ASSUME tracker' # "send", NEW c \in Receivers'
               PROVE  PendingEndsInLatest(c)' /\ ShownWhenNothingPending(c)'
    BY <1>q DEF NewestIsPending
  <2> QED
    BY <1>q, ReplayQuiet DEF NewestIsPending, connVars
<1>1. CASE UNCHANGED vars
  BY <1>1, <1>q DEF NewestIsPending, LastSentAgrees, vars, connVars
<1>2. ASSUME NEW s \in Selections, Report(s) PROVE NewestIsPending'
  BY <1>2, <1>q DEF NewestIsPending, LastSentAgrees, Report
<1>3. CASE TrackerStep
  <2>1. CASE Wake
    BY <2>1, <1>q DEF NewestIsPending, LastSentAgrees, Wake
  <2>2. CASE Restart
    BY <2>2, <1>q DEF NewestIsPending, LastSentAgrees, Restart
  <2>3. CASE Settle
    BY <2>3, <1>q DEF NewestIsPending, LastSentAgrees, Settle
  <2>4. CASE Record
    BY <2>4 DEF NewestIsPending, LastSentAgrees, Record
  <2>5. CASE Send
    <3>1. lastSent = latest /\ latest \in Selections /\ UNCHANGED <<latest, connVars, lastSent>>
      BY <2>5 DEF NewestIsPending, LastSentAgrees, Send, TypeOK
    <3>2. LastSentAgrees'
      BY <2>5, <3>1 DEF LastSentAgrees, Send
    <3>3. ASSUME NEW c \in Receivers'
          PROVE  PendingEndsInLatest(c)' /\ ShownWhenNothingPending(c)'
      <4>1. events' = Append(events, SelectionChanged(latest)) /\ c \in Conns
        BY <2>5, <3>1, <3>3 DEF Send, Broadcast, connVars
      <4>2. /\ Len(events') = Len(events) + 1 /\ Len(events) \in Nat
            /\ events'[Len(events')].kind = "selection"
            /\ events'[Len(events')].of = latest'
            /\ cursor'[c] \in Nat /\ cursor'[c] <= Len(events')
        BY <3>1, <4>1 DEF TypeOK, SelectionChanged, connVars
      <4>3. Len(events') \in Pending(c)' /\ \A j \in Pending(c)' : j <= Len(events')
        BY <4>2 DEF Pending
      <4> QED
        BY <4>2, <4>3 DEF PendingEndsInLatest, ShownWhenNothingPending
    <3> QED
      BY <3>2, <3>3 DEF NewestIsPending
  <2>6. CASE StopTracker
    BY <2>6, <1>q DEF NewestIsPending, LastSentAgrees, StopTracker
  <2> QED
    BY <1>3, <2>1, <2>2, <2>3, <2>4, <2>5, <2>6 DEF TrackerStep
<1>4. ASSUME NEW c \in Conns, ConnStep(c) PROVE NewestIsPending'
  <2>0. UNCHANGED <<trackerVars, latest>> /\ LastSentAgrees'
    BY <1>4 DEF ConnStep, Connect, Reject, Subscribe, ReadLatest, Forward, Lag, HangUp,
                MentionRequest, PublishMention, GoAway, trackerVars, NewestIsPending, LastSentAgrees
  \* What is left to show: each connection on the bus after the step.
  <2> SUFFICES ASSUME tracker # "send", NEW d \in Conns, Attached(d)'
               PROVE  PendingEndsInLatest(d)' /\ ShownWhenNothingPending(d)'
    BY <2>0 DEF NewestIsPending, trackerVars
  <2>a. Attached(d) => PendingEndsInLatest(d) /\ ShownWhenNothingPending(d)
    BY DEF NewestIsPending
  <2>t. /\ phase \in [Conns -> Phases] /\ cursor \in [Conns -> Nat \ {0}]
        /\ shown \in [Conns -> Selections \cup {None}] /\ events \in Seq(Event)
        /\ Len(events) \in Nat /\ RingSize \in Nat \ {0}
    BY RingAssumption DEF TypeOK
  \* A step that leaves d's phase, cursor and view and the log alone.
  <2>b. ASSUME UNCHANGED <<latest, events>>, phase'[d] = phase[d],
               cursor'[d] = cursor[d], shown'[d] = shown[d]
        PROVE  PendingEndsInLatest(d)' /\ ShownWhenNothingPending(d)'
    BY <2>a, <2>b, ReplayQuiet
  <2>1. CASE Connect(c) \/ Reject(c) \/ HangUp(c) \/ GoAway(c)
    BY <2>1, <2>b, <2>t DEF Connect, Reject, HangUp, GoAway
  <2>2. CASE Subscribe(c)
    <3>1. CASE d # c
      BY <3>1, <2>2, <2>b, <2>t DEF Subscribe
    <3>2. CASE d = c
      BY <3>2, <2>2, <2>t DEF Subscribe, PendingEndsInLatest, ShownWhenNothingPending, Pending
    <3> QED
      BY <3>1, <3>2
  <2>3. CASE ReadLatest(c)
    <3>1. CASE d # c
      BY <3>1, <2>3, <2>b, <2>t DEF ReadLatest
    <3>2. CASE d = c
      <4>1. Pending(d)' = Pending(d) /\ shown'[d] = latest'
        BY <3>2, <2>3, <2>t DEF ReadLatest, Pending
      <4> QED
        BY <4>1, <3>2, <2>3, <2>a DEF ReadLatest, PendingEndsInLatest, ShownWhenNothingPending
    <3> QED
      BY <3>1, <3>2
  <2>4. CASE Forward(c)
    <3>1. CASE d # c
      BY <3>1, <2>4, <2>b, <2>t DEF Forward
    <3>2. CASE d = c
      <4>1. /\ cursor[d] \in 1..Len(events) /\ cursor'[d] = cursor[d] + 1
            /\ UNCHANGED <<events, latest, phase>> /\ phase[d] = "serving"
            /\ shown'[d] = IF events[cursor[d]].kind = "selection"
                           THEN events[cursor[d]].of ELSE shown[d]
        BY <3>2, <2>4, <2>t DEF Forward, Retained, Oldest
      <4>2. Pending(d)' = Pending(d) \ {cursor[d]}
        BY <4>1, <2>t DEF Pending
      <4>3. MentionFlood' = MentionFlood
        BY <4>1 DEF MentionFlood, Retained, Oldest
      <4>4. CASE events[cursor[d]].kind = "selection"
        <5>1. cursor[d] \in Pending(d) /\ \A j \in Pending(d) : cursor[d] <= j /\ j \in Nat
          BY <4>1, <4>4, <2>t DEF Pending
        <5> QED
          BY <5>1, <4>1, <4>2, <4>4, <2>a DEF PendingEndsInLatest, ShownWhenNothingPending
      <4>5. CASE events[cursor[d]].kind # "selection"
        <5>1. Pending(d)' = Pending(d) /\ shown'[d] = shown[d]
          BY <4>1, <4>2, <4>5 DEF Pending
        <5> QED
          BY <5>1, <4>1, <4>3, <2>a DEF PendingEndsInLatest, ShownWhenNothingPending
      <4> QED
        BY <4>4, <4>5
    <3> QED
      BY <3>1, <3>2
  <2>5. CASE Lag(c)
    <3>1. CASE d # c
      BY <3>1, <2>5, <2>b, <2>t DEF Lag
    <3>2. CASE d = c
      <4>1. /\ cursor[d] < Oldest /\ cursor'[d] = Oldest /\ Oldest \in Nat
            /\ UNCHANGED <<events, latest, phase, shown>> /\ phase[d] = "serving"
            /\ Len(events) >= RingSize
        BY <3>2, <2>5, <2>t DEF Lag, Oldest
      <4>2. Pending(d)' = {i \in Pending(d) : i >= Oldest}
        BY <4>1, <2>t DEF Pending
      <4>3. MentionFlood' = MentionFlood
        BY <4>1 DEF MentionFlood, Retained, Oldest
      \* Either the newest selection survives the jump, or none did: a flood.
      <4>4. CASE Pending(d) = {}
        BY <4>4, <4>1, <4>2, <4>3, <2>a DEF PendingEndsInLatest, ShownWhenNothingPending
      <4>5. ASSUME NEW k \in Pending(d), events[k].of = latest,
                   \A j \in Pending(d) : j <= k
            PROVE  PendingEndsInLatest(d)' /\ ShownWhenNothingPending(d)'
        <5>1. CASE k >= Oldest
          BY <4>5, <5>1, <4>1, <4>2 DEF PendingEndsInLatest, ShownWhenNothingPending
        <5>2. CASE ~(k >= Oldest)
          <6>1. k \in Nat /\ \A j \in Pending(d) : j \in Nat
            BY <2>t DEF Pending
          <6> HIDE DEF Oldest
          <6>0. \A i \in Pending(d) : ~(i >= Oldest)
            <7> SUFFICES ASSUME NEW i \in Pending(d) PROVE ~(i >= Oldest)
              OBVIOUS
            <7>1. i <= k /\ i \in Nat /\ k \in Nat /\ Oldest \in Nat
              BY <4>5, <6>1, <4>1
            <7> QED
              BY <7>1, <5>2
          <6>2. Pending(d)' = {}
            BY <6>0, <4>2
          <6>3. \A i \in Retained : events[i].kind # "selection"
            BY <6>2, <4>1, <2>t DEF Pending, Retained
          <6> QED
            BY <6>2, <6>3, <4>1, <4>3
               DEF MentionFlood, PendingEndsInLatest, ShownWhenNothingPending
        <5> QED
          BY <5>1, <5>2
      <4> QED
        BY <4>1, <4>4, <4>5, <2>a DEF PendingEndsInLatest
    <3> QED
      BY <3>1, <3>2
  <2>6. CASE MentionRequest(c)
    <3>1. CASE phase'[d] = phase[d]
      BY <3>1, <2>6, <2>b DEF MentionRequest
    <3>2. CASE phase'[d] # phase[d]
      <4>1. /\ phase[d] = "serving" /\ phase'[d] = "mentioning"
            /\ UNCHANGED <<events, latest, cursor, shown>>
        BY <3>2, <2>6, <2>t DEF MentionRequest
      <4>2. Pending(d)' = Pending(d) /\ MentionFlood' = MentionFlood
        BY <4>1 DEF Pending, MentionFlood, Retained, Oldest
      <4> QED
        BY <4>1, <4>2, <2>a DEF PendingEndsInLatest, ShownWhenNothingPending
    <3> QED
      BY <3>1, <3>2
  <2>7. CASE PublishMention(c)
    <3>1. /\ events' = Append(events, AtMentioned(held[c])) /\ held[c] \in Mentions
          /\ UNCHANGED <<latest, cursor, shown>>
      BY <2>7 DEF PublishMention, Broadcast, TypeOK
    <3>2. /\ Attached(d)
          /\ phase'[d] # "subscribed" => phase[d] # "subscribed"
      BY <2>7, <2>t DEF PublishMention
    <3> QED
      BY <3>1, <3>2, <2>a, ReplayMention
  <2> QED
    BY <1>4, <2>1, <2>2, <2>3, <2>4, <2>5, <2>6, <2>7 DEF ConnStep
<1>5. CASE Cancel
  BY <1>5, <1>q DEF NewestIsPending, LastSentAgrees, Cancel, trackerVars
<1> QED
  BY <1>1, <1>2, <1>3, <1>4, <1>5 DEF Next

\* The tracker, the bus and every connection agree on the newest selection.
THEOREM ReplayCorrect == Spec => []ReplayInv
<1>1. Init => NewestIsPending
  BY DEF Init, NewestIsPending, LastSentAgrees, Receivers, Attached
<1> QED
  BY <1>1, TypeStep, ReplayStep, TypeCorrect, PTL DEF Spec, ReplayInv

\* Subscribing before reading `latest`, and going on from the oldest retained event
\* after a lag, leaves no connection behind: one that has nothing left to read was
\* last told about the newest selection, whatever the number of connections, the
\* ring size and the order of the steps.
THEOREM NewestNotMissed == Spec => []NewestSelectionNotMissed
<1>1. TypeOK /\ NewestIsPending => NewestSelectionNotMissed
  <2> SUFFICES ASSUME TypeOK, NewestIsPending, NEW c \in Conns,
                      InSync(c), tracker # "send", ~MentionFlood
               PROVE  shown[c] = latest
    BY DEF NewestSelectionNotMissed
  <2>1. Pending(c) = {}
    BY DEF InSync, Pending, TypeOK
  <2> QED
    BY <2>1 DEF InSync, NewestIsPending, Receivers, Attached, ShownWhenNothingPending
<1> QED
  BY <1>1, ReplayCorrect, PTL DEF ReplayInv

\* No two publications in a row carry the same selection, and none carries none.
THEOREM Alternates == Spec => PublicationsAlternate
<1>1. TypeOK /\ NewestIsPending /\ [Next]_vars =>
        [tracker = "record" /\ tracker' = "send" => latest' # latest /\ latest' # None]_vars
  <2> SUFFICES ASSUME TypeOK, NewestIsPending, Next, tracker = "record", tracker' = "send"
               PROVE  latest' # latest /\ latest' # None
    OBVIOUS
  <2>1. Record
    BY DEF Next, TrackerStep, ConnStep, Report, Wake, Restart, Settle, Send, StopTracker,
           Connect, Reject, Subscribe, ReadLatest, Forward, Lag, MentionRequest,
           PublishMention, HangUp, GoAway, Cancel, trackerVars
  <2> QED
    BY <2>1 DEF Record, TypeOK, NewestIsPending, LastSentAgrees
<1> QED
  BY <1>1, ReplayCorrect, PTL DEF Spec, ReplayInv, PublicationsAlternate

-----------------------------------------------------------------------------
(* The broadcast ring with its cursors implements one lossy queue per client: every  *)
(* step of SelectionBus is a step of LossyFanOut or leaves the queues alone.  The    *)
(* queue of an attached client is what lies in the log from its cursor on (Backlog). *)

(* The log seen from a cursor *)

\* An event appended to the log is appended to every suffix of it.
LEMMA SuffixOfAppend ==
    ASSUME NEW S, NEW s \in Seq(S), NEW e \in S, NEW k \in 1..(Len(s) + 1)
    PROVE  SubSeq(Append(s, e), k, Len(s) + 1) = Append(SubSeq(s, k, Len(s)), e)
<1> DEFINE t == Append(s, e)
           suffix == SubSeq(s, k, Len(s))
<1>1. /\ Len(s) \in Nat /\ k \in Int
      /\ \A i \in 1..Len(s) : s[i] \in S
  BY LenProperties, ElementOfSeq
<1>2. /\ t \in Seq(S) /\ Len(t) = Len(s) + 1
      /\ \A i \in 1..Len(s) : t[i] = s[i]
      /\ t[Len(s) + 1] = e
  BY AppendProperties
<1>3. \A i \in k..Len(s) : s[i] \in S
  BY <1>1
<1>4. /\ suffix \in Seq(S)
      /\ Len(suffix) = Len(s) - k + 1
      /\ \A i \in 1..(Len(s) - k + 1) : suffix[i] = s[k + i - 1]
  <2> HIDE DEF suffix
  <2>1. /\ SubSeq(s, k, Len(s)) \in Seq(S)
        /\ Len(SubSeq(s, k, Len(s))) = IF k <= Len(s) THEN Len(s) - k + 1 ELSE 0
        /\ \A i \in 1..(Len(s) - k + 1) : SubSeq(s, k, Len(s))[i] = s[k + i - 1]
    BY <1>1, <1>3, SubSeqProperties
  <2> QED
    BY <2>1, <1>1 DEF suffix
<1>5. /\ Append(suffix, e) \in Seq(S)
      /\ Len(Append(suffix, e)) = Len(s) - k + 2
      /\ \A i \in 1..(Len(s) - k + 1) : Append(suffix, e)[i] = s[k + i - 1]
      /\ Append(suffix, e)[Len(s) - k + 2] = e
  <2> HIDE DEF suffix
  <2>0. suffix \in Seq(S)
    BY <1>4
  <2>1. /\ Append(suffix, e) \in Seq(S)
        /\ Len(Append(suffix, e)) = Len(suffix) + 1
        /\ \A i \in 1..Len(suffix) : Append(suffix, e)[i] = suffix[i]
        /\ Append(suffix, e)[Len(suffix) + 1] = e
    BY <2>0, AppendProperties
  <2>2. Len(suffix) + 1 = Len(s) - k + 2
    BY <1>1, <1>4
  <2> QED
    BY <2>1, <2>2, <1>4
<1>6. \A i \in k..(Len(s) + 1) : t[i] \in S
  BY <1>1, <1>2 DEF t
<1>7. /\ SubSeq(t, k, Len(s) + 1) \in Seq(S)
      /\ Len(SubSeq(t, k, Len(s) + 1)) = Len(s) - k + 2
      /\ \A i \in 1..(Len(s) - k + 2) : SubSeq(t, k, Len(s) + 1)[i] = t[k + i - 1]
  <2> HIDE DEF t
  <2>1. Len(s) + 1 \in Int
    BY <1>1
  <2>2. /\ SubSeq(t, k, Len(s) + 1) \in Seq(S)
        /\ Len(SubSeq(t, k, Len(s) + 1)) =
               IF k <= Len(s) + 1 THEN Len(s) + 1 - k + 1 ELSE 0
        /\ \A i \in 1..(Len(s) + 1 - k + 1) : SubSeq(t, k, Len(s) + 1)[i] = t[k + i - 1]
    BY <1>1, <1>6, <2>1, SubSeqProperties
  <2> QED
    BY <2>2, <1>1
<1>8. \A i \in 1..(Len(s) - k + 2) :
         SubSeq(t, k, Len(s) + 1)[i] = Append(suffix, e)[i]
  <2> HIDE DEF t, suffix
  <2> SUFFICES ASSUME NEW i \in 1..(Len(s) - k + 2)
               PROVE  SubSeq(t, k, Len(s) + 1)[i] = Append(suffix, e)[i]
    OBVIOUS
  <2>1. CASE i = Len(s) - k + 2
    <3>1. k + i - 1 = Len(s) + 1
      BY <2>1, <1>1
    <3> QED
      BY <2>1, <3>1, <1>2, <1>5, <1>7
  <2>2. CASE i # Len(s) - k + 2
    <3>1. i \in 1..(Len(s) - k + 1) /\ k + i - 1 \in 1..Len(s)
      BY <2>2, <1>1
    <3> QED
      BY <3>1, <1>2, <1>5, <1>7
  <2> QED
    BY <2>1, <2>2
<1> HIDE DEF t, suffix
<1>9. SubSeq(t, k, Len(s) + 1) = Append(suffix, e)
  BY <1>5, <1>7, <1>8, SeqEqual
<1> QED
  BY <1>9 DEF t, suffix

\* The backlog of an attached client: its length, and when it is empty.
LEMMA BacklogLength ==
    ASSUME TypeOK, NEW c \in Receivers
    PROVE  /\ Backlog(c) \in Seq(Event)
           /\ Len(Backlog(c)) = Len(events) + 1 - cursor[c]
<1>1. /\ events \in Seq(Event) /\ Len(events) \in Nat /\ c \in Conns
      /\ cursor[c] \in Nat \ {0} /\ cursor[c] <= Len(events) + 1
  BY LenProperties DEF TypeOK, Receivers
<1>2. \A i \in cursor[c]..Len(events) : events[i] \in Event
  BY <1>1, ElementOfSeq
<1>3. /\ SubSeq(events, cursor[c], Len(events)) \in Seq(Event)
      /\ Len(SubSeq(events, cursor[c], Len(events))) =
             IF cursor[c] <= Len(events) THEN Len(events) - cursor[c] + 1 ELSE 0
  BY <1>1, <1>2, SubSeqProperties
<1>4. Backlog(c) = SubSeq(events, cursor[c], Len(events))
  BY DEF Backlog, Receivers
<1> QED
  BY <1>1, <1>3, <1>4

-----------------------------------------------------------------------------
(* Steps *)

\* A step that changes neither the log nor anybody's cursor or attachment is a
\* stutter of the queues.
LEMMA QueueUnchanged ==
    ASSUME UNCHANGED <<events, cursor>>, \A c \in Conns : Attached(c)' = Attached(c)
    PROVE  UNCHANGED FanOut!qvars
<1>1. Receivers' = Receivers
  BY DEF Receivers
<1>2. \A c \in Conns : Backlog(c)' = Backlog(c)
  BY DEF Backlog
<1> QED
  BY <1>1, <1>2 DEF FanOut!qvars

\* An event published on the bus is appended to the queue of every attached client.
LEMMA QueuePublish ==
    ASSUME TypeOK, NEW e \in Event, Broadcast(e), cursor' = cursor,
           \A c \in Conns : Attached(c)' = Attached(c)
    PROVE  [FanOut!QNext]_FanOut!qvars
<1>1. Receivers' = Receivers
  BY DEF Receivers
<1>2. CASE Receivers = {}
  BY <1>2, QueueUnchanged DEF Broadcast
<1>3. CASE Receivers # {}
  <2>1. events' = Append(events, e) /\ events \in Seq(Event) /\ Len(events) \in Nat
    BY <1>3, LenProperties DEF Broadcast, TypeOK
  <2>2. Len(events') = Len(events) + 1
    BY <2>1, AppendProperties
  <2>3. ASSUME NEW c \in Conns
        PROVE  Backlog(c)' = IF c \in Receivers THEN Append(Backlog(c), e) ELSE Backlog(c)
    <3>1. CASE c \in Receivers
      <4>1. cursor[c] \in 1..(Len(events) + 1)
        BY <2>1 DEF TypeOK
      <4>2. SubSeq(Append(events, e), cursor[c], Len(events) + 1)
              = Append(SubSeq(events, cursor[c], Len(events)), e)
        BY <4>1, <2>1, SuffixOfAppend
      <4> QED
        BY <4>2, <3>1, <2>1, <2>2 DEF Backlog, Receivers
    <3>2. CASE c \notin Receivers
      BY <3>2 DEF Backlog, Receivers
    <3> QED
      BY <3>1, <3>2
  <2>4. FanOut!Publish(e)
    BY <1>1, <2>3 DEF FanOut!Publish
  <2> QED
    BY <2>4 DEF FanOut!QNext
<1> QED
  BY <1>2, <1>3

\* A step of one connection that keeps the log and the other connections: only its
\* own queue can change.
LEMMA OneQueueChanges ==
    ASSUME NEW c \in Conns, events' = events,
           \A d \in Conns \ {c} : phase'[d] = phase[d] /\ cursor'[d] = cursor[d]
    PROVE  [d \in Conns |-> Backlog(d)]'
             = [[d \in Conns |-> Backlog(d)] EXCEPT ![c] = Backlog(c)']
<1>1. \A d \in Conns \ {c} : Backlog(d)' = Backlog(d)
  BY DEF Backlog, Attached
<1> QED
  BY <1>1

\* Every step of the bus is a step of the queues, or a stutter.
LEMMA FanOutStep == TypeOK /\ [Next]_vars => [FanOut!QNext]_FanOut!qvars
<1> SUFFICES ASSUME TypeOK, [Next]_vars PROVE [FanOut!QNext]_FanOut!qvars
  OBVIOUS
<1> DEFINE queue == [d \in Conns |-> Backlog(d)]
<1>t. /\ phase \in [Conns -> Phases] /\ cursor \in [Conns -> Nat \ {0}]
      /\ events \in Seq(Event) /\ Len(events) \in Nat /\ RingSize \in Nat \ {0}
      /\ \A c \in Conns : cursor[c] <= Len(events) + 1
  BY RingAssumption, LenProperties DEF TypeOK
<1>1. CASE UNCHANGED vars
  BY <1>1, QueueUnchanged DEF vars, Attached
<1>2. ASSUME NEW s \in Selections, Report(s) PROVE UNCHANGED FanOut!qvars
  BY <1>2, QueueUnchanged DEF Report, connVars, Attached
<1>3. ASSUME TrackerStep PROVE [FanOut!QNext]_FanOut!qvars
  <2>1. CASE Wake \/ Restart \/ Settle \/ Record \/ StopTracker
    BY <2>1, QueueUnchanged DEF Wake, Restart, Settle, Record, StopTracker, connVars, Attached
  <2>2. CASE Send
    BY <2>2, EventFields, QueuePublish DEF Send, TypeOK, connVars, Attached
  <2> QED
    BY <1>3, <2>1, <2>2 DEF TrackerStep
<1>4. ASSUME NEW c \in Conns, ConnStep(c) PROVE [FanOut!QNext]_FanOut!qvars
  <2>1. CASE Connect(c) \/ Reject(c) \/ ReadLatest(c) \/ MentionRequest(c)
    <3>1. UNCHANGED <<events, cursor>>
      BY <2>1 DEF Connect, Reject, ReadLatest, MentionRequest
    <3>2. \A d \in Conns : Attached(d)' = Attached(d)
      BY <2>1, <1>t DEF Connect, Reject, ReadLatest, MentionRequest, Attached
    <3> QED
      BY <3>1, <3>2, QueueUnchanged
  <2>2. CASE Subscribe(c)
    <3>1. /\ events' = events /\ cursor'[c] = Len(events) + 1
          /\ phase[c] = "authorized" /\ phase'[c] = "subscribed"
          /\ \A d \in Conns \ {c} : phase'[d] = phase[d] /\ cursor'[d] = cursor[d]
      BY <2>2, <1>t DEF Subscribe
    <3>2. Backlog(c) = <<>> /\ Backlog(c)' = <<>>
      BY <3>1, <1>t, SubSeqEmpty DEF Backlog, Attached
    <3>3. UNCHANGED queue
      BY <3>1, <3>2, OneQueueChanges
    <3>4. c \notin Receivers /\ Receivers' = Receivers \cup {c}
      BY <3>1 DEF Receivers, Attached
    <3>5. FanOut!Attach(c)
      BY <3>3, <3>4 DEF FanOut!Attach
    <3> QED
      BY <3>5 DEF FanOut!QNext
  <2>3. CASE Forward(c)
    <3>1. /\ events' = events /\ phase' = phase /\ c \in Receivers
          /\ cursor[c] \in Oldest..Len(events) /\ cursor'[c] = cursor[c] + 1
          /\ \A d \in Conns \ {c} : phase'[d] = phase[d] /\ cursor'[d] = cursor[d]
      BY <2>3, <1>t DEF Forward, Retained, Receivers, Attached
    <3>2. Backlog(c)' = Tail(Backlog(c))
      <4>1. Tail(SubSeq(events, cursor[c], Len(events)))
              = SubSeq(events, cursor[c] + 1, Len(events))
        <5>1. events \in Seq(Event) /\ Len(events) \in Nat
          BY <1>t
        <5>2. cursor[c] \in 1..Len(events) /\ Len(events) \in cursor[c]..Len(events)
          BY <3>1, <5>1, <1>t DEF Oldest
        <5> QED
          BY <5>1, <5>2, HeadTailOfSubSeq
      <4> QED
        BY <4>1, <3>1 DEF Backlog, Receivers, Attached
    <3>3. Backlog(c) # <<>> /\ Len(Backlog(c)) <= RingSize
      <4>1. Len(Backlog(c)) = Len(events) + 1 - cursor[c]
        BY <3>1, BacklogLength
      <4>2. Len(Backlog(c)) > 0 /\ Len(Backlog(c)) <= RingSize
        BY <4>1, <3>1, <1>t DEF Oldest
      <4> QED
        BY <4>2, EmptySeq
    <3>4. Receivers' = Receivers
      BY <3>1 DEF Receivers, Attached
    <3>5. queue' = [queue EXCEPT ![c] = Tail(queue[c])]
      BY <3>1, <3>2, OneQueueChanges
    <3>6. FanOut!Deliver(c)
      BY <3>3, <3>4, <3>5 DEF FanOut!Deliver
    <3> QED
      BY <3>6 DEF FanOut!QNext
  <2>4. CASE Lag(c)
    <3> DEFINE n == Len(events)
    <3>1. /\ events' = events /\ phase' = phase /\ c \in Receivers
          /\ cursor[c] < Oldest /\ cursor'[c] = Oldest
          /\ \A d \in Conns \ {c} : phase'[d] = phase[d] /\ cursor'[d] = cursor[d]
      BY <2>4, <1>t DEF Lag, Receivers, Attached
    <3>2. Oldest = n - RingSize + 1 /\ cursor[c] \in 1..n
      BY <3>1, <1>t DEF Oldest
    <3>3. Len(Backlog(c)) = n + 1 - cursor[c]
      BY <3>1, BacklogLength
    <3>4. Len(Backlog(c)) > RingSize
      BY <3>1, <3>2, <3>3, <1>t
    <3>5. Backlog(c)' = SubSeq(Backlog(c), Len(Backlog(c)) - RingSize + 1, Len(Backlog(c)))
      <4> DEFINE i == cursor[c]
                 m == n + 1 - i - RingSize + 1
                 k == n + 1 - i
      <4>1. /\ i \in 1..n /\ n \in 1..n /\ m \in 1..(n - i + 1) /\ k \in 1..(n - i + 1)
            /\ i + m - 1 = n - RingSize + 1 /\ i + k - 1 = n
        BY <3>1, <3>2, <1>t
      <4>2. SubSeq(SubSeq(events, i, n), m, k) = SubSeq(events, i + m - 1, i + k - 1)
        <5> HIDE DEF m, k, i, n
        <5> QED
          BY <4>1, <1>t, SubSeqOfSubSeq DEF n
      <4>3. Backlog(c) = SubSeq(events, i, n)
        BY <3>1 DEF Backlog, Receivers
      <4>4. Backlog(c)' = SubSeq(events, n - RingSize + 1, n)
        BY <3>1, <3>2 DEF Backlog, Receivers, Attached
      <4>5. SubSeq(Backlog(c), m, k) = SubSeq(events, n - RingSize + 1, n)
        <5> HIDE DEF m, k, i, n
        <5> QED
          BY <4>1, <4>2, <4>3
      <4>6. Len(Backlog(c)) - RingSize + 1 = m /\ Len(Backlog(c)) = k
        BY <3>3, <1>t
      <4> HIDE DEF m, k, i, n
      <4> QED
        BY <4>4, <4>5, <4>6
    <3>6. Receivers' = Receivers
      BY <3>1 DEF Receivers, Attached
    <3>7. queue' = [queue EXCEPT ![c] =
                      SubSeq(queue[c], Len(queue[c]) - RingSize + 1, Len(queue[c]))]
      BY <3>1, <3>5, OneQueueChanges
    <3>8. FanOut!Overflow(c)
      BY <3>4, <3>6, <3>7 DEF FanOut!Overflow
    <3> QED
      BY <3>8 DEF FanOut!QNext
  <2>5. CASE PublishMention(c)
    <3>1. Broadcast(AtMentioned(held[c])) /\ AtMentioned(held[c]) \in Event /\ cursor' = cursor
      BY <2>5, EventFields DEF PublishMention, TypeOK
    <3>2. \A d \in Conns : Attached(d)' = Attached(d)
      BY <2>5, <1>t DEF PublishMention, Attached
    <3> QED
      BY <3>1, <3>2, QueuePublish
  <2>6. CASE HangUp(c) \/ GoAway(c)
    <3>1. /\ events' = events /\ c \in Receivers /\ phase'[c] = "closed"
          /\ \A d \in Conns \ {c} : phase'[d] = phase[d] /\ cursor'[d] = cursor[d]
      BY <2>6, <1>t DEF HangUp, GoAway, Receivers, Attached
    <3>2. Backlog(c)' = <<>>
      BY <3>1 DEF Backlog, Attached
    <3>3. Receivers' = Receivers \ {c}
      BY <3>1 DEF Receivers, Attached
    <3>4. queue' = [queue EXCEPT ![c] = <<>>]
      BY <3>1, <3>2, OneQueueChanges
    <3>5. FanOut!Detach(c)
      BY <3>1, <3>3, <3>4 DEF FanOut!Detach
    <3> QED
      BY <3>5 DEF FanOut!QNext
  <2> QED
    BY <1>4, <2>1, <2>2, <2>3, <2>4, <2>5, <2>6 DEF ConnStep
<1>5. ASSUME Cancel PROVE UNCHANGED FanOut!qvars
  BY <1>5, QueueUnchanged DEF Cancel, connVars, Attached
<1> QED
  BY <1>1, <1>2, <1>3, <1>4, <1>5 DEF Next

\* The shared ring and its cursors implement one queue per client that loses only
\* its oldest events, and only when more than RingSize of them are waiting.
THEOREM BusImplementsFanOut == Spec => ImplementsFanOut
<1>1. Init => FanOut!QInit
  <2> SUFFICES ASSUME Init PROVE FanOut!QInit
    OBVIOUS
  <2>1. Receivers = {} /\ \A c \in Conns : Backlog(c) = <<>>
    BY DEF Init, Receivers, Attached, Backlog
  <2> QED
    BY <2>1 DEF FanOut!QInit
<1> QED
  BY <1>1, FanOutStep, TypeCorrect, PTL DEF Spec, ImplementsFanOut, FanOut!QSpec
=============================================================================

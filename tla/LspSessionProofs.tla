--------------------------- MODULE LspSessionProofs ---------------------------
(***************************************************************************)
(* Proofs about LspSession, for any number of documents, requests, versions*)
(* and writes, and any length of the pipe.  NeverStuck speaks of ENABLED   *)
(* and is left to TLC.                                                     *)
(***************************************************************************)
EXTENDS LspSession, SequenceTheorems, TLAPS

LEMMA BoundFacts == /\ MaxRequests \in Nat /\ MaxVersions \in Nat
                    /\ MaxWrites \in Nat /\ MaxPipe \in Nat
  BY BoundsAssumption

SmallTexts == {t \in Texts : ~t.big}
Answers    == [id : Ids, what : {"result", "error"}]
Works      == [doc : Docs, stamp : 0..MaxWrites, file : Texts]
Indices    == [doc : Docs, stamp : 0..MaxWrites, of : Texts]
DocMethods == {"didOpen", "didClose", "didChange"}

-----------------------------------------------------------------------------
(* Messages *)

LEMMA MsgFacts ==
    ASSUME NEW m \in Messages
    PROVE  /\ m.id \in 0..MaxRequests /\ m.had \in Buffers
           /\ m.method \in DocMethods \cup {"codeAction"} => m.doc \in Docs
           /\ m.method = "codeAction" => m.caret \in BOOLEAN
           /\ m.method = "didOpen" => m.text \in Texts
           /\ m.method = "didChange" => m.batch \in Batches
  BY BoundFacts DEF Messages, Plain, DocMethods, Ids

LEMMA BatchFacts ==
    ASSUME NEW b \in Batches
    PROVE  /\ b \in Seq(Changes) /\ Len(b) \in 1..2
           /\ b[1] \in Changes /\ b[Len(b)] \in Changes
           /\ Len(b) = 2 => b[2] \in Changes /\ b[2].from = b[1].to
<1>1. b \in Seq(Changes) /\ Len(b) \in 1..2
  BY DEF Batches
<1>2. \A i \in 1..Len(b) : b[i] \in Changes
  BY <1>1, ElementOfSeq
<1>3. 1 \in 1..Len(b) /\ Len(b) \in 1..Len(b)
  BY <1>1
<1>4. Len(b) = 2 => b[2].from = b[1].to
  BY DEF Batches
<1> QED
  BY <1>1, <1>2, <1>3, <1>4

\* A batch applied to the text it was made for gives what the editor had after it, and to
\* any other a text or Torn.
LEMMA AppliedFacts ==
    ASSUME NEW b \in Batches, NEW text \in Texts \cup {Torn}
    PROVE  /\ Applied(text, b) \in Texts \cup {Torn}
           /\ text = b[1].from => Applied(text, b) = b[Len(b)].to
  BY BatchFacts, NoneAssumption DEF Applied, ApplyOne, Changes

LEMMA CapFacts ==
    ASSUME NEW text \in Texts \cup {Torn}
    PROVE  /\ Cap(text) \in SmallTexts \cup {None, Torn}
           /\ Cap(text) \in {None, text}
  BY DEF Cap, SmallTexts

-----------------------------------------------------------------------------
(* The pipe *)

LEMMA PipeSend ==
    ASSUME pipe \in Seq(Messages), NEW m \in Messages, m.had = buffer, pipe' = Append(pipe, m)
    PROVE  /\ Len(pipe) \in Nat
           /\ pipe' \in Seq(Messages) /\ Len(pipe') = Len(pipe) + 1
           /\ pipe'[Len(pipe) + 1] = m
           /\ \A i \in 1..Len(pipe) : pipe'[i] = pipe[i]
           /\ \A i \in 0..Len(pipe) : Had(i)' = Had(i)
           /\ Had(Len(pipe)) = buffer
           /\ Had(Len(pipe) + 1)' = buffer'
           /\ pipe # <<>> => Head(pipe') = Head(pipe)
<1>1. /\ Len(pipe) \in Nat /\ pipe' \in Seq(Messages) /\ Len(pipe') = Len(pipe) + 1
      /\ pipe'[Len(pipe) + 1] = m
      /\ \A i \in 1..Len(pipe) : pipe'[i] = pipe[i]
  BY AppendProperties, LenProperties
<1>2. ASSUME NEW i \in 0..Len(pipe) PROVE Had(i)' = Had(i)
  <2>1. CASE i < Len(pipe)
    <3>1. i + 1 \in 1..Len(pipe)
      BY <1>1, <2>1
    <3> QED
      BY <1>1, <2>1, <3>1 DEF Had
  <2>2. CASE i = Len(pipe)
    BY <1>1, <2>2 DEF Had
  <2> QED
    BY <1>1, <2>1, <2>2
<1>3. Had(Len(pipe)) = buffer /\ Had(Len(pipe) + 1)' = buffer'
  BY <1>1 DEF Had
<1>4. pipe # <<>> => Head(pipe') = Head(pipe)
  BY <1>1, EmptySeq
<1> QED
  BY <1>1, <1>2, <1>3, <1>4

LEMMA PipeRead ==
    ASSUME pipe \in Seq(Messages), pipe # <<>>, pipe' = Tail(pipe), buffer' = buffer
    PROVE  /\ Len(pipe) \in Nat \ {0}
           /\ Msg \in Messages /\ Msg = pipe[1]
           /\ pipe' \in Seq(Messages) /\ Len(pipe') = Len(pipe) - 1
           /\ \A i \in 1..(Len(pipe) - 1) : pipe'[i] = pipe[i + 1]
           /\ \A i \in 0..(Len(pipe) - 1) : Had(i)' = Had(i + 1)
<1>1. /\ Len(pipe) \in Nat \ {0} /\ Msg \in Messages /\ Msg = pipe[1]
      /\ pipe' \in Seq(Messages) /\ Len(pipe') = Len(pipe) - 1
      /\ \A i \in 1..(Len(pipe) - 1) : pipe'[i] = pipe[i + 1]
  BY HeadTailProperties, LenProperties, EmptySeq DEF Msg
<1>2. ASSUME NEW i \in 0..(Len(pipe) - 1) PROVE Had(i)' = Had(i + 1)
  <2>1. CASE i < Len(pipe) - 1
    <3>1. i + 1 \in 1..(Len(pipe) - 1) /\ (i + 1) + 1 \in 2..Len(pipe)
      BY <1>1, <2>1
    <3> QED
      BY <1>1, <2>1, <3>1 DEF Had
  <2>2. CASE i = Len(pipe) - 1
    <3>1. ~(i < Len(pipe')) /\ ~(i + 1 < Len(pipe))
      BY <1>1, <2>2
    <3> QED
      BY <3>1 DEF Had
  <2>3. i < Len(pipe) - 1 \/ i = Len(pipe) - 1
    <3>1. Len(pipe) \in Int
      BY <1>1
    <3> QED
      BY <3>1
  <2> QED
    BY <2>1, <2>2, <2>3, Zenon
<1> QED
  BY <1>1, <1>2

LEMMA MsgType ==
    ASSUME pipe \in Seq(Messages), pipe # <<>>
    PROVE  Msg \in Messages /\ Msg = pipe[1] /\ Len(pipe) \in Nat \ {0}
  BY HeadTailProperties, LenProperties, EmptySeq DEF Msg

-----------------------------------------------------------------------------
(* Requests are answered in their turn *)

\* What the message at the head does to the two flags.
FlagsFollow ==
    /\ initialized' <=> (initialized \/ Msg.method = "initialize")
    /\ shut_down' <=> (shut_down \/ (Msg.method = "shutdown" /\ initialized))

\* The ids of the messages in the pipe that are due, and of the answers that are.
DueIds  == {pipe[i].id : i \in {k \in DOMAIN pipe : Due(pipe[k], k)}}
OwedIds == {owed[k] : k \in (Len(answers) + 1)..Len(owed)}

\* A message that is sent changes nothing for those in front of it ...
LEMMA DueSend ==
    ASSUME pipe \in Seq(Messages), NEW m \in Messages, pipe' = Append(pipe, m),
           initialized' = initialized, shut_down' = shut_down, NEW i \in 1..(Len(pipe) + 1)
    PROVE  (InitBefore(i)' <=> InitBefore(i)) /\ (DownBefore(i)' <=> DownBefore(i))
<1>1. Len(pipe) \in Nat /\ \A k \in 1..Len(pipe) : pipe'[k] = pipe[k]
  BY AppendProperties, LenProperties
<1>2. \A j \in 1..(Len(pipe) + 1) : \A k \in 1..(j - 1) : k \in 1..Len(pipe)
  BY <1>1
<1>3. \A j \in 1..(Len(pipe) + 1) : InitBefore(j)' <=> InitBefore(j)
  BY <1>1, <1>2 DEF InitBefore
<1>4. \A k \in 1..(i - 1) : k \in 1..(Len(pipe) + 1)
  BY <1>1
<1>5. DownBefore(i)' <=> DownBefore(i)
  BY <1>1, <1>2, <1>3, <1>4 DEF DownBefore
<1> QED
  BY <1>3, <1>5

\* ... and one that is read has done to the flags what was expected of it.
LEMMA DueRead ==
    ASSUME pipe \in Seq(Messages), pipe # <<>>, pipe' = Tail(pipe), FlagsFollow,
           initialized \in BOOLEAN, shut_down \in BOOLEAN,
           NEW i \in 1..(Len(pipe) - 1)
    PROVE  (InitBefore(i)' <=> InitBefore(i + 1)) /\ (DownBefore(i)' <=> DownBefore(i + 1))
<1>1. /\ Len(pipe) \in Nat \ {0} /\ Msg = pipe[1]
      /\ \A k \in 1..(Len(pipe) - 1) : pipe'[k] = pipe[k + 1]
  BY HeadTailProperties, LenProperties, EmptySeq DEF Msg
<1>2. ASSUME NEW j \in 1..(Len(pipe) - 1) PROVE InitBefore(j)' <=> InitBefore(j + 1)
  <2>1. ASSUME NEW k \in 1..(j - 1) PROVE k + 1 \in 1..j /\ pipe'[k] = pipe[k + 1]
    BY <1>1
  <2>2. ASSUME NEW k \in 1..j, k # 1 PROVE k - 1 \in 1..(j - 1) /\ pipe'[k - 1] = pipe[k]
    <3>1. k - 1 \in 1..(Len(pipe) - 1) /\ (k - 1) + 1 = k /\ k - 1 \in 1..(j - 1)
      BY <1>1, <2>2
    <3> QED
      BY <1>1, <3>1
  <2>3. (j + 1) - 1 = j /\ 1 \in 1..j
    OBVIOUS
  <2>4. (\E k \in 1..j : pipe[k].method = "initialize")
          <=> (Msg.method = "initialize" \/ \E k \in 1..(j - 1) : pipe'[k].method = "initialize")
    BY <1>1, <2>1, <2>2, <2>3
  <2> QED
    BY <2>3, <2>4 DEF InitBefore, FlagsFollow
<1>3. DownBefore(i)' <=> DownBefore(i + 1)
  <2>1. ASSUME NEW k \in 1..(i - 1)
        PROVE  k + 1 \in 1..i /\ pipe'[k] = pipe[k + 1] /\ (InitBefore(k)' <=> InitBefore(k + 1))
    BY <1>1, <1>2
  <2>2. ASSUME NEW k \in 1..i, k # 1
        PROVE  /\ k - 1 \in 1..(i - 1) /\ pipe'[k - 1] = pipe[k]
               /\ InitBefore(k - 1)' <=> InitBefore(k)
    <3>1. k - 1 \in 1..(Len(pipe) - 1) /\ (k - 1) + 1 = k /\ k - 1 \in 1..(i - 1)
      BY <1>1, <2>2
    <3>2. InitBefore(k - 1)' <=> InitBefore((k - 1) + 1)
      BY <1>2, <3>1
    <3> QED
      BY <1>1, <3>1, <3>2
  <2>3. (i + 1) - 1 = i /\ 1 \in 1..i /\ (InitBefore(1) <=> initialized)
    BY DEF InitBefore
  <2>4. (\E k \in 1..i : pipe[k].method = "shutdown" /\ InitBefore(k))
          <=> \/ Msg.method = "shutdown" /\ initialized
              \/ \E k \in 1..(i - 1) : pipe'[k].method = "shutdown" /\ InitBefore(k)'
    <3>1. ASSUME NEW k \in 1..i, pipe[k].method = "shutdown", InitBefore(k)
          PROVE  \/ Msg.method = "shutdown" /\ initialized
                 \/ \E l \in 1..(i - 1) : pipe'[l].method = "shutdown" /\ InitBefore(l)'
      BY <1>1, <2>2, <2>3, <3>1
    <3>2. ASSUME NEW l \in 1..(i - 1), pipe'[l].method = "shutdown", InitBefore(l)'
          PROVE  \E k \in 1..i : pipe[k].method = "shutdown" /\ InitBefore(k)
      BY <2>1, <3>2
    <3>3. ASSUME Msg.method = "shutdown", initialized
          PROVE  \E k \in 1..i : pipe[k].method = "shutdown" /\ InitBefore(k)
      BY <1>1, <2>3, <3>3
    <3> QED
      BY <3>1, <3>2, <3>3
  <2> QED
    BY <2>3, <2>4 DEF DownBefore, FlagsFollow
<1> QED
  BY <1>2, <1>3

\* The head is due by its method, or because everything is refused.
LEMMA DueFirst ==
    Due(Msg, 1) <=>
       /\ Msg.id # 0
       /\ \/ Msg.method \in {"initialize", "shutdown", "other", "codeAction"}
          \/ Msg.method \notin {"exit", "garbled"} /\ (~initialized \/ shut_down)
<1>1. 1..(1 - 1) = {}
  OBVIOUS
<1>2. (InitBefore(1) <=> initialized) /\ (DownBefore(1) <=> shut_down)
  BY <1>1 DEF InitBefore, DownBefore
<1> QED
  BY <1>2 DEF Due

LEMMA OwedFacts ==
    ASSUME TypeOK, PipeIsOwed
    PROVE  /\ asked \in Nat /\ Len(answers) \in Nat /\ Len(owed) \in Nat
           /\ Len(answers) <= Len(owed) /\ asked <= MaxRequests
           /\ DOMAIN owed = 1..Len(owed) /\ DOMAIN answers = 1..Len(answers)
           /\ answers \in Seq(Answers) /\ owed \in Seq(Ids) /\ MaxRequests \in Nat
           /\ \A k \in 1..Len(owed) : owed[k] \in Nat \ {0} /\ owed[k] <= asked
           /\ DueIds = OwedIds
<1>1. owed \in Seq(Ids) /\ answers \in Seq(Answers)
  BY DEF TypeOK, Answers
<1>2. \A k \in 1..Len(owed) : owed[k] \in Ids
  BY <1>1, ElementOfSeq
<1>3. /\ asked \in Nat /\ asked <= MaxRequests /\ MaxRequests \in Nat
      /\ Len(answers) \in Nat /\ Len(owed) \in Nat
      /\ DOMAIN owed = 1..Len(owed) /\ DOMAIN answers = 1..Len(answers)
  <2>1. asked \in 0..MaxRequests
    BY DEF TypeOK
  <2> QED
    BY <1>1, <2>1, BoundFacts, LenProperties
<1>4. Len(answers) <= Len(owed) /\ DueIds = OwedIds /\ \A k \in DOMAIN owed : owed[k] <= asked
  BY DEF PipeIsOwed, DueIds, OwedIds
<1>5. \A k \in 1..Len(owed) : owed[k] \in Nat \ {0}
  BY <1>2, <1>3 DEF Ids
<1> QED
  BY <1>1, <1>3, <1>4, <1>5

LEMMA SendOwed ==
    ASSUME TypeOK, PipeIsOwed, NEW m \in Messages, m.had = buffer, m.id \in FreshIds, Send(m)
    PROVE  PipeIsOwed' /\ owed' \in Seq(Ids) /\ asked' \in 0..MaxRequests
<1> DEFINE n == Len(pipe)
           o == Len(owed)
<1>1. /\ pipe' = Append(pipe, m) /\ answers' = answers
      /\ initialized' = initialized /\ shut_down' = shut_down
      /\ asked' = IF m.id = 0 THEN asked ELSE m.id
      /\ owed' = IF Due(m, n + 1) THEN Append(owed, m.id) ELSE owed
  BY DEF Send, flags
<1>2. /\ n \in Nat /\ Len(pipe') = n + 1 /\ pipe'[n + 1] = m
      /\ \A i \in 1..n : pipe'[i] = pipe[i]
      /\ DOMAIN pipe = 1..n /\ DOMAIN pipe' = 1..(n + 1)
  BY <1>1, PipeSend, LenProperties DEF TypeOK
<1>3. /\ m.id = 0 \/ (m.id = asked + 1 /\ asked + 1 <= MaxRequests)
      /\ Due(m, n + 1) => m.id = asked + 1
  BY OwedFacts DEF FreshIds, Due
<1>4. asked' \in 0..MaxRequests /\ asked <= asked' /\ m.id <= asked'
  BY <1>1, <1>3, OwedFacts
<1>5. /\ owed' \in Seq(Ids) /\ Len(owed') = IF Due(m, n + 1) THEN o + 1 ELSE o
      /\ \A k \in 1..o : owed'[k] = owed[k]
      /\ Due(m, n + 1) => owed'[o + 1] = m.id
  <2>1. CASE Due(m, n + 1)
    <3>1. m.id \in Ids
      BY <1>3, <2>1, OwedFacts DEF Ids
    <3> QED
      BY <1>1, <2>1, <3>1, OwedFacts, AppendProperties
  <2>2. CASE ~Due(m, n + 1)
    BY <1>1, <2>2, OwedFacts
  <2> QED
    BY <2>1, <2>2
<1>6. DOMAIN owed' = 1..Len(owed')
  BY <1>5, LenProperties
<1>7. DueIds' = DueIds \cup (IF Due(m, n + 1) THEN {m.id} ELSE {})
  <2>1. ASSUME NEW i \in 1..(n + 1)
        PROVE  Due(pipe[i], i)' <=> (IF i = n + 1 THEN Due(m, i) ELSE Due(pipe[i], i))
    <3>1. (InitBefore(i)' <=> InitBefore(i)) /\ (DownBefore(i)' <=> DownBefore(i))
      BY <1>1, DueSend DEF TypeOK
    <3>2. pipe'[i] = IF i = n + 1 THEN m ELSE pipe[i]
      BY <1>2
    <3> QED
      BY <3>1, <3>2 DEF Due
  <2>2. ASSUME NEW x \in DueIds' PROVE x \in DueIds \/ (Due(m, n + 1) /\ x = m.id)
    <3>1. PICK i \in 1..(n + 1) : Due(pipe[i], i)' /\ x = pipe'[i].id
      BY <1>2, <2>2 DEF DueIds
    <3>2. CASE i = n + 1
      BY <1>2, <2>1, <3>1, <3>2
    <3>3. CASE i # n + 1
      <4>1. i \in 1..n /\ Due(pipe[i], i) /\ x = pipe[i].id
        BY <1>2, <2>1, <3>1, <3>3
      <4> QED
        BY <1>2, <4>1 DEF DueIds
    <3> QED
      BY <3>2, <3>3
  <2>3. ASSUME NEW x \in DueIds PROVE x \in DueIds'
    <3>1. PICK i \in 1..n : Due(pipe[i], i) /\ x = pipe[i].id
      BY <1>2, <2>3 DEF DueIds
    <3>2. i \in 1..(n + 1) /\ i # n + 1
      BY <1>2
    <3>3. Due(pipe[i], i)' /\ x = pipe'[i].id
      BY <1>2, <2>1, <3>1, <3>2
    <3> QED
      BY <1>2, <3>2, <3>3 DEF DueIds
  <2>4. ASSUME Due(m, n + 1) PROVE m.id \in DueIds'
    <3>1. PICK i \in 1..(n + 1) : i = n + 1
      BY <1>2
    <3>2. Due(pipe[i], i)' /\ m.id = pipe'[i].id
      BY <1>2, <2>1, <2>4, <3>1
    <3> QED
      BY <1>2, <3>2 DEF DueIds
  <2> QED
    BY <2>2, <2>3, <2>4
<1>8. OwedIds' = OwedIds \cup (IF Due(m, n + 1) THEN {m.id} ELSE {})
  <2>1. CASE Due(m, n + 1)
    <3>1. \A k : k \in (Len(answers) + 1)..(o + 1) <=> (k \in (Len(answers) + 1)..o \/ k = o + 1)
      BY OwedFacts
    <3>2. \A k \in (Len(answers) + 1)..o : owed'[k] = owed[k]
      BY <1>5, OwedFacts
    <3> QED
      BY <1>1, <1>5, <2>1, <3>1, <3>2 DEF OwedIds
  <2>2. CASE ~Due(m, n + 1)
    BY <1>1, <2>2 DEF OwedIds
  <2> QED
    BY <2>1, <2>2
<1>9. \A i \in 1..n : pipe[i].id \in Nat /\ pipe[i].id <= asked
  <2>1. \A i \in 1..n : pipe[i] \in Messages
    BY <1>2, ElementOfSeq DEF TypeOK
  <2> QED
    BY <1>2, <2>1, MsgFacts, BoundFacts DEF PipeIsOwed
<1>10. ASSUME NEW i \in DOMAIN pipe', NEW j \in DOMAIN pipe', i < j, pipe'[j].id # 0
       PROVE  pipe'[i].id < pipe'[j].id
  <2>1. i \in 1..n
    BY <1>2, <1>10
  <2>2. CASE j \in 1..n
    BY <1>2, <1>10, <2>1, <2>2 DEF PipeIsOwed
  <2>3. CASE j = n + 1
    BY <1>2, <1>3, <1>9, <1>10, <2>1, <2>3, OwedFacts
  <2> QED
    BY <1>2, <2>2, <2>3
<1>11. ASSUME NEW i \in DOMAIN owed', NEW j \in DOMAIN owed', i < j
       PROVE  owed'[i] < owed'[j]
  <2>1. CASE i \in 1..o /\ j \in 1..o
    BY <1>5, <1>11, <2>1, OwedFacts DEF PipeIsOwed
  <2>2. CASE i \in 1..o /\ j = o + 1 /\ Due(m, n + 1)
    BY <1>3, <1>5, <2>2, OwedFacts
  <2>3. i \in 1..o /\ (j \in 1..o \/ (j = o + 1 /\ Due(m, n + 1)))
    <3>1. i \in 1..Len(owed') /\ j \in 1..Len(owed') /\ o \in Nat
      BY <1>6, <1>11, OwedFacts
    <3>2. CASE Due(m, n + 1)
      <4>1. Len(owed') = o + 1
        BY <1>5, <3>2
      <4> QED
        BY <1>11, <3>1, <3>2, <4>1
    <3>3. CASE ~Due(m, n + 1)
      <4>1. Len(owed') = o
        BY <1>5, <3>3
      <4> QED
        BY <1>11, <3>1, <4>1
    <3> QED
      BY <3>2, <3>3
  <2> QED
    BY <2>1, <2>2, <2>3
<1>12. \A i \in DOMAIN pipe' : pipe'[i].id <= asked'
  BY <1>2, <1>4, <1>9, OwedFacts
<1>13. \A i \in DOMAIN owed' : owed'[i] <= asked'
  <2>1. ASSUME NEW i \in DOMAIN owed'
        PROVE  i \in 1..o \/ (i = o + 1 /\ Due(m, n + 1))
    BY <1>5, <1>6, OwedFacts
  <2> QED
    BY <1>3, <1>4, <1>5, <2>1, OwedFacts
<1>14. DueIds' = OwedIds'
  BY <1>7, <1>8, OwedFacts
<1>15. Len(answers') <= Len(owed') /\ \A i \in DOMAIN answers' : answers'[i].id = owed'[i]
  <2>1. \A i \in 1..Len(answers) : i \in 1..o
    BY OwedFacts
  <2> QED
    BY <1>1, <1>5, <2>1, OwedFacts DEF PipeIsOwed
<1> QED
  BY <1>4, <1>5, <1>10, <1>11, <1>12, <1>13, <1>14, <1>15 DEF PipeIsOwed, DueIds, OwedIds

LEMMA HeadIsDue ==
    ASSUME TypeOK, PipeIsOwed, pipe # <<>>, Due(Msg, 1)
    PROVE  Len(answers) + 1 \in 1..Len(owed) /\ Msg.id = owed[Len(answers) + 1]
<1>1. Msg = pipe[1] /\ Len(pipe) \in Nat \ {0} /\ DOMAIN pipe = 1..Len(pipe)
  BY MsgType, LenProperties DEF TypeOK
<1>2. Msg.id \in OwedIds
  <2>1. Msg.id \in DueIds
    BY <1>1 DEF DueIds
  <2> QED
    BY <2>1, OwedFacts
<1>3. PICK k \in (Len(answers) + 1)..Len(owed) : Msg.id = owed[k]
  BY <1>2 DEF OwedIds
<1>4. /\ Len(answers) + 1 \in 1..Len(owed) /\ k \in 1..Len(owed) /\ Len(answers) + 1 <= k
      /\ Len(answers) + 1 \in (Len(answers) + 1)..Len(owed)
  BY <1>3, OwedFacts
<1>5. owed[Len(answers) + 1] \in DueIds
  BY <1>4, OwedFacts DEF OwedIds
<1>6. PICK j \in 1..Len(pipe) : pipe[j].id = owed[Len(answers) + 1]
  BY <1>1, <1>5 DEF DueIds
<1>7. CASE j = 1
  BY <1>1, <1>4, <1>6, <1>7
<1>8. CASE j # 1
  <2>1. 1 < j /\ 1 \in DOMAIN pipe /\ j \in DOMAIN pipe /\ pipe[j].id # 0
    BY <1>1, <1>4, <1>6, <1>8, OwedFacts
  <2>2. owed[k] < owed[Len(answers) + 1]
    BY <1>1, <1>3, <1>6, <2>1 DEF PipeIsOwed
  <2>3. k = Len(answers) + 1 \/ owed[Len(answers) + 1] < owed[k]
    BY <1>4, OwedFacts DEF PipeIsOwed
  <2> QED
    BY <1>4, <2>2, <2>3, OwedFacts
<1> QED
  BY <1>7, <1>8

LEMMA ReadOwed ==
    ASSUME TypeOK, PipeIsOwed, pipe # <<>>, pipe' = Tail(pipe), asked' = asked, owed' = owed,
           FlagsFollow, NEW what \in {"result", "error"},
           answers' = IF Due(Msg, 1) THEN Append(answers, [id |-> Msg.id, what |-> what])
                                     ELSE answers
    PROVE  PipeIsOwed' /\ answers' \in Seq(Answers)
<1> DEFINE n == Len(pipe)
           a == Len(answers)
<1>1. /\ n \in Nat \ {0} /\ Len(pipe') = n - 1 /\ Msg = pipe[1] /\ Msg \in Messages
      /\ \A i \in 1..(n - 1) : pipe'[i] = pipe[i + 1]
      /\ DOMAIN pipe = 1..n /\ DOMAIN pipe' = 1..(n - 1)
  <2>1. pipe' \in Seq(Messages) /\ DOMAIN pipe = 1..n
    BY HeadTailProperties, LenProperties DEF TypeOK
  <2> QED
    BY <2>1, HeadTailProperties, LenProperties, MsgType DEF TypeOK
<1>2. ASSUME NEW i \in DOMAIN pipe', NEW j \in DOMAIN pipe', i < j, pipe'[j].id # 0
      PROVE  pipe'[i].id < pipe'[j].id
  <2>1. /\ i + 1 \in DOMAIN pipe /\ j + 1 \in DOMAIN pipe /\ i + 1 < j + 1
        /\ pipe'[i] = pipe[i + 1] /\ pipe'[j] = pipe[j + 1]
    BY <1>1, <1>2
  <2> QED
    BY <1>2, <2>1 DEF PipeIsOwed
<1>3. \A i \in DOMAIN pipe' : pipe'[i].id <= asked'
  <2>1. \A i \in 1..(n - 1) : i + 1 \in 1..n
    BY <1>1
  <2> QED
    BY <1>1, <2>1 DEF PipeIsOwed
\* What is due is what was, but for the head.
<1>4. DueIds' = {pipe[i].id : i \in {k \in 2..n : Due(pipe[k], k)}}
  <2>1. ASSUME NEW i \in 1..(n - 1)
        PROVE  /\ i + 1 \in 2..n /\ pipe'[i] = pipe[i + 1]
               /\ Due(pipe[i], i)' <=> Due(pipe[i + 1], i + 1)
    <3>1. /\ InitBefore(i)' <=> InitBefore(i + 1)
          /\ DownBefore(i)' <=> DownBefore(i + 1)
      BY DueRead DEF TypeOK
    <3> QED
      BY <1>1, <3>1 DEF Due
  <2>2. \A i \in 2..n : i - 1 \in 1..(n - 1) /\ (i - 1) + 1 = i
    BY <1>1
  <2>3. ASSUME NEW x \in DueIds' PROVE \E i \in 2..n : Due(pipe[i], i) /\ x = pipe[i].id
    <3>1. PICK i \in 1..(n - 1) : Due(pipe[i], i)' /\ x = pipe'[i].id
      BY <1>1, <2>3 DEF DueIds
    <3> QED
      BY <2>1, <3>1
  <2>4. ASSUME NEW i \in 2..n, Due(pipe[i], i) PROVE pipe[i].id \in DueIds'
    <3>1. PICK k \in 1..(n - 1) : k + 1 = i
      BY <2>2
    <3>2. Due(pipe[k], k)' /\ pipe'[k] = pipe[i]
      BY <2>1, <2>4, <3>1
    <3> QED
      BY <1>1, <3>2 DEF DueIds
  <2> QED
    BY <2>3, <2>4
<1>5. DueIds = DueIds' \cup (IF Due(Msg, 1) THEN {Msg.id} ELSE {})
  <2>1. \A i : i \in 1..n <=> (i \in 2..n \/ i = 1)
    BY <1>1
  <2> QED
    BY <1>1, <1>4, <2>1 DEF DueIds
<1>6. CASE ~Due(Msg, 1)
  <2>1. answers' = answers /\ OwedIds' = OwedIds
    BY <1>6 DEF OwedIds
  <2>2. DueIds' = OwedIds'
    BY <1>5, <1>6, <2>1, OwedFacts
  <2> QED
    BY <1>2, <1>3, <2>1, <2>2, OwedFacts DEF PipeIsOwed, DueIds, OwedIds
<1>7. CASE Due(Msg, 1)
  <2>1. a + 1 \in 1..Len(owed) /\ Msg.id = owed[a + 1] /\ Msg.id \in Ids
    BY <1>7, HeadIsDue, OwedFacts DEF Ids
  <2>2. /\ answers' \in Seq(Answers) /\ Len(answers') = a + 1
        /\ answers'[a + 1].id = owed[a + 1]
        /\ \A i \in 1..a : answers'[i] = answers[i]
    <3>1. [id |-> Msg.id, what |-> what] \in Answers
      BY <2>1 DEF Answers
    <3> QED
      BY <1>7, <2>1, <3>1, OwedFacts, AppendProperties
  <2>3. \A i \in DOMAIN answers' : answers'[i].id = owed'[i]
    <3>1. DOMAIN answers' = 1..(a + 1)
      BY <2>2, LenProperties
    <3>2. \A i \in 1..(a + 1) : i \in 1..a \/ i = a + 1
      BY OwedFacts
    <3> QED
      BY <2>2, <3>1, <3>2, OwedFacts DEF PipeIsOwed
  <2>4. Msg.id \notin DueIds'
    <3>1. ASSUME NEW i \in 2..n, Due(pipe[i], i), pipe[i].id = Msg.id PROVE FALSE
      <4>1. 1 < i /\ 1 \in DOMAIN pipe /\ i \in DOMAIN pipe /\ pipe[i].id # 0
        BY <1>1, <1>7, <3>1 DEF Due
      <4>2. pipe[1].id < pipe[i].id
        BY <4>1 DEF PipeIsOwed
      <4> QED
        BY <1>1, <2>1, <3>1, <4>2 DEF Ids
    <3> QED
      BY <1>4, <3>1
  <2>5. OwedIds' = OwedIds \ {Msg.id}
    <3>1. \A k \in (a + 2)..Len(owed) : owed[a + 1] < owed[k] /\ k \in (a + 1)..Len(owed)
      BY <2>1, OwedFacts DEF PipeIsOwed
    <3>2. \A k \in (a + 1)..Len(owed) : k = a + 1 \/ k \in (a + 2)..Len(owed)
      BY <2>1, OwedFacts
    <3>3. Len(answers') + 1 = a + 2 /\ \A k \in (a + 2)..Len(owed) : owed[k] # owed[a + 1]
      BY <2>1, <2>2, <3>1, OwedFacts
    <3>4. /\ OwedIds' = {owed[k] : k \in (a + 2)..Len(owed)}
          /\ OwedIds = {owed[k] : k \in (a + 1)..Len(owed)}
      BY <3>3 DEF OwedIds
    <3> HIDE DEF a
    <3> QED
      BY <2>1, <3>1, <3>2, <3>3, <3>4
  <2>6. DueIds' = OwedIds'
    BY <1>5, <1>7, <2>4, <2>5, OwedFacts
  <2>7. Len(answers') <= Len(owed')
    BY <2>1, <2>2, OwedFacts
  <2>8. /\ \A i, j \in DOMAIN owed' : i < j => owed'[i] < owed'[j]
        /\ \A i \in DOMAIN owed' : owed'[i] <= asked'
    BY DEF PipeIsOwed
  <2> QED
    BY <1>2, <1>3, <2>2, <2>3, <2>6, <2>7, <2>8 DEF PipeIsOwed, DueIds, OwedIds
<1> QED
  BY <1>6, <1>7

\* A step that neither sends nor answers.
LEMMA SameIsOwed ==
    ASSUME PipeIsOwed, UNCHANGED <<pipe, asked, owed, answers, initialized, shut_down>>
    PROVE  PipeIsOwed'
<1>1. \A k : /\ InitBefore(k)' <=> InitBefore(k)
             /\ DownBefore(k)' <=> DownBefore(k)
  BY DEF InitBefore, DownBefore
<1>2. DueIds' = DueIds
  BY <1>1 DEF DueIds, Due
<1>3. OwedIds' = OwedIds
  BY DEF OwedIds
<1> QED
  BY <1>2, <1>3 DEF PipeIsOwed, DueIds, OwedIds

-----------------------------------------------------------------------------
(* The mirror is the buffer, or is not there *)

LEMMA SendMirror ==
    ASSUME TypeOK, NEW d \in Docs, MirrorInTurn(d), NEW m \in Messages, m.had = buffer,
           pipe' = Append(pipe, m), mirror' = mirror,
           initialized' = initialized, shut_down' = shut_down,
           IF Touches(m, d) THEN Leads(m, d, buffer[d], buffer'[d]) ELSE buffer'[d] = buffer[d]
    PROVE  MirrorInTurn(d)'
<1> DEFINE n == Len(pipe)
<1>1. /\ n \in Nat /\ Len(pipe') = n + 1 /\ pipe'[n + 1] = m
      /\ \A i \in 1..n : pipe'[i] = pipe[i]
      /\ \A i \in 0..n : Had(i)' = Had(i)
      /\ Had(n) = buffer /\ Had(n + 1)' = buffer'
  BY PipeSend DEF TypeOK
<1> HIDE DEF n
<1>2. /\ (~shut_down => mirror[d] \in {None, Had(0)[d]})'
      /\ (~initialized => mirror[d] = None)'
  BY <1>1 DEF MirrorInTurn
<1>3. ASSUME NEW i \in 1..(n + 1), Touches(pipe'[i], d)
      PROVE  Leads(pipe'[i], d, Had(i - 1)'[d], Had(i)'[d])
  <2>1. CASE i \in 1..n
    <3>1. i - 1 \in 0..n /\ i \in 0..n
      BY <1>1, <2>1
    <3> QED
      BY <1>1, <1>3, <2>1, <3>1 DEF MirrorInTurn, n
  <2>2. CASE i = n + 1
    <3>1. /\ n \in Nat /\ Len(pipe') = n + 1 /\ pipe'[n + 1].had = buffer
          /\ i - 1 = n /\ n < n + 1 /\ ~(i < n + 1)
      BY <1>1, <2>2
    <3>2. Had(i - 1)' = buffer
      BY <3>1 DEF Had
    <3>3. Had(i)' = buffer'
      BY <3>1 DEF Had
    <3> QED
      BY <1>1, <1>3, <2>2, <3>2, <3>3
  <2> QED
    BY <1>1, <2>1, <2>2
<1>4. ASSUME NEW i \in 0..(n + 1), NEW j \in 0..(n + 1), i <= j,
             \A k \in (i + 1)..j : ~Touches(pipe'[k], d)
      PROVE  Had(i)'[d] = Had(j)'[d]
  <2>1. CASE j \in 0..n
    <3>1. i \in 0..n /\ \A k \in (i + 1)..j : k \in 1..n
      BY <1>1, <1>4, <2>1
    <3>2. Had(i)[d] = Had(j)[d]
      BY <1>1, <1>4, <2>1, <3>1 DEF MirrorInTurn, n
    <3> QED
      BY <1>1, <2>1, <3>1, <3>2
  <2>2. CASE j = n + 1 /\ i = n + 1
    BY <2>2
  <2>3. CASE j = n + 1 /\ i \in 0..n
    <3>1. n \in 0..n /\ i <= n /\ (n + 1) \in (i + 1)..j
      BY <1>1, <2>3
    <3>2. \A k \in (i + 1)..n : k \in 1..n /\ k \in (i + 1)..j
      BY <1>1, <2>3
    <3>3. Had(i)[d] = Had(n)[d]
      BY <1>1, <1>4, <2>3, <3>1, <3>2 DEF MirrorInTurn, n
    <3>4. buffer'[d] = buffer[d]
      BY <1>1, <1>4, <3>1
    <3>5. Had(j)' = buffer'
      BY <1>1, <2>3 DEF Had
    <3> QED
      BY <1>1, <2>3, <3>3, <3>4, <3>5
  <2> QED
    BY <1>1, <2>1, <2>2, <2>3
<1> QED
  BY <1>1, <1>2, <1>3, <1>4 DEF MirrorInTurn

LEMMA ReadMirror ==
    ASSUME TypeOK, NEW d \in Docs, MirrorInTurn(d), pipe # <<>>,
           pipe' = Tail(pipe), buffer' = buffer,
           ~shut_down' => mirror'[d] \in {None, Had(1)[d]},
           ~initialized' => mirror'[d] = None
    PROVE  MirrorInTurn(d)'
<1> DEFINE n == Len(pipe)
<1>1. /\ n \in Nat \ {0} /\ Len(pipe') = n - 1
      /\ \A i \in 1..(n - 1) : pipe'[i] = pipe[i + 1]
      /\ \A i \in 0..(n - 1) : Had(i)' = Had(i + 1)
  BY PipeRead DEF TypeOK
<1> HIDE DEF n
<1>2. /\ (~shut_down => mirror[d] \in {None, Had(0)[d]})'
      /\ (~initialized => mirror[d] = None)'
  <2>1. Had(0)' = Had(1)
    BY <1>1
  <2> QED
    BY <2>1
<1>3. ASSUME NEW i \in 1..(n - 1), Touches(pipe'[i], d)
      PROVE  Leads(pipe'[i], d, Had(i - 1)'[d], Had(i)'[d])
  <2>1. /\ i + 1 \in 1..n /\ i - 1 \in 0..(n - 1) /\ i \in 0..(n - 1)
        /\ (i - 1) + 1 = (i + 1) - 1
    BY <1>1
  <2>2. Had(i - 1)' = Had((i + 1) - 1) /\ Had(i)' = Had(i + 1)
    BY <1>1, <2>1
  <2> QED
    BY <1>1, <1>3, <2>1, <2>2 DEF MirrorInTurn, n
<1>4. ASSUME NEW i \in 0..(n - 1), NEW j \in 0..(n - 1), i <= j,
             \A k \in (i + 1)..j : ~Touches(pipe'[k], d)
      PROVE  Had(i)'[d] = Had(j)'[d]
  <2>1. i + 1 \in 0..n /\ j + 1 \in 0..n /\ i + 1 <= j + 1
    BY <1>1, <1>4
  <2>2. ASSUME NEW k \in ((i + 1) + 1)..(j + 1) PROVE ~Touches(pipe[k], d)
    <3>1. k - 1 \in (i + 1)..j /\ k - 1 \in 1..(n - 1) /\ (k - 1) + 1 = k
      BY <1>1
    <3> QED
      BY <1>1, <1>4, <3>1
  <2>3. Had(i + 1)[d] = Had(j + 1)[d]
    BY <2>1, <2>2 DEF MirrorInTurn, n
  <2> QED
    BY <1>1, <2>3
<1> QED
  BY <1>1, <1>2, <1>3, <1>4 DEF MirrorInTurn

\* What the message at the head means for a document.
LEMMA HeadFacts ==
    ASSUME TypeOK, NEW d \in Docs, MirrorInTurn(d), pipe # <<>>
    PROVE  /\ Had(0) = Msg.had
           /\ IF Touches(Msg, d) THEN Leads(Msg, d, Had(0)[d], Had(1)[d])
                                 ELSE Had(1)[d] = Had(0)[d]
<1>1. Len(pipe) \in Nat \ {0} /\ Msg = pipe[1]
  BY MsgType DEF TypeOK
<1>2. Had(0) = Msg.had
  BY <1>1 DEF Had
<1>3. 1 \in 1..Len(pipe) /\ 1 - 1 = 0 /\ 0 \in 0..Len(pipe) /\ 1 \in 0..Len(pipe) /\ 0 <= 1
  BY <1>1
<1>4. CASE Touches(Msg, d)
  BY <1>1, <1>2, <1>3, <1>4 DEF MirrorInTurn
<1>5. CASE ~Touches(Msg, d)
  <2>1. \A k \in (0 + 1)..1 : ~Touches(pipe[k], d)
    BY <1>1, <1>5
  <2>2. Had(0)[d] = Had(1)[d]
    BY <1>3, <2>1 DEF MirrorInTurn
  <2> QED
    BY <1>2, <1>5, <2>2
<1> QED
  BY <1>4, <1>5

\* A message that does not touch a document, and a document without a mirror.
LEMMA Kept ==
    ASSUME LspInv, pipe # <<>>, NEW d \in Docs, ~Touches(Msg, d) \/ mirror[d] = None
    PROVE  ~shut_down => mirror[d] \in {None, Had(1)[d]}
<1>1. TypeOK /\ MirrorInTurn(d)
  BY DEF LspInv
<1>2. ~shut_down => mirror[d] \in {None, Had(0)[d]}
  BY <1>1 DEF MirrorInTurn
<1> QED
  BY <1>1, <1>2, HeadFacts

-----------------------------------------------------------------------------
(* The steps, by what they have in common *)

LEMMA SendStep ==
    ASSUME LspInv, NEW m \in Messages, m.had = buffer, m.id \in FreshIds, Send(m),
           buffer' \in Buffers, versions' \in 0..MaxVersions,
           \A d \in Docs : IF Touches(m, d) THEN Leads(m, d, buffer[d], buffer'[d])
                                            ELSE buffer'[d] = buffer[d]
    PROVE  LspInv'
<1>1. TypeOK /\ PipeIsOwed /\ DiskInTurn /\ \A d \in Docs : MirrorInTurn(d)
  BY DEF LspInv
<1>2. /\ pipe' = Append(pipe, m) /\ Len(pipe) < MaxPipe
      /\ UNCHANGED <<thread, initialized, shut_down, mirror, index, work, answers, reported>>
      /\ UNCHANGED <<writes, file, stamp>>
  BY DEF Send, flags, storeVars, diskVars
<1>3. /\ pipe' \in Seq(Messages) /\ Len(pipe) \in Nat /\ Len(pipe') = Len(pipe) + 1
      /\ pipe # <<>> => Head(pipe') = Head(pipe)
  BY <1>1, <1>2, PipeSend DEF TypeOK
<1>4. PipeIsOwed' /\ owed' \in Seq(Ids) /\ asked' \in 0..MaxRequests
  BY <1>1, SendOwed
<1>5. TypeOK'
  <2>1. Len(pipe') <= MaxPipe
    BY <1>2, <1>3, BoundFacts
  <2> QED
    BY <1>1, <1>2, <1>3, <1>4, <2>1 DEF TypeOK
<1>6. ASSUME NEW d \in Docs PROVE MirrorInTurn(d)'
  BY <1>1, <1>2, SendMirror
<1>7. DiskInTurn'
  <2>1. work' # None => pipe' # <<>> /\ Msg' = Msg
    <3>1. pipe' # <<>>
      BY <1>3
    <3> QED
      BY <1>1, <1>2, <1>3, <3>1 DEF DiskInTurn, Msg
  <2> QED
    BY <1>1, <1>2, <2>1 DEF DiskInTurn, IndexMatches
<1> QED
  BY <1>4, <1>5, <1>6, <1>7 DEF LspInv

LEMMA ReadStep ==
    ASSUME LspInv, thread = "reading", pipe # <<>>, pipe' = Tail(pipe),
           UNCHANGED <<editorVars, diskVars, index, work>>, thread' \in {"reading", "ended"},
           NEW what \in {"result", "error"}, FlagsFollow,
           answers' = IF Due(Msg, 1) THEN Append(answers, [id |-> Msg.id, what |-> what])
                                     ELSE answers,
           initialized' \in BOOLEAN, shut_down' \in BOOLEAN, reported' \in Texts \cup {None, Torn},
           mirror' \in [Docs -> SmallTexts \cup {None, Torn}],
           \A d \in Docs : /\ ~shut_down' => mirror'[d] \in {None, Had(1)[d]}
                           /\ ~initialized' => mirror'[d] = None
    PROVE  LspInv'
<1>1. TypeOK /\ PipeIsOwed /\ DiskInTurn /\ \A d \in Docs : MirrorInTurn(d)
  BY DEF LspInv
<1>2. UNCHANGED <<buffer, asked, owed, versions, writes, file, stamp, index, work>>
  BY DEF editorVars, diskVars
<1>3. pipe' \in Seq(Messages) /\ Len(pipe) \in Nat /\ Len(pipe') = Len(pipe) - 1
  BY <1>1, <1>2, PipeRead DEF TypeOK
<1>4. PipeIsOwed' /\ answers' \in Seq(Answers)
  BY <1>1, <1>2, ReadOwed
<1>5. TypeOK'
  <2>1. Len(pipe') <= MaxPipe
    BY <1>1, <1>3, BoundFacts DEF TypeOK
  <2>2. answers' \in Seq([id : Ids, what : {"result", "error"}])
    BY <1>4 DEF Answers
  <2>3. mirror' \in [Docs -> {t \in Texts : ~t.big} \cup {None, Torn}]
    BY DEF SmallTexts
  <2>4. index' = None \/ index' \in [doc : Docs, stamp : 0..MaxWrites, of : Texts]
    BY <1>1, <1>2 DEF TypeOK
  <2>5. work' = None \/ work' \in [doc : Docs, stamp : 0..MaxWrites, file : Texts]
    BY <1>1, <1>2 DEF TypeOK
  <2> QED
    BY <1>1, <1>2, <1>3, <2>1, <2>2, <2>3, <2>4, <2>5 DEF TypeOK
<1>6. ASSUME NEW d \in Docs PROVE MirrorInTurn(d)'
  BY <1>1, <1>2, ReadMirror
<1>7. DiskInTurn'
  <2>1. work = None
    BY <1>1 DEF DiskInTurn
  <2> QED
    BY <1>1, <1>2, <2>1 DEF DiskInTurn
<1> QED
  BY <1>4, <1>5, <1>6, <1>7 DEF LspInv

\* What is answered is due, or what is not is not, and the mirror is as it was.
Settles(what) == (Done(what) /\ (Due(Msg, 1) <=> Msg.id # 0)) \/ (Silent /\ ~Due(Msg, 1))

LEMMA SettledAnswer ==
    ASSUME NEW what, Settles(what)
    PROVE  /\ pipe' = Tail(pipe) /\ UNCHANGED <<editorVars, diskVars, thread, work>>
           /\ answers' = IF Due(Msg, 1) THEN Append(answers, [id |-> Msg.id, what |-> what])
                                        ELSE answers
  BY DEF Settles, Done, Silent, Answer

LEMMA DoneStep ==
    ASSUME LspInv, thread = "reading", pipe # <<>>, NEW what \in {"result", "error"},
           Settles(what), FlagsFollow, initialized' \in BOOLEAN, shut_down' \in BOOLEAN,
           UNCHANGED storeVars, reported' \in Texts \cup {None, Torn},
           \A d \in Docs : ~Touches(Msg, d) \/ mirror[d] = None \/ shut_down
    PROVE  LspInv'
<1>1. /\ pipe' = Tail(pipe) /\ UNCHANGED <<editorVars, diskVars, index, work>>
      /\ thread' = thread /\ mirror' = mirror
      /\ answers' = IF Due(Msg, 1) THEN Append(answers, [id |-> Msg.id, what |-> what])
                                   ELSE answers
  BY SettledAnswer DEF storeVars
<1>2. mirror' \in [Docs -> SmallTexts \cup {None, Torn}]
  BY <1>1 DEF LspInv, TypeOK, SmallTexts
<1>3. ASSUME NEW d \in Docs
      PROVE  /\ ~shut_down' => mirror'[d] \in {None, Had(1)[d]}
             /\ ~initialized' => mirror'[d] = None
  <2>1. ~shut_down => mirror[d] \in {None, Had(1)[d]}
    BY Kept
  <2>2. ~initialized => mirror[d] = None
    BY DEF LspInv, MirrorInTurn
  <2> QED
    BY <1>1, <2>1, <2>2 DEF FlagsFollow
<1> QED
  BY <1>1, <1>2, <1>3, ReadStep

\* The mirror of the document the message is about becomes what the editor has, or goes.
LEMMA MirrorStep ==
    ASSUME LspInv, thread = "reading", pipe # <<>>, ~Refused, NEW text \in SmallTexts \cup {None, Torn},
           Msg.doc \in Docs, Msg.method \in DocMethods,
           ~shut_down => text \in {None, Had(1)[Msg.doc]},
           mirror' = [mirror EXCEPT ![Msg.doc] = text],
           Silent, UNCHANGED <<flags, index, reported>>
    PROVE  LspInv'
<1>1. /\ pipe' = Tail(pipe) /\ UNCHANGED <<editorVars, diskVars, index, work>>
      /\ thread' = thread /\ answers' = answers
      /\ initialized' = initialized /\ shut_down' = shut_down /\ reported' = reported
      /\ initialized
  BY DEF Silent, flags, Refused
<1>0. ~Due(Msg, 1) /\ FlagsFollow
  BY <1>1, DueFirst DEF Refused, DocMethods, FlagsFollow
<1>2. TypeOK /\ mirror \in [Docs -> SmallTexts \cup {None, Torn}]
  BY DEF LspInv, TypeOK, SmallTexts
<1>3. mirror' \in [Docs -> SmallTexts \cup {None, Torn}]
  BY <1>2
<1>4. ASSUME NEW d \in Docs PROVE ~shut_down => mirror'[d] \in {None, Had(1)[d]}
  <2>1. CASE d = Msg.doc
    BY <1>2, <2>1
  <2>2. CASE d # Msg.doc
    <3>1. ~Touches(Msg, d)
      BY <2>2 DEF Touches
    <3>2. ~shut_down => mirror[d] \in {None, Had(1)[d]}
      BY <3>1, Kept
    <3> QED
      BY <1>2, <2>2, <3>2
  <2> QED
    BY <2>1, <2>2
<1>5. initialized' \in BOOLEAN /\ shut_down' \in BOOLEAN /\ reported' \in Texts \cup {None, Torn}
  BY <1>1, <1>2 DEF TypeOK
<1> QED
  BY <1>0, <1>1, <1>3, <1>4, <1>5, ReadStep

LEMMA WriteStep ==
    ASSUME LspInv, NEW d \in Docs, NEW t \in Texts, Write(d, t), versions' \in 0..MaxVersions
    PROVE  LspInv'
<1>1. TypeOK /\ PipeIsOwed /\ DiskInTurn /\ \A x \in Docs : MirrorInTurn(x)
  BY DEF LspInv
<1>2. /\ UNCHANGED <<pipe, buffer, asked, owed, thread, initialized, shut_down, mirror, index, work,
                     answers, reported>>
      /\ writes < MaxWrites /\ writes' = writes + 1
      /\ stamp' = [stamp EXCEPT ![d] = writes + 1] /\ file' = [file EXCEPT ![d] = t]
  BY DEF Write, flags, storeVars
<1>3. writes \in Nat /\ writes' \in 0..MaxWrites /\ writes + 1 \in 0..MaxWrites
  BY <1>1, <1>2, BoundFacts DEF TypeOK
<1>4. TypeOK'
  <2>1. stamp' \in [Docs -> 0..MaxWrites] /\ file' \in [Docs -> Texts]
    BY <1>1, <1>2, <1>3 DEF TypeOK
  <2> QED
    BY <1>1, <1>2, <1>3, <2>1 DEF TypeOK
<1>5. PipeIsOwed'
  BY <1>1, <1>2, SameIsOwed
<1>6. ASSUME NEW x \in Docs PROVE MirrorInTurn(x)'
  <2>1. MirrorInTurn(x)
    BY <1>1
  <2> QED
    BY <1>2, <2>1 DEF MirrorInTurn, Had
<1>7. DiskInTurn'
  <2>1. \A x \in Docs : stamp[x] \in Nat /\ stamp[x] <= writes
    BY <1>1, BoundFacts DEF TypeOK, DiskInTurn
  <2>2. \A x \in Docs : stamp'[x] <= writes'
    BY <1>1, <1>2, <1>3, <2>1 DEF TypeOK
  <2>3. ASSUME NEW x \in Docs, NEW old \in Nat, old <= writes, stamp'[x] = old
        PROVE  stamp[x] = old /\ file'[x] = file[x]
    <3>1. old # writes + 1
      BY <1>3, <2>3
    <3> QED
      BY <1>1, <1>2, <2>3, <3>1 DEF TypeOK
  <2>4. ASSUME index # None
        PROVE  /\ index.stamp <= writes'
               /\ index.stamp = stamp'[index.doc] => index.of = file'[index.doc]
    <3>1. /\ index.doc \in Docs /\ index.stamp \in Nat /\ index.stamp <= writes
          /\ index.stamp = stamp[index.doc] => index.of = file[index.doc]
      BY <1>1, <2>4, BoundFacts DEF TypeOK, DiskInTurn
    <3> QED
      BY <1>2, <1>3, <2>3, <3>1
  <2>5. ASSUME work # None
        PROVE  /\ work.stamp <= writes'
               /\ work.stamp = stamp'[work.doc] => work.file = file'[work.doc]
    <3>1. /\ work.doc \in Docs /\ work.stamp \in Nat /\ work.stamp <= writes
          /\ work.stamp = stamp[work.doc] => work.file = file[work.doc]
      BY <1>1, <2>5, BoundFacts DEF TypeOK, DiskInTurn
    <3> QED
      BY <1>2, <1>3, <2>3, <3>1
  <2> QED
    BY <1>1, <1>2, <2>2, <2>4, <2>5 DEF DiskInTurn, IndexMatches, Msg
<1> QED
  BY <1>4, <1>5, <1>6, <1>7 DEF LspInv

LEMMA StatStep == ASSUME LspInv, StatFile PROVE LspInv'
<1>1. TypeOK /\ PipeIsOwed /\ DiskInTurn /\ \A d \in Docs : MirrorInTurn(d)
  BY DEF LspInv
<1>2. /\ pipe # <<>> /\ Msg.method = "codeAction" /\ thread' = "reading_disk"
      /\ work' = [doc |-> Msg.doc, stamp |-> stamp[Msg.doc], file |-> file[Msg.doc]]
      /\ UNCHANGED <<pipe, buffer, asked, owed, versions, writes, file, stamp, initialized, shut_down,
                     mirror, index, answers, reported>>
  BY DEF StatFile, Reads, editorVars, diskVars, flags, storeVars
<1>3. Msg.doc \in Docs
  BY <1>1, <1>2, MsgType, MsgFacts DEF TypeOK
<1>4. /\ work' \in Works
      /\ work'.doc = Msg.doc /\ work'.stamp = stamp[Msg.doc] /\ work'.file = file[Msg.doc]
  BY <1>1, <1>2, <1>3 DEF TypeOK, Works
<1>5. work' # None
  BY <1>4, NoneAssumption DEF Works
<1>6. TypeOK'
  <2>1. work' = None \/ work' \in [doc : Docs, stamp : 0..MaxWrites, file : Texts]
    BY <1>4 DEF Works
  <2> QED
    BY <1>1, <1>2, <2>1 DEF TypeOK
<1>7. PipeIsOwed'
  BY <1>1, <1>2, SameIsOwed
<1>8. ASSUME NEW d \in Docs PROVE MirrorInTurn(d)'
  <2>1. MirrorInTurn(d)
    BY <1>1
  <2> QED
    BY <1>2, <2>1 DEF MirrorInTurn, Had
<1>9. DiskInTurn'
  <2>1. /\ (thread = "reading_disk" <=> work # None)'
        /\ (work # None => pipe # <<>> /\ Msg.method = "codeAction" /\ Msg.doc = work.doc)'
    BY <1>2, <1>4, <1>5 DEF Msg
  <2>2. (index # None => /\ index.stamp <= writes
                         /\ index.stamp = stamp[index.doc] => index.of = file[index.doc])'
    BY <1>1, <1>2 DEF DiskInTurn
  <2>3. work'.stamp <= writes' /\ work'.file = file'[work'.doc]
    BY <1>1, <1>2, <1>3, <1>4 DEF DiskInTurn
  <2>4. (IndexMatches => index.of = work.file)'
    BY <1>2, <1>4, <2>2 DEF IndexMatches
  <2> QED
    BY <1>1, <1>2, <2>1, <2>2, <2>3, <2>4 DEF DiskInTurn
<1> QED
  BY <1>6, <1>7, <1>8, <1>9 DEF LspInv

LEMMA ReportStep ==
    ASSUME LspInv, NEW text \in Texts \cup {None, Torn}, ReportFromDisk(text),
           index' # None =>
              /\ index' \in Indices /\ index'.stamp <= writes
              /\ index'.stamp = stamp[index'.doc] => index'.of = file[index'.doc]
    PROVE  LspInv'
<1>1. TypeOK /\ PipeIsOwed /\ DiskInTurn /\ \A d \in Docs : MirrorInTurn(d)
  BY DEF LspInv
<1>2. /\ thread = "reading_disk" /\ thread' = "reading" /\ work' = None /\ pipe' = Tail(pipe)
      /\ Answer(Msg.id, "result") /\ reported' = text
      /\ UNCHANGED <<buffer, asked, owed, versions, writes, file, stamp, initialized, shut_down, mirror>>
  BY DEF ReportFromDisk, editorVars, diskVars, flags
<1>3. pipe # <<>> /\ Msg.method = "codeAction"
  BY <1>1, <1>2 DEF DiskInTurn
<1>4. pipe' \in Seq(Messages) /\ Len(pipe) \in Nat /\ Len(pipe') = Len(pipe) - 1
  BY <1>1, <1>2, <1>3, PipeRead DEF TypeOK
<1>5. PipeIsOwed' /\ answers' \in Seq(Answers)
  <2>1. FlagsFollow /\ (Due(Msg, 1) <=> Msg.id # 0)
    BY <1>2, <1>3, DueFirst DEF FlagsFollow
  <2>2. answers' = IF Due(Msg, 1) THEN Append(answers, [id |-> Msg.id, what |-> "result"])
                                  ELSE answers
    BY <1>2, <2>1 DEF Answer
  <2> QED
    BY <1>1, <1>2, <1>3, <2>1, <2>2, ReadOwed
<1>6. TypeOK'
  <2>1. Len(pipe') <= MaxPipe
    BY <1>1, <1>4, BoundFacts DEF TypeOK
  <2>2. answers' \in Seq([id : Ids, what : {"result", "error"}])
    BY <1>5 DEF Answers
  <2>3. index' = None \/ index' \in [doc : Docs, stamp : 0..MaxWrites, of : Texts]
    BY DEF Indices
  <2> QED
    BY <1>1, <1>2, <1>4, <2>1, <2>2, <2>3 DEF TypeOK
<1>7. ASSUME NEW d \in Docs PROVE MirrorInTurn(d)'
  <2>1. ~Touches(Msg, d)
    BY <1>3 DEF Touches
  <2>2. ~shut_down' => mirror'[d] \in {None, Had(1)[d]}
    BY <1>2, <1>3, <2>1, Kept
  <2>3. ~initialized' => mirror'[d] = None
    BY <1>1, <1>2 DEF MirrorInTurn
  <2> QED
    BY <1>1, <1>2, <1>3, <2>2, <2>3, ReadMirror
<1>8. DiskInTurn'
  BY <1>1, <1>2 DEF DiskInTurn
<1> QED
  BY <1>5, <1>6, <1>7, <1>8 DEF LspInv

-----------------------------------------------------------------------------
(* The editor's steps *)

LEMMA SendNothing ==
    ASSUME LspInv, NEW m \in Messages, m.had = buffer, m.id \in FreshIds, Send(m),
           UNCHANGED <<buffer, versions>>, m.method \notin DocMethods
    PROVE  LspInv'
<1>1. buffer' \in Buffers /\ versions' \in 0..MaxVersions
  BY DEF LspInv, TypeOK
<1>2. \A d \in Docs : ~Touches(m, d) /\ buffer'[d] = buffer[d]
  BY DEF Touches, DocMethods
<1> QED
  BY <1>1, <1>2, SendStep

LEMMA EditorStepKeeps == ASSUME LspInv, EditorStep PROVE LspInv'
<1>1. TypeOK /\ asked \in 0..MaxRequests /\ buffer \in Buffers /\ versions \in Nat
  BY BoundFacts DEF LspInv, TypeOK
<1>2. \A id \in FreshIds : id \in 0..MaxRequests
  BY DEF FreshIds
<1>3. ASSUME NEW id \in FreshIds, NEW method \in Plain, SendPlain(method, id) PROVE LspInv'
  <2> DEFINE m == [method |-> method, id |-> id, had |-> buffer]
  <2>1. UNCHANGED <<buffer, versions>> /\ method \notin DocMethods
    BY <1>3 DEF SendPlain, Plain, DocMethods
  <2>2. m \in Messages /\ m.had = buffer /\ m.method = method /\ m.id = id
    BY <1>1, <1>2 DEF Messages
  <2>3. Send(m)
    BY <1>3 DEF SendPlain
  <2> HIDE DEF m
  <2> QED
    BY <2>1, <2>2, <2>3, SendNothing
<1>4. ASSUME NEW d \in Docs, NEW id \in FreshIds, NEW caret \in BOOLEAN,
             SendCodeAction(d, id, caret)
      PROVE  LspInv'
  <2> DEFINE m == [method |-> "codeAction", id |-> id, doc |-> d, caret |-> caret,
                   had |-> buffer]
  <2>1. UNCHANGED <<buffer, versions>>
    BY <1>4 DEF SendCodeAction
  <2>2. /\ m \in Messages /\ m.had = buffer /\ m.method = "codeAction" /\ m.id = id
    BY <1>1, <1>2, <2>1 DEF Messages
  <2>3. m.method \notin DocMethods
    BY <2>2 DEF DocMethods
  <2>4. Send(m)
    BY <1>4 DEF SendCodeAction
  <2> HIDE DEF m
  <2> QED
    BY <2>1, <2>2, <2>3, <2>4, SendNothing
<1>5. ASSUME NEW d \in Docs, NEW id \in FreshIds, SendOpen(d, id) PROVE LspInv'
  <2> DEFINE m == [method |-> "didOpen", id |-> id, doc |-> d, text |-> file[d], had |-> buffer]
  <2>1. /\ buffer[d] = None /\ buffer' = [buffer EXCEPT ![d] = file[d]] /\ file[d] \in Texts
        /\ versions' = versions
    BY <1>1, <1>5 DEF SendOpen, TypeOK
  <2>2. /\ m \in Messages /\ m.had = buffer /\ m.method = "didOpen" /\ m.id = id /\ m.doc = d
        /\ m.text = file[d]
    BY <1>1, <1>2, <2>1 DEF Messages
  <2>3. Send(m)
    BY <1>5 DEF SendOpen
  <2> HIDE DEF m
  <2>4. buffer' \in Buffers /\ versions' \in 0..MaxVersions
    BY <1>1, <2>1 DEF Buffers, TypeOK
  <2>5. ASSUME NEW x \in Docs
        PROVE  IF Touches(m, x) THEN Leads(m, x, buffer[x], buffer'[x]) ELSE buffer'[x] = buffer[x]
    BY <1>1, <2>1, <2>2 DEF Touches, Leads, Buffers
  <2> QED
    BY <2>1, <2>2, <2>3, <2>4, <2>5, SendStep
<1>6. ASSUME NEW d \in Docs, NEW id \in FreshIds, SendClose(d, id) PROVE LspInv'
  <2> DEFINE m == [method |-> "didClose", id |-> id, doc |-> d, had |-> buffer]
  <2>1. /\ buffer' = [buffer EXCEPT ![d] = None]
        /\ versions' = versions
    BY <1>6 DEF SendClose
  <2>2. m \in Messages /\ m.had = buffer /\ m.method = "didClose" /\ m.id = id /\ m.doc = d
    BY <1>1, <1>2 DEF Messages
  <2>3. Send(m)
    BY <1>6 DEF SendClose
  <2> HIDE DEF m
  <2>4. buffer' \in Buffers /\ versions' \in 0..MaxVersions
    BY <1>1, <2>1 DEF Buffers, TypeOK
  <2>5. ASSUME NEW x \in Docs
        PROVE  IF Touches(m, x) THEN Leads(m, x, buffer[x], buffer'[x]) ELSE buffer'[x] = buffer[x]
    BY <1>1, <2>1, <2>2 DEF Touches, Leads, Buffers
  <2> QED
    BY <2>1, <2>2, <2>3, <2>4, <2>5, SendStep
<1>7. ASSUME NEW d \in Docs, NEW id \in FreshIds, SendChange(d, id) PROVE LspInv'
  <2>1. buffer[d] # None /\ buffer[d] \in Texts
    BY <1>1, <1>7 DEF SendChange, Buffers
  <2>a. PICK full \in BOOLEAN, big \in BOOLEAN : \E batch \in Edits(buffer[d], full, big) :
           /\ versions + Len(batch) <= MaxVersions
           /\ versions' = versions + Len(batch)
           /\ buffer' = [buffer EXCEPT ![d] = batch[Len(batch)].to]
           /\ Send([method |-> "didChange", id |-> id, doc |-> d, batch |-> batch, had |-> buffer])
    BY <1>7 DEF SendChange
  <2>2. PICK batch \in Edits(buffer[d], full, big) :
           /\ versions + Len(batch) <= MaxVersions
           /\ versions' = versions + Len(batch)
           /\ buffer' = [buffer EXCEPT ![d] = batch[Len(batch)].to]
           /\ Send([method |-> "didChange", id |-> id, doc |-> d, batch |-> batch, had |-> buffer])
    BY <2>a
  <2>3. batch \in Batches /\ batch[1].from = buffer[d]
    <3> DEFINE one == Change(full, buffer[d], [ver |-> versions + 1, big |-> big])
               two == Change(FALSE, one.to, [ver |-> versions + 2, big |-> FALSE])
    <3>1. one.from = buffer[d] /\ one.to.ver = versions + 1 /\ two.from = one.to
      BY DEF Change
    <3>2. batch = <<one>> \/ batch = <<one, two>>
      BY DEF Edits
    <3>3. Len(batch) = 1 \/ Len(batch) = 2
      <4> HIDE DEF one, two
      <4> QED
        BY <3>2
    <3>4. one \in Changes
      <4>1. [ver |-> versions + 1, big |-> big] \in Texts
        <5>1. versions + 1 <= MaxVersions
          <6>1. versions + Len(batch) <= MaxVersions
            BY <2>2
          <6>2. CASE Len(batch) = 1
            BY <6>1, <6>2
          <6>3. CASE Len(batch) = 2
            BY <1>1, <6>1, <6>3, BoundFacts
          <6> QED
            BY <3>3, <6>2, <6>3
        <5> QED
          BY <1>1, <5>1, BoundFacts DEF Texts
      <4> QED
        BY <2>1, <4>1 DEF Change, Changes
    <3>5. Len(batch) = 2 => two \in Changes
      <4>1. Len(batch) = 2 => [ver |-> versions + 2, big |-> FALSE] \in Texts
        BY <1>1, <2>2, BoundFacts DEF Texts
      <4>2. one.to \in Texts
        BY <3>4 DEF Changes
      <4> QED
        BY <4>1, <4>2 DEF Change, Changes
    <3> HIDE DEF one, two
    <3>6. CASE batch = <<one>>
      BY <3>1, <3>4, <3>6 DEF Batches
    <3>7. CASE batch = <<one, two>>
      <4>1. Len(batch) = 2 /\ batch[1] = one /\ batch[2] = two
        BY <3>7
      <4>2. batch \in Seq(Changes)
        BY <3>4, <3>5, <3>7, <4>1
      <4> QED
        BY <3>1, <4>1, <4>2 DEF Batches
    <3> QED
      BY <3>2, <3>6, <3>7
  <2> DEFINE m == [method |-> "didChange", id |-> id, doc |-> d, batch |-> batch, had |-> buffer]
  <2>4. /\ m \in Messages /\ m.had = buffer /\ m.method = "didChange" /\ m.id = id /\ m.doc = d
        /\ m.batch = batch
    BY <1>1, <1>2, <2>3 DEF Messages
  <2>5. Send(m)
    BY <2>2
  <2> HIDE DEF m
  <2>6. Len(batch) \in 1..2 /\ batch[Len(batch)].to \in Texts
    BY <2>3, BatchFacts DEF Changes
  <2>7. buffer' \in Buffers
    BY <1>1, <2>2, <2>6 DEF Buffers
  <2>8. versions' \in 0..MaxVersions
    BY <1>1, <2>2, <2>6, BoundFacts
  <2>9. ASSUME NEW x \in Docs
        PROVE  IF Touches(m, x) THEN Leads(m, x, buffer[x], buffer'[x]) ELSE buffer'[x] = buffer[x]
    BY <1>1, <2>2, <2>3, <2>4 DEF Touches, Leads, Buffers
  <2> QED
    BY <2>1, <2>4, <2>5, <2>7, <2>8, <2>9, SendStep
<1>8. ASSUME NEW d \in Docs, Save(d) PROVE LspInv'
  <2>1. buffer[d] \in Texts /\ Write(d, buffer[d]) /\ versions' \in 0..MaxVersions
    BY <1>1, <1>8 DEF Save, Buffers, TypeOK
  <2> QED
    BY <2>1, WriteStep
<1>9. ASSUME NEW d \in Docs, WriteElsewhere(d) PROVE LspInv'
  <2>1. versions' \in 0..MaxVersions /\ [ver |-> versions + 1, big |-> FALSE] \in Texts
    BY <1>1, <1>9, BoundFacts DEF WriteElsewhere, Texts
  <2>2. Write(d, [ver |-> versions + 1, big |-> FALSE])
    BY <1>9 DEF WriteElsewhere
  <2> QED
    BY <2>1, <2>2, WriteStep
<1> QED
  BY <1>3, <1>4, <1>5, <1>6, <1>7, <1>8, <1>9 DEF EditorStep

-----------------------------------------------------------------------------
(* The server's steps *)

\* Each handler answers what is due and nothing else.
LEMMA EachSettles ==
    ASSUME \/ Initialize \/ Refuse \/ Shutdown \/ Ignore \/ TakeNote \/ DropFrame
           \/ DidOpen \/ DidClose \/ DidChange \/ CodeActionFromMirror \/ CodeActionFails
    PROVE  thread = "reading" /\ pipe # <<>> /\ \E what \in {"result", "error"} : Settles(what)
<1>1. CASE Initialize
  BY <1>1, DueFirst DEF Initialize, Reads, Settles
<1>2. CASE Refuse
  BY <1>2, DueFirst DEF Refuse, Refused, Settles
<1>3. CASE Shutdown \/ Ignore
  BY <1>3, DueFirst DEF Shutdown, Ignore, Reads, Settles
<1>4. CASE TakeNote \/ DropFrame
  BY <1>4, DueFirst DEF TakeNote, DropFrame, Reads, Refused, Settles
<1>5. CASE DidOpen \/ DidClose \/ DidChange
  BY <1>5, DueFirst DEF DidOpen, DidClose, DidChange, Reads, Refused, Settles
<1>6. CASE CodeActionFromMirror \/ CodeActionFails
  BY <1>6, DueFirst DEF CodeActionFromMirror, CodeActionFails, Reads, Settles
<1> QED
  BY <1>1, <1>2, <1>3, <1>4, <1>5, <1>6

LEMMA ServerStepKeeps == ASSUME LspInv, ServerStep PROVE LspInv'
<1>1. TypeOK /\ PipeIsOwed /\ DiskInTurn /\ \A d \in Docs : MirrorInTurn(d)
  BY DEF LspInv
<1>2. initialized \in BOOLEAN /\ shut_down \in BOOLEAN /\ reported \in Texts \cup {None, Torn}
  BY <1>1 DEF TypeOK
<1>3. pipe # <<>> => Msg \in Messages
  BY <1>1, MsgType DEF TypeOK
<1>4. CASE Initialize
  <2>1. /\ thread = "reading" /\ pipe # <<>> /\ Msg.method = "initialize"
        /\ initialized' = TRUE /\ shut_down' = shut_down /\ reported' = reported
        /\ UNCHANGED storeVars
    BY <1>4 DEF Initialize, Reads
  <2>2. \A d \in Docs : ~Touches(Msg, d)
    BY <2>1 DEF Touches
  <2>3. PICK what \in {"result", "error"} : Done(what)
    BY <1>4 DEF Initialize
  <2>4. FlagsFollow /\ Settles(what)
    BY <2>1, <2>3, DueFirst DEF FlagsFollow, Settles
  <2> QED
    BY <1>2, <2>1, <2>2, <2>4, DoneStep
<1>5. CASE Refuse
  <2>1. thread = "reading" /\ pipe # <<>> /\ Refused /\ Done("error")
    BY <1>5 DEF Refuse
  <2>2. initialized' = initialized /\ shut_down' = shut_down /\ reported' = reported /\ UNCHANGED storeVars
    BY <1>5 DEF Refuse, flags
  <2>3. ASSUME NEW d \in Docs PROVE mirror[d] = None \/ shut_down
    <3>1. ~initialized => mirror[d] = None
      BY <1>1 DEF MirrorInTurn
    <3> QED
      BY <2>1, <3>1 DEF Refused
  <2>4. FlagsFollow /\ Settles("error")
    BY <1>2, <1>5, <2>1, <2>2, DueFirst DEF Refuse, Refused, FlagsFollow, Settles
  <2> QED
    BY <1>2, <2>1, <2>2, <2>3, <2>4, DoneStep
<1>6. CASE Shutdown
  <2>1. /\ thread = "reading" /\ pipe # <<>> /\ Msg.method = "shutdown" /\ Done("result")
        /\ initialized' = initialized /\ shut_down' = TRUE /\ reported' = reported
        /\ UNCHANGED storeVars /\ initialized
    BY <1>6 DEF Shutdown, Reads, Refused
  <2>2. \A d \in Docs : ~Touches(Msg, d)
    BY <2>1 DEF Touches
  <2>3. FlagsFollow /\ Settles("result")
    BY <2>1, DueFirst DEF FlagsFollow, Settles
  <2> QED
    BY <1>2, <2>1, <2>2, <2>3, DoneStep
<1>7. CASE Ignore
  <2>1. thread = "reading" /\ pipe # <<>> /\ Msg.method = "other"
    BY <1>7 DEF Ignore, Reads
  <2>2. \A d \in Docs : ~Touches(Msg, d)
    BY <2>1 DEF Touches
  <2>3. initialized' = initialized /\ shut_down' = shut_down /\ reported' = reported /\ UNCHANGED storeVars
    BY <1>7 DEF Ignore, flags
  <2>4. PICK what \in {"result", "error"} : Done(what)
    BY <1>7 DEF Ignore
  <2>5. FlagsFollow /\ Settles(what)
    BY <2>1, <2>3, <2>4, DueFirst DEF FlagsFollow, Settles
  <2> QED
    BY <1>2, <2>1, <2>2, <2>3, <2>5, DoneStep
<1>18. CASE TakeNote \/ DropFrame
  <2>1. /\ thread = "reading" /\ pipe # <<>> /\ Silent
        /\ Msg.method = "garbled" \/ (Msg.method = "didSave" /\ ~Refused)
    BY <1>18 DEF TakeNote, DropFrame, Reads
  <2>2. \A d \in Docs : ~Touches(Msg, d)
    BY <2>1 DEF Touches
  <2>3. initialized' = initialized /\ shut_down' = shut_down /\ reported' = reported /\ UNCHANGED storeVars
    BY <1>18 DEF TakeNote, DropFrame, flags
  <2>4. FlagsFollow /\ Settles("error")
    BY <2>1, <2>3, DueFirst DEF FlagsFollow, Settles, Refused
  <2> QED
    BY <1>2, <2>1, <2>2, <2>3, <2>4, DoneStep
<1>8. CASE Exit
  <2>1. thread = "reading" /\ pipe # <<>> /\ Msg.method = "exit"
    BY <1>8 DEF Exit, Reads
  <2>2. \A d \in Docs : ~Touches(Msg, d)
    BY <2>1 DEF Touches
  <2>3. /\ thread' = "ended" /\ pipe' = Tail(pipe) /\ UNCHANGED <<editorVars, diskVars, index, work>>
        /\ initialized' = initialized /\ shut_down' = shut_down /\ reported' = reported
        /\ mirror' = mirror /\ answers' = answers
    BY <1>8 DEF Exit, flags, storeVars
  <2>4. FlagsFollow /\ ~Due(Msg, 1)
    BY <2>1, <2>3, DueFirst DEF FlagsFollow
  <2>5. mirror' \in [Docs -> SmallTexts \cup {None, Torn}]
    BY <1>1, <2>3 DEF TypeOK, SmallTexts
  <2>6. ASSUME NEW d \in Docs
        PROVE  /\ ~shut_down' => mirror'[d] \in {None, Had(1)[d]}
               /\ ~initialized' => mirror'[d] = None
    <3>1. ~shut_down => mirror[d] \in {None, Had(1)[d]}
      BY <2>1, <2>2, Kept
    <3>2. ~initialized => mirror[d] = None
      BY <1>1 DEF MirrorInTurn
    <3> QED
      BY <2>3, <3>1, <3>2
  <2> QED
    BY <1>2, <2>1, <2>3, <2>4, <2>5, <2>6, ReadStep
<1>9. CASE DidOpen
  <2>1. thread = "reading" /\ pipe # <<>> /\ Msg.method = "didOpen" /\ ~Refused /\ Silent
    BY <1>9 DEF DidOpen, Reads
  <2> DEFINE text == IF Msg.text.big THEN None ELSE Msg.text
  <2>2. mirror' = [mirror EXCEPT ![Msg.doc] = text] /\ UNCHANGED <<flags, index, reported>>
    BY <1>9 DEF DidOpen
  <2>3. Msg.method \in DocMethods /\ Msg.doc \in Docs /\ Msg.text \in Texts
    BY <1>3, <2>1, MsgFacts DEF DocMethods
  <2>4. Had(1)[Msg.doc] = Msg.text
    <3>1. Touches(Msg, Msg.doc)
      BY <2>1 DEF Touches
    <3> QED
      BY <1>1, <2>1, <2>3, <3>1, HeadFacts DEF Leads
  <2>5. text \in SmallTexts \cup {None, Torn} /\ text \in {None, Had(1)[Msg.doc]}
    BY <2>3, <2>4 DEF SmallTexts
  <2> HIDE DEF text
  <2> QED
    BY <2>1, <2>2, <2>3, <2>5, MirrorStep
<1>10. CASE DidClose
  <2>1. thread = "reading" /\ pipe # <<>> /\ Msg.method = "didClose" /\ ~Refused /\ Silent
    BY <1>10 DEF DidClose, Reads
  <2>2. mirror' = [mirror EXCEPT ![Msg.doc] = None] /\ UNCHANGED <<flags, index, reported>>
    BY <1>10 DEF DidClose
  <2>3. Msg.method \in DocMethods /\ Msg.doc \in Docs
    BY <1>3, <2>1, MsgFacts DEF DocMethods
  <2> QED
    BY <2>1, <2>2, <2>3, MirrorStep
<1>11. CASE DidChange
  <2>1. thread = "reading" /\ pipe # <<>> /\ Msg.method = "didChange" /\ ~Refused /\ Silent
    BY <1>11 DEF DidChange, Reads
  <2> DEFINE text == IF mirror[Msg.doc] = None THEN None
                     ELSE Cap(Applied(mirror[Msg.doc], Msg.batch))
  <2>2. Msg.method \in DocMethods /\ Msg.doc \in Docs /\ Msg.batch \in Batches
    BY <1>3, <2>1, MsgFacts DEF DocMethods
  <2>3. mirror' = [mirror EXCEPT ![Msg.doc] = text] /\ UNCHANGED <<flags, index, reported>>
    BY <1>1, <1>11, <2>2 DEF DidChange, TypeOK
  <2>4. CASE mirror[Msg.doc] = None
    <3>1. text = None
      BY <2>4
    <3> HIDE DEF text
    <3> QED
      BY <2>1, <2>2, <2>3, <3>1, MirrorStep
  <2>5. CASE mirror[Msg.doc] # None
    <3>1. /\ mirror[Msg.doc] \in Texts \cup {Torn}
          /\ ~shut_down => mirror[Msg.doc] = Had(0)[Msg.doc]
      BY <1>1, <2>2, <2>5 DEF TypeOK, MirrorInTurn
    <3>2. Touches(Msg, Msg.doc)
      BY <2>1 DEF Touches
    <3>3. /\ Msg.batch[1].from = Had(0)[Msg.doc]
          /\ Msg.batch[Len(Msg.batch)].to = Had(1)[Msg.doc]
      BY <1>1, <2>1, <2>2, <3>2, HeadFacts DEF Leads
    <3>4. /\ Applied(mirror[Msg.doc], Msg.batch) \in Texts \cup {Torn}
          /\ ~shut_down => Applied(mirror[Msg.doc], Msg.batch) = Had(1)[Msg.doc]
      BY <2>2, <3>1, <3>3, AppliedFacts
    <3>5. /\ text \in SmallTexts \cup {None, Torn}
          /\ ~shut_down => text \in {None, Had(1)[Msg.doc]}
      BY <2>5, <3>4, CapFacts
    <3> HIDE DEF text
    <3> QED
      BY <2>1, <2>2, <2>3, <3>5, MirrorStep
  <2> QED
    BY <2>4, <2>5
<1>12. CASE CodeActionFromMirror
  <2>1. /\ thread = "reading" /\ pipe # <<>> /\ Msg.method = "codeAction" /\ Done("result")
        /\ reported' = IF Msg.caret THEN None ELSE mirror[Msg.doc]
    BY <1>12 DEF CodeActionFromMirror, Reads
  <2>2. \A d \in Docs : ~Touches(Msg, d)
    BY <2>1 DEF Touches
  <2>3. initialized' = initialized /\ shut_down' = shut_down /\ UNCHANGED storeVars
    BY <1>12 DEF CodeActionFromMirror, flags
  <2>4. reported' \in Texts \cup {None, Torn}
    <3>1. Msg.doc \in Docs
      BY <1>3, <2>1, MsgFacts
    <3> QED
      BY <1>1, <2>1, <3>1 DEF TypeOK
  <2>5. FlagsFollow /\ Settles("result")
    BY <2>1, <2>3, DueFirst DEF FlagsFollow, Settles
  <2> QED
    BY <1>2, <2>1, <2>2, <2>3, <2>4, <2>5, DoneStep
<1>13. CASE StatFile
  BY <1>13, StatStep
<1>14. CASE ReadWindow
  <2>1. work # None /\ index' = index
    BY <1>14 DEF ReadWindow
  <2>2. work.doc \in Docs /\ file[work.doc] \in Texts
    BY <1>1, <2>1 DEF TypeOK
  <2>3. PICK text \in Texts \cup {None, Torn} : ReportFromDisk(text)
    BY <1>14, <2>2 DEF ReadWindow
  <2>4. index # None => /\ index \in Indices /\ index.stamp <= writes
                        /\ index.stamp = stamp[index.doc] => index.of = file[index.doc]
    BY <1>1 DEF TypeOK, DiskInTurn, Indices
  <2> QED
    BY <2>1, <2>3, <2>4, ReportStep
<1>15. CASE ReadWhole
  <2>1. /\ work # None
        /\ index' = [doc |-> work.doc, stamp |-> work.stamp, of |-> file[work.doc]]
        /\ ReportFromDisk(file[work.doc])
    BY <1>15 DEF ReadWhole
  <2>2. work.doc \in Docs /\ work.stamp \in 0..MaxWrites /\ file[work.doc] \in Texts
    BY <1>1, <2>1 DEF TypeOK
  <2>3. /\ index' \in Indices /\ index'.doc = work.doc
        /\ index'.stamp = work.stamp /\ index'.of = file[work.doc]
    BY <2>1, <2>2 DEF Indices
  <2>4. work.stamp <= writes
    BY <1>1, <2>1 DEF DiskInTurn
  <2> QED
    BY <2>1, <2>2, <2>3, <2>4, ReportStep
<1>16. CASE DiskFails
  <2>1. ReportFromDisk(None) /\ index' \in {index, None}
    BY <1>16 DEF DiskFails
  <2>2. index # None => /\ index \in Indices /\ index.stamp <= writes
                        /\ index.stamp = stamp[index.doc] => index.of = file[index.doc]
    BY <1>1 DEF TypeOK, DiskInTurn, Indices
  <2> QED
    BY <2>1, <2>2, ReportStep
<1>17. CASE CodeActionFails
  <2>1. thread = "reading" /\ pipe # <<>> /\ Msg.method = "codeAction" /\ Done("error")
    BY <1>17 DEF CodeActionFails, Reads
  <2>2. \A d \in Docs : ~Touches(Msg, d)
    BY <2>1 DEF Touches
  <2>3. initialized' = initialized /\ shut_down' = shut_down /\ reported' = reported /\ UNCHANGED storeVars
    BY <1>17 DEF CodeActionFails, flags
  <2>4. FlagsFollow /\ Settles("error")
    BY <2>1, <2>3, DueFirst DEF FlagsFollow, Settles
  <2> QED
    BY <1>2, <2>1, <2>2, <2>3, <2>4, DoneStep
<1> QED
  BY <1>4, <1>5, <1>6, <1>7, <1>8, <1>9, <1>10, <1>11, <1>12, <1>13, <1>14, <1>15, <1>16, <1>17, <1>18
     DEF ServerStep

LEMMA EndKeeps == ASSUME LspInv, InputEnds \/ UNCHANGED vars PROVE LspInv'
<1>1. /\ UNCHANGED <<pipe, buffer, asked, owed, versions, writes, file, stamp, initialized, shut_down,
                     mirror, index, work, answers, reported>>
      /\ thread' \in {thread, "ended"}
      /\ thread' # thread => thread = "reading"
  BY DEF InputEnds, vars, editorVars, diskVars, flags, storeVars
<1>2. TypeOK /\ PipeIsOwed /\ DiskInTurn /\ \A d \in Docs : MirrorInTurn(d)
  BY DEF LspInv
<1>3. TypeOK'
  <2>1. (thread \in {"reading", "reading_disk", "ended"})'
    BY <1>1, <1>2 DEF TypeOK
  <2>2. \/ (index = None)'
        \/ (index \in [doc : Docs, stamp : 0..MaxWrites, of : Texts])'
    BY <1>1, <1>2 DEF TypeOK
  <2>3. \/ (work = None)'
        \/ (work \in [doc : Docs, stamp : 0..MaxWrites, file : Texts])'
    BY <1>1, <1>2 DEF TypeOK
  <2> QED
    BY <1>1, <1>2, <2>1, <2>2, <2>3 DEF TypeOK
<1>4. PipeIsOwed'
  BY <1>1, <1>2, SameIsOwed
<1>5. ASSUME NEW d \in Docs PROVE MirrorInTurn(d)'
  <2>1. MirrorInTurn(d)
    BY <1>2
  <2> QED
    BY <1>1, <2>1 DEF MirrorInTurn, Had
<1>6. DiskInTurn'
  <2>1. (thread = "reading_disk" <=> work # None)'
    BY <1>1, <1>2 DEF DiskInTurn
  <2>2. (work # None => pipe # <<>> /\ Msg.method = "codeAction" /\ Msg.doc = work.doc)'
    BY <1>1, <1>2 DEF DiskInTurn, Msg
  <2>3. (IndexMatches <=> IndexMatches')
    BY <1>1 DEF IndexMatches
  <2> QED
    BY <1>1, <1>2, <2>1, <2>2, <2>3 DEF DiskInTurn
<1> QED
  BY <1>3, <1>4, <1>5, <1>6 DEF LspInv

-----------------------------------------------------------------------------
(* Theorems *)

\* The inductive invariant of the session (lsp/server.rs, lsp/documents.rs): the pipe holds
\* the requests that are owed, the mirror is a buffer on its way or not there, and the index
\* is of the version under whose stamp it is kept, unless that stamp has gone.
THEOREM LspCorrect == Spec => []LspInv
<1>1. Init => LspInv
  <2> SUFFICES ASSUME Init PROVE LspInv
    OBVIOUS
  <2>1. TypeOK
    <3>1. [ver |-> 0, big |-> FALSE] \in Texts
      BY BoundFacts DEF Texts
    <3>2. pipe \in Seq(Messages) /\ Len(pipe) <= MaxPipe
      BY BoundFacts DEF Init
    <3>3. answers \in Seq([id : Ids, what : {"result", "error"}])
      BY DEF Init
    <3>4. buffer \in Buffers
      BY DEF Init, Buffers
    <3>5. mirror \in [Docs -> {t \in Texts : ~t.big} \cup {None, Torn}]
      BY DEF Init
    <3>6. file \in [Docs -> Texts] /\ stamp \in [Docs -> 0..MaxWrites]
      BY <3>1, BoundFacts DEF Init
    <3>7. asked \in 0..MaxRequests /\ owed \in Seq(Ids) /\ versions \in 0..MaxVersions /\ writes \in 0..MaxWrites
      BY BoundFacts DEF Init
    <3>8. thread = "reading" /\ index = None /\ work = None /\ reported = None
      BY DEF Init
    <3>9. initialized \in BOOLEAN /\ shut_down \in BOOLEAN
      BY DEF Init
    <3> QED
      BY <3>2, <3>3, <3>4, <3>5, <3>6, <3>7, <3>8, <3>9 DEF TypeOK
  <2>2. PipeIsOwed
    <3>1. pipe = <<>> /\ owed = <<>> /\ answers = <<>>
      BY DEF Init
    <3>2. Len(answers) = 0 /\ Len(owed) = 0 /\ DOMAIN pipe = {} /\ DOMAIN owed = {} /\ DOMAIN answers = {}
      BY <3>1
    <3>3. (Len(answers) + 1)..Len(owed) = {}
      BY <3>2
    <3> QED
      BY <3>2, <3>3 DEF PipeIsOwed
  <2>3. ASSUME NEW d \in Docs PROVE MirrorInTurn(d)
    <3>1. mirror[d] = None /\ pipe = <<>> /\ Len(pipe) = 0
      BY DEF Init
    <3>2. \A i, j \in 0..Len(pipe) : i = j
      BY <3>1
    <3>3. 1..Len(pipe) = {}
      BY <3>1
    <3> QED
      BY <3>1, <3>2, <3>3 DEF MirrorInTurn
  <2>4. DiskInTurn
    BY BoundFacts DEF Init, DiskInTurn
  <2> QED
    BY <2>1, <2>2, <2>3, <2>4 DEF LspInv
<1>2. LspInv /\ [Next]_vars => LspInv'
  BY EditorStepKeeps, ServerStepKeeps, EndKeeps DEF Next
<1> QED
  BY <1>1, <1>2, PTL DEF Spec

\* When nothing about a document is on its way, its mirror is what the editor has, or there
\* is none, as long as the session is not shut down: for any number of documents, edits and messages in the pipe (documents.rs).
THEOREM MirrorCurrent == Spec => []MirrorIsCurrent
<1>1. LspInv => MirrorIsCurrent
  <2> SUFFICES ASSUME LspInv, ~shut_down, NEW d \in Docs, Settled(d), mirror[d] # None
               PROVE  mirror[d] = buffer[d]
    BY DEF MirrorIsCurrent
  <2>1. MirrorInTurn(d) /\ Len(pipe) \in Nat /\ DOMAIN pipe = 1..Len(pipe)
    BY LenProperties DEF LspInv, TypeOK
  <2>2. \A k \in (0 + 1)..Len(pipe) : ~Touches(pipe[k], d)
    BY <2>1 DEF Settled
  <2>3. 0 \in 0..Len(pipe) /\ Len(pipe) \in 0..Len(pipe) /\ 0 <= Len(pipe)
    BY <2>1
  <2>4. Had(0)[d] = Had(Len(pipe))[d]
    BY <2>1, <2>2, <2>3 DEF MirrorInTurn
  <2>5. Had(Len(pipe)) = buffer
    BY <2>1 DEF Had
  <2> QED
    BY <2>1, <2>4, <2>5 DEF MirrorInTurn
<1> QED
  BY <1>1, LspCorrect, PTL

\* The text of a selection in a mirrored buffer is the one the editor had when it asked,
\* however far it is ahead, until it shuts the session down (lsp/server.rs, code_action).
THEOREM SelectionTrue == Spec => SelectionTextIsTrue
<1>1. LspInv /\ [Next]_vars
        => [CodeActionFromMirror /\ ~Msg.caret /\ ~shut_down
              => reported' = Msg.had[Msg.doc]]_vars
  <2> SUFFICES ASSUME LspInv, CodeActionFromMirror, ~Msg.caret, ~shut_down
               PROVE  reported' = Msg.had[Msg.doc]
    OBVIOUS
  <2>1. /\ pipe # <<>> /\ Msg.method = "codeAction" /\ mirror[Msg.doc] # None
        /\ reported' = mirror[Msg.doc]
    BY DEF CodeActionFromMirror, Reads
  <2>2. TypeOK /\ Msg.doc \in Docs /\ MirrorInTurn(Msg.doc)
    BY <2>1, MsgType, MsgFacts DEF LspInv, TypeOK
  <2>3. Had(0) = Msg.had
    BY <2>1, <2>2, HeadFacts
  <2> QED
    BY <2>1, <2>2, <2>3 DEF MirrorInTurn
<1> QED
  BY <1>1, LspCorrect, PTL DEF Spec, SelectionTextIsTrue

\* The text of a selection in an unmirrored file is what the file held when it was looked
\* up, unless it was written meanwhile, whatever was indexed before (text_from_disk).
THEOREM DiskTrue == Spec => DiskTextIsTrue
<1>1. LspInv /\ [Next]_vars
        => [(ReadWindow \/ ReadWhole) /\ file[work.doc] = work.file
               => reported' = file[work.doc]]_vars
  <2> SUFFICES ASSUME LspInv, ReadWindow \/ ReadWhole, file[work.doc] = work.file
               PROVE  reported' = file[work.doc]
    OBVIOUS
  <2>1. CASE ReadWindow
    <3>1. index.of = work.file
      BY <2>1 DEF ReadWindow, LspInv, DiskInTurn
    <3> QED
      BY <2>1, <3>1 DEF ReadWindow, ReportFromDisk
  <2>2. CASE ReadWhole
    BY <2>2 DEF ReadWhole, ReportFromDisk
  <2> QED
    BY <2>1, <2>2
<1> QED
  BY <1>1, LspCorrect, PTL DEF Spec, DiskTextIsTrue

\* What is left of a sequence behind its first n.
Rest(s, n) == [i \in 1..(Len(s) - n) |-> s[n + i]]

LEMMA RestFacts ==
    ASSUME NEW S, NEW s \in Seq(S), NEW e \in S, NEW n \in 0..Len(s)
    PROVE  /\ Rest(Append(s, e), n) = Append(Rest(s, n), e)
           /\ n < Len(s) => /\ Rest(s, n) # <<>>
                            /\ Head(Rest(s, n)) = s[n + 1]
                            /\ Tail(Rest(s, n)) = Rest(s, n + 1)
<1>0. Len(s) \in Nat /\ \A i \in 1..Len(s) : s[i] \in S
  BY LenProperties, ElementOfSeq
<1>1. Rest(s, n) \in Seq(S) /\ Len(Rest(s, n)) = Len(s) - n
  <2>1. \A i \in 1..(Len(s) - n) : n + i \in 1..Len(s)
    BY <1>0
  <2> QED
    BY <1>0, <2>1 DEF Rest
<1>2. Rest(Append(s, e), n) = Append(Rest(s, n), e)
  <2>1. /\ Len(Append(s, e)) = Len(s) + 1 /\ Append(s, e)[Len(s) + 1] = e
        /\ Append(s, e) \in Seq(S) /\ \A i \in 1..Len(s) : Append(s, e)[i] = s[i]
    BY AppendProperties
  <2>2. \A i \in 1..(Len(s) + 1 - n) : n + i \in 1..(Len(s) + 1)
    BY <1>0
  <2>3. /\ Rest(Append(s, e), n) \in Seq(S) /\ Len(Rest(Append(s, e), n)) = Len(s) + 1 - n
    <3>1. \A i \in 1..(Len(s) + 1) : Append(s, e)[i] \in S
      BY <2>1, ElementOfSeq
    <3> QED
      BY <1>0, <2>1, <2>2, <3>1 DEF Rest
  <2>4. /\ Append(Rest(s, n), e) \in Seq(S) /\ Len(Append(Rest(s, n), e)) = Len(s) + 1 - n
        /\ Append(Rest(s, n), e)[Len(s) + 1 - n] = e
        /\ \A i \in 1..(Len(s) - n) : Append(Rest(s, n), e)[i] = Rest(s, n)[i]
    BY <1>0, <1>1, AppendProperties
  <2>5. ASSUME NEW i \in 1..(Len(s) + 1 - n)
        PROVE  Rest(Append(s, e), n)[i] = Append(Rest(s, n), e)[i]
    <3>1. Rest(Append(s, e), n)[i] = Append(s, e)[n + i]
      BY <2>1 DEF Rest
    <3>2. CASE i = Len(s) + 1 - n
      BY <1>0, <2>1, <2>4, <3>1, <3>2
    <3>3. CASE i \in 1..(Len(s) - n)
      <4>1. Rest(s, n)[i] = s[n + i] /\ n + i \in 1..Len(s)
        BY <1>0, <3>3 DEF Rest
      <4> QED
        BY <2>1, <2>4, <3>1, <3>3, <4>1
    <3>4. i = Len(s) + 1 - n \/ i \in 1..(Len(s) - n)
      BY <1>0
    <3> QED
      BY <3>2, <3>3, <3>4
  <2> QED
    BY <2>3, <2>4, <2>5, SeqEqual
<1>3. ASSUME n < Len(s)
      PROVE  /\ Rest(s, n) # <<>> /\ Head(Rest(s, n)) = s[n + 1]
             /\ Tail(Rest(s, n)) = Rest(s, n + 1)
  <2>1. 1 \in 1..(Len(s) - n)
    BY <1>0, <1>3
  <2>2. Rest(s, n)[1] = s[n + 1]
    BY <2>1 DEF Rest
  <2>3. Rest(s, n) # <<>>
    BY <1>0, <1>1, <1>3
  <2>4. /\ Tail(Rest(s, n)) \in Seq(S) /\ Len(Tail(Rest(s, n))) = Len(s) - n - 1
        /\ \A i \in 1..(Len(s) - n - 1) : Tail(Rest(s, n))[i] = Rest(s, n)[i + 1]
    BY <1>1, <2>3, HeadTailProperties
  <2>5. Rest(s, n + 1) \in Seq(S) /\ Len(Rest(s, n + 1)) = Len(s) - n - 1
    <3>1. \A i \in 1..(Len(s) - (n + 1)) : (n + 1) + i \in 1..Len(s)
      BY <1>0, <1>3
    <3>2. Len(s) - (n + 1) \in Nat /\ Len(s) - (n + 1) = Len(s) - n - 1
      BY <1>0, <1>3
    <3> QED
      BY <1>0, <3>1, <3>2 DEF Rest
  <2>6. ASSUME NEW i \in 1..(Len(s) - n - 1)
        PROVE  Tail(Rest(s, n))[i] = Rest(s, n + 1)[i]
    <3>1. /\ i + 1 \in 1..(Len(s) - n) /\ i \in 1..(Len(s) - (n + 1))
          /\ n + (i + 1) = (n + 1) + i
      BY <1>0
    <3> QED
      BY <2>4, <3>1 DEF Rest
  <2>7. Tail(Rest(s, n)) = Rest(s, n + 1)
    BY <2>4, <2>5, <2>6, SeqEqual
  <2> QED
    BY <1>1, <2>2, <2>3, <2>7
<1> QED
  BY <1>2, <1>3

\* The safety half of the promise: an answer goes out for a message that is due, once and in
\* the order in which these were sent, and for no other: not for a frame that does not decode,
\* nor for a notification that has an id (lsp/server.rs, serve_lsp and route).
THEOREM AnswersInOrder == Spec => RequestsAreAnswered
<1> DEFINE waits == Rest(owed, Len(answers))
           gone  == [i \in DOMAIN answers |-> answers[i].id]
<1>1. Init => Promise!RInit
  <2> SUFFICES ASSUME Init PROVE Promise!RInit
    OBVIOUS
  <2>1. thread # "ended" /\ owed = <<>> /\ answers = <<>> /\ Len(answers) = 0 /\ Len(owed) = 0
    BY DEF Init
  <2>2. waits = <<>> /\ gone = <<>>
    <3>1. 1..(Len(owed) - Len(answers)) = {} /\ DOMAIN answers = {}
      BY <2>1
    <3> QED
      BY <2>1, <3>1 DEF Rest
  <2> QED
    BY <2>1, <2>2 DEF Promise!RInit, Rest
<1>2. LspInv /\ [Next]_vars => [Promise!RNext]_(Promise!rvars)
  <2> SUFFICES ASSUME LspInv, [Next]_vars PROVE Promise!RNext \/ UNCHANGED Promise!rvars
    OBVIOUS
  <2>t. /\ TypeOK /\ PipeIsOwed /\ DiskInTurn
        /\ answers \in Seq(Answers) /\ owed \in Seq(Ids)
        /\ Len(answers) \in 0..Len(owed) /\ Len(owed) \in Nat /\ Len(answers) \in Nat
    BY OwedFacts DEF LspInv
  \* Nothing becomes due and nothing is answered.
  <2>q. ASSUME owed' = owed, answers' = answers, thread' # "ended", thread # "ended"
        PROVE  UNCHANGED Promise!rvars
    BY <2>q DEF Promise!rvars
  <2>e. ASSUME thread' = "ended", thread # "ended", answers' = answers
        PROVE  Promise!RNext
    BY <2>e DEF Promise!RNext, Promise!Quit
  \* A message is sent that is due ...
  <2>a. ASSUME NEW id \in Ids, owed' = Append(owed, id), answers' = answers,
               thread # "ended", thread' # "ended"
        PROVE  Promise!RNext
    <3>1. waits' = Append(waits, id)
      BY <2>t, <2>a, RestFacts
    <3>2. [x \in {"editor"} |-> waits'] = [[x \in {"editor"} |-> waits] EXCEPT !["editor"] = Append(@, id)]
      BY <3>1
    <3> QED
      BY <2>a, <3>2 DEF Promise!RNext, Promise!Ask, Rest
  <2>s. ASSUME NEW m, m.id \in FreshIds, Send(m)
        PROVE  Promise!RNext \/ UNCHANGED Promise!rvars
    <3>1. thread # "ended" /\ thread' # "ended" /\ answers' = answers
      BY <2>s DEF Send
    <3>2. CASE Due(m, Len(pipe) + 1)
      <4>1. owed' = Append(owed, m.id) /\ m.id \in Ids
        <5>1. m.id \in 0..MaxRequests /\ m.id # 0
          BY <2>s, <3>2 DEF FreshIds, Due
        <5> QED
          BY <2>s, <3>2, <5>1, BoundFacts DEF Send, Ids
      <4> QED
        BY <3>1, <4>1, <2>a
    <3>3. CASE ~Due(m, Len(pipe) + 1)
      BY <2>s, <2>q, <3>1, <3>3 DEF Send
    <3> QED
      BY <3>2, <3>3
  \* ... or answered, or one that is not is done with.
  <2>d. ASSUME NEW what \in {"result", "error"}, pipe # <<>>, owed' = owed,
               answers' = IF Due(Msg, 1) THEN Append(answers, [id |-> Msg.id, what |-> what])
                                         ELSE answers,
               thread # "ended", thread' # "ended"
        PROVE  Promise!RNext \/ UNCHANGED Promise!rvars
    <3>1. CASE ~Due(Msg, 1)
      BY <2>d, <2>q, <3>1
    <3>2. CASE Due(Msg, 1)
      <4>1. Len(answers) + 1 \in 1..Len(owed) /\ Msg.id = owed[Len(answers) + 1]
        BY <2>t, <2>d, <3>2, HeadIsDue
      <4>2. answers' = Append(answers, [id |-> owed[Len(answers) + 1], what |-> what])
        BY <2>d, <3>2, <4>1
      <4>3. /\ Len(answers') = Len(answers) + 1
            /\ gone' = Append(gone, owed[Len(answers) + 1])
        BY <2>t, <4>2
      <4>4. /\ waits # <<>> /\ Head(waits) = owed[Len(answers) + 1] /\ waits' = Tail(waits)
        <5>1. Len(answers) < Len(owed) /\ owed[Len(answers) + 1] \in Ids
          BY <2>t, <4>1, ElementOfSeq
        <5>2. waits' = Rest(owed, Len(answers) + 1)
          BY <2>d, <4>3
        <5> HIDE DEF gone
        <5> QED
          BY <2>t, <5>1, <5>2, RestFacts
      <4>5. Promise!Answer("editor")
        BY <2>d, <4>3, <4>4 DEF Promise!Answer, Rest
      <4> QED
        BY <4>5 DEF Promise!RNext
    <3> QED
      BY <3>1, <3>2
  <2>1. CASE EditorStep
    <3>1. ASSUME NEW id \in FreshIds, NEW method \in Plain, SendPlain(method, id)
          PROVE  Promise!RNext \/ UNCHANGED Promise!rvars
      BY <2>s, <3>1 DEF SendPlain
    <3>2. ASSUME NEW d \in Docs, NEW id \in FreshIds, NEW caret \in BOOLEAN,
                 SendCodeAction(d, id, caret)
          PROVE  Promise!RNext \/ UNCHANGED Promise!rvars
      BY <2>s, <3>2 DEF SendCodeAction
    <3>3. ASSUME NEW d \in Docs, NEW id \in FreshIds,
                 SendOpen(d, id) \/ SendClose(d, id) \/ SendChange(d, id)
          PROVE  Promise!RNext \/ UNCHANGED Promise!rvars
      <4>1. PICK m : m.id = id /\ Send(m)
        <5>1. CASE SendOpen(d, id) \/ SendClose(d, id)
          BY <5>1 DEF SendOpen, SendClose
        <5>2. CASE SendChange(d, id)
          BY <5>2 DEF SendChange
        <5> QED
          BY <3>3, <5>1, <5>2
      <4> QED
        BY <2>s, <4>1
    <3>4. ASSUME NEW d \in Docs, Save(d) \/ WriteElsewhere(d)
          PROVE  UNCHANGED Promise!rvars
      BY <3>4 DEF Save, WriteElsewhere, Write, Promise!rvars
    <3> QED
      BY <2>1, <3>1, <3>2, <3>3, <3>4 DEF EditorStep
  <2>2. CASE ServerStep
    <3>1. CASE Exit
      BY <3>1, <2>e DEF Exit, Reads
    <3>2. CASE StatFile
      BY <3>2, <2>q DEF StatFile, Reads, editorVars
    <3>3. ASSUME NEW text, ReportFromDisk(text)
          PROVE  Promise!RNext \/ UNCHANGED Promise!rvars
      <4>1. pipe # <<>> /\ (Due(Msg, 1) <=> Msg.id # 0)
        BY <2>t, <3>3, DueFirst DEF ReportFromDisk, DiskInTurn
      <4>2. /\ answers' = IF Due(Msg, 1) THEN Append(answers, [id |-> Msg.id, what |-> "result"])
                                         ELSE answers
            /\ owed' = owed /\ thread # "ended" /\ thread' # "ended"
        BY <3>3, <4>1 DEF ReportFromDisk, Answer, editorVars
      <4> QED
        BY <4>1, <4>2, <2>d
    <3>4. CASE ReadWindow \/ ReadWhole \/ DiskFails
      BY <3>3, <3>4 DEF ReadWindow, ReadWhole, DiskFails
    <3>5. ASSUME NEW what \in {"result", "error"}, Settles(what), thread = "reading", pipe # <<>>
          PROVE  Promise!RNext \/ UNCHANGED Promise!rvars
      BY <3>5, <2>d, SettledAnswer DEF editorVars
    <3> QED
      BY <2>2, <3>1, <3>2, <3>4, <3>5, EachSettles DEF ServerStep
  <2>3. CASE InputEnds
    BY <2>3, <2>e DEF InputEnds
  <2>4. CASE UNCHANGED vars
    BY <2>4 DEF vars, editorVars, Promise!rvars
  <2> QED
    BY <2>1, <2>2, <2>3, <2>4 DEF Next
<1> QED
  BY <1>1, <1>2, LspCorrect, PTL DEF Spec, RequestsAreAnswered, Promise!RSpec
=============================================================================

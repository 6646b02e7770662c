------------------------------ MODULE LspSession ------------------------------
(***************************************************************************)
(* The editor's side of the companion: the one thread that reads LSP       *)
(* messages, routes them, answers requests and hands selections to the     *)
(* tracker (server/src/lsp/server.rs), with the mirror of open buffers and *)
(* the line index of the last unmirrored file (server/src/lsp/documents.rs)*)
(*                                                                         *)
(* The pipe between the editor and the server is a queue, so the editor is *)
(* ahead of the server; the file system is shared with everybody.  A text  *)
(* is a version and whether it is over the mirror's cap: what an edit does *)
(* to the bytes is DocumentText's subject.  An incremental change made for *)
(* another text than the one it is applied to gives Torn, and so does a    *)
(* window cut out of a file by the index of another version.               *)
(***************************************************************************)
EXTENDS Naturals, Sequences

CONSTANTS
    Docs,          \* documents: a URI and the path it names
    None, Torn,
    MaxRequests,   \* bounds: messages with an id,
    MaxVersions,   \*         versions of texts,
    MaxWrites,     \*         writes to the file system,
    MaxPipe        \*         messages the editor is ahead

Texts == [ver : 0..MaxVersions, big : BOOLEAN]
Ids   == 1..MaxRequests

ASSUME BoundsAssumption ==
    {MaxRequests, MaxVersions, MaxWrites, MaxPipe} \subseteq Nat
ASSUME NoneAssumption ==
    /\ None \notin Texts /\ Torn \notin Texts /\ None # Torn
    /\ None \notin [doc : Docs, stamp : 0..MaxWrites, of : Texts]
    /\ None \notin [doc : Docs, stamp : 0..MaxWrites, file : Texts]

VARIABLES
    pipe,        \* messages the server has not read
    buffer,      \* the text of each buffer in the editor, None when it is closed
    asked,       \* how many messages with an id were sent: ids are 1..asked
    owed,        \* history: the ids among them that are to be answered, see Due
    versions, writes,   \* how much of the bounds is used
    file,        \* the text of each document on disk
    stamp,       \* its length and modification time
    thread,      \* where the server's thread is: "reading", "reading_disk", "ended"
    initialized, shut_down,
    mirror,      \* DocumentStore.docs
    index,       \* DocumentStore.disk
    work,        \* the file a code action has just looked up, as it was then
    answers,     \* what went back, with its id
    reported     \* the text of the last selection handed to the tracker, None if empty

editorVars == <<buffer, asked, owed, versions>>
diskVars   == <<writes, file, stamp>>
flags      == <<initialized, shut_down>>
storeVars  == <<mirror, index>>
vars == <<pipe, editorVars, diskVars, thread, flags, storeVars, work, answers, reported>>

\* Any message may have an id, also one of a method that LSP defines as a notification;
\* id 0 is none, or an explicit null.  `had` is history: the editor's buffers when it sent
\* the message.  "didSave" stands for `initialized` too, "other" for `selectionRange` and
\* for methods there are no handlers for, and "garbled" for a frame that is not a Request.
Plain == {"initialize", "shutdown", "exit", "didSave", "other", "garbled"}

Buffers == [Docs -> Texts \cup {None}]

\* A batch of one or two changes, each the whole text or made for the one before it.
Change(full, from, to) == [full |-> full, from |-> from, to |-> to]

Changes == [full : BOOLEAN, from : Texts, to : Texts]

Batches == {b \in Seq(Changes) : Len(b) = 1 \/ (Len(b) = 2 /\ b[2].from = b[1].to)}

Messages ==
    LET anyId == 0..MaxRequests
    IN  [method : Plain, id : anyId, had : Buffers]
        \cup [method : {"codeAction"}, id : anyId, doc : Docs, caret : BOOLEAN, had : Buffers]
        \cup [method : {"didOpen"}, id : anyId, doc : Docs, text : Texts, had : Buffers]
        \cup [method : {"didClose"}, id : anyId, doc : Docs, had : Buffers]
        \cup [method : {"didChange"}, id : anyId, doc : Docs, batch : Batches, had : Buffers]

TypeOK ==
    /\ pipe \in Seq(Messages) /\ Len(pipe) <= MaxPipe
    /\ buffer \in Buffers
    /\ asked \in 0..MaxRequests /\ owed \in Seq(Ids)
    /\ versions \in 0..MaxVersions /\ writes \in 0..MaxWrites
    /\ file \in [Docs -> Texts] /\ stamp \in [Docs -> 0..MaxWrites]
    /\ thread \in {"reading", "reading_disk", "ended"}
    /\ initialized \in BOOLEAN /\ shut_down \in BOOLEAN
    /\ mirror \in [Docs -> {t \in Texts : ~t.big} \cup {None, Torn}]
    /\ index = None \/ index \in [doc : Docs, stamp : 0..MaxWrites, of : Texts]
    /\ work = None \/ work \in [doc : Docs, stamp : 0..MaxWrites, file : Texts]
    /\ answers \in Seq([id : Ids, what : {"result", "error"}])
    /\ reported \in Texts \cup {None, Torn}

Init ==
    /\ pipe = <<>>
    /\ buffer = [d \in Docs |-> None]
    /\ asked = 0 /\ owed = <<>> /\ versions = 0 /\ writes = 0
    /\ file = [d \in Docs |-> [ver |-> 0, big |-> FALSE]]
    /\ stamp = [d \in Docs |-> 0]
    /\ thread = "reading"
    /\ initialized = FALSE /\ shut_down = FALSE
    /\ mirror = [d \in Docs |-> None]
    /\ index = None
    /\ work = None
    /\ answers = <<>>
    /\ reported = None

-----------------------------------------------------------------------------
(* The editor.  It keeps to document sync, and sends all else in any order. *)

\* What the server will be when it gets to the i-th message of the pipe.
InitBefore(i) == initialized \/ \E k \in 1..(i - 1) : pipe[k].method = "initialize"

DownBefore(i) ==
    shut_down \/ \E k \in 1..(i - 1) : pipe[k].method = "shutdown" /\ InitBefore(k)

\* Whether the i-th message, m, is to be answered, as LSP has it: it has an id, and it is a
\* request by its method, or comes when everything is refused.  A notification with an id,
\* `exit`, and a frame whose id nobody can read are not.
Due(m, i) ==
    /\ m.id # 0
    /\ \/ m.method \in {"initialize", "shutdown", "other", "codeAction"}
       \/ m.method \notin {"exit", "garbled"} /\ (~InitBefore(i) \/ DownBefore(i))

\* With an id, the next one, or without.
FreshIds == {0, asked + 1} \cap (0..MaxRequests)

\* Once the thread has ended nobody reads what is sent.
Send(m) ==
    /\ thread # "ended"
    /\ Len(pipe) < MaxPipe
    /\ pipe' = Append(pipe, m)
    /\ asked' = IF m.id = 0 THEN asked ELSE m.id
    /\ owed' = IF Due(m, Len(pipe) + 1) THEN Append(owed, m.id) ELSE owed
    /\ UNCHANGED <<diskVars, thread, flags, storeVars, work, answers, reported>>

\* A message that names no document.
SendPlain(method, id) ==
    /\ Send([method |-> method, id |-> id, had |-> buffer])
    /\ UNCHANGED <<buffer, versions>>

\* A code action with the selection, which is a bare cursor or not.
SendCodeAction(d, id, caret) ==
    /\ buffer[d] # None
    /\ Send([method |-> "codeAction", id |-> id, doc |-> d, caret |-> caret, had |-> buffer])
    /\ UNCHANGED <<buffer, versions>>

SendOpen(d, id) ==
    /\ buffer[d] = None
    /\ Send([method |-> "didOpen", id |-> id, doc |-> d, text |-> file[d], had |-> buffer])
    /\ buffer' = [buffer EXCEPT ![d] = file[d]]
    /\ UNCHANGED versions

SendClose(d, id) ==
    /\ buffer[d] # None
    /\ Send([method |-> "didClose", id |-> id, doc |-> d, had |-> buffer])
    /\ buffer' = [buffer EXCEPT ![d] = None]
    /\ UNCHANGED versions

\* The batches that may follow a text: one change, or it and another.
Edits(text, full, big) ==
    LET one == Change(full, text, [ver |-> versions + 1, big |-> big])
        two == Change(FALSE, one.to, [ver |-> versions + 2, big |-> FALSE])
    IN  {<<one>>, <<one, two>>}

SendChange(d, id) ==
    /\ buffer[d] # None
    /\ \E full, big \in BOOLEAN : \E batch \in Edits(buffer[d], full, big) :
          /\ versions + Len(batch) <= MaxVersions
          /\ versions' = versions + Len(batch)
          /\ buffer' = [buffer EXCEPT ![d] = batch[Len(batch)].to]
          /\ Send([method |-> "didChange", id |-> id, doc |-> d, batch |-> batch, had |-> buffer])

\* The file is written: the buffer is saved, or somebody else writes something new.
\* Length and time tell the versions apart.
Write(d, t) ==
    /\ writes < MaxWrites
    /\ writes' = writes + 1
    /\ stamp' = [stamp EXCEPT ![d] = writes + 1]
    /\ file' = [file EXCEPT ![d] = t]
    /\ UNCHANGED <<pipe, buffer, asked, owed, thread, flags, storeVars, work, answers, reported>>

Save(d) == buffer[d] # None /\ Write(d, buffer[d]) /\ UNCHANGED versions

WriteElsewhere(d) ==
    /\ versions < MaxVersions
    /\ versions' = versions + 1
    /\ Write(d, [ver |-> versions + 1, big |-> FALSE])

-----------------------------------------------------------------------------
(* The server's thread *)

Msg == Head(pipe)

\* The next message, of this method.
Reads(method) == thread = "reading" /\ pipe # <<>> /\ Msg.method = method

\* A notification is never answered, whatever the handler decided.
Answer(id, what) ==
    answers' = IF id = 0 THEN answers ELSE Append(answers, [id |-> id, what |-> what])

Done(what) ==
    /\ pipe' = Tail(pipe)
    /\ Answer(Msg.id, what)
    /\ UNCHANGED <<editorVars, diskVars, thread, work>>

\* Reply::Silent: nothing is written, id or not.
Silent ==
    /\ pipe' = Tail(pipe)
    /\ UNCHANGED <<editorVars, diskVars, thread, work, answers>>

\* What route refuses or drops before it looks at the method.
Refused == ~initialized \/ (shut_down /\ Msg.id # 0)

Initialize ==
    /\ Reads("initialize")
    /\ initialized' = TRUE
    /\ Done(IF initialized THEN "error" ELSE "result")
    /\ UNCHANGED <<shut_down, storeVars, reported>>

\* Mutant of Refuse: a request is dropped like a notification.
RefuseSilently ==
    /\ thread = "reading" /\ pipe # <<>>
    /\ Msg.method \notin {"initialize", "exit", "garbled"}
    /\ Refused
    /\ Silent
    /\ UNCHANGED <<flags, storeVars, reported>>

\* A message out of its order: a request is refused, a notification dropped.
Refuse ==
    /\ thread = "reading" /\ pipe # <<>>
    /\ Msg.method \notin {"initialize", "exit", "garbled"}
    /\ Refused
    /\ Done("error")
    /\ UNCHANGED <<flags, storeVars, reported>>

Shutdown ==
    /\ Reads("shutdown") /\ ~Refused
    /\ shut_down' = TRUE
    /\ Done("result")
    /\ UNCHANGED <<initialized, storeVars, reported>>

\* A method there is no handler for is an error, and `selectionRange` has null for a result.
Ignore ==
    /\ Reads("other") /\ ~Refused
    /\ \E what \in {"result", "error"} : Done(what)
    /\ UNCHANGED <<flags, storeVars, reported>>

\* `initialized` and `didSave`.
TakeNote ==
    /\ Reads("didSave") /\ ~Refused
    /\ Silent
    /\ UNCHANGED <<flags, storeVars, reported>>

\* A frame that does not decode is dropped at any time, and an id in it with it.
DropFrame ==
    /\ Reads("garbled")
    /\ Silent
    /\ UNCHANGED <<flags, storeVars, reported>>

\* Mutant of Exit: it is honoured in a session only.
ExitAfterInitialize ==
    /\ Reads("exit") /\ initialized
    /\ thread' = "ended"
    /\ pipe' = Tail(pipe)
    /\ UNCHANGED <<editorVars, diskVars, flags, storeVars, work, answers, reported>>

\* Serving ends with `exit` at any time, even before `initialize`, and unanswered.
Exit ==
    /\ Reads("exit")
    /\ thread' = "ended"
    /\ pipe' = Tail(pipe)
    /\ UNCHANGED <<editorVars, diskVars, flags, storeVars, work, answers, reported>>

\* The end of the input, a frame without a usable length, or an answer that cannot
\* be written.
InputEnds ==
    /\ thread = "reading"
    /\ thread' = "ended"
    /\ UNCHANGED <<pipe, editorVars, diskVars, flags, storeVars, work, answers, reported>>

-----------------------------------------------------------------------------
(* DocumentStore *)

\* A text over the cap is not mirrored, and what was mirrored before it goes.
DidOpen ==
    /\ Reads("didOpen") /\ ~Refused
    /\ mirror' = [mirror EXCEPT ![Msg.doc] = IF Msg.text.big THEN None ELSE Msg.text]
    /\ Silent
    /\ UNCHANGED <<flags, index, reported>>

\* Mutant of DidClose: the mirror stays.
CloseForgets ==
    /\ Reads("didClose") /\ ~Refused
    /\ Silent
    /\ UNCHANGED <<flags, storeVars, reported>>

DidClose ==
    /\ Reads("didClose") /\ ~Refused
    /\ mirror' = [mirror EXCEPT ![Msg.doc] = None]
    /\ Silent
    /\ UNCHANGED <<flags, index, reported>>

ApplyOne(text, change) == IF change.full \/ text = change.from THEN change.to ELSE Torn

\* Mutant of Applied: only the last change counts.
AppliesLast(text, batch) == ApplyOne(text, batch[Len(batch)])

\* The text after the whole batch, in order.
Applied(text, batch) ==
    LET first == ApplyOne(text, batch[1])
    IN  IF Len(batch) = 1 THEN first ELSE ApplyOne(first, batch[2])

\* Mutant of Cap: no limit.
NoCap(text) == text

\* A document that has grown past the cap is dropped.
Cap(text) == IF text # Torn /\ text.big THEN None ELSE text

\* A change of a document that is not mirrored is ignored, a whole text, too.
DidChange ==
    /\ Reads("didChange") /\ ~Refused
    /\ mirror' = [mirror EXCEPT ![Msg.doc] =
                     IF @ = None THEN None ELSE Cap(Applied(@, Msg.batch))]
    /\ Silent
    /\ UNCHANGED <<flags, index, reported>>

-----------------------------------------------------------------------------
(* The code action *)

\* From the mirror, or for a bare cursor from nowhere: no disk access.
CodeActionFromMirror ==
    /\ Reads("codeAction") /\ ~Refused
    /\ Msg.caret \/ mirror[Msg.doc] # None
    /\ reported' = IF Msg.caret THEN None ELSE mirror[Msg.doc]
    /\ Done("result")
    /\ UNCHANGED <<flags, storeVars>>

\* text_from_disk looks the file up ...
StatFile ==
    /\ Reads("codeAction") /\ ~Refused
    /\ ~Msg.caret /\ mirror[Msg.doc] = None
    /\ thread' = "reading_disk"
    /\ work' = [doc |-> Msg.doc, stamp |-> stamp[Msg.doc], file |-> file[Msg.doc]]
    /\ UNCHANGED <<pipe, editorVars, diskVars, flags, storeVars, answers, reported>>

\* Mutant of IndexMatches: the stamp is not looked at.
PathMatches == index # None /\ index.doc = work.doc

IndexMatches == index # None /\ index.doc = work.doc /\ index.stamp = work.stamp

ReportFromDisk(text) ==
    /\ thread = "reading_disk"
    /\ thread' = "reading"
    /\ work' = None
    /\ pipe' = Tail(pipe)
    /\ Answer(Msg.id, "result")
    /\ reported' = text
    /\ UNCHANGED <<editorVars, diskVars, flags, mirror>>

\* ... and reads the lines it needs, if its index is of this file and this stamp ...
ReadWindow ==
    /\ work # None /\ IndexMatches
    /\ ReportFromDisk(IF index.of = file[work.doc] THEN file[work.doc] ELSE Torn)
    /\ UNCHANGED index

\* ... or reads it all, and keeps its index under the stamp seen before the read.
ReadWhole ==
    /\ work # None /\ ~IndexMatches
    /\ index' = [doc |-> work.doc, stamp |-> work.stamp, of |-> file[work.doc]]
    /\ ReportFromDisk(file[work.doc])

\* The file is gone or is not text: nothing is selected.
DiskFails ==
    /\ ReportFromDisk(None)
    /\ index' \in {index, None}

\* Params that do not decode, or a panic in the handler, cost the one request.
CodeActionFails ==
    /\ Reads("codeAction") /\ ~Refused
    /\ Done("error")
    /\ UNCHANGED <<flags, storeVars, reported>>

-----------------------------------------------------------------------------
EditorStep ==
    \/ \E id \in FreshIds :
          \/ \E method \in Plain : SendPlain(method, id)
          \/ \E d \in Docs : \/ SendOpen(d, id) \/ SendClose(d, id) \/ SendChange(d, id)
                             \/ SendCodeAction(d, id, TRUE) \/ SendCodeAction(d, id, FALSE)
    \/ \E d \in Docs : Save(d) \/ WriteElsewhere(d)

ServerStep ==
    \/ Initialize \/ Refuse \/ Shutdown \/ Ignore \/ TakeNote \/ DropFrame \/ Exit
    \/ DidOpen \/ DidClose \/ DidChange
    \/ CodeActionFromMirror \/ StatFile \/ ReadWindow \/ ReadWhole \/ DiskFails \/ CodeActionFails

Next == EditorStep \/ ServerStep \/ InputEnds

Spec == Init /\ [][Next]_vars

-----------------------------------------------------------------------------
(* Safety *)

\* A message that changes the document.
Touches(m, d) == m.method \in {"didOpen", "didChange", "didClose"} /\ m.doc = d

\* Nothing about the document is on its way.
Settled(d) == \A i \in DOMAIN pipe : ~Touches(pipe[i], d)

\* In a session the mirror is the editor's buffer or it is not there: no order of opening,
\* changing past the cap, closing and opening again leaves an old text.  (After `shutdown`
\* a change that has an id is refused, and the text before it stays.)
MirrorIsCurrent ==
    ~shut_down => \A d \in Docs : Settled(d) /\ mirror[d] # None => mirror[d] = buffer[d]

\* The text of a selection in a mirrored buffer is the text the editor had when it asked,
\* unsaved edits and all, however far the editor is ahead of the server, in a session.
SelectionTextIsTrue ==
    [][CodeActionFromMirror /\ ~Msg.caret /\ ~shut_down => reported' = Msg.had[Msg.doc]]_vars

\* The text of a selection in an unmirrored file is what the file holds, whichever file
\* and version the index was made of, unless the file is written during the request.
DiskTextIsTrue ==
    [][(ReadWindow \/ ReadWhole) /\ file[work.doc] = work.file
          => reported' = file[work.doc]]_vars

\* What waits is what is owed and not answered: by PipeIsOwed below, the messages in the
\* pipe that are due.
Promise == INSTANCE RequestReply WITH
    Askers   <- {"editor"},
    open     <- IF thread = "ended" THEN {} ELSE {"editor"},
    waiting  <- [a \in {"editor"} |->
                    IF thread = "ended" THEN <<>>
                    ELSE [i \in 1..(Len(owed) - Len(answers)) |-> owed[Len(answers) + i]]],
    answered <- [a \in {"editor"} |-> [i \in DOMAIN answers |-> answers[i].id]]

\* As long as the session lasts every request that is due is answered once, in its turn, and
\* with its own id: one that is refused, unknown, or whose handler panics, too, whatever
\* else is in the pipe; and no other message is (lsp/server.rs).
RequestsAreAnswered == Promise!RSpec

\* The thread can always take the next message, whatever came before it: `exit` ends the
\* session before `initialize` and after anything, without the input having to end.
NeverStuck == thread # "ended" /\ pipe # <<>> => ENABLED ServerStep

\* The inductive strengthening of these.  The messages of the pipe that are due are those
\* that are owed and not answered, in the order of their ids ...
PipeIsOwed ==
    /\ Len(answers) <= Len(owed)
    /\ \A i \in DOMAIN answers : answers[i].id = owed[i]
    /\ {pipe[i].id : i \in {k \in DOMAIN pipe : Due(pipe[k], k)}}
          = {owed[k] : k \in (Len(answers) + 1)..Len(owed)}
    /\ \A i, j \in DOMAIN pipe : i < j /\ pipe[j].id # 0 => pipe[i].id < pipe[j].id
    /\ \A i, j \in DOMAIN owed : i < j => owed[i] < owed[j]
    /\ \A i \in DOMAIN pipe : pipe[i].id <= asked
    /\ \A i \in DOMAIN owed : owed[i] <= asked

\* ... the mirror is the buffer as the editor had it i = 0 messages ago, and each message
\* that touches the document leads from the buffer before it to the buffer after it ...
Had(i) == IF i < Len(pipe) THEN pipe[i + 1].had ELSE buffer

Leads(m, d, before, after) ==
    CASE m.method = "didOpen"   -> before = None /\ after = m.text
      [] m.method = "didClose"  -> after = None
      [] m.method = "didChange" -> m.batch[1].from = before /\ m.batch[Len(m.batch)].to = after

MirrorInTurn(d) ==
    /\ ~shut_down => mirror[d] \in {None, Had(0)[d]}
    /\ ~initialized => mirror[d] = None
    /\ \A i \in 1..Len(pipe) : Touches(pipe[i], d) => Leads(pipe[i], d, Had(i - 1)[d], Had(i)[d])
    /\ \A i, j \in 0..Len(pipe) :
          i <= j /\ (\A k \in (i + 1)..j : ~Touches(pipe[k], d)) => Had(i)[d] = Had(j)[d]

\* ... a request that reads the disk is still the first in the pipe, and the index is of
\* what the file held under its stamp, unless the stamp has changed since.
DiskInTurn ==
    /\ thread = "reading_disk" <=> work # None
    /\ work # None => pipe # <<>> /\ Msg.method = "codeAction" /\ Msg.doc = work.doc
    /\ \A d \in Docs : stamp[d] <= writes
    /\ index # None =>
          /\ index.stamp <= writes
          /\ index.stamp = stamp[index.doc] => index.of = file[index.doc]
    /\ work # None =>
          /\ work.stamp <= writes
          /\ work.stamp = stamp[work.doc] => work.file = file[work.doc]
          /\ IndexMatches => index.of = work.file

LspInv == TypeOK /\ PipeIsOwed /\ (\A d \in Docs : MirrorInTurn(d)) /\ DiskInTurn
=============================================================================

# A formal model of claude-code-connect

Zed starts one *companion* process per window. The companion speaks LSP with
Zed on its stdin and stdout to learn the user's selection, and serves Claude
Code CLIs over a WebSocket on a loopback port which it advertises in a *lock
file*. This directory holds TLA+ models of that program (`src/server`,
`src/extension`, `src/resolve`), the TLC runs that check small instances of
them, and TLAPS proofs that hold for every value of the constants.

- [Inventory](#inventory): the parts of the system, what makes them hard and correct
- [Modules](#modules): which module models what, action by action
- [Runs](#runs): what is checked, with which bounds, and what came out
- [Fairness](#fairness)
- [Proofs](#proofs)
- [Where the code and its comments disagree](#where-the-code-and-its-comments-disagree)
- [What is not modelled](#what-is-not-modelled)
- [Plan](#plan)

## Inventory

| Part | State it keeps | Operations | Talks to |
|---|---|---|---|
| Selection path, `selection.rs` | the tracker's watch channel and `last_sent`; the bus's `latest` and its broadcast ring | report, debounce, publish a selection, publish a mention, subscribe | fed by the LSP session, read by every connection |
| MCP connection, `mcp/connection.rs` | per client: handshake, authorised or not, its receiver, whether it lagged | handshake, reject, replay, forward, lag, answer, at-mention, farewell | the bus, the dispatcher, the cancellation token |
| MCP dispatcher, `mcp/protocol.rs`, `mcp/wire.rs` | a table of handlers | initialize, tools/list, tools/call, prompts and resources | called by a connection |
| Accept loop and ports, `mcp/server.rs` | the listener, `consecutive_failures` | bind, accept, retry, back off, give up | spawns connections, cancels the token |
| Lock directory, `lockfile.rs` | files shared by all companions, other editors and the CLI | sweep, write by temporary file and rename, remove by guard | companion start and shutdown, discovery |
| Companion life cycle, `companion.rs`, `main.rs`, `lsp/watchdog.rs` | handle: lock guard, token, `JoinSet` | start, the five reasons to stop, shutdown, drain, runtime teardown | everything above |
| LSP session, `lsp/server.rs`, `lsp/framing.rs` | initialised, shut down, the open documents | read a frame, route it, answer, feed the tracker | the tracker, the document mirror |
| Documents, `lsp/documents.rs` | the text and line starts of open files; a line index of the last unopened file | open, change, close, text in range, range on disk | the LSP session |
| Discovery and helper, `discovery.rs`, `at_mention.rs` | none | read all locks, choose one, dial it, ask for a mention | the lock directory, a connection |
| Extension and resolver, `extension/src/lib.rs`, `resolve/src/lib.rs` | the cached path, the binaries on disk | find, download, promote, prune, fall back | Zed, GitHub |
| Configuration, `config.rs`, `lib.rs` | none | constants | everything |

What makes each part hard, and what makes it correct:

- **Selection path.** The tracker, the connections and whoever asks for a
  mention share two objects under two different locks, and a publication writes
  both. The ring overwrites what slow clients have not read. *Correct:* a client
  with nothing left to read knows the newest selection, however it got there;
  the debounce delays but never loses; nothing is published twice in a row.
- **Lock directory.** Nothing but file-system calls synchronises companions; any
  of them is killed at any point, ports are reused, other editors write here
  too. *Correct:* a lock that names a serving companion leads to it; dead locks
  are swept and live ones are not; a companion that ends by itself leaves none.
  The lock of a companion that was started with `--port 0` leads nowhere, and must
  not get in the way of the others.
- **Companion life cycle.** Five reasons to stop, on three threads, two of which
  cancel the token before the shutdown path runs. *Correct:* whichever comes
  first, the process ends, without its lock, and offers its lock only while it
  serves.
- **Accept loop.** One failure must not end it, a listener gone for good must,
  and then the lock has to go as well.
- **LSP session.** A client may send anything in any order; a panic in one
  handler must not take the session down. *Correct:* every request of
  a method that LSP answers, and every one that is refused, is answered exactly once
  and in its turn, with or without a handler; a notification never, even with an id,
  nor `exit`, nor a frame that does not decode; and nothing is routed after `exit`.
- **Documents.** Incremental edits in UTF-16 positions past every boundary, a
  memory cap that drops documents, a cached index that may be out of date.
  *Correct:* the mirror equals the editor's text or is absent, never wrong.
- **MCP dispatcher.** *Correct:* every request with an id gets one answer, with
  the id it came with; a notification gets none.
- **Discovery and helper.** The lock may be stale by the time it is dialled, and
  the socket is closed a fixed time after the request was sent.
- **Extension.** A download, a chmod, a rename, a prune and a copy, of which any
  may fail or be cut short. *Correct:* what it returns is an executable file,
  and a failed update leaves the previous one usable.

## Modules

| Module | What it is |
|---|---|
| `SelectionBus` | the selection path and the live side of the connections |
| `LossyFanOut` | what the event bus promises a connection: an abstract specification |
| `LockDirectory` | the lock directory, and the companions that use it |
| `CompanionShutdown` | one companion process: the ways to stop, and the one shutdown path |
| `CompanionLife` | what a companion promises those who read the lock directory: an abstract specification |
| `DocumentText` | one mirrored buffer, byte by byte: positions, edits, the line index, reading through it |
| `LspSession` | the LSP thread: routing and life cycle, the store of mirrored buffers, the disk index, the code action |
| `RequestReply` | what both servers promise those who ask them: an abstract specification |
| `McpSession` | the conversations over the WebSocket: the connection task, the dispatcher, the at-mention helper; composed with `LossyFanOut` |
| `Discovery` | the helper that lists the locks, chooses one and dials it; composed with `LockDirectory` |
| `ExtensionInstall` | how the extension finds, downloads, promotes and prunes the binary, with the rules on names of the resolver |
| `MCSelectionBus`, `MCLockDirectory`, `MCDiscovery`, `MCCompanionShutdown`, `MCDocumentText`, `MCLspSession`, `MCMcpSession`, `MCExtensionInstall` | small instances for TLC: symmetry sets, the value of `MentionOf`, the texts that are inserted, the orders names may sort in |
| `SelectionBusProofs`, `LockDirectoryProofs`, `DiscoveryProofs`, `CompanionShutdownProofs`, `DocumentTextProofs`, `LspSessionProofs`, `McpSessionProofs`, `ExtensionInstallProofs` | theorems and proofs |

How they fit together. Three abstract specifications join the concrete ones.
`LossyFanOut` is implemented by `SelectionBus`, which models the tracker and the
ring in detail and connections coarsely, and used by `McpSession`, which models
connections in detail and takes the bus as `LossyFanOut`. `RequestReply` is
implemented by `McpSession`, with every client as an asker, and by `LspSession`,
with the editor as the only one. `CompanionLife` is implemented twice: by
`LockDirectory`, once for each companion (`Life(c)`), where sharing ports and files
is the difficulty, and by `CompanionShutdown`, where the tasks and the reasons to
stop are. The two models look at the same process with different grain; that both
implement one specification is what says that they agree. `Discovery` extends `LockDirectory`: its runs
check the directory and its client together.

An operator that ends up unused by the specification and is introduced by a
comment *Mutant of X* is X with a plausible mistake in it. Each property of a
passing run is shown to fail when such a mutant takes the place of its original
(`PROJECT.json`, `mutants`): this is how we know that a property can fail.

### SelectionBus

`input` and `changed` are the tracker's `watch` channel, `tracker` is where its
task stands and `lastSent` its local `last_sent`; `latest` and `events` are the
two halves of the `EventBus`; `phase`, `cursor` and `held` are each connection's
task and receiver; `shown` records what its client was last told.

`events` keeps everything ever stored in the broadcast channel, and the ring
retains the last `RingSize` of it (`Retained`). A `tokio` receiver is a position
in that sequence, which is how the library works as well: `Forward` takes the
event at the cursor, `Lag` moves a cursor that fell out of the ring to `Oldest`.
As in the library, an event sent while nobody is subscribed is not stored.

| Action | Code |
|---|---|
| `Report` | `SelectionTracker::update`, from the LSP thread |
| `Wake`, `Restart`, `Settle` | `run`: the first change, a change while the timer runs, the timer |
| `Record`, `Send` | `publish_selection`: `latest`, then the channel, under two locks |
| `StopTracker` | the `select!` around the tracker's task in `Companion::start` |
| `Connect`, `Reject` | `handle_connection` up to the token check |
| `Subscribe`, `ReadLatest` | `bus.subscribe()`, then `bus.latest()` and the replay |
| `Forward`, `Lag` | the event branch of a connection's `select!` |
| `MentionRequest`, `PublishMention` | `handle_at_mention_request`: read `latest`, then `publish_mention` |
| `HangUp`, `GoAway` | the client leaves; the token is cancelled (close 1001) |

`Settle` is possible in every settling state, also with an unread report: the
timer and `changed()` may be ready together, and `borrow_and_update` then takes
the new value. The replay is one step with the read of `latest`: the task sends
it before it looks at anything else. The `RecvError::Closed` branch cannot be
reached, because every connection holds a clone of the bus that it receives from.

`LossyFanOut` says what all this amounts to for one connection: a queue of its
own, which receives every event from the moment it attaches and from which
nothing is lost but the front, and only when the queue has outgrown the window.
`SelectionBus` implements it under the mapping `FanOut`: the queue of a client
is the part of `events` at and behind its cursor.

### LockDirectory

`file[n]` and `tmp[n]` are `<n>.lock` and `.<n>.lock.tmp`; `listening[p]` is the
process whose listener holds the port; `phase`, `port`, `todo`, `doomed` and
`cancelled` belong to each companion, and what it keeps in memory for its sweep goes
with it (`Ends`). `deadAtStart` is a history variable: which locks were dead when a
companion started. A file is named by a number, which is a port or 0 (`Names`); a
listener has a port, and never 0.

Processes share no memory, so every system call is a step of its own:
`sweep_dead` is `Start` (the listing), then for each entry `SweepRead` (read and
judge) and `SweepRemove`; `LockDir::write` is `ClearTmp`, `WriteTmp` and
`Publish` (the rename), any of which may be the last (`WriteFails`). `Bind`
takes any free port, because `find_available_port` tries the wanted one, then
random ones, then whatever the kernel gives. `BindZero` is the wanted port 0
(`serve --port 0`, which nothing refuses): the kernel assigns a port, and what
`find_available_port` returns, and the lock is named by, is the 0 that was asked for
(`mcp/server.rs:27-32`; only the last resort reads `local_addr`). Any companion may
have been started so, and take another port when that bind fails. The ways to stop are `StopAsked`
(signal, watchdog), `LspEnds`, `AcceptGivesUp` with `SeeStopped`, and `Kill` at
any point; `DropLock`, `CancelTasks`, `CloseListener` and `Exit` are
`Handle::shutdown` and the end of the process. `StrangerOpens` and
`StrangerLeaves` are an editor that is not ours.

A lock's content is abstracted to whose process id, name and token it carries.
Process ids are not reused within a behaviour: a lock whose id now belongs to an
unrelated process looks alive to `pid_is_alive` and stays, in the code, too. A
removal succeeds: the sweep ignores one that fails and leaves the lock
(`lockfile.rs:194-197`), and the guard only warns (`lockfile.rs:245-247`), here and in
`CompanionShutdown!DropLock`; that takes a directory whose permissions were changed
under the companion, and then the properties that speak of a lock that is gone do not
hold.

Port 0 is the exception that the properties name. Companions on it have one lock and
one temporary file, and no port that would keep them apart: one may remove, write over
or publish what another wrote. `HasOwnPort` is false of them, and what needs a port of
one's own is said only of the others: `LockNamesItsListener` says that a companion on
port 0 listens, somewhere; `NoForeignLockOnMyPort`, `TmpIsPrivate`,
`OwnExitLeavesNoLock`, `AskedStopRemovesOwnLock` and the lives say nothing of it.
`SweepIsComplete` holds of `0.lock` as well. Since a temporary file is created and
filled in one step, a half-written one that a second companion on port 0 renames is not
told from a whole one.

`CompanionLife` is the life of one companion as a reader of the directory can see
it: it starts, a lock offers it from a moment at which its port is open, it tells
its tasks to stop, closes its port and loses its lock in whatever order, and ends,
or is killed. `Withdraw` is possible to anybody at any time, since the directory is
open to everybody: a sweep that races with a rename (`locks_sweep_race`) is a
withdrawal like any other. What it does not allow is a lock before the port is
open, a port that goes while the tasks go on, a lock that comes back, or an end
with the lock in place or with tasks that were not told. In the mapping
(`Life`) `offered` and `open` are "some lock names it" and "it listens somewhere". The
mapping is claimed of a companion for as long as it is not on port 0.

### CompanionShutdown

`main` is the position of the main task: `bound`, `locked`, `selecting`, then
`stopping`, `unlocked`, `draining`, `returned`, `exited`; `killed` is the end by
a signal without a handler. `accept` and `failures` are the accept loop, `conn`
each client's task or socket, `tracker` and `lsp` the other task and thread,
`handler`, `signalled`, `parent` and `initial` what the last two branches of the
`select!` in `main.rs` look at.

Points the model takes from the code and that a summary would miss:

- the signal handlers and the watchdog's first look at the parent exist only
  from the first poll of the `select!`, after the lock was written
  (`InstallHandler`, `ReadParent`);
- `run_lsp`'s future cancels the token itself, before the shutdown path runs
  (`SeeLspEnd`), and so does the accept loop when it gives up;
- a connection is a detached task: the drain does not wait for it, and
  `Teardown`, which drops the runtime, drops its socket wherever it stands;
- a handshake neither has a time limit nor looks at the token;
- the accept loop's `select!` is not biased, so a connection may be accepted, or
  an error taken, after the cancellation.

An accept error of policy `Retry` changes no state and is a stuttering step; the
table that sorts error codes into policies is abstracted to the policies.

`Life` maps the process to `CompanionLife`: the port is open until the accept loop
ends, and from `locked` to `returned` the companion offers itself or is withdrawing.
`ImplementsFairLife` adds what the runtime's fairness gives: once the tasks are
told, by whichever of the ways to stop, the port is closed, the lock goes and the
process ends.

### DocumentText

`doc` is the `Document`: its bytes and its `line_starts`. `editor` is the same
buffer as the editor has it, edited by the definition of an LSP position, which
counts line feeds and UTF-16 units from the start and knows no index.

| Operator or action | Code |
|---|---|
| `compute_line_starts`, `NewDocument`, `SetText` | `compute_line_starts`, `Document::new`, `set_text` |
| `splice` | `Document::splice`: the line starts in `(start, end]` go, those behind them slide |
| `char_pos_to_byte_pos`, `EndOfLine`, `offset_of` | the functions of these names, and the trimming of the terminator |
| `Span`, `text_in_range` | an inverted range is empty |
| `Edit` | one change of a batch in `DocumentStore::apply` |
| `Window`, `Rebase`, `read_range` | `DiskIndex::read_range` |

A text is the sequence of its bytes (`WellFormed`: whole characters). `LineFeeds`
gives the index by the rank of each line feed, in the order in which the scan meets
them. Five characters are enough for every branch:
a letter, a line feed, a carriage return, one of two bytes and one unit, and one
of four bytes and two units, which an odd column cuts in half. A carriage return
that ends the text is trimmed like one in front of a line feed, as in the code.

### LspSession

`pipe` is the editor's end of stdin, with what the server has not read; `buffer`
is the text of each buffer in the editor, which is ahead of the server by the
pipe. `thread`, `initialized` and `shut_down` are `serve` and `Session`, `mirror`
and `index` the two halves of the `DocumentStore`; `file` and `stamp` are the
disk. `answers` records what went back for each id, `reported` the text last
handed to the tracker. `owed` is history: the ids that were sent and are to be
answered (`Due`). Every message carries `had`, a history field: the buffers
as the editor had them when it sent it. It is what `SelectionTextIsTrue` compares
with, and the invariant is written in it.

| Action | Code |
|---|---|
| `Initialize`, `Shutdown`, `Exit` | `route` and `serve_lsp`, the methods of the life cycle |
| `Ignore` | `route`: `selectionRange`, whose result is null, and the methods without a handler |
| `TakeNote` | `route`: `initialized` and `didSave`, which are `Reply::Silent` |
| `DropFrame` | `serve_lsp`: a frame that does not decode as a `Request` |
| `Refuse` | `route`, before it looks at the method: not initialized, or after `shutdown` |
| `InputEnds` | `serve` returns: end of input, a bad frame, an answer that cannot be written |
| `DidOpen`, `DidChange`, `DidClose` | `DocumentStore::open`, `apply`, `close` |
| `CodeActionFromMirror` | `text_for_range`: the bare cursor, and the mirror |
| `StatFile`, then `ReadWindow`, `ReadWhole` or `DiskFails` | `text_from_disk`: two looks at the disk, and anybody may write in between |
| `CodeActionFails` | parameters that do not decode; a panic, caught in `serve` |
| `Send...` | the editor |
| `Save`, `WriteElsewhere` | the file system |

The abstractions:

- A text is a version number and whether it is over the cap. What an edit does to
  the bytes is the subject of `DocumentText`; here an edit made for another text
  than the one it is applied to gives `Torn`, and so does a window cut by the
  index of another version. `Torn` is never what anybody had in an editor.
- A `didChange` carries one or two changes, each the whole text or an edit.
- The editor keeps to document sync: it opens what is closed, changes and closes
  what is open, and its document notifications decode. It may do so before
  `initialize` and after `shutdown`, and sends everything else in any order.
- Any message may carry an id, a notification, `exit` and an undecodable frame, too.
  An id makes it a request for `route` (`Request::is_notification`), but not
  for the handler: `initialized` and the document notifications return
  `Reply::Silent`, and nothing is written (`Silent`). So an id is owed an answer when
  the method is one that LSP answers or has no handler, or when the message comes
  before `initialize` or after `shutdown`, where `route` refuses whatever has an id.
  `Due` says this of a message when it is sent, from what will have been read before
  it (`InitBefore`, `DownBefore`).
- After `shutdown` a document notification without an id still changes the mirror, and
  one with an id is refused, so the mirror may then be old. `MirrorIsCurrent` and
  `SelectionTextIsTrue` speak of the time before.
- `Promise` maps the session to `RequestReply`: what waits is what is owed and not
  answered yet. That these are the ids of the messages in the pipe that are due, in
  that order, is `PipeIsOwed`, a conjunct of the invariant.
- A write changes the stamp: the file system's length and times tell versions
  apart. `WriteElsewhere` writes small texts only, which loses nothing, since
  the cap applies to buffers and not to files read for a selection.

### McpSession

Each client has a task with one frame in hand (`held`): it reads a message or
takes an event only when that is empty, because the code awaits every send
inside a branch of the `select!`. `inbox` is what the client sent and the task
has not read, `unread` what was sent to the client and it has not read, and
`Room` bounds both, as the buffers of the two sockets do. `attached` and `queue`
are the bus.

| Action | Code |
|---|---|
| `Connect` | `handle_connection` from `bus.subscribe()` to the replay; the handshake and the token check are in `SelectionBus` and `CompanionShutdown` |
| `HandleMessage`, with `handle_request`, `handle_tools_call`, `dispatch_tool`, `handle_prompts_get`, `verdict`, `Reply` | the read branch and the dispatcher of `protocol.rs` |
| `HandleMention` | `handle_at_mention_request` |
| `Forward`, `Lag` | the event branch |
| `SendFrame`, `SendBye`, `SendFails` | the `send().await`s |
| `StreamEnds`, `Farewell`, `Teardown` | the read branch at the end of the stream, the cancellation branch, the runtime dropped over the task |
| `CliSays`, `ClientReads`, `HelperAsks`, `Leave` | the CLI, and `send_at_mention_request` with its 80 ms |
| `Select`, `Cancel` | the tracker publishes, the companion stops |

Messages are sorted by what the code tells apart: text that is no JSON, JSON that
is no request, a request or a notification of a method, a frame that is not
text, a frame that breaks the protocol. `answers` and `owed` are history: which
ids were answered, and which each client still waits for; when a connection is
over, what it was owed is forgotten. `edits` are the calls among them that ask
for an edit, and `fate` is what became of the helper's request.

Where the model follows the code and a reader might not expect it:

- a batch of JSON-RPC requests and a binary frame get no answer, although the
  server announces protocol version 2025-03-26, which has batches. A batch does
  not parse as a request and has no `id` of its own, so it is dropped like a
  malformed notification (`malformed` without an id);
- `at_mention_request` sent with an id is answered with -32601: the request
  counts only as a notification;
- text that is no JSON at all is answered with the id `null`, which `Null` stands
  for; an id that is an explicit `null` is taken for none.

### Discovery

`scan` is where the helper is; `unread`, `seen` and `pick` are the entries it has
to read, the locks it has read, and the one it chose. `steady` is history: the
companions that have served, with their lock in place, since the listing. The
variables are declared in a module that extends `LockDirectory`, and
`ScanSpec` interleaves the helper's system calls with every step of the
companions: `ListLocks` (`read_dir`), `ReadLock` (one file), `Choose` or
`NotFound` (`lock_for`), `Dial` (`connect_async` with the token of the lock).
Which folders contain the helper's path is left open: any candidate may be the
one, so the order of the candidates, newest file first, plays no part. When the helper
has ended another may be run; two at a time would not meet, since they write nothing.
A lock that says port 0 can be chosen as long as its companion is alive, and the dial is
then refused, though the companion serves.

### ExtensionInstall

`disk` is the work directory, `stable` the copy under the stable name, `step`
where the current call of `language_server_command` is, `cached` the path of the
session, `status` what Zed shows. `given` and `best` are history: what worktrees
of this session were given, and the newest version any call gave.

| Action | Code |
|---|---|
| `FromCache`, `Resolve` | `server_binary`: the cached path, or the release |
| `FetchFails`, `FetchFindsBuild`, `FetchFindsNoAsset`, `FetchFindsAsset`, `MarkFound` | `release_binary` up to the download |
| `StartDownload`, `FinishDownload`, `MarkTemp`, `Promote`, `DownloadFails`, `CleanUp` | the download into a temporary name, the chmod, the rename, and any of them failing |
| `Prune`, `PruneDone` | the old builds are removed, each if it can be |
| `OpenStable`, `FillStable`, `FromRelease` | `refresh_stable_copy` and the return |
| `FallBack`, `NothingOnDisk`, `FromPath`, `Fail` | `fallback_binary`, `Worktree::which`, the error |
| `Quit` | the editor ends or reloads the extension between any two steps |
| `Release`, `Vanish` | GitHub; somebody who tidies the directory between two calls |

A name is what `resolve/src/lib.rs` tells apart: a build of a version, a
temporary file of a version, the name of old. String order is a parameter
(`rank`): TLC tries orders that agree with the versions and orders that do not.
One extension instance runs at a time, on a platform there is an asset name for.

What the code does here, and the properties allow for:

- the fallback takes the last build in string order, and v0.9.0 sorts after
  v0.10.0. If the pruning of v0.9.0 failed, or the editor quit before it, an
  offline start goes back to it: `NoDowngrade` assumes that names sort as the
  releases do;
- the status stays "checking" after an offline fallback or a release without an
  asset, and "failed" after a failed download although the fallback succeeded.
  `CallSettles` promises only that it does not stay "downloading";
- temporary files of superseded versions are never removed;
- the stable copy is truncated in place. If the editor quits in the middle it is
  left cut short until a call next gets as far as the release: the cached path and
  the fallback do not repair it. The extension itself never runs this copy.

## Runs

| Run | Instance | What it checks |
|---|---|---|
| `bus_safety` | 2 clients, ring of 2, 3 reports, 2 mentions; 1.1 million states | `ReplayInv` (the inductive invariant), `NewestSelectionNotMissed`, `PublicationsAlternate`, `ImplementsFanOut` |
| `bus_liveness` | the same, 2 reports, 1 mention, no symmetry | `SettledSelectionIsPublished`, `ClientsConverge`, `ImplementsFairFanOut` |
| `bus_newest_lost` | 2 reports, 3 mentions | `NewestSurvivesLag` is violated |
| `locks_safety` | 3 companions, 2 ports and the number 0, another editor, helpers one at a time; 774 thousand states under the view | `DirInv` (the inductive invariant of the directory), `LockNamesItsListener`, `SweepIsComplete`, `AskedStopRemovesOwnLock` and `ImplementsLives` of the directory, `SeenLocksStayTrue` and `SteadyAreFound` of the helper |
| `locks_sweep_race` | the same, without the helper | `SweepRemovesOnlyOurDead` is violated |
| `locks_first` | the same | `LockGoesFirst` is violated |
| `stop_all` | 2 clients, 3 failures; 60 thousand states | `StageInv` (the inductive invariant), `LockMeansServing`, `FarewellAfterWithdrawal`, `ImplementsLife`, and with fairness `ImplementsFairLife` and `ReasonEndsProcess` |
| `stop_farewell` | the same | `ClientsGetFarewell` is violated |
| `doc_text` | texts of up to 6 bytes, 8 insertions, positions up to line 2, column 3; 538 states, 298 thousand steps | `MirrorIsEditors`, `IndexIsExact`, `OffsetsAreTheEditors`, `WindowIsEnough` |
| `lsp_session` | 2 documents, 2 messages with an id, 2 versions, 1 write, not all of these together, 2 messages in the pipe; 614 thousand states under the view | `LspInv` (the inductive invariant), `MirrorIsCurrent`, `RequestsAreAnswered`, `NeverStuck`, `SelectionTextIsTrue`, `DiskTextIsTrue` |
| `mcp_session` | 1 CLI, 1 helper, 2 messages each, 1 selection, a bus window and network buffers of 1; 223 thousand states | `McpInv` (the inductive invariant, of which `AnsweredOnce` is a part), `NoEditIsClaimed`, `EndsForAReason`, and with fairness `ImplementsRequestReply` and `HotkeyIsHonoured` |
| `install` | 3 releases, two string orders | `BuildsAreWhole`, `GivenStay`, `NewestIsKept`, `NoDowngrade`, and with fairness `CallSettles` |

The bounds, and why they are enough:

- **Ring of 2** (the program's is 128). Both sides of the boundary are reached:
  a client one event behind forwards, one with three pending events lags, and a
  full ring may hold selections only, mentions only, or one of each. The proofs
  do not depend on it.
- **3 reports and 2 mentions** over two selections: a value may come back
  (A, B, A), which de-duplication has to get right, and the ring overflows more
  than once. These are the only counters in the model, and both are guards
  (`MaxReports`, `MaxMentions`).
- **2 clients**, symmetric where no liveness is checked: one may be up to date
  while the other subscribes or lags. Clients do not interact except through
  mentions, which one publishes and the other receives.
- **3 companions, 2 ports**: one has died, one sweeps its lock, one takes its
  port; and with two ports a companion may bind beside the two others' leftovers.
  `FewOnZero` bounds who is on port 0: two companions, who share its lock beside a
  third; while a helper is under way one, and none together with another editor. The
  view (`DirView`) leaves out what no step reads: the number and the token of a
  companion that is gone, and how the last helper ended.
- **3 accept failures** (the program's limit is 20): below, at and past the
  boundary, and reset by a success.
- **6 bytes, 3 lines, columns up to 3**: one four-byte character beside two
  others, or three lines of `CR LF`; positions inside a surrogate pair, past the
  end of a line and past the last line. Every pair of positions is a range, the
  inverted ones too, and every range is tried with every insertion in every text
  that edits can reach.
- **2 documents**: the disk index is of the other one. **2 versions and 1 write**:
  a text, one that replaces it, past the cap and back, a file that changes once,
  before, within or after a request. **2 ids, 2 messages in the pipe**:
  `initialize` and one that meets its session, and an editor that is ahead; either may
  come without an id. `Budget` bounds the three counters together: without ids 3 of
  them, so two versions and a write, which is what the mirror and the disk index take,
  and with ids 2, so two requests that must be answered in turn, or one beside an edit
  or a write. A request without an id is routed like one with an id and only not
  answered, so code actions are there in every combination. The view leaves out what no step reads and no state is judged by: the text last
  reported, which is judged at the step that reports it, whether an answer
  was a result, and what was left behind when the thread ended.

- **1 CLI, 1 helper, window and room of 1**: the smallest in which a task can wait
  for room, lag behind the bus and have a message unread, all at once. Two messages
  give a request behind a notification and behind what cannot be read; the one
  selection and the mention are enough to overflow the window. That a second CLI
  changes nothing is what the theorems say, which hold for any number.
- **3 releases**: an update, and an update of an update after a prune that was
  interrupted; the second string order is the least one in which a later release
  sorts before an earlier one.
- **One helper** at a time: it writes nothing, so helpers do not meet.

`CHECK_DEADLOCK FALSE` is in every configuration but `doc_text` and `install` because these
systems really stop: a companion's process ends, the LSP thread returns, and with
a bounded number of reports and of processes there comes a state in which nothing
is left to happen. That nothing stops too soon is what the liveness properties
are for, and `NeverStuck` in `LspSession`.

Every type invariant is a conjunct of an invariant that a run checks, or is
proved outright (`TypeCorrect`, `InstallTypes`, `ScanTypeCorrect`).

What the passing runs show: whichever way a client comes to its selection
(replay, stream, lag) it ends with the newest, unless mentions filled the whole
ring; the lock directory never sends anybody to the wrong companion, no matter
who was killed where, and to none only when the companion is stopping, was killed, or
was started on port 0; every reason to stop ends the process without its lock; an
edited mirror is, byte for byte, the editor's buffer, and the index repaired in
place is the one a rebuild would give; and a selection's text is the editor's,
or the file's, but never a text that nobody had, unless the file is written
during the very request that reads it. Both servers answer what they owe an answer to
once and in its turn, and over MCP as long as the client reads, however many events are
pushed meanwhile; nobody is ever told that an edit was made; a lock that was read
stays true while its companion serves, unless it says port 0, and whoever serves throughout a search is
found by it; and whatever fails while a binary is installed, and wherever the
editor quits, what may be run is whole and at least as new as before.

## Fairness

`SelectionBus!Fairness` and `CompanionShutdown!Fairness` are weak fairness on the
steps of our own tasks: the runtime polls a task that can go on, timers fire,
and a `select!` with a ready branch takes one. Nothing outside is fair: the
editor need not report, clients need not come, finish a handshake or leave,
errors, signals and the editor's death need not happen.

`McpSession!FairSpec` has the same for each connection's task, for the end of the
runtime once the companion is cancelled (main returns), for the helper's 80 ms
timer, and for a CLI that reads what it is sent: a client that stops reading
without hanging up keeps its own task waiting for ever, in the code as well, and
nobody else's. `ExtensionInstall!FairSpec` is weak fairness on the current call:
the editor's host functions (download, listing, copy) return or fail.

Two of the conditions deserve a word. `WF(Settle)` says that the timer of the
last report runs out; a user who never rests restarts it for ever, and a bounded
number of reports is what "rests" means here. `WF(Forward \/ Lag)` says that a
client reads its socket; one that does not is, for the model, one that hangs up.
`GraceOver` is fair because it is a timeout, which is what bounds the drain.

## Proofs

TLAPS proves the following for every number of clients, companions, ports,
documents and releases, every ring size, texts and positions of every size, and every
bound. The assumptions are the named `ASSUME`s of the modules: sizes are positive,
`None` is nobody's name, the stranger is no companion, 0 is no listener's port, and what the editor inserts
is UTF-8, as a Rust `String` is. TLC evaluates them in the runs.

**`SelectionBusProofs`.** `NewestSelectionNotMissed` is not inductive: a client
that is up to date says nothing of one that is behind. `ReplayInv` speaks of the
clients that are behind, too: what they have still to read ends in `latest`
(`PendingEndsInLatest`), and if no selection is left to read they have been
shown it (`ShownWhenNothingPending`). Between `Record` and `Send` the two halves
of the bus disagree, so the invariant is suspended there, and `LastSentAgrees`
is what brings it back: the tracker is about to send exactly `latest`.
`Alternates` needs the same conjunct. The steps that matter are `Send`, which
lengthens every client's pending part by the newest selection, `ReadLatest`,
which may find `latest` ahead of the events, and `Lag`, which may drop
selections, but never the last one unless the ring holds only mentions.

Of the same module, `BusImplementsFanOut`: initial states map to
initial states, and every step of the bus to one of `LossyFanOut` or to a
stutter. `Subscribe` attaches, `HangUp` and `GoAway` detach, `Send` and
`PublishMention` publish, `Forward` delivers, `Lag` overflows.

**`LockDirectoryProofs`.** `DirInv` joins six facts: who holds a port at each
phase and whose lock may be there meanwhile (`HoldsPort`), that a companion's name
stands in files of its own number only, once it has written it, and never in both
(`WriterHasPort`), that the owner of a port's lock is past its start
(`OwnerIsPastStart`), that who listens has finished its sweep and is alive
(`ListenerHasBound`), that the temporary file belongs to the holder of the port
(`TmpIsPrivate`), and what is left of each sweep (`DeadOnesAreSwept`). `WriterHasPort`
is there for port 0, where a companion may publish the name of another, also of one
that is dead: that a lock which was swept does not come back takes that it was never
in the temporary file as well. The safety properties, also
`NoForeignLockOnMyPort` and `OwnExitLeavesNoLock`, which no run checks by
themselves, and `AskedStopRemovesOwnLock` follow.

`DirectoryImplementsLives` says that the directory is as many lives as there are
companions. A step belongs to one process and is a step of every life, so the proof
is in two parts: what a companion or an editor does to somebody else is nothing, or
the removal of its lock (`OthersLeave`, `StrangersLeave`, `LeavingIsWithdrawal`),
and what it does to itself is a step of its own life (`OwnStepIsOfLife`). The first
part needs that nobody binds a port that is held, and that a rename publishes the
name of the one who renames; the second that a lock names only the port that was
bound, so that removing one file is removing all, and that whoever drains has
cancelled, a conjunct of `HoldsPort` that no other property needs. TLC can check the
lives only as one action property over all of them (`ImplementsLives`);
`EachLivesALife` states the refinement of each. Companions on port 0 are left out by
a condition on the state after the step, which carries over to the one before it
because a number is kept for life (`NumberIsKept`); as neighbours they are in. Two facts are proved of the abstract
life and carried over: `OffersCanBeReliedOn`, and `LocksGoForGood`, a property of
whole behaviours: a lock that is gone never comes back, although a killed
companion's temporary file stays where the next owner of its port writes.

**`CompanionShutdownProofs`.** `StageInv` lists what is true at each stage of the
main task. Neither it nor the types are inductive alone: that `failures` stays
in range takes the conjunct that a running accept loop is short of the limit.
They are proved together (`BothCorrect`). `ShutdownImplementsLife` maps the steps to
`CompanionLife`; most are stutters, and the invariant is needed where the accept
loop ends (never in a step that tells nobody) and where the process does.
`EndOfMainIsClean` is proved as well, and is part of what the life says of the end.

**`DiscoveryProofs`.** The companions' part of each step is `LockDirectory`'s and the
helper changes nothing of it (`SearchIsUnseen`), so all that is proved of `Spec`
carries over to `ScanSpec`, the specification of the run. On top of it `ScanInv` says that a lock that
was read names a companion by the number it keeps for life, after it has written it
(`SeenIsPast`), and that a companion that has been steady since the listing
is still to be read or was read (`SteadyIsListed`). With what `DirInv` says of who
holds a port, `SeenLocksStayTrue` and `SteadyAreFound` follow.

**`LspSessionProofs`.** The editor is ahead of the server, so nothing about the
mirror is inductive in terms of the editor's present buffers. `MirrorInTurn` looks
at the pipe: the mirror is the buffer as it was before the first unread message,
or not there; each message that touches a document leads from the buffer before
it to the one after it, and the others leave it. From this follow
`MirrorIsCurrent` (with nothing touching in the pipe the two ends are equal) and
`SelectionTextIsTrue`. `DiskInTurn` says that an index, and the file looked up by
the request under way, are of what the file holds as long as its stamp is the
same, and that with an index that matches, the two agree; `DiskTextIsTrue`
follows. `PipeIsOwed` relates two queues of different lengths, the pipe and what is
owed and not answered: the messages that are due, in the order of the pipe, are the
ones owed. Whether a message is due depends on what is read before it, so the lemmas
about `Due` say that it does not change when the pipe grows at its end (`DueSend`),
when the head is read (`DueRead`), and that at the head it is what `route` finds
(`DueFirst`). Whence `RequestsAreAnswered`: the session implements `RequestReply`.
The steps that matter are `DidChange`, whose batch must be applied in order, `Refuse`,
which may drop a message that touches a document only because nothing is mirrored yet
or because the session is shut down, and the write between two looks at the disk.

**`McpSessionProofs`.** `McpInv` relates what a client is owed to what its task
holds and has not read. The relation is between two queues of different lengths,
since some messages are owed nothing: `CountsUp` states it by a function that
counts, message by message, how many of the owed ids are accounted for. A message
that arrives extends the function, one that is read moves its first value, and
`InHand` bridges the step in which the answer is held and not yet sent. With it
`AnswersInTurn` shows that the conversations implement the safety half of
`RequestReply`. `NoEditIsClaimed` is inductive only with `EditsAreRefused`: the
ids of edits belong to no other message, which follows from the CLI numbering its
requests.
`AnsweredOnce` is about what the client sees: what it was answered followed by what
it is owed are rising ids, but for the null that stands for none. It follows from
what each step is to those who ask (`StepKeepsPromise`): an answer moves an id from
one list to the other, the end of a conversation cuts the second, and a request
appends an id that is new or null. So no request is answered twice, and none before
one that was sent earlier (`AnswersOnlyOnce`).

**`ExtensionInstallProofs`.** `IInv` joins what a call has in hand at each of its
steps (`InHand`: from the end of the download on the temporary file is whole, and
while builds are pruned the new one is on disk and not on the list), that no build
is newer than the newest release (`BuildsAreOld`), that the newest build ever given
or a newer one is still there (`BestIsThere`), and that what this session was given
is the cached path, so that a call which gets as far as pruning begins only when
that is gone (`GivenIsCached`). `NewestIsKept`, `NoDowngrade` and `GivenStay` are
consequences of the last three.

**`DocumentTextProofs`.** The inductive invariant `IInv` is small: the bytes are
characters, the index is the one of these bytes, and the text is the editor's. What
it takes to carry it through `Edit` is that three computations which look at
different things agree, and for that each is characterised by what it is rather than
by how it is found:

- *an index by rank* (`IsIndexOf`): it begins with 0, and its (k + 1)st entry is an
  offset behind a line feed, before which there are k. Only one sequence is that
  (`IndexIsUnique`), `compute_line_starts` builds it (`ComputedIndex`), and so does
  `splice` (`SplicedIndex`): entries up to the start of the edit keep their rank,
  those of the insertion follow, those behind the end slide by the change in length
  and change their rank by the change in line feeds. Whence `SpliceIsRebuild`;
- *a position by a maximum* (`IsPosition`): the last character boundary of its line
  that is not past its column. Only one offset is that, the scan of
  `char_pos_to_byte_pos` over the trimmed line finds it (`ScanIsPosition`,
  `LineBounds`), and so does the editor, who counts from the start of the text
  (`EditorOffsetIsPosition`). Whence `OffsetsAgree`, and that an edit at those
  offsets cuts no character (`EditedIsWellFormed`);
- *a window by a shift*: line feeds, units, boundaries and the index of the lines
  that are cut out of a file are those of the file, counted from where they begin
  (`WindowIndex`, `WindowLine`, `WindowOffset`), also where the last line of the
  window is, or is not, the last one of the file, and where an end of the range is
  past the text or before its start. Whence `ReadIsText`.

No induction over the bytes is needed: that a line feed of every rank exists, and
that there is a last offset, come from the least number of a set
(`LeastNumber`), and the rest is counting (`MoreBytes`, `ShiftedBytes`).
The theorems are `IndexExact`, `MirrorExact`, `OffsetsExact` and `WindowExact`.

Only model-checked: the liveness properties (`SettledSelectionIsPublished`,
`ClientsConverge`, `ReasonEndsProcess`, the fair halves of `ImplementsFairFanOut`,
`ImplementsFairLife` and `ImplementsRequestReply`, `HotkeyIsHonoured`, `CallSettles`), which take fairness and are out of the
prover's reach; and `NeverStuck`, which is about `ENABLED`, out of reach as well.

## Where the code and its comments disagree

Four statements of the comments are refuted by runs; `PROJECT.json` quotes each.

- `bus_newest_lost`: falling behind is called harmless, because only the newest
  selection matters. Mentions ride in the same ring, and enough of them push the
  newest selection out. With 128 entries and a human sending the mentions this
  takes a client that does not read for long; it then has an old selection until
  the user next moves the cursor.
- `locks_sweep_race`: a sweep is said to remove only dead companions' locks. It
  judges a file and then removes a path; if the port is taken over between the
  two, a live lock is removed. The window is a few microseconds, and the victim
  is not found by the CLI until its companion starts again.
- `locks_first`: shutdown is said to remove the lock before anything else, and
  its two lines to be the only ones that unlink or cancel. When the editor
  closes the channel, the token is cancelled first, by `run_lsp`'s future.
- `stop_farewell`: cancellation is said to close every client with a 1001 frame.
  Connections are not among the tasks the drain waits for.

Smaller ones, met while reading, for which there is no run of their own:

- lag loses mentions as well as selections, while `connection.rs:198-199` says
  that nothing is missed; `fate = "skipped"` in `McpSession` is that case;
- the helper reports success although the companion may have rejected it, had
  nothing selected, or not read the request before the socket was closed
  (`at_mention.rs:43-48`); `HotkeyIsHonoured` lists these outcomes;
- the newest build is the last in string order (`resolve/src/lib.rs:78-89`), which
  is not always the newest version; see ExtensionInstall above;
- a mention may reach a client before the selection it was made of: between
  `Record` and `Send` it is made of a selection nobody has been sent
  (`selection.rs:68-69`);
- a mention is made of the selection last published, not of the one the cursor
  is on (`docs/at-mentions.md:101-103`);
- a signal that arrives before the handlers are installed kills the process with
  its lock in place (`main.rs:158`; the next companion sweeps it);
- a parent that dies before the watchdog's first look is never missed
  (`watchdog.rs:19`): such a companion ends only with its stdin or a signal;
- after `shutdown` "the only thing left to honour is `exit`" (`server.rs:205`),
  but it refuses requests only: notifications still change the mirror;
- the disk index is kept under a stamp read before the file is, so one that is
  written between the two has a new index under an old stamp; the next look at
  the stamp puts this right (`DiskTextIsTrue` excepts only the request itself);
- `find_available_port` says that it returns "the listener and the actual port"
  (`mcp/server.rs:20`), and returns the port that was asked for: with `serve --port 0`
  the lock is `0.lock` and leads nowhere, and two companions started so overwrite each
  other's. `LockNamesItsListener` and `SeenLocksStayTrue` name the exception;
- an undecodable frame is dropped because it has "no usable id" (`lsp/server.rs:88`).
  It may have one, when it is the method that is missing or ill-typed, and then whoever
  sent it is not answered; `DropFrame` drops it with its id;
- a notification that comes with an id is refused before `initialize` and after
  `shutdown`, and in between handled and not answered; a document notification with
  an id that comes after `shutdown` is refused and leaves an old text in the mirror;
- when another process has taken the port and written its lock, the guard of the
  previous owner removes it (`lockfile.rs:226`); this takes one of the two paths
  that cancel first, and `AskedStopRemovesOwnLock` says so.

## What is not modelled

- **Of the MCP side:** the fields of results and notifications; what is modelled is
  which kind of answer each message gets, to which id.
- **Of discovery:** which folders contain a path, and the order of the candidates.
- **Of the extension:** a platform without an asset name, and an unknown language
  server, which fail before anything is done; a path from the settings, which is
  returned as it is.
- **Of the LSP side:** framing of the headers, decoding of parameters but for those
  of a code action, a panic in a handler of a document notification, and the rendering
  of the answers.
- **At all:** rendering of messages, logs and command-line parsing; permissions
  of the lock directory, and so a removal in it that fails, and where it is; the WebSocket and TCP protocols, which
  are taken as reliable and ordered until a socket is dropped; the strength of
  the token; Windows, where the watchdog does nothing; the test doubles and the
  `watch` example.

## Plan

Modelled so far: the event bus, the directory, the life cycle, texts and the LSP
session; then the MCP conversations, the helper, and the extension; and the
abstract life of a companion, which the directory and the life cycle both
implement. What is left is an abstract register the editor writes and the
tracker reads, one for the buffers and one for the files, which `LspSession`
implements; with it the selection could be followed from the editor to a client
across modules.

# A verification project for treesitter-ls

treesitter-ls is a language server that computes semantic tokens, selection
ranges and a few other things from tree-sitter parses, and that acts as a
bridge: for the embedded code regions of a document (a Lua block in a Markdown
file) it starts other language servers, shows them *virtual documents* and
forwards requests to them. This directory holds TLA+ models of its concurrent
core, the TLC configurations that check them and TLAPS proofs about them.

Paths below are relative to the repository. `bridge/` stands for
`src/lsp/bridge/`.

Contents

1. [The system](#the-system): components, state, interactions, what is hard
2. [The modules](#the-modules): which models what, and how state and actions
   correspond to the code
3. [The runs](#the-runs): what each shows, its bounds
4. [Fairness](#fairness)
5. [The proofs](#the-proofs)
6. [Where code and documentation part](#where-code-and-documentation-part)
7. [What is not modelled](#what-is-not-modelled)
8. [The plan](#the-plan)

## The system

### How it runs

`tower-lsp-server` reads the client's messages and polls at most four handlers
at a time, all in one task: handlers start in the order of the messages and
interleave at their awaits. Other work runs in tasks of its own, in parallel:
for every downstream server a writer task, a reader task and a handshake task;
a task that forwards each `$/cancelRequest`; a task per host for debounced and
for synthetic diagnostics; and the shutdown tasks. Parses run on the blocking
thread pool under a ten second timeout.

```
 client ──► handlers (lsp_impl, lsp_impl/text_document/*)
              │  texts and trees           │ regions (injection resolver)
              ▼                            ▼
        DocumentStore              LanguageServerPool (bridge/pool.rs)
        (document/store.rs)          │ connections    │ DocumentTracker
                                     ▼                ▼  didOpen/didChange/didClose
                              ConnectionHandle ── order queue ──► writer task ─► stdin ┐
                                     │  ids, state, timer notes                        │ server
                              ResponseRouter ◄── reader task (liveness timer) ◄ stdout ┘
```

### Components

For each: the state it keeps, its operations, what is hard about it, and what
makes it correct. "Modelled" and "partly" refer to this project; `PROJECT.json`
lists the sources and the modules.

| Component | State | Operations | What is hard | Correct when | Status |
|---|---|---|---|---|---|
| Response router (`bridge/actor/response_router.rs`) | `pending` senders by downstream id; two maps between the client's ids and downstream ids | register, route, fail one, fail several, remove, fail all, look up | answer, write error, timeout and reader's end race to complete one request; several requests share one client id | no waiter is forgotten, the first completion wins, a cancel only finds a request that is open and is the client's | modelled |
| Bridge connection (`bridge/actor/{reader,writer}.rs`, `pool/connection_handle.rs`) | connection state, id counter, order queue, liveness timer, the two note channels of the timer | get, register, notify, send, wait; write, hand back, cancel; read, route, reply, expire | five kinds of tasks, every one with several awaits; queue limits; a server that hangs or dies; futures dropped at an await | every request ends; ids are fresh; the server sees a legal order of messages | modelled |
| Handshake (`pool/handshake.rs`, the spawned task in `pool.rs`) | the state it sets at its end | initialize, wait, initialized, fail | it sets the state without looking at it and can do so after a shutdown | nothing is sent before `initialized` | modelled |
| Shutdown (`pool/shutdown.rs`, `graceful_shutdown`) | who owns stdin and the child | begin, reclaim the writer, shutdown, exit, kill, close; abort and retry | the global timeout aborts it at any await, a forced second call follows | stdin has one user; the connection closes; the server dies | partly: one connection |
| Request lifecycle (`pool/execute.rs`) | – | register, open the document, send, wait, clean up | early returns and timeouts between registration and answer | every exit cleans up | modelled |
| Document tracker and synchronisation (`pool/document_tracker.rs`, `ensure_document_opened`, `bridge/text_document/did_{change,close}.rs`) | versions by server, the copies by host, the set of opened documents | decide, mark, forward a change, take and untrack | two locks and several awaits per operation; the tracker outlives connections | didOpen first; versions increase; no copy forgotten or closed twice; copies current | modelled |
| Host document store and parsing (`document/store.rs`, `document/model.rs`, `parse_document` in `lsp_impl.rs`) | text, tree, generation and `has_tree` of each document | insert, update, edit tree, mark started and finished, wait, update if unchanged | handlers keep a text, or a lock, across awaits; a request parses on demand at the same time | no edit is lost; a tree is that of its text; waiting requests are told | partly: one document |
| Notification handlers (`lsp_impl.rs`) | settings, task handles | didOpen, didChange, didClose, didSave, configuration, initialize, shutdown | order of parse, forward and diagnostics | as above | partly |
| Semantic token requests (`lsp_impl/text_document/semantic_tokens.rs`) | – | wait, parse on demand, compute, store | superseded, stale and cancelled requests | tokens are of the stored text, a later request wins, a cancel is heeded | modelled |
| Server pool (`bridge/pool.rs`, `pool/connection_action.rs`) | connections by server, consecutive panics, the servers by upstream id | get or create, wait until ready, start in advance, register and unregister | state checked and acted on under different locks; callers dropped while they start a server; a server that panics again and again | one live connection per server; who finds a server disabled does not start it; panics are counted once | modelled |
| Cancellation (`src/lsp/request_id.rs`) | subscriptions by request id | subscribe, notify, forward | a cancel before, during or after its request; ids used again | only the cancelled request is told, and no subscription stays | modelled |
| Diagnostics scheduling (`debounced_diagnostics.rs`, `synthetic_diagnostics.rs`) | a timer and a task per document | schedule, supersede, cancel, publish | a superseded task that is past its last abort point; registration in several steps on several threads | what was triggered last is published last; a closed document is quiet | partly: without the client's pull |
| Semantic token caches (`analysis/semantic_cache.rs`, `lsp/cache.rs`, `lsp/semantic_request_tracker.rs`) | last result per document, result ids, active request | store, look up, delta, supersede, invalidate | a delta against a result that was replaced meanwhile | a delta leads from the client's tokens to the current ones | partly: without injection caches |
| Token computation (`analysis/semantic/*`) | – | collect, choose regions, split overlaps, encode, make deltas | overlaps, multi-line tokens | tokens sorted, disjoint, the highest one shows | partly: after the captures are collected |
| Region identity (`language/region_id_tracker.rs`) | ids by position | get or create, apply edits, drop | edits at the borders of regions, several edits per change, lookups in stale snapshots | an id stays with the text of its region; none is lost | modelled |
| Automatic installation (`lsp/auto_install/*`, `language/failed_parsers.rs`) | languages in progress, parse counts, the crash record on disk | try, start, finish, record, mark, clear | several handlers find one language missing; kills at any step, of file writes too; files that cannot be read or written; parses that panic | one installation at a time; only parsers that were in use are taken for failed | partly: documents, not injections |
| Selection ranges (`analysis/selection.rs`, its handler) | – | parse on demand, build chains | it stores what it parsed | chains are nested | partly: its effect on the store |
| Injections, request handlers of the bridged methods, command line | – | find regions; translate and send; install | trees and queries; files | – | partly: what other components see of them |
| Language loading, translation, configuration, dynamic registrations, client notifications | registry and queries; –; merged settings; a map of registrations; – | load, detect; to and from virtual positions; merge; register; send | – | – | [not modelled](#what-is-not-modelled) |

### How the components interact

* A handler of a bridged request takes a snapshot of the document, resolves the
  region at the position, asks the pool for a connection
  (`get_or_create_connection_wait_ready`) and calls `execute_bridge_request`:
  register an id with the router, make sure that the virtual document is open,
  queue the request, await the answer.
* didChange applies the edits to the text and to the region ids, parses and
  stores the document, closes the documents of regions that are gone and forwards
  the texts of the others. didClose drops the document and closes its virtual documents.
* `$/cancelRequest` is seen by a middleware (`RequestIdCapture`) that informs
  the handler and spawns a task that looks the request up in the routers of the
  connections and queues a cancel for the downstream id.
* The reader and the writer share only the router with the tasks that wait; the
  handle's state is set by the handshake task, by a waiting task that takes the
  reader's failure signal, and by the shutdown.
* A full request for semantic tokens supersedes the one before it
  (`SemanticRequestTracker`), waits for a tree or parses, computes on the
  blocking pool under a `select!` with its cancel, and stores its tokens for the
  next delta.
* didOpen and didSave publish diagnostics in a task of their own, didChange half
  a second later; each such task supersedes the one before it.
* didOpen of a language without a parser installs one. The parsers in use when a
  server ends are written to disk, and the next server does not use those.

The hazards that follow from this, each with the line where it bites and the
properties that watch it, are listed in `PROJECT.json`.

## The modules

| Module | Lines | Models |
|---|---|---|
| `ResponseRouter` | 149 | the router: one operator per method, and `RouterSpec`, which calls them in any order |
| `RequestService` | 48 | abstract: what a connection promises to the tasks that use it |
| `BridgeConnection` | 818 | one connection with all its tasks and the server, on top of `ResponseRouter`; implements `RequestService` |
| `ServerPool` | 386 | which connection a call gets, starts, panics, the registry of cancels; implements `CircuitBreaker` |
| `CircuitBreaker` | 68 | abstract: one start of a server at a time, none by a caller that found too many panics counted |
| `VirtualDocuments` | 484 | the virtual documents of one host: tracker, requests, changes, closings, respawns |
| `RegionIds` | 299 | the ids of the regions of one host under edits, lookups and closings |
| `HostDocument` | 425 | one document in the store: the handlers that parse it and the requests that wait for its tree |
| `SemanticRequests` | 404 | full and delta requests of one document: superseding, cancels, staleness, the cache |
| `SemanticDelta`, `SemanticTokens` | 57, 168 | algorithms: the delta of two results; from captures to the encoded tokens |
| `Diagnostics` | 437 | timers and tasks of the diagnostics published unasked |
| `AutoInstall` | 462 | installation of missing parsers, the record of failed ones over several sessions |
| `MCBridgeConnection`, `MCVirtualDocuments`, `MCSemanticRequests` | 13, 10, 55 | instances: which requests share a client id, symmetry, the tokens of two texts |
| `…Proofs` (eight) | 16.2 k | the theorems about the module they are named after; those of `ResponseRouter` are in `BridgeConnectionProofs` |

In all of them a step is what a task does from one await, or from one lock, to
the next. `map` in `PROJECT.json` gives the lines of each definition.
Definitions marked `Mutant` are plausible mistakes in the code next to them;
each property of a run is broken by one of them, and they are not part of any
`Next`. A property named `…Safe` is the conjunction of a module's type invariant
with the accounting of its state. Variables marked as history are written and
never read by an action.

### ResponseRouter

`pending`, `upstream_to_downstream` and `downstream_to_upstream` are the fields
of `ResponseRouter`; the code guards all three with one mutex, so an operation
is one step. `waiter[d]` is the oneshot of the request `d`: `waiting` while its
sender is in `pending`, then `response`, `error`, or `dropped` when the sender
went without a value (`Remove`; `FailAll` sends an error). The maps keep the
code's asymmetry: a later request with the same client id takes over the
forward entry (`RegisterWithUpstream`), and completing a request erases the
forward entry of its client id whoever's it is by then (`RemoveCancelMapping`).

### BridgeConnection

| State | Code |
|---|---|
| `state`, `next_request_id`, `taken`, `dropped` | fields of `ConnectionHandle`; `taken` is `writer_handle` being `None`, `dropped` the last `Arc` gone |
| `queue`, `writer`, `writing` | the bounded `mpsc` channel, the place of `writer_loop`, the message in `write_message` |
| `reader`, `frame`, `timer`, `start_note`, `stop_note`, `liveness_failed` | the place of `reader_loop`, how far `read_message` is in a message, `LivenessTimerState`, the two channels of capacity one and the oneshot |
| `server`, `log`, `answered`, `server_requests` | the child process: what it read, which requests it answered, how many it sent |
| `client`, `request_id`, `was_empty` | the place and the locals of each `execute_bridge_request_with_handle` |
| `handshake`, `shutdown`, `shutdown_id`, `forced` | the handshake task, up to two calls of `graceful_shutdown`, the end of `force_kill_all` |

One action per piece of code between awaits: the requests
(`GetConnection` … `CheckLivenessFailed`, with `RequestTimeout` and
`AbortRequest`), `ForwardCancel`, the handshake, the writer's `select!` and
drain, the reader's `select!`, the server, and shutdown. Worth knowing:

* `register_request_with_upstream` is four steps, since `pending_count`, the
  registration, the state and the note to the reader are read and written
  separately. `RegisterShutdown` does the same in one step.
* The two `select!`s are biased or not as in the code. `read_message` is not
  cancel safe: a note that interrupts it in the middle of a message
  (`Interrupt`, in the instances with `partialReads`) tears the frame
  (`frame = "torn"`), and the next read is an error.
* The server is unconstrained: it may read, answer (once, anything), send
  notifications and requests, hang, or die. A server that has died leaves what
  it sent unread.
* Time is abstract. A timer that runs may expire at any step, so no property
  depends on one timeout being longer than another.
* The content of messages is a kind and an id. Initialize is request 1.

### VirtualDocuments

`document_versions`, `host_to_virtual` and `opened_documents` are the three
maps of `DocumentTracker`, each behind its own lock; a request
(`Begin`, `Connect`, `DecideDidOpen`, `SendDidOpen`, `MarkDocumentOpened`,
`CheckOpened`, `SendRequest`), a change (`Change`, then `ForwardCheck`,
`ForwardLookup`, `ForwardIncrement` for each region) and a closing
(`RemoveRegions`, `TakeEntries`, `SendDidClose`, `Untrack`) are sequences of
steps, one for each lock taken. The text of a document is the number of the
client's change. `received[s]` is what the present server of `s` was sent: the
queue of a connection is first in, first out, so a message counts as received
when it is queued; messages for a connection that is replaced or not Ready are
lost. `host_to_virtual` is a set here and a `Vec` in the code (`TrackedByOne`
and the decision to enter a copy only once make the order immaterial). Region
ids are not reused, as they are ULIDs. `leaked` is a history variable: the
copies whose task was aborted between the two locks of `should_send_didopen`.

Nothing is kept from overlapping: requests, changes, closings, full queues, aborted
tasks and respawns come in any order. What the code does not keep up then is
recorded in two history variables, and each property names the ones it excepts:
`mishaps` says of a copy that its didOpen was not queued (`unopened`), that a change
came by before it was open and its didOpen has an older text (`missed`), that a
didChange of it did not get through (`lost`), that a request was under way for it
when its region went (`late`), or that its didClose did not get through
(`unclosed`); `overtaken` are the changes that were not yet forwarded when the
next one came.

### ServerPool and CircuitBreaker

`connections`, `panic_count` and `registry` are the maps of
`LanguageServerPool`, `state[n]` and `handshake[n]` those of the `n`-th
connection that was ever started, `downstream[n]` the forward map of its router.
A caller is one call for one server. Callers run in parallel, so what the code has
behind different locks are different steps:

* `TakeLock` (the lock of the connections, and the count of panics under its own),
  then `GetOrCreate` (the state of the connection, and the decision: start, use, wait
  or refuse). Another caller may count a panic between the two.
* `Join` for the one that started the server. After a panic it sets the state
  (`pool.rs:853`), and only `CountPanic` counts it (`pool.rs:858-866`).
* `LookAgain` and `WaitForReady` for one that waits.
* `Send` (the registry first, then the router, whatever the state is by then),
  `Settle`, `Finish`; `StartedInAdvance` for a start without a request, `DropFuture`
  at each await.
* `HandshakeEnds` succeeds, fails or panics. `LivenessTimeout`: the reader of a hung
  server fails all that wait; `NoticeHung`: one of those, if any is left, sets Failed
  (`connection_handle.rs:672`, `:680`), and the next call replaces the connection.

History: `counted` is how many panics in a row there were in fact, `overtaken` the
servers of which a start was counted before one that had ended earlier.
`ReachedByCancel` is the way of a cancel from the upstream id to a request.

`CircuitBreaker` has the servers that are being started, those that may be started
by the one who asked, the panics that have yet to be counted and those that were:
whoever asks finds the count below the limit or is refused, a start begins when there
is none, and a panic ends one start and is counted once, later.

### RegionIds

A text is a sequence of bytes that are all told from one another by number, so
that an id's `home` (history) says which bytes its region had when it was born,
and which others there were. An edit arrives in steps (`ChangeRange`,
`ChangeText`, `ChangeMixed`), and `ApplySingleEdit` is the START-priority rule
for one edit: give up what starts inside, adjust the others, keep one where two
meet. `Resolve` is a lookup in the stored snapshot, which may be of an older text
(`Environment` says whether). Which regions a tree has is left open: any range of
the text may be one.

### HostDocument

`document` and `parse_state` are the entries of one document in
`DocumentStore.documents` and `parse_states` (the watch channel). Each message
of the client (opening, change with a range, change of the whole text, closing,
and three requests: for tokens, for the tokens of a range, for selection ranges)
has a handler; handlers start in the order of the messages, at most `MaxConcurrent`
at a time, and an action is what one does between two awaits. A text is the set
of the messages whose edits it has. A tree is *sound* when it is the tree of the
text stored with it, and *unsound* when the parser was given an old tree that
does not fit: tree-sitter then keeps the nodes of text it takes for unchanged.
`overlapped` is a history variable: have two handlers that set the text once
run at the same time?

A handler of didOpen and didChange goes on after its parse was stored: it
forwards (VirtualDocuments) and schedules diagnostics. Those parts do not write
the store and are left out here, and the handler ends with the store.

A request for selection ranges parses like one for tokens but stores what it
parsed without asking whether the text is still the same. A request for the
tokens of a range holds the store's read lock across its computation; `blocked`
says that a handler waits for that lock on the only thread that polls handlers,
after which no handler takes a step. `EveryHandlerEnds` allows for it.

### SemanticRequests

| State | Code |
|---|---|
| `active_request`, `next_request_id` | `SemanticRequestTracker`, `NEXT_REQUEST_ID` |
| `subscribers`, `cancel_rx` | `CancelForwarder.subscribers` and the handlers' receivers |
| `cache`, `next_result_id` | `SemanticTokenCache`, `TOKEN_RESULT_COUNTER` |
| `pc`, `request_id`, `held`, `answer` | the place and the locals of each handler |
| `document`, `edits` | the text in the store, how often it was changed |
| `cancelled`, `client_tokens`, `client_result` | the client: what it cancelled, and the tokens it has under each result id |

The handler: `Start` (or `StartWithoutLanguage`), `GetTree`, `ParseEnds`,
`ComputeEnds`, `CancelSeen`, and `DropFuture` when the service drops it. The
client sends, cancels, edits and closes; it uses an id again when its request was
answered. It applies deltas to the tokens *it* has, so that a delta made against
other tokens shows. `SemanticDelta` is `delta.rs` counted in tokens, not in
numbers.

### SemanticTokens

The steps of `finalize.rs` as operators, with recursive functions and folds
where the code loops: `Pieces` splits a token at line ends, `ActiveRegions` and
`Kept` drop the host's tokens under injected ones, the sweep splits what
overlaps, `Encode` makes places relative. `ShowsHighest` is the reference: at
every column the token of the highest priority shows, or none if there is none.
`MCSemanticRequests` makes the tokens of the run's texts with it and has TLC
compare the two over all small inputs (`TwoLinesShowHighest`,
`OneLineShowsHighest`); `DeltasLead` does so for deltas.

### Diagnostics

`main` is the task that polls the handlers: `Open`, `Change`, `Save`, `Close`
and the shutdown (`AbortAll`, `ClearTasks`, `CancelAll`). A handler stores its
text and triggers later (`owed`). `active_tasks` and `active_timers` are the maps
of the two managers. Timers and tasks run on the other threads of the runtime
(`#[tokio::main]`), at any time, also while main or another timer is in the middle
of a registration: spawn the task, look for finished entries (`FindFinished`), remove
them one by one (`RemoveFinished`), replace the entry (`Insert`), abort the task
that had it (`AbortPrevious`); or of a closing: the entry (`CloseTask`), the task
(`AbortTask`), the timer (`CloseTimer`). An abort stops a task at an await. A task that
is past its last one when it is aborted may publish all the same, and `Abort` leaves
open which do. The diagnostics of a text are its version.

History: `due` is what the last trigger saw. `strays` are the tasks that no abort
stops: one that was polled at its abort, one whose entry was removed for a finished
one's, one that was registered after a newer one, published while it was being
superseded or was spawned by a timer before the close of its document was over.

### AutoInstall

The disk (`failed_file`, `in_progress_file`, `parser_file`) outlives the server,
which is started (`Start`, `MarkFailed`, `Saved`, `Marked`), shut down
(`Shutdown`, `Persisted`: the parsers in use are written) or killed (`Exit`) at any
step; a parser that crashes the process is a kill. `std::fs::write` is two steps,
since it truncates first; `std::fs::copy` of a parser too. Every reading, writing
and removing of the two files may fail: a list that cannot be read ends the start
with an empty memory (`StartWithoutRecord`), a record that cannot be read is removed
unmarked (`ReadInProgress`), a list that cannot be written ends the marking early. A
document is opened (`Open`, `OpenUnknown`), its parser perhaps installed
(`BeginInstall`, `AlreadyExists`, `AlreadyInstalling`, `CopyParser`, `InstallEnds`),
and parsed on a thread that counts its language (`BeginParsing`, `EndParsing`,
`RemoveEntry`) and goes on when its handler has timed out. A parse may give no tree,
or panic (`ParsePanics`), which leaves its count behind. A count has `CountRange`
values and wraps like a `usize`. History: `suspects` are the languages that some
server was parsing, or had panicked with, when it was shut down; `panicked` those
with which a parse of this server panicked; `faults` the files (`list`, `record`) of
which an operation of this server failed.

## The runs

| Run | Instance | States | Question |
|---|---|---|---|
| `conn_requests` | two requests of one client request, another one without requests, cancels, a request of the server | 3.6 M | Do concurrent requests and cancels keep the cancel maps sound? |
| `conn_requests_end` | two requests of one client request; death, timeouts, aborts; fair | 413 k | Does every request end, and does the connection implement its service? |
| `conn_shutdown` | one request, two shutdowns, torn reads, aborts; fair | 305 k | Is what a server sees legal, has stdin one writer, and does a shutdown end? |
| `server_pool` | two servers, three callers in parallel, a limit of two panics, hung connections; fair | 467 k | Does the pool implement the breaker, and find the requests to cancel? |
| `docs_tracking` | one document and server, two requests, two changes, a closing, a respawn, full queues, aborts, everything overlaps | 2.9 M | Does the tracker account for every copy, is didOpen first, and what are the servers left with? |
| `region_ids` | texts of three bytes, three ids, overlaps and mixed messages | 830 k | Does an id stay with its region, and is none lost? |
| `host_document` | four messages of seven kinds, three handlers at a time; fair | 207 k | Does the store keep the client's text with its tree, and does every handler end? |
| `semantic_requests` | three requests, three edits, two texts, two ids to reuse; fair | 341 k | Do deltas fit the client, does a later request win, is each answered? |
| `diagnostics` | one document, three openings, changes or saves, several threads; fair | 1.3 M | Can every task be found, and has the last trigger the last word? |
| `auto_install` | two documents of a language, two parsing threads, three sessions, failing files, panics; fair | 147 k | Is a language installed once, and only a suspect taken for failed? |
| `dead_server` | one request, death; fair | | violated: a dead server makes its connection Failed |
| `stale_diagnostics` | one document, three openings, changes or saves | | violated: a superseded task publishes nothing |

What each property says is in the comment above it; in short:

* **`conn_requests`.** `CancelMapsSound`: the cancel maps speak of open requests
  of the same client request, although the forward map is overwritten and erased
  by others. `CancelsAreTheClients`: the server is only asked to cancel what the
  client cancelled, whatever happened between the lookup and the write. Two
  requests that share a client id are what it takes for one to overwrite and
  erase the other's entry, and one cancel per client id is all a client sends. A
  queue of capacity one is full as soon as one message waits.
* **`conn_requests_end`.** `NoWaiterForgotten`: the senders in the router are
  exactly those of the requests that wait. `ImplementsRequestService`: the
  refinement of `RequestService` under the mapping `Outcome`: received at most
  once, answered only after it was received, and outcomes are final.
  `EveryRequestEnds`: a request that began ends, with a server that hangs,
  answers late or dies.
* **`conn_shutdown`.** `ConnectionSafe`: types, no two tasks get one id, and a
  shutdown writes directly to stdin only after the writer task handed it back,
  to one of two calls. `ServerSeesProtocol`: nothing before `initialized`, the
  didOpen sent for a request before it, nothing but `exit` after `shutdown`.
  `ShutdownCompletes`: a graceful shutdown that begins leaves the connection
  Closed (or replaced). `ServerEnds`: its server is dead in the end, or somebody
  is stuck in a write to a server that does not read. Two calls are all there
  are: the graceful one and the one of `force_kill_all`.
* **`server_pool`.** `PoolSafe`: one connection of each server that starts or
  serves. `CountIsConsecutive`: panics in a row are counted, unless a handshake
  has ended whose result its caller has yet to take in (or never will), or a later
  one was counted first. `RegistryExact`: a cancel reaches the request that waits
  for a server that is Ready, if it is the only one of its id for its server, whatever
  connections were replaced before; and only dropped calls leave entries behind.
  `ImplementsBreaker`: the refinement of `CircuitBreaker`. `StartsEnd`: a start
  ends in the eyes of the pool, or panicked with nobody waiting. Three callers
  are one that starts, one that waits and one that comes when it has failed or hung.
* **`docs_tracking`.** `TrackingSafe`: a copy has a version exactly while the
  host's map or one closing has it, so none is forgotten or closed twice; apart
  from the copies of aborted tasks (`leaked`). `OpenedFirst`: a server that replaced
  no other is sent the didOpen of a document first. `VersionsIncrease`: versions go
  up and the document is opened once, unless a request outlived its region (`late`),
  and an older text follows a newer one only from an overtaken change.
  `CopiesSettled`: when all is quiet, the server has the client's text, unless what it
  has is from an overtaken change or the copy `missed` or `lost` one, and has no
  document open whose region is gone, unless it was `late` or is `unclosed`.
  `PendingMeansOpening`: a request is refused as pending while another one opens the
  document, or until its region goes after a didOpen was not queued or its task was
  aborted. Two requests race to open, two changes are one that overtakes the other,
  and a closing and a respawn can come between any two of their steps. With two
  documents or servers the instance is out of reach; that is the theorems' part.

* **`region_ids`.** `RegionsSafe`: one id per region, every id tracked, reported
  or dropped with its document, no empty range, and a guard in the code that says
  it is unreachable is. `FollowsText`: of the bytes there were when an id was
  born, its range covers those of its region that are left. `InvalidatedForCause`:
  an id is given up because its first byte was replaced, something was put right
  before it, or its place was taken. Three bytes are a region with a byte before
  and one behind it, and leave room for regions that meet.
* **`host_document`.** `StoreSafe`: types, and `has_tree` says what the store
  has. `TextKept`: when text handlers did not overlap, the store ends with the
  client's text, although parses fail and requests parse at the same time.
  `TreeIsOfText`: trees are sound if changes have ranges and do not overlap.
  `EveryHandlerEnds`, unless the thread is blocked in a lock (see
  [below](#divergences-no-run-records)). Four messages cover
  open–change–change–close, reopening, and a request between any of them; three
  handlers of the real four are all that can be in flight at the same time with
  a fourth that is still to start.
* **`semantic_requests`.** `RequestsSafe`: subscriptions are those of running
  handlers, a cancel that was heard is heeded, nothing is cached of a closed
  document. `DeltaFitsClient`: what the client makes of full results and deltas
  are the computed tokens. `AnswersInOrder`: the later request has the later
  result. `AnswersForCause`: tokens are of the stored text, and a request is
  given up only after an edit or a later request. `EveryRequestAnswered`.
  `ASSUME`s compare the token algorithms with their references over all small
  inputs. Three requests are one that is superseded, one that supersedes it, and
  one that asks against the result of either.
* **`diagnostics`.** `TasksSafe`: tasks and timers that run have their entries, or
  somebody is about to register or abort them. `ClosedIsQuiet`: no task or timer of a
  closed document has something to publish. `StaleOnlyWhileChanging`: older
  diagnostics replace newer ones only while a change has yet to publish.
  `EventuallyLatest`: the last trigger wins. All but for the `strays`, which the
  code's own steps make. Three inputs are two triggers that race and one behind
  them, whose timer or task may meet the registration of either.
* **`stale_diagnostics`.** `OnlyTheLatestPublishes`: see
  [below](#recorded-by-runs). A document is opened and saved; the save registers its
  task and aborts that of the opening, which has just collected and publishes.
* **`auto_install`.** `InstallSafe`: one installation of a language, no mark of it
  left behind, the list on disk is the one in memory if this server could read and
  write it. `OnlySuspectsFail`: no parser is taken for failed that was not parsing
  when a server ended and had not panicked in it. `RecordKept`: a recorded parser
  stays in one of the files until it is marked, wherever starts are killed and if the
  list fails; only not if the record itself does. `EveryOpenEnds`. Three sessions are
  one that ends on a parser, one killed while it marks it, and one after it; two
  threads are what it takes for two ends of parses to meet.

The bounds are the sizes of the sets in the configurations; `MaxServerRequests`,
`MaxChanges`, `MaxRespawns`, `MaxMessages`, `MaxCallers`, `MaxText`, `MaxBytes`,
`MaxIds`, `MaxRequests`, `MaxEdits`, `MaxInputs`, `MaxThreads` and
`MaxSessions` are numbers that guards cap. `Ids` has one id for initialize, one
per request and one for a shutdown, so it is never used up; `MaxPanics` and
`CountRange` are constants of the code, smaller here. Deadlock is not checked,
because every instance may really come to rest: all requests are done, the server
hangs, or the client sends nothing more.

## Fairness

`FairSpec` of BridgeConnection assumes what the runtime gives: a task that can
run is run (weak fairness of each task), a running timer expires, a write to a
dead process fails and a read of its stdout ends. The request of a task that is
still `idle` need not begin. Nothing is assumed of the server: it need not read
its stdin (`WriterWrite`, `WriteShutdown` and `WriteExit` are fair only when the
server is dead, since then they fail), and it need not answer. That a future is
dropped is not assumed either (`ClientStep`, not `Client`), because a client
need not cancel. Timeouts are fair by being disjuncts of the fair task:
`REQUEST_TIMEOUT` is in `wait_for_response`, `INIT_TIMEOUT` around the
handshake, the global timeout in `shutdown_all_with_timeout` and the three
seconds in `force_kill_all`.

The others assume as little:

* **HostDocument**: every handler is polled again, since every parse has its ten
  second timeout and every wait for a tree its 200 ms; but not while the thread
  is blocked. The client need not send anything.
* **SemanticRequests**: handlers are polled; their waits and parses have the same
  timeouts, a computation ends.
* **Diagnostics**: a handler that has stored its text goes on to its trigger, half
  a second passes, a registration or closing that began is finished, and a task's
  requests to the servers have timeouts. That a task is aborted is not assumed.
* **ServerPool**: a handshake, a wait for Ready and a request have timeouts, so
  each caller that is not dropped goes on. That callers are dropped, that a server
  hangs or that anybody notices is not assumed.
* **AutoInstall**: a parse has its timeout, an installer's programs end, a thread
  goes on unless the server ends, a start goes on with its files, a shutdown ends.
  That the server is killed or started again is not assumed, nor that a
  file operation succeeds.

## The proofs

All theorems are for every value of the constants that the assumptions named in
the modules allow: sizes are natural numbers, ids are numbers, there are at most
two shutdowns of a connection, and `None` (Rust's `Option::None`) is none of the
values it stands next to. Every safety property, action property and refinement
that a run checks is a theorem; `PROJECT.json` lists them with what each says.
Below, by module, the inductive invariant and why it is needed.

**Router** (in `BridgeConnectionProofs`). `RouterTypeCorrect`,
`WaitersAccountedFor`, `CancelIsSound`, `AnswersAreFinal`, from `RouterInv`. Its
parts are only inductive together: that a forward entry names an open request
needs that the reverse entry exists only for pending ones, since that is what
`RemoveCancelMapping` looks at.

**Connection.** `StepsAreRouterSteps` and `StepsAreRouterNext` show that every
step of every task is a step of the router's specification or leaves the router
alone; the router's invariant then carries over without repeating its proof.

* `ConnectionInv` adds `RequestIdsInv` (a task past its registration has an id,
  and ids are below the counter), on which freshness of ids rests, and
  `WriterInv` (a shutdown past `TakeWriter` has set `taken`, there is only one
  such, and a message is in the middle of a write only while the writer task has
  the writer), which says why the second call finds no writer. It gives
  `ConnectionIsSafe` and the theorems on its parts, `ConnectionForgetsNoWaiter`
  and `ConnectionCancelsAreSound`.
* `FlowInv` follows a cancel from the map to the queue to the server: what the
  maps say, whose id is whose, and what the messages in the queue, in the writer
  and in the log mean. It gives `CancelsAreForwardedForTheClient`.
* `OrderInv` follows the order of messages: a request's didOpen is ahead of it in
  queue and log (`OpensBefore`), no message of a request is queued before the
  handshake is through (`HandshakeFirst`), and after the shutdown message only
  `exit` can be written (`ShutdownLast`). It gives `SessionsAreOrderly`.
* `ConnectionImplementsService`: initial states map to initial states, and each
  task's step to a step of `RequestService` or a stutter. What it needs from the
  invariants is that an answer is of a request the server has read.

**Server pool.** `IInv` says what a caller may hold (`CallsKnown`), that one caller
joins a start and one has the lock of the pool (`OneJoins`, `OneDecides`), that a
connection is Initializing exactly while its handshake runs or has panicked
unjoined (`HandshakeOfStart`), that the pool has under a name what was started for
it, and that a panic the state shows has a caller about to count it (`PanicSeen`).
`PoolIsSafe`, `OneConnectionOfEach` and the refinement `PoolImplementsBreaker`
follow; the refinement needs no bound on the count, since there is none: see
[Panics and parallel callers](#divergences-no-run-records). `CountInv` adds what the
starts that are still to be counted will make of the count, in the order in which
they ended (`PanicsAreInARow`); `LinkInv` ties a sent request to its connection, the
router of that and the registry (`CancelsFindTheirRequests`).

**Documents.** Nothing is assumed of what overlaps, fails or is aborted. `AccountInv`
adds to `TrackedByOne` that a closing holds copies only while it closes them, and
untracks only one of its own; without it `Untrack` could remove the version of a copy
that somebody else entered (`TrackingIsExact`, `TrackerIsSafe`). For any number of
servers:

* `PendingIsAccountedFor`, from `PendingInv`: while its region is there, a tracked
  copy is marked, being opened by a request, leaked, or its didOpen was not sent.
* `NothingElseIsOrphaned`, from `OwnedInv`: what is open at a server is in the host's
  map, or with a closing that has yet to tell the server, or its didClose did not get
  through. It needs that a request under way for what is gone was so when its
  region went (`GoneInv`, `LateInv`), and that a region that went leaves a closing
  behind which takes what the map has (`HostInv`, `TakenInv`).

The others are for one server (`OneServer`): the mark `opened_documents` names the
document and not the server, so with two of them a document that is open at one
counts as opened at the other, and TLC finds all three violated
([Two servers for one document](#divergences-no-run-records)).

* `DocumentsAreOpenedFirst`, from `OpenInv`: what counts as opened, and what a
  request or a change is about to be sent for, was opened at the server.
* `VersionsOnlyIncrease`: `MarkInv` says that what is being opened is not marked and
  that one request opens it, `OnceInv` that it was not opened before, `AgeInv` that a
  change that is forwarded is the last or was overtaken, and `RisingInv` that the
  versions sent rise to at most the tracked one.
* `OpenCopiesAreCurrent`: `MarkingInv`, `SnapshotInv` and `LastInv` say of what a
  server has, and of what a request that opens it carries, that it is the text, is
  about to be brought up to it, or that the mishap that keeps it behind is known.
  `CopiesAreSettled` joins it with `NothingElseIsOrphaned`.

**Region ids.** `IInv`: the pending edits lie in the text and apart
(`PendingFits`), no range is empty, ids are unique and accounted for. `TInv` adds
that the bytes of a text are distinct and that ranges follow them; the lemmas on
`Adjust` compute where an edit moves the bytes of a range. They give
`RegionsAreSafe` and its parts, `RangesFollowText` and `IdsGivenUpForCause`.

**Host document.** `StoreInv` is `TreeIsAnnounced` with the types it needs. The
one idea is that a stored tree may be unannounced only while some handler is
between `mark_parse_started` and `mark_parse_finished`: each of the handlers
there announces what it stores, whatever its generation. `HostInv` adds
`OrderInv`: as long as no two text handlers overlapped, the handlers took their
turns in the order of the messages, so that the text the client has is the stored
one, that of the handler at work, or that of messages still to start; and
`SoundInv`: the tree a handler parses with is that of the text it started from. They
give `StoreIsSafe`, `TextIsKept`, `TreesAreOfTheirText`, `RequestsOnlyAddTrees`.

**Semantic requests.** `IInv` ties ids to the number of requests started and
answered (`Counts`), says what a handler holds where (`HandlersKnown`), that the
active request is the last one started (`ActiveIsLast`), and that the cached
tokens are those the client has under the cached result id (`ClientHasCached`).
Together with `DeltaLeads` (the delta of any two results, applied to the first,
gives the second) this is why deltas fit. `DeltaLeads` is about `CHOOSE` of a
longest common beginning and end, whose existence is proved by minimal
counterexample. `CauseInv`: a request that is not the active one, or whose text is
not the stored one, was overtaken by an edit or by the start of a later request;
`AnswersAreForCause` needs it.

**Diagnostics.** Nothing is assumed of when threads meet. `TInv` is of types and the
documents of tasks and timers, and has `SleepersAreTracked`. `LInv` is of the registry:
each task that is no stray has its entry, or somebody who will register or abort it,
and whoever registers a newer task of the document will find the older one
(`OrderInv`): `TasksAreSafe`. `AgeInv`: no task or timer is of a text newer than the
stored one. `RunInv` says from which text a task or timer runs, and what will replace
it: `ClosedDocumentsAreQuiet`, `StaleIsTemporary`. Its part `PairInv`, of the last task
of a document and the ones before it, is what the order of registrations is needed for.

**Automatic installation.** `IInv` has a part for each group of variables.
`RecordInv`: while a start marks the parsers of the server before, each is in the
list or still to be marked, if the record could be read (`RecordMarked`); the list is
that of memory unless an operation on it failed (`ListAgrees`), and all are suspects.
`HandlerInv`: marks are those of handlers that install. `CountInv`: a count is at most
that of the threads that parse the language, or one of them is about to remove
it, or a parse with it has panicked (`CountsMeanParses`). So what a shutdown writes is
in use or has panicked, although the entry is removed after the lock on it was released
and a count may wrap meanwhile. They give `InstallationIsSafe`,
`OnlySuspectsAreMarked`, `RecordsAreKept`.

Only model-checked, because it is out of the prover's reach:

* liveness: `EveryRequestEnds`, `ShutdownCompletes`, `ServerEnds`, `StartsEnd`,
  `EveryHandlerEnds`, `EveryRequestAnswered`, `EventuallyLatest`, `EveryOpenEnds`;
* what the folds and recursive functions of `SemanticTokens` compute
  (`TwoLinesShowHighest`, `OneLineShowsHighest`), which is induction over data.

## Where code and documentation part

### Recorded by runs

| Run | What a comment or document says | What the code does |
|---|---|---|
| `dead_server` | `bridge/actor/writer.rs:218-219`: "Connection will transition to Failed via reader task when it detects the write error" | The reader's error branch (`reader.rs:558`) fails the pending requests and ends; nothing sets the state, and the pool hands out the Ready connection again. |
| `stale_diagnostics` | `synthetic_diagnostics.rs:9-12`: "only the latest diagnostic collection should complete and publish results. Earlier in-progress tasks are aborted via `AbortHandle` to prevent stale diagnostics from being published" | The abort (`synthetic_diagnostics.rs:63`) stops a task at an await. One that another thread polls at the time, past its last wait, publishes after the newer task was registered; so does one of a closed document. |

### Divergences no run records

These were met while modelling. The properties that the runs check are stated so
that they hold in spite of them, and name what they except.
The unknown types, and what is under the last heading, are about code that is not
modelled.

**One connection**

* **Torn frame.** `pool/connection_handle.rs:447`: "Only the liveness timer is
  disabled, not the entire reader". The stop note of a shutdown wins the
  `select!` against a `read_message` in the middle of a message, whose bytes are
  lost; the next read is an error and the reader ends, before the shutdown response.
* **Shared client ids.** `bridge/actor/response_router.rs:44`: "When a request
  is registered with an upstream ID, both mappings are stored". With several
  requests for one client id, which
  `lsp_impl/text_document/diagnostic.rs:313` does on purpose, the forward map
  keeps the last one, and a cancel reaches one region's request.
  `CancelMapsSound` says what remains true.
* **Liveness expiry.** `bridge/actor/reader.rs:469`: "Timer firing triggers
  Ready->Failed transition", `pool/liveness_timeout.rs:15`: "Fires Ready ->
  Failed transition if no activity while pending > 0". The signal is taken only
  by a task that receives an answer; if the last of them timed out before, the
  connection stays Ready without a reader. Likewise `liveness_timeout.rs:14`,
  "Stops when pending count returns to 0": only the reader stops the timer,
  after a message, and not the removal of the last request, so it can fire
  over an idle connection. Requests on such a connection still end
  (`EveryRequestEnds`).
* **Timer start.** `pool/connection_handle.rs:635`: "Either way, the timer
  starts exactly once when pending goes 0->1". The count is read apart from
  the registration; a request counted before another's answer is routed starts
  no timer.
* **Timer in Closing.** `docs/adr/0018-ls-bridge-timeout-hierarchy.md:80`:
  "Liveness timeout **STOPS** when entering `Closing` state". A request that saw
  Ready can send its start note after the stop note.
* **Closed.** `pool/connection_state.rs:12`: "Closed: connection terminated
  (terminal state)". The handshake task sets Ready or Failed whatever the state
  is. `ShutdownCompletes` therefore says that Closed is reached, not that it
  stays.
* **Queue at shutdown.** `bridge/actor/writer.rs:15`: "Pending messages are
  delivered before shutdown". A message queued between the last `try_recv` and
  the end of the task is lost.
* **Force kill.** `pool/shutdown.rs:167`: "this method terminates all non-closed
  connections and transitions them to Closed state". The second call of
  `graceful_shutdown` never finds a writer; with a server that does not read its
  stdin, the writer task is stuck and nothing kills the child. `ServerEnds` has
  `StuckWrite` for it.
* **Dropped handle.** `bridge/actor/reader.rs:235-237`: "When dropped, the token
  is automatically cancelled". A `CancellationToken` is not cancelled by a drop;
  the reader of a dropped handle runs until its server exits.

**The pool**

* **Panic without a caller.** The caller that starts a server awaits its handshake
  and takes in how it went. If it is dropped and the handshake panics, the
  connection stays Initializing and the panic is not counted: every later call for
  the server fails or times out, and none starts it again. If the handshake
  succeeds, the count of earlier panics stays. `StartsEnd` and
  `CountIsConsecutive` name the cases.
* **Panics and parallel callers.** `pool/connection_action.rs:10-13`: "After this many
  consecutive handshake task panics for a server, we stop retrying". The caller that
  joins the last of them sets Failed before it counts, and another one that has read
  the count starts the server once more; the count may pass the limit. Two callers
  may also count in another order than their starts ended, so that an older success
  resets a newer panic. `ImplementsBreaker` is stated for a count that comes later, and
  `CountIsConsecutive` excepts the overtaken ones.
* **Hung connections.** A caller that got its handle before the connection was failed
  and replaced registers with the old router, without a look at the state; a cancel goes
  to the new connection and does not find it. `RegistryExact` is about requests on a
  connection that is Ready.
* **Several regions of one request.** A document's diagnostics are several requests
  with one upstream id; the first of them that ends unregisters the id for its
  server, and a cancel no longer finds the others there. A dropped request leaves
  its entries in registry and router. `RegistryExact` speaks of ids used once.

**Virtual documents**

* **Two servers for one document.** `docs/adr/0015-ls-bridge-message-ordering.md:259`:
  lifecycle gating is "per downstream, per URI". `opened_documents` is keyed by
  the URI alone, so a document opened for one server counts as opened for
  another whose didOpen is yet to come; and
  `docs/adr/0016-ls-bridge-server-pool-coordination.md:152`, "Maintain the
  latest host-document snapshot per downstream": changes are forwarded to the
  first server found. The run has one server, and so have the theorems that need it.
* **Failed didOpen.** `pool/document_tracker.rs:41`: "Race condition: another
  request is opening this document." When the didOpen could not be queued, no
  request is, and the document stays refused until its region goes; the same after a
  task that was aborted between the locks. `PendingMeansOpening` excepts both.
* **Stale didOpen.** `docs/adr/0015-ls-bridge-message-ordering.md:271`:
  "`didOpen` contains the current document snapshot (not stale content)". The
  text is read before the connection is awaited, and changes meanwhile are not
  forwarded to a document that is not open (the mishap `missed` of `CopiesSettled`).
* **Swapped changes.** `bridge/text_document/did_change.rs:30-32`: "ensures FIFO
  ordering". The queue does; but handlers of two changes forward when their
  parses end, in either order, and the older text can get the higher version
  (`overtaken` in `VersionsIncrease` and `CopiesSettled`).
* **Orphans.** `pool/document_tracker.rs:335-336`: "This is atomic: lookup and
  removal happen in a single lock acquisition, preventing race conditions with
  concurrent didOpen requests." A request that read its region before the
  closing enters its copy afterwards, and no closing looks for it again (the mishap
  `late`).
* **Respawn.** `docs/adr/0016-ls-bridge-server-pool-coordination.md:180`: "all
  document lifecycle entries for that downstream are discarded. A respawned
  connection starts with all documents in `Closed`". The tracker is not told of the
  replacement; a request for a document the old server knew is sent to the new
  one without didOpen. `OpenedFirst` is about first connections.

**The host document**

* **Overlapping text handlers.** Two didChange handlers read the same stored
  text, and the later one to end its parse overwrites the other's edit; a
  didChange can overlap the didOpen before it in the same way. A parse in
  flight stores a document that was closed meanwhile, also over one opened
  anew, whose generations restart at 0
  (`src/lsp/lsp_impl.rs:1258`: "This ensures that reopening the file will
  properly reinitialize everything"). `TextKept` and `TreeIsOfText` speak of
  handlers that do not overlap.
* **Change of the whole text.** `src/lsp/text_sync.rs:38`: "**Empty edits**: Use full
  re-parse with `apply_text_change`". `parse_document` hands the stored tree,
  without edits, to the parser as the old tree of an unrelated text.
* **Mixed messages.** A change of the whole text followed by one with a range in
  one message (`src/lsp/text_sync.rs:94-98`) has only the edits of the latter, which
  are applied to the tree and the region ids of the text before the message.
* **Selection ranges.** `lsp/lsp_impl/text_document/selection_range.rs:46` reads the
  text, parses it and stores both (`:110`), over a newer text, too; the request for
  tokens compares the text first.
* **Lock across an await.** `document/store.rs:132-133`: "caller holds read lock
  until drop" and "Callers must not call write methods while holding"; the range
  request keeps its handle (`semantic_tokens.rs:756`) across the `.await` of the
  computation. A handler that writes the document meanwhile, in the same task,
  blocks the thread that would have to finish the first.
* **Lookups in old snapshots.** `language/region_id_tracker.rs:280`: "KNOWN RACE
  CONDITION". A request that resolves regions of a snapshot older than the edits
  puts misplaced entries in the tracker, as the comment says. `FollowsText`
  excludes the entries born so (`home = None`).
* **Snapshots without a tree.** A diagnostics task that has nothing to collect, as
  the parse failed, supersedes one that collects.
* **Registration on several threads.** `synthetic_diagnostics.rs:14-17` speaks of
  "concurrent access from multiple tokio tasks without explicit locking". The map is
  safe, its steps are not one: `:77-94` looks for finished entries and removes them by
  key later, so a task that another thread has registered in between loses its entry
  and can no longer be aborted; of two registrations of a document the older task's may
  come last; and `abort_all` clears what was entered after it had aborted the rest. In
  the same way a timer that fires while its document is closed registers a task of a
  closed document. They are the `strays`.

**Installation and crashes**

* **State file.** `language/failed_parsers.rs:9-10`: "Before parsing, we record the
  parser being used to a state file" and "If the process crashes, on restart we
  detect the crash". `begin_parsing` counts in memory; only `persist_state`, in a
  graceful shutdown, writes the file. So a crash leaves no trace, and a shutdown
  during a parse marks an innocent parser as failed.
* **Skipped parsers.** `failed_parsers.rs:11`: "Failed parsers are skipped". The parse
  on demand (`semantic_tokens.rs:164`) does not ask `is_failed`.
* **Truncated list.** `fs::write` empties the file before it writes it
  (`failed_parsers.rs:110`); a kill in between forgets all failed parsers.
* **Files that fail.** A list that cannot be read ends `init` (`failed_parsers.rs:65`),
  and `manager.rs:169-175` goes on with an empty memory while list and record stay; the
  next write of the list drops what it had. A record that cannot be read
  (`failed_parsers.rs:71`) is removed unmarked. `DiskIsMemory` and `RecordKept` except
  the operations that failed.
* **Parses that panic.** `lsp_impl.rs:441` logs the panic of a parse, which has passed
  `end_parsing` over: its language stays counted, and the next shutdown records it
  although nothing parses. `OnlySuspectsFail` counts it among the suspects.
* **Two installations.** `auto_install/manager.rs:75`: "Another task is installing;
  caller should wait". It does not: the document stays without a tree until its
  next change or request.
* **Half a parser.** A kill during `fs::copy` (`install/parser.rs:206`) leaves part of
  a library, which counts as installed (`manager.rs:304`) and is not installed again.
* **Text of the opening.** didOpen awaits the installation, which may take minutes,
  and `reload_language_after_install` then parses and stores the text it was opened
  with (`lsp_impl.rs:683`), whatever changed meanwhile.

**Tokens, as algorithms**

* **Unknown types.** `analysis/semantic/finalize.rs:248` expects that "all tokens
  should have known types after apply_capture_mapping filtering"; a user's mapping
  is returned unchecked (`legend.rs:70-83`).
* **Deltas and lines.** `analysis/semantic/delta.rs:74-76`: with another number of
  lines, "suffix matching would be incorrect". It would be correct: `DeltaLeads`
  does not depend on the comparison of the lines, which only makes edits longer.

**Translation and configuration**

* `bridge/protocol/response.rs:193-194`: "All ranges (…) need the region_start_line
  offset applied"; a link to a real file keeps its `originSelectionRange`.
* `bridge/text_document/diagnostic.rs:207-226` shifts related information that is
  about the host's own URI, and drops that about the virtual document it is of.
* `docs/adr/0011-wildcard-config-inheritance.md:67-94` has `bridge._` stand for
  every language; `is_language_bridgeable` (`config/settings.rs:205-213`) looks up
  the language alone.
* `docs/adr/0010-configuration-merging-strategy.md:196`: "Invalid files cause startup
  failure"; `lsp/settings.rs` warns and goes on without the file.
* With several servers for a language, `bridge/coordinator.rs:174-214` takes
  whichever its map yields first.

## What is not modelled

* **Data**: JSON, texts, positions, capabilities, syntax trees. They are ids, kinds,
  versions, bytes without meaning, and soundness of a tree. Tokens are data only in
  `SemanticTokens` and `SemanticDelta`.
* **Several connections or hosts at a time**, but in `ServerPool`. Connections share
  nothing but the pool's maps and the tracker, hosts nothing but the tracker, whose
  entries are by document. The shutdown that joins all connections is left out.
* **Parser pool**: a parser may be there or not, a parse may end with a tree or not,
  at any time.
* **Language loading**: dynamic libraries and query files, and the search for them.
* **Queries over trees**: which regions a document has, which captures, the range
  filter, selection chains. Any regions and captures are allowed instead.
* **Injection caches** (`lsp/cache.rs`, `analysis/semantic_cache.rs`): only tests store
  into the cache of injected tokens.
* **Translation** (`bridge/protocol/*`): functions from JSON to JSON; no state.
* **Configuration** (`src/config/*`): merging of documents at start and when the
  client changes it; its result is a constant here.
* **The client's pull of diagnostics**, merging of the answers of several servers.
* **Dynamic registrations, client notifications, progress, log messages.**
* **Several processes** that share the directory of installed parsers, downloads and
  compilers.

## The plan

Done: every component with concurrency of its own has a module, and every safety
property, action property and refinement that a run checks has a theorem. What is
left, the most important first:

1. `VirtualDocuments` with several servers and documents: which promises survive when
   the mark of a document does not name its server, and what a respawned server is
   left with.
2. The lemmas on `SemanticTokens` that need no induction (two neighbouring fragments
   do not overlap; the winner has the highest priority), towards `ShowsHighest`.
3. The shutdown of several connections, and the pool's states Closing and Closed.
4. Merging of settings, translation of positions and the fallback chain of language
   names, as operators against reference definitions.
5. The client's pull of diagnostics, which cancels and merges several requests.

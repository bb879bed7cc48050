# A verification project for cad-a11y

TLA+ specifications of the parts of cad-a11y where several threads, several
browsers and a database have to agree, with the TLC instances that check them
and proofs, checked by TLAPS, of the facts the rest relies on. Paths below are
relative to the repository's root; `module` means a `.tla` file here.

## 1. The system

cad-a11y shows 3D models on a refreshable braille display. One Flask process
(`app/server.py`, one thread per request) renders slices and views of STL/STEP
models; browser pages (`static/js/viewer.js` and its companions) ask for renders
and send them to a device over WebHID or serial. The same process runs user
studies: an experimenter's panel and a participant's page, on one machine or two,
share a session that the server records.

| Component | Where | State it keeps | Operations | What makes it hard |
|---|---|---|---|---|
| Study session handlers | `app/studies/engine.py`, `store.py` | `study_sessions` (status, step, mode), `study_events`, `study_renders`; in memory the ready signals; one re-entrant write lock | start, advance, back, ready, mode, end, event, render hook, idle sweep | every handler reads the row without a lock and decides before it takes one; rows, steps and statuses are separate commits; writes may fail and are then skipped; the process may die between any two |
| Study live sync | `engine.py` (`_push`, `_broadcast`, `_stream`), `static/js/study.js`, `study-control.js` | one bounded queue per connected page; each page's connection, timers, key and last state; the panel's sign-in | broadcast, subscribe, deliver, reconnect, refresh, join, sign in | messages dropped and reordered, subscribe racing a change, reconnects, timers and answers in any order |
| Study enrolment | `store.py` (`enroll`), `engine.py` (`task_set_status`), `protocol.py` | `participants`, `study_sessions` | enrol, choose a set, re-enrol | one transaction that may fail anywhere; typed codes colliding with generated ones; rounds derived from history |
| Study record and exports | `store.py` (JSONL), `export.py` | the JSONL log, the archive | append, checks, snapshot, archive | two records of the same events; exporting while writing |
| Studies registry and access | `registry.py`, `definition.py`, `protocol.py`, `definitions/`, `tokens.py` | the served studies, panel sign-ins | load, validate, resolve steps, sign in and out | what holds for every place in the rotation; start-up refusals |
| Uploads | `app/server.py`, `app/db.py` | files in two directories, ownership rows, tabs' uploads, the model list | upload, delete, clean up, reconcile, list | files, rows and tabs are changed in separate steps by several threads |
| Render caches and warm-up | `app/server.py`, `cad_comparison_lib.py` (precompute) | renderers by path, two response caches, slice-graph cache files, the warm-up queue | render, evict, warm, precompute, forget | a render or a computation in flight while its model is deleted and its name reused |
| Recording | `app/recording.py`, `db.py` | sessions, render statistics, page events | touch, identify, enrol, render, page event | which requests may be recorded at all |
| Viewer page | `static/js/viewer.js` | the view's parameters, the request in flight, the model list | key presses, render, poll, select, upload | answers that arrive after the view has moved on |
| Tutorial | `app/tutorial*.py`, `static/js/tutorial.js` | the open lesson and step, the progress kept in the browser | start, act, answer, pass, skip, back, menu, resume, exit | the tail of one action, late answers of the server, devices that come and go, reloads |
| Devices | `static/js/dotpad-integration.js`, `monarch-hid.js`, `witmotion-imu.js`, `trinkey-slider.js` | a device's connection and its last frame | connect, send, disconnect | frames and keys of a device that may go away |
| Rendering mathematics | `app/cad_comparison_lib.py`, `braille_display.py`, `src/converter` | none between requests | slice, project, downsample | numeric geometry |
| Build and deployment | `scripts`, Docker files | none | | |

How they meet: the viewer's renders reach the study log through
`recording.study_render` (the render hook); a study step names a model that the
viewer loads; the study handlers' changes reach the pages through the broadcasts.

### What each part has to get right

- **Handlers.** A press moves a session at most once; the log of a session is
  numbered without gaps and replays to the step the session is on; a render is
  filed under the step it was felt on; a session ends once and its outcome is
  never rewritten; the write lock is always released.
- **Live sync.** A page sees only its own session and role; it is never left
  without a connection and without a plan to make one; after the last change it
  ends up showing it.
- **Enrolment.** No participant without a session, no code twice, rows of the
  design used evenly.
- **Record and exports.** The JSONL log has every call in order whatever the
  database refuses; an archive's files agree with each other though sessions go on
  meanwhile; its checks list what went wrong and nothing else.
- **Protocol and definitions.** Designs balance what they are for; a session's
  steps load the models the panel checked for, of this participant's tasks; nothing
  runs that nobody opened.
- **Tutorial.** One action passes one step; progress leads back to where the
  person was; the pins are the test pattern's only while its step is open.
- **Uploads.** A file has the owner who sent it, nobody else's row or tab names
  it, and no name stands for two files.
- **Caches.** A response or a renderer kept for a name is of the file that has
  that name now; slice graphs are of the mesh they are shown with; the warm-up
  never waits for ever, and a page that shows a stand-in asks again.
- **Viewer page.** What is on the display is what the page says is on it, and what
  has not reached it is asked for.

## 2. Modules

| Module | Models | Kind |
|---|---|---|
| `StudyLifecycle` | what the study promises about one session: starts once, moves while active, ends once, completed only if it has stood on the last step | abstract specification |
| `StudySession` | every route of the study engine that changes a session, at the grain of one commit, one unlocked read or one in-memory change | detailed specification, shown to implement `StudyLifecycle` |
| `StudySession_proofs` | theorems about `StudySession` | proofs |
| `StudyStream` | the fan-out of changes to the pages and the pages' connecting, refreshing, joining and signing in | specification |
| `StudyStream_proofs` | theorems about `StudyStream` | proofs |
| `StudyArchive` | the store calls cut into row, line and status, the log beside the database, and an archive made meanwhile with its checks | specification |
| `StudyArchive_proofs` | theorems about `StudyArchive` | proofs |
| `StudyProtocol` | designs, rotation, resolving a study's steps for one session, required models, validation | operators |
| `StudyDefinitions` | the comparison study and the example | constants over `StudyProtocol` |
| `StudyRegistry` | which definitions a server serves | operators over `StudyDefinitions` |
| `StudyEnroll` | enrolment, codes, the rotation and the rounds of the set picker, on a study's definition | specification, over `StudyProtocol` |
| `StudyEnroll_proofs` | theorems about `StudyEnroll` | proofs |
| `ModelStore` | uploads: files in two directories, ownership rows, tabs, the model list, renderers, cached answers, warm-up, start-up | specification |
| `ModelStore_proofs` | theorems about `ModelStore` | proofs |
| `ViewerRender` | a viewer page's requests and what it and its DotPad show, with the server's two answer caches | specification |
| `ViewerRender_proofs` | theorems about `ViewerRender` | proofs |
| `SliceGraph` | the renderer table, its precompute threads and cache files, the warm-up worker, and a page that shows a flat graph until the real one is there | specification |
| `SliceGraph_proofs` | theorems about `SliceGraph` | proofs |
| `TutorialLessons` | the fifteen lessons: checks, conditions and needs of every step | constants |
| `TutorialRunner` | the tutorial: open step, progress, menu, devices, test pattern | specification, over `TutorialLessons` |
| `TutorialRunner_proofs` | theorems about `TutorialRunner` | proofs |
| `MC...` | the instances TLC checks | |

`StudySession` contains `Lifecycle == INSTANCE StudyLifecycle WITH ...`, the
refinement mapping: a session's status and step are its columns, `reached` is the
furthest step it has stood on. `ImplementsLifecycle == Lifecycle!LSpec` is checked as
a property of `session_faults`.

### `StudySession` and the code

A request is a thread (`Handlers`) that goes through a few labels (`pc`). Its
first step is the read every route begins with (`Begin`:
`_resolve_participant_session`, `_resolve_experimenter_session`), taken without
the lock; what it read is kept in `req[h]` until it is used. Then come the locked
sections. A section of one commit is one action (`LogEvent`, `LogRender`,
`SetMode`); `_advance` and `end_session` hold the lock over several commits and
are several actions with `lock = h` between them (`AcceptPress`, `SetStep`,
`LogAdvance`, `LogAutoload`, `SettleMove`; `FindActive`, `LogEnd`, `SetEnded`).
`ClearReady` and `SignalReady` are the in-memory changes outside the lock.

- `rows` is `study_events` and `study_renders` together, in the order they were
  inserted; each row keeps its `seq`, the step it was filed under, the step whose
  clock (`step_elapsed_ms`) it took, and what a move or an end says in its data.
- `step`, `mode`, `status` are the columns of `study_sessions`.
- `quiet` abstracts the timestamps the idle sweep reads: it becomes true when
  twelve hours pass with nobody at the study (`TimePasses`, which needs every
  request to be over) and false with any row or move.
- `Presses` are the values of `from_index`, `direction` and `step_index`.
- `reached` is a history variable for `StudyLifecycle`.
- `Faults`: `"write"` (a failed row is counted and skipped, a failed UPDATE ends
  the request), `"read"` (a read inside a section returns nothing, so the code
  falls back on the row it read before), `"crash"` (the process is killed; the
  database is what it was, memory is lost).

The sweep is throttled to one in five minutes, so one is in flight at a time. A
panel request that names no session finds the only active one, which is a subset
of what naming it allows. A failing write is one that was not applied. The
`step_id` of a row is a function of its `step_index` and is not modelled apart
from it.

### `StudyStream` and the code

A session's row is a version number. `Commit` is any request that changes one;
it then broadcasts (`Select`, `Put`: the subscribers are listed under
`subscribers_lock`, and put to outside it). A connection (`stream[c]`) is asked
for by a page, finds its session's row (`Open`), subscribes (`Subscribe`), and
delivers its opening message and its queue. A page has the handle `eventSource`
(`es`), timers, its key, the state it last applied, and the requests it has made
(`answers`, a set: answers arrive in any order). `Reconnect`, `Join`, `SignIn`,
`Receive` and `OnError` are the pages' callbacks, each one action because a page
runs one callback at a time. A connection replaced without being closed stays
listened to, as in a browser.

### `StudyEnroll` and the code

`enroll` is one transaction, of SQLite's default kind, and every write of the
process is made under the write lock, so `Enroll` is one action that either does all
of it or, for any failure, nothing. `Study` is a definition of `StudyProtocol`'s kind,
and rows, sets and the rotation are that module's operators; a set is named by the
order of its tasks (`set_id`). A code is a pair of its number and its letter.

A panel's list of sets is two readings without a lock (`task_set_status`): the
completed counts (`CountCompleted`, kept in `counted`), then the running sessions
(`ShowSets`); a reading that fails gives an empty answer. What the panel takes from
the list it was shown (`offered`) is a later action still. `misled` is history: a list
was shown that was not what the database held at any one time, since a reading failed
or a session was completed between the two.

### `StudyArchive` and the code

`StudySession` has the handlers; here a handler is the store call it ends in. `hand`
holds the call that has the write lock: `RecordEvent`, `RecordRender` and `EndSession`
insert (or fail to), `AppendLine` appends (or fails to), `SetStatus` is an end's
UPDATE, `Crash` kills the process between two of them. A line carries the number its
row was given, or none. `build_archive` is the other process: `Snapshot` (SQLite's
backup), `WriteTables` (the two long files), `CountLines` (what `run_checks` reads of
the logs), `ArchiveLog` and `HashLog` for each log. `Problem` is `run_checks`, one
operator per finding. `wrong` and `calls` are history: what failed, and how many
calls there were.

### `StudyProtocol`, `StudyDefinitions`, `StudyRegistry` and the code

Functions without state are operators with the source's names. A step keeps what
decides anything: its id, the kinds of its script's blocks and whether one has a
placeholder, its model and printed object, its task slot. `MCStudyEnroll` compares
them with reference definitions (every task in every position equally often, every
neighbour equally often, a session that loads what was promised) as assumptions,
which TLC evaluates when it starts: designs of up to six tasks, both definitions of
the repository at every place of the rotation and one beyond each end, and four
server configurations.

### `TutorialRunner` and the code

A page runs one task at a time, so an answer of the server, a device that connects or a
button of the tutorial is one action. Work that the viewer reports is a task of any
length: it begins with `Act`, each `report()` the viewer makes meanwhile is a
`Reported`, and `ActEnds` is its end; `task` holds what had been passed when it began,
and nothing else happens while it lasts. `tutorial.js`'s functions call each other, so
they are operators from a runner to the next (`PassStep`, `EnterStep`, `EnterLesson`,
`LeaveStep`...), with the code's names. What a check compares is left to the person,
who does or does not do what it asks (`fit`). `serial` stands for `stepSerial`: it is
set when the task has left the step it began in. A test pattern's request is `out`, or
`late` once `seq` has moved on. What a button asks for while the lessons
load (`wanted`: the list, or the shortcuts dialog's Resume and Start over) is done when
they are there, on whatever is open by then; one thing is wanted at a time. A page that
loads goes through `boot`: whether it resumes, starts afresh or does nothing is decided
when consent settles, from the record and `?tutorial=` (`Settle`, `Scheduled`), and done
later (`Start`). The lessons, the answers a step can be given and the devices a browser
supports are the constants `Table`, `Offered` and `Browser`.

### `SliceGraph` and the code

Renderers are numbered in the order they are built, so one that has fallen out of the
table, or whose model was deleted, lives on in its threads. A precompute is `LoadCache`
(the caller reads the file) or `ComputeView` for each view, then `CheckSave` (the
signature as it is now, and `_discarded`) and `Save` (`os.replace`). `Woken` is
`_precompute_done.set()`. `BeginRender`, `Draw` and `Answer` are a `/render`: under
the lock, the picture, and what is said of it after the lock. `CheckStatus` is the
page's timer with its `/render/status`. Building and starting are one step of a
render, and so are deletion and `_forget_renderer`; a restart finds the files as a
rebuilt renderer does.

- `LoadRaises` is what `load_precompute_cache` does not catch, and a worker that
  cannot be started: nothing resets what `start_background_slice_precompute` had
  claimed, so the renderer is `"stuck"`: in progress, with nobody at it.
- `RequestFails`, `CheckLost` and `PollFails` are a `/render`, a status check and the
  health polls that do not get through. A failed request is sent once more, a failed
  check is the last one, and nothing is sent while the page takes the server to be down
  (`online`). `NotAvailable` is the 404 of a model that has gone.
- `excuse` is history: why nobody is waiting for the graph a page shows. It is the
  failure that left the page so (`"failed"`, `"held back"`, `"lost"`, `"not available"`),
  or `"not told"`: the answer did not say that its picture was flat.
- The slice graph's plane is locked, which is when a page asks for it to be kept ready.

### `ModelStore` and the code

A request is a thread with a `job`; each commit, lock or file operation of a route
is an action, in the route's order: `Claim`, `Save`, `Register`, `Relist`,
`Publish`, `RegisterTab` for an upload; `FindOwned` or `PopTab`, then `Unlink`,
`Forget`, `Untab`, `DropRenderers`, `ClearCaches` for a removal; `LookUp`,
`Recheck`, `Build`, `Store` for a render that misses the cache (a hit changes
nothing).

- `by` is who sent upload 1, 2, ...; a file, a mesh and a picture are the number of
  the upload they come from, so a stale one is told from a fresh one.
- Everybody asks for the same file name, the only case in which uploads meet. Name
  0 is that name, name k the one upload k gets when it is taken (`uuid4` makes it
  unique).
- `rows` are the live rows of `uploaded_models`, `tabs` is
  `uploaded_models_by_session`, `listed` is `AVAILABLE_MODELS` without the
  built-ins, `cached` is both answer caches by name.
- `marred` is a history variable: the names where a removal that had come to the
  file overlapped another request about the same name, or where a cleanup failed
  half-way. The invariants are stated for the other names. They do not hold of the
  marred ones: section 6 says what happens there.
- `Faults`: `"save"`, `"db"` and `"unlink"` make that call raise, `"crash"` kills
  the process, which then runs `_reconcile_uploads` (`Restart`).

Left out: demo requests (they keep no rows), the operator's own file removals, the
precompute files, addressing a model by its position. The renderer cache drops any
of the others when full, not the oldest. A half-written file either fails to load
or counts as the file it becomes. Ingesters only upload.

### `ViewerRender` and the code

A page is one record: what `viewer.js` keeps between two callbacks. A callback is
one action: a key or control (`Pan`, `Turn`, `ResetView`, `ChooseModel`, and
`LoadModel` for a study page), the answer with the `finally` that follows it in the
same turn (`Deliver`), the failure with its `finally` (`Fail`), a poll (`Poll`, and
`PollList` where it brings another list of models), an event. `Sent` is
`sendStateToServer`, `Settled` its `finally`, `Synced` is
`syncCameraCenterFromResponse`, `Listed` is `updateModelList`. The server's side of a
request is `Serve` and `PadFrame`.

A request may name a model that has gone (an upload somebody deleted, a link, an old
list). It is then answered with a 404, and `Delivered` takes the branch of
`handleModelNotAvailable` (`Refused`): the state counts as delivered, the page goes back
to the model it shows (`BackTo`) and to nothing else.

- A centre is a number of pan steps from the middle, on one axis; `None` is "not
  sent". A view is a view with its orientation, the key the page remembers
  centres under. Zoom, depth and mode are parameters that the keys carry and the
  page sends as they are; they are left out.
- `owed` is `renderDeliveredSerial < renderStateSerial`.
- `pans` and `aside` are history: how often a pan was pressed; and `"skipped"` if a
  change was made while rendering was paused and not sent since, `"refused"` if the
  last request was answered with a 404.
- The first of the list is taken to be the default model. In a demo, or after an ingest
  of a model whose name comes earlier, it need not be.
- The high-fidelity preview is left out (it asks for another size, never seeded).

## 3. Runs

Every run finishes within two or three minutes with two workers.

| Run | Asks | Instance, and why it is enough |
|---|---|---|
| `session` | Is the log numbered and replayable, are renders filed right, does a session end once, does a press move it once? | two threads, every route, three steps (first, a model step in the middle, last), up to four rows: every pair of routes interleaves at every commit |
| `session_faults` | Is an outcome final and the lock let go when writes raise and the process dies, and is a session what `StudyLifecycle` promises? | two threads, two steps, three rows, start, advance, end and sweep |
| `stream` | Does each page see only its session and role, and do queues end in the present state? | a participant's page and another session's panel, two versions each, two connection slots |
| `stream_lost` | Is a page ever left without a connection or a plan to make one, and does reconnecting heal it? | one page joining by code, two slots (so a leaked connection is there too), one loss of any kind, and a restart |
| `drift` | violated: `NoDrift` | one page, no losses |
| `archive` | Does the log keep every call in order, do an archive's files agree, do its checks find what went wrong? | one session (nothing of the store or the checks relates two), four calls, up to two kinds of failure out of all six, the archive's stages interleaved with every write; 6.1 million states |
| `enroll` | Are codes unique, rotations and rounds even, is no participant without a session; do the definitions hold together? | one panel, whose readings may fail or be out of step, three rows of the comparison study, four sessions (so a second round starts), a code typed by hand that a generated one collides with; the three rows balance each other (`InstanceIsBalanced`) |
| `tutorial` | Does one action pass one step, do Exit, a reload and Resume lead back while the tutorial is not completed, do the pins belong to the test only in its step? | the list, the shortcuts dialog, every value of `?tutorial=`, Exit and reloads; a lesson with a stored answer, the test pattern (needs the display), an extra with a device step, a worked example for those who gave one answer and a two-part check; any number of events in one task; 1.1 million states |
| `slices` | Are slice graphs of their mesh, does only a failure leave a flat one alone, does the warm-up wait only for a renderer at work? | two models and room for one renderer, three renderers built, two views, one page, one press, two edits (delete and upload again), one failure of any kind; 3.5 million states. A request that fails together with its retry takes two failures: the proof has any number |
| `models` | Do uploads, removals, renders and restarts keep files, rows, tabs, list, renderers and answers in agreement? | two threads, a browser with a session, one without, an ingester, two uploads of a name, every fault, any number of restarts |
| `ingest_rows` | violated: `RowLeavesWithItsFile` | one upload of a workshop participant and a restart |
| `viewer` | Does a page show its state, is a pan done once, are answers of their keys, is what the display has not got asked for? | one page with a DotPad, with and without the model list, two models of which one comes and goes (so a link, a list and a request can name one that has gone), two views, two presses on top of the first render (so one in flight, one put off and one more), an outage, one change of the models or eviction; 3.3 million states |

Bounds: `MaxRows`, `MaxVersion`, `MaxLosses`, `MaxSessions`, `MaxUploads`,
`MaxPresses`, `MaxOutages`, `MaxDrops`, `MaxCalls`, `MaxFaults`, `MaxBuilt`,
`MaxEdits` and `MaxFailures` stop counters that the code leaves unbounded; each is a
guard of the action that counts. `RetryLimit`, `PollFailures` and `Attempts` are limits
of the code's own; `Attempts` is 2 in the run, and `Numbers` and `Letters` are the codes
there can be. Deadlock is checked for `tutorial`, where the person must always have
something to do; the other bounded systems come to rest.

Conditions inside the properties (`NoFaults`, one worker, one panel, `misled`, `aside`,
`marred`, `moved`, `excuse`, a stuck precompute, a tutorial not yet completed) name the
cases the code does not promise them for, or does not keep them in. The comment of each
property says so, the steps that lead there are in the models, and section 6 says what
happens.

Abstractions of the runs: a subscriber of a dropped connection is forgotten at
once; sessions stay active in `StudyStream`; codes that name nothing are not
typed; a page has one join request outstanding.

## 4. Fairness

- `StudySession`: weak fairness of each thread's own steps (`Work`). A Flask
  thread that has begun runs to its end. Nobody has to press anything.
- `StudyStream`: weak fairness of each worker, connection and page, and of the
  answer to a page's request: the server's threads run, and a browser delivers
  what the network does not lose.
- `ViewerRender` and `SliceGraph` state progress as invariants instead: what the
  display has not got has a request in flight for it (`OwedIsOnItsWay`), and the warm-up
  waits only for a renderer somebody is at work on (`WarmUpIsWoken`). Nothing is said of
  when a request or a thread comes to its end.
- `ModelStore`, `StudyEnroll`, `StudyArchive` and `TutorialRunner` have safety and
  action properties only: their hazards are about what must not happen.

## 5. Proofs

Every safety invariant and action property of section 3's passing runs is also a
theorem, for every value of the constants, and so is the refinement. Each proof module
has the same plan: what each operator or helper does to the types, an inductive
invariant, one lemma per action or group of actions, and short theorems at the end.
The assumptions are those the modules state on their
constants; TLC evaluates them in every run of the module.

**`StudySession_proofs`** (any sessions, threads, steps; any faults).
`TypeInv == TypeOK /\ SeqIsPosition`: neither half goes through alone, since
`_next_seq` takes the maximum over two tables, and that this is the length of the log
(`NextSeqCounts`) needs the log to be numbered already, while the numbers only have a
type because they are positions.

- `TypeCorrect`, `SequenceNumbers`, and `OutcomeIsFinal` (only `Enroll` and `SetEnded`
  write a status, and both look at it in the step that writes it).
- `PressesMoveOnce` and `SessionsLiveTheirLife`, from `HandlerInv`: who holds the lock
  (`LockInv`), what each handler knows of its session at each label (`PhaseInv`: between
  `AcceptPress` and `SetStep` the row is what it read, between `FindActive` and
  `SetEnded` the session is active, and who is about to complete one has seen it on its
  last step) and that a session on its last step has stood there (`LifeInv`).
  `SessionsLiveTheirLife` has the hypothesis `NoStaleReads`, that no read under the lock
  fails: with one, a handler goes by a row it read before it held the lock, and the
  refinement does not hold. The run `session_faults` has the same faults.
- `AdvancesAreChained`, `RendersFiledInOrder`, `OneSessionEnd`, `EndIsLogged`, from
  `RecordInv`: while nothing fails, the moves in the log lead to the step the session is
  on or is being moved to, renders carry the step of the last move, and an end is the
  last of its kind and of the outcome the status has or will have.

**`StudyStream_proofs`** (any pages, sessions, connections, workers, losses).

- `TypeCorrect`; `NothingOfAnothers` and `AlwaysHears`, from `ScopeInv`: whatever a
  worker carries, a queue holds or a page has applied is of the session and role that
  the connection was opened for, a page's requests are for its own, a page's handle is
  on a connection of its own that it listens to, and a participant's page without one has
  a timer running.
- `CorrectedByTheNext`, from `LatestInv`: with one worker at a time, the last message of
  a subscribed queue is the session's present version unless the worker has still to
  put it there (`Pending`), and a queue never has more messages than versions.

**`StudyEnroll_proofs`** (any study definition, codes typed by hand, panels).

- `TypeCorrect`, `NobodyIsLeftOver`, `CodesAreFree`: `EnrollInv` says who has which
  code, that a participant has a session, that rotated sessions have the row their
  place gives them, and that a person runs once at a time. That a free letter is always
  left is a pigeonhole argument: fewer codes are typed by hand than there are letters.
- `TheRotationIsEven`: the sessions of two rows correspond by shifting the session
  number by the difference of the rows.
- `SetsUsedEvenly`, both ways of handing out sets. Its invariant (`RoundInv`) is about
  one panel that was not misled: two sets' completed counts differ by one at most, and a
  set that is running or on offer is among the least run and runs once. That every task is
  then served equally in every place follows by a bijection between sets and between the
  sessions of each. It has the hypothesis `BalancedDesign`: no two sets are equal, and over all of them every task is
  in every place equally often. Without it the rounds are even and the tasks are not.
  TLC evaluates it for the run's study (`InstanceIsBalanced`) and, with the neighbours,
  for the comparison study (`ComparisonIsBalanced`). It says nothing of a panel that was
  shown a reading that failed or one overtaken by a completion (section 6).

**`StudyArchive_proofs`** (any sessions, calls, faults).

- `TypeCorrect`; `TheLogIsInOrder`, from `LogInv`: a log's lines are of calls that were
  made, in their order, and none is missing unless a line was refused.
- `TheArchiveIsWhole`, from `ExportInv`: what the snapshot says of a session that had
  ended was in its log already (`CopyInv`), because the row, the line and the status of an end
  are written in that order; so it is in the log archived after it, and what was
  archived is what is hashed unless the session moved (`LogsInv`).
- `ChecksAreRight`, from `CountInv` (how many rows and lines a session has, by what
  befell it), `StoryInv` (where its ends are) and `StillInv` (a session that has not
  moved since the snapshot is as it was copied).

**`ModelStore_proofs`** (any clients, sessions, threads, uploads, faults).

- `TypeCorrect`, `NothingIsWrittenOver`, `FilesAreTheirSenders`, `NothingStaleIsKept`,
  `NoFileIsLost`. The invariant is `TypeInv` and `StoreInv`: a listed file of the
  directory everybody sees is there, and `NameInv` of each name that is not marred. That
  says, request by request, what has the name at each point of an upload or a removal:
  one file, one tab, its sender's row, what a removal has taken away so far, whose
  renderer and answer are kept, and who answers for a file that is there.
  A step changes things about one name; a frame lemma carries `NameInv` for the others.

**`ViewerRender_proofs`** (any pages, models, views, bounds).

- `ResponsesAreOfTheirKeys`, from `CacheInv`. `StaysPut` is the heart of it: a cacheable
  request makes no pan step. The same does not hold of the payload cache (section 6).
- `TypeCorrect`, `EveryPanOnce`, `WhatIsShown`, from `PagesInv`: a page's request, put-off
  change, retry and pending pan fit each other, its `lastShownModel` is the model of its
  frame (`Sound`), and what a page shows or waits for is what its state describes, unless
  a change was skipped; after a refusal only the model is (`Shows`). A frame and a refusal
  are the two cases of an answer (`DrawnSound`, `RefusedSound`).
- `NothingOwedIsForgotten`, from `WayInv`: `sendStateToServer` asks, puts off behind a
  request in flight or sets aside (`SentAsks`), and its `finally` leaves something owed
  only when no retry is left (`SettledAsks`).

**`SliceGraph_proofs`** (any models, pages, views, size of the renderer table).

- `SliceGraphsAreOfTheirMesh`, from `MeshInv`: a renderer that writes its cache file has
  every view, so what it writes is complete and has a version; and what a cache file
  holds is of the version in the file's name, so that reading it back cannot bring in
  another mesh whatever its signature says. A view is only known to be left to compute
  because the views are finite and listed (`NextView`).
- `FlatGraphsAreWatched`, from `WatchInv`: a page that shows a flat graph and has no
  excuse has a request out, a timer, or no checks left. Any number of requests, checks
  and polls may fail; each failure that leaves a page with neither gives it its excuse.
- `NobodyWaitsForNothing`, from `WarmInv`: a renderer the warm-up has claimed is one that
  was built, and whatever ends its computation, reads its cache file or fails it is what
  wakes the warm-up (`ThreadsWake`). What is left is the error that resets nothing.

**`TutorialRunner_proofs`** (any table of lessons, answers and browser).

- `TypeCorrect`, `ProgressIsKept`, `PatternStays`, `OnePassAtATime`, from `RunnerInv`: an
  open step is one of its lesson's, blocked only for want of a device, nothing of a step
  outlives it, nothing is open before the page has settled what it opens with (`Early`),
  the record is the page's; and within a task either nothing has been passed
  yet, or one step has and `serial` says so, which is what makes the events after it do
  nothing. `ProgressIsKept` goes through the page's own way back: after Exit, and on a page
  loaded with the record, there is a Resume button, and what it does (`Resumed`), like what
  the page does by itself (`Scheduled`, `StartedAtLoad`), comes back to the lesson and the
  step. It ends where the tutorial is completed, since the code resumes nothing then.
  The table is assumed to be a table whose lessons can be run (`CanBeRun`:
  the first lesson needs nothing, every lesson has an unconditional step that needs no
  more than the lesson does, and what a conditional step asks about is stored earlier);
  TLC evaluates it for the run's table and for the fifteen lessons (`LessonsCanBeRun`).

Only model-checked: liveness (`LockReleased`, `ReconnectHeals`), which rests on fairness, and what `MCStudyEnroll` evaluates of the
designs and definitions, whose operators are data rather than behaviour. The two
violated properties are not theorems.

## 6. What the code does not keep

Found by a run:

- **`drift`**: the stream route reads the session's row before it subscribes. A
  change in between reaches the page neither way.
- **`ingest_rows`**: the start marks the rows of ingested models deleted, since it
  looks for their files in the upload directory only.

Seen while modelling, in the models but with no run of their own. Where a property
has an exception for it, TLC finds it as soon as the exception is taken out:

Enrolment
- The set picker counts the completed sessions (`engine.py:876`) and then reads the
  running ones (`engine.py:879`), without a lock. A session completed in between is in
  neither, so its set is listed as free and one panel runs it again: the rounds come out
  uneven. A reading that fails gives an empty list, with the same effect
  (`store.py:960-962`, `1079-1081`). (`misled`)

Sessions
- `study_session_end` decides "completed" from a row read before the lock; a Previous
  in between leaves a completed session on an earlier step (`engine.py:1052-1069`,
  against the comment at 1066-1068).
- A ready signal stored after the move that cleared the signals (`engine.py:1347`).
- A panel that reloads and cannot reach the server once unbinds itself from its
  session (`study-control.js:1041-1050`); a join or sign-in with a reconnect timer
  pending leaves two connections open (`study.js:531`).
- An event row can follow `session_end` (`engine.py:390`), and the sweep can close a
  session that has just come back to life (`store.py:1028`).

Records and exports
- Of a session that is running while an archive is made, the checks report
  `log_mismatch` though nothing is wrong: rows are counted in the copy, lines in the
  live file. The check compares counts, so a lost row and a lost line cancel out.
- A session that cannot be read under the lock loses both records of a call
  (`store.py:1260-1263`), the log's included.
- A log's checksum in the manifest is of a second reading (`export.py:903-910`), so of a
  log appended to in between it is not the checksum of the file in the archive.
- `_migrate`'s ALTER is committed before the UPDATE that fills the column
  (`store.py:275-283`): a start killed between the two never fills it.

Protocol
- `validate` accepts a step for a slot only the longest row fills, and a start request
  may name a shorter list; such a step loads nothing.
- `_missing_models` reports nothing when the server lists no models at all.
- The docstring of `balanced_latin_square` ("exactly once") holds for even numbers of
  tasks; for odd ones every neighbour comes twice, and one task gives two equal rows.

Viewer, uploads and slice graphs
- A pan's picture is kept in the payload cache under the key of the view before the
  pan (`server.py:1435`, against the comment at 1918-1922).
- A reset pressed while a request is in flight is undone by that request's answer
  (`viewer.js:293`, against the comment at 4664); a model chosen then starts at the
  old model's centre.
- A flat stand-in for a slice graph can be seeded into the payload cache after the real
  one: the pins stay flat while the screen shows the graph.
- Whether a graph was flat is read after the render lock (`server.py:1503-1511`): with
  another page rendering a ready view of the model, a page is not told that its own
  was flat, and does not ask again (`excuse`), against the comment at `viewer.js:570`.
- A page in front of a flat graph takes the mark of its timer off and then sends one
  request. While the server is believed down nothing is sent (`viewer.js:318`), and a
  request that fails with its retry (`599-613`) is the last: no check is scheduled again,
  though the comment at `1868` has it keep checking (`excuse`).
- `load_precompute_cache` catches four classes of errors (`cad_comparison_lib.py:803-824`).
  A damaged file can raise others (`EOFError`, `zlib.error`), and so can
  `worker.start()`; nothing resets what `start_background_slice_precompute` claimed
  (`726-746`), so the precompute stays in progress with its event cleared. When a page's
  request came first, the warm-up then waits for ever (`server.py:833`), against the
  comment at `server.py:846` (stage `"stuck"`).
- A model that the server refuses counts as delivered (`viewer.js:449-453`), and
  `handleModelNotAvailable` (3130-3139) puts only `currentModel` back: the centres and the
  orientation were forgotten when it was chosen (3149-3160), so until the next request
  the page's view is not that of the frame (`aside`).
- A deletion between the `_discarded` check and `os.replace`, or of a model whose
  renderer has fallen out of the table, leaves its cache file behind; nothing reads it.
  The status of a model that is not in the table is "not ready" for ever, so a page
  waiting for it gives up.
- A removal that overlaps another request about the same name: a render in flight
  stores the old picture after the caches were cleared, or resolves to the default
  model (`server.py:731-736`); a cleanup between its unlink and its rows deletes the
  row of a new upload of that name.
- A warm-up may build from a file that is still being written.
- A DELETE of an ingested model answers "success" and takes away the row, not the file.
- A DotPad frame is dropped while the previous one is on its way, and nothing sends it
  later (`dotpad-integration.js:549`).
- A change made while the server is known to be away is not sent when it is back
  (`viewer.js:318`), unless the reader presses something else.

Tutorial
- Once the status is completed, `exitTutorial` and `saveProgress` keep it so
  (`tutorial.js:2473`, `1420-1427`) and every way to resume is hidden or starts afresh
  (`1213`, `2345`, `2365`): Exit in an extra, or in a lesson that is redone, loses the
  place, against the head of the file (`tutorial.js:6-8`).
- With the display gone between two test patterns, `holdDisplay` stays set while no
  pattern is up (`tutorial.js:1959-1963`), until the step is left: renders do not reach
  a display that is connected again meanwhile.
- A lesson that is led past because there is no display is marked skipped even if it
  was done before (`enterLesson`), unlike Skip lesson; and so does the merge of two
  tabs' records (`tutorial.js:420`), with the later writer's word.
- Two requests for the lessons, for two displays, can be answered out of order, and the
  older words stay (`ensurePayload`).

## 7. Not modelled, and why

- Recording (`recording.py`): each call is one insert that nothing reads back; the
  ownership rows it keeps are in `ModelStore`.
- Schema migration: a start-up upgrade of old databases, run once (section 6 says what
  reading it showed).
- The rest of an archive: `sessions.csv`, the codebooks, and the checks of orientation
  and of models shown, which are queries over columns the model has no need of.
- The panel's scrypt check and its throttle.
- The tutorial's words, starting views, key help and the handle's place on the pins;
  two tabs of the viewer.
- Connecting a device, the Monarch, the IMU and the slider: browser APIs whose
  behaviour the repository does not fix. What a device does to the tutorial and to a
  frame is in `TutorialRunner` and `ViewerRender`.
- The rest of the viewer: the preview, the dialogs, the cursor modes, speech.
- Rendering mathematics: numeric geometry, outside what TLC can check.
- Build files, converter scripts, API documents: no behaviour.

## 8. Plan

Models: `ViewerRender` with the preview and the dialogs, then composed with
`ModelStore`; two pages in `SliceGraph` once the flag is read under the lock; the
devices' own modules. Proofs: each new module's invariants beside it; the properties of
section 3 that are not about fairness are all proved.

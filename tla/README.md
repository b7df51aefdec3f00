# Ballpoint in TLA+

Ballpoint watches the records (Slack threads, GitHub issues, Salesforce cases, ...)
that the owner's Todoist tasks link to. A timer-driven **probe** finds out which
of them moved since the last work-log comment of their task; a terminal **walk**
goes over the tasks one at a time, runs macros on them and queues outward drafts;
a timer-driven **dispatcher** takes the queued drafts, asks a model for an
assessment of each task and records drafts and assessment in the work log. The
three are separate processes, started at any time, that meet only in files and in
the external services.

These modules model the parts of that program whose correctness depends on the
order of things: processes beside each other, calls that fail, processes that
die, worlds that move while they are read. Line numbers refer to the source tree.

    Todoist, Slack, GitHub, ...          the work log (comments on Todoist tasks)
        |  read       ^ calls                   ^ td_draft.sh, td_worklog.sh
    [TodoistFetch] -> [ProbeRun / Probers]      |
        |  cache/, watermarks.json,        [Dispatcher] <- Load / Remove -+
        |  report.json                          | status/<task>.json      |
        v                                       v                         |
     [Walk / Filter] <--------------------------+                         |
        | session.json;  Append                                           |
        +--------------------------> [DispatchQueue] queue/pending.jsonl -+

    [Pipeline]: all of it, around one cache

## 1. Inventory

| Component (source) | State | Operations | Meets | Hard behaviour | What makes it correct |
|---|---|---|---|---|---|
| Dispatch queue (`internal/queue`, `internal/fsutil/atomic.go`) | `queue/pending.jsonl`, the flock on `queue/.lock` | Append, Load, Remove | walk appends; dispatcher loads without the lock, its jobs remove | torn writes, death in the critical section, rewrites beside appends, a lock-free reader | no acknowledged entry is lost, no drained one comes back, every call returns; the file behaves as one atomic list |
| Dispatcher (`internal/dispatch`, `internal/cli/dispatch.go`) | job pool, cancellation, per-task status files | run, spawn, assess, draft loop, work log, drain, report | queue, cache, `claude`, scripts, work log, walk (status) | a usage limit cancels peers at any step; failure between comment and drain; repeated runs | drained only if delivered; repeats only after a failed writeback; the tally tells the truth; a good assessment is not lost |
| Todoist source (`internal/sources/todoist`) | pages, cursor, retries, result of a fetch | list pages, list comments per task, retry a 429 | rate-limited HTTP server | lists that change between pages, endless cursors, jobs that cancel each other, deadline against tolerance | a list is whole or an error; a result lacks comments only where a call failed in time; it ends |
| Probe engine and command (`internal/probe`, `internal/cli/probe.go`, `internal/store`) | cache, watermarks, report | fetch, cache, prune, probe, reconcile, save | Todoist source, probers, walk | everything is read at its own moment; two probes at once; a death between two saves | no false verdict, no watermark ahead of the world, nothing missing from the report, news reported in the end |
| Slack prober (`internal/probe/slack`) | history index, watermark map | history short cut, confirmation by replies | engine, Slack API | truncated times, threads that scroll out of the window, broadcast replies | the short cut answers only what it knows |
| Slack credentials and prober registration (`probe/slackauth`, `probe/probeset`, `cli/probe.go`) | workspaces by host, registered probers, for one run | load, look up a host, register | Slack prober, engine | maps without an order, hosts claimed twice, one workspace for all hosts | a link is read with its own workspace's credentials, or not at all |
| Other probers (GitHub, Salesforce, Aha, Gmail, Drive) | none | group, cap, ask, match back; one answer per link, or unchecked | engine, external APIs and CLIs | ids in two forms, objects that share a query, caps, failed calls | each answer is its own record's; each failure stays with its own links |
| Link extraction (`internal/links`) | none | title and comments to links | engine | - | the same record has one key |
| Walk (`internal/tui`, `internal/cli/walk.go`) | mode, cursor, cards, prompt text, counter of drafts, `session.json` | launch, refresh, pick, keys, macro, append, save, resume | cache, report, status, queue, scripts | one keyboard for several modes; caches that change between reads; saves and appends that fail | nothing unasked runs; ids stay unique; a walk resumes where it was left |
| Filter expressions (`internal/tui/filter.go`) | none | tokenize, parse, match, fall back | walk, command line | precedence, quoting, nesting, broken expressions | an expression means what the grammar says, or is matched as text |
| Cards, view, prompt text, sanitizing, priority labels | none | rendering, text | walk, dispatcher | none of order | - |
| Command line, systemd units | configuration read once | - | all | - | - |

`PROJECT.json` has one row for each of these with its status, and under
`hazards` the places in the code where an ordering, a failure or a boundary is
likely to bite, with the properties that watch it.

## 2. Modules

| Module | What it is | Composes |
|---|---|---|
| `QueueSpec` | abstract queue: appends and removals happen at once; a wedged queue stays wedged | `QueueFile` |
| `QueueFile` | the operator the queue modules and the dispatcher's drain use: a file with some of its entries, rewritten | - |
| `DispatchQueue` | the queue on disk, system call by system call | `QueueFile`, `QueueSpec` |
| `DispatchQueueProofs` | type correctness and the safety of the queue for any sets of entries and processes; the queue on disk implements `QueueSpec`, keeps its order and stays wedged | `DispatchQueue` |
| `Delivery` | abstract dispatcher: what is promised of queued drafts, comments and the drain, one task at a time | - |
| `DispatcherOutline` | abstract dispatcher: the steps of it that the probe and the walks can notice | - |
| `Dispatcher` | dispatch runs with their pool, status files and work log; the queue is used as `QueueSpec` allows; implements `Delivery` and `DispatcherOutline` | `QueueFile`, `Delivery` |
| `DispatcherProofs` | types and pool, delivery before the drain, and the tally, for any tasks, drafts, runs and pool | `Dispatcher` |
| `DispatcherLogProofs` | the order of the work log, repeated drafts, killed jobs, and the summary in the status file; the dispatcher implements `Delivery` and `DispatcherOutline`, and uses the queue as `QueueSpec` allows | `DispatcherProofs`, `DispatcherOutline`, `QueueSpec` |
| `TodoistFetch` | Todoist's `Probe` and its HTTP client against a server whose lists change | - |
| `TodoistFetchProofs` | a fetched list is whole and a successful probe complete, for any page size, bounds and server | `TodoistFetch` |
| `ProbeRun` | `ballpoint probe`: engine, command, store and Slack prober; the fetch is used through its outcome | - |
| `ProbeRunProofs` | watermarks are sound, reports complete and verdicts true of the world the run set out from, for any probes, tasks and records | `ProbeRun` |
| `Probers` | inside one engine run: credentials, grouping, caps and calls of every prober, and which link gets which answer | - |
| `Walk` | launch, modes, macros, queueing and session of the walk | - |
| `WalkProofs` | what is run, line ids, refreshes and resuming, for any tasks and scopes | `Walk` |
| `Filter` | filter expressions: tokenizer, parser and fallback, and the meaning the grammar gives them | - |
| `Pipeline` | probe, drafts and dispatcher around one cache, under their timers | `ProbeRun`, `DispatcherOutline` |
| `ProbersProofs` | whose activity an answer is, why a link has none, and what two runs agree on, for any links, credentials, caps and failures | `Probers` |
| `PipelineProofs` | the promises of the probe beside a dispatcher, and the cache it keeps for it | `Pipeline`, `ProbeRunProofs` |
| `MC*` | instances for TLC, one per specification; each `.cfg` is one run | |

Layering. `DispatchQueue` refines `QueueSpec` (`QueueIsAtomic`), and `Dispatcher` uses the
queue in that form: what it and the walks beside it do to the queue are steps of `QueueSpec`
(`QueueIsUsedAtomically`), so it need not carry the system calls; neither need `Walk`, which
only appends. In turn `Dispatcher` refines `DispatcherOutline` (`OutlineIsKept`), whose
steps are the dispatcher of `Pipeline`, so that what `Pipeline` shows of probe and
dispatcher together is about the jobs, pool and failures of `Dispatcher`. Between the other
modules the contract is not proved but stated on both sides: `TodoistFetch` establishes what
`ProbeRun` assumes of a fetch: nothing is skipped that is there all the time, each task is
listed as it was at some moment of the fetch, and comments are missing only where a call
failed. `Probers` and `ProbeRun` split the engine: in `Probers` the records hold still and
the links are many and of every kind, in `ProbeRun` the links are few and everything moves.
`Pipeline` takes the steps of `ProbeRun` as they are and those of `DispatcherOutline`.
`MCWalk` uses `Filter` for the tasks its filter scope selects.

### 2.1 DispatchQueue (`queue.go`, `atomic.go`)

`file` is a sequence of lines; a line knows whose bytes it holds, whether it decodes and
whether it ends in a newline. `Append` is `AppendCall`, `Lock`, `AppendBytes`, `AppendEnd`,
`Unlock`, so the write can be cut anywhere; a line appended after a cut one is glued to it
and neither decodes. `Remove` is `RemoveCall`, `Lock`, then `RemoveUndecodable` or
`RemoveFilter`, `RemoveWriteTemp`, `RemoveRename`, `Unlock`. `DispatcherLoad` reads without
the lock. `Fail` fails the system call a process is in; `Kill` ends an operating system
process (a TUI, or the dispatcher with all its jobs) and gives its flock back. The
refinement maps the file to the list of its decodable entries; the line being written is
absent until its bytes decode. A file with a line that does not decode, and that no write in
progress will complete, is the broken queue. The dispatcher's snapshot is mapped as it is:
in `QueueSpec` a `Load` takes the whole queue or nothing, at one moment, so that a load of
half a line, or of a part of the file, is no step of it.

### 2.2 Dispatcher (`dispatch.go`, `assess.go`, `writeback.go`, `status.go`)

Every task of the snapshot is a job with its own `pc`. A run is `Start` (Load, group by task
in order of first appearance, clamp the concurrency the run was given to the `limit` of its
pool), `Spawn` per group while the pool has room, the job's steps, and `Wait`. A job takes
the steps of `runJob` in order, with each failure as an action of its own:
`JobCancelled`/`JobChecked`, `JobFailsEarly`/`JobRuns`, `Launch`, `Answer`,
`JudgeOk`/`JudgeError`, the draft loop, `WorklogPosted`/`WorklogFails`,
`Drain`/`DrainFails`, `Report`, `Exit`. Every terminal step also writes the status file,
which reads the previous one to carry its summary on and may itself fail (`Record`). `Die`
is process death, Ctrl-C included: no handler is installed. `QueueDraft` (a TUI) and
`ProbeCache` (a probe adding or pruning a task) run beside it. The shielded context of the
writeback is why drafts go on after a cancel.

`Delivery` is what all of this promises to whoever queued a draft, without pool, model,
cache, snapshot or status. A run may record a draft that is queued if it has recorded all
older ones of the task and not this one (`Draft`); an assessment if it has recorded at
least one and is then done with the task (`Assess`, `Open`); and with its assessment
recorded it may take from the queue what it has recorded, oldest first (`Drain`). Where it
gives up does not matter, a later run begins anew. `Promise` in `Dispatcher` is its instance
over the same queue and work log.

`DispatcherOutline` is the same run seen from the probe: a job takes the drafts of its task,
reads the cache, comments any number of times, comments for the last time and drains, or
fails on the way. A job that waits for its slot counts as one about to read the cache, one
that is reporting as ended.

### 2.3 TodoistFetch (`client.go`, `probe.go`, `wire.go`)

Three lists are fetched one after the other (`stage`), each by a `call` that walks
pages by cursor (`page`, `sent`, `backoff`); then a comment job per task does the same
in a group of bounded size. The server removes and adds items
between pages, limits (429 with a wait), fails, repeats a cursor or goes on for
ever. `always` and `ever` observe what the server had throughout, or at some moment
of, each fetch. Cancellation by the first fatal job, and the probe's deadline, may fall
between any two steps; the rate limiter may refuse shortly before the deadline
while the context is not done, which the code then tolerates as a failed fetch.

### 2.4 ProbeRun (`cli/probe.go`, `probe/engine.go`, `slack.go`, `store.go`)

`world` has the clock, the last activity of each record, Slack's history window (`parentIn`,
`bcasts`), the tasks and their comments. A run is a record that goes through `FetchTasks`,
`ListTask` and `FetchComments` for each task, `LoadWatermark`, `SaveTask`,
`PruneTasksExcept` (which hands over to the engine's grouping and cap), the probers' answers
(`ProbeOne`, `SlackHistory`, `ConfirmThread` and their failures), `SaveWatermarks` and
`SaveReport`. The list comes page by page, so `ListTask` reads each task, open or not and
with its `UpdatedAt`, at a moment of its own, and tasks may be created, edited and closed
between two of them. Times are ticks, `Second` of them to a second; Slack's are cut to
seconds by `parseSlackTS`, work-log times are not. `start` in a run is an observation only:
the world the run set out from, by which its report is judged.

### 2.5 Walk (`tui/model.go`, `tui/run.go`, `tui/session.go`, `cli/walk.go`)

A launch is `Start` (flags), `PickScope`/`PickCold`, `Refresh` (a whole probe, or
one that failed), `LoadTasks`, `NoneInScope` or `Open`, which reads report and
statuses and sorts moved tasks first. In the walk the modes `verb`, `prompt`,
`confirm` and `help` share the keyboard; `SubmitArg`, `RunInternal` and
`QueueOutward` are the effects a key may have. `Quit` saves the session and may
fail to; `CtrlC` and `Die` do not save. A scope is the set of tasks it selects.

### 2.6 Filter (`tui/filter.go`, `tui/scope.go`)

An expression is a sequence of runes. `Lex` is one turn of the tokenizer's loop, the
`Parse*` operators are the methods of `filterParser` with position and depth as arguments,
and a predicate is the set of cached tasks it accepts. `Selects` is the predicate of a
filter scope with its two fallbacks. The reference it is checked against shares none of
this: `Disjunction`, `Conjunction` and `Negation` look for every way to split an expression
at an operator outside quotes, so that a reading exists exactly if the grammar derives the
expression, and there must be at most one. It reads an empty pair of quotes as nothing,
which is what `filter.go:92-104` makes of it.

### 2.7 Probers (`engine.go`, the probers, `slackauth.go`, `probeset.go`)

A run is `Begin` (the credentials file and the Google token), a `LoadWorkspace` for each
workspace in any order, `StartEngine` (the probers that are built, and the links, of which
`Kept` has the one each key is met with first), one turn per system in any order, and `End`.
A turn is `Unprobed`, or an `Ask*` action, which groups the links as that prober does,
answers what needs no call and leaves the set of `calls`; each call is about a set of links,
becomes `Due` in its place, and ends in `Query`, `GetRecord`, `NoCredentials`, `History`
(which may leave calls of `Replies`), `HistoryGarbled` (the newest reply of some threads
does not parse), `CallFails` or, once the deadline has passed, `TimesOut`; `Return` hands
the results to the engine. Wherever Go walks a map the order is chosen freely. An answer
names the record it is of, so that a wrong one shows.

### 2.8 Pipeline

`ProbeRun` with the variables of `DispatcherOutline`: the drafts `queued` on cards and
`pending` in the queue, and per task the step of its `job` and the drafts it has `taken`.
`QueueDraft` is the walk, `Dispatch` a dispatcher's snapshot, `JobLoads` the look-up in the
cache the probe writes and prunes, `JobPosts` the comments, which the next probe reads as
work log, `JobDrains` the removal. `JobFails` and `DispatchEnds` are failures and deaths,
drawn from the same budget as the probe's.

## 3. Runs

| Run | Bounds | What it shows |
|---|---|---|
| `queue` | 3 entries, 2 TUIs, 2 jobs with a task each, 1 fault, no symmetry | `NoLostAppend`, `NoResurrection`, `RemovedMeansGone`, `NoDuplicates`, `WedgedForGood`, `OrderKept`, the refinement `AtomicQueue`, and `CallsReturn` with a death inside the critical section |
| `dispatch_pool` | 2 tasks, 3 drafts (one malformed), one run, with a pool of 2 and with one of 1, asked for as 0 | cancellation against running and waiting peers: `CutJobsRequeue`, `NoneLaunchedAfterCancel`; `DrainedWasDelivered`, `AssessmentComesLast`, `TallyMatchesQueue`; `RunEnds` |
| `dispatch_runs` | 1 task, 2 drafts, pool of 1, up to 3 runs | what carries over between runs: `RepeatOnlyAfterAbort`, `ShownWasLogged`, `AssessmentNeverWiped`; the refinement `DeliversAsPromised` of `Delivery` |
| `dispatch_huge` | as `dispatch_runs`, with commands that print more than 1 MiB | **violates** `AssessmentNeverWiped` (finding 1) |
| `probe_pair` | 2 probes, 1 task, a thread and an issue, 2 ticks a second, clock from 2 to 4, 2 events, or 1 beside a fault | probes beside each other, fractions of a second, a failure anywhere: `WatermarkSound`, `FreshIsTrue`, `MovedWasNews`, `ReportIsComplete` |
| `probe_broadcast` | a thread with broadcast replies whose parent scrolls out | **violates** `OldThreadsConfirmed` (finding 2) |
| `pipeline` | 1 probe and 1 dispatcher restarted by their timers, 1 task with a thread, 1 draft, clock to 2, 2 events, 1 fault | `OpenStaysCached`, `NewsGetsReported`, `ClosedLeavesCache`, `DraftsArrive` |
| `probers` | 27 links to six systems in two orders, 4 workspaces, caps of 8, 2 and 2, 2 runs, 1 failure each | `AnswersAreOwn`, `FailureStaysLocal`, `RunsAgree` |
| `probers_shared` | two workspaces with the same channel id and time stamp | **violates** `WorkspacesKeptApart` (finding 4) |
| `todoist` | 3 ids, pages of 1, at most 3 pages, 1 retry, group of 2, 1 change of the server | `ListWhole`, `ResultIsComplete`, `ProbeEnds` |
| `walk` | 2 tasks, a filter and a single-task scope, clock to 3; expressions up to 5 runes, of four runes up to 7, names up to 4 | `NothingUnasked`, `EntryIDsUnique`, `NoDeadEnd`, `ResumesWhereLeft`; `FiltersMeanWhatTheySay`, `QuotedNamesAreLiteral` |
| `walk_summary` | as `walk` | **violates** `AssessmentStays` (finding 3) |

Why the bounds suffice. The queue's hazards need one appender inside the critical section,
one waiting, and two jobs with different snapshots; three entries let an entry be torn, one
glued to it and one be drained at once. One fault (a failed call or a death) is enough for
each of them to be wrong, and the proofs cover every number of entries, processes and
faults. In the dispatcher a cancel needs two jobs; with a pool of one the second of them
waits for its slot while the first succeeds, fails, cancels or dies. A repeat needs three
runs (record, abort, repeat; and one to see what the third kept). For probes a false verdict
needs a reading before and after one event, and a second event to move the baseline; two
ticks a second make the truncation of Slack's times visible. A link that failed has a
watermark to lose only if the clock has moved past its last activity, which takes one event.
A page of one item over three ids gives an item before, at and behind the cursor. In the
walk two tasks make position and identity differ. The corpus of `probers` has, of every
distinction the code makes, both sides: both forms of one id, a known and a custom prefix, a
Case number and one nobody has, a thread nobody has, an unparsed link, two workspaces with
one channel id, a host that is claimed twice, a system without a prober, and one link more
than each cap. Expressions of five runes reach every pair of operators with operands on all
sides, those of seven runes over fewer letters pass the nesting bound, which is 5 there
instead of 64. Every run is checked for deadlock: something may always still be read,
started or closed.

Clock, event, fault, run and retry bounds (`MaxNow`, `MaxEvents`, `MaxFaults`, `MaxRuns`,
`MaxDisturbances`, `MaxSummaries`) are guards of the environment's actions only, so a bound
ends the disturbances, not the program. `probe_pair` takes its two probes as
interchangeable. An event moves the clock as far as it likes; `MaxDisturbances` leaves room
for one event beside a failure there, two beside a failure are left to the proofs. `walk`
follows a walk with an assessment through two launches or appends (`AssessedEarly`), one
without through three. `MaxLinks`, `MaxPages`,
`MaxRetries`, `PageSize`, `Concurrency` of the fetch, `MaxQueryGroups`, `MaxProbes` and
`MaxFilterDepth` are constants of the code made small.

### Fairness

- `queue`: weak fairness of each step inside a call (a process in a call keeps
  running), strong fairness of `Lock` (the kernel does not pass one blocked flock over
  for ever). Nothing forces a call to be made.
- `dispatch_pool`: weak fairness of the pool and of each job's next step, which says
  that external commands end. The code sets no timeout on them (`assess.go:192`), so
  this is an assumption about `claude` and the scripts, and a hazard of its own.
- `pipeline`: weak fairness of starting a probe and of starting a dispatcher (the systemd
  timers of `nix/hm-module.nix`; the dispatcher's is off unless it is enabled there, and
  without it a draft waits for a dispatch by hand), of a running probe's steps (every HTTP
  client has a timeout) and of each job's. Faults are finite, as in any property of the form
  "once the failures stop". Nothing forces a card to be drafted on.
- `todoist`: weak fairness of the client's steps: calls time out, waits are capped.

## 4. What is proved

`tlapm` checks the following for every value of the constants; each named theorem
is `Spec => []P`, or `Spec => P` for a property of steps, for the `P` the runs check.

**The queue** (`DispatchQueueProofs`): `TypeCorrect`, `AppendsSurvive` (`NoLostAppend`),
`RemovesStick` (`NoResurrection`), `RemovesComplete` (`RemovedMeansGone`),
`EntriesAreUnique` (`NoDuplicates`). None of them is inductive: that a rename loses nothing
depends on what was appended since the rewrite was computed. The inductive invariant is the
conjunction of `TypeOK`; `WellFormed(file)` (no entry in two lines, what decodes holds one
entry, only the last line unterminated); `LockInv` (a process past `lock` holds the flock,
so at most one is); `AppendInv` (an entry handed to `Append` and not yet written is in no
file, history, snapshot or argument, and no other TUI has it); `RemoveInv` (between
`RemoveFilter` and `RemoveRename` the buffer is the current file without the dropped
entries, because nobody else can write); and `HistoryInv` (whatever is in the file, the
history or the snapshot has been used, and so is not handed out again), with the two
properties. The lemmas state what `Rewrites`, `WriteBytes` and `EndLine` do to the set of
entries in a file. Assumed: appenders and jobs are different processes and the two "none"
values are not members.

From the same invariant it proves the three properties of the queue that compare a state
with the next: `QueueIsAtomic` (`AtomicQueue`, the refinement of `QueueSpec`, `Load` without
the lock included), `WedgeStays` (`WedgedForGood`) and `OrderIsKept` (`OrderKept`). The
mapping is restated as a function of the file and of one bit, whether a write is under way
(`Broken`, `Content`; `Mapping` shows that it is the one of `DispatchQueue`). Each operation
on a file is then a step of the atomic queue or a stutter: an entry appears with its first
bytes when they already decode, else with the last (`BeginSimulates`, `EndSimulates`); a
write that stops there breaks the queue or has left a whole line (`StopSimulates`); a
rewrite drops exactly its entries (`RewriteSimulates`). `StepFollows` shows that every step
is one of these operations, which needs the lock: a rename while a write is under way would
be neither. `SnapshotMaps` is the dispatcher's side: its snapshot changes only while the
queue stands still, and a load that succeeds has read a file all of whose lines decode,
which is all of the queue.

**The Todoist fetch** (`TodoistFetchProofs`): `ListIsWhole` (`ListWhole`): a list
that was not reported as an error has everything that was on the server throughout
the fetch, and nothing that never was. The inductive part is `FetchInv`: what the
server has lies between "always there" and "ever there" (`Bracketed`), and up to its
cursor a call has all that was always there (`UpToCursor`), whatever came and went
behind the cursor.
`PageIsDense`, `NoGap` and `PageExtends` are the facts about pages it rests on.
`SuccessIsComplete` (`ResultIsComplete`) and `BoundsHold` (type correctness, with page,
retry and pool within their caps) come from `RunInv`: the lists before the current one
are drained and no job is spawned before the last is (`ListsInOrder`), a job that the
end of a context took its comments from has failed the run (`AbortFails`), and only a
run without failure whose jobs have all ended is "ok" (`Grouped`).

**The dispatcher** (`DispatcherProofs`, `DispatcherLogProofs`), for any number of tasks,
drafts and runs, any `--concurrency`, zero and negative included, chosen anew by every run,
and a failure or a death at any step. A job of one task disturbs no other (`JobLocal`), and
every step of a job is of one of six kinds (`JobKinds`), so that the invariants need six
cases and not seventeen:

- `TypesAndPool` (`TypeOK`). The pool is bounded because a group is handed to it in the
  order of its number: `PoolInv` says that the tasks with a job are those whose number is
  not above `spawned`, and `GroupNumbers` that the numbers of the groups are all at most
  their count, so that `Spawn` never starts a job twice and `Wait` leaves none out.
- `NothingDrainedUndelivered` (`DrainedWasDelivered`): what is behind the draft loop is
  recorded or malformed (`LoopInv`), and a job that drains is at the end of its loop and
  has posted its assessment (`ToDrain`). `NextDraftIsNext` is why the loop skips nothing.
- `TallyIsTrue` (`TallyMatchesQueue`): while a run is on, an entry of its snapshot is in
  the queue exactly if its job is not `Through` (`TallyInv`), whatever a TUI appends.
- `AssessmentEndsTheLog` (`AssessmentComesLast`), by `LogInv`: a job that has no answer yet
  has posted nothing in this run, one in its draft loop no assessment.
- `RepeatsOnlyAfterAbort` (`RepeatOnlyAfterAbort`): every draft in the work log is of an
  aborted run, or has left the queue, or is behind the loop of a job that is not through
  (`Accounted`); what is ahead of a loop is in the queue and, as no entry is there twice
  (`NoTwins`), not behind it, so that only an aborted run can have recorded it.
- `KilledJobsRequeue` (`CutJobsRequeue`), `SummaryWasLogged` (`ShownWasLogged`).
- `NoLaunchAfterCancel` (`NoneLaunchedAfterCancel`), an action property: a job under a
  cancelled pool starts no claude (`JobLaunches`), also one that had passed its check.
- `SummaryNeverWiped` (`AssessmentNeverWiped`), an action property, under the assumption
  that no failing command prints more than a status file may hold (`HugeOutput = FALSE`);
  without it the theorem is false, which is finding 1.

- `DraftsAreDelivered` (`DeliversAsPromised`), the refinement of `Delivery`. It needs that
  what is before an entry in the queue was before it in the snapshot (`InOrder`), though
  drains of other tasks and appends have changed the queue since, so that what is older than
  a draft has been handled when the loop is at it (`BeforeIsHandled`); and that the job of
  an aborted task is on its way out (`AbortInv`), so that a run records no draft twice. A
  comment and a drain are each one step of `Delivery` (`PostIsPromised`, `DrainIsPromised`);
  all else leaves it alone.
- `QueueIsUsedAtomically`: every step is an append of `QueueSpec`, its load (the snapshot of
  a run is all of the queue), its removal, or leaves the queue alone.
- `OutlineIsKept`: the refinement of `DispatcherOutline`. `StageOf` maps the eleven places a
  job can be at to its four, and `JobGoes` is the one fact about a job that moves between
  them, which needs that a job of a run has drafts (`PoolInv`).

Assumed: there are finitely many tasks, an assessment is not a draft.

**The probe** (`ProbeRunProofs`), for any number of probes
beside each other, tasks, records, links, events and failures, any cap and any
resolution of the clock:

- `WatermarksAreSound` (`WatermarkSound`). A run saves what it read a while ago over
  what another run saved meanwhile, so the invariant `Watermarked` speaks of every
  value on its way there: the watermark a run loaded (`Behind`), its results
  (`ResultsBehind`) and the replies in Slack's window (`WorldInv`) are all at or
  behind the record's newest activity, and a run that reports has answered every
  link of its copies (`Covered`), so none of its results is made up.
- `ReportsAreComplete` (`ReportIsComplete`), by `Whole`: a task that was open when the run
  set out is in its copies, is still to be listed, or is closed, and one that is closed is
  not opened again (`TasksGoOn`); what was linked then is linked still, and in the copy once
  its comments are fetched.
- `FreshVerdictsAreTrue` and `MovedVerdictsAreNews` (`FreshIsTrue`, `MovedWasNews`), the two
  promises of the probe. The invariant `Judged` orders the six moments at which a run reads
  (setting out, task, comments, watermark, record, report): for every copy the baseline when
  the run began is at or behind the copy's own (`CopyBased`), also while the task is listed
  and its comments are yet to come, and that is at or behind the present one (`CopyJudged`);
  for every answer (`ResultsRecent`) the record as the run began is at or behind the answer.
  The lemma `BaselineGrows` is why edits and comments in between do no harm: a comment
  replaces `UpdatedAt` as the baseline, but it is posted later than any edit that could have
  been read. `SecondsMonotone` is why Slack's truncated times do none. In the step of the
  Slack window the proof uses that a thread without broadcast replies has only its parent
  there; without that assumption the theorem is false, which is finding 2.

Assumed: Slack and the other systems have different keys, titles link known records, a
second has at least one tick.

**The pipeline** (`PipelineProofs`), for the probe beside a dispatcher that comments on the
very tasks it reads. The step lemmas of `ProbeRunProofs` are about `Moves`: a step of a
probe, a change of the world, or a comment of somebody else's. `PipelineMoves` shows that a
step of the pipeline is one of these or leaves the probe alone, so that
`PipelineWatermarksAreSound`, `PipelineReportsAreComplete` and `PipelineVerdicts` follow
from the invariants of the probe alone. `OpenTasksStayCached` (`OpenStaysCached`) is the
pipeline's own: from setting out to the prune, a task that is open and cached is one the run
has still to list, has listed or will keep (`CacheInv`, `RunListed`). It assumes that no two
probes run beside each other (`Alone`): without it the later listing wins, which section 6
tells.

**The probers** (`ProbersProofs`), for any links in any order, credentials files, caps,
services and failures:

- `FailureIsLocal` (`FailureStaysLocal`). The invariant `EngineInv` relates the results to
  the calls that are still to be made: every result is true of the link whose key it has
  (`Sound`, by `Told`), a link without one has its system or a call still to come
  (`Pending`), and a call asks for what its links need (`CallOf`, `Asks`), so that what
  fails is about them. `Told` says more than the property: a result is what the service has,
  or a true reason, and while nothing failed it is `Verdict`, a function of the link. There
  is a lemma for each `Ask*` action and each end of a call; `AskStep` and `AnswerStep` are
  what they have in common. The proof corrected the model: a link that did not parse but is
  above the engine's cap is reported as too many, not as unparseable, which the reasons of
  `FailureStaysLocal` had left out.
- `AnswersAreTheirOwn` (`AnswersAreOwn`) adds `StoreInv`: after any part of the file has
  been read, in any order, a host has an entry just if one workspace of that part claims it
  (`LoadedFrom`; a third claim must not bring it back, which is what the hosts already seen
  are kept for), so that in the end `ForHost` is `Resolve`, which mentions no order.
- `RunsDoAgree` (`RunsAgree`) adds `AgreeInv`: of a system all of whose links have their own
  keys a run keeps all (`FirstIsKept`, which needs that a set of positions has a least), and
  below the engine's cap `Verdict` is then `Steady` (`VerdictIsSteady`), which depends on
  the file alone. GitHub's links must be sorted before the cap for that, and Salesforce's
  objects.

Assumed (`WorkspacesAssumption`): the one workspace that claims a host is the host's own,
and a sole workspace, whose token is used for every host, cannot read the threads of
another; both are what `slackauth.go:146-150` takes for granted of Slack. Two corpora have
the same links, files are finite, `slack` has no token of another kind.

**The walk** (`WalkProofs`), each from an invariant of its own:

- `OnlyWhatWasAsked` (`NothingUnasked`) from `AskInv`: outside the mode of verbs nothing
  has been done yet, a prompt and a confirmation hold the verb and the card of the last
  verb key, and what is confirmed is a completion with an operand.
- `LinesHaveOwnIDs` (`EntryIDsUnique`) from `LineInv`: every line bears the time of its
  append, and the clock has moved since. The counter of a session alone would not do:
  it does not count an append that failed after it had written.
- `LaunchesRefresh` (`NoDeadEnd`) from `LaunchInv`: how often a launch has refreshed by
  each of its steps, with and without `--refresh`.
- `WalksResume` (`ResumesWhereLeft`) from `PlaceInv` (the session is the place of the
  last save, if that did not fail) and `OnlyOpenOpens`; it holds for any order of the cards.

Model-checked only: all liveness properties
(fairness and ENABLED are beyond the prover); filter expressions (recursive operators
are, too). `WorkspacesKeptApart` is no theorem: it is what finding 4 is about.

## 5. Findings

1. `dispatch.go:199` A failed job stores the whole output of its command in
   `Status.Detail`, without a cap. `readStatus` gives up on files above 1 MiB, so the
   last good assessment is neither shown nor carried on, although `status.go:84`
   promises that a failed re-run does not wipe it. (`dispatch_huge`)
2. `slack.go:183` The history index keys a reply that was also sent to the channel
   by its thread, with only its own time. Once the parent has scrolled out, that old
   time answers for the thread without a `replies` call, although `slack.go:188` says
   that a thread out of the window must be confirmed. `FreshIsTrue` therefore leaves
   broadcast threads out. (`probe_broadcast`)
3. `model.go:344` Reloading the current card after a script rebuilds it without the
   assessment, which only `ResolveWalk` sets (`run.go:80`); `README.md:312` says that
   the walk shows it on the card. (`walk_summary`)
4. `engine.go:74` Links are deduped by `Link.Key()`, which for Slack is the channel and the
   time stamp without the workspace. Of two links from two workspaces that share both, only
   the first is probed and the second gets its answer. `slack.go:127` groups by host because
   a channel id is unique only within a workspace, but never sees the second link. The links
   of `probers` are therefore kept free of such a pair. (`probers_shared`)

Accepted by the code's own comments or design, and so allowed for in the properties rather
than reported: a task whose comments could not be fetched has `UpdatedAt` for its baseline
(`todoist/probe.go:28-31`); a dispatcher that dies between a comment and the drain posts it
again.

## 6. Not modelled

- Power failure: `Append` is not fsynced. Process death is modelled everywhere.
- Two dispatchers at once, which the dispatcher's design document rules out, and
  two walks at once, which share `session.json`.
- Dispatcher Ctrl-C apart from process death; the dry runs, which change no state.
- The rate limiters of the probers (a refused wait is a failed call), the records that fail
  a charset, which the parser of links cannot produce, and the exchange of the Google token,
  which succeeds or does not.
- A prober that returns an error as a whole: none does (all of them return `nil`), and the
  engine's handling of it is in `ProbeRun` (`ProberFails`).
- `RunsAgree` across the engine's own cap of 500, and for two forms of a link that share a
  key, such as a Salesforce id with the object of its URL and one without (`links.go:33`,
  `salesforce.go:196`): the engine keeps what it met first, and tasks may be listed in
  another order the next time. For the same reason `FailureStaysLocal` speaks of the form
  that was met first.
- Broadcast replies outside `probe_broadcast` and the proofs; in the runs of `ProbeRun` no
  system is above the cap, which the proofs and `probers` cover.
- Two probes beside each other in `Pipeline`: the later listing wins there, and
  `OpenStaysCached` is not claimed.
- A task that is closed and opened again within one run.
- Permalink parsing, rendering, prompts, argv, sanitizing, configuration: text without a
  behaviour over time; letter case and spaces in filter expressions.

## 7. Plan

Done, in the order of importance: queue, its proofs and the proof of its refinement,
dispatcher, probe, Slack short cut, walk, Todoist fetch and its proofs, the proofs of the
probe, the probers with their credentials, filter expressions, the whole pipeline, the
proofs of the dispatcher, of the walk, of the pipeline and of the probers. Then the
refinements that join the modules: `Dispatcher` implements `Delivery` and
`DispatcherOutline`, uses the queue as `QueueSpec` allows, and `Pipeline` is built on the
outline. Next: a second probe and a second task in `Pipeline`, with the conditions under
which `OpenStaysCached` survives them, and an outline of the fetch that `TodoistFetch`
implements and `ProbeRun` takes.

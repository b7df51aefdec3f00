----------------------------- MODULE Dispatcher ------------------------------
(* `ballpoint dispatch` (src/internal/dispatch, src/internal/cli/dispatch.go): *)
(* one run snapshots the queue, runs one job per queued task on a bounded     *)
(* pool, and each job asks the model for an assessment, posts the task's      *)
(* drafts and then the assessment to the Todoist work log, drains the entries *)
(* it handled and records a status.  A usage limit cancels the pool.          *)
(*                                                                            *)
(* Around a run: TUIs append to the queue, a probe changes the task cache,    *)
(* the process dies and the operator runs it again.  The queue is atomic      *)
(* here, which is what DispatchQueue shows of its implementation.             *)
EXTENDS Integers, QueueFile

CONSTANTS
  Tasks, Entries,
  TaskOf,              \* entry -> the task whose card it was queued on
  Malformed,           \* entries without a known channel, recipient or body
  Concurrencies,       \* the values of --concurrency a run may be given
  HugeOutput,          \* TRUE if a failing command may print more than 1 MiB
  Assessment,          \* a work-log comment that is no draft
  None,                \* no summary
  MaxRuns              \* bound on the number of dispatch runs

ASSUME TaskOfAssumption == IsFiniteSet(Tasks) /\ TaskOf \in [Entries -> Tasks]
ASSUME MalformedAssumption == Malformed \subseteq Entries
ASSUME ConcurrencyAssumption == Concurrencies \subseteq Int
ASSUME HugeAssumption == HugeOutput \in BOOLEAN
ASSUME AssessmentAssumption == Assessment \notin Entries
ASSUME RunsAssumption == MaxRuns \in Nat /\ None \notin 1..MaxRuns

VARIABLES
  \* on disk and in Todoist
  pending,             \* the dispatch queue
  cache,               \* the tasks store.LoadTask finds
  status,              \* task -> its status file
  worklog,             \* task -> the comments the scripts posted to it
  \* the dispatcher process
  phase,               \* "idle", or "running" inside dispatch.Run
  run,                 \* number of the current or last run
  limit,               \* the slots of its pool
  snapshot,            \* Config.Entries
  spawned,             \* groups handed to the pool so far
  cancelled,           \* gctx is done
  pc, answer, pos,     \* per task: its job, what claude said, the draft loop
  outcome,             \* outcomes[i], zero value outSucceeded included
  \* observations
  queued,              \* entries ever queued
  aborted,             \* task -> runs that failed or died in its writeback
  cut,                 \* tasks whose claude the cancelled pool killed, this run
  died                 \* the last run was killed

disk == <<pending, cache, status, worklog>>
proc == <<phase, run, limit, snapshot, spawned, cancelled, pc, answer, pos, outcome>>
\* what no step of a job changes
fixed == <<cache, phase, run, limit, snapshot, spawned, queued, died>>
vars == <<pending, cache, status, worklog, phase, run, limit, snapshot, spawned,
          cancelled, pc, answer, pos, outcome, queued, aborted, cut, died>>

InQueue(e) == \E i \in DOMAIN pending : pending[i] = e

(* groupByTask: the groups of the snapshot in first-seen order, each with the *)
(* positions of its entries.                                                  *)
Positions(t) == { i \in DOMAIN snapshot : TaskOf[snapshot[i]] = t }
EntriesOf(t) == { snapshot[i] : i \in Positions(t) }
Grouped == { t \in Tasks : Positions(t) # {} }
SeenBefore(t, u) == \E i \in Positions(t) : \A j \in Positions(u) : i < j
GroupNumber(t) == Cardinality({ u \in Grouped : SeenBefore(u, t) }) + 1

(* A limit below one is one.                                                  *)
Limit(given) == IF given < 1 THEN 1 ELSE given
Active == { t \in Tasks : pc[t] \notin {"none", "done"} }

-------------------------------------------------------------------------------
(* Status files                                                               *)

NoStatus == [state |-> "none", assess |-> None, big |-> FALSE]

(* readStatus: a file above maxStatusFileBytes is cut off and does not decode. *)
Visible(t) == IF status[t].big THEN None ELSE status[t].assess

\* Mutant: a status without a summary overwrites the one before it.
RecordNoCarry(t, state, summary, big) ==
  status' = [status EXCEPT ![t] = [state |-> state, assess |-> summary, big |-> big]]

(* writeStatus: an empty summary carries the previous one forward; an error   *)
(* is swallowed.                                                              *)
Record(t, state, summary, big) ==
  \/ status' = [status EXCEPT ![t] =
                  [state |-> state,
                   assess |-> IF summary = None THEN Visible(t) ELSE summary,
                   big |-> big]]
  \/ UNCHANGED status

(* A job ends: its status, its outcome, and it is about to return.  prints is *)
(* TRUE when the status detail quotes the output of a command.                *)
Finish(t, state, summary, out, prints) ==
  /\ \E big \in {FALSE, HugeOutput /\ prints} : Record(t, state, summary, big)
  /\ outcome' = [outcome EXCEPT ![t] = out]
  /\ pc' = [pc EXCEPT ![t] = "exit"]

-------------------------------------------------------------------------------
(* The environment                                                            *)

Init ==
  /\ pending = <<>>
  /\ cache \in SUBSET Tasks
  /\ status = [t \in Tasks |-> NoStatus]
  /\ worklog = [t \in Tasks |-> <<>>]
  /\ phase = "idle"
  /\ run = 0
  /\ limit = 1
  /\ snapshot = <<>>
  /\ spawned = 0
  /\ cancelled = FALSE
  /\ pc = [t \in Tasks |-> "none"]
  /\ answer = [t \in Tasks |-> "none"]
  /\ pos = [t \in Tasks |-> 0]
  /\ outcome = [t \in Tasks |-> "succeeded"]
  /\ queued = {}
  /\ aborted = [t \in Tasks |-> {}]
  /\ cut = {}
  /\ died = FALSE

(* The TUI queues a draft on a task's card.                                   *)
QueueDraft(e) ==
  /\ e \notin queued
  /\ queued' = queued \cup {e}
  /\ pending' = Append(pending, e)
  /\ UNCHANGED <<cache, status, worklog, proc, aborted, cut, died>>

(* A probe saves or prunes a task.                                            *)
ProbeCache(t) ==
  /\ cache' = IF t \in cache THEN cache \ {t} ELSE cache \cup {t}
  /\ UNCHANGED <<pending, status, worklog, proc, queued, aborted, cut, died>>

-------------------------------------------------------------------------------
(* dispatch.Run                                                               *)

\* Mutant: the draft loops are not reset.
StartKeepsPositions ==
  /\ phase = "idle"
  /\ run < MaxRuns
  /\ pending # <<>>
  /\ phase' = "running"
  /\ run' = run + 1
  /\ \E given \in Concurrencies : limit' = Limit(given)
  /\ snapshot' = pending
  /\ spawned' = 0
  /\ cancelled' = FALSE
  /\ pc' = [t \in Tasks |-> "none"]
  /\ answer' = [t \in Tasks |-> "none"]
  /\ outcome' = [t \in Tasks |-> "succeeded"]
  /\ cut' = {}
  /\ died' = FALSE
  /\ UNCHANGED <<disk, pos, queued, aborted>>

(* The queue is snapshotted, and an empty one is nothing to do.               *)
Start ==
  /\ phase = "idle"
  /\ run < MaxRuns
  /\ pending # <<>>
  /\ phase' = "running"
  /\ run' = run + 1
  /\ \E given \in Concurrencies : limit' = Limit(given)
  /\ snapshot' = pending
  /\ spawned' = 0
  /\ cancelled' = FALSE
  /\ pc' = [t \in Tasks |-> "none"]
  /\ answer' = [t \in Tasks |-> "none"]
  /\ pos' = [t \in Tasks |-> 0]
  /\ outcome' = [t \in Tasks |-> "succeeded"]
  /\ cut' = {}
  /\ died' = FALSE
  /\ UNCHANGED <<disk, queued, aborted>>

\* Mutant: the loop over the groups stops once the pool is cancelled.
SpawnUnlessCancelled(t) ==
  /\ phase = "running"
  /\ t \in Grouped /\ GroupNumber(t) = spawned + 1
  /\ Cardinality(Active) < limit
  /\ pc' = [pc EXCEPT ![t] = IF cancelled THEN "done" ELSE "spawned"]
  /\ spawned' = spawned + 1
  /\ UNCHANGED <<disk, phase, run, limit, snapshot, cancelled, answer, pos,
                 outcome, queued, aborted, cut, died>>

\* Mutant: a job that has returned keeps its slot.
SpawnKeepsSlots(t) ==
  /\ phase = "running"
  /\ t \in Grouped /\ GroupNumber(t) = spawned + 1
  /\ spawned < limit
  /\ pc' = [pc EXCEPT ![t] = "spawned"]
  /\ spawned' = spawned + 1
  /\ UNCHANGED <<disk, phase, run, limit, snapshot, cancelled, answer, pos,
                 outcome, queued, aborted, cut, died>>

(* group.Go blocks while the pool is full, and goes on after a cancel.        *)
Spawn(t) ==
  /\ phase = "running"
  /\ t \in Grouped /\ GroupNumber(t) = spawned + 1
  /\ Cardinality(Active) < limit
  /\ pc' = [pc EXCEPT ![t] = "spawned"]
  /\ spawned' = spawned + 1
  /\ UNCHANGED <<disk, phase, run, limit, snapshot, cancelled, answer, pos,
                 outcome, queued, aborted, cut, died>>

(* group.Wait returns and the run is tallied.                                 *)
Wait ==
  /\ phase = "running"
  /\ spawned = Cardinality(Grouped)
  /\ Active = {}
  /\ phase' = "idle"
  /\ UNCHANGED <<disk, run, limit, snapshot, spawned, cancelled, pc, answer, pos,
                 outcome, queued, aborted, cut, died>>

-------------------------------------------------------------------------------
(* runJob                                                                     *)

(* A job starts under a context that is already done.                         *)
JobCancelled(t) ==
  /\ pc[t] = "spawned"
  /\ cancelled
  /\ Finish(t, "requeued", None, "requeued", FALSE)
  /\ UNCHANGED <<fixed, pending, worklog, cancelled, answer, pos, aborted,
                 cut>>

(* The ctx.Err() check passes; the task is looked up after it.                *)
JobChecked(t) ==
  /\ pc[t] = "spawned"
  /\ ~cancelled
  /\ pc' = [pc EXCEPT ![t] = "load"]
  /\ UNCHANGED <<fixed, pending, status, worklog, cancelled, answer, pos,
                 outcome, aborted, cut>>

(* Not in the cache, or, after the running status, no nonce.                  *)
JobFailsEarly(t) ==
  /\ (pc[t] = "load" /\ t \notin cache) \/ pc[t] = "prompt"
  /\ Finish(t, "failed", None, "failed", FALSE)
  /\ UNCHANGED <<fixed, pending, worklog, cancelled, answer, pos, aborted,
                 cut>>

JobRuns(t) ==
  /\ pc[t] = "load" /\ t \in cache
  /\ Record(t, "running", None, FALSE)
  /\ pc' = [pc EXCEPT ![t] = "prompt"]
  /\ UNCHANGED <<fixed, pending, worklog, cancelled, answer, pos, outcome,
                 aborted, cut>>

\* Mutant: exec.Command, which ignores the context.
LaunchAlways(t) ==
  /\ pc[t] = "prompt"
  /\ pc' = [pc EXCEPT ![t] = "claude"]
  /\ answer' = [answer EXCEPT ![t] = "none"]
  /\ UNCHANGED <<fixed, pending, status, worklog, cancelled, pos, outcome,
                 aborted, cut>>

(* ExecAssess: exec.CommandContext starts nothing under a done context.       *)
Launch(t) ==
  /\ pc[t] = "prompt"
  /\ pc' = [pc EXCEPT ![t] = IF cancelled THEN "judge" ELSE "claude"]
  /\ answer' = [answer EXCEPT ![t] = IF cancelled THEN "cancelled" ELSE "none"]
  /\ UNCHANGED <<fixed, pending, status, worklog, cancelled, pos, outcome,
                 aborted, cut>>

(* claude exits, or the cancelled context kills it.  Whatever it printed is   *)
(* dropped when the context is done by then.                                  *)
Answer(t, what) ==
  /\ pc[t] = "claude"
  /\ answer' = [answer EXCEPT ![t] = IF cancelled THEN "cancelled" ELSE what]
  /\ cut' = IF cancelled THEN cut \cup {t} ELSE cut
  /\ pc' = [pc EXCEPT ![t] = "judge"]
  /\ UNCHANGED <<fixed, pending, status, worklog, cancelled, pos, outcome,
                 aborted>>

JudgeOk(t) ==
  /\ pc[t] = "judge" /\ answer[t] = "ok"
  /\ pc' = [pc EXCEPT ![t] = "draft"]
  /\ UNCHANGED <<fixed, pending, status, worklog, cancelled, answer, pos,
                 outcome, aborted, cut>>

\* Mutant: only an explicit usage limit requeues.
JudgeErrorStrict(t) ==
  /\ pc[t] = "judge" /\ answer[t] \in {"usage", "error", "cancelled"}
  /\ IF answer[t] = "usage"
     THEN Finish(t, "requeued", None, "requeued", FALSE)
     ELSE Finish(t, "failed", None, "failed", answer[t] = "error")
  /\ UNCHANGED <<fixed, pending, worklog, cancelled, answer, pos, aborted,
                 cut>>

(* An error requeues when it is the usage limit or when the context is done   *)
(* by now, and fails the job otherwise.                                       *)
JudgeError(t) ==
  /\ pc[t] = "judge" /\ answer[t] \in {"usage", "error", "cancelled"}
  /\ IF answer[t] = "usage" \/ cancelled
     THEN Finish(t, "requeued", None, "requeued", FALSE)
     ELSE Finish(t, "failed", None, "failed", answer[t] = "error")
  /\ UNCHANGED <<fixed, pending, worklog, cancelled, answer, pos, aborted,
                 cut>>

Post(t, what) ==
  worklog' = [worklog EXCEPT ![t] = Append(@, [run |-> run, what |-> what])]

(* A script fails, possibly after it posted its comment.                      *)
Abort(t, what) ==
  /\ Post(t, what) \/ UNCHANGED worklog
  /\ Finish(t, "failed", None, "failed", TRUE)
  /\ aborted' = [aborted EXCEPT ![t] = @ \cup {run}]

(* The draft loop: entries of the group in snapshot order.                    *)
Ahead(t) == { i \in Positions(t) : i > pos[t] }
NextDraft(t) == CHOOSE i \in Ahead(t) : \A j \in Ahead(t) : i <= j

(* A malformed draft is dropped ...                                           *)
DraftDropped(t) ==
  /\ pc[t] = "draft" /\ Ahead(t) # {}
  /\ snapshot[NextDraft(t)] \in Malformed
  /\ pos' = [pos EXCEPT ![t] = NextDraft(t)]
  /\ UNCHANGED <<fixed, pending, status, worklog, cancelled, pc, answer,
                 outcome, aborted, cut>>

(* ... a well-formed one is posted by td_draft.sh under the shielded context. *)
DraftPosted(t) ==
  /\ pc[t] = "draft" /\ Ahead(t) # {}
  /\ snapshot[NextDraft(t)] \notin Malformed
  /\ Post(t, snapshot[NextDraft(t)])
  /\ pos' = [pos EXCEPT ![t] = NextDraft(t)]
  /\ UNCHANGED <<fixed, pending, status, cancelled, pc, answer, outcome,
                 aborted, cut>>

\* Mutant: a failed draft is skipped and the loop goes on.
DraftFailureIgnored(t) ==
  /\ pc[t] = "draft" /\ Ahead(t) # {}
  /\ snapshot[NextDraft(t)] \notin Malformed
  /\ pos' = [pos EXCEPT ![t] = NextDraft(t)]
  /\ UNCHANGED <<fixed, pending, status, worklog, cancelled, pc, answer,
                 outcome, aborted, cut>>

DraftFails(t) ==
  /\ pc[t] = "draft" /\ Ahead(t) # {}
  /\ snapshot[NextDraft(t)] \notin Malformed
  /\ Abort(t, snapshot[NextDraft(t)])
  /\ UNCHANGED <<fixed, pending, cancelled, answer, pos, cut>>

(* td_worklog.sh records the assessment, after the last draft.                *)
WorklogPosted(t) ==
  /\ pc[t] = "draft" /\ Ahead(t) = {}
  /\ Post(t, Assessment)
  /\ pc' = [pc EXCEPT ![t] = "drain"]
  /\ UNCHANGED <<fixed, pending, status, cancelled, answer, pos, outcome,
                 aborted, cut>>

\* Mutant: the failed status already carries the summary.
WorklogFailsWithSummary(t) ==
  /\ pc[t] = "draft" /\ Ahead(t) = {}
  /\ Finish(t, "failed", run, "failed", TRUE)
  /\ UNCHANGED <<fixed, pending, worklog, cancelled, answer, pos, aborted,
                 cut>>

WorklogFails(t) ==
  /\ pc[t] = "draft" /\ Ahead(t) = {}
  /\ Abort(t, Assessment)
  /\ UNCHANGED <<fixed, pending, cancelled, answer, pos, cut>>

\* Mutant: the drain removes every entry of the task.
DrainWholeTask(t) ==
  /\ pc[t] = "drain"
  /\ pending' = SelectSeq(pending, LAMBDA e : TaskOf[e] # t)
  /\ pc' = [pc EXCEPT ![t] = "report"]
  /\ UNCHANGED <<fixed, status, worklog, cancelled, answer, pos, outcome,
                 aborted, cut>>

\* Mutant: the ids handed to queue.Remove are task ids, which match nothing.
DrainByTaskID(t) ==
  /\ pc[t] = "drain"
  /\ pc' = [pc EXCEPT ![t] = "report"]
  /\ UNCHANGED <<fixed, pending, status, worklog, cancelled, answer, pos,
                 outcome, aborted, cut>>

(* queue.Remove of the snapshot's entries of this task.                       *)
Drain(t) ==
  /\ pc[t] = "drain"
  /\ pending' \in Rewrites(pending, { i \in DOMAIN pending : pending[i] \notin EntriesOf(t) })
  /\ pc' = [pc EXCEPT ![t] = "report"]
  /\ UNCHANGED <<fixed, status, worklog, cancelled, answer, pos, outcome,
                 aborted, cut>>

DrainFails(t) ==
  /\ pc[t] = "drain"
  /\ Finish(t, "failed", None, "failed", FALSE)
  /\ aborted' = [aborted EXCEPT ![t] = @ \cup {run}]
  /\ UNCHANGED <<fixed, pending, worklog, cancelled, answer, pos, cut>>

(* The summary of run n is named n.                                           *)
Report(t) ==
  /\ pc[t] = "report"
  /\ Finish(t, "succeeded", run, "succeeded", FALSE)
  /\ UNCHANGED <<fixed, pending, worklog, cancelled, answer, pos, aborted,
                 cut>>

(* runJob returns; the first usage limit cancels the pool before the slot is  *)
(* given back.                                                                *)
Exit(t) ==
  /\ pc[t] = "exit"
  /\ pc' = [pc EXCEPT ![t] = "done"]
  /\ cancelled' = (cancelled \/ answer[t] = "usage")
  /\ UNCHANGED <<fixed, pending, status, worklog, answer, pos, outcome,
                 aborted, cut>>

-------------------------------------------------------------------------------

(* The process dies: a crash, or Ctrl-C, for which neither main nor runDispatch *)
(* installs a handler.                                                        *)
Writing(t) == pc[t] \in {"draft", "drain"}
Die ==
  /\ phase = "running"
  /\ phase' = "idle"
  /\ died' = TRUE
  /\ aborted' = [t \in Tasks |-> IF Writing(t) THEN aborted[t] \cup {run} ELSE aborted[t]]
  /\ pc' = [t \in Tasks |-> "none"]
  /\ UNCHANGED <<disk, run, limit, snapshot, spawned, cancelled, answer, pos,
                 outcome, queued, cut>>

Answers == {"ok", "usage", "error"}
Job(t) ==
  \/ JobCancelled(t) \/ JobChecked(t) \/ JobFailsEarly(t) \/ JobRuns(t)
  \/ Launch(t) \/ \E what \in Answers : Answer(t, what)
  \/ JudgeOk(t) \/ JudgeError(t)
  \/ DraftDropped(t) \/ DraftPosted(t) \/ DraftFails(t)
  \/ WorklogPosted(t) \/ WorklogFails(t)
  \/ Drain(t) \/ DrainFails(t) \/ Report(t) \/ Exit(t)

Next ==
  \/ \E e \in Entries : QueueDraft(e)
  \/ \E t \in Tasks : ProbeCache(t) \/ Spawn(t) \/ Job(t)
  \/ Start \/ Wait \/ Die

Spec == Init /\ [][Next]_vars

(* The pool keeps running, and every external command comes to an end.        *)
Fairness == WF_vars(Wait) /\ \A t \in Tasks : WF_vars(Spawn(t)) /\ WF_vars(Job(t))
LiveSpec == Spec /\ Fairness

-------------------------------------------------------------------------------

Comment == [run : 1..MaxRuns, what : Entries \cup {Assessment}]
States == {"none", "running", "succeeded", "failed", "requeued"}
PCs == {"none", "spawned", "load", "prompt", "claude", "judge", "draft",
        "drain", "report", "exit", "done"}

BeforeDrafts == {"spawned", "load", "prompt", "claude", "judge"}

(* Every variable stays in its type, the pool within its limit, and a job     *)
(* starts its drafts with the first.                                          *)
TypeOK ==
  /\ pending \in Seq(Entries)
  /\ cache \in SUBSET Tasks
  /\ status \in [Tasks -> [state : States, assess : 1..MaxRuns \cup {None}, big : BOOLEAN]]
  /\ worklog \in [Tasks -> Seq(Comment)]
  /\ phase \in {"idle", "running"}
  /\ run \in 0..MaxRuns
  /\ phase = "running" => run > 0
  /\ snapshot \in Seq(Entries)
  /\ spawned \in 0..Cardinality(Tasks)
  /\ limit \in Nat \ {0}
  /\ Cardinality(Active) <= limit
  /\ cancelled \in BOOLEAN
  /\ pc \in [Tasks -> PCs]
  /\ answer \in [Tasks -> {"none", "ok", "usage", "error", "cancelled"}]
  /\ pos \in [Tasks -> 0..Len(snapshot)]
  /\ \A t \in Active : pc[t] \in BeforeDrafts => pos[t] = 0
  /\ outcome \in [Tasks -> {"succeeded", "failed", "requeued"}]
  /\ queued \in SUBSET Entries
  /\ aborted \in [Tasks -> SUBSET (1..MaxRuns)]
  /\ cut \in SUBSET Tasks
  /\ died \in BOOLEAN

PostedBy(t, n, what) ==
  \E i \in DOMAIN worklog[t] : worklog[t][i] = [run |-> n, what |-> what]

(* An entry leaves the queue only when one and the same run has recorded its  *)
(* draft, unless it is malformed, and its task's assessment in the work log;  *)
(* whatever fails, dies or is appended in between (dispatch.go:137-227).      *)
DrainedWasDelivered ==
  \A e \in queued :
    InQueue(e) \/ \E n \in 1..run :
                     /\ PostedBy(TaskOf[e], n, Assessment)
                     /\ e \in Malformed \/ PostedBy(TaskOf[e], n, e)

(* The assessment is the last comment of a run on a task, and it is there     *)
(* only if every well-formed draft of the run's group is: a run whose draft   *)
(* failed left no assessment for a retry to repeat (dispatch.go:184-190).     *)
AssessmentComesLast ==
  \A t \in Tasks : \A i \in DOMAIN worklog[t] :
    worklog[t][i].what = Assessment =>
      /\ \A j \in DOMAIN worklog[t] :
           j > i => worklog[t][j].run # worklog[t][i].run
      /\ worklog[t][i].run = run =>
           \A e \in EntriesOf(t) \ Malformed : PostedBy(t, run, e)

(* A draft is recorded a second time only if the run that recorded it before  *)
(* failed or died in its writeback; a requeued job has recorded nothing       *)
(* (docs/superpowers/specs/2026-07-21-dispatcher-design.md:84-92).            *)
RepeatOnlyAfterAbort ==
  \A t \in Tasks : \A i, j \in DOMAIN worklog[t] :
    i < j /\ worklog[t][i].what = worklog[t][j].what /\ worklog[t][i].what \in Entries
      => worklog[t][i].run \in aborted[t]

(* The tally does not lie about the queue, the zero value of outcome          *)
(* included: when a run has been tallied, a task counted as succeeded has     *)
(* none of its snapshot entries left, any other has all of them               *)
(* (dispatch.go:54-59, 61-63, 100-113).                                       *)
TallyMatchesQueue ==
  phase = "idle" /\ run > 0 /\ ~died =>
    \A t \in Grouped : \A e \in EntriesOf(t) :
      InQueue(e) <=> outcome[t] # "succeeded"

(* A job whose claude was killed by the cancelled pool is requeued, never     *)
(* failed, and posts nothing (dispatch.go:169-179, assess.go:197-201).        *)
CutJobsRequeue ==
  \A t \in cut : /\ pc[t] = "done" => outcome[t] = "requeued"
                 /\ \A what \in Entries \cup {Assessment} : ~PostedBy(t, run, what)

(* The summary the walk reads is one the work log has, never that of a run    *)
(* whose assessment was not recorded (status.go:59-62).                       *)
ShownWasLogged ==
  \A t \in Tasks : Visible(t) # None => PostedBy(t, Visible(t), Assessment)

(* A failed or requeued re-run never takes the last good assessment away from *)
(* the walk, nor brings an older one back (status.go:83-87).                  *)
AssessmentNeverWiped ==
  [][\A t \in Tasks : Visible(t) # None =>
       Visible(t)' # None /\ Visible(t)' >= Visible(t)]_vars

(* Once the pool is cancelled no claude is started, by jobs yet to spawn or   *)
(* by jobs that had passed their check (dispatch.go:61-63, 142-146).          *)
Launched == { t \in Tasks : pc[t] = "claude" }
NoneLaunchedAfterCancel == [][cancelled => Launched' \subseteq Launched]_vars

(* However its runs fail, die and are repeated, the dispatcher delivers as    *)
(* Delivery says: a task's drafts reach the work log in the order in which    *)
(* they were queued, once per run and only while they are queued, the         *)
(* assessment after them, and only then do exactly these leave the queue      *)
(* (dispatch.go:128-134, 181-227).                                            *)
Promise == INSTANCE Delivery
DeliversAsPromised == Promise!Spec

(* A run ends, if its external commands do: a group that waits for a slot     *)
(* gets it, with any --concurrency, zero included, and whether the job that   *)
(* has the slot succeeds, fails or cancels the pool (dispatch.go:76-98).      *)
RunEnds == phase = "running" ~> phase = "idle"
==============================================================================

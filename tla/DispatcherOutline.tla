-------------------------- MODULE DispatcherOutline --------------------------
(* A dispatcher as the probe and the walks meet it: which drafts a run takes  *)
(* from the queue and gives up, when it reads the cache, and when it comments *)
(* on a task.  Dispatcher is shown to implement this outline, and Pipeline    *)
(* takes its steps for the dispatcher that runs beside the probe.             *)
CONSTANTS Tasks, Drafts, TaskOf

VARIABLES
  queued,              \* drafts ever queued
  pending,             \* those in the queue
  job,                 \* task -> the step its job in the run is at
  taken,               \* task -> the drafts its job is to deliver
  cache,               \* the tasks in the cache, which is the probe's
  log                  \* task -> its comments in Todoist

vars == <<queued, pending, job, taken, cache, log>>

Idle == \A t \in Tasks : job[t] = "idle"

Init ==
  /\ queued = {} /\ pending = {}
  /\ job = [t \in Tasks |-> "idle"] /\ taken = [t \in Tasks |-> {}]

Queue(d) ==
  /\ d \notin queued
  /\ queued' = queued \cup {d} /\ pending' = pending \cup {d}
  /\ UNCHANGED <<job, taken, cache, log>>

(* A run takes what is queued, one job per task.                              *)
Of(t) == { d \in pending : TaskOf[d] = t }
Snapshot ==
  /\ Idle /\ pending # {}
  /\ taken' = [t \in Tasks |-> Of(t)]
  /\ job' = [t \in Tasks |-> IF Of(t) = {} THEN "idle" ELSE "load"]
  /\ UNCHANGED <<queued, pending, cache, log>>

Goto(t, step) ==
  /\ job' = [job EXCEPT ![t] = step]
  /\ taken' = [taken EXCEPT ![t] = IF step = "idle" THEN {} ELSE @]
  /\ UNCHANGED <<queued, cache>>

(* Comments appear on t, and on no other task.                                *)
Comment(t) == \A u \in Tasks \ {t} : log'[u] = log[u]

Loads(t) ==
  /\ job[t] = "load" /\ Goto(t, IF t \in cache THEN "post" ELSE "idle")
  /\ UNCHANGED <<pending, log>>

PostsDraft(t) ==
  /\ job[t] = "post" /\ Comment(t)
  /\ UNCHANGED <<queued, pending, job, taken, cache>>

PostsAssessment(t) ==
  /\ job[t] = "post" /\ Comment(t) /\ Goto(t, "drain")
  /\ UNCHANGED pending

(* What was queued on the task since the snapshot stays.                      *)
Drains(t) ==
  /\ job[t] = "drain" /\ Goto(t, "idle")
  /\ pending' = pending \ taken[t]
  /\ UNCHANGED log

(* The job fails or is cancelled, possibly after a comment it was to post.    *)
Fails(t) ==
  /\ job[t] # "idle" /\ Goto(t, "idle")
  /\ IF job[t] = "post" THEN Comment(t) ELSE UNCHANGED log
  /\ UNCHANGED pending

(* The run's process is gone.                                                 *)
Dies ==
  /\ job' = [t \in Tasks |-> "idle"] /\ taken' = [t \in Tasks |-> {}]
  /\ UNCHANGED <<queued, pending, cache, log>>

Job(t) == Loads(t) \/ PostsDraft(t) \/ PostsAssessment(t) \/ Drains(t) \/ Fails(t)

CacheChanges == UNCHANGED <<queued, pending, job, taken, log>>

Next ==
  \/ \E d \in Drafts : Queue(d)
  \/ Snapshot \/ Dies \/ CacheChanges
  \/ \E t \in Tasks : Job(t)

Spec == Init /\ [][Next]_vars
==============================================================================

------------------------------ MODULE Pipeline -------------------------------
(***************************************************************************)
(* The whole of ballpoint around one cache: the probe of ProbeRun, walks   *)
(* that queue drafts on the cards of tasks, and the dispatcher, which      *)
(* looks the task of every draft up in the cache the probe keeps, comments *)
(* on it in Todoist, where the next probe reads the comments as work log,  *)
(* and drains the draft.  The timers start both again and again; any of    *)
(* their steps may fail and either process may die.                        *)
(*                                                                         *)
(* The dispatcher takes the steps of DispatcherOutline, which Dispatcher   *)
(* implements.                                                             *)
(***************************************************************************)
EXTENDS ProbeRun

CONSTANTS
    Drafts,   \* bound: the drafts that walks queue
    DraftOn   \* draft -> the task on whose card it is queued

ASSUME DraftsAssumption == DraftOn \in [Drafts -> Tasks]

VARIABLES
    queued,   \* the drafts ever queued
    pending,  \* those in the queue
    job,      \* per task, the step its job in the dispatcher's run is at
    taken     \* per task, the drafts its job is to deliver

drafts == <<queued, pending, job, taken>>
all    == <<vars, drafts>>

Outline == INSTANCE DispatcherOutline WITH TaskOf <- DraftOn, log <- comments

PipelineInit == Init /\ Outline!Init

----------------------------------------------------------------------------

\* The card of a walk; the task may have been pruned since the walk was opened.
QueueDraft(d) == updated[DraftOn[d]] # 0 /\ Outline!Queue(d) /\ UNCHANGED vars

\* A run snapshots the queue, one job per task in it.
Dispatch == Outline!Snapshot /\ UNCHANGED vars

\* A task that is not in the cache fails its job, and its drafts stay queued.
JobLoads(t) == Outline!Loads(t) /\ UNCHANGED vars

\* The drafts and the assessment are comments of the task.
Log(t) ==
    \E at \in now .. MaxNow :
        /\ now' = at
        /\ comments' = [comments EXCEPT ![t] = @ \cup {[at |-> at, links |-> {}]}]
        /\ UNCHANGED <<last, bcasts, parentIn, open, updated, events, files, probe>>

JobPosts(t) ==
    /\ Outline!PostsDraft(t) \/ Outline!PostsAssessment(t)
    /\ Log(t) /\ UNCHANGED faults

\* Mutant: the ids handed to queue.Remove match nothing.
JobDrainsNothing(t) ==
    /\ job[t] = "drain" /\ Outline!Goto(t, "idle")
    /\ UNCHANGED <<vars, pending>>

JobDrains(t) == Outline!Drains(t) /\ UNCHANGED vars

\* The cache, claude, a script, possibly after it commented, or the queue fails.
JobFails(t) ==
    /\ Outline!Fails(t) /\ Fault
    /\ \/ UNCHANGED <<world, files, probe>>
       \/ job[t] = "post" /\ Log(t)

\* The dispatcher dies, or a usage limit ends its run.
DispatchEnds ==
    /\ ~Outline!Idle /\ Outline!Dies
    /\ Fault /\ UNCHANGED <<world, files, probe>>

Job(t) == JobLoads(t) \/ JobPosts(t) \/ JobDrains(t) \/ JobFails(t)

ProbeStep(p) == (FetchTasks(p) \/ Step(p)) /\ UNCHANGED drafts

PipelineNext ==
    \/ Environment /\ UNCHANGED drafts
    \/ \E p \in Probes : ProbeStep(p)
    \/ \E d \in Drafts : QueueDraft(d)
    \/ \E t \in Tasks : Job(t)
    \/ Dispatch \/ DispatchEnds

\* Both timers fire again and again, and a run that can go on does.
PipelineSpec ==
    /\ PipelineInit /\ [][PipelineNext]_all
    /\ \A p \in Probes : WF_all(ProbeStep(p))
    /\ WF_all(Dispatch) /\ \A t \in Tasks : WF_all(Job(t))

----------------------------------------------------------------------------

\* A queued draft is delivered and leaves the queue, unless its task leaves Todoist:
\* runs that fail, die or do not find the task in the cache are made up for by later
\* ones (dispatch.go:149-157, 209-213, dispatcher-design.md:117).
DraftsArrive == \A d \in Drafts : d \in pending ~> (d \notin pending \/ DraftOn[d] \notin open)

=============================================================================

------------------------- MODULE DispatcherLogProofs --------------------------
(* Theorems of Dispatcher about the work log and the status files, for any    *)
(* number of tasks, drafts and runs and any size of the pool.                 *)
EXTENDS DispatcherProofs

(* The facts of DispatcherProofs, together.                                   *)
Base == SpawnInv /\ DeliveryInv /\ TallyInv
Founded == Base /\ DrainedWasDelivered /\ TallyMatchesQueue

LEMMA FoundedInit == Init => Founded
BY SpawnInit, DeliveryInit, TallyInit DEF Base, Founded

LEMMA FoundedNext == Founded /\ [Next]_vars => Founded'
BY SpawnNext, DeliveryNext, TallyNext DEF Base, Founded

-------------------------------------------------------------------------------
(* The comments a step adds.                                                  *)

(* The work log of t as it was, or with one comment of this run at its end.   *)
Kept(t) == worklog'[t] = worklog[t]
Added(t, what) ==
  /\ Len(worklog'[t]) = Len(worklog[t]) + 1
  /\ DOMAIN worklog'[t] = 1..(Len(worklog[t]) + 1)
  /\ \A i \in DOMAIN worklog[t] : worklog'[t][i] = worklog[t][i]
  /\ worklog'[t][Len(worklog[t]) + 1].run = run
  /\ worklog'[t][Len(worklog[t]) + 1].what = what

LEMMA LogType ==
  ASSUME Typed, NEW t \in Tasks
  PROVE  /\ Len(worklog[t]) \in Nat /\ DOMAIN worklog[t] = 1..Len(worklog[t])
         /\ \A i \in DOMAIN worklog[t] : /\ worklog[t][i].run \in 1..MaxRuns
                                         /\ worklog[t][i].what \in Entries \cup {Assessment}
<1>1. worklog[t] \in Seq(Comment)
  BY DEF Typed
<1>2. \A i \in 1..Len(worklog[t]) : worklog[t][i] \in Comment
  BY <1>1
<1> QED BY <1>1, <1>2 DEF Comment

LEMMA PostAdds ==
  ASSUME Typed, NEW t \in Tasks, phase = "running", NEW what \in Entries \cup {Assessment},
         Post(t, what)
  PROVE  Added(t, what)
<1>1. worklog'[t] \in Seq(Comment) /\ Len(worklog'[t]) = Len(worklog[t]) + 1
  BY PostAppends
<1>2. DOMAIN worklog'[t] = 1..(Len(worklog[t]) + 1)
  BY <1>1
<1>3. worklog'[t][Len(worklog[t]) + 1] = [run |-> run, what |-> what]
  BY PostAppends
<1> QED BY <1>1, <1>2, <1>3, PostAppends DEF Added

(* Only a job that writes back adds to a work log, and what it adds was due.  *)
LEMMA JobAdds ==
  ASSUME Typed, NEW t \in Tasks, Job(t)
  PROVE  /\ \A u \in Tasks \ {t} : Kept(u)
         /\ Kept(t) \/ (pc[t] = "draft" /\ Added(t, Due(t)))
<1>1. Local(t) /\ t \in Active
  BY JobLocal
<1>2. phase = "running" /\ Due(t) \in Entries \cup {Assessment}
  BY <1>1, DueIsComment
<1>3. \A u \in Tasks \ {t} : Kept(u)
  BY <1>1 DEF Local, Kept
<1>4. CASE Early(t) \/ Drain(t) \/ Ends(t)
  BY <1>3, <1>4 DEF Early, Drain, Ends, Kept
<1>5. CASE Loops(t)
  BY <1>2, <1>3, <1>5, PostAdds DEF Loops, Due, Kept
<1>6. CASE Fails(t)
  BY <1>2, <1>3, <1>6, PostAdds DEF Fails, Appended, Kept
<1>7. CASE WorklogPosted(t)
  BY <1>2, <1>3, <1>7, PostAdds DEF WorklogPosted, Due
<1> QED BY <1>4, <1>5, <1>6, <1>7, JobKinds

-------------------------------------------------------------------------------
(* The log of a run.                                                          *)

(* No comment is of a run to come; a job that has no answer yet has posted    *)
(* nothing, and one in its draft loop no assessment.                          *)
NoneBy(t) == \A i \in DOMAIN worklog[t] : worklog[t][i].run # run
NoAssessmentBy(t) ==
  \A i \in DOMAIN worklog[t] : worklog[t][i].run = run => worklog[t][i].what # Assessment
LogInv(t) ==
  /\ \A i \in DOMAIN worklog[t] : worklog[t][i].run <= run
  /\ phase = "running" /\ pc[t] \in BeforeDrafts \cup {"none"} => NoneBy(t)
  /\ pc[t] = "draft" => NoAssessmentBy(t)

(* AssessmentComesLast, of one task.                                          *)
ComesLast(t) ==
  \A i \in DOMAIN worklog[t] :
    worklog[t][i].what = Assessment =>
      /\ \A j \in DOMAIN worklog[t] :
           j > i => worklog[t][j].run # worklog[t][i].run
      /\ worklog[t][i].run = run =>
           \A e \in EntriesOf(t) \ Malformed : PostedBy(t, run, e)

Logged == \A t \in Tasks : LogInv(t) /\ ComesLast(t)

LEMMA LoggedInit == Init => Logged
BY DEF Init, Logged, LogInv, ComesLast, NoneBy, NoAssessmentBy

LEMMA JobLogged ==
  ASSUME Founded, Logged, NEW t \in Tasks, Job(t)
  PROVE  Logged'
<1>1. Typed /\ Local(t) /\ t \in Active
  BY JobLocal DEF Founded, Base, SpawnInv
<1>2. UNCHANGED <<run, phase, snapshot>> /\ phase = "running" /\ run \in 1..MaxRuns
  BY <1>1, DueIsComment DEF Local, fixed
<1>3. \A u \in Tasks : EntriesOf(u)' = EntriesOf(u)
  BY <1>2 DEF EntriesOf, Positions
<1>4. ASSUME NEW u \in Tasks, Kept(u), pc'[u] \in BeforeDrafts \cup {"none"} => pc[u] \in BeforeDrafts \cup {"none"},
             pc'[u] = "draft" => pc[u] \in BeforeDrafts \cup {"draft"}
      PROVE  LogInv(u)' /\ ComesLast(u)'
  <2>1. LogInv(u) /\ ComesLast(u)
    BY DEF Logged
  <2>2. LogInv(u)'
    BY <1>2, <1>4, <2>1 DEF LogInv, NoneBy, NoAssessmentBy, Kept
  <2>3. ComesLast(u)'
    BY <1>2, <1>3, <1>4, <2>1 DEF ComesLast, PostedBy, Kept
  <2> QED BY <2>2, <2>3
<1>5. \A u \in Tasks \ {t} : LogInv(u)' /\ ComesLast(u)'
  BY <1>1, <1>4, JobAdds DEF Local
<1>6. /\ pc'[t] \in BeforeDrafts \cup {"none"} => pc[t] \in BeforeDrafts
      /\ pc'[t] = "draft" => pc[t] \in BeforeDrafts \cup {"draft"}
  <2>1. CASE Early(t) \/ Loops(t) \/ Fails(t) \/ Ends(t)
    BY <2>1 DEF Early, Loops, Fails, Ends, BeforeDrafts
  <2>2. CASE WorklogPosted(t) \/ Drain(t)
    <3>1. pc'[t] \in {"drain", "report"}
      BY <1>1, <2>2 DEF WorklogPosted, Drain, Typed
    <3> QED BY <3>1 DEF BeforeDrafts
  <2> QED BY <1>1, <2>1, <2>2, JobKinds
<1>7. CASE Kept(t)
  BY <1>4, <1>5, <1>6, <1>7 DEF Logged
<1>8. CASE pc[t] = "draft" /\ Added(t, Due(t))
  <2>1. PICK n \in Nat : n = Len(worklog[t]) + 1
    BY <1>1, LogType
  <2>2. /\ DOMAIN worklog[t] = 1..(n - 1) /\ DOMAIN worklog'[t] = 1..n
        /\ \A i \in 1..(n - 1) : worklog'[t][i] = worklog[t][i]
        /\ worklog'[t][n].run = run /\ worklog'[t][n].what = Due(t)
    BY <1>1, <1>8, <2>1, LogType DEF Added
  <2>3. \A i \in 1..(n - 1) : worklog[t][i].run <= run /\ worklog[t][i].run \in Nat
    BY <1>1, <2>2, LogType DEF Logged, LogInv
  <2>4. \A i \in 1..(n - 1) : worklog[t][i].run = run => worklog[t][i].what # Assessment
    BY <1>8, <2>2 DEF Logged, LogInv, NoAssessmentBy
  <2>5. \A i \in 1..n : i = n \/ i \in 1..(n - 1)
    BY <2>1
  <2>6. pc'[t] = "draft" => Due(t) # Assessment
    <3>1. ASSUME pc'[t] = "draft" PROVE Loops(t)
      BY <1>1, <1>8, <3>1, JobKinds DEF Early, Fails, WorklogPosted, Drain, Ends, BeforeDrafts, Typed
    <3>2. Ahead(t) # {} => Due(t) \in Entries
      BY <1>1, DueIsComment DEF Due
    <3> QED BY <3>1, <3>2, AssessmentAssumption DEF Loops
  <2>7. LogInv(t)'
    <3>1. \A i \in 1..n : worklog'[t][i].run <= run
      BY <1>2, <2>2, <2>3, <2>5
    <3>2. pc'[t] = "draft" =>
            \A i \in 1..n : worklog'[t][i].run = run => worklog'[t][i].what # Assessment
      BY <2>2, <2>4, <2>5, <2>6
    <3>3. pc'[t] \notin BeforeDrafts \cup {"none"}
      BY <1>6, <1>8 DEF BeforeDrafts
    <3> QED BY <1>2, <2>2, <3>1, <3>2, <3>3 DEF LogInv, NoAssessmentBy
  <2>8. \A u \in Tasks : \A m, w : PostedBy(u, m, w) => PostedBy(u, m, w)'
    BY <1>1, JobPosted
  <2>9. Due(t) = Assessment => \A e \in EntriesOf(t) \ Malformed : PostedBy(t, run, e)
    <3>1. Due(t) = Assessment => Ahead(t) = {}
      BY <1>1, DueIsComment, AssessmentAssumption DEF Due
    <3>2. ASSUME Ahead(t) = {}, NEW e \in EntriesOf(t) \ Malformed PROVE PostedBy(t, run, e)
      <4>1. PICK i \in Positions(t) : snapshot[i] = e
        BY DEF EntriesOf
      <4>2. i \in Nat /\ pos[t] \in Nat /\ ~(i > pos[t])
        BY <1>1, <3>2, <4>1, FirstOfGroup DEF Ahead, Typed
      <4> QED BY <4>1, <4>2, EntriesHaveTasks DEF Founded, Base, DeliveryInv, LoopInv, Handled
    <3> QED BY <3>1, <3>2
  <2>10. ASSUME NEW i \in 1..n, worklog'[t][i].what = Assessment
         PROVE  /\ \A j \in 1..n : j > i => worklog'[t][j].run # worklog'[t][i].run
                /\ worklog'[t][i].run = run =>
                     \A e \in EntriesOf(t) \ Malformed : PostedBy(t, run, e)
    <3>1. CASE i = n
      BY <2>1, <2>2, <2>9, <2>10, <3>1
    <3>2. CASE i \in 1..(n - 1)
      <4>1. worklog[t][i].what = Assessment /\ worklog[t][i].run # run
        BY <2>2, <2>4, <2>10, <3>2
      <4>2. \A j \in 1..(n - 1) : j > i => worklog[t][j].run # worklog[t][i].run
        BY <2>2, <3>2, <4>1 DEF Logged, ComesLast
      <4> QED BY <2>2, <2>5, <3>2, <4>1, <4>2
    <3> QED BY <2>5, <3>1, <3>2
  <2>11. ComesLast(t)'
    BY <1>2, <1>3, <2>2, <2>8, <2>10 DEF ComesLast
  <2> QED BY <1>5, <2>7, <2>11 DEF Logged
<1> QED BY <1>1, <1>7, <1>8, JobAdds

LEMMA LoggedNext == Founded /\ Logged /\ [Next]_vars => Logged'
<1> SUFFICES ASSUME Founded, Logged, [Next]_vars PROVE Logged'
  OBVIOUS
<1>u. ASSUME UNCHANGED <<worklog, run, snapshot>>, phase' = "running" => phase = "running",
             \A t \in Tasks : /\ pc'[t] \in BeforeDrafts \cup {"none"} /\ phase' = "running" =>
                                   pc[t] \in BeforeDrafts \cup {"none"}
                              /\ pc'[t] = "draft" => pc[t] = "draft"
      PROVE  Logged'
  BY <1>u DEF Logged, LogInv, ComesLast, NoneBy, NoAssessmentBy, EntriesOf, Positions, PostedBy
<1>t. Typed
  BY DEF Founded, Base, SpawnInv
<1>1. ASSUME NEW e \in Entries, QueueDraft(e) PROVE Logged'
  BY <1>1, <1>u DEF QueueDraft, proc
<1>2. ASSUME NEW t \in Tasks, ProbeCache(t) PROVE Logged'
  BY <1>2, <1>u DEF ProbeCache, proc
<1>3. ASSUME NEW t \in Tasks, Spawn(t) PROVE Logged'
  <2>1. /\ pc' = [pc EXCEPT ![t] = "spawned"] /\ UNCHANGED <<worklog, run, snapshot, phase>>
        /\ t \in Grouped /\ GroupNumber(t) = spawned + 1 /\ phase = "running"
    BY <1>3 DEF Spawn, disk
  <2>2. pc[t] = "none"
    <3>1. spawned \in Nat
      BY TaskOfAssumption, FS_CardinalityType DEF Founded, Base, SpawnInv, PoolInv
    <3>2. ~(GroupNumber(t) <= spawned)
      BY <2>1, <3>1
    <3> QED BY <2>1, <3>2 DEF Founded, Base, SpawnInv, PoolInv
  <2>3. pc'[t] = "spawned" /\ \A u \in Tasks \ {t} : pc'[u] = pc[u]
    BY <1>t, <2>1 DEF Typed
  <2> QED BY <1>u, <2>1, <2>2, <2>3 DEF BeforeDrafts
<1>4. ASSUME NEW t \in Tasks, Job(t) PROVE Logged'
  BY <1>4, JobLogged
<1>5. CASE Start
  <2>1. worklog' = worklog /\ run' = run + 1 /\ run \in Nat /\ \A t \in Tasks : pc'[t] = "none"
    BY <1>5, <1>t, RunsAssumption DEF Start, disk, Typed
  <2>2. ASSUME NEW t \in Tasks
        PROVE  \A i \in DOMAIN worklog[t] : worklog[t][i].run <= run' /\ worklog[t][i].run # run'
    <3>1. \A i \in DOMAIN worklog[t] : worklog[t][i].run <= run /\ worklog[t][i].run \in Nat
      BY <1>t, LogType DEF Logged, LogInv
    <3> QED BY <2>1, <3>1
  <2>3. \A t \in Tasks : LogInv(t)'
    BY <2>1, <2>2 DEF LogInv, NoneBy
  <2>4. \A t \in Tasks : ComesLast(t)'
    BY <2>1, <2>2 DEF ComesLast, Logged
  <2> QED BY <2>3, <2>4 DEF Logged
<1>6. CASE Wait
  BY <1>6, <1>u DEF Wait, disk
<1>7. CASE Die
  BY <1>7, <1>u DEF Die, disk
<1>8. CASE UNCHANGED vars
  BY <1>8, <1>u DEF vars
<1> QED BY <1>1, <1>2, <1>3, <1>4, <1>5, <1>6, <1>7, <1>8 DEF Next

(* The assessment of a run is the last thing the run says on a task, and all  *)
(* its drafts are there by then (dispatch.go:184-190).                        *)
THEOREM AssessmentEndsTheLog == Spec => []AssessmentComesLast
<1>1. Logged => AssessmentComesLast
  BY DEF Logged, ComesLast, AssessmentComesLast
<1> QED BY FoundedInit, FoundedNext, LoggedInit, LoggedNext, <1>1, PTL DEF Spec

-------------------------------------------------------------------------------
(* Jobs whose claude is killed.                                               *)

(* The job has no answer but the cancellation, and nothing left but to        *)
(* requeue; its run has posted nothing on the task.                           *)
CutInv(t) ==
  t \in cut =>
    /\ NoneBy(t)
    /\ pc[t] \in {"judge", "exit", "done", "none"}
    /\ pc[t] = "none" => phase = "idle"
    /\ pc[t] = "judge" => answer[t] = "cancelled" /\ cancelled
    /\ pc[t] \in {"exit", "done"} => outcome[t] = "requeued"
AllCut == \A t \in Tasks : CutInv(t)

LEMMA CutInit == Init => AllCut
BY DEF Init, AllCut, CutInv

(* The job of a task in cut goes its way out.                                 *)
LEMMA CutJob ==
  ASSUME Typed, NEW t \in Tasks, CutInv(t), t \in cut, Job(t)
  PROVE  /\ pc'[t] \in {"exit", "done"} /\ outcome'[t] = "requeued" /\ worklog'[t] = worklog[t]
<1>1. t \in Active
  BY JobLocal
<1>2. pc[t] \in {"judge", "exit"}
  BY <1>1 DEF CutInv, Active
<1>3. CASE pc[t] = "judge"
  <2>1. answer[t] = "cancelled" /\ cancelled
    BY <1>3 DEF CutInv
  <2>2. JudgeError(t)
    BY <1>3, <2>1 DEF Job, JobCancelled, JobChecked, JobFailsEarly, JobRuns, Launch, Answer, JudgeOk,
       DraftDropped, DraftPosted, DraftFails, WorklogPosted, WorklogFails, Drain, DrainFails, Report, Exit
  <2>3. Finish(t, "requeued", None, "requeued", FALSE) /\ worklog' = worklog
    BY <2>1, <2>2 DEF JudgeError
  <2> QED BY <2>3, FinishLocal
<1>4. CASE pc[t] = "exit"
  <2>1. Ends(t)
    BY <1>4, JobKinds DEF Early, Loops, Fails, WorklogPosted, Drain, BeforeDrafts
  <2> QED BY <1>4, <2>1 DEF Ends, CutInv
<1> QED BY <1>2, <1>3, <1>4

(* Only an answer puts a task into cut, and its job has posted nothing.       *)
LEMMA CutByAnswer ==
  ASSUME Typed, NEW t \in Tasks, LogInv(t), t \notin cut, t \in cut', Job(t)
  PROVE  /\ pc'[t] = "judge" /\ answer'[t] = "cancelled" /\ cancelled' /\ cancelled
         /\ NoneBy(t) /\ worklog' = worklog
<1>1. \E what \in Answers : Answer(t, what)
  BY DEF Job, JobCancelled, JobChecked, JobFailsEarly, JobRuns, Launch, JudgeOk, JudgeError,
     DraftDropped, DraftPosted, DraftFails, WorklogPosted, WorklogFails, Drain, DrainFails, Report, Exit
<1>2. /\ pc[t] = "claude" /\ cancelled /\ pc'[t] = "judge" /\ answer'[t] = "cancelled"
      /\ cancelled' = cancelled /\ worklog' = worklog
  BY <1>1 DEF Answer, Typed
<1>3. phase = "running"
  BY <1>2 DEF Typed, Active
<1> QED BY <1>2, <1>3 DEF LogInv, BeforeDrafts

(* While the run is on, a pool that is cancelled stays so.                    *)
LEMMA CancelStays == ASSUME NEW t \in Tasks, Job(t) PROVE cancelled => cancelled'
BY DEF Job, JobCancelled, JobChecked, JobFailsEarly, JobRuns, Launch, Answer, JudgeOk, JudgeError,
   DraftDropped, DraftPosted, DraftFails, WorklogPosted, WorklogFails, Drain, DrainFails, Report, Exit

LEMMA CutNext == Founded /\ Logged /\ AllCut /\ [Next]_vars => AllCut'
<1> SUFFICES ASSUME Founded, Logged, AllCut, [Next]_vars PROVE AllCut'
  OBVIOUS
<1>t. Typed
  BY DEF Founded, Base, SpawnInv
<1>u. ASSUME UNCHANGED <<worklog, run, cut, pc, answer, cancelled, outcome>>,
             phase = "idle" => phase' = "idle"
      PROVE  AllCut'
  BY <1>u DEF AllCut, CutInv, NoneBy
<1>1. ASSUME NEW e \in Entries, QueueDraft(e) PROVE AllCut'
  BY <1>1, <1>u DEF QueueDraft, proc
<1>2. ASSUME NEW t \in Tasks, ProbeCache(t) PROVE AllCut'
  BY <1>2, <1>u DEF ProbeCache, proc
<1>3. ASSUME NEW t \in Tasks, Spawn(t) PROVE AllCut'
  <2>1. /\ pc' = [pc EXCEPT ![t] = "spawned"] /\ phase = "running" /\ phase' = phase
        /\ UNCHANGED <<worklog, run, cut, answer, cancelled, outcome>>
        /\ t \in Grouped /\ GroupNumber(t) = spawned + 1
    BY <1>3 DEF Spawn, disk
  <2>2. pc[t] = "none"
    <3>1. spawned \in Nat
      BY TaskOfAssumption, FS_CardinalityType DEF Founded, Base, SpawnInv, PoolInv
    <3>2. ~(GroupNumber(t) <= spawned)
      BY <2>1, <3>1
    <3> QED BY <2>1, <3>2 DEF Founded, Base, SpawnInv, PoolInv
  <2>3. t \notin cut
    BY <1>t, <2>1, <2>2 DEF AllCut, CutInv, Typed
  <2>4. \A u \in Tasks \ {t} : pc'[u] = pc[u]
    BY <1>t, <2>1 DEF Typed
  <2> QED BY <2>1, <2>3, <2>4 DEF AllCut, CutInv, NoneBy
<1>4. ASSUME NEW t \in Tasks, Job(t) PROVE AllCut'
  <2>1. Local(t) /\ (cancelled => cancelled') /\ phase' = phase /\ run' = run
    BY <1>4, <1>t, JobLocal, CancelStays DEF Local, fixed
  <2>2. \A u \in Tasks \ {t} : CutInv(u)'
    BY <2>1 DEF Local, AllCut, CutInv, NoneBy
  <2>3. CASE t \in cut
    <3>1. pc'[t] \in {"exit", "done"} /\ outcome'[t] = "requeued" /\ worklog'[t] = worklog[t]
      BY <1>4, <1>t, <2>3, CutJob DEF AllCut
    <3> QED BY <2>1, <2>2, <2>3, <3>1 DEF AllCut, CutInv, NoneBy
  <2>4. CASE t \notin cut /\ t \in cut'
    <3>1. /\ pc'[t] = "judge" /\ answer'[t] = "cancelled" /\ cancelled'
          /\ NoneBy(t) /\ worklog' = worklog
      BY <1>4, <1>t, <2>4, CutByAnswer DEF Logged
    <3> QED BY <2>1, <2>2, <3>1 DEF AllCut, CutInv, NoneBy
  <2>5. CASE t \notin cut'
    BY <2>2, <2>5 DEF AllCut, CutInv
  <2> QED BY <2>3, <2>4, <2>5
<1>5. CASE Start
  BY <1>5 DEF Start, AllCut, CutInv
<1>6. CASE Wait
  BY <1>6, <1>u DEF Wait, disk
<1>7. CASE Die
  <2>1. /\ UNCHANGED <<worklog, run, cut>> /\ phase' = "idle" /\ \A t \in Tasks : pc'[t] = "none"
    BY <1>7 DEF Die, disk
  <2> QED BY <2>1 DEF AllCut, CutInv, NoneBy
<1>8. CASE UNCHANGED vars
  BY <1>8, <1>u DEF vars
<1> QED BY <1>1, <1>2, <1>3, <1>4, <1>5, <1>6, <1>7, <1>8 DEF Next

(* A job whose claude the cancelled pool killed is requeued and has posted    *)
(* nothing (dispatch.go:169-179).                                             *)
THEOREM KilledJobsRequeue == Spec => []CutJobsRequeue
<1>1. Founded /\ AllCut => CutJobsRequeue
  BY DEF AllCut, CutInv, NoneBy, CutJobsRequeue, PostedBy, Founded, Base, SpawnInv, Typed
<1> QED BY FoundedInit, FoundedNext, LoggedInit, LoggedNext, CutInit, CutNext, <1>1, PTL DEF Spec

-------------------------------------------------------------------------------
(* A cancelled pool.                                                          *)

(* A job under a cancelled pool leaves every other job where it is, and starts *)
(* no claude.                                                                 *)
LEMMA JobLaunches ==
  ASSUME Typed, NEW t \in Tasks, Job(t), cancelled
  PROVE  \A u \in Tasks : pc'[u] = "claude" => pc[u] = "claude"
<1>1. Local(t)
  BY JobLocal
<1>2. pc'[t] = "claude" => pc[t] = "claude"
  BY DEF Typed, Job, JobCancelled, JobChecked, JobFailsEarly, JobRuns, Launch, Answer, JudgeOk,
         JudgeError, DraftDropped, DraftPosted, DraftFails, Abort, WorklogPosted, WorklogFails,
         Drain, DrainFails, Report, Exit, Finish
<1> QED BY <1>1, <1>2 DEF Local

(* Once the pool is cancelled no step starts a claude, whatever the jobs had  *)
(* passed by then (dispatch.go:61-63, 142-146).                               *)
THEOREM NoLaunchAfterCancel == Spec => NoneLaunchedAfterCancel
<1>1. Typed /\ [Next]_vars => [cancelled => Launched' \subseteq Launched]_vars
  <2> SUFFICES ASSUME Typed, [Next]_vars, cancelled, NEW u \in Tasks, pc'[u] = "claude"
               PROVE  pc[u] = "claude"
    BY DEF Launched
  <2>1. ASSUME NEW t \in Tasks, Job(t) PROVE pc[u] = "claude"
    BY <2>1, JobLaunches
  <2>2. ASSUME NEW t \in Tasks, Spawn(t) PROVE pc[u] = "claude"
    BY <2>2 DEF Spawn, Typed
  <2>3. CASE Start \/ Die
    BY <2>3 DEF Start, Die
  <2>4. CASE pc' = pc
    BY <2>4
  <2> QED BY <2>1, <2>2, <2>3, <2>4 DEF Next, QueueDraft, ProbeCache, Wait, proc, vars
<1> QED BY <1>1, TypedInit, TypedNext, PTL DEF Spec, NoneLaunchedAfterCancel

-------------------------------------------------------------------------------
(* Status files.                                                              *)

(* A status file quotes an assessment the work log has; a job that is about   *)
(* to report has recorded its own.                                            *)
ShownInv(t) ==
  /\ status[t].assess # None => PostedBy(t, status[t].assess, Assessment)
  /\ pc[t] = "report" => PostedBy(t, run, Assessment)
AllShown == \A t \in Tasks : ShownInv(t)

(* What is recorded under t: the summary, or what was visible before.         *)
LEMMA RecordShows ==
  ASSUME Typed, NEW t \in Tasks, NEW state, NEW summary, NEW big, Record(t, state, summary, big)
  PROVE  \/ status' = status
         \/ /\ status'[t].assess = IF summary = None THEN Visible(t) ELSE summary
            /\ status'[t].big = big
<1>1. PICK s : s = [state |-> state, assess |-> IF summary = None THEN Visible(t) ELSE summary, big |-> big]
  OBVIOUS
<1>2. /\ s.big = big
      /\ s.assess = IF summary = None THEN Visible(t) ELSE summary
  BY <1>1
<1>3. status' = status \/ status' = [status EXCEPT ![t] = s]
  BY <1>1 DEF Record
<1> QED BY <1>2, <1>3 DEF Typed

(* A job leaves the status, records what was visible, or reports its run.     *)
Shows(t) ==
  \/ status'[t] = status[t]
  \/ /\ status'[t].assess = Visible(t) \/ (pc[t] = "report" /\ status'[t].assess = run)
     /\ status'[t].big => HugeOutput

LEMMA JobShows ==
  ASSUME Typed, NEW t \in Tasks, Job(t)
  PROVE  Shows(t)
<1>1. run # None
  <2>1. t \in Active
    BY JobLocal
  <2>2. run \in 1..MaxRuns
    BY <2>1, DueIsComment
  <2> QED BY <2>2, RunsAssumption
<1>f. ASSUME NEW state, NEW summary, NEW out, NEW prints \in BOOLEAN, Finish(t, state, summary, out, prints),
             summary = None \/ (summary = run /\ pc[t] = "report")
      PROVE  Shows(t)
  <2>1. PICK big \in {FALSE, HugeOutput /\ prints} : Record(t, state, summary, big)
    BY <1>f DEF Finish
  <2>2. big => HugeOutput
    BY <2>1
  <2>3. status' = status \/ (status'[t].assess = (IF summary = None THEN Visible(t) ELSE summary)
                             /\ status'[t].big = big)
    BY <2>1, RecordShows
  <2> QED BY <1>1, <1>f, <2>2, <2>3 DEF Shows
<1>2. CASE JobCancelled(t) \/ JobFailsEarly(t) \/ DrainFails(t) \/ Report(t)
  BY <1>2, <1>f DEF JobCancelled, JobFailsEarly, DrainFails, Report
<1>3. CASE JudgeError(t)
  <2>1. (answer[t] = "error") \in BOOLEAN
    OBVIOUS
  <2> QED BY <1>3, <1>f, <2>1 DEF JudgeError
<1>4. CASE DraftFails(t) \/ WorklogFails(t)
  BY <1>4, <1>f DEF DraftFails, WorklogFails, Abort
<1>5. CASE JobRuns(t)
  <2>1. Record(t, "running", None, FALSE)
    BY <1>5 DEF JobRuns
  <2>2. \/ status' = status
        \/ status'[t].assess = Visible(t) /\ status'[t].big = FALSE
    BY <2>1, RecordShows
  <2> QED BY <2>2 DEF Shows
<1>6. CASE JobChecked(t) \/ Launch(t) \/ JudgeOk(t) \/ DraftDropped(t) \/ DraftPosted(t)
           \/ WorklogPosted(t) \/ Drain(t) \/ Exit(t) \/ \E what \in Answers : Answer(t, what)
  BY <1>6 DEF JobChecked, Launch, JudgeOk, DraftDropped, DraftPosted, WorklogPosted, Drain, Exit,
              Answer, Shows
<1> QED BY <1>2, <1>3, <1>4, <1>5, <1>6 DEF Job

LEMMA ShownInit == Init => AllShown
BY DEF Init, AllShown, ShownInv, NoStatus

LEMMA JobShown ==
  ASSUME Founded, AllShown, NEW t \in Tasks, Job(t)
  PROVE  AllShown'
<1>1. Typed /\ Local(t) /\ run' = run
  BY JobLocal DEF Founded, Base, SpawnInv, Local, fixed
<1>2. \A u \in Tasks : \A n, w : PostedBy(u, n, w) => PostedBy(u, n, w)'
  BY <1>1, JobPosted
<1>3. \A u \in Tasks \ {t} : ShownInv(u)'
  <2>1. \A u \in Tasks \ {t} : status'[u] = status[u] /\ pc'[u] = pc[u]
    BY <1>1 DEF Local
  <2> QED BY <1>1, <1>2, <2>1 DEF AllShown, ShownInv
<1>4. Visible(t) # None => Visible(t) = status[t].assess
  BY DEF Visible
<1>5. status'[t].assess # None => PostedBy(t, status'[t].assess, Assessment)
  BY <1>1, <1>4, JobShows DEF Shows, AllShown, ShownInv
<1>6. pc'[t] = "report" => PostedBy(t, run, Assessment)
  <2>1. ASSUME pc'[t] = "report" PROVE Drain(t)
    BY <1>1, <2>1, JobKinds DEF Early, Loops, Fails, WorklogPosted, Ends, BeforeDrafts, Typed
  <2> QED BY <2>1 DEF Drain, Founded, Base, DeliveryInv, ToDrain
<1>7. ShownInv(t)'
  BY <1>1, <1>2, <1>5, <1>6 DEF ShownInv
<1> QED BY <1>3, <1>7 DEF AllShown

LEMMA ShownNext == Founded /\ AllShown /\ [Next]_vars => AllShown'
<1> SUFFICES ASSUME Founded, AllShown, [Next]_vars PROVE AllShown'
  OBVIOUS
<1>u. ASSUME UNCHANGED <<worklog, status>>,
             \A t \in Tasks : pc'[t] = "report" => pc[t] = "report" /\ run' = run
      PROVE  AllShown'
  BY <1>u DEF AllShown, ShownInv, PostedBy
<1>1. ASSUME NEW e \in Entries, QueueDraft(e) PROVE AllShown'
  BY <1>1, <1>u DEF QueueDraft, proc
<1>2. ASSUME NEW t \in Tasks, ProbeCache(t) PROVE AllShown'
  BY <1>2, <1>u DEF ProbeCache, proc
<1>3. ASSUME NEW t \in Tasks, Spawn(t) PROVE AllShown'
  BY <1>3, <1>u DEF Spawn, disk, Founded, Base, SpawnInv, Typed
<1>4. ASSUME NEW t \in Tasks, Job(t) PROVE AllShown'
  BY <1>4, JobShown
<1>5. CASE Start
  BY <1>5, <1>u DEF Start, disk
<1>6. CASE Wait
  BY <1>6, <1>u DEF Wait, disk
<1>7. CASE Die
  BY <1>7, <1>u DEF Die, disk
<1>8. CASE UNCHANGED vars
  BY <1>8, <1>u DEF vars
<1> QED BY <1>1, <1>2, <1>3, <1>4, <1>5, <1>6, <1>7, <1>8 DEF Next

(* The summary the walk shows is one the work log has (status.go:59-62).      *)
THEOREM SummaryWasLogged == Spec => []ShownWasLogged
<1>1. AllShown => ShownWasLogged
  BY DEF AllShown, ShownInv, ShownWasLogged, Visible
<1> QED BY FoundedInit, FoundedNext, ShownInit, ShownNext, <1>1, PTL DEF Spec

(* What a status file holds can be read back.                                 *)
SmallFiles == \A t \in Tasks : ~status[t].big

LEMMA SmallStays ==
  ASSUME HugeOutput = FALSE
  PROVE  Founded /\ SmallFiles /\ [Next]_vars => SmallFiles'
<1> SUFFICES ASSUME Founded, SmallFiles, [Next]_vars PROVE SmallFiles'
  OBVIOUS
<1>1. ASSUME NEW t \in Tasks, Job(t) PROVE SmallFiles'
  <2>1. Local(t) /\ Shows(t)
    BY <1>1, JobLocal, JobShows DEF Founded, Base, SpawnInv
  <2>2. ~status'[t].big
    BY <2>1 DEF Shows, SmallFiles
  <2> QED BY <2>1, <2>2 DEF Local, SmallFiles
<1>2. CASE status' = status
  BY <1>2 DEF SmallFiles
<1> QED BY <1>1, <1>2 DEF Next, QueueDraft, ProbeCache, Spawn, Start, Wait, Die, disk, vars

(* While no command prints more than a status file may hold, a failed or      *)
(* requeued re-run never takes the last assessment away from the walk, nor    *)
(* brings an older one back (status.go:83-87).                                *)
THEOREM SummaryNeverWiped ==
  ASSUME HugeOutput = FALSE
  PROVE  Spec => AssessmentNeverWiped
<1>1. Init => SmallFiles
  BY DEF Init, SmallFiles, NoStatus
<1>2. Founded /\ SmallFiles /\ [Next]_vars => SmallFiles'
  BY SmallStays
<1>3. Founded /\ Logged /\ AllShown /\ SmallFiles /\ SmallFiles' /\ [Next]_vars
        => [\A t \in Tasks : Visible(t) # None => Visible(t)' # None /\ Visible(t)' >= Visible(t)]_vars
  <2> SUFFICES ASSUME Founded, Logged, AllShown, SmallFiles, SmallFiles', [Next]_vars,
                      NEW u \in Tasks, Visible(u) # None
               PROVE  Visible(u)' # None /\ Visible(u)' >= Visible(u)
    OBVIOUS
  <2>1. Visible(u) = status[u].assess /\ Visible(u)' = status'[u].assess
    BY DEF Visible, SmallFiles
  <2>2. Visible(u) \in 1..MaxRuns /\ Visible(u) <= run
    <3>1. PICK i \in DOMAIN worklog[u] : worklog[u][i] = [run |-> Visible(u), what |-> Assessment]
      BY <2>1 DEF AllShown, ShownInv, PostedBy
    <3>2. worklog[u][i].run = Visible(u)
      BY <3>1
    <3>3. worklog[u][i].run \in 1..MaxRuns /\ worklog[u][i].run <= run
      BY LogType DEF Logged, LogInv, Founded, Base, SpawnInv
    <3> QED BY <3>2, <3>3
  <2>3. Visible(u) \in Nat /\ Visible(u) >= Visible(u)
    BY <2>2
  <2>4. CASE status'[u] = status[u]
    BY <2>1, <2>3, <2>4
  <2>5. ASSUME NEW t \in Tasks, Job(t) PROVE Visible(u)' # None /\ Visible(u)' >= Visible(u)
    <3>1. Typed /\ Local(t) /\ Shows(t) /\ t \in Active
      BY <2>5, JobLocal, JobShows DEF Founded, Base, SpawnInv
    <3>2. run \in 1..MaxRuns
      BY <3>1, DueIsComment
    <3>3. CASE u # t
      BY <2>4, <3>1, <3>3 DEF Local
    <3>4. CASE u = t /\ status'[t].assess = Visible(t)
      BY <2>1, <2>3, <3>4
    <3>5. CASE u = t /\ status'[t].assess = run
      BY <2>1, <2>2, <3>2, <3>5, RunsAssumption
    <3> QED BY <2>4, <3>1, <3>3, <3>4, <3>5 DEF Shows
  <2>6. CASE status' = status
    BY <2>4, <2>6
  <2> QED BY <2>5, <2>6 DEF Next, QueueDraft, ProbeCache, Spawn, Start, Wait, Die, disk, vars
<1> QED BY FoundedInit, FoundedNext, LoggedInit, LoggedNext, ShownInit, ShownNext, <1>1, <1>2, <1>3, PTL
        DEF Spec, AssessmentNeverWiped

-------------------------------------------------------------------------------
(* Repeated drafts.                                                           *)

(* No entry is twice in the queue, nor in a snapshot of it.                   *)
NoTwins(s) == \A i, j \in DOMAIN s : s[i] = s[j] => i = j

(* A draft that is recorded comes from a run that was aborted on its task, or *)
(* has left the queue, or is behind the loop of a job that is not through.    *)
Behind(t, e) == \E q \in Positions(t) : q <= pos[t] /\ snapshot[q] = e
Accounted(t, e, n) ==
  \/ n \in aborted[t]
  \/ e \in queued /\ ~InQueue(e)
  \/ n = run /\ pc[t] \in {"draft", "drain"} /\ Behind(t, e)

(* RepeatOnlyAfterAbort, of one task.                                         *)
NoRepeat(t) ==
  \A i, j \in DOMAIN worklog[t] :
    i < j /\ worklog[t][i].what = worklog[t][j].what /\ worklog[t][i].what \in Entries
      => worklog[t][i].run \in aborted[t]

RepeatInv(t) ==
  /\ NoRepeat(t)
  /\ \A i \in DOMAIN worklog[t] :
       worklog[t][i].what \in Entries => Accounted(t, worklog[t][i].what, worklog[t][i].run)

Repeats == NoTwins(pending) /\ NoTwins(snapshot) /\ \A t \in Tasks : RepeatInv(t)

LEMMA RepeatsInit == Init => Repeats
BY DEF Init, Repeats, NoTwins, RepeatInv, NoRepeat

LEMMA DrainedNoTwins ==
  ASSUME NEW D, pending \in Seq(Entries), NoTwins(pending),
         pending' \in Rewrites(pending, { i \in DOMAIN pending : pending[i] \notin D })
  PROVE  NoTwins(pending')
<1> DEFINE K == { i \in DOMAIN pending : pending[i] \notin D }
<1>1. PICK f \in Embeddings(K) : pending' = [k \in DOMAIN f |-> pending[f[k]]]
  BY DEF Rewrites
<1>2. /\ f \in [1..Cardinality(K) -> K] /\ K \subseteq Nat
      /\ \A a, b \in DOMAIN f : a < b => f[a] < f[b]
  BY DEF Embeddings
<1>3. \A a, b \in DOMAIN f : a \in Nat /\ b \in Nat /\ (a < b \/ b < a \/ a = b)
  <2>1. DOMAIN f = 1..Cardinality(K)
    BY <1>2
  <2>2. Cardinality(K) \in Nat
    <3>1. K \subseteq 1..Len(pending) /\ Len(pending) \in Nat
      OBVIOUS
    <3>2. IsFiniteSet(1..Len(pending))
      BY <3>1, FS_Interval
    <3> QED BY <3>1, <3>2, FS_Subset, FS_CardinalityType
  <2> QED BY <2>1, <2>2
<1>4. \A a \in DOMAIN f : f[a] \in DOMAIN pending /\ f[a] \in Nat
  BY <1>2
<1>5. ASSUME NEW a \in DOMAIN f, NEW b \in DOMAIN f, f[a] = f[b] PROVE a = b
  <2>1. ~(f[a] < f[b]) /\ ~(f[b] < f[a])
    BY <1>4, <1>5
  <2> QED BY <1>2, <1>3, <2>1
<1>6. DOMAIN pending' = DOMAIN f /\ \A a \in DOMAIN f : pending'[a] = pending[f[a]]
  BY <1>1
<1> HIDE DEF K
<1> QED BY <1>4, <1>5, <1>6 DEF NoTwins

(* A job that is not through still has its entries in the queue, so none of   *)
(* what is ahead of it was recorded but by an aborted run.                    *)
LEMMA AheadIsNew ==
  ASSUME Founded, Repeats, NEW t \in Tasks, pc[t] = "draft", Ahead(t) # {},
         NEW n, Accounted(t, snapshot[NextDraft(t)], n)
  PROVE  n \in aborted[t]
<1>1. Typed /\ phase = "running"
  BY DEF Founded, Base, SpawnInv, Typed, Active
<1>2. /\ NextDraft(t) \in Positions(t) /\ NextDraft(t) > pos[t] /\ NextDraft(t) \in Nat
      /\ pos[t] \in Nat
  <2>1. pos[t] \in Nat /\ snapshot \in Seq(Entries) /\ Len(snapshot) \in Nat
    BY <1>1 DEF Typed
  <2> QED BY <2>1, NextDraftIsNext
<1>3. snapshot[NextDraft(t)] \in EntriesOf(t)
  BY <1>2 DEF EntriesOf
<1>4. InQueue(snapshot[NextDraft(t)])
  BY <1>1, <1>3 DEF Founded, Base, TallyInv, Through
<1>5. ~Behind(t, snapshot[NextDraft(t)])
  <2>1. \A q \in Positions(t) : q \in DOMAIN snapshot /\ q \in Nat
    BY <1>1, FirstOfGroup DEF Positions, Typed
  <2>2. \A q \in Positions(t) : snapshot[q] = snapshot[NextDraft(t)] => q = NextDraft(t)
    BY <1>2, <2>1 DEF Repeats, NoTwins
  <2> QED BY <1>2, <2>1, <2>2 DEF Behind
<1> QED BY <1>4, <1>5 DEF Accounted

(* A comment that is added repeats only what an aborted run recorded.         *)
LEMMA AddedNoRepeat ==
  ASSUME Typed, NEW t \in Tasks, NEW w, Added(t, w), RepeatInv(t), aborted[t] \subseteq aborted'[t],
         w \in Entries => \A n : Accounted(t, w, n) => n \in aborted[t]
  PROVE  NoRepeat(t)'
<1>1. PICK n \in Nat : n = Len(worklog[t]) + 1
  BY LogType
<1>2. /\ DOMAIN worklog[t] = 1..(n - 1) /\ DOMAIN worklog'[t] = 1..n
      /\ \A i \in 1..(n - 1) : worklog'[t][i] = worklog[t][i]
      /\ worklog'[t][n].what = w
  BY <1>1, LogType DEF Added
<1>3. SUFFICES ASSUME NEW i \in 1..n, NEW j \in 1..n, i < j,
                      worklog'[t][i].what = worklog'[t][j].what, worklog'[t][i].what \in Entries
               PROVE  worklog'[t][i].run \in aborted'[t]
  BY <1>2 DEF NoRepeat
<1>4. i \in 1..(n - 1)
  BY <1>3
<1>5. CASE j \in 1..(n - 1)
  <2>1. worklog[t][i].run \in aborted[t]
    BY <1>2, <1>3, <1>4, <1>5 DEF RepeatInv, NoRepeat
  <2> QED BY <1>2, <1>4, <2>1
<1>6. CASE j = n
  <2>1. worklog[t][i].what = w /\ w \in Entries
    BY <1>2, <1>3, <1>4, <1>6
  <2>2. Accounted(t, w, worklog[t][i].run)
    BY <1>2, <1>4, <2>1 DEF RepeatInv
  <2> QED BY <1>2, <1>4, <2>1, <2>2
<1> QED BY <1>5, <1>6

(* What keeps RepeatInv when the log of t is kept.                            *)
LEMMA KeptRepeats ==
  ASSUME NEW t \in Tasks, RepeatInv(t), Kept(t), aborted[t] \subseteq aborted'[t],
         \A e \in Entries : \A n : Accounted(t, e, n) => Accounted(t, e, n)'
  PROVE  RepeatInv(t)'
BY DEF RepeatInv, NoRepeat, Kept

(* What keeps it when a comment is added.                                     *)
LEMMA AddedRepeats ==
  ASSUME Typed, NEW t \in Tasks, NEW w, Added(t, w), RepeatInv(t), aborted[t] \subseteq aborted'[t],
         w \in Entries => \A n : Accounted(t, w, n) => n \in aborted[t],
         w \in Entries => Accounted(t, w, run)',
         run' = run,
         \A e \in Entries : \A n : Accounted(t, e, n) => Accounted(t, e, n)'
  PROVE  RepeatInv(t)'
<1>1. NoRepeat(t)'
  BY AddedNoRepeat
<1>2. PICK n \in Nat : n = Len(worklog[t]) + 1
  BY LogType
<1>3. /\ DOMAIN worklog[t] = 1..(n - 1) /\ DOMAIN worklog'[t] = 1..n
      /\ \A i \in 1..(n - 1) : worklog'[t][i] = worklog[t][i]
      /\ worklog'[t][n].what = w /\ worklog'[t][n].run = run
  BY <1>2, LogType DEF Added
<1>4. ASSUME NEW i \in 1..n, NEW e \in Entries, NEW m,
             e = worklog'[t][i].what, m = worklog'[t][i].run
      PROVE  Accounted(t, e, m)'
  <2>1. CASE i = n
    BY <1>3, <1>4, <2>1
  <2>2. CASE i \in 1..(n - 1)
    <3>1. worklog'[t][i] = worklog[t][i]
      BY <1>3, <2>2
    <3>2. Accounted(t, e, m)
      BY <1>3, <1>4, <2>2, <3>1 DEF RepeatInv
    <3> QED BY <3>2
  <2> QED BY <1>2, <2>1, <2>2
<1>5. \A i \in 1..n : worklog'[t][i].what \in Entries =>
        Accounted(t, worklog[t][i].what, worklog[t][i].run)'
  BY <1>4 DEF Accounted, Behind
<1> QED BY <1>1, <1>3, <1>5 DEF RepeatInv

LEMMA JobRepeats ==
  ASSUME Founded, Repeats, NEW t \in Tasks, Job(t)
  PROVE  Repeats'
<1>1. Typed /\ Local(t) /\ t \in Active
  BY JobLocal DEF Founded, Base, SpawnInv
<1>2. UNCHANGED <<run, phase, snapshot, queued>>
  BY <1>1 DEF Local, fixed
<1>3. \A u \in Tasks : Positions(u)' = Positions(u)
  BY <1>2 DEF Positions
<1>4. NoTwins(pending') /\ \A e : InQueue(e)' => InQueue(e)
  <2>1. CASE pending' = pending
    BY <2>1 DEF Repeats, InQueue
  <2>2. CASE Drain(t)
    <3>1. /\ pending \in Seq(Entries) /\ NoTwins(pending)
          /\ pending' \in Rewrites(pending, { i \in DOMAIN pending : pending[i] \notin EntriesOf(t) })
      BY <1>1, <2>2 DEF Drain, Typed, Repeats
    <3> QED BY <3>1, DrainedNoTwins, DrainedRest
  <2> QED BY <1>1, <2>1, <2>2, JobKinds DEF Early, Loops, Fails, WorklogPosted, Ends
<1>5. ASSUME NEW u \in Tasks, u # t PROVE RepeatInv(u)'
  <2>1. /\ pc'[u] = pc[u] /\ pos'[u] = pos[u] /\ aborted'[u] = aborted[u] /\ Kept(u)
    BY <1>1, <1>5 DEF Local, Kept
  <2>2. \A e \in Entries : \A n : Accounted(u, e, n) => Accounted(u, e, n)'
    BY <1>2, <1>3, <1>4, <2>1 DEF Accounted, Behind
  <2> QED BY <2>1, <2>2, KeptRepeats DEF Repeats
<1>6. RepeatInv(t)
  BY DEF Repeats
<1>7. PICK w : w = Due(t)
  OBVIOUS
<1>n. w \in Entries /\ pc[t] = "draft" => \A n : Accounted(t, w, n) => n \in aborted[t]
  BY <1>7, AheadIsNew, AssessmentAssumption DEF Due
<1>a. Kept(t) \/ (pc[t] = "draft" /\ Added(t, w))
  BY <1>1, <1>7, JobAdds
<1>8. CASE Early(t) \/ Ends(t)
  <2>1. Kept(t) /\ aborted' = aborted /\ pc[t] \notin {"draft", "drain"}
    BY <1>8 DEF Early, Ends, Kept, BeforeDrafts
  <2>2. \A e \in Entries : \A n : Accounted(t, e, n) => Accounted(t, e, n)'
    BY <1>2, <1>4, <2>1 DEF Accounted
  <2> QED BY <1>2, <1>4, <1>5, <1>6, <2>1, <2>2, KeptRepeats DEF Repeats
<1>9. CASE Loops(t)
  <2>1. /\ pc[t] = "draft" /\ pc' = pc /\ aborted' = aborted /\ Ahead(t) # {}
        /\ pos' = [pos EXCEPT ![t] = NextDraft(t)]
    BY <1>9 DEF Loops
  <2>2. /\ NextDraft(t) \in Positions(t) /\ NextDraft(t) \in Nat /\ NextDraft(t) > pos[t]
        /\ pos[t] \in Nat /\ pos'[t] = NextDraft(t)
    <3>1. pos[t] \in Nat /\ snapshot \in Seq(Entries) /\ Len(snapshot) \in Nat
      BY <1>1 DEF Typed
    <3>2. PICK m : m = NextDraft(t)
      OBVIOUS
    <3>3. m \in Positions(t) /\ m \in 1..Len(snapshot) /\ m > pos[t]
      BY <2>1, <3>1, <3>2, NextDraftIsNext
    <3>4. pos'[t] = m
      BY <1>1, <2>1, <3>2 DEF Typed
    <3> QED BY <3>1, <3>2, <3>3, <3>4
  <2>3. ASSUME NEW e, Behind(t, e) PROVE Behind(t, e)'
    <3>1. PICK q \in Positions(t) : q <= pos[t] /\ snapshot[q] = e
      BY <2>3 DEF Behind
    <3>2. q \in Nat
      BY <1>1, FirstOfGroup DEF Typed
    <3>3. q <= pos'[t]
      BY <2>2, <3>1, <3>2
    <3> QED BY <1>2, <1>3, <3>1, <3>3 DEF Behind
  <2>4. \A e \in Entries : \A n : Accounted(t, e, n) => Accounted(t, e, n)'
    BY <1>2, <1>4, <2>1, <2>3 DEF Accounted
  <2>5. w = snapshot[NextDraft(t)]
    BY <1>7, <2>1 DEF Due
  <2>6. Accounted(t, w, run)'
    <3>1. PICK q \in Positions(t) : q = NextDraft(t)
      BY <2>2
    <3>2. Behind(t, w)'
      BY <1>2, <1>3, <2>2, <2>5, <3>1 DEF Behind
    <3> QED BY <1>2, <2>1, <3>2 DEF Accounted
  <2>7. CASE Kept(t)
    BY <1>2, <1>4, <1>5, <1>6, <2>1, <2>4, <2>7, KeptRepeats DEF Repeats
  <2>8. CASE Added(t, w)
    BY <1>1, <1>2, <1>4, <1>5, <1>6, <1>n, <2>1, <2>4, <2>6, <2>8, AddedRepeats DEF Repeats
  <2> QED BY <1>a, <2>7, <2>8
<1>10. CASE Fails(t)
  <2>1. aborted[t] \subseteq aborted'[t] /\ run \in aborted'[t]
    BY <1>1, <1>10 DEF Fails, Typed
  <2>2. \A e \in Entries : \A n : Accounted(t, e, n) => Accounted(t, e, n)'
    BY <1>2, <1>4, <2>1 DEF Accounted
  <2>3. Accounted(t, w, run)'
    BY <1>2, <2>1 DEF Accounted
  <2>4. CASE Kept(t)
    BY <1>2, <1>4, <1>5, <1>6, <2>1, <2>2, <2>4, KeptRepeats DEF Repeats
  <2>5. CASE pc[t] = "draft" /\ Added(t, w)
    BY <1>1, <1>2, <1>4, <1>5, <1>6, <1>n, <2>1, <2>2, <2>3, <2>5, AddedRepeats DEF Repeats
  <2> QED BY <1>a, <2>4, <2>5
<1>11. CASE WorklogPosted(t)
  <2>1. /\ aborted' = aborted /\ pos' = pos /\ Ahead(t) = {} /\ pc[t] = "draft" /\ pc'[t] = "drain"
    BY <1>1, <1>11 DEF WorklogPosted, Typed
  <2>2. \A e \in Entries : \A n : Accounted(t, e, n) => Accounted(t, e, n)'
    BY <1>2, <1>3, <1>4, <2>1 DEF Accounted, Behind
  <2>3. w \notin Entries
    BY <1>7, <2>1, AssessmentAssumption DEF Due
  <2>4. CASE Kept(t)
    BY <1>2, <1>4, <1>5, <1>6, <2>1, <2>2, <2>4, KeptRepeats DEF Repeats
  <2>5. CASE Added(t, w)
    BY <1>1, <1>2, <1>4, <1>5, <1>6, <2>1, <2>2, <2>3, <2>5, AddedRepeats DEF Repeats
  <2> QED BY <1>a, <2>4, <2>5
<1>12. CASE Drain(t)
  <2>1. aborted' = aborted /\ Kept(t) /\ \A e : InQueue(e)' <=> InQueue(e) /\ e \notin EntriesOf(t)
    BY <1>1, <1>12, DrainedRest DEF Drain, Typed, Kept
  <2>2. \A e : Behind(t, e) => e \in queued /\ ~InQueue(e)'
    <3>1. \A e : Behind(t, e) => e \in EntriesOf(t)
      BY DEF Behind, EntriesOf
    <3>2. \A e \in EntriesOf(t) : e \in queued
      BY SnapshotEntries DEF Founded, Base, TallyInv
    <3> QED BY <2>1, <3>1, <3>2
  <2>3. \A e \in Entries : \A n : Accounted(t, e, n) => Accounted(t, e, n)'
    BY <1>2, <1>4, <2>1, <2>2 DEF Accounted
  <2> QED BY <1>2, <1>4, <1>5, <1>6, <2>1, <2>3, KeptRepeats DEF Repeats
<1> QED BY <1>1, <1>8, <1>9, <1>10, <1>11, <1>12, JobKinds

LEMMA RepeatsNext == Founded /\ Repeats /\ [Next]_vars => Repeats'
<1> SUFFICES ASSUME Founded, Repeats, [Next]_vars PROVE Repeats'
  OBVIOUS
<1>t. Typed
  BY DEF Founded, Base, SpawnInv
<1>k. ASSUME worklog' = worklog, NoTwins(pending)', NoTwins(snapshot)',
             \A t \in Tasks : /\ aborted[t] \subseteq aborted'[t]
                             /\ \A e \in Entries : \A n : Accounted(t, e, n) => Accounted(t, e, n)'
      PROVE  Repeats'
  BY <1>k, KeptRepeats DEF Repeats, Kept
<1>u. ASSUME UNCHANGED <<worklog, pending, snapshot, queued, run, pos, aborted>>,
             \A t \in Tasks : pc[t] \in {"draft", "drain"} => pc'[t] = pc[t]
      PROVE  Repeats'
  <2>1. \A t \in Tasks : \A e \in Entries : \A n : Accounted(t, e, n) => Accounted(t, e, n)'
    BY <1>u DEF Accounted, Behind, Positions, InQueue
  <2> QED BY <1>k, <1>u, <2>1 DEF Repeats
<1>1. ASSUME NEW e \in Entries, QueueDraft(e) PROVE Repeats'
  <2>1. /\ pending \in Seq(Entries) /\ pending' = Append(pending, e) /\ queued' = queued \cup {e}
        /\ e \notin queued
        /\ UNCHANGED <<worklog, snapshot, run, pos, pc, aborted>>
    BY <1>1, <1>t DEF QueueDraft, proc, Typed
  <2>2. /\ Len(pending) \in Nat /\ DOMAIN pending = 1..Len(pending)
        /\ DOMAIN pending' = 1..(Len(pending) + 1)
        /\ \A i \in 1..Len(pending) : pending'[i] = pending[i]
        /\ pending'[Len(pending) + 1] = e
    BY <2>1
  <2>3. \A i \in 1..(Len(pending) + 1) : i \in 1..Len(pending) \/ i = Len(pending) + 1
    BY <2>2
  <2>4. \A i \in 1..Len(pending) : pending[i] # e
    BY <2>1, <2>2 DEF Founded, Base, TallyInv, InQueue
  <2>5. NoTwins(pending)'
    BY <2>2, <2>3, <2>4 DEF NoTwins, Repeats
  <2>6. \A f : InQueue(f)' => InQueue(f) \/ f = e
    BY <2>2, <2>3 DEF InQueue
  <2>7. \A t \in Tasks : \A f \in Entries : \A n : Accounted(t, f, n) => Accounted(t, f, n)'
    BY <2>1, <2>6 DEF Accounted, Behind, Positions
  <2> QED BY <1>k, <2>1, <2>5, <2>7 DEF Repeats
<1>2. ASSUME NEW t \in Tasks, ProbeCache(t) PROVE Repeats'
  BY <1>2, <1>u DEF ProbeCache, proc
<1>3. ASSUME NEW t \in Tasks, Spawn(t) PROVE Repeats'
  <2>1. /\ pc' = [pc EXCEPT ![t] = "spawned"]
        /\ UNCHANGED <<worklog, pending, snapshot, queued, run, pos, aborted>>
        /\ t \in Grouped /\ GroupNumber(t) = spawned + 1 /\ phase = "running"
    BY <1>3 DEF Spawn, disk
  <2>2. pc[t] = "none"
    <3>1. spawned \in Nat
      BY TaskOfAssumption, FS_CardinalityType DEF Founded, Base, SpawnInv, PoolInv
    <3>2. ~(GroupNumber(t) <= spawned)
      BY <2>1, <3>1
    <3> QED BY <2>1, <3>2 DEF Founded, Base, SpawnInv, PoolInv
  <2>3. \A u \in Tasks \ {t} : pc'[u] = pc[u]
    BY <1>t, <2>1 DEF Typed
  <2> QED BY <1>u, <2>1, <2>2, <2>3
<1>4. ASSUME NEW t \in Tasks, Job(t) PROVE Repeats'
  BY <1>4, JobRepeats
<1>5. CASE Start
  <2>1. /\ phase = "idle" /\ snapshot' = pending
        /\ UNCHANGED <<worklog, pending, queued, aborted>>
    BY <1>5 DEF Start, disk
  <2>2. \A t \in Tasks : pc[t] \notin {"draft", "drain"}
    BY <1>t, <2>1 DEF Typed, Active
  <2>3. \A t \in Tasks : \A e \in Entries : \A n : Accounted(t, e, n) => Accounted(t, e, n)'
    BY <2>1, <2>2 DEF Accounted, InQueue
  <2>4. NoTwins(pending)' /\ NoTwins(snapshot)'
    BY <2>1 DEF Repeats, NoTwins
  <2> QED BY <1>k, <2>1, <2>3, <2>4
<1>6. CASE Wait
  BY <1>6, <1>u DEF Wait, disk
<1>7. CASE Die
  <2>1. /\ UNCHANGED <<worklog, pending, queued, snapshot, run>>
        /\ aborted' = [t \in Tasks |-> IF Writing(t) THEN aborted[t] \cup {run} ELSE aborted[t]]
    BY <1>7 DEF Die, disk
  <2>2. \A t \in Tasks : /\ aborted[t] \subseteq aborted'[t]
                         /\ pc[t] \in {"draft", "drain"} => run \in aborted'[t]
    BY <2>1 DEF Writing
  <2>3. \A t \in Tasks : \A e \in Entries : \A n : Accounted(t, e, n) => Accounted(t, e, n)'
    BY <2>1, <2>2 DEF Accounted, InQueue
  <2> QED BY <1>k, <2>1, <2>2, <2>3 DEF Repeats
<1>8. CASE UNCHANGED vars
  BY <1>8, <1>u DEF vars
<1> QED BY <1>1, <1>2, <1>3, <1>4, <1>5, <1>6, <1>7, <1>8 DEF Next

(* A draft is recorded a second time only if the run that recorded it before  *)
(* failed or died in its writeback; a requeued job has recorded nothing       *)
(* (docs/superpowers/specs/2026-07-21-dispatcher-design.md:84-92).            *)
THEOREM RepeatsOnlyAfterAbort == Spec => []RepeatOnlyAfterAbort
<1>1. Repeats => RepeatOnlyAfterAbort
  BY DEF Repeats, RepeatInv, NoRepeat, RepeatOnlyAfterAbort
<1> QED BY FoundedInit, FoundedNext, RepeatsInit, RepeatsNext, <1>1, PTL DEF Spec

-------------------------------------------------------------------------------
(* The dispatcher delivers as Delivery promises.                              *)

(* What is before an entry of the snapshot in the queue was before it in the  *)
(* snapshot.                                                                  *)
InOrder ==
  \A l \in DOMAIN pending : \A j \in DOMAIN snapshot : snapshot[j] = pending[l] =>
    \A k \in DOMAIN pending : k < l => \E i \in DOMAIN snapshot : i < j /\ snapshot[i] = pending[k]

(* No run to come has been aborted, and a job that was is on its way out.     *)
AbortInv(t) ==
  /\ \A n \in aborted[t] : n <= run
  /\ phase = "running" /\ run \in aborted[t] => pc[t] \in {"exit", "done"}

Promising == InOrder /\ \A t \in Tasks : AbortInv(t)

LEMMA PromisingInit == Init => Promising
BY DEF Init, Promising, InOrder, AbortInv

(* A drain turns no two entries round.                                        *)
LEMMA DrainedInOrder ==
  ASSUME NEW D, pending \in Seq(Entries), InOrder, snapshot' = snapshot,
         pending' \in Rewrites(pending, { i \in DOMAIN pending : pending[i] \notin D })
  PROVE  InOrder'
<1> DEFINE K == { i \in DOMAIN pending : pending[i] \notin D }
<1>1. PICK f \in Embeddings(K) : pending' = [k \in DOMAIN f |-> pending[f[k]]]
  BY DEF Rewrites
<1>2. /\ DOMAIN pending' = DOMAIN f
      /\ \A a \in DOMAIN f : pending'[a] = pending[f[a]] /\ f[a] \in DOMAIN pending
      /\ \A a, b \in DOMAIN f : a < b => f[a] < f[b]
  BY <1>1 DEF Embeddings
<1> HIDE DEF K
<1> QED BY <1>2 DEF InOrder

LEMMA JobPromising ==
  ASSUME Founded, Promising, NEW t \in Tasks, Job(t)
  PROVE  Promising'
<1>1. Typed /\ Local(t) /\ t \in Active
  BY JobLocal DEF Founded, Base, SpawnInv
<1>2. UNCHANGED <<run, phase, snapshot>> /\ run \in 1..MaxRuns
  BY <1>1, DueIsComment DEF Local, fixed
<1>3. InOrder'
  <2>1. CASE pending' = pending
    BY <1>2, <2>1 DEF Promising, InOrder
  <2>2. CASE Drain(t)
    BY <1>1, <1>2, <2>2, DrainedInOrder DEF Drain, Typed, Promising
  <2> QED BY <1>1, <2>1, <2>2, JobKinds DEF Early, Loops, Fails, WorklogPosted, Ends
<1>4. \A u \in Tasks \ {t} : AbortInv(u)'
  BY <1>1, <1>2 DEF Local, Promising, AbortInv
<1>5. AbortInv(t)'
  <2>0. AbortInv(t) /\ phase = "running"
    BY <1>1, DueIsComment DEF Promising
  <2>1. CASE Fails(t)
    <3>1. \A n \in aborted'[t] : n \in aborted[t] \/ n = run
      BY <1>1, <2>1 DEF Fails, Typed
    <3>2. pc'[t] = "exit"
      BY <2>1 DEF Fails
    <3> QED BY <1>2, <2>0, <3>1, <3>2 DEF AbortInv
  <2>2. CASE Ends(t)
    <3>1. aborted' = aborted /\ pc'[t] \in {"exit", "done"}
      BY <2>2 DEF Ends
    <3> QED BY <1>2, <2>0, <3>1 DEF AbortInv
  <2>3. CASE Early(t) \/ Loops(t) \/ WorklogPosted(t) \/ Drain(t)
    <3>1. aborted' = aborted /\ pc[t] \notin {"exit", "done"}
      BY <2>3 DEF Early, Loops, WorklogPosted, Drain, BeforeDrafts
    <3> QED BY <1>2, <2>0, <3>1 DEF AbortInv
  <2> QED BY <1>1, <2>1, <2>2, <2>3, JobKinds
<1> QED BY <1>3, <1>4, <1>5 DEF Promising

LEMMA PromisingNext == Founded /\ Repeats /\ Promising /\ [Next]_vars => Promising'
<1> SUFFICES ASSUME Founded, Repeats, Promising, [Next]_vars PROVE Promising'
  OBVIOUS
<1>t. Typed /\ run \in Nat
  BY RunsAssumption DEF Founded, Base, SpawnInv, Typed
<1>u. ASSUME UNCHANGED <<pending, snapshot, aborted, run>>,
             phase' = "running" => phase = "running",
             \A t \in Tasks : pc[t] \in {"exit", "done"} => pc'[t] = pc[t] \/ phase' = "idle"
      PROVE  Promising'
  BY <1>u DEF Promising, InOrder, AbortInv
<1>1. ASSUME NEW e \in Entries, QueueDraft(e) PROVE Promising'
  <2>1. /\ pending \in Seq(Entries) /\ pending' = Append(pending, e) /\ e \notin queued
        /\ UNCHANGED <<snapshot, aborted, run, phase, pc>>
    BY <1>1, <1>t DEF QueueDraft, proc, Typed
  <2>2. /\ Len(pending) \in Nat /\ DOMAIN pending = 1..Len(pending)
        /\ DOMAIN pending' = 1..(Len(pending) + 1)
        /\ \A i \in 1..Len(pending) : pending'[i] = pending[i]
        /\ pending'[Len(pending) + 1] = e
    BY <2>1
  <2>3. \A l \in DOMAIN pending' : l = Len(pending) + 1 \/ l \in DOMAIN pending
    BY <2>2
  <2>4. \A j \in DOMAIN snapshot : snapshot[j] # e
    BY <2>1 DEF Founded, Base, TallyInv
  <2>5. \A l \in DOMAIN pending : \A k \in DOMAIN pending' : k < l => k \in DOMAIN pending
    BY <2>2, <2>3
  <2>6. InOrder'
    BY <2>1, <2>2, <2>3, <2>4, <2>5 DEF Promising, InOrder
  <2> QED BY <2>1, <2>6 DEF Promising, AbortInv
<1>2. ASSUME NEW t \in Tasks, ProbeCache(t) PROVE Promising'
  BY <1>2, <1>u DEF ProbeCache, proc
<1>3. ASSUME NEW t \in Tasks, Spawn(t) PROVE Promising'
  <2>1. /\ pc' = [pc EXCEPT ![t] = "spawned"]
        /\ UNCHANGED <<pending, snapshot, run, aborted, phase>>
        /\ t \in Grouped /\ GroupNumber(t) = spawned + 1 /\ phase = "running"
    BY <1>3 DEF Spawn, disk
  <2>2. pc[t] = "none"
    <3>1. spawned \in Nat
      BY TaskOfAssumption, FS_CardinalityType DEF Founded, Base, SpawnInv, PoolInv
    <3>2. ~(GroupNumber(t) <= spawned)
      BY <2>1, <3>1
    <3> QED BY <2>1, <3>2 DEF Founded, Base, SpawnInv, PoolInv
  <2>3. \A u \in Tasks \ {t} : pc'[u] = pc[u]
    BY <1>t, <2>1 DEF Typed
  <2> QED BY <1>u, <2>1, <2>2, <2>3
<1>4. ASSUME NEW t \in Tasks, Job(t) PROVE Promising'
  BY <1>4, JobPromising
<1>5. CASE Start
  <2>1. snapshot' = pending /\ pending' = pending /\ aborted' = aborted /\ run' = run + 1
    BY <1>5 DEF Start, disk
  <2>2. InOrder'
    BY <2>1 DEF InOrder, Repeats, NoTwins
  <2>3. \A t \in Tasks : \A n \in aborted[t] : n \in Nat /\ n <= run
    BY <1>t DEF Typed, Promising, AbortInv
  <2>4. \A t \in Tasks : AbortInv(t)'
    BY <1>t, <2>1, <2>3 DEF AbortInv
  <2> QED BY <2>2, <2>4 DEF Promising
<1>6. CASE Wait
  BY <1>6, <1>u DEF Wait, disk
<1>7. CASE Die
  <2>1. /\ UNCHANGED <<pending, snapshot, run>> /\ phase' = "idle"
        /\ aborted' = [t \in Tasks |-> IF Writing(t) THEN aborted[t] \cup {run} ELSE aborted[t]]
    BY <1>7 DEF Die, disk
  <2>2. \A t \in Tasks : \A n \in aborted'[t] : n \in aborted[t] \/ n = run
    BY <2>1
  <2> QED BY <1>t, <2>1, <2>2 DEF Promising, InOrder, AbortInv
<1>8. CASE UNCHANGED vars
  BY <1>8, <1>u DEF vars
<1> QED BY <1>1, <1>2, <1>3, <1>4, <1>5, <1>6, <1>7, <1>8 DEF Next
(* What waits before an entry of a job that writes back is of the snapshot    *)
(* too, and before it there.                                                  *)
LEMMA BeforeInSnapshot ==
  ASSUME Founded, Promising, NEW t \in Tasks, NEW q \in Positions(t),
         NEW i \in DOMAIN pending, pending[i] = snapshot[q],
         NEW j \in DOMAIN pending, TaskOf[pending[j]] = t, j <= i
  PROVE  \E p \in Positions(t) : p <= q /\ snapshot[p] = pending[j]
<1>1. Typed
  BY DEF Founded, Base, SpawnInv
<1>2. i \in Nat /\ j \in Nat /\ q \in Nat /\ q \in DOMAIN snapshot
  BY <1>1, FirstOfGroup DEF Typed, Positions
<1>3. CASE j = i
  BY <1>2, <1>3
<1>4. CASE j < i
  <2>1. PICK p \in DOMAIN snapshot : p < q /\ snapshot[p] = pending[j]
    BY <1>2, <1>4 DEF Promising, InOrder
  <2>2. p \in Nat
    BY <1>1 DEF Typed
  <2> QED BY <1>2, <2>1, <2>2 DEF Positions
<1> QED BY <1>2, <1>3, <1>4

(* So it has been handled, if the draft loop has passed that entry.           *)
LEMMA BeforeIsHandled ==
  ASSUME Founded, Promising, NEW t \in Tasks, NEW q \in Positions(t), q <= pos[t],
         NEW i \in DOMAIN pending, pending[i] = snapshot[q],
         NEW j \in DOMAIN pending, TaskOf[pending[j]] = t, j <= i
  PROVE  Promise!Handled(t, run, pending[j])
<1>1. PICK p \in Positions(t) : p <= q /\ snapshot[p] = pending[j]
  BY BeforeInSnapshot
<1>2. p \in Nat /\ q \in Nat /\ pos[t] \in Nat
  BY FirstOfGroup DEF Founded, Base, SpawnInv, Typed
<1>3. Handled(pending[j])
  BY <1>1, <1>2 DEF Founded, Base, DeliveryInv, LoopInv
<1> QED BY <1>3 DEF Handled, PostedBy, Promise!Handled, Promise!PostedBy

(* A job that writes back has its entries in the queue, and its run's last    *)
(* word on the task is not yet said while it is in its draft loop.            *)
LEMMA StillWaiting ==
  ASSUME Founded, NEW t \in Tasks, pc[t] \in {"draft", "drain"}, NEW q \in Positions(t)
  PROVE  \E i \in Promise!Waiting(t) : pending[i] = snapshot[q]
<1>1. Typed /\ phase = "running"
  BY DEF Founded, Base, SpawnInv, Typed, Active
<1>2. snapshot[q] \in EntriesOf(t) /\ TaskOf[snapshot[q]] = t
  BY DEF EntriesOf, Positions
<1>3. InQueue(snapshot[q])
  BY <1>1, <1>2 DEF Founded, Base, TallyInv, Through
<1> QED BY <1>2, <1>3 DEF InQueue, Promise!Waiting

LEMMA StillOpen ==
  ASSUME Founded, Logged, NEW t \in Tasks
  PROVE  /\ Promise!Latest(t, run)
         /\ pc[t] = "draft" => Promise!Open(t, run)
<1>1. Promise!Latest(t, run)
  BY DEF Logged, LogInv, Promise!Latest
<1>2. ASSUME pc[t] = "draft" PROVE ~Promise!PostedBy(t, run, Assessment)
  <2>1. \A i \in DOMAIN worklog[t] : worklog[t][i].run = run => worklog[t][i].what # Assessment
    BY <1>2 DEF Logged, LogInv, NoAssessmentBy
  <2> QED BY <2>1 DEF Promise!PostedBy
<1> QED BY <1>1, <1>2 DEF Promise!Open

(* A comment that the draft loop posts is one Delivery allows.                *)
LEMMA PostIsPromised ==
  ASSUME Founded, Logged, Repeats, Promising, NEW t \in Tasks, pc[t] = "draft",
         Ahead(t) = {} \/ snapshot[NextDraft(t)] \notin Malformed,
         Post(t, Due(t)), UNCHANGED <<pending, queued>>
  PROVE  Promise!Run(t, run)
<1>1. Typed /\ phase = "running" /\ t \in Active
  BY DEF Founded, Base, SpawnInv, Typed, Active
<1>2. Promise!Open(t, run)
  BY StillOpen
<1>3. Promise!Record(t, run, Due(t))
  BY DEF Post, Promise!Record
<1>4. CASE Ahead(t) = {}
  <2>1. PICK q : q \in Positions(t)
    BY <1>1 DEF Founded, Base, SpawnInv, PoolInv, Grouped
  <2>2. PICK i \in Promise!Waiting(t) : pending[i] = snapshot[q]
    BY <2>1, StillWaiting
  <2>3. q <= pos[t]
    BY <1>1, <1>4, <2>1, FirstOfGroup DEF Ahead, Typed
  <2>4. \A j \in Promise!Waiting(t) : j <= i => Promise!Handled(t, run, pending[j])
    BY <2>1, <2>2, <2>3, BeforeIsHandled DEF Promise!Waiting
  <2>5. Promise!Record(t, run, Assessment)
    BY <1>3, <1>4 DEF Due
  <2>6. Promise!Assess(t, run)
    BY <1>2, <2>2, <2>4, <2>5 DEF Promise!Assess
  <2> QED BY <2>6 DEF Promise!Run
<1>5. CASE Ahead(t) # {}
  <2>1. PICK q : q = NextDraft(t)
    OBVIOUS
  <2>2. /\ q \in Positions(t) /\ snapshot[q] \notin Malformed /\ snapshot[q] \in Entries
        /\ \A p \in Positions(t) : p <= q => p = q \/ p <= pos[t]
    BY <1>1, <1>5, <2>1, NextDraftIsNext, DueIsComment DEF Typed
  <2>3. PICK i \in Promise!Waiting(t) : pending[i] = snapshot[q]
    BY <2>2, StillWaiting
  <2>4. ~Promise!PostedBy(t, run, pending[i])
    <3>1. SUFFICES ASSUME NEW k \in DOMAIN worklog[t], worklog[t][k].run = run,
                          worklog[t][k].what = snapshot[q]
                   PROVE  FALSE
      BY <2>3 DEF Promise!PostedBy
    <3>2. Accounted(t, snapshot[q], run)
      BY <2>2, <3>1 DEF Repeats, RepeatInv
    <3>3. run \in aborted[t]
      BY <1>5, <2>1, <3>2, AheadIsNew
    <3> QED BY <1>1, <3>3 DEF Promising, AbortInv
  <2>5. ASSUME NEW j \in Promise!Waiting(t), j < i PROVE Promise!Handled(t, run, pending[j])
    <3>1. /\ i \in DOMAIN pending /\ j \in DOMAIN pending /\ i \in Nat /\ j \in Nat
          /\ TaskOf[pending[j]] = t
      BY <1>1 DEF Promise!Waiting, Typed
    <3>2. PICK p \in Positions(t) : p <= q /\ snapshot[p] = pending[j]
      BY <2>2, <2>3, <2>5, <3>1, BeforeInSnapshot
    <3>3. p # q
      BY <2>3, <2>5, <3>1, <3>2 DEF Repeats, NoTwins
    <3> QED BY <2>2, <3>1, <3>2, <3>3, BeforeIsHandled
  <2>6. Promise!Record(t, run, pending[i])
    BY <1>3, <1>5, <2>1, <2>3 DEF Due
  <2>7. Promise!Draft(t, run, i)
    BY <1>2, <2>2, <2>3, <2>4, <2>5, <2>6 DEF Promise!Draft
  <2> QED BY <2>7 DEF Promise!Run
<1> QED BY <1>4, <1>5

(* So is what a job drains.                                                   *)
LEMMA DrainIsPromised ==
  ASSUME Founded, Logged, Promising, NEW t \in Tasks, Drain(t), UNCHANGED queued
  PROVE  Promise!Run(t, run)
<1>1. Typed /\ pc[t] = "drain" /\ Ahead(t) = {} /\ worklog' = worklog
  BY DEF Founded, Base, SpawnInv, DeliveryInv, ToDrain, Drain
<1>2. Promise!Latest(t, run) /\ Promise!PostedBy(t, run, Assessment)
  BY <1>1, StillOpen DEF Founded, Base, DeliveryInv, ToDrain, PostedBy, Promise!PostedBy
<1>3. EntriesOf(t) \in SUBSET Entries
  <2>1. \A i \in DOMAIN snapshot : snapshot[i] \in Entries
    BY <1>1 DEF Typed
  <2> QED BY <2>1 DEF EntriesOf, Positions
<1>4. ASSUME NEW i \in Promise!Waiting(t), pending[i] \in EntriesOf(t),
             NEW j \in Promise!Waiting(t), j <= i
      PROVE  pending[j] \in EntriesOf(t) /\ Promise!Handled(t, run, pending[j])
  <2>1. PICK q \in Positions(t) : snapshot[q] = pending[i]
    BY <1>4 DEF EntriesOf
  <2>2. q <= pos[t]
    BY <1>1, FirstOfGroup DEF Ahead, Typed
  <2>3. i \in DOMAIN pending /\ j \in DOMAIN pending /\ TaskOf[pending[j]] = t
    BY DEF Promise!Waiting
  <2>4. \E p \in Positions(t) : p <= q /\ snapshot[p] = pending[j]
    BY <1>4, <2>1, <2>3, BeforeInSnapshot
  <2>5. Promise!Handled(t, run, pending[j])
    BY <1>4, <2>1, <2>2, <2>3, BeforeIsHandled
  <2> QED BY <2>4, <2>5 DEF EntriesOf
<1>5. PICK K : K = { i \in DOMAIN pending : i \in Promise!Waiting(t) => pending[i] \notin EntriesOf(t) }
  OBVIOUS
<1>6. pending' \in Promise!Rewrites(pending, K)
  <2>1. \A i \in DOMAIN pending : pending[i] \in EntriesOf(t) => i \in Promise!Waiting(t)
    BY SnapshotEntries DEF Promise!Waiting
  <2>2. K = { i \in DOMAIN pending : pending[i] \notin EntriesOf(t) }
    BY <1>5, <2>1
  <2>3. pending' \in Rewrites(pending, K)
    BY <2>2 DEF Drain
  <2>4. Promise!Embeddings(K) = Embeddings(K)
    BY Zenon DEF Promise!Embeddings, Embeddings, Promise!Cardinality, Cardinality
  <2>5. Promise!Rewrites(pending, K) = Rewrites(pending, K)
    BY <2>4 DEF Promise!Rewrites, Rewrites
  <2> QED BY <2>3, <2>5
<1>7. Promise!Drain(t, run, EntriesOf(t))
  BY <1>1, <1>2, <1>4, <1>5, <1>6 DEF Promise!Drain
<1> QED BY <1>3, <1>7 DEF Promise!Run

(* Every step of a job is a step of the promise, or none.                     *)
LEMMA JobIsPromised ==
  ASSUME Founded, Logged, Repeats, Promising, NEW t \in Tasks, Job(t)
  PROVE  Promise!Run(t, run) \/ UNCHANGED Promise!vars
<1>1. Typed /\ Local(t) /\ queued' = queued
  BY JobLocal DEF Founded, Base, SpawnInv, Local, fixed
<1>2. CASE Early(t) \/ Ends(t)
  BY <1>1, <1>2 DEF Early, Ends, Promise!vars
<1>3. CASE Loops(t)
  BY <1>1, <1>3, PostIsPromised DEF Loops, Due, Promise!vars
<1>4. CASE Fails(t)
  <2>1. UNCHANGED <<pending, queued>>
    BY <1>1, <1>4 DEF Fails
  <2>2. CASE worklog' = worklog
    BY <2>1, <2>2 DEF Promise!vars
  <2>3. CASE worklog' # worklog
    <3>1. /\ pc[t] = "draft" /\ Post(t, Due(t))
          /\ Ahead(t) = {} \/ snapshot[NextDraft(t)] \notin Malformed
      BY <1>4, <2>3 DEF Fails, Appended
    <3> QED BY <2>1, <3>1, PostIsPromised
  <2> QED BY <2>2, <2>3
<1>5. CASE WorklogPosted(t)
  BY <1>1, <1>5, PostIsPromised DEF WorklogPosted, Due
<1>6. CASE Drain(t)
  BY <1>1, <1>6, DrainIsPromised
<1> QED BY <1>1, <1>2, <1>3, <1>4, <1>5, <1>6, JobKinds

LEMMA StepIsPromised ==
  Founded /\ Logged /\ Repeats /\ Promising /\ [Next]_vars => [Promise!Next]_(Promise!vars)
<1> SUFFICES ASSUME Founded, Logged, Repeats, Promising, [Next]_vars
             PROVE  Promise!Next \/ UNCHANGED Promise!vars
  OBVIOUS
<1>1. ASSUME NEW e \in Entries, QueueDraft(e) PROVE Promise!Next
  <2>1. Promise!Queue(e)
    BY <1>1 DEF QueueDraft, Promise!Queue
  <2> QED BY <2>1 DEF Promise!Next
<1>2. ASSUME NEW t \in Tasks, Job(t) PROVE Promise!Next \/ UNCHANGED Promise!vars
  <2>1. t \in Active /\ run \in 1..MaxRuns
    BY <1>2, JobLocal, DueIsComment DEF Founded, Base, SpawnInv
  <2> QED BY <1>2, <2>1, JobIsPromised DEF Promise!Next
<1>3. CASE UNCHANGED <<pending, worklog, queued>>
  BY <1>3 DEF Promise!vars
<1> QED BY <1>1, <1>2, <1>3 DEF Next, ProbeCache, Spawn, Start, Wait, Die, disk, vars

(* Whatever fails or dies, and however often the dispatcher is run again, a   *)
(* task's drafts reach the work log in queue order, once per run and only     *)
(* while they are queued, the assessment after them, and only then do exactly *)
(* these leave the queue (dispatch.go:128-134, 181-227).                      *)
THEOREM DraftsAreDelivered == Spec => DeliversAsPromised
<1>1. Init => Promise!Init
  BY DEF Init, Promise!Init
<1> QED BY FoundedInit, FoundedNext, LoggedInit, LoggedNext, RepeatsInit, RepeatsNext,
           PromisingInit, PromisingNext, StepIsPromised, <1>1, PTL
        DEF Spec, DeliversAsPromised, Promise!Spec

-------------------------------------------------------------------------------
(* The queue the dispatcher works on is the one DispatchQueue implements.     *)

(* No write of the modelled processes stops inside a line.                    *)
Loaded == { snapshot[i] : i \in DOMAIN snapshot }
Atomic == INSTANCE QueueSpec WITH broken <- FALSE, snapshot <- Loaded

LEMMA StepIsAtomic ==
  Typed /\ TallyInv /\ [Next]_vars => [Atomic!Next]_(Atomic!vars)
<1> SUFFICES ASSUME Typed, TallyInv, [Next]_vars PROVE Atomic!Next \/ UNCHANGED Atomic!vars
  OBVIOUS
<1>1. ASSUME NEW e \in Entries, QueueDraft(e) PROVE Atomic!Next
  <2>1. ~InQueue(e)
    BY <1>1 DEF QueueDraft, TallyInv
  <2>2. e \notin Atomic!Queued
    BY <2>1 DEF InQueue, Atomic!Queued
  <2>3. Atomic!Add(e)
    BY <1>1, <2>2 DEF QueueDraft, Atomic!Add, Loaded, proc
  <2> QED BY <2>3 DEF Atomic!Next
<1>2. ASSUME NEW t \in Tasks, Drain(t) PROVE Atomic!Next
  <2> DEFINE K == { i \in DOMAIN pending : pending[i] \notin EntriesOf(t) }
  <2>1. pending' \in Rewrites(pending, K)
    BY <1>2 DEF Drain
  <2>2. Atomic!Embeddings(K) = Embeddings(K)
    BY Zenon DEF Atomic!Embeddings, Embeddings, Atomic!Cardinality, Cardinality
  <2>3. pending' \in Atomic!Rewrites(pending, K)
    BY <2>1, <2>2 DEF Atomic!Rewrites, Rewrites
  <2>4. EntriesOf(t) \subseteq Entries
    BY DEF EntriesOf, Positions, Typed
  <2>5. Atomic!Drop(EntriesOf(t))
    BY <1>2, <2>3 DEF Atomic!Drop, Loaded, Drain, fixed
  <2> QED BY <2>4, <2>5 DEF Atomic!Next
<1>3. ASSUME NEW t \in Tasks, Job(t), ~Drain(t) PROVE UNCHANGED <<pending, snapshot>>
  <2>1. pending' = pending
    BY <1>3, JobKinds DEF Early, Loops, Fails, WorklogPosted, Ends
  <2>2. snapshot' = snapshot
    BY <1>3, JobLocal DEF Local, fixed
  <2> QED BY <2>1, <2>2
<1>4. CASE Start
  <2>1. Atomic!Load
    BY <1>4 DEF Start, disk, Atomic!Load, Atomic!Queued, Loaded
  <2> QED BY <2>1 DEF Atomic!Next
<1>5. CASE UNCHANGED <<pending, snapshot>>
  BY <1>5 DEF Atomic!vars, Loaded
<1> QED BY <1>1, <1>2, <1>3, <1>4, <1>5 DEF Next, ProbeCache, Spawn, Wait, Die, disk, proc, vars

(* A dispatcher and the walks beside it do nothing to the queue but append    *)
(* entries that are not in it, take all of it for a snapshot and remove whole *)
(* sets of entries, at once, as DispatchQueue shows of queue.Append, Load and *)
(* Remove (cli/dispatch.go:80, dispatch.go:209-213, model.go:292-331).        *)
THEOREM QueueIsUsedAtomically == Spec => Atomic!Spec
<1>1. Init => Atomic!Init
  BY DEF Init, Atomic!Init, Loaded
<1>2. Founded => Typed /\ TallyInv
  BY DEF Founded, Base, SpawnInv
<1> QED BY FoundedInit, FoundedNext, StepIsAtomic, <1>1, <1>2, PTL DEF Spec, Atomic!Spec

-------------------------------------------------------------------------------
(* What a probe and the walks see of the dispatcher is DispatcherOutline.     *)

(* The step of the outline that a job is at.                                  *)
Stage == [none |-> "load", spawned |-> "load", load |-> "load",
          prompt |-> "post", claude |-> "post", judge |-> "post", draft |-> "post",
          drain |-> "drain", report |-> "idle", exit |-> "idle", done |-> "idle"]
StageOf(t) == IF phase = "running" /\ t \in Grouped THEN Stage[pc[t]] ELSE "idle"

Outline == INSTANCE DispatcherOutline
  WITH Drafts  <- Entries,
       pending <- { e \in Entries : InQueue(e) },
       job     <- [t \in Tasks |-> StageOf(t)],
       taken   <- [t \in Tasks |-> IF StageOf(t) = "idle" THEN {} ELSE EntriesOf(t)],
       log     <- worklog

(* A step of a job moves it in the outline from one step to another.          *)
LEMMA JobGoes ==
  ASSUME Typed, NEW t \in Tasks, t \in Grouped, phase = "running", Local(t),
         StageOf(t) # "idle", NEW step, StageOf(t)' = step
  PROVE  Outline!Goto(t, step)
<1> DEFINE J == [u \in Tasks |-> StageOf(u)]
           T == [u \in Tasks |-> IF StageOf(u) = "idle" THEN {} ELSE EntriesOf(u)]
<1>1. \A u \in Tasks : EntriesOf(u)' = EntriesOf(u) /\ (u \in Grouped)' = (u \in Grouped)
  BY DEF Local, fixed, EntriesOf, Grouped, Positions
<1>2. \A u \in Tasks \ {t} : StageOf(u)' = StageOf(u)
  BY <1>1 DEF StageOf, Local, fixed
<1>3. J' = [J EXCEPT ![t] = step]
  BY <1>2
<1>4. T' = [T EXCEPT ![t] = IF step = "idle" THEN {} ELSE @]
  BY <1>1, <1>2
<1>5. UNCHANGED <<queued, cache>>
  BY DEF Local, fixed
<1> QED BY <1>3, <1>4, <1>5 DEF Outline!Goto

LEMMA SameStages ==
  ASSUME Typed, NEW t \in Tasks, Local(t), Stage[pc'[t]] = Stage[pc[t]]
  PROVE  /\ [u \in Tasks |-> StageOf(u)]' = [u \in Tasks |-> StageOf(u)]
         /\ [u \in Tasks |-> IF StageOf(u) = "idle" THEN {} ELSE EntriesOf(u)]'
              = [u \in Tasks |-> IF StageOf(u) = "idle" THEN {} ELSE EntriesOf(u)]
<1>1. \A u \in Tasks : EntriesOf(u)' = EntriesOf(u) /\ (u \in Grouped)' = (u \in Grouped)
  BY DEF Local, fixed, EntriesOf, Grouped, Positions
<1>2. \A u \in Tasks : StageOf(u)' = StageOf(u)
  BY <1>1 DEF StageOf, Local, fixed
<1> QED BY <1>1, <1>2

(* A job of the pool has a group, and its stage is that of its pc.            *)
LEMMA JobHasStage ==
  ASSUME SpawnInv, NEW t \in Tasks, Job(t)
  PROVE  /\ Typed /\ Local(t) /\ phase = "running" /\ t \in Grouped /\ pc[t] \in PCs
         /\ StageOf(t) = Stage[pc[t]] /\ StageOf(t)' = Stage[pc'[t]]
<1>1. Typed /\ Local(t) /\ t \in Active /\ phase = "running" /\ pc[t] \in PCs
  BY JobLocal DEF SpawnInv, Typed
<1>2. t \in Grouped
  BY <1>1 DEF SpawnInv, PoolInv, Active
<1>3. t \in Grouped' /\ phase' = "running"
  BY <1>1, <1>2 DEF Local, fixed, Grouped, Positions
<1> QED BY <1>1, <1>2, <1>3 DEF StageOf

LEMMA JobIsOutlined ==
  ASSUME SpawnInv, NEW t \in Tasks, Job(t)
  PROVE  Outline!Job(t) \/ Outline!CacheChanges
<1>0. /\ Typed /\ Local(t) /\ phase = "running" /\ t \in Grouped /\ pc[t] \in PCs
      /\ StageOf(t) = Stage[pc[t]] /\ StageOf(t)' = Stage[pc'[t]]
  BY JobHasStage
<1>g. ASSUME NEW step, Stage[pc[t]] # "idle", Stage[pc'[t]] = step PROVE Outline!Goto(t, step)
  BY <1>0, <1>g, JobGoes
<1>j. [u \in Tasks |-> StageOf(u)][t] = Stage[pc[t]]
  BY <1>0
<1>c. \A u \in Tasks \ {t} : worklog'[u] = worklog[u]
  BY <1>0 DEF Local
<1>s. ASSUME Stage[pc'[t]] = Stage[pc[t]]
      PROVE  /\ [u \in Tasks |-> StageOf(u)]' = [u \in Tasks |-> StageOf(u)]
             /\ [u \in Tasks |-> IF StageOf(u) = "idle" THEN {} ELSE EntriesOf(u)]'
                  = [u \in Tasks |-> IF StageOf(u) = "idle" THEN {} ELSE EntriesOf(u)]
             /\ UNCHANGED <<queued, cache>>
  BY <1>0, <1>s, SameStages DEF Local, fixed
<1>p. ASSUME pending' = pending PROVE { e \in Entries : InQueue(e) }' = { e \in Entries : InQueue(e) }
  BY <1>p DEF InQueue
<1>f. ASSUME Stage[pc[t]] # "idle", pc'[t] = "exit", pending' = pending,
             worklog' = worklog \/ Stage[pc[t]] = "post"
      PROVE  Outline!Fails(t)
  <2>1. Outline!Goto(t, "idle")
    BY <1>f, <1>g DEF Stage
  <2> QED BY <1>f, <1>j, <1>c, <1>p, <2>1 DEF Outline!Fails, Outline!Comment
<1>1. CASE JobRuns(t)
  <2>1. /\ pc[t] = "load" /\ pc'[t] = "prompt" /\ t \in cache
        /\ pending' = pending /\ worklog' = worklog
    BY <1>0, <1>1 DEF JobRuns, Typed
  <2>2. Outline!Goto(t, "post")
    BY <1>g, <2>1 DEF Stage
  <2>3. Outline!Loads(t)
    BY <1>j, <1>p, <2>1, <2>2 DEF Outline!Loads, Stage
  <2> QED BY <2>3 DEF Outline!Job
<1>2. CASE JobChecked(t) \/ Launch(t) \/ (\E what \in Answers : Answer(t, what)) \/ JudgeOk(t)
  <2>1. /\ Stage[pc'[t]] = Stage[pc[t]]
        /\ pending' = pending /\ worklog' = worklog
    BY <1>0, <1>2 DEF JobChecked, Launch, Answer, JudgeOk, Stage, Typed
  <2> QED BY <1>p, <1>s, <2>1 DEF Outline!CacheChanges
<1>3. CASE JobCancelled(t) \/ JobFailsEarly(t) \/ JudgeError(t)
  <2>1. /\ pc'[t] = "exit" /\ pc[t] \in {"spawned", "load", "prompt", "judge"}
        /\ pending' = pending /\ worklog' = worklog
    BY <1>0, <1>3 DEF JobCancelled, JobFailsEarly, JudgeError, Finish, Typed
  <2> QED BY <1>f, <2>1 DEF Outline!Job, Stage
<1>4. CASE Loops(t)
  <2>1. /\ pc[t] = "draft" /\ pc'[t] = "draft" /\ pending' = pending
    BY <1>4 DEF Loops
  <2>2. Outline!PostsDraft(t)
    BY <1>c, <1>j, <1>p, <1>s, <2>1 DEF Outline!PostsDraft, Outline!Comment, Stage
  <2> QED BY <2>2 DEF Outline!Job
<1>5. CASE Fails(t)
  <2>1. /\ pc'[t] = "exit" /\ pending' = pending
        /\ pc[t] = "draft" \/ (pc[t] = "drain" /\ worklog' = worklog)
    BY <1>5 DEF Fails
  <2> QED BY <1>f, <2>1 DEF Outline!Job, Stage
<1>6. CASE WorklogPosted(t)
  <2>1. pc[t] = "draft" /\ pc'[t] = "drain" /\ pending' = pending
    BY <1>0, <1>6 DEF WorklogPosted, Typed
  <2>2. Outline!Goto(t, "drain")
    BY <1>g, <2>1 DEF Stage
  <2>3. Outline!PostsAssessment(t)
    BY <1>c, <1>j, <1>p, <2>1, <2>2 DEF Outline!PostsAssessment, Outline!Comment, Stage
  <2> QED BY <2>3 DEF Outline!Job
<1>7. CASE Drain(t)
  <2>1. pc[t] = "drain" /\ pc'[t] = "report" /\ worklog' = worklog
    BY <1>0, <1>7 DEF Drain, Typed
  <2>2. Outline!Goto(t, "idle")
    BY <1>g, <2>1 DEF Stage
  <2>3. \A e \in Entries : InQueue(e)' <=> InQueue(e) /\ e \notin EntriesOf(t)
    BY <1>0, <1>7, DrainedRest DEF Drain, Typed
  <2>4. [u \in Tasks |-> IF StageOf(u) = "idle" THEN {} ELSE EntriesOf(u)][t] = EntriesOf(t)
    BY <1>0, <2>1 DEF Stage
  <2>5. { e \in Entries : InQueue(e) }' = { e \in Entries : InQueue(e) } \ EntriesOf(t)
    BY <2>3
  <2>6. Outline!Drains(t)
    BY <1>j, <2>1, <2>2, <2>4, <2>5 DEF Outline!Drains, Stage
  <2> QED BY <2>6 DEF Outline!Job
<1>8. CASE Ends(t)
  <2>1. /\ Stage[pc'[t]] = Stage[pc[t]]
        /\ pending' = pending /\ worklog' = worklog
    BY <1>8 DEF Ends, Stage
  <2> QED BY <1>p, <1>s, <2>1 DEF Outline!CacheChanges
<1>9. \/ JobRuns(t)
      \/ JobChecked(t) \/ Launch(t) \/ (\E what \in Answers : Answer(t, what)) \/ JudgeOk(t)
      \/ JobCancelled(t) \/ JobFailsEarly(t) \/ JudgeError(t)
      \/ Loops(t) \/ Fails(t) \/ WorklogPosted(t) \/ Drain(t) \/ Ends(t)
  BY <1>0, JobKinds DEF Job, DraftDropped, DraftPosted, DraftFails, WorklogFails, DrainFails, Report, Exit, Early, BeforeDrafts
<1> QED BY <1>1, <1>2, <1>3, <1>4, <1>5, <1>6, <1>7, <1>8, <1>9

LEMMA StepIsOutlined ==
  SpawnInv /\ [Next]_vars => [Outline!Next]_(Outline!vars)
<1> SUFFICES ASSUME SpawnInv, [Next]_vars PROVE Outline!Next \/ UNCHANGED Outline!vars
  OBVIOUS
<1> DEFINE J == [u \in Tasks |-> StageOf(u)]
           T == [u \in Tasks |-> IF StageOf(u) = "idle" THEN {} ELSE EntriesOf(u)]
           Q == { e \in Entries : InQueue(e) }
<1>q. ASSUME pending' = pending PROVE Q' = Q
  BY <1>q DEF InQueue
<1>j. ASSUME UNCHANGED <<phase, snapshot>>, \A t \in Tasks : StageOf(t)' = StageOf(t)
      PROVE  J' = J /\ T' = T
  BY <1>j DEF EntriesOf, Positions
<1>s. ASSUME UNCHANGED proc PROVE J' = J /\ T' = T
  <2>1. \A t \in Tasks : StageOf(t)' = StageOf(t)
    BY <1>s DEF proc, StageOf, Grouped, Positions
  <2> QED BY <1>j, <1>s, <2>1 DEF proc
<1>1. ASSUME NEW e \in Entries, QueueDraft(e) PROVE Outline!Next
  <2>1. pending' = Append(pending, e) /\ pending \in Seq(Entries)
    BY <1>1 DEF QueueDraft, SpawnInv, Typed
  <2>2. \A d : InQueue(d)' <=> InQueue(d) \/ d = e
    BY <2>1 DEF InQueue
  <2>3. Q' = Q \cup {e}
    BY <2>2
  <2>4. J' = J /\ T' = T
    BY <1>1, <1>s DEF QueueDraft
  <2>5. Outline!Queue(e)
    BY <1>1, <2>3, <2>4 DEF QueueDraft, Outline!Queue
  <2> QED BY <2>5 DEF Outline!Next
<1>2. ASSUME NEW t \in Tasks, ProbeCache(t) PROVE Outline!Next
  <2>1. J' = J /\ T' = T /\ Q' = Q /\ UNCHANGED <<queued, worklog>>
    BY <1>2, <1>s, <1>q DEF ProbeCache
  <2> QED BY <2>1 DEF Outline!CacheChanges, Outline!Next
<1>3. ASSUME NEW t \in Tasks, Spawn(t) PROVE Outline!Next
  <2>1. /\ UNCHANGED <<phase, snapshot, queued, worklog, pending>>
        /\ pc' = [pc EXCEPT ![t] = "spawned"] /\ phase = "running" /\ t \in Grouped
    BY <1>3 DEF Spawn, disk
  <2>2. pc[t] = "none" /\ pc \in [Tasks -> PCs]
    BY <1>3 DEF Spawn, SpawnInv, PoolInv, Typed
  <2>3. \A u \in Tasks : Stage[pc'[u]] = Stage[pc[u]]
    BY <2>1, <2>2 DEF Stage
  <2>4. \A u \in Tasks : StageOf(u)' = StageOf(u)
    BY <2>1, <2>3 DEF StageOf, Grouped, Positions
  <2>5. J' = J /\ T' = T /\ Q' = Q
    BY <2>1, <2>4, <1>j, <1>q
  <2> QED BY <2>1, <2>5 DEF Outline!CacheChanges, Outline!Next
<1>4. ASSUME NEW t \in Tasks, Job(t) PROVE Outline!Next
  BY <1>4, JobIsOutlined DEF Outline!Next
<1>5. CASE Start
  <2>1. /\ UNCHANGED <<queued, cache, worklog, pending>> /\ phase = "idle" /\ phase' = "running"
        /\ snapshot' = pending /\ pc' = [u \in Tasks |-> "none"]
        /\ pending # <<>> /\ pending \in Seq(Entries)
    BY <1>5 DEF Start, disk, SpawnInv, Typed
  <2>2. \A u \in Tasks : J[u] = "idle"
    BY <2>1 DEF StageOf
  <2>3. Q # {} /\ Q' = Q
    <3>1. pending[1] \in Entries /\ 1 \in DOMAIN pending
      BY <2>1
    <3> QED BY <3>1, <1>q, <2>1 DEF InQueue
  <2>4. \A u \in Tasks : EntriesOf(u)' = { d \in Q : TaskOf[d] = u }
    BY <2>1 DEF EntriesOf, Positions, InQueue
  <2>5. \A u \in Tasks : (u \in Grouped)' <=> { d \in Q : TaskOf[d] = u } # {}
    BY <2>1, <2>4 DEF Grouped, EntriesOf
  <2>6. \A u \in Tasks : StageOf(u)' = IF { d \in Q : TaskOf[d] = u } = {} THEN "idle" ELSE "load"
    BY <2>1, <2>5 DEF StageOf, Stage
  <2>7. J' = [u \in Tasks |-> IF { d \in Q : TaskOf[d] = u } = {} THEN "idle" ELSE "load"]
    BY <2>6
  <2>8. T' = [u \in Tasks |-> { d \in Q : TaskOf[d] = u }]
    BY <2>4, <2>6
  <2>9. Outline!Snapshot
    BY <2>1, <2>2, <2>3, <2>7, <2>8 DEF Outline!Snapshot, Outline!Idle, Outline!Of
  <2> QED BY <2>9 DEF Outline!Next
<1>6. CASE Wait \/ Die
  <2>1. phase' = "idle" /\ UNCHANGED <<queued, cache, worklog, pending>>
    BY <1>6 DEF Wait, Die, disk
  <2>2. J' = [u \in Tasks |-> "idle"] /\ T' = [u \in Tasks |-> {}] /\ Q' = Q
    BY <2>1, <1>q DEF StageOf
  <2>3. Outline!Dies
    BY <2>1, <2>2 DEF Outline!Dies
  <2> QED BY <2>3 DEF Outline!Next
<1>7. CASE UNCHANGED vars
  <2>1. J' = J /\ T' = T /\ Q' = Q /\ UNCHANGED <<queued, cache, worklog>>
    BY <1>7, <1>s, <1>q DEF vars, proc
  <2> QED BY <2>1 DEF Outline!vars
<1> QED BY <1>1, <1>2, <1>3, <1>4, <1>5, <1>6, <1>7 DEF Next

(* Which drafts a run takes from the queue and gives up, when it reads the    *)
(* cache and when it comments on a task is what the outline says, which       *)
(* Pipeline takes for the dispatcher beside the probe (dispatch.go:64-227).   *)
THEOREM OutlineIsKept == Spec => Outline!Spec
<1>1. Init => Outline!Init
  BY DEF Init, Outline!Init, StageOf, InQueue
<1> QED BY SpawnInit, SpawnNext, StepIsOutlined, <1>1, PTL DEF Spec, Outline!Spec
===============================================================================

--------------------------- MODULE DispatcherProofs ---------------------------
(* Theorems of Dispatcher for any number of tasks, drafts and runs and any    *)
(* size of the pool.                                                          *)
EXTENDS Dispatcher, FiniteSetTheorems, SequenceTheorems, WellFoundedInduction, TLAPS

Summaries == 1..MaxRuns \cup {None}
Statuses == [state : States, assess : Summaries, big : BOOLEAN]
Outcomes == {"succeeded", "failed", "requeued"}
Replies == {"none", "ok", "usage", "error", "cancelled"}

(* Everything of TypeOK but what counts tasks.                                *)
Typed ==
  /\ pending \in Seq(Entries)
  /\ cache \in SUBSET Tasks
  /\ status \in [Tasks -> Statuses]
  /\ worklog \in [Tasks -> Seq(Comment)]
  /\ phase \in {"idle", "running"}
  /\ run \in 0..MaxRuns
  /\ phase = "running" => run > 0
  /\ snapshot \in Seq(Entries)
  /\ cancelled \in BOOLEAN
  /\ pc \in [Tasks -> PCs]
  /\ answer \in [Tasks -> Replies]
  /\ pos \in [Tasks -> 0..Len(snapshot)]
  /\ outcome \in [Tasks -> Outcomes]
  /\ queued \in SUBSET Entries
  /\ aborted \in [Tasks -> SUBSET (1..MaxRuns)]
  /\ cut \in SUBSET Tasks
  /\ died \in BOOLEAN
  /\ phase = "idle" => Active = {}

-------------------------------------------------------------------------------
(* Positions in the snapshot and numbers of groups.                           *)

LEMMA LeastExists ==
  ASSUME NEW S, S \subseteq Nat, S # {}
  PROVE  \E i \in S : \A j \in S : i <= j
<1>1. PICK i \in S : \A j \in S : ~(<<j, i>> \in OpToRel(<, Nat))
  BY NatLessThanWellFounded, WFMin
<1>2. \A j \in S : ~(j < i)
  BY <1>1 DEF OpToRel
<1> QED BY <1>2

(* The draft loop goes to the next position of its group and leaves none out. *)
LEMMA NextDraftIsNext ==
  ASSUME NEW t \in Tasks, snapshot \in Seq(Entries), pos[t] \in Nat, Ahead(t) # {}
  PROVE  /\ NextDraft(t) \in Positions(t) /\ NextDraft(t) \in 1..Len(snapshot)
         /\ NextDraft(t) > pos[t]
         /\ \A i \in Positions(t) : i <= NextDraft(t) => i = NextDraft(t) \/ i <= pos[t]
<1>1. DOMAIN snapshot = 1..Len(snapshot) /\ Len(snapshot) \in Nat
  OBVIOUS
<1>2. Positions(t) \subseteq 1..Len(snapshot)
  BY <1>1 DEF Positions
<1>3. Ahead(t) \subseteq Nat
  BY <1>2 DEF Ahead
<1>4. \E i \in Ahead(t) : \A j \in Ahead(t) : i <= j
  BY <1>3, LeastExists
<1>5. NextDraft(t) \in Ahead(t) /\ \A j \in Ahead(t) : NextDraft(t) <= j
  BY <1>4 DEF NextDraft
<1>6. PICK n : n = NextDraft(t)
  OBVIOUS
<1>7. n \in Positions(t) /\ n \in 1..Len(snapshot) /\ n > pos[t]
  BY <1>2, <1>5, <1>6 DEF Ahead
<1>8. ASSUME NEW i \in Positions(t), i <= n PROVE i = n \/ i <= pos[t]
  <2>1. CASE i > pos[t]
    <3>1. n <= i
      BY <1>5, <1>6, <2>1 DEF Ahead
    <3> QED BY <1>2, <1>7, <1>8, <3>1
  <2>2. CASE ~(i > pos[t])
    BY <1>2, <2>2
  <2> QED BY <2>1, <2>2
<1> QED BY <1>6, <1>7, <1>8

-------------------------------------------------------------------------------
(* Status files and comments.                                                 *)

LEMMA RecordTyped ==
  ASSUME Typed, NEW t \in Tasks, NEW state \in States, NEW summary \in Summaries,
         NEW big \in BOOLEAN, Record(t, state, summary, big)
  PROVE  status' \in [Tasks -> Statuses]
<1>1. Visible(t) \in Summaries
  BY DEF Typed, Visible, Statuses, Summaries
<1>2. PICK a \in Summaries : a = IF summary = None THEN Visible(t) ELSE summary
  BY <1>1
<1>3. PICK s : s = [state |-> state, assess |-> a, big |-> big]
  OBVIOUS
<1>4. s \in Statuses
  BY <1>3 DEF Statuses
<1>5. status' = [status EXCEPT ![t] = s] \/ status' = status
  BY <1>2, <1>3 DEF Record
<1> QED BY <1>4, <1>5 DEF Typed

LEMMA FinishTyped ==
  ASSUME Typed, NEW t \in Tasks, NEW state \in States, NEW summary \in Summaries,
         NEW out \in Outcomes, NEW prints \in BOOLEAN, Finish(t, state, summary, out, prints)
  PROVE  /\ status' \in [Tasks -> Statuses] /\ outcome' \in [Tasks -> Outcomes]
         /\ pc' \in [Tasks -> PCs]
<1>1. \A big \in {FALSE, HugeOutput /\ prints} : big \in BOOLEAN
  BY HugeAssumption
<1>2. status' \in [Tasks -> Statuses]
  BY <1>1, RecordTyped DEF Finish
<1>3. outcome' \in [Tasks -> Outcomes] /\ pc' \in [Tasks -> PCs]
  BY DEF Finish, Typed, PCs
<1> QED BY <1>2, <1>3

(* A comment goes to the end of the work log, and what was there stays.       *)
LEMMA PostAppends ==
  ASSUME Typed, NEW t \in Tasks, phase = "running", NEW what \in Entries \cup {Assessment},
         Post(t, what)
  PROVE  /\ worklog' \in [Tasks -> Seq(Comment)]
         /\ \A u \in Tasks \ {t} : worklog'[u] = worklog[u]
         /\ Len(worklog'[t]) = Len(worklog[t]) + 1
         /\ \A i \in DOMAIN worklog[t] : i \in DOMAIN worklog'[t] /\ worklog'[t][i] = worklog[t][i]
         /\ Len(worklog[t]) + 1 \in DOMAIN worklog'[t]
         /\ worklog'[t][Len(worklog[t]) + 1] = [run |-> run, what |-> what]
<1>1. run \in 1..MaxRuns
  BY RunsAssumption DEF Typed
<1>2. PICK c : c = [run |-> run, what |-> what]
  OBVIOUS
<1>3. c \in Comment
  BY <1>1, <1>2 DEF Comment
<1>4. worklog[t] \in Seq(Comment)
  BY DEF Typed
<1>5. PICK w : w = Append(worklog[t], c)
  OBVIOUS
<1>6. /\ w \in Seq(Comment) /\ Len(w) = Len(worklog[t]) + 1
      /\ \A i \in 1..Len(worklog[t]) : w[i] = worklog[t][i]
      /\ w[Len(worklog[t]) + 1] = c
  BY <1>3, <1>4, <1>5, AppendProperties
<1>7. worklog' = [worklog EXCEPT ![t] = w]
  BY <1>2, <1>5 DEF Post
<1>8. worklog'[t] = w /\ \A u \in Tasks \ {t} : worklog'[u] = worklog[u]
  BY <1>7 DEF Typed
<1>9. worklog' \in [Tasks -> Seq(Comment)]
  BY <1>6, <1>7 DEF Typed
<1>10. DOMAIN w = 1..Len(w) /\ DOMAIN worklog[t] = 1..Len(worklog[t]) /\ Len(worklog[t]) \in Nat
  BY <1>4, <1>6
<1> QED BY <1>2, <1>6, <1>8, <1>9, <1>10

(* A script that fails has appended its comment, or nothing.                  *)
Appended(t, what) == Post(t, what) \/ UNCHANGED worklog

LEMMA PostedStays ==
  ASSUME Typed, NEW t \in Tasks, phase = "running", NEW what \in Entries \cup {Assessment},
         Appended(t, what)
  PROVE  \A u \in Tasks : \A n, w : PostedBy(u, n, w) => PostedBy(u, n, w)'
<1>1. CASE Post(t, what)
  BY <1>1, PostAppends DEF PostedBy
<1>2. CASE UNCHANGED worklog
  BY <1>2 DEF PostedBy
<1> QED BY <1>1, <1>2 DEF Appended

LEMMA PostPosts ==
  ASSUME Typed, NEW t \in Tasks, phase = "running", NEW what \in Entries \cup {Assessment},
         Post(t, what), run' = run
  PROVE  PostedBy(t, run, what)'
BY PostAppends DEF PostedBy

(* Entries of a rewritten queue.                                              *)
LEMMA DrainedRest ==
  ASSUME NEW D, pending \in Seq(Entries),
         pending' \in Rewrites(pending, { i \in DOMAIN pending : pending[i] \notin D })
  PROVE  /\ pending' \in Seq(Entries)
         /\ \A e : InQueue(e)' <=> InQueue(e) /\ e \notin D
<1> DEFINE K == { i \in DOMAIN pending : pending[i] \notin D }
<1>1. PICK f \in Embeddings(K) : pending' = [k \in DOMAIN f |-> pending[f[k]]]
  BY DEF Rewrites
<1>2. IsFiniteSet(K) /\ Cardinality(K) \in Nat
  <2>1. DOMAIN pending = 1..Len(pending) /\ Len(pending) \in Nat
    OBVIOUS
  <2>2. IsFiniteSet(1..Len(pending))
    BY <2>1, FS_Interval
  <2> QED BY <2>1, <2>2, FS_Subset, FS_CardinalityType
<1>3. f \in [1..Cardinality(K) -> K] /\ \A k \in K : \E a \in DOMAIN f : f[a] = k
  BY DEF Embeddings
<1>4. \A i \in DOMAIN pending : pending[i] \in Entries
  OBVIOUS
<1>5. \A a \in DOMAIN f : f[a] \in DOMAIN pending /\ pending[f[a]] \notin D /\ pending'[a] = pending[f[a]]
  BY <1>1, <1>3
<1>6. DOMAIN pending' = DOMAIN f
  BY <1>1
<1>7. pending' \in Seq(Entries)
  <2>1. pending' \in [1..Cardinality(K) -> Entries]
    BY <1>1, <1>3, <1>4
  <2>2. PICK n \in Nat : n = Cardinality(K)
    BY <1>2
  <2>3. pending' \in [1..n -> Entries]
    BY <2>1, <2>2
  <2>4. \A S, g : g \in [1..n -> S] => g \in Seq(S)
    OBVIOUS
  <2> QED BY <2>3, <2>4
<1>8. ASSUME NEW e, InQueue(e)' PROVE InQueue(e) /\ e \notin D
  BY <1>5, <1>6, <1>8 DEF InQueue
<1>9. ASSUME NEW e, InQueue(e), e \notin D PROVE InQueue(e)'
  <2>1. PICK i \in K : pending[i] = e
    BY <1>9 DEF InQueue
  <2>2. PICK a \in DOMAIN f : f[a] = i
    BY <1>3, <2>1
  <2> QED BY <1>5, <1>6, <2>1, <2>2 DEF InQueue
<1> QED BY <1>7, <1>8, <1>9

-------------------------------------------------------------------------------
(* What a step of a job is.                                                   *)

(* A job changes its own task alone, and only while the run is on.            *)
Local(t) ==
  /\ UNCHANGED fixed
  /\ \A u \in Tasks \ {t} :
       /\ pc'[u] = pc[u] /\ pos'[u] = pos[u] /\ answer'[u] = answer[u]
       /\ outcome'[u] = outcome[u] /\ status'[u] = status[u]
       /\ worklog'[u] = worklog[u] /\ aborted'[u] = aborted[u]
       /\ u \in cut' <=> u \in cut

LEMMA RecordLocal ==
  ASSUME Typed, NEW t, NEW state, NEW summary, NEW big, Record(t, state, summary, big)
  PROVE  \A u \in Tasks \ {t} : status'[u] = status[u]
BY DEF Record, Typed

LEMMA FinishLocal ==
  ASSUME Typed, NEW t \in Tasks, NEW state, NEW summary, NEW out, NEW prints,
         Finish(t, state, summary, out, prints)
  PROVE  /\ pc'[t] = "exit" /\ outcome'[t] = out
         /\ \A u \in Tasks \ {t} : /\ status'[u] = status[u] /\ pc'[u] = pc[u]
                                   /\ outcome'[u] = outcome[u]
<1>1. \A u \in Tasks \ {t} : status'[u] = status[u]
  BY RecordLocal DEF Finish
<1>2. pc' = [pc EXCEPT ![t] = "exit"] /\ outcome' = [outcome EXCEPT ![t] = out]
  BY DEF Finish
<1> QED BY <1>1, <1>2 DEF Typed

LEMMA AppendedLocal ==
  ASSUME Typed, NEW t \in Tasks, NEW what, Appended(t, what)
  PROVE  \A u \in Tasks \ {t} : worklog'[u] = worklog[u]
BY DEF Appended, Post, Typed

LEMMA JobLocal ==
  ASSUME Typed, NEW t \in Tasks, Job(t)
  PROVE  Local(t) /\ t \in Active
<1> USE DEF Typed, Local
<1>f. ASSUME NEW state, NEW summary, NEW out, NEW prints, Finish(t, state, summary, out, prints)
      PROVE  \A u \in Tasks \ {t} : status'[u] = status[u] /\ pc'[u] = pc[u] /\ outcome'[u] = outcome[u]
  BY <1>f, FinishLocal
<1>1. CASE JobCancelled(t)
  BY <1>f, <1>1 DEF JobCancelled, Active
<1>2. CASE JobChecked(t)
  BY <1>2 DEF JobChecked, Active
<1>3. CASE JobFailsEarly(t)
  BY <1>f, <1>3 DEF JobFailsEarly, Active
<1>4. CASE JobRuns(t)
  BY <1>4, RecordLocal DEF JobRuns, Active
<1>5. CASE Launch(t)
  BY <1>5 DEF Launch, Active
<1>6. ASSUME NEW what \in Answers, Answer(t, what) PROVE Local(t) /\ t \in Active
  BY <1>6 DEF Answer, Active
<1>7. CASE JudgeOk(t)
  BY <1>7 DEF JudgeOk, Active
<1>8. CASE JudgeError(t)
  BY <1>f, <1>8 DEF JudgeError, Active
<1>9. CASE DraftDropped(t)
  BY <1>9 DEF DraftDropped, Active
<1>10. CASE DraftPosted(t)
  BY <1>10 DEF DraftPosted, Post, Active
<1>a. ASSUME NEW what, Abort(t, what)
      PROVE  \A u \in Tasks \ {t} :
               /\ status'[u] = status[u] /\ pc'[u] = pc[u] /\ outcome'[u] = outcome[u]
               /\ worklog'[u] = worklog[u] /\ aborted'[u] = aborted[u]
  <2>1. \A u \in Tasks \ {t} : worklog'[u] = worklog[u]
    BY <1>a, AppendedLocal DEF Abort, Appended
  <2> QED BY <1>a, <1>f, <2>1 DEF Abort
<1>11. CASE DraftFails(t)
  BY <1>a, <1>11 DEF DraftFails, Active
<1>12. CASE WorklogPosted(t)
  BY <1>12 DEF WorklogPosted, Post, Active
<1>13. CASE WorklogFails(t)
  BY <1>a, <1>13 DEF WorklogFails, Active
<1>14. CASE Drain(t)
  BY <1>14 DEF Drain, Active
<1>15. CASE DrainFails(t)
  BY <1>f, <1>15 DEF DrainFails, Active
<1>16. CASE Report(t)
  BY <1>f, <1>16 DEF Report, Active
<1>17. CASE Exit(t)
  BY <1>17 DEF Exit, Active
<1> QED BY <1>1, <1>2, <1>3, <1>4, <1>5, <1>6, <1>7, <1>8, <1>9, <1>10, <1>11, <1>12,
           <1>13, <1>14, <1>15, <1>16, <1>17 DEF Job

-------------------------------------------------------------------------------
(* Types.                                                                     *)

LEMMA TypedInit == Init => Typed
<1> SUFFICES ASSUME Init PROVE Typed
  OBVIOUS
<1>1. NoStatus \in Statuses
  BY DEF NoStatus, Statuses, States, Summaries
<1>2. status \in [Tasks -> Statuses]
  BY <1>1 DEF Init
<1>3. /\ <<>> \in Seq(Entries) /\ <<>> \in Seq(Comment)
      /\ 0 \in 0..MaxRuns /\ 0 \in 0..Len(<<>>)
  BY RunsAssumption
<1>4. worklog \in [Tasks -> Seq(Comment)] /\ pos \in [Tasks -> 0..Len(snapshot)]
  BY <1>3 DEF Init
<1>5. Active = {}
  BY DEF Init, Active
<1> QED BY <1>2, <1>3, <1>4, <1>5 DEF Init, Typed, PCs, Replies, Outcomes

(* A step of a job keeps the types if what it writes has them.                *)
LEMMA JobKeepsTypes ==
  ASSUME Typed, NEW t \in Tasks, t \in Active, UNCHANGED fixed,
         pending' \in Seq(Entries), status' \in [Tasks -> Statuses],
         worklog' \in [Tasks -> Seq(Comment)], cancelled' \in BOOLEAN,
         pc' \in [Tasks -> PCs], answer' \in [Tasks -> Replies],
         pos' \in [Tasks -> 0..Len(snapshot)], outcome' \in [Tasks -> Outcomes],
         aborted' \in [Tasks -> SUBSET (1..MaxRuns)], cut' \in SUBSET Tasks
  PROVE  Typed'
<1>1. phase = "running" /\ phase' = "running"
  BY DEF Typed, fixed
<1> QED BY <1>1 DEF Typed, fixed

LEMMA JobTyped ==
  ASSUME Typed, NEW t \in Tasks, Job(t)
  PROVE  Typed'
<1>0. t \in Active
  BY JobLocal
<1>r. phase = "running" /\ run \in 1..MaxRuns
  <2>1. phase = "running" /\ run > 0 /\ run \in 0..MaxRuns
    BY <1>0 DEF Typed
  <2> QED BY <2>1, RunsAssumption
<1>s. None \in Summaries /\ run \in Summaries
  BY <1>r DEF Summaries
<1>w. ASSUME NEW what \in Entries \cup {Assessment}, Appended(t, what)
      PROVE  worklog' \in [Tasks -> Seq(Comment)]
  BY <1>r, <1>w, PostAppends DEF Appended, Typed
<1>p. \/ NextDraft(t) \in 0..Len(snapshot) /\ snapshot[NextDraft(t)] \in Entries
      \/ Ahead(t) = {}
  <2>1. pos[t] \in Nat /\ snapshot \in Seq(Entries) /\ Len(snapshot) \in Nat
    BY DEF Typed
  <2>2. Ahead(t) # {} => NextDraft(t) \in 1..Len(snapshot)
    BY <2>1, NextDraftIsNext
  <2>3. \A i \in 1..Len(snapshot) : snapshot[i] \in Entries /\ i \in 0..Len(snapshot)
    BY <2>1
  <2> QED BY <2>2, <2>3
<1>f. ASSUME NEW state \in States, NEW summary \in Summaries, NEW out \in Outcomes,
             NEW prints \in BOOLEAN, Finish(t, state, summary, out, prints)
      PROVE  /\ status' \in [Tasks -> Statuses] /\ outcome' \in [Tasks -> Outcomes]
             /\ pc' \in [Tasks -> PCs]
  BY <1>f, FinishTyped
<1>e. /\ "requeued" \in States /\ "failed" \in States /\ "succeeded" \in States
      /\ "running" \in States
      /\ "requeued" \in Outcomes /\ "failed" \in Outcomes /\ "succeeded" \in Outcomes
  BY DEF States, Outcomes
<1>1. CASE JobCancelled(t)
  BY <1>0, <1>1, <1>e, <1>f, <1>s, JobKeepsTypes DEF JobCancelled, Typed
<1>2. CASE JobChecked(t)
  BY <1>0, <1>2, JobKeepsTypes DEF JobChecked, Typed, PCs
<1>3. CASE JobFailsEarly(t)
  BY <1>0, <1>3, <1>e, <1>f, <1>s, JobKeepsTypes DEF JobFailsEarly, Typed
<1>4. CASE JobRuns(t)
  <2>1. status' \in [Tasks -> Statuses]
    BY <1>4, <1>e, <1>s, RecordTyped DEF JobRuns
  <2> QED BY <1>0, <1>4, <2>1, JobKeepsTypes DEF JobRuns, Typed, PCs
<1>5. CASE Launch(t)
  BY <1>0, <1>5, JobKeepsTypes DEF Launch, Typed, PCs, Replies
<1>6. ASSUME NEW what \in Answers, Answer(t, what) PROVE Typed'
  BY <1>0, <1>6, JobKeepsTypes DEF Answer, Answers, Typed, PCs, Replies
<1>7. CASE JudgeOk(t)
  BY <1>0, <1>7, JobKeepsTypes DEF JudgeOk, Typed, PCs
<1>8. CASE JudgeError(t)
  <2>1. (answer[t] = "error") \in BOOLEAN
    OBVIOUS
  <2>2. /\ status' \in [Tasks -> Statuses] /\ outcome' \in [Tasks -> Outcomes]
        /\ pc' \in [Tasks -> PCs]
    BY <1>8, <1>e, <1>f, <1>s, <2>1 DEF JudgeError
  <2> QED BY <1>0, <1>8, <2>2, JobKeepsTypes DEF JudgeError, Typed
<1>9. CASE DraftDropped(t)
  BY <1>0, <1>9, <1>p, JobKeepsTypes DEF DraftDropped, Typed
<1>10. CASE DraftPosted(t)
  BY <1>0, <1>10, <1>p, <1>w, JobKeepsTypes DEF DraftPosted, Appended, Typed
<1>a. ASSUME NEW what \in Entries \cup {Assessment}, Abort(t, what)
      PROVE  /\ status' \in [Tasks -> Statuses] /\ outcome' \in [Tasks -> Outcomes]
             /\ pc' \in [Tasks -> PCs] /\ worklog' \in [Tasks -> Seq(Comment)]
             /\ aborted' \in [Tasks -> SUBSET (1..MaxRuns)]
  <2>1. worklog' \in [Tasks -> Seq(Comment)]
    BY <1>a, <1>w DEF Abort, Appended
  <2>2. aborted' \in [Tasks -> SUBSET (1..MaxRuns)]
    BY <1>a, <1>r DEF Abort, Typed
  <2> QED BY <1>a, <1>e, <1>f, <1>s, <2>1, <2>2 DEF Abort
<1>11. CASE DraftFails(t)
  BY <1>0, <1>11, <1>a, <1>p, JobKeepsTypes DEF DraftFails, Typed
<1>12. CASE WorklogPosted(t)
  BY <1>0, <1>12, <1>w, JobKeepsTypes DEF WorklogPosted, Appended, Typed, PCs
<1>13. CASE WorklogFails(t)
  BY <1>0, <1>13, <1>a, JobKeepsTypes DEF WorklogFails, Typed
<1>14. CASE Drain(t)
  <2>1. pending' \in Seq(Entries)
    BY <1>14, DrainedRest DEF Drain, Typed
  <2> QED BY <1>0, <1>14, <2>1, JobKeepsTypes DEF Drain, Typed, PCs
<1>15. CASE DrainFails(t)
  <2>1. aborted' \in [Tasks -> SUBSET (1..MaxRuns)]
    BY <1>15, <1>r DEF DrainFails, Typed
  <2> QED BY <1>0, <1>15, <1>e, <1>f, <1>s, <2>1, JobKeepsTypes DEF DrainFails, Typed
<1>16. CASE Report(t)
  BY <1>0, <1>16, <1>e, <1>f, <1>s, JobKeepsTypes DEF Report, Typed
<1>17. CASE Exit(t)
  BY <1>0, <1>17, JobKeepsTypes DEF Exit, Typed, PCs
<1> QED BY <1>1, <1>2, <1>3, <1>4, <1>5, <1>6, <1>7, <1>8, <1>9, <1>10, <1>11, <1>12,
           <1>13, <1>14, <1>15, <1>16, <1>17 DEF Job

LEMMA TypedNext == Typed /\ [Next]_vars => Typed'
<1> SUFFICES ASSUME Typed, [Next]_vars PROVE Typed'
  OBVIOUS
<1>1. ASSUME NEW e \in Entries, QueueDraft(e) PROVE Typed'
  <2>1. pending' \in Seq(Entries)
    BY <1>1 DEF QueueDraft, Typed
  <2> QED BY <1>1, <2>1 DEF QueueDraft, proc, Typed, Active
<1>2. ASSUME NEW t \in Tasks, ProbeCache(t) PROVE Typed'
  BY <1>2 DEF ProbeCache, proc, Typed, Active
<1>3. ASSUME NEW t \in Tasks, Spawn(t) PROVE Typed'
  BY <1>3 DEF Spawn, disk, Typed, PCs
<1>4. ASSUME NEW t \in Tasks, Job(t) PROVE Typed'
  BY <1>4, JobTyped
<1>5. CASE Start
  <2>1. run' \in 0..MaxRuns /\ run' > 0
    BY <1>5, RunsAssumption DEF Start, Typed
  <2>2. pos' \in [Tasks -> 0..Len(snapshot')]
    BY <1>5 DEF Start, Typed
  <2> QED BY <1>5, <2>1, <2>2 DEF Start, disk, Typed, PCs, Replies, Outcomes
<1>6. CASE Wait
  BY <1>6 DEF Wait, disk, Typed, Active
<1>7. CASE Die
  <2>1. run \in 1..MaxRuns
    BY <1>7, RunsAssumption DEF Die, Typed
  <2>2. aborted' \in [Tasks -> SUBSET (1..MaxRuns)]
    BY <1>7, <2>1 DEF Die, Typed
  <2>3. pc' \in [Tasks -> PCs] /\ Active' = {}
    BY <1>7 DEF Die, PCs, Active
  <2> QED BY <1>7, <2>2, <2>3 DEF Die, disk, Typed
<1>8. CASE UNCHANGED vars
  BY <1>8 DEF vars, Typed, Active
<1> QED BY <1>1, <1>2, <1>3, <1>4, <1>5, <1>6, <1>7, <1>8 DEF Next

-------------------------------------------------------------------------------
(* The pool.                                                                  *)

Least(i, S) == i \in S /\ \A j \in S : i <= j

LEMMA FirstOfGroup ==
  ASSUME snapshot \in Seq(Entries)
  PROVE  /\ \A t \in Tasks : Positions(t) \subseteq Nat
         /\ \A t \in Grouped : \E i \in Positions(t) : Least(i, Positions(t))
         /\ \A t, u \in Tasks : t # u => Positions(t) \cap Positions(u) = {}
<1>1. DOMAIN snapshot = 1..Len(snapshot) /\ Len(snapshot) \in Nat
  OBVIOUS
<1>2. \A t \in Tasks : Positions(t) \subseteq Nat
  BY <1>1 DEF Positions
<1>3. \A t \in Grouped : \E i \in Positions(t) : Least(i, Positions(t))
  BY <1>2, LeastExists DEF Grouped, Least
<1>4. \A t, u \in Tasks : t # u => Positions(t) \cap Positions(u) = {}
  BY DEF Positions
<1> QED BY <1>2, <1>3, <1>4

Before(t) == { u \in Grouped : SeenBefore(u, t) }

(* The groups are ordered by where they are first seen.                       *)
LEMMA SeenInOrder ==
  ASSUME snapshot \in Seq(Entries)
  PROVE  /\ \A t \in Grouped : t \notin Before(t)
         /\ \A t, u \in Grouped : t # u =>
              \/ t \in Before(u) /\ Before(t) \subseteq Before(u)
              \/ u \in Before(t) /\ Before(u) \subseteq Before(t)
<1>0. /\ \A t \in Tasks : Positions(t) \subseteq Nat
      /\ \A t \in Grouped : \E i \in Positions(t) : Least(i, Positions(t))
      /\ \A t, u \in Tasks : t # u => Positions(t) \cap Positions(u) = {}
      /\ Grouped \subseteq Tasks
  BY FirstOfGroup DEF Grouped
<1>1. ASSUME NEW t \in Grouped PROVE t \notin Before(t)
  <2>1. \A i \in Positions(t) : i \in Nat /\ ~(i < i)
    BY <1>0
  <2> QED BY <2>1 DEF Before, SeenBefore
<1>2. ASSUME NEW t \in Grouped, NEW u \in Grouped,
             NEW i \in Positions(t), Least(i, Positions(t)),
             NEW j \in Positions(u), Least(j, Positions(u)), i < j
      PROVE  t \in Before(u) /\ Before(t) \subseteq Before(u)
  <2>1. \A k \in Positions(u) : i < k
    BY <1>0, <1>2 DEF Least
  <2>2. t \in Before(u)
    BY <2>1 DEF Before, SeenBefore
  <2>3. ASSUME NEW w \in Grouped, SeenBefore(w, t) PROVE SeenBefore(w, u)
    <3>1. PICK h \in Positions(w) : \A k \in Positions(t) : h < k
      BY <2>3 DEF SeenBefore
    <3>2. h \in Nat /\ i \in Nat /\ h < i
      BY <1>0, <3>1
    <3>3. \A k \in Positions(u) : k \in Nat /\ i < k
      BY <1>0, <2>1
    <3>4. \A k \in Positions(u) : h < k
      BY <3>2, <3>3
    <3> QED BY <3>4 DEF SeenBefore
  <2> QED BY <2>2, <2>3 DEF Before
<1>3. ASSUME NEW t \in Grouped, NEW u \in Grouped, t # u
      PROVE  \/ t \in Before(u) /\ Before(t) \subseteq Before(u)
             \/ u \in Before(t) /\ Before(u) \subseteq Before(t)
  <2>1. PICK i \in Positions(t) : Least(i, Positions(t))
    BY <1>0
  <2>2. PICK j \in Positions(u) : Least(j, Positions(u))
    BY <1>0
  <2>3. i \in Nat /\ j \in Nat /\ i # j
    BY <1>0, <1>3
  <2>4. CASE i < j
    BY <1>2, <2>1, <2>2, <2>4
  <2>5. CASE j < i
    BY <1>2, <2>1, <2>2, <2>5
  <2> QED BY <2>3, <2>4, <2>5
<1> QED BY <1>1, <1>3

(* Every group has a number of its own, up to their count.                    *)
LEMMA GroupNumbers ==
  ASSUME snapshot \in Seq(Entries)
  PROVE  /\ IsFiniteSet(Grouped) /\ Cardinality(Grouped) \in Nat
         /\ Cardinality(Tasks) \in Nat /\ Cardinality(Grouped) <= Cardinality(Tasks)
         /\ \A t \in Grouped : GroupNumber(t) \in 1..Cardinality(Grouped)
         /\ \A t, u \in Grouped : GroupNumber(t) = GroupNumber(u) => t = u
<1>1. /\ IsFiniteSet(Grouped) /\ Cardinality(Grouped) \in Nat
      /\ Cardinality(Tasks) \in Nat /\ Cardinality(Grouped) <= Cardinality(Tasks)
  <2>1. Grouped \subseteq Tasks /\ IsFiniteSet(Tasks)
    BY TaskOfAssumption DEF Grouped
  <2> QED BY <2>1, FS_Subset, FS_CardinalityType
<1>2. \A t \in Tasks : GroupNumber(t) = Cardinality(Before(t)) + 1
  BY DEF GroupNumber, Before
<1>3. \A t \in Tasks : IsFiniteSet(Before(t)) /\ Cardinality(Before(t)) \in Nat
  <2>1. \A t \in Tasks : Before(t) \subseteq Grouped
    BY DEF Before
  <2> QED BY <1>1, <2>1, FS_Subset, FS_CardinalityType
<1>4. ASSUME NEW t \in Grouped, NEW S, IsFiniteSet(S), t \in S,
             Before(t) \subseteq S, t \notin Before(t)
      PROVE  Cardinality(Before(t)) + 1 <= Cardinality(S)
  <2>1. t \in Tasks
    BY DEF Grouped
  <2>2. /\ IsFiniteSet(S \ {t}) /\ Cardinality(S \ {t}) = Cardinality(S) - 1
        /\ Cardinality(S) \in Nat /\ Cardinality(S \ {t}) \in Nat
    BY <1>4, FS_RemoveElement, FS_CardinalityType
  <2>3. Before(t) \subseteq S \ {t}
    BY <1>4
  <2>4. Cardinality(Before(t)) <= Cardinality(S \ {t})
    BY <2>2, <2>3, FS_Subset
  <2> QED BY <1>3, <2>1, <2>2, <2>4
<1>5. ASSUME NEW t \in Grouped PROVE GroupNumber(t) \in 1..Cardinality(Grouped)
  <2>1. t \in Tasks /\ Before(t) \subseteq Grouped /\ t \notin Before(t)
    BY SeenInOrder DEF Before, Grouped
  <2>2. Cardinality(Before(t)) + 1 <= Cardinality(Grouped)
    BY <1>1, <1>4, <2>1
  <2> QED BY <1>1, <1>2, <1>3, <2>1, <2>2
<1>6. ASSUME NEW t \in Grouped, NEW u \in Grouped, t \in Before(u), Before(t) \subseteq Before(u)
      PROVE  GroupNumber(t) < GroupNumber(u)
  <2>1. t \in Tasks /\ u \in Tasks /\ t \notin Before(t)
    BY SeenInOrder DEF Grouped
  <2>2. Cardinality(Before(t)) + 1 <= Cardinality(Before(u))
    BY <1>3, <1>4, <1>6, <2>1
  <2> QED BY <1>2, <1>3, <2>1, <2>2
<1>7. ASSUME NEW t \in Grouped, NEW u \in Grouped, GroupNumber(t) = GroupNumber(u)
      PROVE  t = u
  <2>1. GroupNumber(t) \in Nat /\ GroupNumber(u) \in Nat
    BY <1>1, <1>5
  <2>2. ~(GroupNumber(t) < GroupNumber(u)) /\ ~(GroupNumber(u) < GroupNumber(t))
    BY <1>7, <2>1
  <2>3. /\ ~(t \in Before(u) /\ Before(t) \subseteq Before(u))
        /\ ~(u \in Before(t) /\ Before(u) \subseteq Before(t))
    BY <1>6, <2>2
  <2> QED BY <2>3, SeenInOrder
<1> QED BY <1>1, <1>5, <1>7

LEMMA NumbersArePositive ==
  snapshot \in Seq(Entries) => \A t \in Grouped : ~(GroupNumber(t) <= 0)
<1> SUFFICES ASSUME snapshot \in Seq(Entries), NEW t \in Grouped PROVE ~(GroupNumber(t) <= 0)
  OBVIOUS
<1>1. GroupNumber(t) \in 1..Cardinality(Grouped)
  BY GroupNumbers
<1> QED BY <1>1

(* The groups that were handed to the pool are those up to number spawned,    *)
(* and a draft loop that has not begun is at the start.                       *)
PoolInv ==
  /\ spawned \in 0..Cardinality(Tasks)
  /\ limit \in Nat \ {0} /\ Cardinality(Active) <= limit
  /\ phase = "running" =>
       /\ \A t \in Tasks : pc[t] # "none" <=> t \in Grouped /\ GroupNumber(t) <= spawned
       /\ \A t \in Tasks : pc[t] \in BeforeDrafts \cup {"none"} => pos[t] = 0

SpawnInv == Typed /\ PoolInv

LEMMA LimitIsPositive == \A given \in Concurrencies : Limit(given) \in Nat \ {0}
BY ConcurrencyAssumption DEF Limit

LEMMA ActiveIsFinite == IsFiniteSet(Active) /\ Cardinality(Active) \in Nat
<1>1. Active \subseteq Tasks /\ IsFiniteSet(Tasks)
  BY TaskOfAssumption DEF Active
<1> QED BY <1>1, FS_Subset, FS_CardinalityType

LEMMA SpawnInit == Init => SpawnInv
<1> SUFFICES ASSUME Init PROVE SpawnInv
  OBVIOUS
<1>1. Active = {} /\ Cardinality(Tasks) \in Nat
  BY TaskOfAssumption, FS_CardinalityType DEF Init, Active
<1>2. Cardinality(Active) <= limit
  BY <1>1, FS_EmptySet DEF Init
<1> QED BY <1>1, <1>2, TypedInit DEF Init, SpawnInv, PoolInv

(* A job moves on: it keeps its slot or gives it back.                        *)
LEMMA JobPool ==
  ASSUME SpawnInv, Typed', NEW t \in Tasks, Job(t)
  PROVE  PoolInv'
<1>1. Local(t) /\ t \in Active
  BY JobLocal DEF SpawnInv
<1>2. UNCHANGED <<phase, limit, snapshot, spawned>>
  BY <1>1 DEF Local, fixed
<1>3. pc'[t] # "none"
  <2>1. ASSUME NEW state, NEW summary, NEW out, NEW prints, Finish(t, state, summary, out, prints)
        PROVE  pc'[t] = "exit"
    BY <2>1, FinishLocal DEF SpawnInv
  <2>2. \/ pc'[t] = "exit"
        \/ \E to \in PCs \ {"none"} : pc' = [pc EXCEPT ![t] = to]
    <3>1. CASE JobCancelled(t) \/ JobFailsEarly(t) \/ JudgeError(t) \/ DrainFails(t) \/ Report(t)
      BY <2>1, <3>1 DEF JobCancelled, JobFailsEarly, JudgeError, DrainFails, Report
    <3>2. CASE JobChecked(t) \/ JobRuns(t) \/ Launch(t) \/ JudgeOk(t) \/ WorklogPosted(t)
               \/ Drain(t) \/ Exit(t) \/ \E what \in Answers : Answer(t, what)
      BY <3>2 DEF JobChecked, JobRuns, Launch, JudgeOk, WorklogPosted, Drain, Exit, Answer, PCs
    <3>3. CASE DraftFails(t) \/ WorklogFails(t)
      BY <2>1, <3>3 DEF DraftFails, WorklogFails, Abort
    <3>4. CASE DraftDropped(t) \/ DraftPosted(t)
      BY <3>4 DEF DraftDropped, DraftPosted, SpawnInv, Typed, PCs
    <3> QED BY <3>1, <3>2, <3>3, <3>4 DEF Job
  <2> QED BY <2>2 DEF SpawnInv, Typed
<1>4. Active' \subseteq Active
  BY <1>1 DEF Active, Local
<1>5. Cardinality(Active') <= limit'
  <2>1. /\ IsFiniteSet(Active) /\ Cardinality(Active) \in Nat /\ Cardinality(Active') \in Nat
    BY <1>4, ActiveIsFinite, FS_Subset, FS_CardinalityType
  <2>2. Cardinality(Active') <= Cardinality(Active)
    BY <1>4, <2>1, FS_Subset
  <2> QED BY <1>2, <2>1, <2>2 DEF SpawnInv, PoolInv
<1>6. pc'[t] \in BeforeDrafts => pos'[t] = pos[t] /\ pc[t] \in BeforeDrafts
  <2>1. ASSUME NEW state, NEW summary, NEW out, NEW prints, Finish(t, state, summary, out, prints)
        PROVE  pc'[t] \notin BeforeDrafts
    BY <2>1, FinishLocal DEF SpawnInv, BeforeDrafts
  <2>2. CASE JobCancelled(t) \/ JobFailsEarly(t) \/ JudgeError(t) \/ DrainFails(t) \/ Report(t)
    BY <2>1, <2>2 DEF JobCancelled, JobFailsEarly, JudgeError, DrainFails, Report
  <2>3. CASE JobChecked(t) \/ JobRuns(t) \/ Launch(t) \/ JudgeOk(t) \/ WorklogPosted(t)
             \/ Drain(t) \/ Exit(t) \/ \E what \in Answers : Answer(t, what)
    BY <2>3 DEF JobChecked, JobRuns, Launch, JudgeOk, WorklogPosted, Drain, Exit, Answer,
                BeforeDrafts, SpawnInv, Typed
  <2>4. CASE DraftFails(t) \/ WorklogFails(t)
    BY <2>1, <2>4 DEF DraftFails, WorklogFails, Abort
  <2>5. CASE DraftDropped(t) \/ DraftPosted(t)
    BY <2>5 DEF DraftDropped, DraftPosted, BeforeDrafts
  <2> QED BY <2>2, <2>3, <2>4, <2>5 DEF Job
<1>7. Grouped' = Grouped /\ \A u \in Tasks : GroupNumber(u)' = GroupNumber(u)
  BY <1>2 DEF Grouped, GroupNumber, SeenBefore, Positions
<1>8. pc[t] # "none"
  BY <1>1 DEF Active
<1>9. \A u \in Tasks : pc'[u] # "none" <=> pc[u] # "none"
  BY <1>1, <1>3, <1>8 DEF Local
<1>10. \A u \in Tasks : pc'[u] \in BeforeDrafts \cup {"none"} =>
         pos'[u] = pos[u] /\ pc[u] \in BeforeDrafts \cup {"none"}
  BY <1>1, <1>3, <1>6 DEF Local
<1> QED BY <1>2, <1>5, <1>7, <1>9, <1>10 DEF SpawnInv, PoolInv

(* The next group takes a free slot and the next number.                      *)
LEMMA SpawnPool ==
  ASSUME SpawnInv, Typed', NEW t \in Tasks, Spawn(t)
  PROVE  PoolInv'
<1>1. /\ phase = "running" /\ t \in Grouped /\ GroupNumber(t) = spawned + 1
      /\ Cardinality(Active) < limit /\ pc' = [pc EXCEPT ![t] = "spawned"]
      /\ spawned' = spawned + 1 /\ UNCHANGED <<phase, limit, snapshot, pos>>
  BY DEF Spawn
<1>2. /\ Grouped' = Grouped /\ \A u \in Tasks : GroupNumber(u)' = GroupNumber(u)
      /\ Grouped \subseteq Tasks
  BY <1>1 DEF Grouped, GroupNumber, SeenBefore, Positions
<1>3. /\ Cardinality(Tasks) \in Nat /\ Cardinality(Grouped) <= Cardinality(Tasks)
      /\ Cardinality(Grouped) \in Nat /\ spawned \in Nat
      /\ \A u \in Grouped : GroupNumber(u) \in 1..Cardinality(Grouped)
      /\ \A u \in Grouped : GroupNumber(u) = GroupNumber(t) => u = t
  BY <1>1, GroupNumbers DEF SpawnInv, PoolInv, Typed
<1>4. spawned' \in 0..Cardinality(Tasks)
  BY <1>1, <1>3
<1>5. pc'[t] = "spawned" /\ \A u \in Tasks \ {t} : pc'[u] = pc[u]
  BY <1>1 DEF SpawnInv, Typed
<1>6. pc[t] = "none"
  BY <1>1, <1>3 DEF SpawnInv, PoolInv
<1>7. Cardinality(Active') <= limit'
  <2>1. Active' = Active \cup {t} /\ t \notin Active
    BY <1>5, <1>6 DEF Active
  <2>2. Cardinality(Active') = Cardinality(Active) + 1
    BY <2>1, ActiveIsFinite, FS_AddElement
  <2> QED BY <1>1, <2>2, ActiveIsFinite DEF SpawnInv, PoolInv
<1>8. ASSUME NEW u \in Tasks
      PROVE  pc'[u] # "none" <=> u \in Grouped /\ GroupNumber(u) <= spawned'
  <2>1. CASE u = t
    BY <1>1, <1>3, <1>5, <2>1
  <2>2. CASE u # t /\ u \in Grouped
    <3>1. GroupNumber(u) # spawned + 1 /\ GroupNumber(u) \in Nat
      BY <1>1, <1>3, <2>2
    <3>2. GroupNumber(u) <= spawned + 1 <=> GroupNumber(u) <= spawned
      BY <1>3, <3>1
    <3> QED BY <1>1, <1>5, <2>2, <3>2 DEF SpawnInv, PoolInv
  <2>3. CASE u # t /\ u \notin Grouped
    BY <1>1, <1>5, <2>3 DEF SpawnInv, PoolInv
  <2> QED BY <2>1, <2>2, <2>3
<1>9. \A u \in Tasks : pc'[u] \in BeforeDrafts \cup {"none"} => pos'[u] = 0
  BY <1>1, <1>5, <1>6 DEF SpawnInv, PoolInv
<1>10. limit' \in Nat \ {0}
  BY <1>1 DEF SpawnInv, PoolInv
<1> QED BY <1>1, <1>2, <1>4, <1>7, <1>8, <1>9, <1>10 DEF PoolInv

LEMMA SpawnNext == SpawnInv /\ [Next]_vars => SpawnInv'
<1>0. ASSUME SpawnInv, [Next]_vars PROVE Typed'
  BY <1>0, TypedNext DEF SpawnInv
<1> SUFFICES ASSUME SpawnInv, [Next]_vars PROVE PoolInv'
  BY <1>0 DEF SpawnInv
<1>t. Typed'
  BY <1>0
<1>u. ASSUME UNCHANGED <<phase, limit, snapshot, spawned, pc, pos>> PROVE PoolInv'
  BY <1>u DEF SpawnInv, PoolInv, Active, Grouped, GroupNumber, SeenBefore, Positions
<1>n. ASSUME spawned' = spawned, limit' = limit, Active' = {}, phase' = "idle" PROVE PoolInv'
  <2>1. Cardinality(Active') <= limit'
    BY <1>n, FS_EmptySet DEF SpawnInv, PoolInv
  <2>2. Cardinality(Tasks) \in Nat
    BY TaskOfAssumption, FS_CardinalityType
  <2> QED BY <1>n, <2>1, <2>2 DEF SpawnInv, PoolInv
<1>1. ASSUME NEW e \in Entries, QueueDraft(e) PROVE PoolInv'
  BY <1>1, <1>u DEF QueueDraft, proc
<1>2. ASSUME NEW t \in Tasks, ProbeCache(t) PROVE PoolInv'
  BY <1>2, <1>u DEF ProbeCache, proc
<1>3. ASSUME NEW t \in Tasks, Spawn(t) PROVE PoolInv'
  BY <1>t, <1>3, SpawnPool
<1>4. ASSUME NEW t \in Tasks, Job(t) PROVE PoolInv'
  BY <1>t, <1>4, JobPool
<1>5. CASE Start
  <2>1. /\ spawned' = 0 /\ \A t \in Tasks : pc'[t] = "none" /\ pos'[t] = 0
    BY <1>5 DEF Start
  <2>2. Active' = {}
    BY <2>1 DEF Active
  <2>3. limit' \in Nat \ {0}
    BY <1>5, LimitIsPositive DEF Start
  <2>5. /\ Cardinality(Active') <= limit' /\ 0 \in 0..Cardinality(Tasks)
    BY <2>2, <2>3, FS_EmptySet, TaskOfAssumption, FS_CardinalityType
  <2>4. \A t \in Grouped' : ~(GroupNumber(t)' <= 0)
    <3>1. snapshot' \in Seq(Entries)
      BY <1>t DEF Typed
    <3>2. (snapshot \in Seq(Entries) => \A t \in Grouped : ~(GroupNumber(t) <= 0))'
      BY NumbersArePositive, PTL
    <3> QED BY <3>1, <3>2
  <2> QED BY <2>1, <2>3, <2>4, <2>5 DEF PoolInv
<1>6. CASE Wait
  BY <1>6, <1>n DEF Wait, Active
<1>7. CASE Die
  BY <1>7, <1>n DEF Die, Active
<1>8. CASE UNCHANGED vars
  BY <1>8, <1>u DEF vars
<1> QED BY <1>1, <1>2, <1>3, <1>4, <1>5, <1>6, <1>7, <1>8 DEF Next

(* Every variable stays in its type, and never are more jobs under way than   *)
(* the pool has slots (dispatch.go:81-98).                                    *)
THEOREM TypesAndPool == Spec => []TypeOK
<1>1. SpawnInv => TypeOK
  <2> SUFFICES ASSUME SpawnInv PROVE TypeOK
    OBVIOUS
  <2>1. \A t \in Active : pc[t] \in BeforeDrafts => pos[t] = 0
    BY DEF SpawnInv, PoolInv, Typed, Active
  <2> QED BY <2>1 DEF TypeOK, SpawnInv, PoolInv, Typed, Statuses, Summaries, Outcomes, Replies
<1> QED BY SpawnInit, SpawnNext, <1>1, PTL DEF Spec

-------------------------------------------------------------------------------
(* The kinds of steps a job takes, as far as the queue, the work log and the  *)
(* outcome go.                                                                *)

(* Up to the answer nothing outward is done.                                  *)
Early(t) ==
  /\ pc[t] \in BeforeDrafts
  /\ pc'[t] \in BeforeDrafts \cup {"draft", "exit"}
  /\ IF pc'[t] = "exit" THEN outcome'[t] \in {"failed", "requeued"}
     ELSE outcome'[t] = outcome[t]
  /\ UNCHANGED <<pending, worklog, pos, aborted>>

(* The draft loop goes on.                                                    *)
Loops(t) ==
  /\ pc[t] = "draft" /\ Ahead(t) # {}
  /\ pos' = [pos EXCEPT ![t] = NextDraft(t)]
  /\ \/ snapshot[NextDraft(t)] \in Malformed /\ worklog' = worklog
     \/ snapshot[NextDraft(t)] \notin Malformed /\ Post(t, snapshot[NextDraft(t)])
  /\ UNCHANGED <<pending, pc, outcome, aborted, cut>>

Due(t) == IF Ahead(t) = {} THEN Assessment ELSE snapshot[NextDraft(t)]

(* The writeback fails, possibly after what was due was posted.               *)
Fails(t) ==
  /\ pc'[t] = "exit" /\ outcome'[t] = "failed"
  /\ aborted' = [aborted EXCEPT ![t] = @ \cup {run}]
  /\ \/ /\ pc[t] = "draft" /\ Appended(t, Due(t))
        /\ Ahead(t) = {} \/ snapshot[NextDraft(t)] \notin Malformed
     \/ pc[t] = "drain" /\ worklog' = worklog
  /\ UNCHANGED <<pending, pos, cut>>

(* The job succeeds, or returns.                                              *)
Ends(t) ==
  /\ \/ pc[t] = "report" /\ pc'[t] = "exit" /\ outcome'[t] = "succeeded"
     \/ pc[t] = "exit" /\ pc'[t] = "done" /\ outcome' = outcome
  /\ UNCHANGED <<pending, worklog, pos, aborted, cut>>

LEMMA JobKinds ==
  ASSUME Typed, NEW t \in Tasks, Job(t)
  PROVE  Early(t) \/ Loops(t) \/ Fails(t) \/ WorklogPosted(t) \/ Drain(t) \/ Ends(t)
<1>f. ASSUME NEW state, NEW summary, NEW out, NEW prints, Finish(t, state, summary, out, prints)
      PROVE  pc'[t] = "exit" /\ outcome'[t] = out
  BY <1>f, FinishLocal
<1>1. CASE JobCancelled(t) \/ JobFailsEarly(t) \/ JudgeError(t)
  <2>1. pc'[t] = "exit" /\ outcome'[t] \in {"failed", "requeued"}
    BY <1>1, <1>f DEF JobCancelled, JobFailsEarly, JudgeError
  <2> QED BY <1>1, <2>1 DEF Early, BeforeDrafts, JobCancelled, JobFailsEarly, JudgeError
<1>2. CASE JobChecked(t) \/ JobRuns(t) \/ Launch(t) \/ JudgeOk(t)
           \/ \E what \in Answers : Answer(t, what)
  BY <1>2 DEF JobChecked, JobRuns, Launch, JudgeOk, Answer, Early, BeforeDrafts, Typed
<1>3. CASE DraftDropped(t) \/ DraftPosted(t)
  BY <1>3 DEF DraftDropped, DraftPosted, Loops
<1>4. CASE DraftFails(t) \/ WorklogFails(t)
  BY <1>4, <1>f DEF DraftFails, WorklogFails, Abort, Appended, Fails, Due
<1>5. CASE DrainFails(t)
  BY <1>5, <1>f DEF DrainFails, Fails
<1>6. CASE Report(t)
  BY <1>6, <1>f DEF Report, Ends
<1>7. CASE Exit(t)
  BY <1>7 DEF Exit, Ends, Typed
<1> QED BY <1>1, <1>2, <1>3, <1>4, <1>5, <1>6, <1>7 DEF Job

(* What is due is a comment, and the run that posts it has a number.          *)
LEMMA DueIsComment ==
  ASSUME Typed, NEW t \in Tasks, t \in Active
  PROVE  /\ phase = "running" /\ run \in 1..MaxRuns
         /\ Due(t) \in Entries \cup {Assessment}
         /\ Ahead(t) # {} => snapshot[NextDraft(t)] \in Entries
<1>1. phase = "running" /\ run > 0 /\ run \in 0..MaxRuns
  BY DEF Typed
<1>2. pos[t] \in Nat /\ snapshot \in Seq(Entries) /\ Len(snapshot) \in Nat
  BY DEF Typed
<1>3. Ahead(t) # {} => NextDraft(t) \in 1..Len(snapshot)
  BY <1>2, NextDraftIsNext
<1>4. Ahead(t) # {} => snapshot[NextDraft(t)] \in Entries
  BY <1>2, <1>3
<1> QED BY <1>1, <1>4, RunsAssumption DEF Due

(* Whatever a job does, what was posted stays.                                *)
LEMMA JobPosted ==
  ASSUME Typed, NEW t \in Tasks, Job(t)
  PROVE  \A u \in Tasks : \A n, w : PostedBy(u, n, w) => PostedBy(u, n, w)'
<1>1. t \in Active
  BY JobLocal
<1>2. /\ phase = "running" /\ Due(t) \in Entries \cup {Assessment}
      /\ Ahead(t) # {} => snapshot[NextDraft(t)] \in Entries
  BY <1>1, DueIsComment
<1>3. ASSUME worklog' = worklog PROVE \A u \in Tasks : \A n, w : PostedBy(u, n, w) => PostedBy(u, n, w)'
  BY <1>3 DEF PostedBy
<1>4. ASSUME NEW what \in Entries \cup {Assessment}, Appended(t, what)
      PROVE  \A u \in Tasks : \A n, w : PostedBy(u, n, w) => PostedBy(u, n, w)'
  BY <1>2, <1>4, PostedStays
<1>5. CASE Early(t) \/ Ends(t) \/ Drain(t)
  BY <1>3, <1>5 DEF Early, Ends, Drain
<1>6. CASE Loops(t)
  BY <1>2, <1>3, <1>4, <1>6 DEF Loops, Appended
<1>7. CASE Fails(t)
  BY <1>2, <1>3, <1>4, <1>7 DEF Fails
<1>8. CASE WorklogPosted(t)
  BY <1>4, <1>8 DEF WorklogPosted, Appended
<1> QED BY <1>5, <1>6, <1>7, <1>8, JobKinds

-------------------------------------------------------------------------------
(* Delivery.                                                                  *)

(* The draft loop has handled an entry: its draft is recorded or malformed.   *)
Handled(e) == e \in Malformed \/ PostedBy(TaskOf[e], run, e)

(* Behind the draft loop everything is handled; a job that drains is through  *)
(* with its loop and has recorded the assessment.                             *)
LoopInv(t) == \A i \in Positions(t) : i <= pos[t] => Handled(snapshot[i])
ToDrain(t) == pc[t] = "drain" => Ahead(t) = {} /\ PostedBy(t, run, Assessment)
DeliveryInv == \A t \in Tasks : LoopInv(t) /\ ToDrain(t)

LEMMA EntriesHaveTasks ==
  \A t \in Tasks : \A i \in Positions(t) : TaskOf[snapshot[i]] = t
BY DEF Positions

LEMMA DeliveryInit == Init => DeliveryInv /\ DrainedWasDelivered
BY DEF Init, DeliveryInv, LoopInv, ToDrain, Positions, DrainedWasDelivered

LEMMA JobDelivery ==
  ASSUME SpawnInv, SpawnInv', DeliveryInv, NEW t \in Tasks, Job(t)
  PROVE  DeliveryInv'
<1>1. Local(t) /\ t \in Active /\ Typed
  BY JobLocal DEF SpawnInv
<1>2. \A u \in Tasks : \A n, w : PostedBy(u, n, w) => PostedBy(u, n, w)'
  BY <1>1, JobPosted
<1>3. snapshot' = snapshot /\ run' = run /\ phase = "running"
  BY <1>1 DEF Local, fixed, Typed
<1>4. \A u \in Tasks : Positions(u)' = Positions(u)
  BY <1>3 DEF Positions
<1>5. \A u \in Tasks : \A i \in Positions(u) : Handled(snapshot[i]) => Handled(snapshot[i])'
  BY <1>2, <1>3, EntriesHaveTasks DEF Handled
<1>6. \A u \in Tasks : pos'[u] = pos[u] => LoopInv(u)'
  BY <1>3, <1>4, <1>5 DEF DeliveryInv, LoopInv
<1>7. \A u \in Tasks : pos'[u] = pos[u] => Ahead(u)' = Ahead(u)
  BY <1>4 DEF Ahead
<1>8. ASSUME NEW u \in Tasks, u # t PROVE LoopInv(u)' /\ ToDrain(u)'
  <2>1. pc'[u] = pc[u] /\ pos'[u] = pos[u]
    BY <1>1, <1>8 DEF Local
  <2> QED BY <1>2, <1>3, <1>6, <1>7, <2>1 DEF DeliveryInv, ToDrain
<1>9. CASE Early(t) \/ Fails(t) \/ Drain(t) \/ Ends(t)
  <2>1. pos' = pos /\ pc'[t] # "drain"
    BY <1>1, <1>9 DEF Early, Fails, Drain, Ends, BeforeDrafts, Typed
  <2> QED BY <1>6, <1>8, <2>1 DEF DeliveryInv, ToDrain
<1>10. CASE WorklogPosted(t)
  <2>1. pos' = pos /\ Ahead(t) = {} /\ Post(t, Assessment)
    BY <1>10 DEF WorklogPosted
  <2>2. PostedBy(t, run, Assessment)'
    BY <1>1, <1>3, <2>1, PostPosts
  <2> QED BY <1>3, <1>6, <1>7, <1>8, <2>1, <2>2 DEF DeliveryInv, ToDrain
<1>11. CASE Loops(t)
  <2>1. pc'[t] # "drain"
    BY <1>11 DEF Loops
  <2>2. Ahead(t) # {} /\ pos[t] \in Nat /\ snapshot \in Seq(Entries)
    BY <1>1, <1>11 DEF Loops, Typed
  <2>3. PICK n : n = NextDraft(t)
    OBVIOUS
  <2>4. /\ n \in Positions(t) /\ \A i \in Positions(t) : i <= n => i = n \/ i <= pos[t]
    BY <2>2, <2>3, NextDraftIsNext
  <2>5. pos'[t] = n
    BY <1>1, <1>11, <2>3 DEF Loops, Typed
  <2>6. TaskOf[snapshot[n]] = t /\ snapshot[n] \in Entries
    BY <1>1, <2>2, <2>3, <2>4, EntriesHaveTasks, DueIsComment
  <2>7. Handled(snapshot[n])'
    <3>1. CASE snapshot[n] \in Malformed
      BY <1>3, <3>1 DEF Handled
    <3>2. CASE Post(t, snapshot[n])
      <4>1. PostedBy(t, run, snapshot[n])'
        BY <1>1, <1>3, <2>6, <3>2, PostPosts
      <4> QED BY <1>3, <2>6, <4>1 DEF Handled
    <3> QED BY <1>11, <2>3, <3>1, <3>2 DEF Loops
  <2>8. LoopInv(t)'
    BY <1>3, <1>4, <1>5, <2>4, <2>5, <2>7 DEF DeliveryInv, LoopInv
  <2> QED BY <1>8, <2>1, <2>8 DEF DeliveryInv, ToDrain
<1> QED BY <1>1, <1>9, <1>10, <1>11, JobKinds

(* What a job drains was delivered; the rest stays in the queue.              *)
LEMMA JobDrains ==
  ASSUME SpawnInv, DeliveryInv, DrainedWasDelivered, NEW t \in Tasks, Job(t)
  PROVE  DrainedWasDelivered'
<1>1. Local(t) /\ t \in Active /\ Typed
  BY JobLocal DEF SpawnInv
<1>2. \A u \in Tasks : \A n, w : PostedBy(u, n, w) => PostedBy(u, n, w)'
  BY <1>1, JobPosted
<1>3. queued' = queued /\ run' = run /\ queued \subseteq Entries
  BY <1>1 DEF Local, fixed, Typed
<1>4. \A e \in Entries : TaskOf[e] \in Tasks
  BY TaskOfAssumption
<1>5. CASE pending' = pending
  BY <1>2, <1>3, <1>4, <1>5 DEF DrainedWasDelivered, InQueue
<1>6. CASE Drain(t)
  <2>1. pc[t] = "drain" /\ \A e : InQueue(e)' <=> InQueue(e) /\ e \notin EntriesOf(t)
    BY <1>1, <1>6, DrainedRest DEF Drain, Typed
  <2>2. Ahead(t) = {} /\ PostedBy(t, run, Assessment)
    BY <2>1 DEF DeliveryInv, ToDrain
  <2>3. ASSUME NEW e \in EntriesOf(t)
        PROVE  TaskOf[e] = t /\ Handled(e)
    <3>1. PICK i \in Positions(t) : snapshot[i] = e
      BY DEF EntriesOf
    <3>2. i \in Nat /\ pos[t] \in Nat /\ ~(i > pos[t])
      BY <1>1, <2>2, <3>1, FirstOfGroup DEF Ahead, Typed
    <3> QED BY <3>1, <3>2, EntriesHaveTasks DEF DeliveryInv, LoopInv
  <2>4. run \in 1..run
    BY <1>1, DueIsComment
  <2> QED BY <1>2, <1>3, <1>4, <2>1, <2>2, <2>3, <2>4 DEF DrainedWasDelivered, Handled
<1> QED BY <1>1, <1>5, <1>6, JobKinds DEF Early, Loops, Fails, WorklogPosted, Ends

LEMMA DeliveryNext ==
  SpawnInv /\ SpawnInv' /\ DeliveryInv /\ DrainedWasDelivered /\ [Next]_vars
    => DeliveryInv' /\ DrainedWasDelivered'
<1> SUFFICES ASSUME SpawnInv, SpawnInv', DeliveryInv, DrainedWasDelivered, [Next]_vars
             PROVE  DeliveryInv' /\ DrainedWasDelivered'
  OBVIOUS
<1>d. ASSUME UNCHANGED <<worklog, run, snapshot, pos>>, \A t \in Tasks : pc'[t] = "drain" => pc[t] = "drain"
      PROVE  DeliveryInv'
  BY <1>d DEF DeliveryInv, LoopInv, ToDrain, Positions, Ahead, Handled, PostedBy
<1>q. ASSUME UNCHANGED <<pending, queued, worklog>>, run' \in Nat, run' >= run
      PROVE  DrainedWasDelivered'
  <2>1. \A n \in 1..run : n \in 1..run'
    BY <1>q DEF SpawnInv, Typed
  <2> QED BY <1>q, <2>1 DEF DrainedWasDelivered, InQueue, PostedBy
<1>r. run \in Nat
  BY RunsAssumption DEF SpawnInv, Typed
<1>1. ASSUME NEW e \in Entries, QueueDraft(e) PROVE DeliveryInv' /\ DrainedWasDelivered'
  <2>1. DeliveryInv'
    BY <1>1, <1>d DEF QueueDraft, proc
  <2>2. /\ pending \in Seq(Entries) /\ pending' = Append(pending, e) /\ queued' = queued \cup {e}
        /\ UNCHANGED <<run, worklog>>
    BY <1>1 DEF QueueDraft, proc, SpawnInv, Typed
  <2>3. /\ Len(pending) \in Nat /\ DOMAIN pending = 1..Len(pending)
        /\ DOMAIN pending' = 1..(Len(pending) + 1)
        /\ \A i \in 1..Len(pending) : pending'[i] = pending[i]
        /\ pending'[Len(pending) + 1] = e
    BY <2>2
  <2>4. InQueue(e)'
    BY <2>3 DEF InQueue
  <2>5. \A f : InQueue(f) => InQueue(f)'
    BY <2>3 DEF InQueue
  <2> QED BY <2>1, <2>2, <2>4, <2>5 DEF DrainedWasDelivered, PostedBy
<1>2. ASSUME NEW t \in Tasks, ProbeCache(t) PROVE DeliveryInv' /\ DrainedWasDelivered'
  BY <1>2, <1>d, <1>q, <1>r DEF ProbeCache, proc
<1>3. ASSUME NEW t \in Tasks, Spawn(t) PROVE DeliveryInv' /\ DrainedWasDelivered'
  BY <1>3, <1>d, <1>q, <1>r DEF Spawn, disk, SpawnInv, Typed
<1>4. ASSUME NEW t \in Tasks, Job(t) PROVE DeliveryInv' /\ DrainedWasDelivered'
  BY <1>4, JobDelivery, JobDrains
<1>5. CASE Start
  <2>1. \A t \in Tasks : pc'[t] = "none" /\ pos'[t] = 0
    BY <1>5 DEF Start
  <2>2. snapshot' \in Seq(Entries)
    BY DEF SpawnInv, Typed
  <2>3. \A t \in Tasks : \A i \in Positions(t)' : ~(i <= 0)
    BY <2>2 DEF Positions
  <2> QED BY <1>5, <1>q, <1>r, <2>1, <2>3 DEF Start, disk, DeliveryInv, LoopInv, ToDrain
<1>6. CASE Wait
  BY <1>6, <1>d, <1>q, <1>r DEF Wait, disk
<1>7. CASE Die
  BY <1>7, <1>d, <1>q, <1>r DEF Die, disk
<1>8. CASE UNCHANGED vars
  BY <1>8, <1>d, <1>q, <1>r DEF vars
<1> QED BY <1>1, <1>2, <1>3, <1>4, <1>5, <1>6, <1>7, <1>8 DEF Next

(* No entry leaves the queue before one and the same run has recorded its     *)
(* draft and its task's assessment (dispatch.go:137-227).                     *)
THEOREM NothingDrainedUndelivered == Spec => []DrainedWasDelivered
BY SpawnInit, SpawnNext, DeliveryInit, DeliveryNext, PTL DEF Spec

-------------------------------------------------------------------------------
(* The tally.                                                                 *)

(* A task's entries are in the queue until its job has drained them, and the  *)
(* job that drained them succeeds.                                            *)
Through(t) ==
  \/ pc[t] = "report"
  \/ pc[t] \in {"exit", "done"} /\ outcome[t] = "succeeded"
TallyInv ==
  /\ \A e : InQueue(e) => e \in queued
  /\ \A i \in DOMAIN snapshot : snapshot[i] \in queued
  /\ phase = "running" =>
       \A t \in Tasks : \A e \in EntriesOf(t) : InQueue(e) <=> ~Through(t)

LEMMA SnapshotEntries ==
  \A t \in Tasks : \A e \in EntriesOf(t) :
    TaskOf[e] = t /\ \E i \in DOMAIN snapshot : snapshot[i] = e
BY DEF EntriesOf, Positions

LEMMA TallyInit == Init => TallyInv /\ TallyMatchesQueue
BY DEF Init, TallyInv, InQueue, TallyMatchesQueue

LEMMA JobTally ==
  ASSUME SpawnInv, TallyInv, NEW t \in Tasks, Job(t)
  PROVE  TallyInv' /\ TallyMatchesQueue'
<1>1. Local(t) /\ t \in Active /\ Typed
  BY JobLocal DEF SpawnInv
<1>2. UNCHANGED <<snapshot, phase, queued>> /\ phase = "running"
  BY <1>1 DEF Local, fixed, Typed
<1>3. \A u \in Tasks : EntriesOf(u)' = EntriesOf(u)
  BY <1>2 DEF EntriesOf, Positions
<1>4. \A u \in Tasks : u # t => (Through(u)' <=> Through(u))
  BY <1>1 DEF Local, Through
<1>5. CASE Early(t) \/ Loops(t) \/ Fails(t) \/ WorklogPosted(t) \/ Ends(t)
  <2>1. \A e : InQueue(e)' <=> InQueue(e)
    BY <1>5 DEF InQueue, Early, Loops, Fails, WorklogPosted, Ends
  <2>2. Through(t)' <=> Through(t)
    <3>1. CASE Early(t)
      BY <3>1 DEF Early, Through, BeforeDrafts
    <3>2. CASE Loops(t)
      BY <3>2 DEF Loops, Through
    <3>3. CASE Fails(t)
      BY <3>3 DEF Fails, Through
    <3>4. CASE WorklogPosted(t)
      <4>1. pc[t] = "draft" /\ pc'[t] = "drain"
        BY <1>1, <3>4 DEF WorklogPosted, Typed
      <4> QED BY <4>1 DEF Through
    <3>5. CASE Ends(t)
      BY <3>5 DEF Ends, Through
    <3> QED BY <1>5, <3>1, <3>2, <3>3, <3>4, <3>5
  <2> QED BY <1>2, <1>3, <1>4, <2>1, <2>2 DEF TallyInv, TallyMatchesQueue
<1>6. CASE Drain(t)
  <2>1. \A e : InQueue(e)' <=> InQueue(e) /\ e \notin EntriesOf(t)
    BY <1>1, <1>6, DrainedRest DEF Drain, Typed
  <2>2. ~Through(t) /\ Through(t)'
    <3>1. pc[t] = "drain" /\ pc'[t] = "report"
      BY <1>1, <1>6 DEF Drain, Typed
    <3> QED BY <3>1 DEF Through
  <2>3. \A u \in Tasks : u # t => EntriesOf(u) \cap EntriesOf(t) = {}
    BY SnapshotEntries
  <2> QED BY <1>2, <1>3, <1>4, <2>1, <2>2, <2>3 DEF TallyInv, TallyMatchesQueue
<1> QED BY <1>1, <1>5, <1>6, JobKinds

LEMMA TallyNext ==
  SpawnInv /\ SpawnInv' /\ TallyInv /\ TallyMatchesQueue /\ [Next]_vars
    => TallyInv' /\ TallyMatchesQueue'
<1> SUFFICES ASSUME SpawnInv, SpawnInv', TallyInv, TallyMatchesQueue, [Next]_vars
             PROVE  TallyInv' /\ TallyMatchesQueue'
  OBVIOUS
<1>u. ASSUME UNCHANGED <<pending, queued, snapshot, phase, run, died, pc, outcome>>
      PROVE  TallyInv' /\ TallyMatchesQueue'
  BY <1>u DEF TallyInv, TallyMatchesQueue, InQueue, EntriesOf, Positions, Grouped, Through
<1>1. ASSUME NEW e \in Entries, QueueDraft(e) PROVE TallyInv' /\ TallyMatchesQueue'
  <2>2. /\ pending \in Seq(Entries) /\ pending' = Append(pending, e) /\ queued' = queued \cup {e}
        /\ e \notin queued
        /\ UNCHANGED <<snapshot, phase, run, died, pc, outcome>>
    BY <1>1 DEF QueueDraft, proc, SpawnInv, Typed
  <2>3. /\ Len(pending) \in Nat /\ DOMAIN pending = 1..Len(pending)
        /\ DOMAIN pending' = 1..(Len(pending) + 1)
        /\ \A i \in 1..Len(pending) : pending'[i] = pending[i]
        /\ pending'[Len(pending) + 1] = e
    BY <2>2
  <2>4. \A f : InQueue(f)' <=> InQueue(f) \/ f = e
    <3>1. \A i \in 1..(Len(pending) + 1) : i \in 1..Len(pending) \/ i = Len(pending) + 1
      BY <2>3
    <3> QED BY <2>3, <3>1 DEF InQueue
  <2>5. \A t \in Tasks : EntriesOf(t)' = EntriesOf(t) /\ (Through(t)' <=> Through(t)) /\ e \notin EntriesOf(t)
    BY <2>2, SnapshotEntries DEF EntriesOf, Positions, Through, TallyInv
  <2>6. Grouped' = Grouped /\ Grouped \subseteq Tasks
    BY <2>2 DEF Grouped, Positions
  <2>7. TallyInv'
    BY <2>2, <2>4, <2>5 DEF TallyInv
  <2>8. TallyMatchesQueue'
    BY <2>2, <2>4, <2>5, <2>6 DEF TallyMatchesQueue
  <2> QED BY <2>7, <2>8
<1>2. ASSUME NEW t \in Tasks, ProbeCache(t) PROVE TallyInv' /\ TallyMatchesQueue'
  BY <1>2, <1>u DEF ProbeCache, proc
<1>3. ASSUME NEW t \in Tasks, Spawn(t) PROVE TallyInv' /\ TallyMatchesQueue'
  <2>1. /\ UNCHANGED <<pending, queued, snapshot, phase, outcome>> /\ phase = "running"
        /\ t \in Grouped /\ GroupNumber(t) = spawned + 1 /\ pc' = [pc EXCEPT ![t] = "spawned"]
    BY <1>3 DEF Spawn, disk, fixed
  <2>2. ~(GroupNumber(t) <= spawned)
    <3>1. spawned \in Nat
      BY TaskOfAssumption, FS_CardinalityType DEF SpawnInv, PoolInv
    <3> QED BY <2>1, <3>1
  <2>3. pc[t] = "none"
    BY <2>1, <2>2 DEF SpawnInv, PoolInv
  <2>4. \A u \in Tasks : Through(u)' <=> Through(u)
    BY <2>1, <2>3 DEF Through, SpawnInv, Typed
  <2>5. \A u \in Tasks : EntriesOf(u)' = EntriesOf(u)
    BY <2>1 DEF EntriesOf, Positions
  <2> QED BY <2>1, <2>4, <2>5 DEF TallyInv, TallyMatchesQueue, InQueue
<1>4. ASSUME NEW t \in Tasks, Job(t) PROVE TallyInv' /\ TallyMatchesQueue'
  BY <1>4, JobTally
<1>5. CASE Start
  <2>1. /\ snapshot' = pending /\ pending' = pending /\ queued' = queued /\ phase' = "running"
        /\ \A t \in Tasks : pc'[t] = "none"
    BY <1>5 DEF Start, disk
  <2>2. \A t \in Tasks : ~Through(t)'
    BY <2>1 DEF Through
  <2>3. \A t \in Tasks : \A e \in EntriesOf(t)' : InQueue(e)'
    BY <2>1 DEF EntriesOf, Positions, InQueue
  <2> QED BY <2>1, <2>2, <2>3 DEF TallyInv, TallyMatchesQueue, InQueue
<1>6. CASE Wait
  <2>1. /\ phase = "running" /\ phase' = "idle" /\ spawned = Cardinality(Grouped) /\ Active = {}
        /\ UNCHANGED <<pending, queued, snapshot, pc, outcome, run, died>>
    BY <1>6 DEF Wait, disk
  <2>2. \A t \in Grouped : pc[t] = "done"
    <3>0. snapshot \in Seq(Entries) /\ Grouped \subseteq Tasks
      BY DEF SpawnInv, Typed, Grouped
    <3>1. \A t \in Grouped : t \in Tasks /\ GroupNumber(t) <= spawned
      BY <2>1, <3>0, GroupNumbers
    <3> QED BY <2>1, <3>1 DEF SpawnInv, PoolInv, Active
  <2>3. \A t \in Grouped : \A e \in EntriesOf(t) : InQueue(e) <=> outcome[t] # "succeeded"
    BY <2>1, <2>2 DEF TallyInv, Through, Grouped
  <2>4. TallyInv' /\ TallyMatchesQueue'
    BY <2>1, <2>3 DEF TallyInv, TallyMatchesQueue, InQueue, EntriesOf, Positions, Grouped
  <2> QED BY <2>4
<1>7. CASE Die
  BY <1>7 DEF Die, disk, TallyInv, TallyMatchesQueue, InQueue
<1>8. CASE UNCHANGED vars
  BY <1>8, <1>u DEF vars
<1> QED BY <1>1, <1>2, <1>3, <1>4, <1>5, <1>6, <1>7, <1>8 DEF Next

(* A run that has been tallied has drained exactly the entries of the tasks   *)
(* it counts as succeeded (dispatch.go:100-113).                              *)
THEOREM TallyIsTrue == Spec => []TallyMatchesQueue
BY SpawnInit, SpawnNext, TallyInit, TallyNext, PTL DEF Spec

==============================================================================

--------------------------- MODULE PipelineProofs ---------------------------
(***************************************************************************)
(* Theorems of the whole pipeline, for any number of tasks, records,       *)
(* drafts, events and failures: what the probe promises alone it promises  *)
(* beside a dispatcher that comments on the tasks while it reads them, and *)
(* a probe that runs alone takes no open task from the dispatcher's cache. *)
(***************************************************************************)
EXTENDS Pipeline, ProbeRunProofs

\* A step of the pipeline is one of a probe or of the world, or a comment of the dispatcher's,
\* or it leaves both alone.
LEMMA PipelineMoves == [PipelineNext]_all => Moves
<1> SUFFICES ASSUME [PipelineNext]_all PROVE Moves
  OBVIOUS
<1> USE DEF Stays, vars
<1>1. CASE Environment
  BY <1>1 DEF Moves, World
<1>2. ASSUME NEW p \in Probes, ProbeStep(p) PROVE Moves
  BY <1>2 DEF ProbeStep, Moves
<1>3. ASSUME NEW t \in Tasks, Log(t) PROVE Commented
  BY <1>3 DEF Log, Commented
<1>4. ASSUME NEW t \in Tasks, Job(t) PROVE Moves
  BY <1>3, <1>4 DEF Moves, World, Job, JobLoads, JobPosts, JobDrains, JobFails
<1>5. CASE (\E d \in Drafts : QueueDraft(d)) \/ Dispatch \/ DispatchEnds
  BY <1>5 DEF Moves, QueueDraft, Dispatch, DispatchEnds
<1>6. CASE UNCHANGED all
  BY <1>6 DEF Moves, all
<1> QED BY <1>1, <1>2, <1>4, <1>5, <1>6 DEF PipelineNext

LEMMA PipelineStarts == PipelineInit => Init
BY DEF PipelineInit

\* Beside the dispatcher, too, no watermark is ahead of its record (slack.go:176-199).
THEOREM PipelineWatermarksAreSound == PipelineSpec => []WatermarkSound
<1>1. Watermarked => WatermarkSound
  BY DEF Watermarked, Behind, WatermarkSound
<1> QED BY <1>1, PipelineStarts, PipelineMoves, WatermarkInit, WatermarkStep, PTL DEF PipelineSpec

\* The report has a verdict on every link that the tasks open when the run began had then,
\* although tasks are created and closed and the dispatcher comments on them while the pages
\* of the list and the comments are fetched, and its comments hold links too
\* (engine.go:118-128, probe.go:173-181).
THEOREM PipelineReportsAreComplete == PipelineSpec => []ReportIsComplete
<1>1. Reporting => ReportIsComplete
  BY DEF Reporting
<1> QED BY <1>1, PipelineStarts, PipelineMoves, ReportInit, ReportStep, PTL DEF PipelineSpec

\* "Fresh" and "moved" keep their meaning when the baseline of a task is a comment that the
\* dispatcher posts while the task is being probed (engine.go:140-160).
THEOREM PipelineVerdicts == PipelineSpec => [](FreshIsTrue /\ MovedWasNews)
<1>1. Judged => FreshIsTrue /\ MovedWasNews
  BY DEF Judged, ReportJudged
<1> QED BY <1>1, PipelineStarts, PipelineMoves, VerdictInit, VerdictStep, PTL DEF PipelineSpec

----------------------------------------------------------------------------
(* The cache                                                               *)

\* A task that was never created is in no list and no cache; what is open and cached a run has
\* listed or is still to list.
RunListed(r) ==
    /\ DOMAIN r = Fields /\ r.todo \subseteq Tasks
    /\ DOMAIN r.copies \subseteq {t \in Tasks : Existed(t)}
    /\ r.pc = "listing" => cache \cap open \subseteq DOMAIN r.copies \cup r.todo
    /\ r.pc \in {"comments", "caching"} => /\ r.todo \subseteq DOMAIN r.copies
                                           /\ cache \cap open \subseteq DOMAIN r.copies

\* So it is until the run has pruned.
CacheInv ==
    /\ now \in Nat \ {0} /\ DOMAIN updated = Tasks
    /\ open \subseteq {t \in Tasks : Existed(t)} /\ cache \subseteq {t \in Tasks : Existed(t)}
    /\ DOMAIN probe = Probes /\ \A p \in Probes : RunListed(probe[p])

\* No probe runs beside another.
Alone == \A p, q \in Probes : p = q

LEMMA IdleHasListed == RunListed(Idle)
BY DEF RunListed, Idle, Fields

LEMMA CacheInit == Init => CacheInv
<1> SUFFICES ASSUME Init PROVE CacheInv
  OBVIOUS
<1>1. \A p \in Probes : probe[p] = Idle
  BY DEF Init
<1> QED BY <1>1, IdleHasListed, ProbeRunAssumption DEF Init, CacheInv, Existed

\* A task that is created now is not in the cache yet.
LEMMA CacheWorld ==
    ASSUME CacheInv, World
    PROVE  CacheInv'
<1>1. cache' = cache /\ probe' = probe
  BY DEF World, Commented, Environment, Activity, Scroll, PostComment, Edit, Create, Close, At, files
<1>2. now' \in Nat \ {0} /\ \A at \in now .. MaxNow : at # 0
  BY DEF World, Commented, Environment, Activity, Scroll, PostComment, Edit, Create, Close, At,
         Times, CacheInv
<1>3. DOMAIN updated' = Tasks /\ \A t \in Tasks : Existed(t) => Existed(t)'
  BY <1>2 DEF World, Commented, Environment, Activity, Scroll, PostComment, Edit, Create, Close, At,
              CacheInv, Existed
<1>4. \A t \in open' : t \in open \/ (t \in Tasks /\ ~Existed(t) /\ Existed(t)')
  BY <1>2 DEF World, Commented, Environment, Activity, Scroll, PostComment, Edit, Create, Close, At,
              CacheInv, Existed
<1>5. open' \subseteq {t \in Tasks : Existed(t)'} /\ cache' \subseteq {t \in Tasks : Existed(t)'}
  BY <1>1, <1>3, <1>4 DEF CacheInv
<1>6. cache' \cap open' \subseteq cache \cap open
  BY <1>1, <1>4 DEF CacheInv
<1>7. ASSUME NEW p \in Probes PROVE RunListed(probe[p])'
  BY <1>1, <1>3, <1>6 DEF CacheInv, RunListed
<1> QED BY <1>1, <1>2, <1>3, <1>5, <1>7 DEF CacheInv

\* A step of the only run is judged by what becomes of it.
LEMMA CacheMove ==
    ASSUME Alone, CacheInv, NEW p \in Probes, NEW r, probe' = [probe EXCEPT ![p] = r],
           UNCHANGED world, cache' \subseteq cache \cup DOMAIN r.copies,
           RunListed(r)
    PROVE  CacheInv'
<1>1. now' = now /\ open' = open /\ updated' = updated
  BY DEF world
<1>2. \A t : Existed(t)' <=> Existed(t)
  BY <1>1 DEF Existed
<1>3. cache' \subseteq {t \in Tasks : Existed(t)}
  BY DEF CacheInv, RunListed
<1>4. ASSUME NEW q \in Probes PROVE RunListed(probe[q])'
  <2>1. probe'[q] = r
    BY DEF Alone, CacheInv
  <2> QED BY <1>1, <1>2, <2>1 DEF RunListed
<1> QED BY <1>1, <1>2, <1>3, <1>4 DEF CacheInv

LEMMA CacheStep ==
    ASSUME Alone
    PROVE  CacheInv /\ Moves => CacheInv'
<1> SUFFICES ASSUME CacheInv, Moves PROVE CacheInv'
  OBVIOUS
<1>1. CASE World
  BY <1>1, CacheWorld
<1>2. CASE Stays
  <2>1. now' = now /\ open' = open /\ updated' = updated /\ cache' = cache /\ probe' = probe
    BY <1>2 DEF Stays, world, files
  <2> QED BY <2>1 DEF CacheInv, RunListed, Existed
<1>3. ASSUME NEW p \in Probes, FetchTasks(p) \/ Step(p) PROVE CacheInv'
  <2> DEFINE old == probe[p]
  <2>0. RunListed(old)
    BY DEF CacheInv
  <2>i. RunListed(Idle) /\ Idle.copies = <<>>
    BY IdleHasListed DEF Idle
  <2>1. CASE FetchTasks(p)
    <3>1. PICK r : /\ probe' = [probe EXCEPT ![p] = r] /\ UNCHANGED <<world, files>>
                   /\ DOMAIN r = Fields /\ r.copies = <<>>
                   /\ \/ r.pc = "listing" /\ r.todo = Tasks
                      \/ r.pc = "comments" /\ r.todo = {} /\ Tasks = {}
      BY <2>1, RunSetsOut
    <3>2. DOMAIN r.copies = {} /\ cache \subseteq Tasks
      BY <3>1 DEF CacheInv
    <3>3. RunListed(r)
      BY <3>1, <3>2 DEF RunListed
    <3> QED BY <3>1, <3>3, CacheMove DEF files
  <2>10. CASE ListTask(p)
    <3>1. PICK t, r :
            /\ t \in old.todo /\ probe' = [probe EXCEPT ![p] = r] /\ UNCHANGED <<world, files>>
            /\ Lists(old, t, r)
      BY <2>0, <2>10, RunLists DEF RunListed
    <3>2. DOMAIN r.copies = DOMAIN old.copies \cup ({t} \cap open)
          /\ open \subseteq {u \in Tasks : Existed(u)}
      BY <3>1 DEF Lists, CacheInv
    <3>3. cache \cap open \subseteq DOMAIN r.copies \cup (old.todo \ {t})
      BY <2>0, <3>1, <3>2 DEF Lists, RunListed
    <3>4. RunListed(r)
      BY <2>0, <3>1, <3>2, <3>3 DEF Lists, RunListed
    <3> QED BY <3>1, <3>4, CacheMove DEF files
  <2>2. CASE FetchComments(p)
    <3>1. PICK t \in old.todo :
            Move(p, [old EXCEPT !.todo = @ \ {t}, !.copies[t].comments = comments[t],
                                !.copies[t].complete = TRUE])
      BY <2>2 DEF FetchComments
    <3> DEFINE run == [old EXCEPT !.todo = @ \ {t}, !.copies[t].comments = comments[t],
                                  !.copies[t].complete = TRUE]
    <3>2. probe' = [probe EXCEPT ![p] = run] /\ UNCHANGED <<world, cache>>
      BY <3>1 DEF Move, files
    <3>3. /\ DOMAIN run = Fields /\ run.pc = old.pc /\ old.pc = "comments"
          /\ run.todo = old.todo \ {t} /\ DOMAIN run.copies = DOMAIN old.copies
      BY <2>0, <2>2 DEF RunListed, Fields, FetchComments
    <3> HIDE DEF run
    <3>4. RunListed(run)
      BY <2>0, <3>3 DEF RunListed
    <3> QED BY <3>2, <3>4, CacheMove
  <2>3. CASE FetchCommentsFails(p) \/ SaveTask(p) \/ SaveTaskFails(p)
    <3>1. PICK t \in old.todo : probe' = [probe EXCEPT ![p] = [old EXCEPT !.todo = @ \ {t}]]
      BY <2>3 DEF FetchCommentsFails, SaveTask, SaveTaskFails, Move, CacheInv
    <3>2. /\ UNCHANGED world /\ cache' \subseteq cache \cup old.todo
          /\ old.pc \in {"comments", "caching"}
      BY <2>3 DEF FetchCommentsFails, SaveTask, SaveTaskFails, Move, files
    <3> DEFINE run == [old EXCEPT !.todo = @ \ {t}]
    <3>3. probe' = [probe EXCEPT ![p] = run]
      BY <3>1
    <3>4. /\ DOMAIN run = Fields /\ run.pc = old.pc /\ run.copies = old.copies
          /\ run.todo = old.todo \ {t}
      BY <2>0 DEF RunListed, Fields
    <3> HIDE DEF run
    <3> QED BY <2>0, <3>2, <3>3, <3>4, CacheMove DEF RunListed
  <2>4. CASE LoadWatermark(p) \/ LoadWatermarkCorrupt(p)
    <3>1. PICK since : probe' = [probe EXCEPT ![p] = [old EXCEPT !.pc = "caching", !.since = since,
                                                                 !.todo = DOMAIN old.copies]]
      <4>1. [old EXCEPT !.pc = "caching", !.todo = DOMAIN old.copies]
              = [old EXCEPT !.pc = "caching", !.since = old.since, !.todo = DOMAIN old.copies]
        BY <2>0 DEF RunListed, Fields
      <4> QED BY <2>4, <4>1 DEF LoadWatermark, LoadWatermarkCorrupt, Move
    <3> DEFINE r == [old EXCEPT !.pc = "caching", !.since = since, !.todo = DOMAIN old.copies]
    <3>3. /\ probe' = [probe EXCEPT ![p] = r] /\ DOMAIN r = Fields
          /\ r.copies = old.copies /\ r.todo = DOMAIN old.copies
      BY <2>0, <3>1 DEF RunListed, Fields
    <3> HIDE DEF r
    <3>2. UNCHANGED <<world, cache>> /\ old.pc = "comments"
      BY <2>4 DEF LoadWatermark, LoadWatermarkCorrupt, Move, files
    <3> QED BY <2>0, <3>2, <3>3, CacheMove DEF RunListed
  <2>5. CASE \/ FetchFails(p) \/ SaveReport(p) \/ Stop(p)
    <3>1. probe' = [probe EXCEPT ![p] = Idle] /\ UNCHANGED <<world, cache>>
      BY <2>5 DEF FetchFails, SaveReport, Stop, Move, files
    <3> QED BY <2>i, <3>1, CacheMove
  <2>6. ASSUME NEW left, PruneTasksExcept(p, left) PROVE CacheInv'
    <3>1. PICK ask, ks : probe' = [probe EXCEPT ![p].pc = "probing", ![p].ask = ask,
                                                ![p].results = [k \in ks |-> Unchecked]]
      BY <2>6 DEF PruneTasksExcept, Engine
    <3> DEFINE run == [old EXCEPT !.pc = "probing", !.ask = ask,
                                  !.results = [k \in ks |-> Unchecked]]
    <3>2. probe' = [probe EXCEPT ![p] = run]
      BY <3>1 DEF CacheInv
    <3>3. /\ DOMAIN run = Fields /\ run.pc = "probing"
          /\ run.copies = old.copies /\ run.todo = old.todo
      BY <2>0 DEF RunListed, Fields
    <3> HIDE DEF run
    <3>4. UNCHANGED world /\ cache' \subseteq cache
      BY <2>6 DEF PruneTasksExcept
    <3> QED BY <2>0, <3>2, <3>3, <3>4, CacheMove DEF RunListed
  <2>7. ASSUME NEW ks, NEW res, Answered(p, ks, res), old.pc = "probing" PROVE CacheInv'
    <3> DEFINE run == [old EXCEPT !.ask = @ \ ks, !.confirm = @ \ ks,
                          !.results = [k \in DOMAIN @ \cup ks |-> IF k \in ks THEN res ELSE @[k]]]
    <3>1. probe' = [probe EXCEPT ![p] = run] /\ UNCHANGED <<world, cache>>
      BY <2>7 DEF Answered, Move, files
    <3>2. /\ DOMAIN run = Fields /\ run.pc = "probing"
          /\ run.copies = old.copies /\ run.todo = old.todo
      BY <2>0, <2>7 DEF RunListed, Fields
    <3> HIDE DEF run
    <3> QED BY <2>0, <3>1, <3>2, CacheMove DEF RunListed
  <2>8. CASE \/ ProbeOne(p) \/ SlackHistory(p) \/ ConfirmThread(p)
             \/ ProbeOneFails(p) \/ ProberFails(p) \/ Deadline(p)
    <3>1. ASSUME NEW k, ToConfirm(p, k), old.pc = "probing" PROVE CacheInv'
      <4> DEFINE run == [old EXCEPT !.ask = @ \ {k}, !.confirm = @ \cup {k}]
      <4>1. probe' = [probe EXCEPT ![p] = run] /\ UNCHANGED <<world, cache>>
        BY <3>1 DEF ToConfirm, Move, files
      <4>2. /\ DOMAIN run = Fields /\ run.pc = "probing"
            /\ run.copies = old.copies /\ run.todo = old.todo
        BY <2>0, <3>1 DEF RunListed, Fields
      <4> HIDE DEF run
      <4> QED BY <2>0, <4>1, <4>2, CacheMove DEF RunListed
    <3>2. old.pc = "probing" /\ ((\E ks, res : Answered(p, ks, res)) \/ \E k : ToConfirm(p, k))
      BY <2>8 DEF ProbeOne, SlackHistory, ConfirmThread, ProbeOneFails, ProberFails, Deadline, ToConfirm
    <3> QED BY <2>7, <3>1, <3>2
  <2>9. CASE SaveWatermark(p)
    <3> DEFINE run == [old EXCEPT !.pc = "reporting"]
    <3>1. probe' = [probe EXCEPT ![p] = run] /\ UNCHANGED <<world, cache>>
      BY <2>9 DEF SaveWatermark, CacheInv
    <3>2. /\ DOMAIN run = Fields /\ run.pc = "reporting"
          /\ run.copies = old.copies /\ run.todo = old.todo
      BY <2>0 DEF RunListed, Fields
    <3> HIDE DEF run
    <3> QED BY <2>0, <3>1, <3>2, CacheMove DEF RunListed
  <2> QED BY <1>3, <2>1, <2>2, <2>3, <2>4, <2>5, <2>6, <2>8, <2>9, <2>10 DEF Step
<1> QED BY <1>1, <1>2, <1>3 DEF Moves

\* Only a prune takes tasks from the cache, and what it takes its run has not listed.
LEMMA OpenKept == CacheInv /\ Moves => cache \ cache' \subseteq Tasks \ open
<1> SUFFICES ASSUME CacheInv, Moves PROVE cache \ cache' \subseteq Tasks \ open
  OBVIOUS
<1>1. ASSUME NEW p \in Probes, NEW left, PruneTasksExcept(p, left)
      PROVE  cache \ cache' \subseteq Tasks \ open
  BY <1>1 DEF PruneTasksExcept, CacheInv, RunListed
<1>2. ASSUME NEW p \in Probes, FetchTasks(p) \/ Step(p), ~ \E left : PruneTasksExcept(p, left)
      PROVE  cache \subseteq cache'
  BY <1>2 DEF FetchTasks, Step, ListTask, FetchComments, FetchCommentsFails, FetchFails, LoadWatermark,
              LoadWatermarkCorrupt, SaveTask, SaveTaskFails, ProbeOne, SlackHistory, ConfirmThread,
              ProbeOneFails, ProberFails, Deadline, SaveWatermark, SaveReport, Stop, Answered, Move,
              files
<1>3. CASE World \/ Stays
  BY <1>3 DEF World, Stays, Commented, Environment, Activity, Scroll, PostComment, Edit, Create,
              Close, At, files
<1> QED BY <1>1, <1>2, <1>3 DEF Moves

\* As long as no two probes run at once, no step of a probe, of the dispatcher or of the world
\* takes an open task from the cache: not a prune whose list is older than the task, nor one that
\* lost the comments or the file of a task on the way (store.go:134-166, probe.go:168-181).
THEOREM OpenTasksStayCached ==
    ASSUME Alone
    PROVE  PipelineSpec => OpenStaysCached
<1>1. CacheInv /\ [PipelineNext]_all => [cache \ cache' \subseteq Tasks \ open]_vars
  BY PipelineMoves, OpenKept
<1>2. CacheInv /\ [PipelineNext]_all => CacheInv'
  BY PipelineMoves, CacheStep
<1> QED BY <1>1, <1>2, PipelineStarts, CacheInit, PTL DEF PipelineSpec, OpenStaysCached

=============================================================================

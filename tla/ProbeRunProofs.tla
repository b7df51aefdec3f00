--------------------------- MODULE ProbeRunProofs ---------------------------
(***************************************************************************)
(* Theorems of ProbeRun for any number of probes beside each other, tasks, *)
(* records, events and failures, any cap and any resolution of the clock:  *)
(* the watermark is never ahead of the world, a report leaves nothing out, *)
(* and its verdicts are true of the world its run set out from.            *)
(***************************************************************************)
EXTENDS ProbeRun, Integers, TLAPS

----------------------------------------------------------------------------
(* The watermark                                                           *)

Fields == {"pc", "copies", "since", "todo", "ask", "confirm", "results", "start"}

\* Nothing has happened in the future, and a reply sent to the channel is a reply.
WorldInv ==
    /\ now \in Nat /\ last \in [Keys -> Nat] /\ bcasts \in [Keys -> SUBSET Nat]
    /\ \A k \in Keys : last[k] <= now
    /\ \A k \in Keys : \A b \in bcasts[k] : b <= last[k]

Behind(f) == \A k \in Keys : f[k] \in Int /\ f[k] <= last[k]

ResultsBehind(results) ==
    \A k \in Keys \cap DOMAIN results : results[k].last \in Int /\ results[k].last <= last[k]

\* The links of a run's copies; every one will be answered, and is before the run reports.
LinkedOf(r) == UNION {Extract(t, r.copies[t].comments) : t \in DOMAIN r.copies}
Covered(r) ==
    /\ r.pc = "probing" => LinkedOf(r) \subseteq DOMAIN r.results \cup r.ask \cup r.confirm
    /\ r.pc = "reporting" => LinkedOf(r) \subseteq DOMAIN r.results

RunInv(r) ==
    /\ DOMAIN r = Fields
    /\ Behind(r.since) /\ ResultsBehind(r.results) /\ Covered(r)

Watermarked == /\ WorldInv /\ Behind(watermark)
               /\ DOMAIN probe = Probes /\ \A p \in Probes : RunInv(probe[p])

\* A comment of the dispatcher's, in Pipeline: it is none of the events of the world, and its
\* task may be closed by then.
Commented ==
    \E t \in Tasks : \E at \in now .. MaxNow :
        /\ now' = at
        /\ comments' = [comments EXCEPT ![t] = @ \cup {[at |-> at, links |-> {}]}]
        /\ UNCHANGED <<last, bcasts, parentIn, open, updated, events, files, probe>>

\* What goes on around the probes, and what every step of ProbeRun or Pipeline is to them.
World == Environment \/ Commented
Stays == UNCHANGED <<world, files, probe>>
Moves == World \/ Stays \/ \E p \in Probes : FetchTasks(p) \/ Step(p)

LEMMA NextMoves == [Next]_vars => Moves
BY DEF Next, Moves, World, Stays, vars

\* Dropping the fraction of a second does not put a time off.
LEMMA SecondsBehind ==
    ASSUME NEW ts \in Nat
    PROVE  Seconds(ts) \in Int /\ Seconds(ts) <= ts
<1>1. ts % Second \in Nat
  BY ProbeRunAssumption
<1> QED BY <1>1 DEF Seconds

LEMMA IdleRun ==
    ASSUME WorldInv
    PROVE  RunInv(Idle)
<1>1. /\ DOMAIN Idle = Fields
      /\ Idle.pc = "idle" /\ Idle.since = [k \in Keys |-> 0] /\ Idle.results = <<>>
  BY DEF Idle, Fields
<1>2. Behind(Idle.since)
  BY <1>1 DEF Behind, WorldInv
<1>3. ResultsBehind(Idle.results)
  BY <1>1 DEF ResultsBehind
<1>4. Covered(Idle)
  BY <1>1 DEF Covered
<1> QED BY <1>1, <1>2, <1>3, <1>4 DEF RunInv

LEMMA WatermarkInit == Init => Watermarked
<1> SUFFICES ASSUME Init PROVE Watermarked
  OBVIOUS
<1>1. WorldInv
  BY ProbeRunAssumption DEF Init, WorldInv
<1>2. Behind(watermark)
  BY <1>1 DEF Init, Behind, WorldInv
<1>3. DOMAIN probe = Probes /\ \A p \in Probes : probe[p] = Idle
  BY DEF Init
<1> QED BY <1>1, <1>2, <1>3, IdleRun DEF Watermarked

\* Time does not run back, for the clock and for every record.
LEMMA WorldGoesOn ==
    ASSUME Watermarked, World
    PROVE  /\ now' \in Nat /\ now <= now' /\ WorldInv'
           /\ \A k \in Keys : last[k] <= last'[k]
           /\ UNCHANGED <<watermark, report, probe>>
<1>1. /\ now' \in Nat /\ now <= now'
      /\ watermark' = watermark /\ report' = report /\ probe' = probe
  BY DEF World, Commented, Environment, Activity, Scroll, PostComment, Edit, Create, Close, At, Times, files,
         Watermarked, WorldInv
<1>2. WorldInv' /\ \A k \in Keys : last[k] <= last'[k]
  <2>1. ASSUME ~ \E k \in Keys, at \in Times, b \in BOOLEAN : Activity(k, at, b)
        PROVE  WorldInv' /\ \A k \in Keys : last[k] <= last'[k]
    <3>1. last' = last
      BY <2>1 DEF World, Commented, Environment, Scroll, PostComment, Edit, Create, Close
    <3>2. bcasts' \in [Keys -> SUBSET Nat] /\ \A k \in Keys : bcasts'[k] \subseteq bcasts[k]
      <4>1. ASSUME NEW k \in Keys, Scroll(k) PROVE <3>2!1 /\ <3>2!2
        BY <4>1 DEF Scroll, Watermarked, WorldInv
      <4> QED BY <2>1, <4>1 DEF World, Commented, Environment, PostComment, Edit, Create, Close, Watermarked, WorldInv
    <3>3. \A k \in Keys : \A b \in bcasts'[k] : b <= last'[k]
      BY <3>1, <3>2 DEF Watermarked, WorldInv
    <3>4. \A k \in Keys : last'[k] <= now' /\ last[k] <= last'[k]
      BY <1>1, <3>1 DEF Watermarked, WorldInv
    <3> QED BY <1>1, <3>1, <3>2, <3>3, <3>4 DEF Watermarked, WorldInv
  <2>2. ASSUME NEW k \in Keys, NEW at \in Times, NEW b \in BOOLEAN, Activity(k, at, b)
        PROVE  WorldInv' /\ \A j \in Keys : last[j] <= last'[j]
    <3>1. at \in Nat /\ now <= at /\ now' = at
      BY <2>2, <1>1 DEF Activity, At
    <3>2. last' = [last EXCEPT ![k] = at]
      BY <2>2 DEF Activity
    <3>3. last' \in [Keys -> Nat] /\ \A j \in Keys : last[j] <= last'[j] /\ last'[j] <= now'
      BY <3>1, <3>2 DEF Watermarked, WorldInv
    <3>4. /\ bcasts' \in [Keys -> SUBSET Nat]
          /\ \A j \in Keys : bcasts'[j] \subseteq bcasts[j] \cup (IF j = k THEN {at} ELSE {})
      BY <2>2, <3>1 DEF Activity, Watermarked, WorldInv
    <3>5. last'[k] = at
      BY <3>2 DEF Watermarked, WorldInv
    <3>6. ASSUME NEW j \in Keys, NEW c \in bcasts'[j] PROVE c <= last'[j]
      BY <3>1, <3>3, <3>4, <3>5, <3>6 DEF Watermarked, WorldInv
    <3> QED BY <1>1, <3>3, <3>4, <3>6 DEF WorldInv
  <2> QED BY <2>1, <2>2
<1> QED BY <1>1, <1>2

\* What the world does leaves every time recorded before behind it.
LEMMA WatermarkWorld ==
    ASSUME Watermarked, World
    PROVE  Watermarked'
<1>1. WorldInv' /\ watermark' = watermark /\ probe' = probe
  BY WorldGoesOn
<1>2. \A k \in Keys : last[k] <= last'[k]
  BY WorldGoesOn
<1>3. ASSUME NEW f, Behind(f) PROVE \A k \in Keys : f[k] \in Int /\ f[k] <= last'[k]
  BY <1>1, <1>2, <1>3 DEF Behind, Watermarked, WorldInv
<1>4. Behind(watermark)'
  BY <1>1, <1>3 DEF Behind, Watermarked
<1>5. ASSUME NEW p \in Probes PROVE RunInv(probe[p])'
  <2>1. RunInv(probe[p])
    BY DEF Watermarked
  <2>2. Behind(probe[p].since)'
    BY <1>1, <1>3, <2>1 DEF Behind, RunInv
  <2>3. ResultsBehind(probe[p].results)'
    BY <1>1, <1>2, <2>1 DEF ResultsBehind, RunInv, Watermarked, WorldInv
  <2> QED BY <1>1, <2>1, <2>2, <2>3 DEF RunInv, Covered, LinkedOf
<1> QED BY <1>1, <1>2, <1>4, <1>5 DEF Watermarked

\* A step that leaves the world and the watermark alone is judged by its own run.
LEMMA WatermarkMove ==
    ASSUME Watermarked, NEW p \in Probes, NEW r, RunInv(r),
           probe' = [probe EXCEPT ![p] = r], UNCHANGED <<world, watermark>>
    PROVE  Watermarked'
<1>1. /\ last' = last /\ now' = now /\ bcasts' = bcasts
  BY DEF world
<1>2. DOMAIN probe' = Probes /\ \A q \in Probes : probe'[q] = IF q = p THEN r ELSE probe[q]
  BY DEF Watermarked
<1>3. ASSUME NEW q \in Probes PROVE RunInv(probe[q])'
  <2>1. RunInv(probe'[q])
    BY <1>2 DEF Watermarked
  <2> QED BY <2>1, <1>1 DEF RunInv, Behind, ResultsBehind, Covered, LinkedOf
<1> QED BY <1>1, <1>2, <1>3 DEF Watermarked, WorldInv, Behind

\* A run whose list is at its end differs in where it is and what is next to do.
LEMMA ListedRun ==
    ASSUME NEW r, DOMAIN r = Fields, r.pc = "listing"
    PROVE  /\ DOMAIN Listed(r) = Fields
           /\ Listed(r).copies = r.copies /\ Listed(r).start = r.start
           /\ Listed(r).since = r.since /\ Listed(r).results = r.results
           /\ \/ Listed(r).pc = "listing" /\ Listed(r).todo = r.todo
              \/ Listed(r).pc = "comments" /\ Listed(r).todo = DOMAIN r.copies /\ r.todo = {}
<1>1. CASE r.todo # {}
  BY <1>1 DEF Listed
<1>2. CASE r.todo = {}
  <2>1. Listed(r) = [r EXCEPT !.pc = "comments", !.todo = DOMAIN r.copies]
    BY <1>2 DEF Listed
  <2> QED BY <1>2, <2>1 DEF Fields
<1> QED BY <1>1, <1>2

\* A run sets out with nothing but a picture of the world.
LEMMA RunSetsOut ==
    ASSUME NEW p \in Probes, FetchTasks(p)
    PROVE  \E r : /\ probe' = [probe EXCEPT ![p] = r] /\ UNCHANGED <<world, files>>
                  /\ DOMAIN r = Fields /\ r.copies = <<>> /\ r.start = Snapshot
                  /\ r.since = Idle.since /\ r.results = Idle.results
                  /\ \/ r.pc = "listing" /\ r.todo = Tasks
                     \/ r.pc = "comments" /\ r.todo = {} /\ Tasks = {}
<1> DEFINE run == [Idle EXCEPT !.pc = "listing", !.todo = Tasks, !.start = Snapshot]
<1>1. probe' = [probe EXCEPT ![p] = Listed(run)] /\ UNCHANGED <<world, files>>
  BY DEF FetchTasks, Move
<1>2. /\ DOMAIN run = Fields /\ run.pc = "listing" /\ run.todo = Tasks /\ run.start = Snapshot
      /\ run.copies = <<>> /\ run.since = Idle.since /\ run.results = Idle.results
  BY DEF Idle, Fields
<1>3. DOMAIN run.copies = {}
  BY <1>2
<1> HIDE DEF run
<1>4. PICK r : r = Listed(run)
  OBVIOUS
<1> QED BY <1>1, <1>2, <1>3, <1>4, ListedRun

\* Run r is old once it has listed task t as it is now, if it is open now.
Lists(old, t, r) ==
    /\ old.pc = "listing" /\ DOMAIN r = Fields
    /\ r.start = old.start /\ r.since = old.since /\ r.results = old.results
    /\ DOMAIN r.copies = DOMAIN old.copies \cup ({t} \cap open)
    /\ \A u \in DOMAIN r.copies :
          r.copies[u] = IF u = t THEN [updated |-> updated[t], comments |-> {}, complete |-> FALSE]
                        ELSE old.copies[u]
    /\ \/ r.pc = "listing" /\ r.todo = old.todo \ {t}
       \/ r.pc = "comments" /\ r.todo = DOMAIN r.copies /\ old.todo \ {t} = {}

LEMMA RunLists ==
    ASSUME NEW p \in Probes, ListTask(p), DOMAIN probe[p] = Fields
    PROVE  \E t, r :
              /\ t \in probe[p].todo /\ probe' = [probe EXCEPT ![p] = r] /\ UNCHANGED <<world, files>>
              /\ Lists(probe[p], t, r)
<1>1. PICK t \in probe[p].todo :
        Move(p, Listed([probe[p] EXCEPT
                          !.todo = @ \ {t},
                          !.copies = [u \in DOMAIN @ \cup ({t} \cap open) |->
                                        IF u = t THEN [updated |-> updated[t], comments |-> {},
                                                       complete |-> FALSE]
                                        ELSE @[u]]]))
  BY DEF ListTask
<1> DEFINE copies == [u \in DOMAIN probe[p].copies \cup ({t} \cap open) |->
                        IF u = t THEN [updated |-> updated[t], comments |-> {}, complete |-> FALSE]
                        ELSE probe[p].copies[u]]
           run == [probe[p] EXCEPT !.todo = @ \ {t}, !.copies = copies]
<1>2. probe' = [probe EXCEPT ![p] = Listed(run)] /\ UNCHANGED <<world, files>>
  BY <1>1 DEF Move
<1>3. /\ DOMAIN run = Fields /\ run.pc = "listing" /\ run.todo = probe[p].todo \ {t}
      /\ run.start = probe[p].start /\ run.copies = copies
      /\ run.since = probe[p].since /\ run.results = probe[p].results
  BY DEF ListTask, Fields
<1> HIDE DEF run
<1>4. PICK r : r = Listed(run)
  OBVIOUS
<1>5. /\ DOMAIN r = Fields /\ r.copies = copies /\ r.start = probe[p].start
      /\ r.since = probe[p].since /\ r.results = probe[p].results
      /\ \/ r.pc = "listing" /\ r.todo = probe[p].todo \ {t}
         \/ r.pc = "comments" /\ r.todo = DOMAIN copies /\ probe[p].todo \ {t} = {}
  BY <1>3, <1>4, ListedRun
<1>6. /\ DOMAIN copies = DOMAIN probe[p].copies \cup ({t} \cap open)
      /\ \A u \in DOMAIN copies :
            copies[u] = IF u = t THEN [updated |-> updated[t], comments |-> {}, complete |-> FALSE]
                        ELSE probe[p].copies[u]
  OBVIOUS
<1>7. probe' = [probe EXCEPT ![p] = r] /\ probe[p].pc = "listing"
  BY <1>2, <1>4 DEF ListTask
<1> HIDE DEF copies
<1>8. Lists(probe[p], t, r)
  BY <1>5, <1>6, <1>7 DEF Lists
<1> QED BY <1>2, <1>7, <1>8

\* Before the probers are asked, whatever a run fetches, loads or caches.
LEMMA WatermarkFetching ==
    ASSUME Watermarked, NEW p \in Probes,
           \/ FetchTasks(p) \/ ListTask(p) \/ FetchComments(p) \/ FetchCommentsFails(p)
           \/ FetchFails(p) \/ LoadWatermark(p) \/ LoadWatermarkCorrupt(p)
           \/ SaveTask(p) \/ SaveTaskFails(p) \/ Stop(p)
    PROVE  Watermarked'
<1>1. RunInv(Idle) /\ RunInv(probe[p]) /\ DOMAIN Idle = Fields /\ DOMAIN probe[p] = Fields
  BY IdleRun DEF Watermarked, RunInv
<1> DEFINE Simple(r) == /\ DOMAIN r = Fields /\ r.pc \notin {"probing", "reporting"}
                       /\ r.since \in {Idle.since, probe[p].since, watermark}
                       /\ r.results \in {Idle.results, probe[p].results}
<1>2. ASSUME NEW r, Simple(r),
             probe' = [probe EXCEPT ![p] = r], UNCHANGED <<world, watermark>>
      PROVE  Watermarked'
  <2>1. RunInv(r)
    BY <1>1, <1>2 DEF RunInv, Covered, Watermarked
  <2> QED BY <1>2, <2>1, WatermarkMove
<1>3. CASE FetchTasks(p)
  <2>1. PICK r : Simple(r) /\ probe' = [probe EXCEPT ![p] = r] /\ UNCHANGED <<world, files>>
    BY <1>3, RunSetsOut
  <2> QED BY <2>1, <1>2 DEF files
<1>11. CASE ListTask(p)
  <2>1. PICK r : Simple(r) /\ probe' = [probe EXCEPT ![p] = r]
                 /\ UNCHANGED <<world, files>>
    BY <1>1, <1>11, RunLists DEF Lists
  <2> QED BY <2>1, <1>2 DEF files
<1>4. CASE FetchComments(p)
  <2>0. PICK t \in probe[p].todo : Move(p, [probe[p] EXCEPT !.todo = @ \ {t}, !.copies[t].comments = comments[t],
                                           !.copies[t].complete = TRUE])
    BY <1>4 DEF FetchComments
  <2> DEFINE run == [probe[p] EXCEPT !.todo = @ \ {t}, !.copies[t].comments = comments[t],
                               !.copies[t].complete = TRUE]
  <2>1. probe' = [probe EXCEPT ![p] = run] /\ UNCHANGED <<world, watermark>>
    BY <1>4, <2>0 DEF FetchComments, Move, files
  <2>2. Simple(run)
    BY <1>1, <1>4 DEF FetchComments, Fields
  <2> QED BY <2>1, <2>2, <1>2
<1>5. CASE FetchCommentsFails(p)
  <2>0. PICK t \in probe[p].todo : Move(p, [probe[p] EXCEPT !.todo = @ \ {t}])
    BY <1>5 DEF FetchCommentsFails
  <2> DEFINE run == [probe[p] EXCEPT !.todo = @ \ {t}]
  <2>1. probe' = [probe EXCEPT ![p] = run] /\ UNCHANGED <<world, watermark>>
    BY <1>5, <2>0 DEF FetchCommentsFails, Move, files
  <2>2. Simple(run)
    BY <1>1, <1>5 DEF FetchCommentsFails, Fields
  <2> QED BY <2>1, <2>2, <1>2
<1>6. CASE SaveTaskFails(p)
  <2>0. PICK t \in probe[p].todo : Move(p, [probe[p] EXCEPT !.todo = @ \ {t}])
    BY <1>6 DEF SaveTaskFails
  <2> DEFINE run == [probe[p] EXCEPT !.todo = @ \ {t}]
  <2>1. probe' = [probe EXCEPT ![p] = run] /\ UNCHANGED <<world, watermark>>
    BY <1>6, <2>0 DEF SaveTaskFails, Move, files
  <2>2. Simple(run)
    BY <1>1, <1>6 DEF SaveTaskFails, Fields
  <2> QED BY <2>1, <2>2, <1>2
<1>7. CASE SaveTask(p)
  <2>0. PICK t \in probe[p].todo : probe' = [probe EXCEPT ![p].todo = @ \ {t}]
    BY <1>7 DEF SaveTask
  <2> DEFINE run == [probe[p] EXCEPT !.todo = @ \ {t}]
  <2>1. probe' = [probe EXCEPT ![p] = run] /\ UNCHANGED <<world, watermark>>
    BY <1>7, <2>0 DEF SaveTask, Move, files
  <2>2. Simple(run)
    BY <1>1, <1>7 DEF SaveTask, Fields
  <2> QED BY <2>1, <2>2, <1>2
<1>8. CASE FetchFails(p) \/ Stop(p)
  <2>1. Simple(Idle)
    BY <1>1 DEF Idle
  <2> QED BY <2>1, <1>8, <1>2 DEF FetchFails, Stop, Move, files
<1>9. CASE LoadWatermark(p)
  <2> DEFINE run == [probe[p] EXCEPT !.pc = "caching", !.since = watermark,
                               !.todo = DOMAIN probe[p].copies]
  <2>1. probe' = [probe EXCEPT ![p] = run] /\ UNCHANGED <<world, watermark>>
    BY <1>9 DEF LoadWatermark, Move, files
  <2>2. Simple(run)
    BY <1>1, <1>9 DEF LoadWatermark, Fields
  <2> QED BY <2>1, <2>2, <1>2
<1>10. CASE LoadWatermarkCorrupt(p)
  <2> DEFINE run == [probe[p] EXCEPT !.pc = "caching", !.todo = DOMAIN probe[p].copies]
  <2>1. probe' = [probe EXCEPT ![p] = run] /\ UNCHANGED <<world, watermark>>
    BY <1>10 DEF LoadWatermarkCorrupt, Move, files
  <2>2. Simple(run)
    BY <1>1, <1>10 DEF LoadWatermarkCorrupt, Fields
  <2> QED BY <2>1, <2>2, <1>2
<1> QED BY <1>3, <1>4, <1>5, <1>6, <1>7, <1>8, <1>9, <1>10, <1>11

\* The engine answers what it will not ask for.
LEMMA WatermarkPrune ==
    ASSUME Watermarked, NEW p \in Probes, NEW left, PruneTasksExcept(p, left)
    PROVE  Watermarked'
<1>1. PICK s \in Capped(Linked(p) \cap Slack), r \in Capped(Linked(p) \cap Rest) :
        probe' = [probe EXCEPT ![p].pc = "probing", ![p].ask = s \cup r,
                               ![p].results = [k \in Linked(p) \ (s \cup r) |-> Unchecked]]
  BY DEF PruneTasksExcept, Engine
<1> DEFINE run == [probe[p] EXCEPT !.pc = "probing", !.ask = s \cup r,
                                   !.results = [k \in Linked(p) \ (s \cup r) |-> Unchecked]]
<1>2. probe' = [probe EXCEPT ![p] = run] /\ RunInv(probe[p]) /\ DOMAIN probe[p] = Fields
  BY <1>1 DEF Watermarked, RunInv
<1>3. /\ DOMAIN run = Fields /\ run.since = probe[p].since /\ run.copies = probe[p].copies
      /\ run.ask = s \cup r
      /\ run.results = [k \in Linked(p) \ (s \cup r) |-> Unchecked]
  BY <1>2 DEF Fields
<1>4. ResultsBehind(run.results)
  BY <1>3 DEF ResultsBehind, Unchecked, Watermarked, WorldInv
<1>5. Covered(run)
  BY <1>3 DEF Covered, LinkedOf, Linked
<1>6. RunInv(run)
  BY <1>2, <1>3, <1>4, <1>5 DEF RunInv
<1> QED BY <1>2, <1>6, WatermarkMove DEF PruneTasksExcept

\* An answer at or behind the newest activity, for any keys.
LEMMA WatermarkAnswer ==
    ASSUME Watermarked, NEW p \in Probes, NEW ks, NEW res, Answered(p, ks, res),
           \A k \in ks \cap Keys : res.last \in Int /\ res.last <= last[k]
    PROVE  Watermarked'
<1> DEFINE run == [probe[p] EXCEPT !.ask = @ \ ks, !.confirm = @ \ ks,
                      !.results = [k \in DOMAIN @ \cup ks |-> IF k \in ks THEN res ELSE @[k]]]
<1>1. probe' = [probe EXCEPT ![p] = run] /\ UNCHANGED <<world, watermark>>
  BY DEF Answered, Move, files
<1>2. RunInv(probe[p]) /\ DOMAIN probe[p] = Fields
  BY DEF Watermarked, RunInv
<1>3. /\ DOMAIN run = Fields /\ run.since = probe[p].since /\ run.copies = probe[p].copies
      /\ run.pc = probe[p].pc
      /\ run.ask = probe[p].ask \ ks /\ run.confirm = probe[p].confirm \ ks
      /\ run.results = [k \in DOMAIN probe[p].results \cup ks |->
                           IF k \in ks THEN res ELSE probe[p].results[k]]
  BY <1>2 DEF Fields
<1>4. ResultsBehind(run.results)
  BY <1>2, <1>3 DEF ResultsBehind, RunInv
<1>5. Covered(run)
  BY <1>2, <1>3 DEF Covered, LinkedOf, RunInv
<1>6. RunInv(run)
  BY <1>2, <1>3, <1>4, <1>5 DEF RunInv
<1> QED BY <1>1, <1>6, WatermarkMove

LEMMA WatermarkProbing ==
    ASSUME Watermarked, NEW p \in Probes,
           \/ ProbeOne(p) \/ SlackHistory(p) \/ ConfirmThread(p)
           \/ ProbeOneFails(p) \/ ProberFails(p) \/ Deadline(p)
    PROVE  Watermarked'
<1>1. /\ Slack \subseteq Keys /\ Rest \subseteq Keys
      /\ \A k \in Keys : last[k] \in Nat /\ \A b \in bcasts[k] : b \in Nat /\ b <= last[k]
  BY ProbeRunAssumption DEF Watermarked, WorldInv
<1>2. \A t : Active(t).last = t
  BY DEF Active
<1>3. /\ Unchecked.last \in Int
      /\ \A k \in Keys : Unchecked.last <= last[k]
  BY <1>1 DEF Unchecked
<1>4. CASE ProbeOne(p)
  <2>1. PICK k \in probe[p].ask \cap Rest : Answered(p, {k}, Active(last[k]))
    BY <1>4 DEF ProbeOne
  <2> QED BY <2>1, <1>1, <1>2, WatermarkAnswer
<1>5. CASE SlackHistory(p)
  <2>1. PICK k \in probe[p].ask \cap Slack :
          \/ \E lr \in Times : AnsweredFromHistory(p, k, lr) /\ Answered(p, {k}, Active(Seconds(lr)))
          \/ Move(p, [probe[p] EXCEPT !.ask = @ \ {k}, !.confirm = @ \cup {k}])
    BY <1>5 DEF SlackHistory
  <2>2. CASE Move(p, [probe[p] EXCEPT !.ask = @ \ {k}, !.confirm = @ \cup {k}])
    <3> DEFINE run == [probe[p] EXCEPT !.ask = @ \ {k}, !.confirm = @ \cup {k}]
    <3>1. probe' = [probe EXCEPT ![p] = run] /\ UNCHANGED <<world, watermark>>
      BY <2>2 DEF Move, files
    <3>2. RunInv(probe[p]) /\ DOMAIN probe[p] = Fields
      BY DEF Watermarked, RunInv
    <3>3. /\ DOMAIN run = Fields /\ run.since = probe[p].since /\ run.copies = probe[p].copies
          /\ run.results = probe[p].results /\ run.pc = probe[p].pc
          /\ run.ask = probe[p].ask \ {k} /\ run.confirm = probe[p].confirm \cup {k}
      BY <3>2 DEF Fields
    <3>4. RunInv(run)
      BY <3>2, <3>3 DEF RunInv, Covered, LinkedOf
    <3> QED BY <3>1, <3>4, WatermarkMove
  <2>3. ASSUME NEW lr \in Times, AnsweredFromHistory(p, k, lr), Answered(p, {k}, Active(Seconds(lr)))
        PROVE  Watermarked'
    <3>1. lr \in Nat /\ lr <= last[k]
      BY <2>3, <1>1 DEF AnsweredFromHistory, InHistory, Times
    <3>2. Seconds(lr) \in Int /\ Seconds(lr) <= last[k]
      BY <3>1, <1>1, SecondsBehind
    <3> QED BY <2>3, <3>2, <1>2, WatermarkAnswer
  <2> QED BY <2>1, <2>2, <2>3
<1>6. CASE ConfirmThread(p)
  <2>1. PICK k \in probe[p].confirm : Answered(p, {k}, Active(Seconds(last[k])))
    BY <1>6 DEF ConfirmThread
  <2> QED BY <2>1, <1>1, <1>2, SecondsBehind, WatermarkAnswer
<1>7. CASE ProbeOneFails(p)
  BY <1>7, <1>3, WatermarkAnswer DEF ProbeOneFails
<1>8. CASE ProberFails(p)
  BY <1>8, <1>3, WatermarkAnswer DEF ProberFails
<1>9. CASE Deadline(p)
  BY <1>9, <1>3, WatermarkAnswer DEF Deadline
<1> QED BY <1>4, <1>5, <1>6, <1>7, <1>8, <1>9

LEMMA WatermarkSaving ==
    ASSUME Watermarked, NEW p \in Probes, SaveWatermark(p) \/ SaveReport(p)
    PROVE  Watermarked'
<1>1. RunInv(probe[p]) /\ DOMAIN probe[p] = Fields
  BY DEF Watermarked, RunInv
<1>2. CASE SaveReport(p)
  BY <1>2, IdleRun, WatermarkMove DEF SaveReport, Watermarked
<1>3. CASE SaveWatermark(p)
  <2> DEFINE run == [probe[p] EXCEPT !.pc = "reporting"]
  <2>1. probe' = [probe EXCEPT ![p] = run] /\ UNCHANGED world /\ watermark' = NextWatermark(p)
    BY <1>3 DEF SaveWatermark
  <2>2. Linked(p) \subseteq DOMAIN probe[p].results
    BY <1>1, <1>3 DEF SaveWatermark, Probed, RunInv, Covered, LinkedOf, Linked
  <2>3. ASSUME NEW k \in Keys
        PROVE  NextWatermark(p)[k] \in Int /\ NextWatermark(p)[k] <= last[k]
    <3>1. k \in Checked(p) => k \in Keys \cap DOMAIN probe[p].results
      BY <2>2 DEF Checked
    <3> QED BY <3>1, <1>1 DEF NextWatermark, RunInv, Behind, ResultsBehind
  <2>4. RunInv(run)
    <3>1. /\ DOMAIN run = Fields /\ run.since = probe[p].since /\ run.copies = probe[p].copies
          /\ run.results = probe[p].results /\ run.pc = "reporting"
      BY <1>1 DEF Fields
    <3>2. Covered(run)
      BY <2>2, <3>1 DEF Covered, LinkedOf, Linked
    <3> QED BY <1>1, <3>1, <3>2 DEF RunInv
  <2>5. /\ last' = last /\ now' = now /\ bcasts' = bcasts
    BY <2>1 DEF world
  <2>6. WorldInv' /\ Behind(watermark)'
    BY <2>1, <2>3, <2>5 DEF Watermarked, WorldInv, Behind
  <2>7. ASSUME NEW q \in Probes PROVE RunInv(probe[q])'
    <3>1. RunInv(probe'[q])
      BY <2>1, <2>4 DEF Watermarked
    <3> QED BY <3>1, <2>5 DEF RunInv, Behind, ResultsBehind, Covered, LinkedOf
  <2>8. DOMAIN probe' = Probes
    BY <2>1 DEF Watermarked
  <2> QED BY <2>6, <2>7, <2>8 DEF Watermarked
<1> QED BY <1>2, <1>3

LEMMA WatermarkStep == Watermarked /\ Moves => Watermarked'
<1> SUFFICES ASSUME Watermarked, Moves PROVE Watermarked'
  OBVIOUS
<1>1. CASE World
  BY <1>1, WatermarkWorld
<1>2. ASSUME NEW p \in Probes, FetchTasks(p) \/ Step(p) PROVE Watermarked'
  BY <1>2, WatermarkFetching, WatermarkPrune, WatermarkProbing, WatermarkSaving DEF Step
<1>3. CASE Stays
  BY <1>3 DEF Stays, world, files, Watermarked, WorldInv, RunInv, Behind, ResultsBehind, Covered,
              LinkedOf
<1> QED BY <1>1, <1>2, <1>3 DEF Moves

\* `ballpoint probe` never writes a watermark that is ahead of the record's activity,
\* however many probes load and save it beside each other, whatever fails or dies, and
\* although Slack answers from a window with replies that are older than the thread: the
\* history short cut (slack.go:176-199) is never fed a time that did not happen.
THEOREM WatermarksAreSound == Spec => []WatermarkSound
<1>1. Watermarked => WatermarkSound
  BY DEF Watermarked, Behind, WatermarkSound
<1> QED BY <1>1, WatermarkInit, WatermarkStep, NextMoves, PTL DEF Spec

----------------------------------------------------------------------------
(* What the steps of a run do to its tasks and results                     *)

SameTasks(r, s) == r.copies = s.copies /\ r.start = s.start /\ s.pc # "listing"

LEMMA RunKeepsOn ==
    ASSUME Watermarked, NEW p \in Probes,
           \/ FetchCommentsFails(p) \/ LoadWatermark(p) \/ LoadWatermarkCorrupt(p)
           \/ SaveTask(p) \/ SaveTaskFails(p) \/ SaveWatermark(p)
    PROVE  \E r : /\ probe' = [probe EXCEPT ![p] = r] /\ UNCHANGED <<world, report>>
                  /\ SameTasks(r, probe[p]) /\ r.results = probe[p].results
<1>1. DOMAIN probe[p] = Fields /\ p \in DOMAIN probe /\ probe[p].pc # "listing"
  BY DEF Watermarked, RunInv, FetchCommentsFails, LoadWatermark, LoadWatermarkCorrupt,
         SaveTask, SaveTaskFails, SaveWatermark, Probed
<1>2. CASE FetchCommentsFails(p)
  <2>0. PICK t \in probe[p].todo : Move(p, [probe[p] EXCEPT !.todo = @ \ {t}])
    BY <1>2 DEF FetchCommentsFails
  <2> DEFINE run == [probe[p] EXCEPT !.todo = @ \ {t}]
  <2>1. probe' = [probe EXCEPT ![p] = run] /\ UNCHANGED <<world, report>>
    BY <1>1, <1>2, <2>0 DEF FetchCommentsFails, Move, files
  <2>2. SameTasks(run, probe[p]) /\ run.results = probe[p].results
    BY <1>1 DEF SameTasks, Fields
  <2> HIDE DEF run
  <2> QED BY <2>1, <2>2
<1>3. CASE SaveTaskFails(p)
  <2>0. PICK t \in probe[p].todo : Move(p, [probe[p] EXCEPT !.todo = @ \ {t}])
    BY <1>3 DEF SaveTaskFails
  <2> DEFINE run == [probe[p] EXCEPT !.todo = @ \ {t}]
  <2>1. probe' = [probe EXCEPT ![p] = run] /\ UNCHANGED <<world, report>>
    BY <1>1, <1>3, <2>0 DEF SaveTaskFails, Move, files
  <2>2. SameTasks(run, probe[p]) /\ run.results = probe[p].results
    BY <1>1 DEF SameTasks, Fields
  <2> HIDE DEF run
  <2> QED BY <2>1, <2>2
<1>4. CASE SaveTask(p)
  <2>0. PICK t \in probe[p].todo : probe' = [probe EXCEPT ![p].todo = @ \ {t}]
    BY <1>4 DEF SaveTask
  <2> DEFINE run == [probe[p] EXCEPT !.todo = @ \ {t}]
  <2>1. probe' = [probe EXCEPT ![p] = run] /\ UNCHANGED <<world, report>>
    BY <1>1, <1>4, <2>0 DEF SaveTask, Move, files
  <2>2. SameTasks(run, probe[p]) /\ run.results = probe[p].results
    BY <1>1 DEF SameTasks, Fields
  <2> HIDE DEF run
  <2> QED BY <2>1, <2>2
<1>5. CASE LoadWatermark(p)
  <2> DEFINE run == [probe[p] EXCEPT !.pc = "caching", !.since = watermark,
                               !.todo = DOMAIN probe[p].copies]
  <2>1. probe' = [probe EXCEPT ![p] = run] /\ UNCHANGED <<world, report>>
    BY <1>1, <1>5 DEF LoadWatermark, Move, files
  <2>2. SameTasks(run, probe[p]) /\ run.results = probe[p].results
    BY <1>1 DEF SameTasks, Fields
  <2> HIDE DEF run
  <2> QED BY <2>1, <2>2
<1>6. CASE LoadWatermarkCorrupt(p)
  <2> DEFINE run == [probe[p] EXCEPT !.pc = "caching", !.todo = DOMAIN probe[p].copies]
  <2>1. probe' = [probe EXCEPT ![p] = run] /\ UNCHANGED <<world, report>>
    BY <1>1, <1>6 DEF LoadWatermarkCorrupt, Move, files
  <2>2. SameTasks(run, probe[p]) /\ run.results = probe[p].results
    BY <1>1 DEF SameTasks, Fields
  <2> HIDE DEF run
  <2> QED BY <2>1, <2>2
<1>7. CASE SaveWatermark(p)
  <2> DEFINE run == [probe[p] EXCEPT !.pc = "reporting"]
  <2>1. probe' = [probe EXCEPT ![p] = run] /\ UNCHANGED <<world, report>>
    BY <1>1, <1>7 DEF SaveWatermark, Move, files
  <2>2. SameTasks(run, probe[p]) /\ run.results = probe[p].results
    BY <1>1 DEF SameTasks, Fields
  <2> HIDE DEF run
  <2> QED BY <2>1, <2>2
<1> QED BY <1>2, <1>3, <1>4, <1>5, <1>6, <1>7

LEMMA RunPrunes ==
    ASSUME Watermarked, NEW p \in Probes, NEW left, PruneTasksExcept(p, left)
    PROVE  \E r : /\ probe' = [probe EXCEPT ![p] = r] /\ UNCHANGED <<world, report>>
                  /\ SameTasks(r, probe[p])
                  /\ \A k \in DOMAIN r.results : r.results[k] = Unchecked
<1>1. DOMAIN probe[p] = Fields /\ p \in DOMAIN probe /\ probe[p].pc # "listing"
  BY DEF Watermarked, RunInv, PruneTasksExcept
<1>2. PICK ask, ks : probe' = [probe EXCEPT ![p].pc = "probing", ![p].ask = ask,
                                            ![p].results = [k \in ks |-> Unchecked]]
  BY DEF PruneTasksExcept, Engine
<1> DEFINE run == [probe[p] EXCEPT !.pc = "probing", !.ask = ask,
                                   !.results = [k \in ks |-> Unchecked]]
<1>3. probe' = [probe EXCEPT ![p] = run] /\ UNCHANGED <<world, report>>
  BY <1>1, <1>2 DEF PruneTasksExcept
<1>4. SameTasks(run, probe[p]) /\ run.results = [k \in ks |-> Unchecked]
  BY <1>1 DEF SameTasks, Fields
<1> HIDE DEF run
<1> QED BY <1>3, <1>4

LEMMA RunAnswers ==
    ASSUME Watermarked, NEW p \in Probes, NEW ks, NEW res, Answered(p, ks, res),
           probe[p].pc # "listing"
    PROVE  \E r : /\ probe' = [probe EXCEPT ![p] = r] /\ UNCHANGED <<world, report>>
                  /\ SameTasks(r, probe[p])
                  /\ DOMAIN r.results = DOMAIN probe[p].results \cup ks
                  /\ \A k \in ks : r.results[k] = res
                  /\ \A k \in DOMAIN probe[p].results \ ks : r.results[k] = probe[p].results[k]
<1>1. DOMAIN probe[p] = Fields
  BY DEF Watermarked, RunInv
<1> DEFINE run == [probe[p] EXCEPT !.ask = @ \ ks, !.confirm = @ \ ks,
                      !.results = [k \in DOMAIN @ \cup ks |-> IF k \in ks THEN res ELSE @[k]]]
<1>2. probe' = [probe EXCEPT ![p] = run] /\ UNCHANGED <<world, report>>
  BY DEF Answered, Move, files
<1>3. /\ SameTasks(run, probe[p])
      /\ DOMAIN run.results = DOMAIN probe[p].results \cup ks
      /\ \A k \in ks : run.results[k] = res
      /\ \A k \in DOMAIN probe[p].results \ ks : run.results[k] = probe[p].results[k]
  BY <1>1 DEF SameTasks, Fields
<1> HIDE DEF run
<1> QED BY <1>2, <1>3

\* The window does not answer for thread k.
ToConfirm(p, k) == Move(p, [probe[p] EXCEPT !.ask = @ \ {k}, !.confirm = @ \cup {k}])

LEMMA RunConfirms ==
    ASSUME Watermarked, NEW p \in Probes, NEW k, ToConfirm(p, k), probe[p].pc # "listing"
    PROVE  \E r : /\ probe' = [probe EXCEPT ![p] = r] /\ UNCHANGED <<world, report>>
                  /\ SameTasks(r, probe[p]) /\ r.results = probe[p].results
<1>1. DOMAIN probe[p] = Fields
  BY DEF Watermarked, RunInv
<1> DEFINE run == [probe[p] EXCEPT !.ask = @ \ {k}, !.confirm = @ \cup {k}]
<1>2. probe' = [probe EXCEPT ![p] = run] /\ UNCHANGED <<world, report>>
  BY DEF ToConfirm, Move, files
<1>3. SameTasks(run, probe[p]) /\ run.results = probe[p].results
  BY <1>1 DEF SameTasks, Fields
<1> HIDE DEF run
<1> QED BY <1>2, <1>3

----------------------------------------------------------------------------
(* The report                                                              *)

\* Whether t was ever created; what existed and is not open is closed for good.
Existed(t) == updated[t] # 0

\* What was open as a run set out is in its copies, is still to be listed, or is closed by now;
\* what was linked then is linked still, and in the copy too once its comments are fetched.
Whole(r) ==
    /\ DOMAIN r.copies \subseteq Tasks
    /\ \A t \in DOMAIN r.copies : DOMAIN r.copies[t] = {"updated", "comments", "complete"}
    /\ \A t \in DOMAIN r.start.links :
          /\ t \in Tasks /\ Existed(t)
          /\ t \in DOMAIN r.copies \/ t \notin open \/ (r.pc = "listing" /\ t \in r.todo)
          /\ r.start.links[t] \subseteq Extract(t, comments[t])
          /\ t \in DOMAIN r.copies /\ r.copies[t].complete =>
                 r.start.links[t] \subseteq Extract(t, r.copies[t].comments)

Reporting == /\ Watermarked
             /\ now # 0 /\ DOMAIN comments = Tasks /\ DOMAIN updated = Tasks
             /\ open \subseteq {t \in Tasks : Existed(t)}
             /\ \A p \in Probes : Whole(probe[p])
             /\ \A t \in DOMAIN report.start.links : t \in Tasks /\ Existed(t)
             /\ ReportIsComplete

LEMMA IdleWhole == Whole(Idle)
BY DEF Whole, Idle, Nothing

LEMMA ReportInit == Init => Reporting
<1> SUFFICES ASSUME Init PROVE Reporting
  OBVIOUS
<1>1. ReportIsComplete /\ report.start.links = <<>>
  BY DEF Init, NoReport, Nothing, ReportIsComplete
<1>2. \A p \in Probes : probe[p] = Idle
  BY DEF Init
<1>3. /\ now # 0 /\ DOMAIN comments = Tasks /\ DOMAIN updated = Tasks
      /\ open \subseteq {t \in Tasks : Existed(t)}
  BY ProbeRunAssumption DEF Init, Existed
<1> QED BY <1>1, <1>2, <1>3, IdleWhole, WatermarkInit DEF Reporting

\* What existed exists, and a closed task is not opened again.
LEMMA TasksGoOn ==
    ASSUME Reporting, World
    PROVE  /\ now' # 0 /\ DOMAIN comments' = Tasks /\ DOMAIN updated' = Tasks
           /\ open' \subseteq {t \in Tasks : Existed(t)'}
           /\ \A t \in Tasks : Existed(t) => Existed(t)' /\ (t \in open' => t \in open)
           /\ \A t \in Tasks : Extract(t, comments[t]) \subseteq Extract(t, comments'[t])
<1>1. now \in Nat /\ now # 0 /\ now' \in Nat /\ now <= now'
  BY WorldGoesOn DEF Reporting, Watermarked, WorldInv
<1>2. \A at \in now .. MaxNow : at # 0
  BY <1>1
<1>3. /\ DOMAIN updated' = Tasks
      /\ \A t \in Tasks : Existed(t) => Existed(t)' /\ (t \in open' => t \in open)
      /\ \A t \in open' : t \in open \/ (t \in Tasks /\ Existed(t)')
  BY <1>2 DEF World, Commented, Environment, Activity, Scroll, PostComment, Edit, Create, Close, At,
              Reporting, Existed
<1>4. DOMAIN comments' = Tasks /\ \A t \in Tasks : comments[t] \subseteq comments'[t]
  BY DEF World, Commented, Environment, Activity, Scroll, PostComment, Edit, Create, Close, Reporting
<1>5. \A t \in Tasks : Extract(t, comments[t]) \subseteq Extract(t, comments'[t])
  BY <1>4 DEF Extract
<1> QED BY <1>1, <1>3, <1>4, <1>5 DEF Reporting

\* Comments are not taken back.
LEMMA ReportWorld ==
    ASSUME Reporting, World, Watermarked'
    PROVE  Reporting'
<1>1. report' = report /\ probe' = probe
  BY DEF World, Commented, Environment, Activity, Scroll, PostComment, Edit, Create, Close, At, files
<1>2. ASSUME NEW p \in Probes PROVE Whole(probe[p])'
  BY <1>1, TasksGoOn DEF Reporting, Whole
<1>3. ReportIsComplete'
  BY <1>1, TasksGoOn DEF Reporting, ReportIsComplete, Reported
<1> QED BY <1>1, <1>2, <1>3, TasksGoOn DEF Reporting

LEMMA WholeStays ==
    ASSUME UNCHANGED world, NEW q \in Probes, Whole(probe'[q])
    PROVE  Whole(probe[q])'
<1>1. open' = open /\ comments' = comments /\ updated' = updated
  BY DEF world
<1> QED BY <1>1 DEF Whole, Existed

\* A step that leaves the report alone is judged by its own run.
LEMMA ReportMove ==
    ASSUME Reporting, Watermarked', NEW p \in Probes, NEW r, Whole(r),
           probe' = [probe EXCEPT ![p] = r], UNCHANGED <<world, report>>
    PROVE  Reporting'
<1>1. /\ open' = open /\ comments' = comments /\ updated' = updated /\ now' = now
      /\ report' = report
  BY DEF world
<1>2. \A q \in Probes : probe'[q] = IF q = p THEN r ELSE probe[q]
  BY DEF Reporting, Watermarked
<1>3. ASSUME NEW q \in Probes PROVE Whole(probe[q])'
  <2>1. Whole(probe'[q])
    BY <1>2 DEF Reporting
  <2> QED BY <2>1, WholeStays
<1>4. ReportIsComplete'
  BY <1>1 DEF Reporting, ReportIsComplete, Reported
<1> QED BY <1>1, <1>3, <1>4 DEF Reporting, Existed

LEMMA ReportFetchTasks ==
    ASSUME Reporting, Watermarked', NEW p \in Probes, FetchTasks(p)
    PROVE  Reporting'
<1>1. PICK r : /\ probe' = [probe EXCEPT ![p] = r] /\ UNCHANGED <<world, files>>
               /\ r.copies = <<>> /\ r.start = Snapshot
               /\ \/ r.pc = "listing" /\ r.todo = Tasks
                  \/ r.pc = "comments" /\ r.todo = {} /\ Tasks = {}
  BY RunSetsOut
<1>2. r.start.links = [t \in open |-> Extract(t, comments[t])] /\ DOMAIN r.copies = {}
  BY <1>1 DEF Snapshot
<1>3. Whole(r)
  BY <1>1, <1>2 DEF Whole, Reporting
<1> QED BY <1>1, <1>3, ReportMove DEF files

LEMMA ReportListTask ==
    ASSUME Reporting, Watermarked', NEW p \in Probes, ListTask(p)
    PROVE  Reporting'
<1>1. DOMAIN probe[p] = Fields /\ Whole(probe[p])
  BY DEF Reporting, Watermarked, RunInv
<1>2. PICK t, r :
        /\ t \in probe[p].todo /\ probe' = [probe EXCEPT ![p] = r] /\ UNCHANGED <<world, files>>
        /\ Lists(probe[p], t, r)
  BY <1>1, RunLists
<1>3. \A u \in DOMAIN r.copies :
        /\ u \in Tasks /\ DOMAIN r.copies[u] = {"updated", "comments", "complete"}
        /\ r.copies[u].complete => u \in DOMAIN probe[p].copies /\ r.copies[u] = probe[p].copies[u]
  BY <1>1, <1>2 DEF Whole, Reporting, Lists
<1>4. ASSUME NEW u \in DOMAIN r.start.links
      PROVE  u \in DOMAIN r.copies \/ u \notin open \/ (r.pc = "listing" /\ u \in r.todo)
  BY <1>1, <1>2 DEF Whole, Lists
<1>5. Whole(r)
  BY <1>1, <1>2, <1>3, <1>4 DEF Whole, Lists
<1> QED BY <1>2, <1>5, ReportMove DEF files

LEMMA ReportFetchComments ==
    ASSUME Reporting, Watermarked', NEW p \in Probes, FetchComments(p)
    PROVE  Reporting'
<1>1. PICK t \in probe[p].todo :
        Move(p, [probe[p] EXCEPT !.todo = @ \ {t}, !.copies[t].comments = comments[t],
                                 !.copies[t].complete = TRUE])
  BY DEF FetchComments
<1> DEFINE old == probe[p].copies
           run == [probe[p] EXCEPT !.todo = @ \ {t}, !.copies[t].comments = comments[t],
                                   !.copies[t].complete = TRUE]
<1>2. probe' = [probe EXCEPT ![p] = run] /\ UNCHANGED <<world, report>>
  BY <1>1 DEF Move, files
<1>3. DOMAIN probe[p] = Fields /\ Whole(probe[p])
  BY DEF Reporting, Watermarked, RunInv
<1>4. /\ run.start = probe[p].start /\ DOMAIN run.copies = DOMAIN old /\ probe[p].pc # "listing"
      /\ \A u \in DOMAIN old \ {t} : run.copies[u] = old[u]
      /\ t \in DOMAIN old =>
           /\ DOMAIN run.copies[t] = {"updated", "comments", "complete"}
           /\ run.copies[t].comments = comments[t]
  BY <1>3 DEF Fields, Whole, FetchComments
<1>5. Whole(run)
  BY <1>3, <1>4 DEF Whole
<1> QED BY <1>2, <1>5, ReportMove

\* A run that goes on with the tasks it has.
LEMMA ReportGoesOn ==
    ASSUME Reporting, Watermarked', NEW p \in Probes, NEW r,
           SameTasks(r, probe[p]),
           probe' = [probe EXCEPT ![p] = r], UNCHANGED <<world, report>>
    PROVE  Reporting'
<1>1. Whole(r)
  BY DEF Reporting, Whole, SameTasks
<1> QED BY <1>1, ReportMove

LEMMA ReportProbing ==
    ASSUME Reporting, Watermarked', NEW p \in Probes,
           \/ ProbeOne(p) \/ SlackHistory(p) \/ ConfirmThread(p)
           \/ ProbeOneFails(p) \/ ProberFails(p) \/ Deadline(p)
    PROVE  Reporting'
<1>1. Watermarked /\ probe[p].pc # "listing"
  BY DEF Reporting, ProbeOne, SlackHistory, ConfirmThread, ProbeOneFails, ProberFails, Deadline
<1>2. ASSUME NEW ks, NEW res, Answered(p, ks, res)
      PROVE  Reporting'
  BY <1>1, <1>2, RunAnswers, ReportGoesOn
<1>3. ASSUME NEW k, ToConfirm(p, k)
      PROVE  Reporting'
  BY <1>1, <1>3, RunConfirms, ReportGoesOn
<1>4. (\E ks, res : Answered(p, ks, res)) \/ (\E k : ToConfirm(p, k))
  BY DEF ProbeOne, SlackHistory, ConfirmThread, ProbeOneFails, ProberFails, Deadline, ToConfirm
<1> QED BY <1>2, <1>3, <1>4

LEMMA ReportCaching ==
    ASSUME Reporting, Watermarked', NEW p \in Probes,
           \/ FetchCommentsFails(p) \/ FetchFails(p) \/ LoadWatermark(p)
           \/ LoadWatermarkCorrupt(p) \/ SaveTask(p) \/ SaveTaskFails(p)
           \/ \E left : PruneTasksExcept(p, left)
           \/ SaveWatermark(p) \/ Stop(p)
    PROVE  Reporting'
<1>1. Watermarked
  BY DEF Reporting
<1>2. CASE FetchFails(p) \/ Stop(p)
  BY <1>2, IdleWhole, ReportMove DEF FetchFails, Stop, Move, files
<1>3. ASSUME NEW left, PruneTasksExcept(p, left)
      PROVE  Reporting'
  BY <1>1, <1>3, RunPrunes, ReportGoesOn
<1>4. CASE \/ FetchCommentsFails(p) \/ LoadWatermark(p) \/ LoadWatermarkCorrupt(p)
           \/ SaveTask(p) \/ SaveTaskFails(p) \/ SaveWatermark(p)
  BY <1>1, <1>4, RunKeepsOn, ReportGoesOn
<1> QED BY <1>2, <1>3, <1>4

LEMMA ReportSaving ==
    ASSUME Reporting, Watermarked', NEW p \in Probes, SaveReport(p)
    PROVE  Reporting'
<1>1. /\ report' = ReportOf(p) /\ probe' = [probe EXCEPT ![p] = Idle]
      /\ open' = open /\ comments' = comments /\ updated' = updated /\ now' = now
      /\ UNCHANGED world /\ probe[p].pc # "listing"
  BY DEF SaveReport, world
<1>2. Whole(probe[p])
  BY DEF Reporting
<1>3. ReportIsComplete'
  <2>1. /\ report'.start = probe[p].start /\ DOMAIN report'.tasks = DOMAIN probe[p].copies
        /\ \A t \in DOMAIN probe[p].copies :
              /\ report'.tasks[t].complete = probe[p].copies[t].complete
              /\ DOMAIN report'.tasks[t].links = Extract(t, probe[p].copies[t].comments)
    BY <1>1 DEF ReportOf, TaskReport
  <2>2. ASSUME NEW t \in DOMAIN report'.start.links
        PROVE  /\ t \in DOMAIN report'.tasks \/ t \notin open'
               /\ t \in DOMAIN report'.tasks /\ report'.tasks[t].complete =>
                     report'.start.links[t] \subseteq DOMAIN report'.tasks[t].links
    BY <1>1, <1>2, <2>1 DEF Whole
  <2> QED BY <2>2 DEF ReportIsComplete, Reported
<1>4. ASSUME NEW q \in Probes PROVE Whole(probe[q])'
  <2>1. Whole(probe'[q])
    BY <1>1, IdleWhole DEF Reporting, Watermarked
  <2> QED BY <2>1, <1>1, WholeStays
<1>5. \A t \in DOMAIN report'.start.links : t \in Tasks /\ Existed(t)'
  BY <1>1, <1>2 DEF ReportOf, Whole, Existed
<1> QED BY <1>1, <1>3, <1>4, <1>5 DEF Reporting, Existed

LEMMA ReportStep == Reporting /\ Moves => Reporting'
<1> SUFFICES ASSUME Reporting, Moves PROVE Reporting'
  OBVIOUS
<1>1. Watermarked'
  BY WatermarkStep DEF Reporting
<1>2. CASE World
  BY <1>1, <1>2, ReportWorld
<1>3. ASSUME NEW p \in Probes, FetchTasks(p) \/ Step(p) PROVE Reporting'
  BY <1>1, <1>3, ReportFetchTasks, ReportListTask, ReportFetchComments, ReportCaching, ReportProbing,
     ReportSaving DEF Step
<1>4. CASE Stays
  BY <1>1, <1>4 DEF Stays, world, files, Reporting, Whole, Existed, ReportIsComplete, Reported
<1> QED BY <1>2, <1>3, <1>4 DEF Moves

\* Every task that was open when a run began is in the run's report unless it was closed
\* since, and so is every link that it had then unless its comments could not be fetched: also
\* a link above the cap of its system, of a system without a prober, or of a prober that
\* failed or timed out, and whatever is written to the task while the run is under way
\* (todoist/probe.go:50-57, engine.go:77-169).
THEOREM ReportsAreComplete == Spec => []ReportIsComplete
<1>1. Reporting => ReportIsComplete
  BY DEF Reporting
<1> QED BY <1>1, ReportInit, ReportStep, NextMoves, PTL DEF Spec

----------------------------------------------------------------------------
(* Times and seconds                                                       *)

\* Dropping the fractions of two times keeps their order.
LEMMA SecondsMonotone ==
    ASSUME NEW a \in Nat, NEW b \in Nat, a <= b
    PROVE  Seconds(a) <= Seconds(b)
<1> DEFINE q == a \div Second
           r == b \div Second
<1>1. /\ Second \in Nat \ {0} /\ q \in Int /\ r \in Int
      /\ a % Second \in 0 .. (Second - 1) /\ b % Second \in 0 .. (Second - 1)
  BY ProbeRunAssumption
<1>2. a = Second * q + (a % Second) /\ b = Second * r + (b % Second)
  BY <1>1
<1> HIDE DEF q, r
<1>3. CASE q <= r
  <2>1. Second * q <= Second * r
    BY <1>1, <1>3
  <2> QED BY <1>1, <1>2, <2>1 DEF Seconds
<1>4. CASE r + 1 <= q
  <2>1. Second * (r + 1) <= Second * q /\ Second * (r + 1) = Second * r + Second
    BY <1>1, <1>4
  <2> QED BY <1>1, <1>2, <2>1 DEF Seconds
<1> QED BY <1>1, <1>3, <1>4

----------------------------------------------------------------------------
(* The work log and its baseline                                           *)

\* Comments were posted at some time up to n, and one of them is the newest.
KeptUntil(cs, n) ==
    /\ \A c \in cs : c.at \in Nat /\ c.at <= n /\ c.links \subseteq Keys
    /\ cs = {} \/ \E c \in cs : \A d \in cs : d.at <= c.at

LEMMA NewestIs ==
    ASSUME NEW cs, NEW c \in cs, \A d \in cs : d.at \in Nat /\ d.at <= c.at
    PROVE  NewestComment(cs) = c.at
<1> DEFINE S == {d.at : d \in cs}
<1>1. c.at \in S /\ \A y \in S : y \in Nat /\ c.at >= y
  OBVIOUS
<1> HIDE DEF S
<1>2. ASSUME NEW x \in S, \A y \in S : x >= y PROVE x = c.at
  <2>1. x \in Nat /\ c.at \in Nat /\ x >= c.at /\ c.at >= x
    BY <1>1, <1>2
  <2> QED BY <2>1
<1>3. \E x \in S : \A y \in S : x >= y
  BY <1>1
<1>4. Max(S) \in S /\ \A y \in S : Max(S) >= y
  BY <1>3, Zenon DEF Max
<1> QED BY <1>2, <1>4 DEF NewestComment, S

\* The baseline is a time up to the same n.
LEMMA BaselineIs ==
    ASSUME NEW n \in Nat, NEW u \in 0 .. n, NEW cs, KeptUntil(cs, n)
    PROVE  Baseline(u, cs) \in 0 .. n
<1>1. CASE cs = {}
  BY <1>1 DEF Baseline
<1>2. CASE cs # {}
  <2>1. PICK c \in cs : \A d \in cs : d.at <= c.at
    BY <1>2 DEF KeptUntil
  <2>2. NewestComment(cs) = c.at
    BY <2>1, NewestIs DEF KeptUntil
  <2> QED BY <1>2, <2>2 DEF Baseline, KeptUntil
<1> QED BY <1>1, <1>2

\* An edit or a comment that is made now only puts the baseline off.
LEMMA BaselineGrows ==
    ASSUME NEW n \in Nat, NEW u \in 0 .. n, NEW v \in Nat, u <= v,
           NEW cs, KeptUntil(cs, n), NEW ds,
           ds = cs \/ \E d : d.at \in Nat /\ n <= d.at /\ ds = cs \cup {d}
    PROVE  Baseline(u, cs) <= Baseline(v, ds)
<1>1. Baseline(u, cs) \in 0 .. n
  BY BaselineIs
<1>2. CASE ds = cs
  <2>1. CASE cs = {}
    BY <1>2, <2>1 DEF Baseline
  <2>2. CASE cs # {}
    BY <1>1, <1>2, <2>2 DEF Baseline
  <2> QED BY <2>1, <2>2
<1>3. ASSUME NEW d, d.at \in Nat, n <= d.at, ds = cs \cup {d}
      PROVE  Baseline(u, cs) <= Baseline(v, ds)
  <2>1. \A c \in ds : c.at \in Nat /\ c.at <= d.at
    BY <1>3 DEF KeptUntil
  <2>2. NewestComment(ds) = d.at
    BY <1>3, <2>1, NewestIs
  <2>3. Baseline(v, ds) = d.at
    BY <1>3, <2>2 DEF Baseline
  <2> QED BY <1>1, <1>3, <2>3
<1> QED BY <1>2, <1>3

\* What is written in Todoist was written until now; a thread without replies sent to the
\* channel has none in its window.
LogInv ==
    /\ updated \in [Tasks -> Nat]
    /\ \A t \in Tasks : updated[t] <= now /\ KeptUntil(comments[t], now)
    /\ \A k \in Keys \ Broadcasts : bcasts[k] = {}

LEMMA LogInit == Init => LogInv
BY ProbeRunAssumption DEF Init, LogInv, KeptUntil

\* Every baseline that could be read before is at or behind the one that is read later.
LEMMA LogGoesOn ==
    ASSUME Reporting, LogInv, World
    PROVE  /\ LogInv'
           /\ \A t \in Tasks : updated[t] <= updated'[t]
           /\ \A t \in Tasks : \A u \in 0 .. now : \A v \in Nat :
                 u <= v => Baseline(u, comments[t]) <= Baseline(v, comments'[t])
<1>1. now \in Nat /\ now' \in Nat /\ now <= now'
  BY WorldGoesOn DEF Reporting, Watermarked, WorldInv
<1>2. /\ updated' \in [Tasks -> Nat]
      /\ \A t \in Tasks : updated[t] <= updated'[t] /\ updated'[t] <= now'
  BY <1>1 DEF World, Commented, Environment, Activity, Scroll, PostComment, Edit, Create, Close, At,
              Times, LogInv
<1>3. ASSUME NEW t \in Tasks
      PROVE  \/ comments'[t] = comments[t]
             \/ \E d : /\ d.at \in Nat /\ now <= d.at /\ d.at <= now' /\ d.links \subseteq Keys
                       /\ comments'[t] = comments[t] \cup {d}
  <2>1. CASE comments' = comments
    BY <2>1
  <2>2. ASSUME NEW u \in Tasks, NEW at \in Times, NEW ls \in SUBSET Keys,
               at \in now .. MaxNow, now' = at,
               comments' = [comments EXCEPT ![u] = @ \cup {[at |-> at, links |-> ls]}]
        PROVE  <1>3!2
    <3> DEFINE d == [at |-> at, links |-> ls]
    <3>1. d.at \in Nat /\ now <= d.at /\ d.at <= now' /\ d.links \subseteq Keys
      BY <1>1, <2>2 DEF Times
    <3>2. comments' = [comments EXCEPT ![u] = @ \cup {d}]
      BY <2>2
    <3>3. comments'[t] = comments[t] \/ comments'[t] = comments[t] \cup {d}
      BY <3>2 DEF Reporting
    <3> HIDE DEF d
    <3> QED BY <3>1, <3>3
  <2>3. ASSUME NEW u \in Tasks, NEW at \in Times,
               NEW ls \in {{}} \cup {{k} : k \in Keys \ TitleLinks[u]}, PostComment(u, at, ls)
        PROVE  <1>3!2
    <3>1. ls \in SUBSET Keys
      OBVIOUS
    <3>2. /\ at \in now .. MaxNow /\ now' = at
          /\ comments' = [comments EXCEPT ![u] = @ \cup {[at |-> at, links |-> ls]}]
      BY <2>3 DEF PostComment, At
    <3> QED BY <2>2, <3>1, <3>2
  <2>4. CASE Commented
    <3>1. PICK u \in Tasks, at \in now .. MaxNow :
            /\ now' = at
            /\ comments' = [comments EXCEPT ![u] = @ \cup {[at |-> at, links |-> {}]}]
      BY <2>4 DEF Commented
    <3>2. {} \in SUBSET Keys /\ at \in Times
      BY <1>1 DEF Times
    <3> QED BY <2>2, <3>1, <3>2
  <2>5. \/ comments' = comments \/ Commented
        \/ \E u \in Tasks, at \in Times : \E ls \in {{}} \cup {{k} : k \in Keys \ TitleLinks[u]} :
              PostComment(u, at, ls)
    BY DEF World, Environment, Activity, Scroll, Edit, Create, Close
  <2> QED BY <2>1, <2>3, <2>4, <2>5
<1>4. ASSUME NEW t \in Tasks
      PROVE  KeptUntil(comments'[t], now')
  <2>1. KeptUntil(comments[t], now)
    BY DEF LogInv
  <2>2. CASE comments'[t] = comments[t]
    BY <1>1, <2>1, <2>2 DEF KeptUntil
  <2>3. ASSUME NEW d, d.at \in Nat, now <= d.at, d.at <= now', d.links \subseteq Keys,
               comments'[t] = comments[t] \cup {d}
        PROVE  KeptUntil(comments'[t], now')
    <3>1. \A c \in comments'[t] : c.at \in Nat /\ c.at <= now' /\ c.links \subseteq Keys
      BY <1>1, <2>1, <2>3 DEF KeptUntil
    <3>2. \A c \in comments'[t] : c.at <= d.at
      BY <1>1, <2>1, <2>3 DEF KeptUntil
    <3> QED BY <2>3, <3>1, <3>2 DEF KeptUntil
  <2> QED BY <1>3, <2>2, <2>3
<1>5. \A k \in Keys \ Broadcasts : bcasts'[k] = {}
  <2>1. ASSUME NEW k \in Keys \ Broadcasts, NEW j \in Keys, NEW at \in Times, NEW b \in BOOLEAN,
               Activity(j, at, b)
        PROVE  bcasts'[k] = {}
    BY <2>1 DEF Activity, LogInv, Reporting, Watermarked, WorldInv
  <2>2. ASSUME NEW k \in Keys \ Broadcasts, NEW j \in Keys, Scroll(j)
        PROVE  bcasts'[k] = {}
    BY <2>2 DEF Scroll, LogInv, Reporting, Watermarked, WorldInv
  <2> QED BY <2>1, <2>2 DEF World, Commented, Environment, PostComment, Edit, Create, Close, LogInv
<1>6. ASSUME NEW t \in Tasks, NEW u \in 0 .. now, NEW v \in Nat, u <= v
      PROVE  Baseline(u, comments[t]) <= Baseline(v, comments'[t])
  BY <1>1, <1>3, <1>6, BaselineGrows DEF LogInv
<1> QED BY <1>2, <1>4, <1>5, <1>6 DEF LogInv

----------------------------------------------------------------------------
(* Runs and reports                                                        *)

\* What a run knows of task t is not ahead of what is logged on it now.
CopyJudged(copy, t) ==
    /\ copy.updated \in Nat /\ copy.updated <= updated[t]
    /\ \A c \in copy.comments : c.links \subseteq Keys
    /\ copy.complete => /\ Baseline(copy.updated, copy.comments) \in Nat
                        /\ Baseline(copy.updated, copy.comments) <= Logged(t)

\* Nor is it behind what was logged when the run set out.
CopyBased(base, copy, t) ==
    /\ base <= Baseline(copy.updated, comments[t])
    /\ copy.complete => base <= Baseline(copy.updated, copy.comments)

\* An answer is not older than the record was when the run began.
ResultsRecent(start, results) ==
    \A k \in (Keys \ Broadcasts) \cap DOMAIN results :
        results[k].checked => Seconds(start.last[k]) <= results[k].last

StartPast(start) == \A k \in Keys : start.last[k] \in Nat /\ start.last[k] <= last[k]

RunJudged(r) ==
    /\ StartPast(r.start)
    /\ \A t \in DOMAIN r.start.base :
          /\ t \in Tasks /\ r.start.base[t] \in Nat /\ r.start.base[t] <= Logged(t)
          /\ t \in DOMAIN r.copies => CopyBased(r.start.base[t], r.copies[t], t)
    /\ \A t \in DOMAIN r.copies : CopyJudged(r.copies[t], t)
    /\ ResultsRecent(r.start, r.results)

ReportJudged ==
    /\ DOMAIN report.tasks \subseteq Tasks
    /\ \A t \in DOMAIN report.tasks : DOMAIN report.tasks[t].links \subseteq Keys
    /\ \A k \in Keys : report.start.last[k] \in Nat
    /\ \A t \in DOMAIN report.start.base : report.start.base[t] \in Nat
    /\ FreshIsTrue /\ MovedWasNews

Judged == /\ Reporting /\ LogInv /\ ReportJudged
          /\ \A p \in Probes : RunJudged(probe[p])

LEMMA IdleJudged ==
    ASSUME WorldInv
    PROVE  RunJudged(Idle)
<1>1. /\ Idle.start = Nothing /\ Idle.copies = <<>> /\ Idle.results = <<>>
      /\ Nothing.last = [k \in Keys |-> 0] /\ Nothing.base = <<>>
  BY DEF Idle, Nothing
<1>2. StartPast(Idle.start)
  BY <1>1 DEF StartPast, WorldInv
<1>3. ResultsRecent(Idle.start, Idle.results)
  BY <1>1 DEF ResultsRecent
<1> QED BY <1>1, <1>2, <1>3 DEF RunJudged

LEMMA VerdictInit == Init => Judged
<1> SUFFICES ASSUME Init PROVE Judged
  OBVIOUS
<1>1. Reporting /\ LogInv
  BY ReportInit, LogInit
<1>2. report.tasks = <<>> /\ report.start = Nothing
  BY DEF Init, NoReport
<1>3. Nothing.last = [k \in Keys |-> 0] /\ Nothing.base = <<>>
  BY DEF Nothing
<1>4. ReportJudged
  BY <1>2, <1>3 DEF ReportJudged, FreshIsTrue, MovedWasNews
<1>5. \A p \in Probes : probe[p] = Idle
  BY DEF Init
<1> QED BY <1>1, <1>4, <1>5, IdleJudged DEF Judged, Reporting, Watermarked

\* A verdict that was true stays true, and so does what a run knows.
LEMMA VerdictWorld ==
    ASSUME Judged, World, Reporting'
    PROVE  Judged'
<1>1. /\ now \in Nat /\ LogInv /\ LogInv'
      /\ report' = report /\ probe' = probe
      /\ \A k \in Keys : last[k] \in Nat /\ last'[k] \in Nat /\ last[k] <= last'[k]
  BY WorldGoesOn, LogGoesOn DEF Judged, Reporting, Watermarked, WorldInv
<1>2. \A t \in Tasks : updated[t] \in Nat /\ updated'[t] \in Nat /\ updated[t] <= updated'[t]
  BY LogGoesOn, <1>1 DEF Judged, LogInv
<1>3. \A t \in Tasks : \A u \in 0 .. now :
         /\ Baseline(u, comments[t]) \in Nat
         /\ Baseline(u, comments'[t]) \in Nat
         /\ Baseline(u, comments[t]) <= Baseline(u, comments'[t])
  <2>1. now' \in Nat /\ now <= now'
    BY WorldGoesOn DEF Judged, Reporting
  <2>2. ASSUME NEW t \in Tasks, NEW u \in 0 .. now
        PROVE  Baseline(u, comments[t]) \in Nat /\ Baseline(u, comments'[t]) \in Nat
    <3>1. u \in 0 .. now' /\ KeptUntil(comments[t], now) /\ KeptUntil(comments'[t], now')
      BY <1>1, <2>1 DEF LogInv
    <3> QED BY <1>1, <2>1, <3>1, BaselineIs
  <2> QED BY <2>2, LogGoesOn DEF Judged
<1>4. \A t \in Tasks : Logged(t) \in Nat /\ Logged(t)' \in Nat /\ Logged(t) <= Logged(t)'
  <2>1. ASSUME NEW t \in Tasks
        PROVE  /\ Baseline(updated[t], comments[t]) \in Nat
               /\ Baseline(updated'[t], comments'[t]) \in Nat
               /\ Baseline(updated[t], comments[t]) <= Baseline(updated'[t], comments'[t])
    <3>1. updated[t] \in 0 .. now /\ updated'[t] \in 0 .. now' /\ now' \in Nat
          /\ KeptUntil(comments'[t], now')
      BY <1>1, <1>2, WorldGoesOn DEF LogInv, Judged, Reporting
    <3> QED BY <1>2, <1>3, <3>1, LogGoesOn, BaselineIs DEF Judged
  <2> QED BY <2>1 DEF Logged, Baseline
<1>5. ASSUME NEW p \in Probes PROVE RunJudged(probe[p])'
  <2> DEFINE r == probe[p]
  <2>1. RunJudged(r) /\ DOMAIN r.copies \subseteq Tasks
    BY DEF Judged, Reporting, Whole
  <2>2. StartPast(r.start)'
    BY <1>1, <2>1 DEF RunJudged, StartPast
  <2>3. ASSUME NEW t \in DOMAIN r.copies
        PROVE  CopyJudged(r.copies[t], t)'
    <3>1. t \in Tasks /\ CopyJudged(r.copies[t], t)
      BY <2>1 DEF RunJudged
    <3>2. r.copies[t].complete => Baseline(r.copies[t].updated, r.copies[t].comments) <= Logged(t)'
      BY <1>4, <3>1 DEF CopyJudged
    <3>3. r.copies[t].updated <= updated'[t]
      BY <1>2, <3>1 DEF CopyJudged
    <3> QED BY <1>1, <3>1, <3>2, <3>3 DEF CopyJudged
  <2>4. ResultsRecent(r.start, r.results)'
    BY <1>1, <2>1 DEF RunJudged, ResultsRecent
  <2>5. ASSUME NEW t \in DOMAIN r.start.base
        PROVE  /\ t \in Tasks /\ r.start.base[t] \in Nat /\ r.start.base[t] <= Logged(t)'
               /\ t \in DOMAIN r.copies => CopyBased(r.start.base[t], r.copies[t], t)'
    <3>1. t \in Tasks /\ r.start.base[t] \in Nat /\ r.start.base[t] <= Logged(t)
      BY <2>1 DEF RunJudged
    <3>2. ASSUME t \in DOMAIN r.copies
          PROVE  CopyBased(r.start.base[t], r.copies[t], t)'
      <4>1. CopyJudged(r.copies[t], t) /\ CopyBased(r.start.base[t], r.copies[t], t)
        BY <2>1, <3>2 DEF RunJudged
      <4>2. r.copies[t].updated \in 0 .. now
        BY <1>1, <1>2, <3>1, <4>1 DEF CopyJudged, LogInv
      <4>3. r.start.base[t] <= Baseline(r.copies[t].updated, comments'[t])
        BY <1>3, <3>1, <4>1, <4>2 DEF CopyBased
      <4> QED BY <1>1, <4>1, <4>3 DEF CopyBased
    <3> QED BY <1>4, <3>1, <3>2
  <2> QED BY <1>1, <2>1, <2>2, <2>3, <2>4, <2>5 DEF RunJudged
<1>6. ReportJudged'
  <2>1. ReportJudged
    BY DEF Judged
  <2>2. \A t : Reported(t)' = Reported(t)
    BY <1>1 DEF Reported
  <2>3. FreshIsTrue'
    <3>1. ASSUME NEW t \in DOMAIN report.tasks, report.tasks[t].complete,
                 NEW k \in Keys \ Broadcasts, Says(t, k, "fresh")
          PROVE  Seconds(report.start.last[k]) <= Logged(t)'
      <4>1. t \in Tasks /\ report.start.last[k] \in Nat
            /\ Seconds(report.start.last[k]) <= Logged(t)
        BY <2>1, <3>1 DEF ReportJudged, FreshIsTrue, NoFalseFresh
      <4> QED BY <4>1, <1>4, SecondsBehind
    <3> QED BY <1>1, <2>2, <3>1 DEF FreshIsTrue, NoFalseFresh, Says
  <2>4. MovedWasNews'
    <3>1. ASSUME NEW t \in DOMAIN report.tasks \cap DOMAIN report.start.base,
                 report.tasks[t].complete, NEW k \in DOMAIN Reported(t), Says(t, k, "moved")
          PROVE  last'[k] > report.start.base[t]
      <4>1. k \in Keys /\ report.start.base[t] \in Nat /\ last[k] > report.start.base[t]
        BY <2>1, <3>1 DEF ReportJudged, MovedWasNews, Reported
      <4> QED BY <1>1, <4>1
    <3> QED BY <1>1, <2>2, <3>1 DEF MovedWasNews, Says
  <2> QED BY <1>1, <2>1, <2>3, <2>4 DEF ReportJudged
<1> QED BY <1>1, <1>5, <1>6 DEF Judged

\* What a step that leaves the world alone cannot change.
LEMMA VerdictWorldStays ==
    ASSUME Judged, UNCHANGED world
    PROVE  /\ LogInv'
           /\ UNCHANGED report => ReportJudged'
<1>1. /\ now' = now /\ last' = last /\ bcasts' = bcasts
      /\ updated' = updated /\ comments' = comments
  BY DEF world
<1>2. LogInv'
  BY <1>1 DEF Judged, LogInv, KeptUntil
<1>3. \A t : Logged(t)' = Logged(t)
  BY <1>1 DEF Logged, Baseline
<1>4. ASSUME UNCHANGED report PROVE ReportJudged'
  BY <1>1, <1>3, <1>4 DEF Judged, ReportJudged, FreshIsTrue, NoFalseFresh, MovedWasNews, Says, Reported
<1> QED BY <1>2, <1>4

LEMMA RunJudgedStays ==
    ASSUME UNCHANGED world, NEW q \in Probes, RunJudged(probe'[q])
    PROVE  RunJudged(probe[q])'
<1>1. updated' = updated /\ comments' = comments /\ last' = last
  BY DEF world
<1>2. \A t : Logged(t)' = Logged(t)
  BY <1>1 DEF Logged, Baseline
<1>5. ASSUME NEW t \in DOMAIN probe'[q].copies
      PROVE  CopyJudged(probe[q].copies[t], t)'
  <2>1. CopyJudged(probe'[q].copies[t], t)
    BY <1>5 DEF RunJudged
  <2> QED BY <1>1, <1>2, <2>1 DEF CopyJudged
<1>6. ASSUME NEW t \in DOMAIN probe'[q].start.base
      PROVE  /\ t \in Tasks /\ probe'[q].start.base[t] \in Nat
             /\ probe'[q].start.base[t] <= Logged(t)'
             /\ t \in DOMAIN probe'[q].copies =>
                   CopyBased(probe[q].start.base[t], probe[q].copies[t], t)'
  <2>1. t \in DOMAIN probe'[q].copies => CopyBased(probe'[q].start.base[t], probe'[q].copies[t], t)
    BY <1>6 DEF RunJudged
  <2> QED BY <1>1, <1>2, <1>6, <2>1 DEF RunJudged, CopyBased
<1>3. StartPast(probe[q].start)'
  BY <1>1 DEF RunJudged, StartPast
<1>4. ResultsRecent(probe[q].start, probe[q].results)'
  BY DEF RunJudged, ResultsRecent
<1> QED BY <1>3, <1>4, <1>5, <1>6 DEF RunJudged

\* A step that leaves the report alone is judged by its own run.
LEMMA VerdictMove ==
    ASSUME Judged, Reporting', NEW p \in Probes, NEW r, RunJudged(r),
           probe' = [probe EXCEPT ![p] = r], UNCHANGED <<world, report>>
    PROVE  Judged'
<1>1. \A q \in Probes : probe'[q] = IF q = p THEN r ELSE probe[q]
  BY DEF Judged, Reporting, Watermarked
<1>2. ASSUME NEW q \in Probes PROVE RunJudged(probe[q])'
  <2>1. RunJudged(probe'[q])
    BY <1>1 DEF Judged
  <2> QED BY <2>1, RunJudgedStays
<1> QED BY <1>2, VerdictWorldStays DEF Judged

\* Now is a moment at which what is logged on a task can be read.
LEMMA LoggedNow ==
    ASSUME Judged, NEW t \in Tasks
    PROVE  /\ now \in Nat /\ updated[t] \in 0 .. now /\ KeptUntil(comments[t], now)
           /\ Logged(t) \in Nat
<1>1. now \in Nat /\ updated[t] \in 0 .. now /\ KeptUntil(comments[t], now)
  BY DEF Judged, Reporting, Watermarked, WorldInv, LogInv
<1> QED BY <1>1, BaselineIs DEF Logged

LEMMA VerdictFetchTasks ==
    ASSUME Judged, Reporting', NEW p \in Probes, FetchTasks(p)
    PROVE  Judged'
<1>1. PICK r : /\ probe' = [probe EXCEPT ![p] = r] /\ UNCHANGED <<world, files>>
               /\ r.copies = <<>> /\ r.start = Snapshot /\ r.results = Idle.results
  BY RunSetsOut
<1>2. /\ Snapshot.last = last /\ open \subseteq Tasks
      /\ Snapshot.base = [t \in open |-> Logged(t)]
  BY DEF Snapshot, Logged, Judged, Reporting
<1>3. r.results = <<>> /\ DOMAIN r.copies = {}
  BY <1>1 DEF Idle
<1>4. StartPast(r.start) /\ ResultsRecent(r.start, r.results)
  BY <1>1, <1>2, <1>3 DEF StartPast, ResultsRecent, Judged, Reporting, Watermarked, WorldInv
<1>5. \A t \in open : t \in Tasks /\ Logged(t) \in Nat
  BY <1>2, LoggedNow
<1>6. RunJudged(r)
  BY <1>1, <1>2, <1>3, <1>4, <1>5 DEF RunJudged
<1> QED BY <1>1, <1>6, VerdictMove DEF files

LEMMA VerdictListTask ==
    ASSUME Judged, Reporting', NEW p \in Probes, ListTask(p)
    PROVE  Judged'
<1>1. /\ DOMAIN probe[p] = Fields /\ RunJudged(probe[p]) /\ open \subseteq Tasks
      /\ DOMAIN probe[p].copies \subseteq Tasks
  BY DEF Judged, Reporting, Watermarked, RunInv, Whole
<1>2. PICK t, r :
        /\ t \in probe[p].todo /\ probe' = [probe EXCEPT ![p] = r] /\ UNCHANGED <<world, files>>
        /\ Lists(probe[p], t, r)
  BY <1>1, RunLists
<1>3. ASSUME NEW u \in DOMAIN r.copies
      PROVE  CopyJudged(r.copies[u], u)
  <2>1. CASE u = t
    <3>1. u \in Tasks /\ updated[u] \in Nat
      BY <1>1, <1>2, LoggedNow DEF Lists
    <3>2. r.copies[u] = [updated |-> updated[u], comments |-> {}, complete |-> FALSE]
      BY <1>2, <2>1 DEF Lists
    <3> QED BY <3>1, <3>2 DEF CopyJudged
  <2>2. CASE u # t
    BY <1>1, <1>2, <2>2 DEF RunJudged, Lists
  <2> QED BY <2>1, <2>2
<1>4. ASSUME NEW u \in DOMAIN r.start.base, u \in DOMAIN r.copies
      PROVE  CopyBased(r.start.base[u], r.copies[u], u)
  <2>1. CASE u = t
    <3>1. r.start.base[u] <= Logged(u)
      BY <1>1, <1>2 DEF RunJudged, Lists
    <3>2. r.copies[u] = [updated |-> updated[u], comments |-> {}, complete |-> FALSE]
      BY <1>2, <1>4, <2>1 DEF Lists
    <3> QED BY <3>1, <3>2 DEF CopyBased, Logged
  <2>2. CASE u # t
    BY <1>1, <1>2, <1>4, <2>2 DEF RunJudged, Lists
  <2> QED BY <2>1, <2>2
<1>5. RunJudged(r)
  BY <1>1, <1>2, <1>3, <1>4 DEF RunJudged, Lists
<1> QED BY <1>2, <1>5, VerdictMove DEF files

LEMMA VerdictFetchComments ==
    ASSUME Judged, Reporting', NEW p \in Probes, FetchComments(p)
    PROVE  Judged'
<1>1. PICK t \in probe[p].todo :
        Move(p, [probe[p] EXCEPT !.todo = @ \ {t}, !.copies[t].comments = comments[t],
                                 !.copies[t].complete = TRUE])
  BY DEF FetchComments
<1> DEFINE old == probe[p].copies
           run == [probe[p] EXCEPT !.todo = @ \ {t}, !.copies[t].comments = comments[t],
                                   !.copies[t].complete = TRUE]
<1>2. probe' = [probe EXCEPT ![p] = run] /\ UNCHANGED <<world, report>>
  BY <1>1 DEF Move, files
<1>3. DOMAIN probe[p] = Fields /\ Whole(probe[p]) /\ RunJudged(probe[p])
  BY DEF Judged, Reporting, Watermarked, RunInv
<1>4. /\ run.start = probe[p].start /\ run.results = probe[p].results
      /\ DOMAIN run.copies = DOMAIN old
      /\ \A u \in DOMAIN old \ {t} : run.copies[u] = old[u]
      /\ t \in DOMAIN old => /\ run.copies[t].comments = comments[t]
                             /\ run.copies[t].updated = old[t].updated
  BY <1>3 DEF Fields, Whole
<1> HIDE DEF run
<1>5. ASSUME t \in DOMAIN old
      PROVE  /\ CopyJudged(run.copies[t], t)
             /\ t \in DOMAIN run.start.base => CopyBased(run.start.base[t], run.copies[t], t)
  <2>1. t \in Tasks /\ CopyJudged(old[t], t)
    BY <1>3, <1>5 DEF Whole, RunJudged
  <2>2. /\ now \in Nat /\ updated[t] \in 0 .. now /\ KeptUntil(comments[t], now)
        /\ old[t].updated \in 0 .. now /\ old[t].updated <= updated[t]
    BY <2>1, LoggedNow DEF CopyJudged
  <2>3. Baseline(old[t].updated, comments[t]) \in Nat
    BY <2>2, BaselineIs
  <2>4. Baseline(old[t].updated, comments[t]) <= Logged(t)
    BY <2>2, BaselineGrows DEF Logged
  <2>5. \A c \in comments[t] : c.links \subseteq Keys
    BY <2>2 DEF KeptUntil
  <2>6. CopyJudged(run.copies[t], t)
    BY <1>4, <1>5, <2>1, <2>3, <2>4, <2>5 DEF CopyJudged
  <2>7. t \in DOMAIN run.start.base => CopyBased(run.start.base[t], run.copies[t], t)
    BY <1>3, <1>4, <1>5 DEF RunJudged, CopyBased
  <2> QED BY <2>6, <2>7
<1>6. RunJudged(run)
  BY <1>3, <1>4, <1>5 DEF RunJudged
<1> QED BY <1>2, <1>6, VerdictMove

\* A run that goes on with the tasks and the answers it has.
LEMMA VerdictKeepsOn ==
    ASSUME Judged, Reporting', NEW p \in Probes, NEW r,
           SameTasks(r, probe[p]), r.results = probe[p].results,
           probe' = [probe EXCEPT ![p] = r], UNCHANGED <<world, report>>
    PROVE  Judged'
<1>1. RunJudged(r)
  BY DEF Judged, RunJudged, SameTasks
<1> QED BY <1>1, VerdictMove

LEMMA VerdictCaching ==
    ASSUME Judged, Reporting', NEW p \in Probes,
           \/ FetchCommentsFails(p) \/ FetchFails(p) \/ LoadWatermark(p)
           \/ LoadWatermarkCorrupt(p) \/ SaveTask(p) \/ SaveTaskFails(p)
           \/ \E left : PruneTasksExcept(p, left)
           \/ SaveWatermark(p) \/ Stop(p)
    PROVE  Judged'
<1>1. Watermarked
  BY DEF Judged, Reporting
<1>2. CASE FetchFails(p) \/ Stop(p)
  <2>1. RunJudged(Idle)
    BY IdleJudged DEF Judged, Reporting, Watermarked
  <2> QED BY <1>2, <2>1, VerdictMove DEF FetchFails, Stop, Move, files
<1>3. ASSUME NEW left, PruneTasksExcept(p, left)
      PROVE  Judged'
  <2>1. PICK r : /\ probe' = [probe EXCEPT ![p] = r] /\ UNCHANGED <<world, report>>
                 /\ SameTasks(r, probe[p])
                 /\ \A k \in DOMAIN r.results : r.results[k] = Unchecked
    BY <1>1, <1>3, RunPrunes
  <2>2. ~ Unchecked.checked
    BY DEF Unchecked
  <2>3. RunJudged(r)
    BY <2>1, <2>2 DEF Judged, RunJudged, SameTasks, ResultsRecent
  <2> QED BY <2>1, <2>3, VerdictMove
<1>4. CASE \/ FetchCommentsFails(p) \/ LoadWatermark(p) \/ LoadWatermarkCorrupt(p)
           \/ SaveTask(p) \/ SaveTaskFails(p) \/ SaveWatermark(p)
  BY <1>1, <1>4, RunKeepsOn, VerdictKeepsOn
<1> QED BY <1>2, <1>3, <1>4

\* An answer is unchecked, or not older than the record was when the run began.
LEMMA VerdictAnswer ==
    ASSUME Judged, Reporting', NEW p \in Probes, NEW ks, NEW res, Answered(p, ks, res),
           probe[p].pc # "listing",
           \A k \in ks \cap (Keys \ Broadcasts) :
              res.checked => Seconds(probe[p].start.last[k]) <= res.last
    PROVE  Judged'
<1>0. Watermarked
  BY DEF Judged, Reporting
<1>1. PICK r : /\ probe' = [probe EXCEPT ![p] = r] /\ UNCHANGED <<world, report>>
               /\ SameTasks(r, probe[p])
               /\ DOMAIN r.results = DOMAIN probe[p].results \cup ks
               /\ \A k \in ks : r.results[k] = res
               /\ \A k \in DOMAIN probe[p].results \ ks : r.results[k] = probe[p].results[k]
  BY <1>0, RunAnswers
<1>2. ResultsRecent(r.start, r.results)
  BY <1>1 DEF Judged, RunJudged, SameTasks, ResultsRecent
<1>3. RunJudged(r)
  BY <1>1, <1>2 DEF Judged, RunJudged, SameTasks
<1> QED BY <1>1, <1>3, VerdictMove

LEMMA VerdictProbing ==
    ASSUME Judged, Reporting', NEW p \in Probes,
           \/ ProbeOne(p) \/ SlackHistory(p) \/ ConfirmThread(p)
           \/ ProbeOneFails(p) \/ ProberFails(p) \/ Deadline(p)
    PROVE  Judged'
<1>1. /\ Slack \subseteq Keys /\ Rest \subseteq Keys
      /\ \A t : Active(t).last = t
      /\ ~ Unchecked.checked /\ probe[p].pc # "listing"
  BY ProbeRunAssumption DEF Active, Unchecked, ProbeOne, SlackHistory, ConfirmThread,
                            ProbeOneFails, ProberFails, Deadline
<1>2. \A k \in Keys : /\ last[k] \in Nat /\ probe[p].start.last[k] \in Nat
                      /\ probe[p].start.last[k] <= last[k]
  BY DEF Judged, RunJudged, StartPast, Reporting, Watermarked, WorldInv
<1>3. \A k \in Keys : /\ Seconds(probe[p].start.last[k]) <= last[k]
                      /\ Seconds(probe[p].start.last[k]) <= Seconds(last[k])
  BY <1>2, SecondsBehind, SecondsMonotone
<1>4. CASE ProbeOne(p)
  <2>1. PICK k \in probe[p].ask \cap Rest : Answered(p, {k}, Active(last[k]))
    BY <1>4 DEF ProbeOne
  <2> QED BY <2>1, <1>1, <1>3, VerdictAnswer
<1>5. CASE SlackHistory(p)
  <2>1. PICK k \in probe[p].ask \cap Slack :
          \/ \E lr \in Times : AnsweredFromHistory(p, k, lr) /\ Answered(p, {k}, Active(Seconds(lr)))
          \/ ToConfirm(p, k)
    BY <1>5 DEF SlackHistory, ToConfirm
  <2>2. CASE ToConfirm(p, k)
    BY <1>1, <2>2, RunConfirms, VerdictKeepsOn DEF Judged, Reporting
  <2>3. ASSUME NEW lr \in Times, AnsweredFromHistory(p, k, lr), Answered(p, {k}, Active(Seconds(lr)))
        PROVE  Judged'
    <3>1. k \notin Broadcasts => lr = last[k]
      BY <2>3, <1>1 DEF AnsweredFromHistory, InHistory, Judged, LogInv
    <3>2. k \in Keys \ Broadcasts => Seconds(probe[p].start.last[k]) <= Active(Seconds(lr)).last
      BY <3>1, <1>1, <1>3
    <3> QED BY <1>1, <2>3, <3>2, VerdictAnswer
  <2> QED BY <2>1, <2>2, <2>3
<1>6. CASE ConfirmThread(p)
  <2>1. PICK k \in probe[p].confirm : Answered(p, {k}, Active(Seconds(last[k])))
    BY <1>6 DEF ConfirmThread
  <2> QED BY <2>1, <1>1, <1>3, VerdictAnswer
<1>7. CASE ProbeOneFails(p)
  BY <1>7, <1>1, VerdictAnswer DEF ProbeOneFails
<1>8. CASE ProberFails(p)
  BY <1>8, <1>1, VerdictAnswer DEF ProberFails
<1>9. CASE Deadline(p)
  BY <1>9, <1>1, VerdictAnswer DEF Deadline
<1> QED BY <1>4, <1>5, <1>6, <1>7, <1>8, <1>9

\* The links of a run's copies are of known records.
LEMMA LinksAreKeys ==
    ASSUME NEW r, RunJudged(r), DOMAIN r.copies \subseteq Tasks, NEW t \in DOMAIN r.copies
    PROVE  Extract(t, r.copies[t].comments) \subseteq Keys
<1>1. TitleLinks[t] \subseteq Keys
  BY ProbeRunAssumption
<1>2. \A c \in r.copies[t].comments : c.links \subseteq Keys
  BY DEF RunJudged, CopyJudged
<1> QED BY <1>1, <1>2 DEF Extract

LEMMA VerdictSaveReport ==
    ASSUME Judged, Reporting', NEW p \in Probes, SaveReport(p)
    PROVE  Judged'
<1> DEFINE r == probe[p]
           copy(t) == r.copies[t]
           base(t) == Baseline(copy(t).updated, copy(t).comments)
<1>1. /\ report' = ReportOf(p) /\ probe' = [probe EXCEPT ![p] = Idle]
      /\ UNCHANGED world /\ last' = last
      /\ r.pc = "reporting"
  BY DEF SaveReport, world
<1>2. /\ RunJudged(r) /\ RunInv(r) /\ DOMAIN r.copies \subseteq Tasks
      /\ \A k \in Keys : last[k] \in Nat
  BY DEF Judged, Reporting, Watermarked, Whole, WorldInv
<1>3. /\ report'.start = r.start /\ DOMAIN report'.tasks = DOMAIN r.copies
      /\ \A t \in DOMAIN r.copies :
            /\ report'.tasks[t].complete = copy(t).complete
            /\ report'.tasks[t].links = [k \in Extract(t, copy(t).comments) |->
                                            Verdict(copy(t), r.results[k])]
  BY <1>1 DEF ReportOf, TaskReport
<1>4. ASSUME NEW t \in DOMAIN r.copies, NEW k \in Extract(t, copy(t).comments)
      PROVE  /\ k \in Keys \cap DOMAIN r.results
             /\ r.results[k].last \in Int /\ r.results[k].last <= last[k]
  <2>1. k \in Keys
    BY <1>2, LinksAreKeys
  <2>2. k \in LinkedOf(r)
    BY <1>4 DEF LinkedOf
  <2>3. k \in DOMAIN r.results
    BY <1>1, <1>2, <2>2 DEF RunInv, Covered
  <2> QED BY <1>2, <2>1, <2>3 DEF RunInv, ResultsBehind
<1>5. ASSUME NEW t \in DOMAIN r.copies, copy(t).complete
      PROVE  /\ base(t) \in Nat /\ base(t) <= Logged(t)
             /\ t \in DOMAIN r.start.base => r.start.base[t] \in Nat /\ r.start.base[t] <= base(t)
  BY <1>2, <1>5 DEF RunJudged, CopyJudged, CopyBased
<1>6. \A t : Logged(t)' = Logged(t)
  BY <1>1 DEF Logged, Baseline, world
<1>7. FreshIsTrue'
  <2>1. ASSUME NEW t \in DOMAIN r.copies, copy(t).complete, NEW k \in Keys \ Broadcasts,
               k \in Extract(t, copy(t).comments), Verdict(copy(t), r.results[k]) = "fresh"
        PROVE  Seconds(r.start.last[k]) <= Logged(t)
    <3>1. r.results[k].checked /\ ~ (r.results[k].last > base(t))
      BY <2>1 DEF Verdict
    <3>2. Seconds(r.start.last[k]) <= r.results[k].last
      BY <1>2, <1>4, <2>1, <3>1 DEF RunJudged, ResultsRecent
    <3>3. Seconds(r.start.last[k]) \in Int
      BY <1>2, SecondsBehind DEF RunJudged, StartPast
    <3>4. Logged(t) \in Nat
      <4>1. now \in Nat /\ updated[t] \in 0 .. now /\ KeptUntil(comments[t], now)
        BY <1>2 DEF Judged, Reporting, Watermarked, WorldInv, LogInv
      <4> QED BY <4>1, BaselineIs DEF Logged
    <3>5. r.results[k].last \in Int
      BY <1>4, <2>1
    <3>6. base(t) \in Nat /\ base(t) <= Logged(t)
      BY <1>5, <2>1
    <3> HIDE DEF base
    <3> QED BY <3>1, <3>2, <3>3, <3>4, <3>5, <3>6
  <2>2. ASSUME NEW t \in DOMAIN report'.tasks, report'.tasks[t].complete,
               NEW k \in Keys \ Broadcasts, Says(t, k, "fresh")'
        PROVE  Seconds(report'.start.last[k]) <= Logged(t)'
    <3>1. k \in Extract(t, copy(t).comments) /\ Verdict(copy(t), r.results[k]) = "fresh"
      <4>1. t \in DOMAIN r.copies
            /\ report'.tasks[t].links = [j \in Extract(t, copy(t).comments) |->
                                            Verdict(copy(t), r.results[j])]
        BY <1>3
      <4>2. k \in DOMAIN report'.tasks[t].links /\ report'.tasks[t].links[k] = "fresh"
        BY <2>2 DEF Says, Reported
      <4> HIDE DEF r, copy
      <4> QED BY <4>1, <4>2
    <3> QED BY <1>3, <1>6, <2>1, <2>2, <3>1
  <2> QED BY <2>2 DEF FreshIsTrue, NoFalseFresh
<1>8. MovedWasNews'
  <2>1. ASSUME NEW t \in DOMAIN r.copies, copy(t).complete, t \in DOMAIN r.start.base,
               NEW k \in Extract(t, copy(t).comments), Verdict(copy(t), r.results[k]) = "moved"
        PROVE  last[k] > r.start.base[t]
    <3>1. r.results[k].last > base(t)
      BY <2>1 DEF Verdict
    <3>2. r.results[k].last \in Int /\ r.results[k].last <= last[k] /\ last[k] \in Nat
      BY <1>2, <1>4, <2>1
    <3>3. base(t) \in Nat /\ r.start.base[t] \in Nat /\ r.start.base[t] <= base(t)
      BY <1>5, <2>1
    <3> HIDE DEF base
    <3> QED BY <3>1, <3>2, <3>3
  <2>2. ASSUME NEW t \in DOMAIN report'.tasks, report'.tasks[t].complete,
               t \in DOMAIN report'.start.base,
               NEW k \in DOMAIN Reported(t)', Says(t, k, "moved")'
        PROVE  last'[k] > report'.start.base[t]
    <3>1. k \in Extract(t, copy(t).comments) /\ Verdict(copy(t), r.results[k]) = "moved"
      <4>1. t \in DOMAIN r.copies
            /\ report'.tasks[t].links = [j \in Extract(t, copy(t).comments) |->
                                            Verdict(copy(t), r.results[j])]
        BY <1>3
      <4>2. k \in DOMAIN report'.tasks[t].links /\ report'.tasks[t].links[k] = "moved"
        BY <2>2 DEF Says, Reported
      <4> HIDE DEF r, copy
      <4> QED BY <4>1, <4>2
    <3> QED BY <1>1, <1>3, <2>1, <2>2, <3>1
  <2> QED BY <2>2 DEF MovedWasNews
<1>9. ReportJudged'
  <2>1. \A t \in DOMAIN report'.tasks : DOMAIN report'.tasks[t].links \subseteq Keys
    BY <1>3, <1>4
  <2>2. \A k \in Keys : report'.start.last[k] \in Nat
    BY <1>2, <1>3 DEF RunJudged, StartPast
  <2>3. \A t \in DOMAIN report'.start.base : report'.start.base[t] \in Nat
    BY <1>2, <1>3 DEF RunJudged, CopyJudged
  <2> QED BY <1>2, <1>3, <1>7, <1>8, <2>1, <2>2, <2>3 DEF ReportJudged
<1>10. ASSUME NEW q \in Probes PROVE RunJudged(probe[q])'
  <2>1. RunJudged(Idle)
    BY IdleJudged DEF Judged, Reporting, Watermarked
  <2>2. RunJudged(probe'[q])
    BY <1>1, <2>1 DEF Judged, Reporting, Watermarked
  <2> QED BY <1>1, <2>2, RunJudgedStays
<1>11. LogInv'
  BY <1>1, VerdictWorldStays
<1> QED BY <1>9, <1>10, <1>11 DEF Judged

LEMMA VerdictStep == Judged /\ Moves => Judged'
<1> SUFFICES ASSUME Judged, Moves PROVE Judged'
  OBVIOUS
<1>1. Reporting'
  BY ReportStep DEF Judged
<1>2. CASE World
  BY <1>1, <1>2, VerdictWorld
<1>3. ASSUME NEW p \in Probes, FetchTasks(p) \/ Step(p) PROVE Judged'
  BY <1>1, <1>3, VerdictFetchTasks, VerdictListTask, VerdictFetchComments, VerdictCaching, VerdictProbing,
     VerdictSaveReport DEF Step
<1>4. CASE Stays
  <2>1. UNCHANGED world /\ probe' = probe /\ report' = report
    BY <1>4 DEF Stays, files
  <2>2. ASSUME NEW p \in Probes PROVE RunJudged(probe[p])'
    BY <2>1, RunJudgedStays DEF Judged
  <2> QED BY <1>1, <2>1, <2>2, VerdictWorldStays DEF Judged
<1> QED BY <1>2, <1>3, <1>4 DEF Moves

----------------------------------------------------------------------------

\* No false negative: a link that the report calls fresh had, as the run began, no activity
\* in a later second than what is logged on its task, for every task whose comments were
\* fetched and every record but a thread with replies sent to its channel
\* (engine.go:131-156, slack.go:176-215).
THEOREM FreshVerdictsAreTrue == Spec => []FreshIsTrue
<1>1. Judged => FreshIsTrue
  BY DEF Judged, ReportJudged
<1> QED BY <1>1, VerdictInit, VerdictStep, NextMoves, PTL DEF Spec

\* No false alarm: a link that the report calls moved has activity newer than everything
\* that was logged on its task when the run began, so that running a probe again does not
\* flag what was answered (engine.go:150-154).
THEOREM MovedVerdictsAreNews == Spec => []MovedWasNews
<1>1. Judged => MovedWasNews
  BY DEF Judged, ReportJudged
<1> QED BY <1>1, VerdictInit, VerdictStep, NextMoves, PTL DEF Spec

=============================================================================

------------------------------ MODULE ProbeRun ------------------------------
(***************************************************************************)
(* `ballpoint probe`: the processes that fetch the open tasks and their    *)
(* comments from Todoist, cache them, ask one prober per external system   *)
(* for the last activity of every linked record, compare it with the work  *)
(* log, and write the watermark and the report the triage walk reads.      *)
(*                                                                         *)
(* The world moves while a run reads it: records get activity, Slack       *)
(* threads scroll out of the history window, comments are posted, tasks    *)
(* are edited, created and closed.  A run reads each of these at its own   *)
(* moment, any read and any write may fail, a process may die anywhere,    *)
(* and the timer and `--refresh` may run two probes at once.               *)
(*                                                                         *)
(* A record is a link key; a system is the set of its keys.  Times are     *)
(* clock readings, Second of them to a second; 0 is Go's zero time.        *)
(***************************************************************************)
EXTENDS Naturals, FiniteSets, FiniteSetsExt

CONSTANTS Probes, Tasks, Keys,
          Slack, Rest,   \* the keys of Slack, and of the other systems with a prober
          TitleLinks,    \* the links in the title of each task
          MaxLinks,      \* maxLinksPerSystem
          Second,        \* clock readings in a second
          Broadcasts,    \* the threads with replies that are also sent to the channel
          MaxNow, MaxEvents, MaxFaults,  \* bounds: clock, changes of the world, failures
          MaxDisturbances                \* bound on changes and failures together

ASSUME ProbeRunAssumption ==
    /\ Slack \subseteq Keys /\ Rest \subseteq Keys /\ Slack \cap Rest = {}
    /\ TitleLinks \in [Tasks -> SUBSET Keys]
    /\ Second \in Nat \ {0} /\ MaxLinks \in Nat \ {0}
    /\ MaxNow \in Nat /\ Second <= MaxNow /\ MaxEvents \in Nat /\ MaxFaults \in Nat
    /\ MaxDisturbances \in Nat
    /\ Broadcasts \subseteq Slack

VARIABLES
    now,       \* the clock
    last,      \* per key, the time of the newest activity
    bcasts,    \* per key, times of the replies sent to the channel and still in its history window
    parentIn,  \* per key, whether the thread's parent is in the history window
    open,      \* the open tasks of Todoist
    updated,   \* per task, its UpdatedAt, 0 before it is created
    comments,  \* per task, its comments: when they were posted, what they link
    cache,     \* the tasks with a file in the cache
    watermark, \* watermarks.json; 0 is an absent key
    report,    \* report.json, with the state of the world its run started from
    probe,     \* per process, the run it is in
    events, faults

world == <<now, last, bcasts, parentIn, open, updated, comments, events>>
files == <<cache, watermark, report>>
vars  == <<world, files, probe, faults>>

Times == 0 .. MaxNow

----------------------------------------------------------------------------
(* Links, baselines and verdicts                                           *)

\* links.Extract: the keys in the title and the comments.
Extract(t, cs) == TitleLinks[t] \cup UNION {c.links : c \in cs}

\* The newest comment, or UpdatedAt of a task without comments.
NewestComment(cs) == Max({c.at : c \in cs})
Baseline(upd, cs) == IF cs = {} THEN upd ELSE NewestComment(cs)

Unchecked == [checked |-> FALSE, last |-> 0]
Active(at) == [checked |-> TRUE, last |-> at]

\* Activity exactly at the baseline counted as new.
VerdictNotStrict(copy, res) ==
    IF ~res.checked THEN "unchecked"
    ELSE IF res.last >= Baseline(copy.updated, copy.comments) THEN "moved" ELSE "fresh"

\* The engine's verdict on one link of one fetched task.
Verdict(copy, res) ==
    IF ~res.checked THEN "unchecked"
    ELSE IF res.last > Baseline(copy.updated, copy.comments) THEN "moved" ELSE "fresh"

\* parseSlackTS drops the fraction of the second.
Seconds(ts) == ts - (ts % Second)

Nothing == [last |-> [k \in Keys |-> 0], links |-> <<>>, base |-> <<>>]

Idle == [pc |-> "idle", copies |-> <<>>, since |-> [k \in Keys |-> 0], todo |-> {},
         ask |-> {}, confirm |-> {}, results |-> <<>>, start |-> Nothing]

\* What the world was when a run set out.
Snapshot == [last  |-> last,
             links |-> [t \in open |-> Extract(t, comments[t])],
             base  |-> [t \in open |-> Baseline(updated[t], comments[t])]]

NoReport == [tasks |-> <<>>, start |-> Nothing]

Linked(p) == UNION {Extract(t, probe[p].copies[t].comments) : t \in DOMAIN probe[p].copies}

Init ==
    /\ now = Second /\ last = [k \in Keys |-> Second]
    /\ bcasts = [k \in Keys |-> {}] /\ parentIn \in [Keys -> BOOLEAN]
    /\ \A k \in Keys \ Slack : parentIn[k]
    /\ open \in SUBSET Tasks
    /\ updated = [t \in Tasks |-> IF t \in open THEN Second ELSE 0] /\ comments = [t \in Tasks |-> {}]
    /\ cache = {} /\ watermark = [k \in Keys |-> 0] /\ report = NoReport
    /\ probe = [p \in Probes |-> Idle]
    /\ events = 0 /\ faults = 0

----------------------------------------------------------------------------
(* The world                                                               *)

Calm == events + faults < MaxDisturbances

At(at) ==
    /\ events < MaxEvents /\ Calm /\ events' = events + 1
    /\ at \in now .. MaxNow /\ now' = at
    /\ UNCHANGED <<files, probe, faults>>

Activity(k, at, bcast) ==
    /\ At(at)
    /\ bcast => k \in Broadcasts
    /\ last' = [last EXCEPT ![k] = at]
    /\ bcasts' = IF bcast THEN [bcasts EXCEPT ![k] = @ \cup {at}] ELSE bcasts
    /\ UNCHANGED <<parentIn, open, updated, comments>>

\* Other traffic pushes the oldest message of a thread out of the history window.
Scroll(k) ==
    /\ k \in Slack /\ At(now)
    /\ \/ /\ parentIn[k]
          /\ parentIn' = [parentIn EXCEPT ![k] = FALSE] /\ UNCHANGED bcasts
       \/ /\ ~parentIn[k]
          /\ \E b \in bcasts[k] : /\ \A c \in bcasts[k] : b <= c
                                  /\ bcasts' = [bcasts EXCEPT ![k] = @ \ {b}]
          /\ UNCHANGED parentIn
    /\ UNCHANGED <<last, open, updated, comments>>

\* A work-log comment, with or without a link in it.
PostComment(t, at, links) ==
    /\ At(at) /\ t \in open
    /\ comments' = [comments EXCEPT ![t] = @ \cup {[at |-> at, links |-> links]}]
    /\ UNCHANGED <<last, bcasts, parentIn, open, updated>>

Edit(t, at) ==
    /\ At(at) /\ t \in open
    /\ updated' = [updated EXCEPT ![t] = at]
    /\ UNCHANGED <<last, bcasts, parentIn, open, comments>>

Create(t, at) ==
    /\ At(at) /\ updated[t] = 0
    /\ open' = open \cup {t} /\ updated' = [updated EXCEPT ![t] = at]
    /\ UNCHANGED <<last, bcasts, parentIn, comments>>

Close(t) ==
    /\ At(now) /\ t \in open
    /\ open' = open \ {t}
    /\ UNCHANGED <<last, bcasts, parentIn, updated, comments>>

Environment ==
    \/ \E k \in Keys, at \in Times, b \in BOOLEAN : Activity(k, at, b)
    \/ \E k \in Keys : Scroll(k)
    \/ \E t \in Tasks, at \in Times :
          \/ \E ls \in {{}} \cup {{k} : k \in Keys \ TitleLinks[t]} : PostComment(t, at, ls)
          \/ Edit(t, at)
          \/ Create(t, at)
    \/ \E t \in Tasks : Close(t)

----------------------------------------------------------------------------
(* Fetching the corpus from Todoist                                        *)

Fault == faults < MaxFaults /\ Calm /\ faults' = faults + 1

\* Moves run p on without touching the world or the files.
Move(p, r) == probe' = [probe EXCEPT ![p] = r] /\ UNCHANGED <<world, files>>

\* A run whose list has come to its end goes on to the comments of what it listed.
Listed(r) ==
    IF r.todo # {} THEN r ELSE [r EXCEPT !.pc = "comments", !.todo = DOMAIN r.copies]

FetchTasks(p) ==
    /\ probe[p].pc = "idle"
    /\ Move(p, Listed([Idle EXCEPT !.pc = "listing", !.todo = Tasks, !.start = Snapshot]))
    /\ UNCHANGED faults

\* The list comes page by page, so that every task is listed, or not, as it is at a moment
\* of its own; that nothing is skipped which is there all the time is what TodoistFetch shows.
ListTask(p) ==
    /\ probe[p].pc = "listing"
    /\ \E t \in probe[p].todo :
          Move(p, Listed([probe[p] EXCEPT
                            !.todo = @ \ {t},
                            !.copies = [u \in DOMAIN @ \cup ({t} \cap open) |->
                                          IF u = t THEN [updated |-> updated[t], comments |-> {},
                                                         complete |-> FALSE]
                                          ELSE @[u]]]))
    /\ UNCHANGED faults

FetchComments(p) ==
    /\ probe[p].pc = "comments"
    /\ \E t \in probe[p].todo :
          Move(p, [probe[p] EXCEPT !.todo = @ \ {t},
                                   !.copies[t].comments = comments[t],
                                   !.copies[t].complete = TRUE])
    /\ UNCHANGED faults

\* Comments that cannot be fetched leave the task without them; the run goes on.
FetchCommentsFails(p) ==
    /\ probe[p].pc = "comments" /\ Fault
    /\ \E t \in probe[p].todo : Move(p, [probe[p] EXCEPT !.todo = @ \ {t}])

\* A failed list or a missed deadline ends the run before it wrote anything.
FetchFails(p) ==
    /\ probe[p].pc \in {"listing", "comments"} /\ Fault
    /\ Move(p, Idle)

----------------------------------------------------------------------------
(* runProbe: watermark, cache, prune                                       *)

LoadWatermark(p) ==
    /\ probe[p].pc = "comments" /\ probe[p].todo = {}
    /\ Move(p, [probe[p] EXCEPT !.pc = "caching", !.since = watermark,
                                !.todo = DOMAIN probe[p].copies])
    /\ UNCHANGED faults

\* An unreadable watermark file is an empty one.
LoadWatermarkCorrupt(p) ==
    /\ probe[p].pc = "comments" /\ probe[p].todo = {} /\ Fault
    /\ Move(p, [probe[p] EXCEPT !.pc = "caching", !.todo = DOMAIN probe[p].copies])

SaveTask(p) ==
    /\ probe[p].pc = "caching"
    /\ \E t \in probe[p].todo :
          /\ probe' = [probe EXCEPT ![p].todo = @ \ {t}]
          /\ cache' = cache \cup {t}
    /\ UNCHANGED <<world, watermark, report, faults>>

\* A task that cannot be cached is only warned about; an older copy stays.
SaveTaskFails(p) ==
    /\ probe[p].pc = "caching" /\ Fault
    /\ \E t \in probe[p].todo : Move(p, [probe[p] EXCEPT !.todo = @ \ {t}])

\* The keys one system's prober is asked for, at most MaxLinks of them.
Capped(S) == {T \in SUBSET S : Cardinality(T) = IF Cardinality(S) < MaxLinks
                                                THEN Cardinality(S) ELSE MaxLinks}

\* The engine groups the links by system and answers those it will not ask for:
\* the ones above the cap, and every link of a system without a prober.
Engine(p) ==
    \E s \in Capped(Linked(p) \cap Slack), r \in Capped(Linked(p) \cap Rest) :
        probe' = [probe EXCEPT ![p].pc = "probing", ![p].ask = s \cup r,
                               ![p].results = [k \in Linked(p) \ (s \cup r) |-> Unchecked]]

\* Prunes the tasks whose comments could not be fetched too.
PruneIncomplete(p, left) ==
    /\ probe[p].pc = "caching" /\ probe[p].todo = {}
    /\ left \subseteq cache \ DOMAIN probe[p].copies
    /\ IF left = {} THEN UNCHANGED faults ELSE Fault
    /\ cache' = {t \in cache \cap DOMAIN probe[p].copies : probe[p].copies[t].complete} \cup left
    /\ Engine(p)
    /\ UNCHANGED <<world, watermark, report>>

\* Prunes nothing.
PruneNothing(p, left) ==
    /\ probe[p].pc = "caching" /\ probe[p].todo = {}
    /\ left = cache \ DOMAIN probe[p].copies
    /\ cache' = cache
    /\ Engine(p)
    /\ UNCHANGED <<world, watermark, report, faults>>

\* PruneTasksExcept leaves every listed task, whatever happened to its file, and
\* what a failed os.Remove left.
PruneTasksExcept(p, left) ==
    /\ probe[p].pc = "caching" /\ probe[p].todo = {}
    /\ left \subseteq cache \ DOMAIN probe[p].copies
    /\ IF left = {} THEN UNCHANGED faults ELSE Fault
    /\ cache' = (cache \cap DOMAIN probe[p].copies) \cup left
    /\ Engine(p)
    /\ UNCHANGED <<world, watermark, report>>

----------------------------------------------------------------------------
(* probe.Run: one prober per system                                        *)

\* Run p gets the result res for each key in ks.
Answered(p, ks, res) ==
    Move(p, [probe[p] EXCEPT !.ask = @ \ ks, !.confirm = @ \ ks,
                             !.results = [k \in DOMAIN @ \cup ks |->
                                             IF k \in ks THEN res ELSE @[k]]])

\* The probers that ask for one record at a time and get its newest activity.
ProbeOne(p) ==
    /\ probe[p].pc = "probing"
    /\ \E k \in probe[p].ask \cap Rest : Answered(p, {k}, Active(last[k]))
    /\ UNCHANGED faults

\* What the history window says of a thread: the parent carries the latest reply,
\* a reply sent to the channel only itself, and the loop keeps the oldest message.
InHistory(k, lr) ==
    \/ parentIn[k] /\ lr = last[k]
    \/ ~parentIn[k] /\ lr \in bcasts[k] /\ \A b \in bcasts[k] : lr <= b

\* The watermark decides alone, the history is not looked at.
AnsweredFromWatermark(p, k, lr) ==
    /\ probe[p].since[k] # 0 /\ lr = probe[p].since[k]

\* conversations.history answers a thread that has not advanced past the watermark.
AnsweredFromHistory(p, k, lr) ==
    /\ InHistory(k, lr)
    /\ probe[p].since[k] # 0 /\ Seconds(lr) <= probe[p].since[k]

SlackHistory(p) ==
    /\ probe[p].pc = "probing"
    /\ \E k \in probe[p].ask \cap Slack :
          \/ \E lr \in Times : /\ AnsweredFromHistory(p, k, lr)
                               /\ Answered(p, {k}, Active(Seconds(lr)))
          \/ /\ ~ \E lr \in Times : AnsweredFromHistory(p, k, lr)
             /\ Move(p, [probe[p] EXCEPT !.ask = @ \ {k}, !.confirm = @ \cup {k}])
    /\ UNCHANGED faults

\* conversations.replies: the newest message, its parent's latest_reply included.
ConfirmThread(p) ==
    /\ probe[p].pc = "probing"
    /\ \E k \in probe[p].confirm : Answered(p, {k}, Active(Seconds(last[k])))
    /\ UNCHANGED faults

\* A failed call, a record that is gone, a response that does not parse.
ProbeOneFails(p) ==
    /\ probe[p].pc = "probing" /\ Fault
    /\ \E k \in probe[p].ask \cup probe[p].confirm : Answered(p, {k}, Unchecked)

\* A prober that returns an error takes back what it had answered for its system.
ProberFails(p) ==
    /\ probe[p].pc = "probing" /\ Fault
    /\ \E S \in {Slack, Rest} :
          /\ S \cap (probe[p].ask \cup probe[p].confirm) # {}
          /\ Answered(p, S \cap Linked(p), Unchecked)

\* The run's deadline fails every call that is still to be made.
Deadline(p) ==
    /\ probe[p].pc = "probing" /\ Fault
    /\ probe[p].ask \cup probe[p].confirm # {}
    /\ Answered(p, probe[p].ask \cup probe[p].confirm, Unchecked)

----------------------------------------------------------------------------
(* Reconciling and saving                                                  *)

Checked(p) == {k \in Linked(p) : probe[p].results[k].checked}

\* A link that was not checked is recorded as seen when the run saved.
NextWatermarkSeen(p) == [k \in Keys |-> IF k \in Checked(p) THEN probe[p].results[k].last
                                       ELSE IF k \in Linked(p) THEN now
                                       ELSE probe[p].since[k]]

\* The next watermark: the checked links, and the history of the others.
NextWatermark(p) == [k \in Keys |-> IF k \in Checked(p) THEN probe[p].results[k].last
                                                       ELSE probe[p].since[k]]

\* Only the links that were checked are reported.
TaskReportChecked(copy, t, results) ==
    [links    |-> [k \in {l \in Extract(t, copy.comments) : results[l].checked} |->
                      Verdict(copy, results[k])],
     complete |-> copy.complete]

TaskReport(copy, t, results) ==
    [links    |-> [k \in Extract(t, copy.comments) |-> Verdict(copy, results[k])],
     complete |-> copy.complete]

ReportOf(p) == [tasks |-> [t \in DOMAIN probe[p].copies |->
                              TaskReport(probe[p].copies[t], t, probe[p].results)],
                start |-> probe[p].start]

Probed(p) == probe[p].pc = "probing" /\ probe[p].ask = {} /\ probe[p].confirm = {}

SaveWatermark(p) ==
    /\ Probed(p)
    /\ watermark' = NextWatermark(p)
    /\ probe' = [probe EXCEPT ![p].pc = "reporting"]
    /\ UNCHANGED <<world, cache, report, faults>>

SaveReport(p) ==
    /\ probe[p].pc = "reporting"
    /\ report' = ReportOf(p)
    /\ probe' = [probe EXCEPT ![p] = Idle]
    /\ UNCHANGED <<world, cache, watermark, faults>>

\* The process dies, or a watermark or a report that cannot be written ends the
\* run; either way the files keep what was renamed over them before.
Stop(p) ==
    /\ probe[p].pc \notin {"idle", "listing", "comments"} /\ Fault
    /\ Move(p, Idle)

----------------------------------------------------------------------------

Step(p) ==
    \/ ListTask(p) \/ FetchComments(p) \/ FetchCommentsFails(p) \/ FetchFails(p)
    \/ LoadWatermark(p) \/ LoadWatermarkCorrupt(p)
    \/ SaveTask(p) \/ SaveTaskFails(p)
    \/ \E left \in SUBSET Tasks : PruneTasksExcept(p, left)
    \/ ProbeOne(p) \/ SlackHistory(p) \/ ConfirmThread(p)
    \/ ProbeOneFails(p) \/ ProberFails(p) \/ Deadline(p)
    \/ SaveWatermark(p) \/ SaveReport(p) \/ Stop(p)

Next == Environment \/ \E p \in Probes : FetchTasks(p) \/ Step(p)

Spec == Init /\ [][Next]_vars

----------------------------------------------------------------------------
(* Properties                                                              *)

\* The links of task t in the report, none when the report does not have it.
Reported(t) == IF t \in DOMAIN report.tasks THEN report.tasks[t].links ELSE <<>>

Says(t, k, v) == k \in DOMAIN Reported(t) /\ Reported(t)[k] = v

\* The newest thing written on task t in Todoist now.
Logged(t) == Baseline(updated[t], comments[t])

\* The watermark of a record is never ahead of its activity, whatever runs, fails
\* or dies beside it: a link that was not checked is never recorded as seen.
WatermarkSound == \A k \in Keys : watermark[k] <= last[k]

\* The report does not call link k of task t fresh when, as the run began, it had
\* activity in a later second than what is logged on the task.
NoFalseFresh(t, k) == Says(t, k, "fresh") => Seconds(report.start.last[k]) <= Logged(t)

\* No false negative, for every task whose comments could be fetched (Todoist's Probe
\* tolerates that they could not, and then UpdatedAt is the baseline) and every thread
\* without replies sent to the channel (the exception that follows).
FreshIsTrue ==
    \A t \in DOMAIN report.tasks : report.tasks[t].complete =>
        \A k \in Keys \ Broadcasts : NoFalseFresh(t, k)

\* slack.go: "Every other case (advanced, first sight, or scrolled out of the window)
\* must be confirmed against replies, so an old thread never reads as a silent no-change."
OldThreadsConfirmed ==
    \A t \in DOMAIN report.tasks : report.tasks[t].complete =>
        \A k \in Slack : NoFalseFresh(t, k)

\* A link the report calls moved has activity newer than all that was logged on the
\* task when its run began: what was already answered is not flagged again.
MovedWasNews ==
    \A t \in DOMAIN report.tasks \cap DOMAIN report.start.base :
        report.tasks[t].complete =>
            \A k \in DOMAIN Reported(t) :
                Says(t, k, "moved") => last[k] > report.start.base[t]

\* A task that was open when the run began is in its report, unless it was closed meanwhile,
\* although the list came page by page; and every link it had then has a verdict there, also
\* when its call, its prober or the deadline failed it.
ReportIsComplete ==
    \A t \in DOMAIN report.start.links :
        /\ t \in DOMAIN report.tasks \/ t \notin open
        /\ t \in DOMAIN report.tasks /\ report.tasks[t].complete =>
               report.start.links[t] \subseteq DOMAIN Reported(t)

\* A probe that runs alone never takes an open task out of the cache.
OpenStaysCached == [][cache \ cache' \subseteq Tasks \ open]_vars

\* Activity on a linked record that nobody has logged is eventually reported, as
\* moved or as unchecked, although runs fail and die between their writes.
NewsGetsReported ==
    \A t \in Tasks, k \in Keys \ Broadcasts :
        LET News == t \in open /\ k \in Extract(t, comments[t]) /\ last[k] > Logged(t)
        IN  News ~> (~News \/ Says(t, k, "moved") \/ Says(t, k, "unchecked"))

\* A closed task leaves the cache.
ClosedLeavesCache == \A t \in Tasks : t \notin open ~> (t \notin cache \/ t \in open)

=============================================================================

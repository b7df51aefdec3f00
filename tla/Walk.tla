-------------------------------- MODULE Walk --------------------------------
(***************************************************************************)
(* `ballpoint`, the triage walk: a launch that finds a scope and its cards *)
(* in the cache, refreshing a cold cache on the way, and the modal key     *)
(* handling of the TUI over them: moving, running macro scripts behind a   *)
(* prompt and a confirmation, queueing drafts, saving the place to resume. *)
(*                                                                         *)
(* Around it the timer's probe rewrites the cache and the report, the      *)
(* dispatcher records assessments, a script, a save or an append may fail, *)
(* and the process may die at any key.  One walk runs at a time.           *)
(***************************************************************************)
EXTENDS Naturals, Sequences, FiniteSets

LOCAL INSTANCE SequencesExt

CONSTANTS Tasks,       \* task ids, in the order of their cache files
          Scopes,
          InScope,     \* the tasks a scope selects
          TaskScopes,  \* the scopes of --task
          None,
          MaxNow, MaxSummaries  \* bounds: appends and launches, assessments

ASSUME WalkAssumption ==
    /\ Tasks \subseteq Nat /\ InScope \in [Scopes -> SUBSET Tasks]
    /\ TaskScopes \subseteq Scopes /\ None \notin Scopes \cup Nat
    /\ MaxNow \in Nat /\ MaxSummaries \in Nat

VARIABLES
    \* the disk
    cache,      \* the cached tasks
    moved,      \* the tasks with a moved link in the report
    summary,    \* per task, the assessment in its status file, 0 for none
    session,    \* session.json: a scope and a task, or NoSession
    lines,      \* every line ever appended to the queue: its id, and when it was written
    \* the process
    pc,         \* "off", a step of runWalk, or "walk"
    flags,      \* --refresh, and the scope flag or None
    scope,
    corpus,     \* the tasks LoadAllTasks returned
    m,          \* the Model of the TUI
    now,        \* the clock
    \* observations
    refreshes,  \* successful refreshes of this launch
    exit,       \* why the last launch ended without a walk
    place       \* scope and task of the last save, None when it failed

world == <<cache, moved, summary>>
launch == <<flags, scope, corpus, refreshes, exit>>
vars == <<world, session, lines, pc, launch, m, now, place>>

Internal   == {"log", "defer"}    \* without and with a positional argument
Completion == {"done", "merge"}   \* likewise
Verbs      == Internal \cup Completion \cup {"draft"}
Operands   == {"defer", "merge"}
\* Typed text: empty, some, some with a token that starts with a dash, and a channel with
\* a recipient and a message.
Texts      == {"", "plain", "-dash", "message"}

Nothing == [what |-> "nothing"]

\* The Model over cards c at card i: its mode, the pending verb and text, the number of
\* appends, when it was opened; and, observed, the last verb key with its card, and what
\* the last key did.
NewModel(c, i, t) == [cards |-> c, cursor |-> i, mode |-> "verb", verb |-> None, text |-> "",
                      seq |-> 0, opened |-> t, pressed |-> Nothing, did |-> Nothing]
Closed == NewModel(<<>>, 0, 0)
NoFlags == [refresh |-> FALSE, scope |-> None]
NoSession == [scope |-> None, cursor |-> None]
Current == m.cards[m.cursor].task

Init ==
    /\ cache \in SUBSET Tasks /\ moved \in SUBSET cache
    /\ summary = [t \in Tasks |-> 0] /\ session = NoSession /\ lines = {}
    /\ pc = "off" /\ flags = NoFlags /\ scope = None
    /\ corpus = {} /\ refreshes = 0 /\ exit = "none"
    /\ m = Closed /\ now = 0 /\ place = None

----------------------------------------------------------------------------
(* runWalk: a scope and a corpus                                           *)

Launching == UNCHANGED <<summary, session, lines, m, place>>

\* A scope flag skips the picker.
AfterFlags(s) == IF s = None THEN "pick" ELSE "resolve"

Start(f) ==
    /\ pc = "off" /\ now < MaxNow /\ now' = now + 1
    /\ flags' = f /\ scope' = f.scope
    /\ pc' = IF f.refresh THEN "refresh" ELSE AfterFlags(f.scope)
    /\ refreshes' = 0 /\ exit' = "none"
    /\ UNCHANGED <<cache, moved, corpus>> /\ Launching

GiveUp(why) ==
    /\ pc' = "off" /\ exit' = why /\ flags' = NoFlags /\ corpus' = {}
    /\ UNCHANGED <<cache, moved, scope, refreshes, now>> /\ Launching

\* What a probe leaves: the tasks open in Todoist by then, and a report on them.
Probed == \E c \in SUBSET Tasks : \E b \in SUBSET c : cache' = c /\ moved' = b

\* refreshCache: `ballpoint probe` in a process of its own.
RefreshCache(from, to) ==
    /\ pc = from
    /\ \/ GiveUp("refresh_failed")
       \/ /\ Probed /\ pc' = to /\ refreshes' = refreshes + 1
          /\ UNCHANGED <<flags, scope, corpus, exit, now>> /\ Launching

Refresh ==
    \/ RefreshCache("refresh", AfterFlags(flags.scope))
    \/ RefreshCache("refresh_to_pick", "pick_again")
    \/ RefreshCache("refresh_to_resolve", "resolve_again")

\* The picker offers the scopes of cached tasks; an empty cache is refreshed first.
PickScope(s) ==
    /\ pc \in {"pick", "pick_again"} /\ cache # {}
    /\ s \in Scopes \ TaskScopes /\ InScope[s] \cap cache # {}
    /\ pc' = "resolve" /\ scope' = s
    /\ UNCHANGED <<cache, moved, flags, corpus, refreshes, exit, now>> /\ Launching

PickCold ==
    \/ /\ pc = "pick" /\ cache = {} /\ pc' = "refresh_to_pick"
       /\ UNCHANGED <<cache, moved, launch, now>> /\ Launching
    \/ /\ pc = "pick_again" /\ cache = {} /\ GiveUp("empty")

\* The operator leaves the picker, or a file of the cache cannot be read.
Abandon ==
    /\ pc \in {"pick", "pick_again", "resolve", "resolve_again", "build"}
    /\ GiveUp("abandoned")

\* ResolveWalk reads the cached tasks ...
LoadTasks ==
    /\ pc \in {"resolve", "resolve_again"} /\ InScope[scope] \cap cache # {}
    /\ corpus' = cache /\ pc' = "build"
    /\ UNCHANGED <<cache, moved, flags, scope, refreshes, exit, now>> /\ Launching

\* Mutant: only an empty cache is refreshed.
RetryEmpty == cache = {}

\* An empty cache, or a single task that is not cached yet.
Retry == cache = {} \/ scope \in TaskScopes

\* ... and finds none in scope: one more refresh where that can help.
NoneInScope ==
    /\ pc \in {"resolve", "resolve_again"} /\ InScope[scope] \cap cache = {}
    /\ \/ /\ pc = "resolve" /\ ~flags.refresh /\ Retry
          /\ pc' = "refresh_to_resolve"
          /\ UNCHANGED <<cache, moved, launch, now>> /\ Launching
       \/ /\ pc = "resolve_again" \/ flags.refresh \/ ~Retry
          /\ GiveUp(IF cache = {} THEN "empty" ELSE "scope_empty")

Sorted(S) == SetToSortSeq(S, <)

\* The place of the saved task when the session is of this scope and has it, else the first.
ResolveCursor(order, s) ==
    IF s.scope # scope \/ ~ \E i \in DOMAIN order : order[i] = s.cursor
    THEN 1 ELSE CHOOSE i \in DOMAIN order : order[i] = s.cursor

\* The report and the statuses are read after the tasks; moved cards come first.
Open ==
    /\ pc = "build" /\ pc' = "walk"
    /\ LET S == InScope[scope] \cap corpus
           order == Sorted(S \cap moved) \o Sorted(S \ moved)
       IN  m' = NewModel([i \in DOMAIN order |-> [task |-> order[i], summary |-> summary[order[i]]]],
                         ResolveCursor(order, session), now)
    /\ flags' = NoFlags /\ corpus' = {} /\ refreshes' = 0
    /\ UNCHANGED <<world, session, lines, scope, exit, now, place>>

----------------------------------------------------------------------------
(* Keys in the mode of verbs                                               *)

InMode(mode) == pc = "walk" /\ m.mode = mode

\* Mutant: the session is saved before the cursor moves.
SaveSessionBefore(to) ==
    /\ session' = [scope |-> scope, cursor |-> Current]
    /\ place' = [scope |-> scope, task |-> m.cards[to].task]

\* saveSession, whose error is dropped.
SaveSession(to) ==
    \/ /\ session' = [scope |-> scope, cursor |-> m.cards[to].task]
       /\ place' = [scope |-> scope, task |-> m.cards[to].task]
    \/ UNCHANGED session /\ place' = None

\* The Model in the mode of verbs, nothing asked and nothing done.
AtVerbs == [m EXCEPT !.mode = "verb", !.verb = None, !.text = "",
                     !.pressed = Nothing, !.did = Nothing]

\* next, skip and back, which stay in place at either end.
Move(to) ==
    /\ InMode("verb") /\ to \in DOMAIN m.cards
    /\ to \in {m.cursor - 1, m.cursor + 1} \/ (to = m.cursor /\ to \in {1, Len(m.cards)})
    /\ m' = [AtVerbs EXCEPT !.cursor = to]
    /\ SaveSession(to)
    /\ UNCHANGED <<world, lines, pc, launch, now>>

\* The process is gone.
Ended ==
    /\ pc' = "off" /\ m' = Closed /\ flags' = NoFlags /\ scope' = None /\ corpus' = {}
    /\ refreshes' = 0 /\ exit' = "none"
    /\ UNCHANGED <<world, lines, now>>

Quit == InMode("verb") /\ SaveSession(m.cursor) /\ Ended

\* Ctrl-C quits without saving, and is only a key to the other modes.
CtrlC == InMode("verb") /\ Ended /\ UNCHANGED <<session, place>>

\* Any key leaves the help.
Help ==
    /\ \/ InMode("verb") /\ m' = [AtVerbs EXCEPT !.mode = "help"]
       \/ InMode("help") /\ m' = AtVerbs
    /\ UNCHANGED <<world, session, lines, pc, launch, now, place>>

PressVerb(v) ==
    /\ InMode("verb")
    /\ m' = [AtVerbs EXCEPT !.mode = "prompt", !.verb = v,
                             !.pressed = [verb |-> v, task |-> Current]]
    /\ UNCHANGED <<world, session, lines, pc, launch, now, place>>

----------------------------------------------------------------------------
(* The prompt and the confirmation                                         *)

\* Back to the verbs, nothing done.
Refused == m' = AtVerbs /\ UNCHANGED <<lines, now>>

\* A dash would reach the script as an option.
FlagLike(v, x) == v \in Operands /\ x = "-dash"

\* reloadCurrent builds the card anew when its task is still cached.
ReloadCurrent ==
    IF Current \in cache THEN [m.cards EXCEPT ![m.cursor].summary = 0] ELSE m.cards

\* runInternal: the macro script runs and may fail.
RunInternal(v, x, key) ==
    IF FlagLike(v, x) THEN Refused
    ELSE /\ \E c \in {ReloadCurrent, m.cards} :
               m' = [AtVerbs EXCEPT
                       !.cards = c, !.pressed = m.pressed,
                       !.did = [what |-> "script", verb |-> v, text |-> x, key |-> key,
                                task |-> Current]]
         /\ UNCHANGED <<lines, now>>

\* Mutant: the id carries the time the walk was opened.
NewIDFrozen == <<Current, m.opened, m.seq>>

\* The time of the append, and the number of appends that succeeded before.
NewID == <<Current, now, m.seq>>

\* queueOutward; an append that fails may have left its line.
QueueOutward ==
    /\ now < MaxNow /\ now' = now + 1
    /\ \E ok, written \in BOOLEAN :
          /\ ok => written
          /\ lines' = IF written THEN lines \cup {[id |-> NewID, at |-> now]} ELSE lines
          /\ m' = [AtVerbs EXCEPT
                     !.seq = IF ok THEN @ + 1 ELSE @, !.pressed = m.pressed,
                     !.did = [what |-> "queued", verb |-> "draft", task |-> Current]]

\* A draft needs a channel, a recipient and a message.
SubmitDraft(x) == IF x = "message" THEN QueueOutward ELSE Refused

\* Mutant: a completion runs without being confirmed.
SubmitArgUngated(v, x) ==
    \/ x = "" /\ Refused
    \/ x # "" /\ v = "draft" /\ SubmitDraft(x)
    \/ x # "" /\ v # "draft" /\ RunInternal(v, x, "enter")

\* A completion asks once more.
SubmitArg(v, x) ==
    \/ x = "" /\ Refused
    \/ x # "" /\ v = "draft" /\ SubmitDraft(x)
    \/ /\ x # "" /\ v \in Completion
       /\ m' = [m EXCEPT !.mode = "confirm", !.text = x] /\ UNCHANGED <<lines, now>>
    \/ x # "" /\ v \in Internal /\ RunInternal(v, x, "enter")

PromptEnter(x) ==
    /\ InMode("prompt") /\ SubmitArg(m.verb, x)
    /\ UNCHANGED <<world, session, pc, launch, place>>

ConfirmYes ==
    /\ InMode("confirm") /\ RunInternal(m.verb, m.text, "y")
    /\ UNCHANGED <<world, session, pc, launch, place>>

\* Esc in either, or n.
Cancel ==
    /\ InMode("prompt") \/ InMode("confirm")
    /\ Refused
    /\ UNCHANGED <<world, session, pc, launch, place>>

----------------------------------------------------------------------------

Process == <<session, lines, pc, launch, m, now, place>>

\* The timer's probe, and the dispatcher.
TimerProbe == Probed /\ UNCHANGED <<summary, Process>>
Dispatch(t) ==
    /\ summary[t] < MaxSummaries /\ summary' = [summary EXCEPT ![t] = @ + 1]
    /\ UNCHANGED <<cache, moved, Process>>

\* The process is killed, or its terminal is closed.
Die == pc # "off" /\ Ended /\ UNCHANGED <<session, place>>

Flags == [refresh : BOOLEAN, scope : Scopes \cup {None}]

Keys ==
    \/ \E to \in 1 .. Cardinality(Tasks) : Move(to)
    \/ Quit \/ CtrlC \/ Help
    \/ \E v \in Verbs : PressVerb(v)
    \/ \E x \in Texts : PromptEnter(x)
    \/ ConfirmYes \/ Cancel

Next ==
    \/ \E f \in Flags : Start(f)
    \/ Refresh \/ (\E s \in Scopes : PickScope(s)) \/ PickCold \/ Abandon
    \/ LoadTasks \/ NoneInScope \/ Open \/ Keys \/ Die
    \/ TimerProbe \/ \E t \in Tasks : Dispatch(t)

Spec == Init /\ [][Next]_vars

----------------------------------------------------------------------------
(* Properties                                                              *)

\* Whatever is run or queued is the verb of the last verb key, on the card it was
\* pressed on; a draft runs no script, no operand of a script starts with a dash, and
\* a completion runs only on the y of its own confirmation (model.go:212-290).
NothingUnasked ==
    LET did == m.did IN
    did.what # "nothing" =>
        /\ did.task = m.pressed.task /\ did.verb = m.pressed.verb
        /\ did.what = "queued" <=> did.verb = "draft"
        /\ did.what = "script" =>
              /\ did.text # "" /\ ~ (did.verb \in Operands /\ did.text = "-dash")
              /\ did.verb \in Completion => did.key = "y"

\* No two lines of the queue share an id, also when an append that was reported as
\* failed left its line, in one session or across sessions: the dispatcher drains by
\* id (model.go:312-328, queue.go:116-141).
EntryIDsUnique == \A a, b \in lines : a.id = b.id => a = b

\* A launch finds no tasks, or not the single task it was asked for, only after a
\* refresh of its own, and it refreshes at most twice (walk.go:75-107).
NoDeadEnd ==
    /\ exit = "empty" => refreshes > 0
    /\ exit = "scope_empty" /\ scope \in TaskScopes => refreshes > 0
    /\ refreshes <= 2

\* A walk resumes on the card its scope was last left on when that is still in it,
\* wherever the sorting has put it, unless the save failed (run.go:112-121).
ResumesWhereLeft ==
    [][LET Resumed == pc = "build" /\ pc' = "walk" /\ place # None
       IN  Resumed => \/ place.scope # scope
                      \/ \A i \in DOMAIN m'.cards : m'.cards[i].task # place.task
                      \/ m'.cards[m'.cursor].task = place.task]_vars

\* README: the dispatcher "records each summary locally, which the walk then shows on
\* that task's card": a card that shows one shows it while the walk is open.
AssessmentStays ==
    [][pc = "walk" /\ pc' = "walk" =>
         \A i \in DOMAIN m.cards : m.cards[i].summary # 0 => m'.cards[i].summary # 0]_vars

=============================================================================

------------------------------ MODULE WalkProofs ------------------------------
(* Theorems of Walk for any tasks, scopes and bounds.                          *)
EXTENDS Walk, TLAPS

(* The fields of the Model.                                                    *)
ModelFields == {"cards", "cursor", "mode", "verb", "text", "seq", "opened", "pressed", "did"}
IsModel(x) == DOMAIN x = ModelFields /\ x = [f \in ModelFields |-> x[f]]

(* Outside the mode of verbs nothing is done, and what is asked for is the     *)
(* last verb key on the current card; a confirmation is of a completion whose  *)
(* operand is there.                                                           *)
Pending(v, t) == [verb |-> v, task |-> t]
AskInv ==
  /\ IsModel(m)
  /\ m.mode # "verb" => m.did = Nothing
  /\ m.mode \in {"prompt", "confirm"} =>
       m.verb \in Verbs /\ m.pressed = Pending(m.verb, Current)
  /\ m.mode = "confirm" => m.verb \in Completion /\ m.text # ""
  /\ NothingUnasked

(* Every line bears the time of its append, and no two the same.               *)
Stamp(l) == l.id[2] = l.at /\ l.at \in Nat
LineInv ==
  /\ now \in Nat
  /\ \A l \in lines : Stamp(l) /\ l.at < now
  /\ \A a, b \in lines : a.at = b.at => a = b

(* What a launch has refreshed when it is at each of its steps.                *)
Refreshed(with, without) == refreshes = IF flags.refresh THEN with ELSE without
LaunchInv ==
  /\ refreshes \in {0, 1, 2}
  /\ pc # "off" => exit = "none"
  /\ pc = "refresh" => refreshes = 0 /\ flags.refresh
  /\ pc \in {"pick", "refresh_to_pick"} => Refreshed(1, 0)
  /\ pc = "pick_again" => Refreshed(2, 1)
  /\ pc = "resolve" => Refreshed(1, 0) \/ Refreshed(2, 1)
  /\ pc = "refresh_to_resolve" => ~flags.refresh /\ refreshes # 2
  /\ pc = "resolve_again" => refreshes # 0
  /\ exit = "empty" => refreshes # 0
  /\ exit = "scope_empty" /\ scope \in TaskScopes => refreshes # 0

(* The session is the place of the last save.                                  *)
PlaceInv == place # None => session = [scope |-> place.scope, cursor |-> place.task]

-------------------------------------------------------------------------------
(* A launch                                                                    *)

LEMMA LaunchInit == Init => LaunchInv
BY DEF Init, LaunchInv

LEMMA LaunchStep == LaunchInv /\ [Next]_vars => LaunchInv'
<1> SUFFICES ASSUME LaunchInv, [Next]_vars PROVE LaunchInv'
  OBVIOUS
<1> USE DEF LaunchInv, Refreshed, launch
<1>1. ASSUME NEW f \in Flags, Start(f) PROVE LaunchInv'
  BY <1>1 DEF Start, AfterFlags
<1>2. ASSUME Refresh PROVE LaunchInv'
  <2>1. ASSUME NEW from, NEW to, RefreshCache(from, to), GiveUp("refresh_failed") PROVE LaunchInv'
    BY <2>1 DEF GiveUp, NoFlags
  <2>2. CASE pc = "refresh" /\ pc' = AfterFlags(flags.scope) /\ refreshes' = refreshes + 1
             /\ UNCHANGED <<flags, scope, exit>>
    BY <2>2 DEF AfterFlags
  <2>3. CASE pc = "refresh_to_pick" /\ pc' = "pick_again" /\ refreshes' = refreshes + 1
             /\ UNCHANGED <<flags, scope, exit>>
    BY <2>3
  <2>4. CASE pc = "refresh_to_resolve" /\ pc' = "resolve_again" /\ refreshes' = refreshes + 1
             /\ UNCHANGED <<flags, scope, exit>>
    <3>1. refreshes' \in {1, 2}
      BY <2>4
    <3> QED BY <2>4, <3>1
  <2> QED BY <1>2, <2>1, <2>2, <2>3, <2>4 DEF Refresh, RefreshCache
<1>3. ASSUME NEW s \in Scopes, PickScope(s) PROVE LaunchInv'
  BY <1>3 DEF PickScope
<1>4. ASSUME PickCold PROVE LaunchInv'
  <2>1. CASE pc = "pick" /\ pc' = "refresh_to_pick" /\ UNCHANGED launch
    BY <2>1
  <2>2. CASE pc = "pick_again" /\ GiveUp("empty")
    <3>1. refreshes # 0
      BY <2>2
    <3> QED BY <2>2, <3>1 DEF GiveUp, NoFlags
  <2> QED BY <1>4, <2>1, <2>2 DEF PickCold
<1>5. ASSUME Abandon PROVE LaunchInv'
  BY <1>5 DEF Abandon, GiveUp, NoFlags
<1>6. ASSUME LoadTasks PROVE LaunchInv'
  BY <1>6 DEF LoadTasks
<1>7. ASSUME NoneInScope PROVE LaunchInv'
  <2>1. CASE pc = "resolve" /\ ~flags.refresh /\ pc' = "refresh_to_resolve" /\ UNCHANGED launch
    BY <2>1
  <2>2. CASE /\ pc = "resolve_again" \/ (pc = "resolve" /\ (flags.refresh \/ ~Retry))
             /\ GiveUp(IF cache = {} THEN "empty" ELSE "scope_empty")
    <3>1. refreshes # 0 \/ (cache # {} /\ scope \notin TaskScopes)
      BY <2>2 DEF Retry
    <3>2. /\ pc' = "off" /\ UNCHANGED <<scope, refreshes>>
          /\ exit' = IF cache = {} THEN "empty" ELSE "scope_empty"
      BY <2>2 DEF GiveUp
    <3> QED BY <3>1, <3>2
  <2> QED BY <1>7, <2>1, <2>2 DEF NoneInScope
<1>8. ASSUME Open PROVE LaunchInv'
  BY <1>8 DEF Open, NoFlags
<1>9. ASSUME UNCHANGED <<pc, launch>> PROVE LaunchInv'
  BY <1>9
<1>10. ASSUME Ended PROVE LaunchInv'
  BY <1>10 DEF Ended, NoFlags
<1>11. ASSUME Keys PROVE LaunchInv'
  BY <1>9, <1>10, <1>11
  DEF Keys, Move, Quit, CtrlC, Help, PressVerb, PromptEnter, ConfirmYes, Cancel
<1>12. CASE UNCHANGED vars
  BY <1>9, <1>12 DEF vars
<1> QED
  BY <1>1, <1>2, <1>3, <1>4, <1>5, <1>6, <1>7, <1>8, <1>9, <1>10, <1>11, <1>12
  DEF Next, Die, TimerProbe, Dispatch, Process

-------------------------------------------------------------------------------
(* The queue                                                                   *)

LEMMA LineInit == Init => LineInv
BY DEF Init, LineInv

LEMMA LineStep == LineInv /\ [Next]_vars => LineInv'
<1> SUFFICES ASSUME LineInv, [Next]_vars PROVE LineInv'
  OBVIOUS
<1>1. ASSUME UNCHANGED <<lines, now>> PROVE LineInv'
  BY <1>1 DEF LineInv, Stamp
<1>2. ASSUME lines' = lines, now' = now + 1 PROVE LineInv'
  BY <1>2 DEF LineInv, Stamp
<1>3. ASSUME QueueOutward PROVE LineInv'
  <2>1. PICK l : l = [id |-> NewID, at |-> now]
    OBVIOUS
  <2>2. l.at = now /\ Stamp(l)
    BY <2>1 DEF NewID, Stamp, LineInv
  <2>3. now' = now + 1 /\ (lines' = lines \/ lines' = lines \cup {l})
    BY <1>3, <2>1 DEF QueueOutward
  <2> QED BY <1>2, <2>2, <2>3 DEF LineInv, Stamp
<1>4. ASSUME NEW v, NEW x, NEW key, RunInternal(v, x, key) PROVE LineInv'
  BY <1>1, <1>4 DEF RunInternal, Refused
<1>5. ASSUME NEW v, NEW x, SubmitArg(v, x) PROVE LineInv'
  BY <1>1, <1>3, <1>4, <1>5 DEF SubmitArg, SubmitDraft, Refused
<1>6. ASSUME Keys PROVE LineInv'
  BY <1>1, <1>4, <1>5, <1>6
  DEF Keys, Move, Quit, CtrlC, Ended, Help, PressVerb, PromptEnter, ConfirmYes, Cancel, Refused
<1>7. ASSUME Refresh \/ PickCold \/ Abandon \/ LoadTasks \/ NoneInScope \/ Open \/ Die
      PROVE  LineInv'
  BY <1>1, <1>7
  DEF Refresh, RefreshCache, PickCold, Abandon, LoadTasks, NoneInScope, Open, Die, Ended,
      GiveUp, Launching
<1>8. ASSUME NEW f, Start(f) PROVE LineInv'
  BY <1>2, <1>8 DEF Start, Launching
<1>9. ASSUME NEW s, PickScope(s) PROVE LineInv'
  BY <1>1, <1>9 DEF PickScope, Launching
<1>10. CASE UNCHANGED vars
  BY <1>1, <1>10 DEF vars
<1> QED
  BY <1>1, <1>6, <1>7, <1>8, <1>9, <1>10 DEF Next, TimerProbe, Dispatch, Process

-------------------------------------------------------------------------------
(* The keys                                                                    *)

LEMMA AskInit == Init => AskInv
<1> SUFFICES ASSUME Init PROVE AskInv
  OBVIOUS
<1>1. m = Closed
  BY DEF Init
<1>2. IsModel(m) /\ m.mode = "verb" /\ m.did = Nothing
  BY <1>1 DEF IsModel, ModelFields, Closed, NewModel
<1>3. Nothing.what = "nothing"
  BY DEF Nothing
<1> QED BY <1>2, <1>3 DEF AskInv, NothingUnasked

(* A Model in the mode of verbs, or of help, at which nothing was done.        *)
LEMMA RestIsFine ==
  ASSUME IsModel(m'), m'.mode \in {"verb", "help"}, m'.did = Nothing
  PROVE  AskInv'
<1>1. Nothing.what = "nothing"
  BY DEF Nothing
<1> QED BY <1>1 DEF AskInv, NothingUnasked

LEMMA AtVerbsRests ==
  ASSUME AskInv, NEW x, x = AtVerbs
  PROVE  /\ IsModel(x) /\ x.mode = "verb" /\ x.did = Nothing
         /\ x.cards = m.cards /\ x.cursor = m.cursor
BY DEF AtVerbs, AskInv, IsModel, ModelFields

LEMMA PendingFields == \A v, t : Pending(v, t).verb = v /\ Pending(v, t).task = t
BY DEF Pending

(* A script is run for what was asked for, with an operand that is no option.  *)
LEMMA ScriptIsFine ==
  ASSUME AskInv, m.mode \in {"prompt", "confirm"}, NEW x, x # "", m.verb # "draft",
         NEW key, m.verb \in Completion => key = "y", RunInternal(m.verb, x, key)
  PROVE  AskInv'
<1>1. CASE FlagLike(m.verb, x)
  <2>1. m' = AtVerbs
    BY <1>1 DEF RunInternal, Refused
  <2> QED BY <2>1, AtVerbsRests, RestIsFine
<1>2. CASE ~FlagLike(m.verb, x)
  <2>1. PICK c, d : /\ d = [what |-> "script", verb |-> m.verb, text |-> x, key |-> key, task |-> Current]
                    /\ m' = [AtVerbs EXCEPT !.cards = c, !.pressed = m.pressed, !.did = d]
    BY <1>2 DEF RunInternal
  <2>2. IsModel(m') /\ m'.mode = "verb" /\ m'.pressed = m.pressed /\ m'.did = d
    BY <2>1, AtVerbsRests DEF IsModel, ModelFields
  <2>3. /\ d.what = "script" /\ d.verb = m.verb /\ d.text = x /\ d.key = key /\ d.task = Current
        /\ m.pressed.verb = m.verb /\ m.pressed.task = Current
    <3>1. m.pressed = Pending(m.verb, Current)
      BY DEF AskInv
    <3>2. m.pressed.verb = m.verb /\ m.pressed.task = Current
      BY ONLY <3>1, PendingFields
    <3>3. d.what = "script" /\ d.verb = m.verb /\ d.text = x /\ d.key = key /\ d.task = Current
      BY <2>1
    <3> QED BY <3>2, <3>3
  <2>4. NothingUnasked'
    BY <1>2, <2>2, <2>3 DEF NothingUnasked, FlagLike
  <2> QED BY <2>2, <2>4 DEF AskInv
<1> QED BY <1>1, <1>2

LEMMA DraftIsFine ==
  ASSUME AskInv, m.mode = "prompt", m.verb = "draft", QueueOutward
  PROVE  AskInv'
<1>1. PICK n, d : /\ d = [what |-> "queued", verb |-> "draft", task |-> Current]
                  /\ m' = [AtVerbs EXCEPT !.seq = n, !.pressed = m.pressed, !.did = d]
  BY DEF QueueOutward
<1>2. IsModel(m') /\ m'.mode = "verb" /\ m'.pressed = m.pressed /\ m'.did = d
  BY <1>1, AtVerbsRests DEF IsModel, ModelFields
<1>3. /\ d.what = "queued" /\ d.verb = "draft" /\ d.task = Current
      /\ m.pressed.verb = m.verb /\ m.pressed.task = Current
  BY <1>1 DEF AskInv, Pending
<1>4. NothingUnasked'
  BY <1>2, <1>3 DEF NothingUnasked
<1> QED BY <1>2, <1>4 DEF AskInv

LEMMA SubmitIsFine ==
  ASSUME AskInv, m.mode = "prompt", NEW x, SubmitArg(m.verb, x)
  PROVE  AskInv'
<1>1. CASE m' = AtVerbs
  BY <1>1, AtVerbsRests, RestIsFine
<1>2. CASE m.verb = "draft" /\ QueueOutward
  BY <1>2, DraftIsFine
<1>3. CASE x # "" /\ m.verb \in Completion /\ m' = [m EXCEPT !.mode = "confirm", !.text = x]
  <2>1. /\ IsModel(m') /\ m'.mode = "confirm" /\ m'.text = x /\ m'.verb = m.verb
        /\ m'.pressed = m.pressed /\ m'.did = m.did /\ m'.cards = m.cards /\ m'.cursor = m.cursor
    BY <1>3 DEF AskInv, IsModel, ModelFields
  <2>2. NothingUnasked' /\ Current' = Current
    BY <2>1 DEF NothingUnasked, Current, AskInv
  <2> QED BY <1>3, <2>1, <2>2 DEF AskInv
<1>4. CASE x # "" /\ m.verb \in Internal /\ RunInternal(m.verb, x, "enter")
  <2>1. /\ m.mode \in {"prompt", "confirm"} /\ x # "" /\ m.verb # "draft"
        /\ m.verb \in Completion => "enter" = "y"
    BY <1>4 DEF Internal, Completion
  <2> QED BY <1>4, <2>1, ScriptIsFine
<1> QED BY <1>1, <1>2, <1>3, <1>4 DEF SubmitArg, SubmitDraft, Refused

LEMMA AskStep == AskInv /\ [Next]_vars => AskInv'
<1> SUFFICES ASSUME AskInv, [Next]_vars PROVE AskInv'
  OBVIOUS
<1>1. ASSUME UNCHANGED m PROVE AskInv'
  BY <1>1 DEF AskInv, NothingUnasked, Current
<1>2. ASSUME Ended PROVE AskInv'
  <2>1. IsModel(m') /\ m'.mode = "verb" /\ m'.did = Nothing
    BY <1>2 DEF Ended, IsModel, ModelFields, Closed, NewModel
  <2> QED BY <2>1, RestIsFine
<1>3. ASSUME Open PROVE AskInv'
  <2>1. PICK c, i : m' = NewModel(c, i, now)
    BY <1>3 DEF Open
  <2>2. IsModel(m') /\ m'.mode = "verb" /\ m'.did = Nothing
    BY <2>1 DEF IsModel, ModelFields, NewModel
  <2> QED BY <2>2, RestIsFine
<1>4. ASSUME NEW to, Move(to) PROVE AskInv'
  <2>1. m' = [AtVerbs EXCEPT !.cursor = to]
    BY <1>4 DEF Move
  <2>2. IsModel(m') /\ m'.mode = "verb" /\ m'.did = Nothing
    BY <2>1, AtVerbsRests DEF IsModel, ModelFields
  <2> QED BY <2>2, RestIsFine
<1>5. ASSUME Help PROVE AskInv'
  <2>1. m' = AtVerbs \/ m' = [AtVerbs EXCEPT !.mode = "help"]
    BY <1>5 DEF Help
  <2>2. IsModel(m') /\ m'.mode \in {"verb", "help"} /\ m'.did = Nothing
    BY <2>1, AtVerbsRests DEF IsModel, ModelFields
  <2> QED BY <2>2, RestIsFine
<1>6. ASSUME NEW v \in Verbs, PressVerb(v) PROVE AskInv'
  <2>1. PICK p : p = Pending(v, Current) /\ m' = [AtVerbs EXCEPT !.mode = "prompt", !.verb = v, !.pressed = p]
    BY <1>6 DEF PressVerb, Pending
  <2>2. /\ IsModel(m') /\ m'.mode = "prompt" /\ m'.verb = v /\ m'.pressed = p
        /\ m'.did = Nothing /\ m'.cards = m.cards /\ m'.cursor = m.cursor
    BY <2>1, AtVerbsRests DEF IsModel, ModelFields
  <2>3. NothingUnasked' /\ Current' = Current
    BY <2>2 DEF NothingUnasked, Nothing, Current
  <2> QED BY <2>1, <2>2, <2>3 DEF AskInv
<1>7. ASSUME NEW x, PromptEnter(x) PROVE AskInv'
  BY <1>7, SubmitIsFine DEF PromptEnter, InMode
<1>8. ASSUME ConfirmYes PROVE AskInv'
  <2>1. m.verb # "draft" /\ m.text # "" /\ m.mode = "confirm" /\ RunInternal(m.verb, m.text, "y")
    BY <1>8 DEF ConfirmYes, InMode, AskInv, Completion
  <2>2. m.mode \in {"prompt", "confirm"}
    BY <2>1
  <2> QED BY <2>1, <2>2, ScriptIsFine
<1>9. ASSUME Cancel PROVE AskInv'
  BY <1>9, AtVerbsRests, RestIsFine DEF Cancel, Refused
<1>10. ASSUME Keys PROVE AskInv'
  BY <1>2, <1>4, <1>5, <1>6, <1>7, <1>8, <1>9, <1>10 DEF Keys, Quit, CtrlC
<1>11. ASSUME Refresh \/ PickCold \/ Abandon \/ LoadTasks \/ NoneInScope PROVE AskInv'
  BY <1>1, <1>11
  DEF Refresh, RefreshCache, PickCold, Abandon, LoadTasks, NoneInScope, GiveUp, Launching
<1>12. ASSUME NEW f, Start(f) PROVE AskInv'
  BY <1>1, <1>12 DEF Start, Launching
<1>13. ASSUME NEW s, PickScope(s) PROVE AskInv'
  BY <1>1, <1>13 DEF PickScope, Launching
<1>14. CASE UNCHANGED vars
  BY <1>1, <1>14 DEF vars
<1> QED
  BY <1>1, <1>2, <1>3, <1>10, <1>11, <1>12, <1>13, <1>14
  DEF Next, Die, TimerProbe, Dispatch, Process

-------------------------------------------------------------------------------
(* The session                                                                 *)

LEMMA PlaceInit == Init => PlaceInv
BY DEF Init, PlaceInv

LEMMA PlaceStep == PlaceInv /\ [Next]_vars => PlaceInv'
<1> SUFFICES ASSUME PlaceInv, [Next]_vars PROVE PlaceInv'
  OBVIOUS
<1>1. ASSUME UNCHANGED <<session, place>> PROVE PlaceInv'
  BY <1>1 DEF PlaceInv
<1>2. ASSUME NEW to, SaveSession(to) PROVE PlaceInv'
  <2>1. PICK t : t = m.cards[to].task
    OBVIOUS
  <2>2. CASE session' = [scope |-> scope, cursor |-> t] /\ place' = [scope |-> scope, task |-> t]
    BY <2>2 DEF PlaceInv
  <2>3. CASE place' = None
    BY <2>3 DEF PlaceInv
  <2> QED BY <1>2, <2>1, <2>2, <2>3 DEF SaveSession
<1>3. ASSUME Keys PROVE PlaceInv'
  BY <1>1, <1>2, <1>3
  DEF Keys, Move, Quit, CtrlC, Help, PressVerb, PromptEnter, ConfirmYes, Cancel
<1>4. ASSUME Refresh \/ PickCold \/ Abandon \/ LoadTasks \/ NoneInScope \/ Open \/ Die
      PROVE  PlaceInv'
  BY <1>1, <1>4
  DEF Refresh, RefreshCache, PickCold, Abandon, LoadTasks, NoneInScope, Open, Die, GiveUp, Launching
<1>5. ASSUME NEW f, Start(f) PROVE PlaceInv'
  BY <1>1, <1>5 DEF Start, Launching
<1>6. ASSUME NEW s, PickScope(s) PROVE PlaceInv'
  BY <1>1, <1>6 DEF PickScope, Launching
<1>7. CASE UNCHANGED vars
  BY <1>1, <1>7 DEF vars
<1> QED
  BY <1>1, <1>3, <1>4, <1>5, <1>6, <1>7 DEF Next, TimerProbe, Dispatch, Process

(* A walk opens on the saved task when it is among its cards.                  *)
Resumes ==
  place.scope = scope =>
    \A i \in DOMAIN m'.cards :
      m'.cards[i].task = place.task => m'.cards[m'.cursor].task = place.task

LEMMA OpenResumes ==
  ASSUME PlaceInv, Open, place # None
  PROVE  Resumes
<1>1. PICK order, cards :
        /\ cards = [i \in DOMAIN order |-> [task |-> order[i], summary |-> summary[order[i]]]]
        /\ m' = NewModel(cards, ResolveCursor(order, session), now)
  BY DEF Open
<1>2. m'.cards = cards /\ m'.cursor = ResolveCursor(order, session)
  BY <1>1 DEF NewModel
<1>3. DOMAIN cards = DOMAIN order /\ \A i \in DOMAIN order : cards[i].task = order[i]
  BY <1>1
<1>4. session.scope = place.scope /\ session.cursor = place.task
  BY DEF PlaceInv
<1> SUFFICES ASSUME place.scope = scope, NEW i \in DOMAIN m'.cards, m'.cards[i].task = place.task
             PROVE  m'.cards[m'.cursor].task = place.task
  BY DEF Resumes
<1>5. i \in DOMAIN order /\ order[i] = session.cursor
  BY <1>2, <1>3, <1>4
<1>6. /\ ResolveCursor(order, session) \in DOMAIN order
      /\ order[ResolveCursor(order, session)] = session.cursor
  BY <1>4, <1>5 DEF ResolveCursor
<1> QED BY <1>2, <1>3, <1>4, <1>6

LEMMA OnlyOpenOpens ==
  ASSUME [Next]_vars, pc = "build", pc' = "walk"
  PROVE  Open
<1>1. CASE Refresh
  BY <1>1 DEF Refresh, RefreshCache
<1>2. CASE Keys
  BY <1>2 DEF Keys, InMode, Move, Quit, CtrlC, Help, PressVerb, PromptEnter, ConfirmYes, Cancel
<1>3. CASE Abandon
  BY <1>3 DEF Abandon, GiveUp
<1>4. CASE Die
  BY <1>4 DEF Die, Ended
<1>5. CASE PickCold \/ LoadTasks \/ NoneInScope
  BY <1>5 DEF PickCold, LoadTasks, NoneInScope
<1>6. CASE (\E f \in Flags : Start(f)) \/ (\E s \in Scopes : PickScope(s))
  BY <1>6 DEF Start, PickScope
<1>7. CASE TimerProbe \/ (\E t \in Tasks : Dispatch(t)) \/ UNCHANGED vars
  BY <1>7 DEF TimerProbe, Dispatch, Process, vars
<1> QED BY <1>1, <1>2, <1>3, <1>4, <1>5, <1>6, <1>7 DEF Next

-------------------------------------------------------------------------------

(* Whatever is run or queued is the verb of the last verb key, on the card it  *)
(* was pressed on; a completion runs only on the y of its own confirmation, no *)
(* operand starts with a dash (model.go:212-290).                              *)
THEOREM OnlyWhatWasAsked == Spec => []NothingUnasked
<1>1. AskInv => NothingUnasked
  BY DEF AskInv
<1> QED BY <1>1, AskInit, AskStep, PTL DEF Spec

(* No two lines of the queue share an id, in one session or across sessions    *)
(* (model.go:312-328).                                                         *)
THEOREM LinesHaveOwnIDs == Spec => []EntryIDsUnique
<1>1. LineInv => EntryIDsUnique
  BY DEF LineInv, Stamp, EntryIDsUnique
<1> QED BY <1>1, LineInit, LineStep, PTL DEF Spec

(* A launch that finds nothing has refreshed the cache where that could help,  *)
(* and no launch refreshes it more than twice (walk.go:75-107).                *)
THEOREM LaunchesRefresh == Spec => []NoDeadEnd
<1>1. LaunchInv => NoDeadEnd
  BY DEF LaunchInv, NoDeadEnd
<1> QED BY <1>1, LaunchInit, LaunchStep, PTL DEF Spec

(* A walk resumes on the card its scope was last left on when that is still in *)
(* it, wherever the sorting has put it, unless the save failed                 *)
(* (run.go:112-121).                                                           *)
THEOREM WalksResume == Spec => ResumesWhereLeft
<1> DEFINE P == pc = "build" /\ pc' = "walk" /\ place # None =>
                  \/ place.scope # scope
                  \/ \A i \in DOMAIN m'.cards : m'.cards[i].task # place.task
                  \/ m'.cards[m'.cursor].task = place.task
<1>1. PlaceInv /\ [Next]_vars => P
  BY OnlyOpenOpens, OpenResumes DEF Resumes
<1> QED BY <1>1, PlaceInit, PlaceStep, PTL DEF Spec, ResumesWhereLeft
==============================================================================

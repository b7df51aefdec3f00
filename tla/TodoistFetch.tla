---------------------------- MODULE TodoistFetch ----------------------------
(***************************************************************************)
(* The Todoist source: Client.Probe, which drains the lists of tasks,      *)
(* projects and sections one after another and then the comments of every  *)
(* task in a bounded group, through paged requests that are retried when   *)
(* the server asks for it.  `ballpoint probe` prunes every cached task the *)
(* result does not have, so a list must be whole or an error.              *)
(*                                                                         *)
(* Around it items come and go between two pages, the server limits the    *)
(* rate, fails, repeats a cursor or never stops handing them back, and the *)
(* deadline of the probe passes.                                           *)
(***************************************************************************)
EXTENDS Naturals, Sequences, FiniteSets

CONSTANTS Ids,        \* of tasks and of comments, in the order the server lists them
          PageSize,
          MaxPages, MaxRetries,
          Concurrency,
          Stocks,     \* bound: what the server may have at first
          MaxEvents   \* bound: items that come or go

ASSUME FetchAssumption ==
    /\ Ids \subseteq Nat \ {0} /\ IsFiniteSet(Ids)
    /\ PageSize \in Nat \ {0} /\ MaxPages \in Nat \ {0} /\ MaxRetries \in Nat
    /\ Concurrency \in Nat \ {0} /\ MaxEvents \in Nat

\* What is fetched after each list, and the endpoints: a list, or the comments of a task.
After == [tasks |-> "projects", projects |-> "sections", sections |-> "comments"]
ListOf(name) == <<name, 0>>
CommentsOf(t) == <<"comments", t>>
TaskList  == ListOf("tasks")
Endpoints == {ListOf(name) : name \in DOMAIN After} \cup {CommentsOf(t) : t \in Ids}

ASSUME StocksAssumption == Stocks \subseteq [Endpoints -> SUBSET Ids]

VARIABLES
    items,     \* per endpoint, what the server has
    always,    \* per endpoint, what it had at every moment of its fetch
    ever,      \* per endpoint, what it had at some moment of its fetch
    call,      \* per endpoint, its getAll
    stage,     \* the list being fetched, then "comments", then "ok" or "failed"
    spawned,   \* the tasks whose jobs were handed to the group
    expired,   \* the deadline of the probe has passed
    failed,    \* a job returned an error, which cancels the group
    events

vars == <<items, always, ever, call, stage, spawned, expired, failed, events>>

\* A getAll: where it is, its page number and cursor, the attempts of this page, and the
\* items so far.  It waits for the limiter ("page"), for an answer ("sent") or for a retry
\* ("backoff"); "refused" is an error of a server or of the limiter, "aborted" that of a
\* context that is done, or of a task that does not convert.
Pending == {"page", "sent", "backoff"}
Ended   == {"ok", "refused", "aborted"}
NewCall == [state |-> "idle", page |-> 0, cursor |-> 0, attempt |-> 0, buf |-> {}]

Listing == stage \in DOMAIN After
Tasks == call[TaskList].buf
Running == {t \in spawned : call[CommentsOf(t)].state \notin Ended}

Init ==
    /\ items \in Stocks /\ always = items /\ ever = items
    /\ call = [e \in Endpoints |-> IF e = TaskList THEN [NewCall EXCEPT !.state = "page"] ELSE NewCall]
    /\ stage = "tasks" /\ spawned = {} /\ expired = FALSE /\ failed = FALSE /\ events = 0

----------------------------------------------------------------------------
(* get and getAll                                                          *)

Set(e, c) == call' = [call EXCEPT ![e] = c]
Become(e, state) == Set(e, [call[e] EXCEPT !.state = state])
\* A call that is over leaves an error, or the items in out.
Fail(e, how) == Set(e, [NewCall EXCEPT !.state = how])
Drained(all) == [NewCall EXCEPT !.state = "ok", !.buf = all]
Refused == [NewCall EXCEPT !.state = "refused"]

\* The context of the calls is done: that of the probe, or that of the group inside it.
Done == expired \/ (failed /\ ~Listing)

\* The page after a cursor, and what follows it.
Between(e, c, i) == {j \in items[e] : c < j /\ j < i}
Page(e, c) == {i \in items[e] : c < i /\ Cardinality(Between(e, c, i)) < PageSize}
More(e, c) == \E i \in items[e] : i > c /\ i \notin Page(e, c)

\* The cursors a server hands out: its own place, which is the end of the page (or 0 when
\* there is no more), the one it was given, or always a new one.
NextCursors(e, c) ==
    LET page == Page(e, c) IN
    (IF More(e, c) THEN {last \in page : \A i \in page : i <= last} ELSE {0})
        \cup {c + 1} \cup (IF c = 0 THEN {} ELSE {c})

\* What a call has after a page, when it goes on.
Turned(e, next) ==
    [call[e] EXCEPT !.state = "page", !.buf = @ \cup Page(e, call[e].cursor),
                    !.page = @ + 1, !.attempt = 0, !.cursor = next]

\* Mutant: a cursor that does not advance ends the list.
GotPageStopping(e, next) ==
    LET turned == Turned(e, next) IN
    IF next = 0 \/ next = call[e].cursor THEN Drained(turned.buf)
    ELSE IF turned.page >= MaxPages THEN Refused ELSE turned

\* A page is kept; no cursor ends the list, and the same cursor or one page too many is
\* an error.
GotPage(e, next) ==
    LET turned == Turned(e, next) IN
    IF next = 0 THEN Drained(turned.buf)
    ELSE IF next = call[e].cursor \/ turned.page >= MaxPages THEN Refused ELSE turned

\* The limiter lets the request through, or refuses a wait that would pass the deadline.
Send(e) ==
    /\ call[e].state = "page"
    /\ (~Done /\ Become(e, "sent")) \/ Fail(e, "refused")

\* A 429 is waited for until the retries are used up; any other answer, or a body that
\* does not decode, ends the call.
Respond(e) ==
    /\ call[e].state = "sent"
    /\ \/ \E next \in NextCursors(e, call[e].cursor) : Set(e, GotPage(e, next))
       \/ call[e].attempt < MaxRetries /\ Become(e, "backoff")
       \/ Fail(e, "refused")

\* Mutant: the attempts are not counted.
RetryUncounted(e) == call[e].state = "backoff" /\ ~Done /\ Become(e, "sent")

\* A retry does not pass the limiter again.
Retry(e) ==
    /\ call[e].state = "backoff" /\ ~Done
    /\ Set(e, [call[e] EXCEPT !.state = "sent", !.attempt = @ + 1])

\* The limiter, the request or the backoff returns the error of the context.
Abort(e) == call[e].state \in Pending /\ Done /\ Fail(e, "aborted")

Fetching(e) == Send(e) \/ Respond(e) \/ Retry(e) \/ Abort(e)

----------------------------------------------------------------------------
(* Probe                                                                   *)

FetchList ==
    /\ Listing /\ Fetching(ListOf(stage))
    /\ UNCHANGED <<items, always, ever, stage, spawned, expired, failed, events>>

\* From now on e is being fetched.
Begin(e) ==
    /\ Set(e, [NewCall EXCEPT !.state = "page"])
    /\ always' = [always EXCEPT ![e] = items[e]] /\ ever' = [ever EXCEPT ![e] = items[e]]

NextList ==
    /\ Listing /\ call[ListOf(stage)].state = "ok"
    /\ stage' = After[stage]
    /\ IF After[stage] \in DOMAIN After THEN Begin(ListOf(After[stage]))
       ELSE UNCHANGED <<call, always, ever>>
    /\ UNCHANGED <<items, spawned, expired, failed, events>>

\* A list that fails is fatal.
ListFails ==
    /\ Listing /\ call[ListOf(stage)].state \in {"refused", "aborted"}
    /\ stage' = "failed"
    /\ UNCHANGED <<items, always, ever, call, spawned, expired, failed, events>>

\* The next job in the order of the list, as soon as the group has room for it.
Spawn(t) ==
    /\ stage = "comments" /\ t \in Tasks \ spawned /\ \A u \in Tasks \ spawned : t <= u
    /\ Cardinality(Running) < Concurrency
    /\ spawned' = spawned \cup {t}
    /\ Begin(CommentsOf(t))
    /\ UNCHANGED <<items, stage, expired, failed, events>>

\* A timestamp that does not parse fails the job before it asks for anything.
BadTimestamp(t) ==
    /\ stage = "comments" /\ t \in Running
    /\ call[CommentsOf(t)] = [NewCall EXCEPT !.state = "page"]
    /\ Fail(CommentsOf(t), "aborted") /\ failed' = TRUE
    /\ UNCHANGED <<items, always, ever, stage, spawned, expired, events>>

\* Mutant: a failed comment fetch never fails the run.
FatalNever == FALSE

\* A failed comment fetch fails the run only when the deadline of the probe has passed.
Fatal == expired

\* The job returns with its comments, without them, or with the error of the context.
FetchComments(t) ==
    /\ stage = "comments" /\ t \in Running
    /\ LET e == CommentsOf(t) IN
       /\ Fetching(e)
       /\ failed' = (failed \/ (call'[e].state \in {"refused", "aborted"} /\ Fatal))
    /\ UNCHANGED <<items, always, ever, stage, spawned, expired, events>>

\* The group is waited for.
Wait ==
    /\ stage = "comments" /\ spawned = Tasks /\ Running = {}
    /\ stage' = IF failed THEN "failed" ELSE "ok"
    /\ UNCHANGED <<items, always, ever, call, spawned, expired, failed, events>>

Deadline ==
    /\ ~expired /\ expired' = TRUE
    /\ UNCHANGED <<items, always, ever, call, stage, spawned, failed, events>>

----------------------------------------------------------------------------

\* A task is created or closed, a comment is written or deleted.
Change(e, i) ==
    /\ events < MaxEvents /\ events' = events + 1
    /\ LET now == IF i \in items[e] THEN items[e] \ {i} ELSE items[e] \cup {i} IN
       /\ items' = [items EXCEPT ![e] = now]
       /\ IF call[e].state \in Pending
          THEN /\ always' = [always EXCEPT ![e] = @ \cap now]
               /\ ever' = [ever EXCEPT ![e] = @ \cup now]
          ELSE UNCHANGED <<always, ever>>
    /\ UNCHANGED <<call, stage, spawned, expired, failed>>

Work ==
    \/ FetchList \/ NextList \/ ListFails
    \/ \E t \in Ids : Spawn(t) \/ BadTimestamp(t) \/ FetchComments(t)
    \/ Wait

\* The probe returned.
Returned == stage \in {"ok", "failed"} /\ UNCHANGED vars

Next == Work \/ Returned \/ Deadline \/ \E e \in Endpoints, i \in Ids : Change(e, i)

\* A request ends by the timeout of the HTTP client and a backoff is capped, so the work
\* goes on; nothing is asked of the deadline or of the server.
Spec == Init /\ [][Next]_vars /\ WF_vars(Work)

----------------------------------------------------------------------------

\* The bound on the group is kept, and a page number stays under its cap.
TypeOK ==
    /\ \A f \in {items, always, ever} : f \in [Endpoints -> SUBSET Ids]
    /\ \A e \in Endpoints :
          /\ call[e].state \in Pending \cup Ended \cup {"idle"}
          /\ call[e].page \in 0 .. MaxPages /\ call[e].attempt \in 0 .. MaxRetries
          /\ call[e].cursor \in Nat /\ call[e].buf \subseteq Ids
    /\ stage \in DOMAIN After \cup {"comments", "ok", "failed"}
    /\ spawned \subseteq Tasks /\ Cardinality(Running) <= Concurrency
    /\ expired \in BOOLEAN /\ failed \in BOOLEAN /\ events \in 0 .. MaxEvents

\* A getAll that succeeds has every item that was there for the whole of its fetch and
\* none that never was: no page limit, repeated cursor, retry or error part-way makes a
\* shorter list look whole.  A task missing here is pruned from the cache by
\* `ballpoint probe` (getAll, PruneTasksExcept).
ListWhole ==
    \A e \in Endpoints : call[e].state = "ok" => always[e] \subseteq call[e].buf
                                                 /\ call[e].buf \subseteq ever[e]

\* A probe that succeeds drained all three lists, and asked for the comments of every task:
\* one without them lost them to its own request, never to the failure of another task or
\* to the end of a context (Probe: "A cancelled or timed-out context is a real abort").
ResultIsComplete ==
    stage = "ok" =>
       /\ \A name \in DOMAIN After : call[ListOf(name)].state = "ok"
       /\ \A t \in Tasks : call[CommentsOf(t)].state \in {"ok", "refused"}

\* A probe ends, whatever the server answers: it retries a 429 for ever, repeats a cursor,
\* or always hands out a new one (getAll, get).
ProbeEnds == <>(stage \in {"ok", "failed"})
=============================================================================

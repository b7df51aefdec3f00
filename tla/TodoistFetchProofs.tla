------------------------- MODULE TodoistFetchProofs -------------------------
(***************************************************************************)
(* The list of a getAll that succeeds is whole, for every number of items, *)
(* page size, page cap, retry limit and number of jobs, whatever cursors   *)
(* and errors the server answers with and whatever comes and goes meanwhile.*)
(* A probe that succeeds drained every list and asked for all comments.    *)
(***************************************************************************)
EXTENDS TodoistFetch, FiniteSetTheorems, TLAPS

Call == [state : Pending \cup Ended \cup {"idle"}, page : Nat, cursor : Nat,
         attempt : Nat, buf : SUBSET Ids]

Typed ==
    /\ items \in [Endpoints -> SUBSET Ids]
    /\ always \in [Endpoints -> SUBSET Ids]
    /\ ever \in [Endpoints -> SUBSET Ids]
    /\ call \in [Endpoints -> Call]

\* What was there all along is there now; what is there now once was.
Bracketed(e) == always[e] \subseteq items[e] /\ items[e] \subseteq ever[e]

\* A call under way has everything up to its cursor that was there all along.
UpToCursor(e) ==
    /\ call[e].buf \subseteq ever[e]
    /\ \A i \in always[e] : i <= call[e].cursor => i \in call[e].buf

Whole(e) == always[e] \subseteq call[e].buf /\ call[e].buf \subseteq ever[e]

FetchInv(e) ==
    /\ call[e].state \in Pending => Bracketed(e) /\ UpToCursor(e)
    /\ call[e].state = "ok" => Whole(e)

IInv == Typed /\ \A e \in Endpoints : FetchInv(e)

----------------------------------------------------------------------------

\* A page that is the last one has all that follows the cursor.
LEMMA LastPage ==
    ASSUME NEW e \in Endpoints, NEW c \in Nat, ~More(e, c)
    PROVE  \A i \in items[e] : c < i => i \in Page(e, c)
BY DEF More

\* A page reaches from its cursor to any of its items without a hole.
LEMMA PageIsDense ==
    ASSUME Typed, NEW e \in Endpoints, NEW c \in Nat, NEW last \in Page(e, c),
           NEW i \in items[e], c < i, i <= last
    PROVE  i \in Page(e, c)
<1>1. last \in Nat /\ i \in Nat /\ items[e] \subseteq Ids /\ last \in items[e]
  BY FetchAssumption DEF Page, Typed
<1>2. Between(e, c, i) \subseteq Between(e, c, last)
  <2>1. \A j \in items[e] : j \in Nat
    BY <1>1, FetchAssumption
  <2> QED BY <1>1, <2>1 DEF Between
<1>3. IsFiniteSet(Between(e, c, last))
  <2>1. Between(e, c, last) \subseteq Ids
    BY <1>1 DEF Between
  <2> QED BY <2>1, FetchAssumption, FS_Subset
<1>4. /\ Cardinality(Between(e, c, i)) <= Cardinality(Between(e, c, last))
      /\ Cardinality(Between(e, c, i)) \in Nat /\ Cardinality(Between(e, c, last)) \in Nat
  <2>1. IsFiniteSet(Between(e, c, i))
    BY <1>2, <1>3, FS_Subset
  <2> QED BY <1>2, <1>3, <2>1, FS_Subset, FS_CardinalityType
<1>5. Cardinality(Between(e, c, last)) < PageSize
  BY DEF Page
<1> QED BY <1>4, <1>5, FetchAssumption DEF Page

\* The item right after the cursor is on the page.
LEMMA NextIsOnPage ==
    ASSUME Typed, NEW e \in Endpoints, NEW c \in Nat, c + 1 \in items[e]
    PROVE  c + 1 \in Page(e, c)
<1>1. Between(e, c, c + 1) = {}
  <2>1. \A j \in items[e] : j \in Nat
    BY FetchAssumption DEF Typed
  <2> QED BY <2>1 DEF Between
<1>2. Cardinality(Between(e, c, c + 1)) = 0
  BY <1>1, FS_EmptySet
<1> QED BY <1>2, FetchAssumption DEF Page

\* Whatever cursor the server hands out, the page has all the items up to it.
LEMMA NoGap ==
    ASSUME Typed, NEW e \in Endpoints, NEW c \in Nat,
           NEW next \in NextCursors(e, c), next # 0
    PROVE  /\ next \in Nat
           /\ \A i \in items[e] : c < i /\ i <= next => i \in Page(e, c)
<1>0. \A i \in items[e] : i \in Nat
  BY FetchAssumption DEF Typed
<1>1. CASE next \in Page(e, c)
  <2>1. next \in Nat
    BY <1>0, <1>1 DEF Page
  <2> QED BY <1>1, <2>1, PageIsDense
<1>2. CASE next = c + 1
  <2>1. \A i \in items[e] : c < i /\ i <= next => i = c + 1
    BY <1>0, <1>2
  <2> QED BY <1>2, <2>1, NextIsOnPage
<1>3. CASE next = c
  BY <1>0, <1>3
<1>4. next \in Page(e, c) \/ next = c + 1 \/ next = c
  BY DEF NextCursors
<1> QED BY <1>1, <1>2, <1>3, <1>4

\* No cursor means that the page is the last one.
LEMMA NoCursorIsEnd ==
    ASSUME Typed, NEW e \in Endpoints, NEW c \in Nat, 0 \in NextCursors(e, c)
    PROVE  ~More(e, c)
<1>1. \A i \in Page(e, c) : i # 0
  BY FetchAssumption DEF Page, Typed
<1> QED BY <1>1 DEF NextCursors

\* What an answered page adds to the items so far.
LEMMA PageExtends ==
    ASSUME IInv, NEW e \in Endpoints, call[e].state = "sent",
           NEW next \in NextCursors(e, call[e].cursor),
           NEW buf, buf = call[e].buf \cup Page(e, call[e].cursor)
    PROVE  /\ Bracketed(e) /\ buf \subseteq ever[e] /\ buf \subseteq Ids
           /\ next = 0 => always[e] \subseteq buf
           /\ next # 0 => next \in Nat /\ \A i \in always[e] : i <= next => i \in buf
<1>1. call[e].cursor \in Nat /\ Typed /\ items[e] \subseteq Ids /\ ever[e] \subseteq Ids
  BY DEF IInv, Typed, Call
<1>2. Bracketed(e) /\ UpToCursor(e)
  BY DEF IInv, FetchInv, Pending
<1>3. Page(e, call[e].cursor) \subseteq items[e]
  BY DEF Page
<1>4. buf \subseteq ever[e] /\ buf \subseteq Ids
  BY <1>1, <1>2, <1>3 DEF Bracketed, UpToCursor
<1>5. \A i \in always[e] : i \in items[e] /\ i \in Nat
  BY <1>1, <1>2, FetchAssumption DEF Bracketed
<1>6. \A i \in always[e] : i <= call[e].cursor => i \in buf
  BY <1>2 DEF UpToCursor
<1>7. \A i \in always[e] : i <= call[e].cursor \/ call[e].cursor < i
  BY <1>1, <1>5
<1>8. ASSUME next = 0 PROVE always[e] \subseteq buf
  <2>1. ~More(e, call[e].cursor)
    BY <1>1, <1>8, NoCursorIsEnd
  <2>2. \A i \in items[e] : call[e].cursor < i => i \in Page(e, call[e].cursor)
    BY <1>1, <2>1, LastPage
  <2> QED BY <1>5, <1>6, <1>7, <2>2
<1>9. ASSUME next # 0 PROVE next \in Nat /\ \A i \in always[e] : i <= next => i \in buf
  <2>1. /\ next \in Nat
        /\ \A i \in items[e] : call[e].cursor < i /\ i <= next => i \in Page(e, call[e].cursor)
    BY <1>1, <1>9, NoGap
  <2> QED BY <1>5, <1>6, <1>7, <2>1
<1> QED BY <1>2, <1>4, <1>8, <1>9

----------------------------------------------------------------------------

\* What a call record must satisfy to take the place of call[e].
Fits(e, c) ==
    /\ c \in Call
    /\ c.state \in Pending =>
         /\ Bracketed(e) /\ c.buf \subseteq ever[e]
         /\ \A i \in always[e] : i <= c.cursor => i \in c.buf
    /\ c.state = "ok" => always[e] \subseteq c.buf /\ c.buf \subseteq ever[e]

LEMMA SetKeeps ==
    ASSUME IInv, NEW e \in Endpoints, NEW c, Fits(e, c), Set(e, c),
           UNCHANGED <<items, always, ever>>
    PROVE  IInv'
<1>1. call' = [call EXCEPT ![e] = c] /\ DOMAIN call = Endpoints
  BY DEF Set, IInv, Typed
<1>2. call'[e] = c /\ \A d \in Endpoints \ {e} : call'[d] = call[d]
  BY <1>1
<1>3. Typed'
  <2>1. call' \in [Endpoints -> Call]
    BY <1>1 DEF Fits, IInv, Typed
  <2> QED BY <2>1 DEF IInv, Typed
<1>4. FetchInv(e)'
  BY <1>2 DEF Fits, FetchInv, Bracketed, UpToCursor, Whole
<1>5. \A d \in Endpoints \ {e} : FetchInv(d)'
  BY <1>2 DEF IInv, FetchInv, Bracketed, UpToCursor, Whole
<1> QED BY <1>3, <1>4, <1>5 DEF IInv

\* A record for a call that is over without items.
LEMMA FailureFits ==
    ASSUME NEW e \in Endpoints, NEW how \in {"refused", "aborted"}
    PROVE  Fits(e, [NewCall EXCEPT !.state = how])
<1>1. PICK c : c = [NewCall EXCEPT !.state = how]
  OBVIOUS
<1>2. c = [state |-> how, page |-> 0, cursor |-> 0, attempt |-> 0, buf |-> {}]
  BY <1>1 DEF NewCall
<1>3. c \in Call /\ c.state = how
  BY <1>2 DEF Call, Pending, Ended
<1> QED BY <1>1, <1>3 DEF Fits, Pending

\* A call that only moves between waiting for the limiter, an answer and a retry.
LEMMA BecomeFits ==
    ASSUME IInv, NEW e \in Endpoints, call[e].state \in Pending, NEW c \in Call,
           c.state \in Pending, c.cursor = call[e].cursor, c.buf = call[e].buf
    PROVE  Fits(e, c)
<1>1. Bracketed(e) /\ UpToCursor(e)
  BY DEF IInv, FetchInv
<1> QED BY <1>1 DEF Fits, UpToCursor, Pending

\* A page that is answered.
LEMMA GotPageFits ==
    ASSUME IInv, NEW e \in Endpoints, call[e].state = "sent",
           NEW next \in NextCursors(e, call[e].cursor)
    PROVE  Fits(e, GotPage(e, next))
<1>1. PICK buf : buf = call[e].buf \cup Page(e, call[e].cursor)
  OBVIOUS
<1>2. /\ Bracketed(e) /\ buf \subseteq ever[e] /\ buf \subseteq Ids
      /\ next = 0 => always[e] \subseteq buf
      /\ next # 0 => next \in Nat /\ \A i \in always[e] : i <= next => i \in buf
  BY <1>1, PageExtends
<1>3. call[e] \in Call
  BY DEF IInv, Typed
<1>4. PICK t : t = Turned(e, next)
  OBVIOUS
<1>5. CASE next = 0
  <2>1. PICK d : d = Drained(buf)
    OBVIOUS
  <2>2. t.buf = buf
    BY <1>1, <1>3, <1>4 DEF Turned, Call
  <2>3. d \in Call /\ d.state = "ok" /\ d.buf = buf
    BY <1>2, <2>1 DEF Drained, NewCall, Call, Ended
  <2>4. GotPage(e, next) = d
    BY <1>4, <1>5, <2>1, <2>2 DEF GotPage
  <2> QED BY <1>2, <1>5, <2>3, <2>4 DEF Fits, Pending
<1>6. CASE next # 0 /\ GotPage(e, next) = Refused
  BY <1>6, FailureFits DEF Refused
<1>7. CASE next # 0 /\ GotPage(e, next) = t
  <2>1. t.state = "page" /\ t.cursor = next /\ t.buf = buf
    BY <1>1, <1>3, <1>4 DEF Turned, Call
  <2>2. t \in Call
    <3>1. PICK n \in Nat : n = call[e].page + 1
      BY <1>3 DEF Call
    <3>2. t = [call[e] EXCEPT !.state = "page", !.buf = buf, !.page = n, !.attempt = 0,
                              !.cursor = next]
      BY <1>1, <1>4, <3>1 DEF Turned
    <3>3. next \in Nat /\ buf \in SUBSET Ids /\ "page" \in Pending
      BY <1>2, <1>7 DEF Pending
    <3> QED BY <1>3, <3>2, <3>3 DEF Call
  <2> QED BY <1>2, <1>7, <2>1, <2>2 DEF Fits, Pending
<1> QED BY <1>4, <1>5, <1>6, <1>7 DEF GotPage

\* A step of a call.
LEMMA FetchingKeeps ==
    ASSUME IInv, NEW e \in Endpoints, Fetching(e), UNCHANGED <<items, always, ever>>
    PROVE  IInv'
<1>1. call[e] \in Call
  BY DEF IInv, Typed
<1>2. ASSUME NEW how \in {"refused", "aborted"}, Fail(e, how) PROVE IInv'
  BY <1>2, FailureFits, SetKeeps DEF Fail
<1>3. ASSUME NEW to \in Pending, call[e].state \in Pending, Become(e, to) PROVE IInv'
  <2>1. PICK c : c = [call[e] EXCEPT !.state = to]
    OBVIOUS
  <2>2. c \in Call /\ c.state = to /\ c.cursor = call[e].cursor /\ c.buf = call[e].buf
    BY <1>1, <1>3, <2>1 DEF Call
  <2>3. Fits(e, c)
    BY <1>3, <2>2, BecomeFits
  <2> QED BY <1>3, <2>1, <2>3, SetKeeps DEF Become
<1>4. CASE Send(e)
  BY <1>2, <1>3, <1>4 DEF Send, Pending
<1>5. CASE Respond(e)
  <2>1. ASSUME NEW next \in NextCursors(e, call[e].cursor), call[e].state = "sent",
               Set(e, GotPage(e, next))
        PROVE  IInv'
    BY <2>1, GotPageFits, SetKeeps
  <2> QED BY <1>2, <1>3, <1>5, <2>1 DEF Respond, Pending
<1>6. CASE Retry(e)
  <2>1. PICK c : c = [call[e] EXCEPT !.state = "sent", !.attempt = @ + 1]
    OBVIOUS
  <2>2. c.state = "sent" /\ c.cursor = call[e].cursor /\ c.buf = call[e].buf
    BY <1>1, <2>1 DEF Call
  <2>3. c \in Call
    <3>1. PICK n \in Nat : n = call[e].attempt + 1
      BY <1>1 DEF Call
    <3>2. c = [call[e] EXCEPT !.state = "sent", !.attempt = n]
      BY <2>1, <3>1
    <3>3. "sent" \in Pending
      BY DEF Pending
    <3> QED BY <1>1, <3>1, <3>2, <3>3 DEF Call
  <2>4. Fits(e, c)
    BY <1>6, <2>2, <2>3, BecomeFits DEF Retry, Pending
  <2> QED BY <1>6, <2>1, <2>4, SetKeeps DEF Retry
<1>7. CASE Abort(e)
  BY <1>2, <1>7 DEF Abort
<1> QED BY <1>4, <1>5, <1>6, <1>7 DEF Fetching

\* A call that begins.
LEMMA BeginKeeps ==
    ASSUME IInv, NEW e \in Endpoints, Begin(e), UNCHANGED items
    PROVE  IInv'
<1>1. PICK c : c = [NewCall EXCEPT !.state = "page"]
  OBVIOUS
<1>2. c \in Call /\ c.state = "page" /\ c.cursor = 0 /\ c.buf = {}
  BY <1>1 DEF NewCall, Call, Pending
<1>3. /\ items \in [Endpoints -> SUBSET Ids] /\ call \in [Endpoints -> Call]
      /\ always \in [Endpoints -> SUBSET Ids] /\ ever \in [Endpoints -> SUBSET Ids]
  BY DEF IInv, Typed
<1>4. /\ call' = [call EXCEPT ![e] = c] /\ items' = items
      /\ always' = [always EXCEPT ![e] = items[e]] /\ ever' = [ever EXCEPT ![e] = items[e]]
  BY <1>1 DEF Begin, Set
<1>5. Typed'
  BY <1>2, <1>3, <1>4 DEF Typed
<1>6. FetchInv(e)'
  <2>1. call'[e] = c /\ always'[e] = items'[e] /\ ever'[e] = items'[e]
    BY <1>3, <1>4
  <2>2. \A i \in items'[e] : ~(i <= 0)
    BY <1>5, FetchAssumption DEF Typed
  <2> QED BY <1>2, <2>1, <2>2 DEF FetchInv, Bracketed, UpToCursor, Pending
<1>7. \A d \in Endpoints \ {e} : FetchInv(d)'
  <2>1. \A d \in Endpoints \ {e} : /\ call'[d] = call[d] /\ items'[d] = items[d]
                                    /\ always'[d] = always[d] /\ ever'[d] = ever[d]
    BY <1>3, <1>4
  <2> QED BY <2>1 DEF IInv, FetchInv, Bracketed, UpToCursor, Whole
<1> QED BY <1>5, <1>6, <1>7 DEF IInv

\* An item that comes or goes.
LEMMA ChangeKeeps ==
    ASSUME IInv, NEW e \in Endpoints, NEW i \in Ids, Change(e, i)
    PROVE  IInv'
<1>1. PICK now \in SUBSET Ids :
        /\ items' = [items EXCEPT ![e] = now]
        /\ \/ /\ call[e].state \in Pending
              /\ always' = [always EXCEPT ![e] = @ \cap now]
              /\ ever' = [ever EXCEPT ![e] = @ \cup now]
           \/ call[e].state \notin Pending /\ UNCHANGED <<always, ever>>
  <2>1. items[e] \in SUBSET Ids
    BY DEF IInv, Typed
  <2>2. PICK now : now = IF i \in items[e] THEN items[e] \ {i} ELSE items[e] \cup {i}
    OBVIOUS
  <2>3. now \in SUBSET Ids
    BY <2>1, <2>2
  <2> QED BY <2>2, <2>3 DEF Change
<1>2. call' = call
  BY DEF Change
<1>3. /\ items \in [Endpoints -> SUBSET Ids] /\ call \in [Endpoints -> Call]
      /\ always \in [Endpoints -> SUBSET Ids] /\ ever \in [Endpoints -> SUBSET Ids]
  BY DEF IInv, Typed
<1>4. Typed'
  BY <1>1, <1>2, <1>3 DEF Typed
<1>5. \A d \in Endpoints \ {e} : /\ items'[d] = items[d]
                                  /\ always'[d] = always[d] /\ ever'[d] = ever[d]
  BY <1>1, <1>3
<1>6. \A d \in Endpoints \ {e} : FetchInv(d)'
  BY <1>2, <1>5 DEF IInv, FetchInv, Bracketed, UpToCursor, Whole
<1>7. FetchInv(e)'
  <2>1. CASE call[e].state \in Pending
    <3>1. /\ items'[e] = now /\ always'[e] = always[e] \cap now /\ ever'[e] = ever[e] \cup now
      BY <1>1, <1>3, <2>1
    <3> QED BY <1>2, <2>1, <3>1 DEF IInv, FetchInv, Bracketed, UpToCursor, Pending
  <2>2. CASE call[e].state \notin Pending
    <3>1. always' = always /\ ever' = ever
      BY <1>1, <2>2
    <3> QED BY <1>2, <2>2, <3>1 DEF IInv, FetchInv, Whole
  <2> QED BY <2>1, <2>2
<1> QED BY <1>4, <1>6, <1>7 DEF IInv

----------------------------------------------------------------------------

LEMMA EndpointsOfLists ==
    /\ \A name \in DOMAIN After : ListOf(name) \in Endpoints
    /\ \A t \in Ids : CommentsOf(t) \in Endpoints
    /\ TaskList \in Endpoints
<1>1. "tasks" \in DOMAIN After
  BY DEF After
<1> QED BY <1>1 DEF Endpoints, TaskList

LEMMA InitInv == Init => IInv
<1> SUFFICES ASSUME Init PROVE IInv
  OBVIOUS
<1>1. items \in [Endpoints -> SUBSET Ids] /\ always = items /\ ever = items
  BY StocksAssumption DEF Init
<1>2. NewCall \in Call /\ NewCall.state = "idle"
  BY DEF NewCall, Call
<1>3. PICK c : c = [NewCall EXCEPT !.state = "page"]
  OBVIOUS
<1>4. c \in Call /\ c.state = "page" /\ c.cursor = 0 /\ c.buf = {}
  BY <1>3 DEF NewCall, Call, Pending
<1>5. /\ call \in [Endpoints -> Call]
      /\ \A e \in Endpoints : call[e] = c \/ call[e] = NewCall
  BY <1>2, <1>3, <1>4 DEF Init
<1>6. ASSUME NEW e \in Endpoints PROVE FetchInv(e)
  <2>1. \A i \in items[e] : ~(i <= 0)
    BY <1>1, FetchAssumption
  <2> QED BY <1>1, <1>2, <1>4, <1>5, <2>1 DEF FetchInv, Bracketed, UpToCursor, Pending
<1> QED BY <1>1, <1>5, <1>6 DEF IInv, Typed

LEMMA NextInv == IInv /\ [Next]_vars => IInv'
<1> SUFFICES ASSUME IInv, [Next]_vars PROVE IInv'
  OBVIOUS
<1>u. ASSUME UNCHANGED <<items, always, ever, call>> PROVE IInv'
  BY <1>u DEF IInv, Typed, FetchInv, Bracketed, UpToCursor, Whole
<1>1. CASE FetchList
  BY <1>1, FetchingKeeps, EndpointsOfLists DEF FetchList, Listing
<1>2. CASE NextList
  <2>1. CASE After[stage] \in DOMAIN After
    BY <1>2, <2>1, BeginKeeps, EndpointsOfLists DEF NextList
  <2>2. CASE After[stage] \notin DOMAIN After
    BY <1>2, <2>2, <1>u DEF NextList
  <2> QED BY <2>1, <2>2
<1>3. CASE ListFails
  BY <1>3, <1>u DEF ListFails
<1>4. ASSUME NEW t \in Ids, Spawn(t) PROVE IInv'
  BY <1>4, BeginKeeps, EndpointsOfLists DEF Spawn
<1>5. ASSUME NEW t \in Ids, BadTimestamp(t) PROVE IInv'
  <2>1. Fits(CommentsOf(t), [NewCall EXCEPT !.state = "aborted"])
    BY FailureFits, EndpointsOfLists
  <2> QED BY <1>5, <2>1, SetKeeps, EndpointsOfLists DEF BadTimestamp, Fail
<1>6. ASSUME NEW t \in Ids, FetchComments(t) PROVE IInv'
  BY <1>6, FetchingKeeps, EndpointsOfLists DEF FetchComments
<1>7. CASE Wait
  BY <1>7, <1>u DEF Wait
<1>8. CASE Returned \/ Deadline
  BY <1>8, <1>u DEF Returned, Deadline, vars
<1>9. ASSUME NEW e \in Endpoints, NEW i \in Ids, Change(e, i) PROVE IInv'
  BY <1>9, ChangeKeeps
<1>10. CASE UNCHANGED vars
  BY <1>10, <1>u DEF vars
<1> QED BY <1>1, <1>2, <1>3, <1>4, <1>5, <1>6, <1>7, <1>8, <1>9, <1>10 DEF Next, Work

\* A getAll that succeeds has every item that was there for the whole of its fetch and
\* none that never was, whatever the server does (getAll, get).
THEOREM ListIsWhole == Spec => []ListWhole
<1>1. IInv => ListWhole
  BY DEF IInv, FetchInv, Whole, ListWhole
<1> QED BY InitInv, NextInv, <1>1, PTL DEF Spec

----------------------------------------------------------------------------
(* The bounds of the calls, and what a whole result is made of.            *)

\* A retry is asked for only while there is one left.
CallBounded(c) ==
    /\ c.page \in 0 .. MaxPages /\ c.attempt \in 0 .. MaxRetries
    /\ c.state = "backoff" => c.attempt < MaxRetries

Ok(name) == call[ListOf(name)].state = "ok"

\* The lists before the current one are drained, and no job is spawned before the last is.
ListsInOrder ==
    /\ stage \in {"projects", "sections", "comments", "ok"} => Ok("tasks")
    /\ stage \in {"sections", "comments", "ok"} => Ok("projects")
    /\ stage \in {"comments", "ok"} => Ok("sections")
    /\ Listing => spawned = {}

\* A job that the end of a context took its comments from has failed the run.
AbortFails == \A t \in spawned : call[CommentsOf(t)].state = "aborted" => failed

Counters ==
    /\ stage \in DOMAIN After \cup {"comments", "ok", "failed"}
    /\ expired \in BOOLEAN /\ failed \in BOOLEAN /\ events \in 0 .. MaxEvents

Grouped ==
    /\ spawned \subseteq Tasks /\ Cardinality(Running) <= Concurrency
    /\ stage = "ok" => spawned = Tasks /\ Running = {} /\ ~failed

RunInv ==
    /\ Counters /\ ListsInOrder /\ AbortFails /\ Grouped
    /\ \A e \in Endpoints : CallBounded(call[e])

\* The stages by name.
LEMMA Stages ==
    /\ DOMAIN After = {"tasks", "projects", "sections"}
    /\ After["tasks"] = "projects" /\ After["projects"] = "sections"
    /\ After["sections"] = "comments"
BY DEF After

\* No comments are listed under the name of a list.
LEMMA ListsAreNoComments ==
    \A name \in DOMAIN After, t \in Ids : ListOf(name) # CommentsOf(t)
BY Stages DEF ListOf, CommentsOf

LEMMA ListsDiffer == \A a, b : ListOf(a) = ListOf(b) => a = b
BY DEF ListOf

LEMMA CommentsDiffer == \A t, u : CommentsOf(t) = CommentsOf(u) => t = u
BY DEF CommentsOf

\* The group is a set of tasks, so it can be counted.
LEMMA GroupIsFinite ==
    ASSUME Typed, spawned \subseteq Tasks
    PROVE  /\ spawned \subseteq Ids /\ Running \subseteq spawned /\ IsFiniteSet(Running)
<1>1. Tasks \subseteq Ids
  BY EndpointsOfLists DEF Typed, Call, Tasks
<1>2. Running \subseteq spawned
  BY DEF Running
<1> QED BY <1>1, <1>2, FetchAssumption, FS_Subset

\* A page that is answered stays under the cap, or is refused.
LEMMA GotPageBounded ==
    ASSUME IInv, NEW e \in Endpoints, call[e].state = "sent", CallBounded(call[e]),
           NEW next \in NextCursors(e, call[e].cursor)
    PROVE  /\ GotPage(e, next) \in Call /\ CallBounded(GotPage(e, next))
           /\ GotPage(e, next).state # "aborted"
<1>1. GotPage(e, next) \in Call
  BY GotPageFits DEF Fits
<1>2. PICK t : t = Turned(e, next)
  OBVIOUS
<1>3. PICK n \in Nat : n = call[e].page + 1
  BY DEF IInv, Typed, Call
<1>4. t.state = "page" /\ t.attempt = 0 /\ t.page = n
  BY <1>2, <1>3 DEF Turned, IInv, Typed, Call
<1>5. CASE GotPage(e, next) = t /\ ~(n >= MaxPages)
  <2>1. n \in 0 .. MaxPages
    BY <1>5, FetchAssumption
  <2> QED BY <1>1, <1>4, <1>5, <2>1, FetchAssumption DEF CallBounded
<1>6. CASE GotPage(e, next) = Drained(t.buf)
  <2>1. PICK d : d = Drained(t.buf)
    OBVIOUS
  <2>2. d.state = "ok" /\ d.page = 0 /\ d.attempt = 0
    BY <2>1 DEF Drained, NewCall
  <2> QED BY <1>1, <1>6, <2>1, <2>2, FetchAssumption DEF CallBounded
<1>7. CASE GotPage(e, next) = Refused
  <2>1. PICK d : d = Refused
    OBVIOUS
  <2>2. d.state = "refused" /\ d.page = 0 /\ d.attempt = 0
    BY <2>1 DEF Refused, NewCall
  <2> QED BY <1>1, <1>7, <2>1, <2>2, FetchAssumption DEF CallBounded
<1> QED BY <1>2, <1>4, <1>5, <1>6, <1>7 DEF GotPage

\* A step of a call changes that call alone, from pending, within the bounds, and loses it
\* to the context only when that is done.
LEMMA FetchingMoves ==
    ASSUME IInv, NEW e \in Endpoints, CallBounded(call[e]), Fetching(e)
    PROVE  /\ call[e].state \in Pending
           /\ \E c \in Call : call' = [call EXCEPT ![e] = c]
           /\ \A d \in Endpoints \ {e} : call'[d] = call[d]
           /\ CallBounded(call'[e])
           /\ call'[e].state = "aborted" => Done
<1>0. call[e] \in Call /\ call \in [Endpoints -> Call]
  BY DEF IInv, Typed
<1>1. ASSUME NEW c, Set(e, c) PROVE call' = [call EXCEPT ![e] = c] /\ call'[e] = c
  BY <1>0, <1>1 DEF Set
<1>2. ASSUME NEW how \in {"refused", "aborted"}, Fail(e, how), how = "aborted" => Done,
             call[e].state \in Pending
      PROVE  /\ \E c \in Call : Set(e, c)
             /\ CallBounded(call'[e]) /\ (call'[e].state = "aborted" => Done)
  <2>1. PICK c : c = [NewCall EXCEPT !.state = how]
    OBVIOUS
  <2>2. c = [state |-> how, page |-> 0, cursor |-> 0, attempt |-> 0, buf |-> {}]
    BY <2>1 DEF NewCall
  <2>3. c \in Call /\ c.state = how /\ CallBounded(c)
    BY <2>2, FetchAssumption DEF Call, Pending, Ended, CallBounded
  <2>4. Set(e, c)
    BY <1>2, <2>1 DEF Fail
  <2> QED BY <1>1, <1>2, <2>3, <2>4
<1>3. ASSUME NEW to \in Pending, Become(e, to), to = "backoff" => call[e].attempt < MaxRetries
      PROVE  /\ \E c \in Call : Set(e, c)
             /\ CallBounded(call'[e]) /\ (call'[e].state = "aborted" => Done)
  <2>1. PICK c : c = [call[e] EXCEPT !.state = to]
    OBVIOUS
  <2>2. /\ c \in Call /\ c.state = to /\ c.page = call[e].page /\ c.attempt = call[e].attempt
    BY <1>0, <1>3, <2>1 DEF Call
  <2>3. CallBounded(c)
    BY <1>3, <2>2 DEF CallBounded
  <2>4. Set(e, c)
    BY <1>3, <2>1 DEF Become
  <2> QED BY <1>1, <2>2, <2>3, <2>4 DEF Pending
<1>4. /\ call[e].state \in Pending
      /\ \E c \in Call : Set(e, c)
      /\ CallBounded(call'[e]) /\ (call'[e].state = "aborted" => Done)
  <2>1. CASE Send(e)
    BY <1>2, <1>3, <2>1 DEF Send, Pending
  <2>2. CASE Respond(e)
    <3>1. ASSUME NEW next \in NextCursors(e, call[e].cursor), Set(e, GotPage(e, next)),
                 call[e].state = "sent"
          PROVE  /\ \E c \in Call : Set(e, c)
                 /\ CallBounded(call'[e]) /\ (call'[e].state = "aborted" => Done)
      BY <1>1, <3>1, GotPageBounded
    <3> QED BY <1>2, <1>3, <2>2, <3>1 DEF Respond, Pending
  <2>3. CASE Retry(e)
    <3>1. PICK n \in 0 .. MaxRetries : n = call[e].attempt + 1
      BY <2>3, FetchAssumption DEF Retry, CallBounded
    <3>2. PICK c : c = [call[e] EXCEPT !.state = "sent", !.attempt = n]
      OBVIOUS
    <3>3. c \in Call /\ c.state = "sent" /\ c.page = call[e].page /\ c.attempt = n
      <4>1. n \in Nat /\ "sent" \in Pending
        BY <3>1, FetchAssumption DEF Pending
      <4> QED BY <1>0, <3>2, <4>1 DEF Call
    <3>4. CallBounded(c)
      BY <3>3 DEF CallBounded
    <3>5. Set(e, c)
      BY <2>3, <3>1, <3>2 DEF Retry
    <3> QED BY <1>1, <2>3, <3>3, <3>4, <3>5 DEF Retry, Pending
  <2>4. CASE Abort(e)
    BY <1>2, <2>4 DEF Abort
  <2> QED BY <2>1, <2>2, <2>3, <2>4 DEF Fetching
<1> QED BY <1>0, <1>1, <1>4

LEMMA RunInit == Init => RunInv
<1> SUFFICES ASSUME Init PROVE RunInv
  OBVIOUS
<1>1. Typed
  BY InitInv DEF IInv
<1>2. Running = {}
  BY DEF Init, Running
<1>3. ASSUME NEW e \in Endpoints PROVE CallBounded(call[e])
  <2>1. PICK c : c = [NewCall EXCEPT !.state = "page"]
    OBVIOUS
  <2>2. /\ c.state = "page" /\ c.page = 0 /\ c.attempt = 0
        /\ NewCall.state = "idle" /\ NewCall.page = 0 /\ NewCall.attempt = 0
    BY <2>1 DEF NewCall
  <2>3. call[e] = c \/ call[e] = NewCall
    BY <2>1 DEF Init
  <2> QED BY <2>2, <2>3, FetchAssumption DEF CallBounded
<1>4. Cardinality(Running) = 0
  BY <1>2, FS_EmptySet
<1>5. stage = "tasks" /\ spawned = {}
  BY DEF Init
<1>6. Counters
  <2>1. "tasks" \in DOMAIN After /\ 0 \in 0 .. MaxEvents
    BY Stages, FetchAssumption
  <2>2. expired = FALSE /\ failed = FALSE /\ events = 0
    BY DEF Init
  <2> QED BY <1>5, <2>1, <2>2 DEF Counters
<1>7. ListsInOrder
  BY <1>5 DEF ListsInOrder
<1>8. AbortFails
  BY <1>5 DEF AbortFails
<1>9. Grouped
  <2>1. 0 <= Concurrency
    BY FetchAssumption
  <2> QED BY <1>4, <1>5, <2>1 DEF Grouped
<1> QED BY <1>3, <1>6, <1>7, <1>8, <1>9 DEF RunInv

\* What keeps RunInv when a list is fetched or begun: no job is there yet.
LEMMA ListingKeeps ==
    ASSUME RunInv, IInv, IInv', Listing, spawned' = spawned, Counters',
           stage' \in DOMAIN After \cup {"comments"}, ListsInOrder',
           \A e \in Endpoints : CallBounded(call'[e])
    PROVE  RunInv'
<1>1. spawned' = {} /\ Running' = {}
  BY DEF RunInv, ListsInOrder, Running
<1>2. AbortFails'
  BY <1>1 DEF AbortFails
<1>3. Grouped'
  <2>1. Cardinality(Running') = 0 /\ 0 <= Concurrency
    BY <1>1, FS_EmptySet, FetchAssumption
  <2>2. stage' # "ok"
    BY Stages
  <2> QED BY <1>1, <2>1, <2>2 DEF Grouped
<1> QED BY <1>2, <1>3 DEF RunInv

LEMMA FetchListRun == RunInv /\ IInv /\ IInv' /\ FetchList => RunInv'
<1> SUFFICES ASSUME RunInv, IInv, IInv', FetchList PROVE RunInv'
  OBVIOUS
<1>1. Listing /\ Fetching(ListOf(stage)) /\ UNCHANGED <<stage, spawned, expired, failed, events>>
  BY DEF FetchList
<1>2. ListOf(stage) \in Endpoints
  BY <1>1, EndpointsOfLists DEF Listing
<1>3. /\ call[ListOf(stage)].state \in Pending
      /\ \A d \in Endpoints \ {ListOf(stage)} : call'[d] = call[d]
      /\ CallBounded(call'[ListOf(stage)])
  BY <1>1, <1>2, FetchingMoves DEF RunInv
<1>4. ListsInOrder'
  <2>1. ASSUME NEW name \in DOMAIN After, Ok(name) PROVE Ok(name)'
    <3>1. ListOf(name) # ListOf(stage)
      BY <1>3, <2>1 DEF Ok, Pending
    <3> QED BY <1>3, <2>1, <3>1, EndpointsOfLists DEF Ok
  <2> QED BY <1>1, <2>1, Stages DEF RunInv, ListsInOrder, Listing
<1>5. \A e \in Endpoints : CallBounded(call'[e])
  BY <1>3 DEF RunInv
<1>6. Counters'
  BY <1>1 DEF RunInv, Counters
<1> QED BY <1>1, <1>4, <1>5, <1>6, ListingKeeps DEF Listing

LEMMA NextListRun == RunInv /\ IInv /\ IInv' /\ NextList => RunInv'
<1> SUFFICES ASSUME RunInv, IInv, IInv', NextList PROVE RunInv'
  OBVIOUS
<1>1. /\ Listing /\ Ok(stage) /\ stage' = After[stage]
      /\ UNCHANGED <<spawned, expired, failed, events>>
  BY DEF NextList, Ok
<1>2. call \in [Endpoints -> Call]
  BY DEF IInv, Typed
<1>3. \/ call' = call
      \/ \E name \in DOMAIN After, c \in Call :
           /\ name = stage' /\ call' = [call EXCEPT ![ListOf(name)] = c] /\ CallBounded(c)
  <2>1. CASE After[stage] \in DOMAIN After
    <3>1. PICK c : c = [NewCall EXCEPT !.state = "page"]
      OBVIOUS
    <3>2. c = [state |-> "page", page |-> 0, cursor |-> 0, attempt |-> 0, buf |-> {}]
      BY <3>1 DEF NewCall
    <3>3. c \in Call /\ CallBounded(c)
      BY <3>2, FetchAssumption DEF Call, Pending, CallBounded
    <3>4. call' = [call EXCEPT ![ListOf(After[stage])] = c]
      BY <2>1, <3>1 DEF NextList, Begin, Set
    <3> QED BY <1>1, <2>1, <3>3, <3>4
  <2> QED BY <2>1 DEF NextList
<1>4. \A e \in Endpoints : CallBounded(call'[e])
  BY <1>2, <1>3 DEF RunInv
<1>5. ASSUME NEW name \in DOMAIN After, name # stage', Ok(name) PROVE Ok(name)'
  <2>1. ListOf(name) # ListOf(stage')
    BY <1>5, ListsDiffer
  <2>2. ListOf(name) \in Endpoints
    BY EndpointsOfLists
  <2>3. call'[ListOf(name)] = call[ListOf(name)]
    BY <1>2, <1>3, <2>1, <2>2
  <2> QED BY <1>5, <2>3 DEF Ok
<1>6. ListsInOrder'
  <2>1. spawned' = {}
    BY <1>1 DEF RunInv, ListsInOrder
  <2>2. CASE stage = "tasks"
    BY <1>1, <1>5, <2>1, <2>2, Stages DEF ListsInOrder
  <2>3. CASE stage = "projects"
    BY <1>1, <1>5, <2>1, <2>3, Stages DEF RunInv, ListsInOrder
  <2>4. CASE stage = "sections"
    BY <1>1, <1>5, <2>1, <2>4, Stages DEF RunInv, ListsInOrder
  <2> QED BY <1>1, <2>2, <2>3, <2>4, Stages DEF Listing
<1>7. stage' \in DOMAIN After \cup {"comments"} /\ Counters'
  BY <1>1, Stages DEF RunInv, Counters, Listing
<1> QED BY <1>1, <1>4, <1>6, <1>7, ListingKeeps

\* What keeps RunInv when the jobs go on and the lists stay as they are.
LEMMA JobsKeep ==
    ASSUME RunInv, IInv, IInv', stage = "comments", stage' = "comments",
           UNCHANGED <<expired, events>>, failed' \in BOOLEAN, AbortFails',
           \A name \in DOMAIN After : call'[ListOf(name)] = call[ListOf(name)],
           spawned' \subseteq Tasks, Cardinality(Running') <= Concurrency,
           \A e \in Endpoints : CallBounded(call'[e])
    PROVE  RunInv'
<1>1. Counters'
  BY DEF RunInv, Counters
<1>2. ListsInOrder'
  <2>1. "comments" \notin DOMAIN After
    BY Stages
  <2> QED BY <2>1, Stages DEF RunInv, ListsInOrder, Ok, Listing
<1>3. Tasks' = Tasks
  BY Stages DEF Tasks, TaskList
<1>4. Grouped'
  BY <1>3 DEF Grouped
<1> QED BY <1>1, <1>2, <1>4 DEF RunInv

\* A job that starts takes the room it found.
LEMMA SpawnRun ==
    ASSUME RunInv, IInv, IInv', NEW t \in Ids, Spawn(t)
    PROVE  RunInv'
<1>1. /\ stage = "comments" /\ t \in Tasks \ spawned /\ Cardinality(Running) < Concurrency
      /\ spawned' = spawned \cup {t} /\ UNCHANGED <<stage, expired, failed, events>>
  BY DEF Spawn
<1>2. PICK c : c = [NewCall EXCEPT !.state = "page"]
  OBVIOUS
<1>3. c = [state |-> "page", page |-> 0, cursor |-> 0, attempt |-> 0, buf |-> {}]
  BY <1>2 DEF NewCall
<1>4. CallBounded(c) /\ c.state \notin {"aborted"}
  BY <1>3, FetchAssumption DEF CallBounded
<1>5. call \in [Endpoints -> Call] /\ call' = [call EXCEPT ![CommentsOf(t)] = c]
  BY <1>2 DEF Spawn, Begin, Set, IInv, Typed
<1>6. call'[CommentsOf(t)] = c /\ \A d \in Endpoints \ {CommentsOf(t)} : call'[d] = call[d]
  BY <1>5, EndpointsOfLists
<1>7. \A e \in Endpoints : CallBounded(call'[e])
  BY <1>4, <1>6 DEF RunInv
<1>8. \A name \in DOMAIN After : call'[ListOf(name)] = call[ListOf(name)]
  BY <1>6, EndpointsOfLists, ListsAreNoComments
<1>9. spawned \subseteq Ids
  BY GroupIsFinite DEF RunInv, Grouped, IInv
<1>10. \A u \in spawned : call'[CommentsOf(u)] = call[CommentsOf(u)]
  <2>1. \A u \in spawned : CommentsOf(u) # CommentsOf(t)
    BY <1>1, CommentsDiffer
  <2> QED BY <1>6, <1>9, <2>1, EndpointsOfLists
<1>11. AbortFails'
  BY <1>1, <1>4, <1>6, <1>10 DEF RunInv, AbortFails
<1>12. Cardinality(Running') <= Concurrency
  <2>1. IsFiniteSet(Running)
    BY GroupIsFinite DEF RunInv, Grouped, IInv
  <2>2. Running' \subseteq Running \cup {t}
    BY <1>1, <1>10 DEF Running
  <2>3. /\ IsFiniteSet(Running \cup {t}) /\ Cardinality(Running) \in Nat
        /\ Cardinality(Running \cup {t}) <= Cardinality(Running) + 1
    <3>1. /\ IsFiniteSet(Running \cup {t})
          /\ \/ Cardinality(Running \cup {t}) = Cardinality(Running)
             \/ Cardinality(Running \cup {t}) = Cardinality(Running) + 1
      BY <2>1, FS_AddElement
    <3>2. Cardinality(Running) \in Nat
      BY <2>1, FS_CardinalityType
    <3> QED BY <3>1, <3>2
  <2>4. /\ Cardinality(Running') <= Cardinality(Running \cup {t})
        /\ Cardinality(Running') \in Nat /\ Cardinality(Running \cup {t}) \in Nat
    BY <2>2, <2>3, FS_Subset, FS_CardinalityType
  <2> QED BY <1>1, <2>3, <2>4, FetchAssumption
<1>13. spawned' \subseteq Tasks
  BY <1>1 DEF RunInv, Grouped
<1> QED BY <1>1, <1>7, <1>8, <1>11, <1>12, <1>13, JobsKeep DEF RunInv, Counters

\* The call of a job that is running goes on or ends: the group does not grow.
LEMMA JobRun ==
    ASSUME RunInv, IInv, IInv', NEW t \in Ids, stage = "comments", t \in Running,
           UNCHANGED <<stage, spawned, expired, events>>, failed' \in BOOLEAN,
           failed => failed',
           \A d \in Endpoints \ {CommentsOf(t)} : call'[d] = call[d],
           CallBounded(call'[CommentsOf(t)]),
           call'[CommentsOf(t)].state = "aborted" => failed'
    PROVE  RunInv'
<1>1. \A e \in Endpoints : CallBounded(call'[e])
  BY DEF RunInv
<1>2. \A name \in DOMAIN After : call'[ListOf(name)] = call[ListOf(name)]
  BY EndpointsOfLists, ListsAreNoComments
<1>3. spawned \subseteq Ids /\ IsFiniteSet(Running)
  BY GroupIsFinite DEF RunInv, Grouped, IInv
<1>4. \A u \in spawned \ {t} : call'[CommentsOf(u)] = call[CommentsOf(u)]
  BY <1>3, EndpointsOfLists, CommentsDiffer
<1>5. AbortFails'
  BY <1>4 DEF RunInv, AbortFails
<1>6. Running' \subseteq Running
  BY <1>4 DEF Running
<1>7. Cardinality(Running') <= Concurrency
  <2>1. /\ Cardinality(Running') <= Cardinality(Running)
        /\ Cardinality(Running') \in Nat /\ Cardinality(Running) \in Nat
    BY <1>3, <1>6, FS_Subset, FS_CardinalityType
  <2> QED BY <2>1, FetchAssumption DEF RunInv, Grouped
<1>8. spawned' \subseteq Tasks
  BY DEF RunInv, Grouped
<1> QED BY <1>1, <1>2, <1>5, <1>7, <1>8, JobsKeep

LEMMA BadTimestampRun ==
    ASSUME RunInv, IInv, IInv', NEW t \in Ids, BadTimestamp(t)
    PROVE  RunInv'
<1>1. PICK c : c = [NewCall EXCEPT !.state = "aborted"]
  OBVIOUS
<1>2. c.page = 0 /\ c.attempt = 0 /\ c.state = "aborted"
  BY <1>1 DEF NewCall
<1>3. CallBounded(c)
  BY <1>2, FetchAssumption DEF CallBounded
<1>4. call \in [Endpoints -> Call] /\ call' = [call EXCEPT ![CommentsOf(t)] = c]
  BY <1>1 DEF BadTimestamp, Fail, Set, IInv, Typed
<1>5. call'[CommentsOf(t)] = c /\ \A d \in Endpoints \ {CommentsOf(t)} : call'[d] = call[d]
  BY <1>4, EndpointsOfLists
<1> QED BY <1>3, <1>5, JobRun DEF BadTimestamp

LEMMA FetchCommentsRun ==
    ASSUME RunInv, IInv, IInv', NEW t \in Ids, FetchComments(t)
    PROVE  RunInv'
<1> DEFINE e == CommentsOf(t)
<1>1. /\ stage = "comments" /\ t \in Running /\ Fetching(e)
      /\ failed' = (failed \/ (call'[e].state \in {"refused", "aborted"} /\ Fatal))
      /\ UNCHANGED <<stage, spawned, expired, events>>
  BY DEF FetchComments
<1>2. /\ \A d \in Endpoints \ {e} : call'[d] = call[d]
      /\ CallBounded(call'[e]) /\ (call'[e].state = "aborted" => Done)
  BY <1>1, FetchingMoves, EndpointsOfLists DEF RunInv
<1>3. failed \in BOOLEAN /\ expired \in BOOLEAN
  BY DEF RunInv, Counters
<1>4. failed' \in BOOLEAN /\ (failed => failed')
  BY <1>1, <1>3 DEF Fatal
<1>5. call'[e].state = "aborted" => failed'
  BY <1>1, <1>2 DEF Done, Fatal
<1> HIDE DEF e
<1> QED BY <1>1, <1>2, <1>4, <1>5, JobRun DEF e

LEMMA RunStep == RunInv /\ IInv /\ IInv' /\ [Next]_vars => RunInv'
<1> SUFFICES ASSUME RunInv, IInv, IInv', [Next]_vars PROVE RunInv'
  OBVIOUS
<1>u. ASSUME UNCHANGED <<call, spawned>>, Counters', ListsInOrder', failed' = failed,
             stage' = "ok" => spawned = Tasks /\ Running = {} /\ ~failed
      PROVE  RunInv'
  <2>1. Running' = Running /\ Tasks' = Tasks
    BY <1>u DEF Running, Tasks
  <2> QED BY <1>u, <2>1 DEF RunInv, AbortFails, Grouped
<1>s. ASSUME UNCHANGED <<call, stage, spawned, failed>>, expired' \in BOOLEAN,
             events' \in 0 .. MaxEvents
      PROVE  RunInv'
  <2>1. Counters' /\ ListsInOrder'
    BY <1>s DEF RunInv, Counters, ListsInOrder, Listing, Ok
  <2> QED BY <1>s, <1>u, <2>1 DEF RunInv, Grouped
<1>1. CASE FetchList
  BY <1>1, FetchListRun
<1>2. CASE NextList
  BY <1>2, NextListRun
<1>3. CASE ListFails
  <2>1. stage' = "failed" /\ UNCHANGED <<call, spawned, expired, failed, events>>
    BY <1>3 DEF ListFails
  <2>2. ListsInOrder'
    BY <2>1, Stages DEF ListsInOrder, Listing
  <2>3. Counters'
    BY <2>1 DEF RunInv, Counters
  <2> QED BY <1>u, <2>1, <2>2, <2>3
<1>4. ASSUME NEW t \in Ids, Spawn(t) PROVE RunInv'
  BY <1>4, SpawnRun
<1>5. ASSUME NEW t \in Ids, BadTimestamp(t) PROVE RunInv'
  BY <1>5, BadTimestampRun
<1>6. ASSUME NEW t \in Ids, FetchComments(t) PROVE RunInv'
  BY <1>6, FetchCommentsRun
<1>7. CASE Wait
  <2>1. /\ stage = "comments" /\ spawned = Tasks /\ Running = {}
        /\ stage' = (IF failed THEN "failed" ELSE "ok")
        /\ UNCHANGED <<call, spawned, expired, failed, events>>
    BY <1>7 DEF Wait
  <2>2. ListsInOrder'
    BY <2>1, Stages DEF RunInv, ListsInOrder, Listing, Ok
  <2>3. Counters'
    BY <2>1 DEF RunInv, Counters
  <2> QED BY <1>u, <2>1, <2>2, <2>3
<1>8. CASE Deadline
  BY <1>8, <1>s DEF Deadline, RunInv, Counters
<1>9. ASSUME NEW e \in Endpoints, NEW i \in Ids, Change(e, i) PROVE RunInv'
  <2>1. events' = events + 1 /\ events < MaxEvents
        /\ UNCHANGED <<call, stage, spawned, expired, failed>>
    BY <1>9 DEF Change
  <2>2. events' \in 0 .. MaxEvents
    BY <2>1, FetchAssumption DEF RunInv, Counters
  <2> QED BY <1>s, <2>1, <2>2 DEF RunInv, Counters
<1>10. CASE UNCHANGED vars
  BY <1>10, <1>s DEF vars, RunInv, Counters
<1>11. CASE Returned
  BY <1>10, <1>11 DEF Returned
<1> QED BY <1>1, <1>2, <1>3, <1>4, <1>5, <1>6, <1>7, <1>8, <1>9, <1>10, <1>11 DEF Next, Work

\* The bounds hold: no page number reaches past its cap, no page is retried too often, and
\* the jobs of the group never outnumber its limit (getAll, get, Probe: SetLimit).
THEOREM BoundsHold == Spec => []TypeOK
<1>1. IInv /\ RunInv => TypeOK
  <2> SUFFICES ASSUME IInv, RunInv PROVE TypeOK
    OBVIOUS
  <2>1. \A f \in {items, always, ever} : f \in [Endpoints -> SUBSET Ids]
    BY DEF IInv, Typed
  <2>2. \A e \in Endpoints : call[e] \in Call
    BY DEF IInv, Typed
  <2>3. \A e \in Endpoints :
          /\ call[e].state \in Pending \cup Ended \cup {"idle"}
          /\ call[e].page \in 0 .. MaxPages /\ call[e].attempt \in 0 .. MaxRetries
          /\ call[e].cursor \in Nat /\ call[e].buf \subseteq Ids
    BY <2>2 DEF Call, RunInv, CallBounded
  <2> QED BY <2>1, <2>3 DEF TypeOK, RunInv, Counters, Grouped
<1> QED BY InitInv, NextInv, RunInit, RunStep, <1>1, PTL DEF Spec

\* A probe that succeeds has drained the three lists and has asked for the comments of
\* every task: none was lost to the end of a context (Probe).
THEOREM SuccessIsComplete == Spec => []ResultIsComplete
<1>1. IInv /\ RunInv => ResultIsComplete
  <2> SUFFICES ASSUME IInv, RunInv, stage = "ok" PROVE ResultIsComplete
    BY DEF ResultIsComplete
  <2>1. \A name \in DOMAIN After : call[ListOf(name)].state = "ok"
    BY Stages DEF RunInv, ListsInOrder, Ok
  <2>2. \A t \in Tasks : call[CommentsOf(t)].state \in Ended \ {"aborted"}
    BY DEF RunInv, Grouped, AbortFails, Running
  <2> QED BY <2>1, <2>2 DEF ResultIsComplete, Ended
<1> QED BY InitInv, NextInv, RunInit, RunStep, <1>1, PTL DEF Spec

=============================================================================

------------------------------ MODULE Probers ------------------------------
(***************************************************************************)
(* Inside one probe.Run: the engine that dedupes and groups the links, the *)
(* probers it asks one system after the other (Slack, Salesforce, GitHub,  *)
(* and Aha, Gmail and Drive, which ask for one record at a time), and the  *)
(* credentials they run with.                                              *)
(*                                                                         *)
(* The records hold still while a run reads them, which ProbeRun does not  *)
(* assume; here the question is which link gets which answer, and why one  *)
(* gets none.  An answer names the record it is the activity of.           *)
(***************************************************************************)
EXTENDS Naturals, Sequences, FiniteSets, FiniteSetsExt, Functions

CONSTANTS
    Corpora,     \* the orders in which a run may meet the links of the tasks
    Canonical,   \* record -> what it names: for a Salesforce id its first 15 characters
    Channel,     \* Slack record -> its channel
    KeyObject,   \* Salesforce record -> the object its prefix is known for, or None
    CaseNumbers, \* the Salesforce records that are Case numbers
    Cases,       \* what those are queried by, instead of an object
    Org,         \* Salesforce record, as the CLI returns it -> its object, or Cases
    TeamOf,      \* host of a Slack link -> the workspace it is of
    Threads,     \* the <<workspace, record>> that exist in Slack
    Files,       \* credentials files: sets of [team, host, complete]
    Installed,   \* systems with a token or a CLI of their own
    Google,      \* systems that share the token minted from gws
    NotProbeable, \* Teams
    MaxLinks, MaxQueryGroups, MaxProbes, \* maxLinksPerSystem, maxQueryGroups, maxProbes
    None,
    MaxRuns, MaxFaults  \* bounds: runs, failures in a run

\* A link is [system, record, host, hint]: record is None if it did not parse, host is
\* that of a Slack link, hint is the object in a Salesforce URL.  Objects and GitHub
\* records are numbers, in the order Go sorts their names.
Links == UNION {Range(c) : c \in Corpora}
Key(l) == <<l.system, l.record>>

ASSUME ProbersAssumption ==
    /\ \A c \in Corpora : Len(c) \in Nat /\ DOMAIN c = 1 .. Len(c)
    /\ \A c, d \in Corpora : Range(c) = Range(d)
    /\ \A f \in Files : IsFiniteSet(f)
    /\ {MaxLinks, MaxQueryGroups, MaxProbes, MaxRuns, MaxFaults} \subseteq Nat
    /\ None \notin CaseNumbers
    /\ Google \cap Installed = {} /\ "slack" \notin Installed \cup Google
    /\ \A l \in Links : l.system \notin {"idle", "loading", "engine"}

\* The record link l is about, if it parsed.
Target(l) == IF l.record = None THEN None
             ELSE IF l.system = "slack" THEN <<TeamOf[l.host], l.record>>
             ELSE <<l.system, Canonical[l.record]>>

\* The links whose key is shared with no link about another record.
OwnKey == {l \in Links : \A m \in Links : Key(m) = Key(l) => Target(m) = Target(l)}

VARIABLES
    pc,          \* "idle", or in a run: "loading" the credentials file, "engine" between
                 \* two systems, else the system that is asked
    file, unread, \* the credentials file, and its workspaces that are not looked at yet
    registered,  \* systems with a prober in this run
    store,       \* slackauth.Store, and the hosts its Load has seen
    ls,          \* the links of this run, one per key -> the position it was met at
    left,        \* systems not asked yet
    calls,       \* the calls the prober has still to make
    results, late,
    run, failed, \* the run, and the calls that failed in it
    clean        \* results of an earlier run in which nothing failed, or None

vars == <<pc, file, unread, registered, store, ls, left, calls, results, late, run, failed, clean>>

Active(what)   == [checked |-> TRUE, of |-> what, reason |-> None]
Unchecked(why) == [checked |-> FALSE, of |-> None, reason |-> why]

\* Adds what f says to the results g.
Over(f, g) == [k \in DOMAIN f \cup DOMAIN g |-> IF k \in DOMAIN f THEN f[k] ELSE g[k]]

\* The results f of the links in its domain, by key.
ByKey(f) == [k \in {Key(l) : l \in DOMAIN f} |-> f[CHOOSE l \in DOMAIN f : Key(l) = k]]
All(S, why) == [k \in {Key(l) : l \in S} |-> Unchecked(why)]

----------------------------------------------------------------------------
(* Credentials                                                             *)

NoStore == [byHost |-> <<>>, seen |-> {}, single |-> None]

\* The workspaces of file f with both halves of a credential, and those that claim host h.
Complete(f)  == {w \in f : w.complete}
Claims(f, h) == {w \in Complete(f) : w.host = h}

\* The file is read, or it is not; so is Google's token.
Begin(readable, token) ==
    /\ pc = "idle" /\ run < MaxRuns
    /\ pc' = "loading" /\ run' = run + 1
    /\ failed' = (IF readable THEN {} ELSE {[what |-> <<"store">>, why |-> "error"]})
                 \cup (IF token THEN {} ELSE {[what |-> <<"token">>, why |-> "error"]})
    /\ Cardinality(failed') <= MaxFaults
    /\ unread' = (IF readable THEN file ELSE {}) /\ store' = NoStore
    /\ registered' = Installed \cup (IF token THEN Google ELSE {})
    /\ ls' = <<>> /\ left' = {} /\ results' = <<>> /\ late' = FALSE
    /\ UNCHANGED <<file, calls, clean>>

\* slackauth.Load's loop body, over the workspaces in the order the map gives them.  Two
\* workspaces that claim one host take it from each other.
LoadWorkspace(w) ==
    /\ pc = "loading" /\ unread' = unread \ {w}
    /\ store' = IF ~w.complete THEN store
                ELSE [byHost |-> IF w.host = None THEN store.byHost
                                 ELSE IF w.host \in store.seen
                                      THEN Restrict(store.byHost, DOMAIN store.byHost \ {w.host})
                                      ELSE Over([h \in {w.host} |-> w.team], store.byHost),
                      seen   |-> store.seen \cup ({w.host} \ {None}),
                      single |-> w.team]
    /\ UNCHANGED <<pc, file, registered, ls, left, calls, results, late, run, failed, clean>>

\* The last workspace stays for every host only if it is the sole one.
Loaded == [store EXCEPT !.single = IF Cardinality(Complete(file)) = 1 THEN @ ELSE None]

\* The workspace whose credentials serve host h, None if there are none.
ForHost(h) == IF h \in DOMAIN store.byHost THEN store.byHost[h] ELSE store.single

EmptyStore(s) == DOMAIN s.byHost = {} /\ s.single = None

\* Room for another failure, a deadline that passes included.
Fault == Cardinality(failed) + (IF late THEN 1 ELSE 0) < MaxFaults

----------------------------------------------------------------------------
(* The engine                                                              *)

\* Of the links with the key of l, the one that corpus c meets first is kept.
FirstAt(c, l) == Min({i \in DOMAIN c : Key(c[i]) = Key(l)})
Kept(c) == {l \in Range(c) : l = c[FirstAt(c, l)]}

Of(s) == {l \in DOMAIN ls : l.system = s}
Asked(s)  == {l \in Of(s) : Cardinality({m \in Of(s) : ls[m] < ls[l]}) < MaxLinks}
Excess(s) == Of(s) \ Asked(s)

Init ==
    /\ pc = "idle" /\ file \in Files /\ unread = {} /\ registered = {} /\ store = NoStore
    /\ ls = <<>> /\ left = {} /\ calls = {} /\ results = <<>> /\ late = FALSE /\ run = 0
    /\ failed = {} /\ clean = None

\* The probers are built, Slack's if there are credentials; the links are deduped and grouped.
StartEngine(c) ==
    /\ pc = "loading" /\ unread = {}
    /\ pc' = "engine" /\ store' = Loaded
    /\ registered' = registered \cup (IF EmptyStore(Loaded) THEN {} ELSE {"slack"})
    /\ ls' = [l \in Kept(c) |-> FirstAt(c, l)] /\ left' = {l.system : l \in Range(c)}
    /\ UNCHANGED <<file, unread, calls, results, late, run, failed, clean>>

\* A system without a prober.
Unprobed(s) ==
    /\ pc = "engine" /\ s \in left \ registered
    /\ results' = Over(All(Excess(s), "tooMany"),
                   Over(All(Asked(s), IF s \in NotProbeable THEN "notProbeable" ELSE "noProbe"),
                        results))
    /\ left' = left \ {s}
    /\ UNCHANGED <<pc, file, unread, registered, store, ls, calls, late, run, failed, clean>>

\* The prober of s is handed its links ...
Turn(s) == pc = "engine" /\ s \in left \cap registered

\* ... answers those in direct, and goes on to make the calls cs.
Ask(s, direct, cs) ==
    /\ pc' = s /\ left' = left \ {s} /\ calls' = cs
    /\ results' = Over(All(Excess(s), "tooMany"), Over(direct, results))
    /\ UNCHANGED <<file, unread, registered, store, ls, late, run, failed, clean>>

\* The prober returns; a key it left out is unchecked.
Return ==
    /\ pc \notin {"idle", "loading", "engine"} /\ calls = {}
    /\ results' = Over(results, All(Asked(pc), "error"))
    /\ pc' = "engine"
    /\ UNCHANGED <<file, unread, registered, store, ls, left, calls, late, run, failed, clean>>

\* Every system was asked; the links are reconciled with the work log (ProbeRun).
End ==
    /\ pc = "engine" /\ left = {}
    /\ pc' = "idle"
    /\ clean' = IF failed = {} /\ ~late THEN results ELSE clean
    /\ UNCHANGED <<file, unread, registered, store, ls, left, calls, results, late, run, failed>>

----------------------------------------------------------------------------
(* Calls: what is asked of the service, for which links, and their place   *)
(* in the order in which they are made                                     *)

Call(at, what, about) == [at |-> at, what |-> what, about |-> about]
Unparsed(S) == {l \in S : l.record = None}
Parsed(S)   == S \ Unparsed(S)

\* One call per link, in the order the links were met.
OneByOne(S) == {Call(ls[l], Key(l), {l}) : l \in S}

\* Aha, Gmail and Drive: one call per link.
AskRest(s) ==
    /\ Turn(s) /\ s \notin {"slack", "salesforce", "github"}
    /\ Ask(s, All(Unparsed(Asked(s)), "unparseable"), OneByOne(Parsed(Asked(s))))

\* The place of a link in the order in which it was met.
GitHubOrderMet(l) == ls[l]

\* GitHub's links are sorted, which makes the cap deterministic.
GitHubOrder(l) == l.record

RecordsAhead(l, S) == {m \in S : GitHubOrder(m) < GitHubOrder(l)}
WithinCap(S) == {l \in S : Cardinality(RecordsAhead(l, S)) < MaxProbes}

AskGitHub ==
    LET S == Parsed(Asked("github"))
    IN  /\ Turn("github")
        /\ Ask("github", Over(All(Unparsed(Asked("github")), "unparseable"),
                              All(S \ WithinCap(S), "tooMany")),
               {Call(GitHubOrder(l), Key(l), {l}) : l \in WithinCap(S)})

IsCase(l) == l.system = "salesforce" /\ l.record \in CaseNumbers
IsId(l)   == l.system = "salesforce" /\ l.record \notin CaseNumbers \cup {None}

\* objectFor: a known prefix decides, else the object of the URL.
ObjectFor(l) == IF KeyObject[l.record] # None THEN KeyObject[l.record] ELSE l.hint

\* Salesforce: one query per object, sorted, up to the cap, and one for the Cases.
Group(o, S) == {l \in S : IsId(l) /\ ObjectFor(l) = o}
Objects(S)  == {ObjectFor(l) : l \in {m \in S : IsId(m)}} \ {None}
ObjectsAhead(o, S)  == {p \in Objects(S) : p < o}
QueriedObjects(S) == {o \in Objects(S) : Cardinality(ObjectsAhead(o, S)) < MaxQueryGroups}

AskSalesforce ==
    LET S == Asked("salesforce")
        cases == {l \in S : IsCase(l)}
        excess == UNION {Group(o, S) : o \in Objects(S) \ QueriedObjects(S)}
    IN  /\ Turn("salesforce")
        /\ Ask("salesforce",
               Over(All(Unparsed(S), "unparseable"),
                Over(All(Group(None, S), "noProbe"), All(excess, "tooMany"))),
               {Call(Cardinality(ObjectsAhead(o, S)), <<"query", o>>, Group(o, S)) : o \in QueriedObjects(S)}
                 \cup (IF cases = {} THEN {} ELSE {Call(MaxQueryGroups, <<"query", Cases>>, cases)}))

\* The channel's id alone.
SlackGroupByChannel(l) == <<"channel", None, Channel[l.record]>>

\* Slack's chanKey: the host, for its workspace, and the channel.
SlackGroup(l) == <<"channel", l.host, Channel[l.record]>>

\* Slack: one history per channel and host, in any order, as the map gives them; the calls for
\* the threads of a channel come before the next history.
AskSlack ==
    LET S == Parsed(Asked("slack"))
        last == 1 + Max(Range(ls))
    IN  /\ Turn("slack")
        /\ Ask("slack", All(Unparsed(Asked("slack")), "unparseable"),
               {Call(last, SlackGroup(l), {m \in S : SlackGroup(m) = SlackGroup(l)}) : l \in S})

----------------------------------------------------------------------------
(* The services' answers                                                   *)

\* Call c is the next one.
Due(c) == c \in calls /\ \A d \in calls : c.at <= d.at

\* Call c ends with these results, and the calls more are to be made, too.
Answered(c, res, more) ==
    /\ results' = Over(res, results)
    /\ calls' = (calls \ {c}) \cup more
    /\ UNCHANGED <<pc, file, unread, registered, store, ls, left, late, run, clean>>

\* The records a query returns: of its object, and asked for by either form of their id.
Returned(c) == {r \in DOMAIN Org : /\ c.what = <<"query", Org[r]>>
                                   /\ \E l \in c.about : Canonical[r] = Canonical[l.record]}

\* Any record that comes back is taken for the link's.
MatchesAny(r, l) == TRUE

\* The 18 characters that are returned match the 15 that may be linked, a Case its number.
Matches(r, l) == Canonical[r] = Canonical[l.record]

Query(c) ==
    /\ Due(c) /\ ~late /\ pc = "salesforce"
    /\ LET Found(l) == {r \in Returned(c) : Matches(r, l)}
           res == [l \in c.about |->
                     IF Found(l) = {} THEN Unchecked("error")
                     ELSE Active(<<"salesforce", Canonical[CHOOSE r \in Found(l) : TRUE]>>)]
       IN  Answered(c, ByKey(res), {})
    /\ UNCHANGED failed

\* A call for one record.
GetRecord(c) ==
    /\ Due(c) /\ ~late /\ pc \notin {"slack", "salesforce"}
    /\ Answered(c, ByKey([l \in c.about |-> Active(<<pc, Canonical[l.record]>>)]), {})
    /\ UNCHANGED failed

\* The credentials of a channel: of the host its links have in common.
Team(c) == ForHost((CHOOSE l \in c.about : TRUE).host)

IsHistory(c) == c.what[1] = "channel"

\* No workspace matches: no call is made.
NoCredentials(c) ==
    /\ Due(c) /\ pc = "slack" /\ IsHistory(c) /\ Team(c) = None
    /\ Answered(c, All(c.about, "auth"), {})
    /\ UNCHANGED failed

\* The channels a workspace has.
Channels(team) == {Channel[x[2]] : x \in {y \in Threads : y[1] = team}}

\* conversations.history answers the links in window, the others take a call each;
\* which ones, ProbeRun tells.  A workspace without the channel refuses.
History(c, window) ==
    /\ Due(c) /\ ~late /\ pc = "slack" /\ IsHistory(c) /\ Team(c) # None
    /\ window \subseteq {l \in c.about : <<Team(c), l.record>> \in Threads}
    /\ IF \A l \in c.about : Channel[l.record] \in Channels(Team(c))
       THEN Answered(c, ByKey([l \in window |-> Active(<<Team(c), l.record>>)]),
                     OneByOne(c.about \ window))
       ELSE Answered(c, All(c.about, "error"), {})
    /\ UNCHANGED failed

\* The time of a thread in window does not parse: its link is unchecked, the others are
\* answered as ever.
HistoryGarbled(c, window, bad) ==
    /\ Due(c) /\ ~late /\ pc = "slack" /\ IsHistory(c) /\ Team(c) # None
    /\ bad # {} /\ bad \subseteq window
    /\ window \subseteq {l \in c.about : <<Team(c), l.record>> \in Threads}
    /\ \A l \in c.about : Channel[l.record] \in Channels(Team(c))
    /\ Answered(c, ByKey([l \in window |-> IF l \in bad THEN Unchecked("unparseable")
                                           ELSE Active(<<Team(c), l.record>>)]),
                OneByOne(c.about \ window))
    /\ failed' = failed \cup {[what |-> Key(l), why |-> "unparseable"] : l \in bad}
    /\ Cardinality(failed') <= MaxFaults

\* confirmThread, with the credentials of its channel.
Replies(c) ==
    /\ Due(c) /\ ~late /\ pc = "slack" /\ ~IsHistory(c)
    /\ LET res == [l \in c.about |-> IF <<Team(c), l.record>> \in Threads
                                     THEN Active(<<Team(c), l.record>>) ELSE Unchecked("error")]
       IN  Answered(c, ByKey(res), {})
    /\ UNCHANGED failed

\* The credentials of a Slack call are there before it is made.
Made(c) == pc = "slack" => Team(c) # None

\* A refused, failed or garbled call: the links it was about, and no others.
CallFails(c, why) ==
    /\ Due(c) /\ ~late /\ Fault /\ Made(c)
    /\ Answered(c, All(c.about, why), {})
    /\ failed' = failed \cup {[what |-> c.what, why |-> why]}

\* The run's deadline passes; every call from then on fails by it.
Deadline ==
    /\ pc \notin {"idle", "loading"} /\ ~late /\ Fault /\ late' = TRUE
    /\ UNCHANGED <<pc, file, unread, registered, store, ls, left, calls, results, run, failed, clean>>

TimesOut(c) ==
    /\ Due(c) /\ late /\ Made(c)
    /\ Answered(c, All(c.about, "timeout"), {})
    /\ UNCHANGED failed

Engine ==
    \/ \E readable, token \in BOOLEAN : Begin(readable, token)
    \/ \E w \in unread : LoadWorkspace(w)
    \/ \E c \in Corpora : StartEngine(c)
    \/ \E s \in left : Unprobed(s)
    \/ Return \/ End \/ Deadline

Prober ==
    \/ \E s \in left : AskRest(s)
    \/ AskGitHub \/ AskSalesforce \/ AskSlack
    \/ \E c \in calls :
          \/ Query(c) \/ GetRecord(c) \/ NoCredentials(c) \/ Replies(c) \/ TimesOut(c)
          \/ \E window \in SUBSET c.about :
                \/ History(c, window)
                \/ \E bad \in SUBSET window : HistoryGarbled(c, window, bad)
          \/ \E why \in {"error", "auth"} : CallFails(c, why)

\* Two runs, or as many as MaxRuns, and no more.
Done == pc = "idle" /\ run = MaxRuns /\ UNCHANGED vars

Next == Engine \/ Prober \/ Done
Spec == Init /\ [][Next]_vars

----------------------------------------------------------------------------
(* Properties                                                              *)

\* What is taken for granted of Slack: the one workspace that claims a host is the host's own,
\* and a sole workspace, whose token is used for every host, cannot read another's threads.
ASSUME WorkspacesAssumption ==
    \A f \in Files, w \in UNION Files, l \in OwnKey :
        l.system = "slack" /\ l.record # None =>
            /\ Claims(f, l.host) = {w} => w.team = TeamOf[l.host]
            /\ Complete(f) = {w} => w.team = TeamOf[l.host] \/ <<w.team, l.record>> \notin Threads

\* An answer is the activity of the record its link is about, however links are grouped
\* into queries and channels, whatever ids are matched by, and whoever's token was used.
AnswersAreOwn ==
    \A l \in {m \in OwnKey : m.record # None /\ Key(m) \in DOMAIN results} :
        results[Key(l)].checked => results[Key(l)].of = Target(l)

\* slack.go: "A channel ID is unique within a workspace, not globally, so keying on the
\* bare ID could merge links from two workspaces into one call": no link is answered
\* from another workspace.
WorkspacesKeptApart ==
    \A l \in {m \in Links : m.system = "slack" /\ m.record # None /\ Key(m) \in DOMAIN results} :
        results[Key(l)].checked => results[Key(l)].of = Target(l)

\* A call failed for this reason.
Failed(what, why) == [what |-> what, why |-> why] \in failed

\* The credentials of the system or the host of l are not there.
NotServed(l, why) ==
    \/ why = (IF l.system \in NotProbeable THEN "notProbeable" ELSE "noProbe")
       /\ l.system \notin registered
    \/ why = "auth" /\ l.system = "slack" /\ ForHost(l.host) = None

\* The record of l cannot be asked for, or the service does not have it.
NotFound(l, why) ==
    \/ why = "noProbe" /\ IsId(l) /\ ObjectFor(l) = None
    \/ why = "error" /\ IsId(l) /\ ~ \E r \in DOMAIN Org : Matches(r, l) /\ Org[r] = ObjectFor(l)
    \/ why = "error" /\ IsCase(l) /\ ~ \E r \in DOMAIN Org : Matches(r, l) /\ Org[r] = Cases
    \/ why = "error" /\ l.system = "slack" /\ <<ForHost(l.host), l.record>> \notin Threads

\* A cap is reached by the links of the system before l, or by the objects or the records
\* before those of l.
AboveCap(l) == Cardinality({m \in Of(l.system) : ls[m] < ls[l]}) >= MaxLinks

LeftOut(l, why) ==
    /\ why = "tooMany"
    /\ \/ IsId(l) /\ ObjectFor(l) # None
          /\ Cardinality(ObjectsAhead(ObjectFor(l), Of("salesforce"))) >= MaxQueryGroups
       \/ l.system = "github"
          /\ Cardinality({m \in Parsed(Of("github")) : m.record < l.record}) >= MaxProbes

\* The call for l itself, or the one for its channel, its object or the Cases.
CallFailed(l, why) ==
    \/ Failed(Key(l), why)
    \/ l.system = "slack" /\ Failed(<<"channel", l.host, Channel[l.record]>>, why)
    \/ IsId(l) /\ Failed(<<"query", ObjectFor(l)>>, why)
    \/ IsCase(l) /\ Failed(<<"query", Cases>>, why)

Explains(l, why) ==
    \/ why = "timeout" /\ late
    \/ why = "tooMany" /\ AboveCap(l)
    \/ NotServed(l, why)
    \/ IF l.record = None THEN why = "unparseable"
       ELSE NotFound(l, why) \/ LeftOut(l, why) \/ CallFailed(l, why)

Reported == pc = "idle" /\ run > 0

\* A run answers every link it kept, and one that is unchecked has its own reason: a call
\* that failed, credentials that are missing, a cap that is reached for another link is none.
FailureStaysLocal ==
    Reported => \A l \in DOMAIN ls :
        /\ Key(l) \in DOMAIN results
        /\ results[Key(l)].checked \/ Explains(l, results[Key(l)].reason)

\* All links of system s, which may be met in any order, have keys of their own.
InSystem(s) == {l \in Links : l.system = s}
OneForm(s) == \A l, m \in InSystem(s) : Key(l) = Key(m) => l = m

\* Runs in which nothing fails say the same of every link, in whatever order the links
\* are met and the maps are walked: the caps leave out the same links, and an ambiguous
\* host is not resolved by a coin flip.  Excepted are systems above the engine's own cap,
\* which keeps the links it met first, and systems where links of two forms share a key
\* (a Salesforce id with and without an object), of which it keeps the one it met first.
RunsAgree ==
    clean # None /\ failed = {} /\ ~late =>
        \A k \in DOMAIN results :
            OneForm(k[1]) /\ Cardinality(InSystem(k[1])) <= MaxLinks => results[k] = clean[k]

=============================================================================

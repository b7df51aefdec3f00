--------------------------- MODULE ProbersProofs ---------------------------
(***************************************************************************)
(* Theorems about one run of the engine and its probers, for any links,    *)
(* credentials, caps and failures: whose activity an answer is, and why a  *)
(* link has none.                                                          *)
(***************************************************************************)
EXTENDS Probers, TLAPS, FiniteSetTheorems, WellFoundedInduction

----------------------------------------------------------------------------
(* Results                                                                 *)

LEMMA AllAt ==
    ASSUME NEW S, NEW why
    PROVE  \E h : /\ h = All(S, why)
                  /\ \A l \in S : Key(l) \in DOMAIN h /\ h[Key(l)] = Unchecked(why)
                  /\ \A k \in DOMAIN h : h[k] = Unchecked(why) /\ \E l \in S : Key(l) = k
<1>1. PICK h : h = All(S, why)
  OBVIOUS
<1>2. /\ DOMAIN h = {Key(l) : l \in S}
      /\ \A k \in DOMAIN h : h[k] = Unchecked(why)
  BY <1>1 DEF All
<1> QED BY <1>1, <1>2

LEMMA ByKeyAt ==
    ASSUME NEW f
    PROVE  \E h : /\ h = ByKey(f)
                  /\ \A l \in DOMAIN f : Key(l) \in DOMAIN h
                  /\ \A k \in DOMAIN h : \E l \in DOMAIN f : Key(l) = k /\ h[k] = f[l]
<1>1. DOMAIN ByKey(f) = {Key(l) : l \in DOMAIN f}
  BY DEF ByKey
<1>2. ASSUME NEW k \in {Key(l) : l \in DOMAIN f}
      PROVE  \E l \in DOMAIN f : Key(l) = k /\ ByKey(f)[k] = f[l]
  <2>1. PICK l : l = CHOOSE m \in DOMAIN f : Key(m) = k
    OBVIOUS
  <2>2. l \in DOMAIN f /\ Key(l) = k
    BY <2>1
  <2>3. ByKey(f)[k] = f[l]
    BY <2>1 DEF ByKey
  <2> QED BY <2>2, <2>3
<1> QED BY <1>1, <1>2

LEMMA ResultFields ==
    ASSUME NEW x
    PROVE  /\ Active(x).checked = TRUE /\ Active(x).of = x
           /\ Unchecked(x).checked = FALSE /\ Unchecked(x).reason = x
BY DEF Active, Unchecked

----------------------------------------------------------------------------
(* The invariant                                                           *)

\* What a prober reads for link l: the thread in the workspace of the credentials for its
\* host, or the record.
Read(l) == IF l.system = "slack" THEN <<ForHost(l.host), l.record>>
           ELSE <<l.system, Canonical[l.record]>>

\* What the Salesforce link l is queried by, and whether the caps of its prober leave it out.
QueriedBy(l) == IF IsCase(l) THEN Cases ELSE ObjectFor(l)

OverCap(l) ==
    \/ IsId(l) /\ ObjectFor(l) \notin QueriedObjects(Asked("salesforce"))
    \/ l.system = "github" /\ l \notin WithinCap(Parsed(Asked("github")))

\* Whether the service has the record of l.
Exists(l) ==
    /\ l.system = "slack" => Read(l) \in Threads
    /\ l.system = "salesforce" => \E r \in DOMAIN Org : Matches(r, l) /\ Org[r] = QueriedBy(l)

\* The result of l when no call fails.
Verdict(l) ==
    IF AboveCap(l) THEN Unchecked("tooMany")
    ELSE IF l.system \notin registered
    THEN Unchecked(IF l.system \in NotProbeable THEN "notProbeable" ELSE "noProbe")
    ELSE IF l.record = None THEN Unchecked("unparseable")
    ELSE IF l.system = "slack" /\ ForHost(l.host) = None THEN Unchecked("auth")
    ELSE IF IsId(l) /\ ObjectFor(l) = None THEN Unchecked("noProbe")
    ELSE IF OverCap(l) THEN Unchecked("tooMany")
    ELSE IF Exists(l) THEN Active(Read(l)) ELSE Unchecked("error")

\* Result r is true of link l.
Told(l, r) ==
    /\ IF r.checked
       THEN /\ l.record # None /\ r.of = Read(l)
            /\ l.system = "slack" => ForHost(l.host) # None /\ Read(l) \in Threads
       ELSE Explains(l, r.reason)
    /\ failed = {} /\ ~late => r = Verdict(l)

Outside == {"idle", "loading", "engine"}

\* The links of a run: one for each key, of systems that are asked one by one.
KeptInv ==
    /\ DOMAIN ls \subseteq Links /\ IsFiniteSet(DOMAIN ls)
    /\ \A l, m \in DOMAIN ls : Key(l) = Key(m) => l = m
    /\ left \subseteq {l.system : l \in Links}
    /\ IF pc \in Outside THEN calls = {} ELSE pc \in registered \ left
    /\ pc \in {"idle", "loading"} => left = {}
    /\ pc = "loading" => DOMAIN ls = {} /\ DOMAIN results = {}

\* What call c asks for is what link l needs.
Asks(c, l) ==
    \/ l.system # "salesforce" /\ c.what = Key(l)
    \/ l.system = "slack" /\ c.what = <<"channel", l.host, Channel[l.record]>>
    \/ IsId(l) /\ c.what = <<"query", ObjectFor(l)>>
    \/ IsCase(l) /\ c.what = <<"query", Cases>>

\* A call the prober of system s makes.
CallOf(s, c) ==
    /\ c.about # {} /\ c.about \subseteq Parsed(Asked(s))
    /\ \A l \in c.about : Asks(c, l) /\ ~OverCap(l)
    /\ s = "slack" /\ ~IsHistory(c) => \A l \in c.about : ForHost(l.host) # None

\* Every result is true of the link whose key it has ...
Sound == \A k \in DOMAIN results : \E l \in DOMAIN ls : Key(l) = k /\ Told(l, results[k])

\* ... and a link without a result has its system or its call still to come.
Pending ==
    \A l \in DOMAIN ls :
        \/ l.system \in left
        \/ Key(l) \in DOMAIN results
        \/ l.system = pc /\ \E c \in calls : l \in c.about

EngineInv == KeptInv /\ (\A c \in calls : CallOf(pc, c)) /\ Sound /\ Pending

----------------------------------------------------------------------------
(* Links and calls                                                         *)

LEMMA KeptLinks ==
    ASSUME NEW c \in Corpora
    PROVE  /\ Kept(c) \subseteq Links
           /\ \A l, m \in Kept(c) : Key(l) = Key(m) => l = m
<1>1. Kept(c) \subseteq Links
  BY DEF Kept, Links
<1>2. ASSUME NEW l \in Kept(c), NEW m \in Kept(c), Key(l) = Key(m) PROVE l = m
  <2>1. FirstAt(c, l) = FirstAt(c, m)
    BY <1>2 DEF FirstAt
  <2>2. l = c[FirstAt(c, l)] /\ m = c[FirstAt(c, m)]
    BY DEF Kept
  <2> QED BY <2>1, <2>2
<1> QED BY <1>1, <1>2

\* The credentials of a call are those for the host of every link it is about.
LEMMA TeamOfCall ==
    ASSUME KeptInv, pc = "slack", NEW c \in calls, CallOf(pc, c), NEW l \in c.about
    PROVE  Team(c) = ForHost(l.host)
<1>1. PICK m : m = CHOOSE n \in c.about : TRUE
  OBVIOUS
<1>2. m \in c.about /\ Team(c) = ForHost(m.host)
  BY <1>1 DEF Team
<1>3. /\ l \in DOMAIN ls /\ m \in DOMAIN ls
      /\ l.system = "slack" /\ m.system = "slack" /\ Asks(c, l) /\ Asks(c, m)
  BY <1>2 DEF CallOf, Parsed, Asked, Of
<1>4. ASSUME NEW n \in {l, m}
      PROVE  \/ IsHistory(c) /\ c.what = <<"channel", n.host, Channel[n.record]>>
             \/ ~IsHistory(c) /\ c.what = Key(n)
  <2>1. c.what = Key(n) \/ c.what = <<"channel", n.host, Channel[n.record]>>
    BY <1>3 DEF Asks, IsId, IsCase
  <2>2. Key(n)[1] # "channel"
    BY <1>3 DEF Key
  <2> QED BY <2>1, <2>2 DEF IsHistory
<1>5. CASE IsHistory(c)
  <2>1. <<"channel", l.host, Channel[l.record]>> = <<"channel", m.host, Channel[m.record]>>
    BY <1>4, <1>5
  <2> QED BY <1>2, <2>1
<1>6. CASE ~IsHistory(c)
  BY <1>2, <1>3, <1>4, <1>6 DEF KeptInv
<1> QED BY <1>5, <1>6

LEMMA OverCapStays ==
    ASSUME UNCHANGED ls, NEW l
    PROVE  OverCap(l)' = OverCap(l)
<1>1. \A s : Asked(s)' = Asked(s)
  BY DEF Asked, Of
<1>2. Parsed(Asked("github"))' = Parsed(Asked("github"))
  BY <1>1 DEF Parsed, Unparsed
<1>3. \A x : WithinCap(x)' = WithinCap(x)
  BY DEF WithinCap, RecordsAhead, GitHubOrder
<1> QED BY <1>1, <1>2, <1>3 DEF OverCap

\* What is true of a link stays true when more calls fail.
LEMMA ToldStays ==
    ASSUME NEW l, NEW r, Told(l, r), UNCHANGED <<ls, store, registered>>,
           failed \subseteq failed', late => late'
    PROVE  Told(l, r)'
<1>1. ForHost(l.host)' = ForHost(l.host) /\ Read(l)' = Read(l)
  BY DEF ForHost, Read
<1>2. Explains(l, r.reason) => Explains(l, r.reason)'
  <2>1. \A what, why : Failed(what, why) => Failed(what, why)'
    BY DEF Failed
  <2>2. \A why : CallFailed(l, why) => CallFailed(l, why)'
    BY <2>1 DEF CallFailed
  <2>3. \A why : LeftOut(l, why) => LeftOut(l, why)'
    BY DEF LeftOut, Of, Parsed, Unparsed
  <2>4. \A why : /\ NotFound(l, why) => NotFound(l, why)'
                 /\ NotServed(l, why) => NotServed(l, why)'
    BY <1>1 DEF NotFound, NotServed
  <2>5. AboveCap(l)' = AboveCap(l)
    BY DEF AboveCap, Of
  <2> QED BY <2>2, <2>3, <2>4, <2>5 DEF Explains
<1>3. Verdict(l)' = Verdict(l)
  <2>1. AboveCap(l)' = AboveCap(l)
    BY DEF AboveCap, Of
  <2>2. OverCap(l)' = OverCap(l)
    BY OverCapStays
  <2>3. Exists(l)' = Exists(l)
    BY <1>1 DEF Exists
  <2> QED BY <1>1, <2>1, <2>2, <2>3 DEF Verdict
<1> QED BY <1>1, <1>2, <1>3 DEF Told

LEMMA ResultsAfter ==
    ASSUME NEW res, results' = Over(res, results)
    PROVE  /\ DOMAIN results' = DOMAIN res \cup DOMAIN results
           /\ \A k \in DOMAIN res : results'[k] = res[k]
           /\ \A k \in DOMAIN results \ DOMAIN res : results'[k] = results[k]
BY DEF Over

\* Results that are true of links of the run are added to the others.
LEMMA SoundAfter ==
    ASSUME Sound, UNCHANGED <<ls, store, registered>>, failed \subseteq failed', late => late',
           NEW res, results' = Over(res, results),
           \A k \in DOMAIN res : \E l \in DOMAIN ls : Key(l) = k /\ Told(l, res[k])'
    PROVE  Sound'
<1>0. /\ DOMAIN results' = DOMAIN res \cup DOMAIN results
      /\ \A k \in DOMAIN res : results'[k] = res[k]
      /\ \A k \in DOMAIN results \ DOMAIN res : results'[k] = results[k]
  BY ResultsAfter
<1>1. ASSUME NEW k, NEW x, k \in DOMAIN results', x = results'[k]
      PROVE  \E l \in DOMAIN ls : Key(l) = k /\ Told(l, x)'
  <2>1. CASE k \in DOMAIN res
    <3>1. x = res[k]
      BY <1>0, <1>1, <2>1
    <3> QED BY <2>1, <3>1
  <2>2. CASE k \in DOMAIN results \ DOMAIN res
    <3>1. x = results[k]
      BY <1>0, <1>1, <2>2
    <3>2. PICK l \in DOMAIN ls : Key(l) = k /\ Told(l, x)
      BY <2>2, <3>1 DEF Sound
    <3>3. Told(l, x)'
      BY <3>2, ToldStays
    <3> QED BY <3>2, <3>3
  <2> QED BY <1>0, <1>1, <2>1, <2>2
<1> QED BY <1>1 DEF Sound

\* A call ends, in results that are true of its links and in calls for the others.
LEMMA AnswerStep ==
    ASSUME EngineInv, NEW c \in calls, NEW res, NEW more, Answered(c, res, more),
           failed \subseteq failed',
           \A k \in DOMAIN res : \E l \in c.about : Key(l) = k /\ Told(l, res[k])',
           \A l \in c.about : Key(l) \in DOMAIN res \/ \E d \in more : l \in d.about,
           \A d \in more : CallOf(pc, d)
    PROVE  EngineInv'
<1>1. /\ UNCHANGED <<pc, store, registered, ls, left, late>> /\ results' = Over(res, results)
      /\ calls' = (calls \ {c}) \cup more /\ pc \notin Outside /\ CallOf(pc, c)
  BY DEF Answered, EngineInv, KeptInv
<1>2. c.about \subseteq DOMAIN ls
  BY <1>1 DEF CallOf, Parsed, Asked, Of
<1>3. KeptInv'
  BY <1>1 DEF EngineInv, KeptInv, Outside
<1>4. \A d \in calls' : CallOf(pc, d)'
  <2>1. Asked(pc)' = Asked(pc) /\ \A h : ForHost(h)' = ForHost(h)
    BY <1>1 DEF Asked, Of, ForHost
  <2>2. \A l : OverCap(l)' = OverCap(l)
    BY <1>1, OverCapStays
  <2> QED BY <1>1, <2>1, <2>2 DEF EngineInv, CallOf
<1>5. Sound'
  BY <1>1, <1>2, SoundAfter DEF EngineInv
<1>6. Pending'
  <2>1. DOMAIN results' = DOMAIN res \cup DOMAIN results
    BY <1>1, ResultsAfter
  <2> QED BY <1>1, <2>1 DEF EngineInv, Pending
<1> QED BY <1>3, <1>4, <1>5, <1>6 DEF EngineInv

\* A link above the engine's cap.
LEMMA ExcessIsAbove ==
    ASSUME KeptInv, NEW s, NEW l \in Excess(s)
    PROVE  l \in DOMAIN ls /\ l.system = s /\ AboveCap(l)
<1>1. l \in DOMAIN ls /\ l.system = s /\ ~(Cardinality({m \in Of(s) : ls[m] < ls[l]}) < MaxLinks)
  BY DEF Excess, Asked, Of
<1>2. Cardinality({m \in Of(s) : ls[m] < ls[l]}) \in Nat /\ MaxLinks \in Nat
  <2>1. {m \in Of(s) : ls[m] < ls[l]} \subseteq DOMAIN ls
    BY DEF Of
  <2> QED BY <2>1, FS_Subset, FS_CardinalityType, ProbersAssumption DEF KeptInv
<1> QED BY <1>1, <1>2 DEF AboveCap

LEMMA AskedIsBelow ==
    ASSUME KeptInv, NEW s, NEW l \in Asked(s)
    PROVE  l \in DOMAIN ls /\ l.system = s /\ ~AboveCap(l)
<1>1. l \in DOMAIN ls /\ l.system = s /\ Cardinality({m \in Of(s) : ls[m] < ls[l]}) < MaxLinks
  BY DEF Asked, Of
<1>2. Cardinality({m \in Of(s) : ls[m] < ls[l]}) \in Nat /\ MaxLinks \in Nat
  <2>1. {m \in Of(s) : ls[m] < ls[l]} \subseteq DOMAIN ls
    BY DEF Of
  <2> QED BY <2>1, FS_Subset, FS_CardinalityType, ProbersAssumption DEF KeptInv
<1> QED BY <1>1, <1>2 DEF AboveCap

LEMMA OverOver ==
    ASSUME NEW f, NEW g, NEW h
    PROVE  Over(f, Over(g, h)) = Over(Over(f, g), h)
BY DEF Over

\* The results for the links above the cap, and those in direct, are true of their links.
Directly(s, direct) ==
    \A k \in DOMAIN direct : \E l \in Asked(s) : Key(l) = k /\ Told(l, direct[k])

LEMMA DirectResults ==
    ASSUME KeptInv, NEW s, NEW direct, Directly(s, direct), NEW res,
           res = Over(All(Excess(s), "tooMany"), direct)
    PROVE  /\ \A l \in Excess(s) : Key(l) \in DOMAIN res
           /\ DOMAIN direct \subseteq DOMAIN res
           /\ \A k \in DOMAIN res : \E l \in DOMAIN ls : Key(l) = k /\ Told(l, res[k])
<1>1. PICK many : /\ many = All(Excess(s), "tooMany")
                  /\ \A l \in Excess(s) : Key(l) \in DOMAIN many
                  /\ \A k \in DOMAIN many : many[k] = Unchecked("tooMany") /\ \E l \in Excess(s) : Key(l) = k
  BY AllAt
<1>2. /\ DOMAIN res = DOMAIN many \cup DOMAIN direct
      /\ \A k \in DOMAIN many : res[k] = many[k]
      /\ \A k \in DOMAIN direct \ DOMAIN many : res[k] = direct[k]
  <2>1. res = Over(many, direct)
    BY <1>1
  <2>2. /\ DOMAIN res = DOMAIN many \cup DOMAIN direct
        /\ \A k \in DOMAIN res : res[k] = IF k \in DOMAIN many THEN many[k] ELSE direct[k]
    BY <2>1 DEF Over
  <2> QED BY <2>2
<1>3. ASSUME NEW l \in Excess(s) PROVE l \in DOMAIN ls /\ Told(l, Unchecked("tooMany"))
  BY ExcessIsAbove, ResultFields DEF Told, Explains, Verdict
<1>4. Asked(s) \subseteq DOMAIN ls
  BY DEF Asked, Of
<1> QED BY <1>1, <1>2, <1>3, <1>4 DEF Directly

\* A prober is handed its links: each is answered, or a call is about it.
LEMMA AskStep ==
    ASSUME EngineInv, NEW s, Turn(s), NEW direct, NEW cs, Ask(s, direct, cs),
           Directly(s, direct),
           \A l \in Asked(s) : Key(l) \in DOMAIN direct \/ \E c \in cs : l \in c.about,
           \A c \in cs : CallOf(s, c)
    PROVE  EngineInv'
<1>1. /\ UNCHANGED <<store, registered, ls, late, failed>> /\ pc = "engine" /\ pc' = s
      /\ calls' = cs /\ left' = left \ {s} /\ s \in left \cap registered
  BY DEF Ask, Turn
<1>2. s \notin Outside
  BY <1>1, ProbersAssumption DEF EngineInv, KeptInv, Outside
<1>3. KeptInv'
  BY <1>1, <1>2 DEF EngineInv, KeptInv, Outside
<1>4. \A c \in calls' : CallOf(pc, c)'
  <2>1. Asked(s)' = Asked(s) /\ \A h : ForHost(h)' = ForHost(h)
    BY <1>1 DEF Asked, Of, ForHost
  <2>2. \A l : OverCap(l)' = OverCap(l)
    BY <1>1, OverCapStays
  <2> QED BY <1>1, <2>1, <2>2 DEF CallOf
<1>5. PICK res : res = Over(All(Excess(s), "tooMany"), direct)
  OBVIOUS
<1>6. results' = Over(res, results)
  BY <1>5, OverOver DEF Ask
<1>7. /\ \A l \in Excess(s) : Key(l) \in DOMAIN res
      /\ DOMAIN direct \subseteq DOMAIN res
      /\ \A k \in DOMAIN res : \E l \in DOMAIN ls : Key(l) = k /\ Told(l, res[k])
  BY <1>5, DirectResults DEF EngineInv
<1>8. Sound'
  <2>1. ASSUME NEW l, NEW r, Told(l, r) PROVE Told(l, r)'
    BY <1>1, <2>1, ToldStays
  <2>2. \A k \in DOMAIN res : \E l \in DOMAIN ls : Key(l) = k /\ Told(l, res[k])'
    BY <1>7, <2>1
  <2> QED BY <1>1, <1>6, <2>2, SoundAfter DEF EngineInv
<1>9. Pending'
  <2>1. DOMAIN results' = DOMAIN res \cup DOMAIN results
    BY <1>6, ResultsAfter
  <2>2. ASSUME NEW l \in DOMAIN ls, l.system = s
        PROVE  Key(l) \in DOMAIN res \/ \E c \in cs : l \in c.about
    BY <1>7, <2>2 DEF Excess, Of
  <2>3. \A l \in DOMAIN ls : l.system # pc
    BY <1>1, <1>2, ProbersAssumption DEF EngineInv, KeptInv
  <2> QED BY <1>1, <2>1, <2>2, <2>3 DEF EngineInv, Pending
<1> QED BY <1>3, <1>4, <1>8, <1>9 DEF EngineInv

\* Links that did not parse.
LEMMA UnparsedDirectly ==
    ASSUME KeptInv, NEW s \in registered, NEW un, un = All(Unparsed(Asked(s)), "unparseable")
    PROVE  /\ \A l \in Asked(s) \ Parsed(Asked(s)) : Key(l) \in DOMAIN un
           /\ Directly(s, un)
<1>1. /\ \A l \in Unparsed(Asked(s)) : Key(l) \in DOMAIN un
      /\ \A k \in DOMAIN un : un[k] = Unchecked("unparseable") /\ \E l \in Unparsed(Asked(s)) : Key(l) = k
  BY AllAt
<1>2. ASSUME NEW l \in Unparsed(Asked(s)) PROVE l \in Asked(s) /\ Told(l, Unchecked("unparseable"))
  <2>1. l \in Asked(s) /\ l.record = None
    BY DEF Unparsed
  <2>2. l.system \in registered /\ ~AboveCap(l)
    BY <2>1, AskedIsBelow
  <2> QED BY <2>1, <2>2, ResultFields DEF Told, Explains, Verdict
<1> QED BY <1>1, <1>2 DEF Directly, Parsed

\* Results for two kinds of links.
LEMMA BothDirectly ==
    ASSUME NEW s, NEW f, NEW g, Directly(s, f), Directly(s, g)
    PROVE  DOMAIN Over(f, g) = DOMAIN f \cup DOMAIN g /\ Directly(s, Over(f, g))
<1>1. PICK h : h = Over(f, g)
  OBVIOUS
<1>2. /\ DOMAIN h = DOMAIN f \cup DOMAIN g
      /\ \A k \in DOMAIN h : h[k] = IF k \in DOMAIN f THEN f[k] ELSE g[k]
  BY <1>1 DEF Over
<1>3. Directly(s, h)
  BY <1>2 DEF Directly
<1> QED BY <1>1, <1>2, <1>3

\* Links that all have the same reason.
LEMMA AllDirectly ==
    ASSUME NEW s, NEW S, NEW why, NEW f, f = All(S, why),
           \A l \in S : l \in Asked(s) /\ Told(l, Unchecked(why))
    PROVE  (\A l \in S : Key(l) \in DOMAIN f) /\ Directly(s, f)
<1>1. /\ \A l \in S : Key(l) \in DOMAIN f
      /\ \A k \in DOMAIN f : f[k] = Unchecked(why) /\ \E l \in S : Key(l) = k
  BY AllAt
<1> QED BY <1>1 DEF Directly

\* One call for one link.
LEMMA CallForOne ==
    ASSUME NEW s, NEW l \in Parsed(Asked(s)), NEW c, c.what = Key(l), c.about = {l}, ~OverCap(l),
           s \notin {"slack", "salesforce"}
    PROVE  CallOf(s, c)
BY DEF CallOf, Asks, Parsed, Asked, Of

LEMMA RestStep == EngineInv /\ (\E s \in left : AskRest(s)) => EngineInv'
<1> SUFFICES ASSUME EngineInv, NEW s \in left, AskRest(s) PROVE EngineInv'
  OBVIOUS
<1>1. PICK direct : direct = All(Unparsed(Asked(s)), "unparseable")
  OBVIOUS
<1>2. PICK cs : cs = OneByOne(Parsed(Asked(s)))
  OBVIOUS
<1>3. Turn(s) /\ Ask(s, direct, cs) /\ s \notin {"slack", "salesforce", "github"}
  BY <1>1, <1>2 DEF AskRest
<1>4. (\A l \in Asked(s) \ Parsed(Asked(s)) : Key(l) \in DOMAIN direct) /\ Directly(s, direct)
  BY <1>1, <1>3, UnparsedDirectly DEF EngineInv, Turn
<1>5. \A c \in cs : \E l \in Parsed(Asked(s)) : c.what = Key(l) /\ c.about = {l}
  BY <1>2 DEF OneByOne, Call
<1>6. ASSUME NEW l \in Parsed(Asked(s)) PROVE \E c \in cs : l \in c.about
  <2>1. PICK c : c = Call(ls[l], Key(l), {l})
    OBVIOUS
  <2>2. c \in cs /\ l \in c.about
    BY <1>2, <2>1 DEF OneByOne, Call
  <2> QED BY <2>2
<1>7. \A c \in cs : CallOf(s, c)
  <2>1. \A l \in Parsed(Asked(s)) : ~OverCap(l)
    BY <1>3 DEF OverCap, Parsed, Asked, Of, IsId
  <2> QED BY <1>3, <1>5, <2>1, CallForOne
<1> QED BY <1>3, <1>4, <1>6, <1>7, AskStep

LEMMA GitHubStep == EngineInv /\ AskGitHub => EngineInv'
<1> SUFFICES ASSUME EngineInv, AskGitHub PROVE EngineInv'
  OBVIOUS
<1> DEFINE s == "github"
           S == Parsed(Asked(s))
<1>1. PICK un : un = All(Unparsed(Asked(s)), "unparseable")
  OBVIOUS
<1>2. PICK many : many = All(S \ WithinCap(S), "tooMany")
  OBVIOUS
<1>3. PICK direct : direct = Over(un, many)
  OBVIOUS
<1>4. PICK cs : cs = {Call(GitHubOrder(l), Key(l), {l}) : l \in WithinCap(S)}
  OBVIOUS
<1>5. Turn(s) /\ Ask(s, direct, cs)
  BY <1>1, <1>2, <1>3, <1>4 DEF AskGitHub
<1>7. ASSUME NEW l \in S \ WithinCap(S) PROVE l \in Asked(s) /\ Told(l, Unchecked("tooMany"))
  <2>1. l \in Asked(s) /\ l.system = "github" /\ l.record # None
    BY DEF Parsed, Unparsed, Asked, Of
  <2>2. ~(Cardinality(RecordsAhead(l, S)) < MaxProbes)
    BY DEF WithinCap
  <2>3. RecordsAhead(l, S) \subseteq {m \in Parsed(Of("github")) : m.record < l.record}
    BY DEF RecordsAhead, GitHubOrder, Parsed, Unparsed, Asked
  <2>4. IsFiniteSet({m \in Parsed(Of("github")) : m.record < l.record})
    <3>1. {m \in Parsed(Of("github")) : m.record < l.record} \subseteq DOMAIN ls
      BY DEF Parsed, Of
    <3> QED BY <3>1, FS_Subset DEF EngineInv, KeptInv
  <2>5. Cardinality({m \in Parsed(Of("github")) : m.record < l.record}) >= MaxProbes
    BY <2>2, <2>3, <2>4, FS_Subset, FS_CardinalityType, ProbersAssumption
  <2>6. LeftOut(l, "tooMany")
    BY <2>1, <2>5 DEF LeftOut
  <2>7. ~AboveCap(l) /\ "github" \in registered
    BY <1>5, <2>1, AskedIsBelow DEF EngineInv, Turn
  <2>8. OverCap(l) /\ ~IsId(l)
    BY <2>1 DEF OverCap, IsId
  <2> QED BY <2>1, <2>6, <2>7, <2>8, ResultFields DEF Told, Explains, Verdict
<1>8. (\A l \in S \ WithinCap(S) : Key(l) \in DOMAIN many) /\ Directly(s, many)
  BY <1>2, <1>7, AllDirectly
<1>9. (\A l \in Asked(s) \ S : Key(l) \in DOMAIN un) /\ Directly(s, un)
  BY <1>1, <1>5, UnparsedDirectly DEF EngineInv, Turn
<1>10. DOMAIN direct = DOMAIN un \cup DOMAIN many /\ Directly(s, direct)
  <2>1. Directly(s, un) /\ Directly(s, many)
    BY <1>8, <1>9
  <2> HIDE DEF s
  <2>2. DOMAIN Over(un, many) = DOMAIN un \cup DOMAIN many /\ Directly(s, Over(un, many))
    BY <2>1, BothDirectly
  <2> QED BY <1>3, <2>2
<1>11. WithinCap(S) \subseteq S
  BY DEF WithinCap
<1>12. ASSUME NEW l \in WithinCap(S) PROVE \E c \in cs : l \in c.about
  <2>1. PICK c : c = Call(GitHubOrder(l), Key(l), {l})
    OBVIOUS
  <2>2. c \in cs /\ l \in c.about
    BY <1>4, <2>1 DEF Call
  <2> QED BY <2>2
<1>13. \A c \in cs : CallOf(s, c)
  <2>1. \A c \in cs : \E l \in S : c.what = Key(l) /\ c.about = {l} /\ l \in WithinCap(S)
    BY <1>4, <1>11 DEF Call
  <2>2. \A l \in WithinCap(S) : ~OverCap(l)
    BY <1>11 DEF OverCap, IsId, Parsed, Asked, Of
  <2> QED BY <2>1, <2>2, CallForOne
<1>14. \A l \in Asked(s) : Key(l) \in DOMAIN direct \/ \E c \in cs : l \in c.about
  BY <1>8, <1>9, <1>10, <1>12
<1> QED BY <1>5, <1>10, <1>13, <1>14, AskStep

LEMMA FiniteObjects ==
    ASSUME KeptInv, NEW S, S \subseteq DOMAIN ls
    PROVE  IsFiniteSet(Objects(S))
<1> DEFINE T == {l \in S : IsId(l)}
           f == [l \in T |-> ObjectFor(l)]
           O == {ObjectFor(l) : l \in T}
<1>1. IsFiniteSet(T)
  BY FS_Subset DEF KeptInv
<1>2. f \in Surjection(T, O)
  BY DEF Surjection
<1>3. IsFiniteSet(O)
  BY <1>1, <1>2, FS_Surjection
<1>4. Objects(S) \subseteq O
  BY DEF Objects
<1> QED BY <1>3, <1>4, FS_Subset

LEMMA SalesforceStep == EngineInv /\ AskSalesforce => EngineInv'
<1> SUFFICES ASSUME EngineInv, AskSalesforce PROVE EngineInv'
  OBVIOUS
<1>1. PICK s, S : s = "salesforce" /\ S = Asked(s)
  OBVIOUS
<1>2. PICK excess : excess = UNION {Group(o, S) : o \in Objects(S) \ QueriedObjects(S)}
  OBVIOUS
<1>3. PICK un, none, many : /\ un = All(Unparsed(S), "unparseable")
                            /\ none = All(Group(None, S), "noProbe")
                            /\ many = All(excess, "tooMany")
  OBVIOUS
<1>4. PICK rest, direct : rest = Over(none, many) /\ direct = Over(un, rest)
  OBVIOUS
<1>5. PICK cases : cases = {l \in S : IsCase(l)}
  OBVIOUS
<1>6. PICK queries, cs :
        /\ queries = {Call(Cardinality(ObjectsAhead(o, S)), <<"query", o>>, Group(o, S)) : o \in QueriedObjects(S)}
        /\ cs = queries \cup (IF cases = {} THEN {} ELSE {Call(MaxQueryGroups, <<"query", Cases>>, cases)})
  OBVIOUS
<1>7. Turn(s) /\ Ask(s, direct, cs)
  BY <1>1, <1>2, <1>3, <1>4, <1>5, <1>6 DEF AskSalesforce
<1>8. KeptInv /\ s \in registered
  BY <1>7 DEF EngineInv, Turn
<1>9. ASSUME NEW l \in S PROVE l \in DOMAIN ls /\ l.system = s /\ ~AboveCap(l)
  BY <1>1, <1>8, AskedIsBelow
<1>10. ASSUME NEW l \in Group(None, S) PROVE l \in S /\ Told(l, Unchecked("noProbe"))
  <2>1. l \in S /\ IsId(l) /\ ObjectFor(l) = None /\ l.system = s /\ l.record # None
    BY <1>9 DEF Group, IsId
  <2> QED BY <1>1, <1>8, <1>9, <2>1, ResultFields DEF Told, Explains, NotFound, Verdict
<1>11. ASSUME NEW l \in excess PROVE l \in S /\ Told(l, Unchecked("tooMany"))
  <2>1. PICK o \in Objects(S) \ QueriedObjects(S) : l \in Group(o, S)
    BY <1>2
  <2>2. l \in S /\ IsId(l) /\ ObjectFor(l) = o /\ o # None /\ l.system = s /\ l.record # None
    BY <1>9, <2>1 DEF Group, IsId, Objects
  <2>3. ~(Cardinality(ObjectsAhead(o, S)) < MaxQueryGroups)
    BY <2>1 DEF QueriedObjects
  <2>4. S \subseteq Of("salesforce") /\ Of("salesforce") \subseteq DOMAIN ls
    BY <1>1 DEF Asked, Of
  <2>5. ObjectsAhead(o, S) \subseteq ObjectsAhead(o, Of("salesforce"))
    BY <2>4 DEF ObjectsAhead, Objects
  <2>6. IsFiniteSet(ObjectsAhead(o, Of("salesforce")))
    <3>1. IsFiniteSet(Objects(Of("salesforce")))
      BY <1>8, <2>4, FiniteObjects
    <3> QED BY <3>1, FS_Subset DEF ObjectsAhead
  <2>7. Cardinality(ObjectsAhead(o, Of("salesforce"))) >= MaxQueryGroups
    BY <2>3, <2>5, <2>6, FS_Subset, FS_CardinalityType, ProbersAssumption
  <2>8. LeftOut(l, "tooMany")
    BY <2>2, <2>7 DEF LeftOut
  <2>9. OverCap(l)
    BY <1>1, <2>1, <2>2 DEF OverCap
  <2> QED BY <1>1, <1>8, <1>9, <2>2, <2>8, <2>9, ResultFields DEF Told, Explains, Verdict
<1>12. (\A l \in S \ Parsed(S) : Key(l) \in DOMAIN un) /\ Directly(s, un)
  BY <1>1, <1>3, <1>8, UnparsedDirectly
<1>13. (\A l \in Group(None, S) : Key(l) \in DOMAIN none) /\ Directly(s, none)
  BY <1>1, <1>3, <1>10, AllDirectly
<1>14. (\A l \in excess : Key(l) \in DOMAIN many) /\ Directly(s, many)
  BY <1>1, <1>3, <1>11, AllDirectly
<1>15. DOMAIN rest = DOMAIN none \cup DOMAIN many /\ Directly(s, rest)
  <2>1. DOMAIN Over(none, many) = DOMAIN none \cup DOMAIN many /\ Directly(s, Over(none, many))
    BY <1>13, <1>14, BothDirectly
  <2> QED BY <1>4, <2>1
<1>16. DOMAIN direct = DOMAIN un \cup DOMAIN none \cup DOMAIN many /\ Directly(s, direct)
  BY <1>4, <1>12, <1>15, BothDirectly
<1>17. ASSUME NEW l \in S PROVE Key(l) \in DOMAIN direct \/ \E c \in cs : l \in c.about
  <2>1. CASE l.record = None
    BY <1>12, <1>16, <2>1 DEF Parsed, Unparsed
  <2>2. CASE IsCase(l)
    <3>1. PICK c : c = Call(MaxQueryGroups, <<"query", Cases>>, cases)
      OBVIOUS
    <3>2. c \in cs /\ l \in c.about
      BY <1>5, <1>6, <2>2, <3>1 DEF Call
    <3> QED BY <3>2
  <2>3. CASE IsId(l)
    <3>1. PICK o : o = ObjectFor(l)
      OBVIOUS
    <3>2. l \in Group(o, S) /\ (o = None \/ o \in Objects(S))
      BY <2>3, <3>1 DEF Group, Objects
    <3>3. CASE o = None
      BY <1>13, <1>16, <3>2, <3>3
    <3>4. CASE o \in QueriedObjects(S)
      <4>1. PICK c : c = Call(Cardinality(ObjectsAhead(o, S)), <<"query", o>>, Group(o, S))
        OBVIOUS
      <4>2. c \in cs /\ l \in c.about
        BY <1>6, <3>2, <3>4, <4>1 DEF Call
      <4> QED BY <4>2
    <3>5. CASE o \in Objects(S) \ QueriedObjects(S)
      BY <1>2, <1>14, <1>16, <3>2, <3>5
    <3> QED BY <3>2, <3>3, <3>4, <3>5
  <2> QED BY <1>1, <1>9, <2>1, <2>2, <2>3 DEF IsCase, IsId
<1>18. ASSUME NEW c \in cs PROVE CallOf(s, c)
  <2>1. CASE c \in queries
    <3>1. PICK o \in QueriedObjects(S) : c = Call(Cardinality(ObjectsAhead(o, S)), <<"query", o>>, Group(o, S))
      BY <1>6, <2>1
    <3>2. c.what = <<"query", o>> /\ c.about = Group(o, S)
      BY <3>1 DEF Call
    <3>3. Group(o, S) # {}
      <4>1. o \in Objects(S)
        BY DEF QueriedObjects
      <4> QED BY <4>1 DEF Objects, Group
    <3>4. \A l \in Group(o, S) : l \in S /\ l.record # None /\ IsId(l) /\ ObjectFor(l) = o /\ l.system = s
      BY <1>9 DEF Group, IsId
    <3>5. \A l \in Group(o, S) : ~OverCap(l)
      BY <1>1, <3>4 DEF OverCap
    <3> QED BY <1>1, <3>2, <3>3, <3>4, <3>5 DEF CallOf, Parsed, Unparsed, Asks
  <2>2. CASE cases # {} /\ c = Call(MaxQueryGroups, <<"query", Cases>>, cases)
    <3>1. c.what = <<"query", Cases>> /\ c.about = cases
      BY <2>2 DEF Call
    <3>2. \A l \in cases : l \in S /\ l.record # None /\ IsCase(l)
      BY <1>5, ProbersAssumption DEF IsCase
    <3>3. \A l \in cases : ~OverCap(l)
      BY <1>1, <1>9, <3>2 DEF OverCap, IsCase, IsId
    <3> QED BY <1>1, <2>2, <3>1, <3>2, <3>3 DEF CallOf, Parsed, Unparsed, Asks
  <2> QED BY <1>6, <2>1, <2>2
<1> QED BY <1>1, <1>7, <1>16, <1>17, <1>18, AskStep

LEMMA SlackStep == EngineInv /\ AskSlack => EngineInv'
<1> SUFFICES ASSUME EngineInv, AskSlack PROVE EngineInv'
  OBVIOUS
<1>1. PICK s, S, last : s = "slack" /\ S = Parsed(Asked(s)) /\ last = 1 + Max(Range(ls))
  OBVIOUS
<1>2. PICK direct, cs :
        /\ direct = All(Unparsed(Asked(s)), "unparseable")
        /\ cs = {Call(last, SlackGroup(l), {m \in S : SlackGroup(m) = SlackGroup(l)}) : l \in S}
  OBVIOUS
<1>3. Turn(s) /\ Ask(s, direct, cs)
  BY <1>1, <1>2 DEF AskSlack
<1>4. (\A l \in Asked(s) \ S : Key(l) \in DOMAIN direct) /\ Directly(s, direct)
  BY <1>1, <1>2, <1>3, UnparsedDirectly DEF EngineInv, Turn
<1>5. ASSUME NEW l \in S PROVE \E c \in cs : l \in c.about
  <2>1. PICK c : c = Call(last, SlackGroup(l), {m \in S : SlackGroup(m) = SlackGroup(l)})
    OBVIOUS
  <2>2. c \in cs /\ l \in c.about
    BY <1>2, <2>1 DEF Call
  <2> QED BY <2>2
<1>6. ASSUME NEW c \in cs PROVE CallOf(s, c)
  <2>1. PICK l \in S : c = Call(last, SlackGroup(l), {m \in S : SlackGroup(m) = SlackGroup(l)})
    BY <1>2
  <2>2. c.what = SlackGroup(l) /\ c.about = {m \in S : SlackGroup(m) = SlackGroup(l)}
    BY <2>1 DEF Call
  <2>3. \A m \in c.about : m.system = "slack" /\ c.what = <<"channel", m.host, Channel[m.record]>>
    BY <1>1, <2>2 DEF SlackGroup, Parsed, Asked, Of
  <2>4. c.what[1] = "channel"
    BY <2>2 DEF SlackGroup
  <2>5. \A m \in c.about : ~OverCap(m)
    BY <2>3 DEF OverCap, IsId
  <2> QED BY <1>1, <2>2, <2>3, <2>4, <2>5 DEF CallOf, Asks, IsHistory
<1> QED BY <1>1, <1>3, <1>4, <1>5, <1>6, AskStep

----------------------------------------------------------------------------
(* Answers                                                                 *)

\* What is known of a call that is made, and of the links it is about.
LEMMA CallFacts ==
    ASSUME EngineInv, NEW c \in calls
    PROVE  /\ KeptInv /\ CallOf(pc, c) /\ pc \notin Outside /\ pc \in registered
           /\ \A l \in c.about : /\ l \in DOMAIN ls /\ l.system = pc /\ l.record # None
                                 /\ ~AboveCap(l) /\ Asks(c, l) /\ ~OverCap(l)
                                 /\ IsId(l) => ObjectFor(l) # None
<1>1. KeptInv /\ CallOf(pc, c) /\ pc \notin Outside /\ pc \in registered
  BY DEF EngineInv, KeptInv
<1>2. \A l \in c.about : l \in Asked(pc) /\ l.record # None /\ Asks(c, l) /\ ~OverCap(l)
  BY <1>1 DEF CallOf, Parsed, Unparsed
<1>3. \A l : IsId(l) /\ ~OverCap(l) => ObjectFor(l) # None
  BY DEF OverCap, QueriedObjects, Objects
<1> QED BY <1>1, <1>2, <1>3, AskedIsBelow

\* A call ends with the same reason for all its links.
LEMMA AllStep ==
    ASSUME EngineInv, NEW c \in calls, NEW why, Answered(c, All(c.about, why), {}),
           failed \subseteq failed',
           \A l \in c.about : Told(l, Unchecked(why))'
    PROVE  EngineInv'
<1>1. PICK res : /\ res = All(c.about, why)
                 /\ \A l \in c.about : Key(l) \in DOMAIN res
                 /\ \A k \in DOMAIN res : res[k] = Unchecked(why) /\ \E l \in c.about : Key(l) = k
  BY AllAt
<1>2. \A k \in DOMAIN res : \E l \in c.about : Key(l) = k /\ Told(l, res[k])'
  <2>1. \A l \in c.about : \A r : r = Unchecked(why) => Told(l, r)'
    BY DEF Unchecked
  <2> QED BY <1>1, <2>1
<1>3. Answered(c, res, {})
  BY <1>1
<1> QED BY <1>1, <1>2, <1>3, AnswerStep

\* A call ends with a result f[l] for every link l it is about, but for those of the calls more.
LEMMA EachStep ==
    ASSUME EngineInv, NEW c \in calls, NEW f, NEW more, Answered(c, ByKey(f), more),
           failed \subseteq failed', DOMAIN f \subseteq c.about,
           \A l \in DOMAIN f : Told(l, f[l]) \/ Told(l, f[l])',
           \A l \in c.about : l \in DOMAIN f \/ \E d \in more : l \in d.about,
           \A d \in more : CallOf(pc, d)
    PROVE  EngineInv'
<1>1. PICK res : /\ res = ByKey(f)
                 /\ \A l \in DOMAIN f : Key(l) \in DOMAIN res
                 /\ \A k \in DOMAIN res : \E l \in DOMAIN f : Key(l) = k /\ res[k] = f[l]
  BY ByKeyAt
<1>2. ASSUME NEW l, NEW r, Told(l, r) PROVE Told(l, r)'
  BY <1>2, ToldStays DEF Answered
<1>3. \A k \in DOMAIN res : \E l \in c.about : Key(l) = k /\ Told(l, res[k])'
  BY <1>1, <1>2
<1>4. Answered(c, res, more)
  BY <1>1
<1>5. \A l \in c.about : Key(l) \in DOMAIN res \/ \E d \in more : l \in d.about
  BY <1>1
<1>6. failed \subseteq failed'
  OBVIOUS
<1> QED BY <1>3, <1>4, <1>5, <1>6, AnswerStep

LEMMA QueryStep == EngineInv /\ (\E c \in calls : Query(c)) => EngineInv'
<1> SUFFICES ASSUME EngineInv, NEW c \in calls, Query(c) PROVE EngineInv'
  OBVIOUS
<1> DEFINE Found(l) == {r \in Returned(c) : Matches(r, l)}
<1>1. PICK f : f = [l \in c.about |->
                     IF Found(l) = {} THEN Unchecked("error")
                     ELSE Active(<<"salesforce", Canonical[CHOOSE r \in Found(l) : TRUE]>>)]
  OBVIOUS
<1>2. Answered(c, ByKey(f), {}) /\ failed' = failed /\ pc = "salesforce"
  BY <1>1 DEF Query
<1>3. DOMAIN f = c.about
  BY <1>1
<1>4. ASSUME NEW l \in c.about PROVE Told(l, f[l])
  <2>1. /\ l.system = "salesforce" /\ l.record # None /\ ~AboveCap(l) /\ Asks(c, l) /\ ~OverCap(l)
        /\ "salesforce" \in registered /\ (IsId(l) => ObjectFor(l) # None)
    BY <1>2, CallFacts
  <2>2. l.system = "salesforce" /\ l.record # None
    BY <2>1
  <2>3. IsId(l) \/ (IsCase(l) /\ ~IsId(l))
    BY <2>2 DEF IsId, IsCase
  <2>4. c.what = <<"query", QueriedBy(l)>>
    <3>1. CASE IsId(l)
      <4>1. ~IsCase(l) /\ QueriedBy(l) = ObjectFor(l)
        BY <3>1 DEF IsId, IsCase, QueriedBy
      <4>2. c.what = <<"query", ObjectFor(l)>>
        BY <2>1, <4>1 DEF Asks
      <4> QED BY <4>1, <4>2
    <3>2. CASE IsCase(l) /\ ~IsId(l)
      <4>1. QueriedBy(l) = Cases
        BY <3>2 DEF QueriedBy
      <4>2. c.what = <<"query", Cases>>
        BY <2>1, <3>2 DEF Asks
      <4> QED BY <4>1, <4>2
    <3> QED BY <2>3, <3>1, <3>2
  <2>5. Found(l) = {r \in DOMAIN Org : Org[r] = QueriedBy(l) /\ Matches(r, l)}
    BY <2>4 DEF Returned, Matches
  <2>6. Verdict(l) = IF Exists(l) THEN Active(Read(l)) ELSE Unchecked("error")
    BY <2>1 DEF Verdict
  <2>7. CASE Found(l) = {}
    <3>1. f[l] = Unchecked("error")
      BY <1>1, <2>7
    <3>2. ~Exists(l)
      BY <2>1, <2>5, <2>7 DEF Exists
    <3>3. NotFound(l, "error")
      BY <2>3, <2>5, <2>7 DEF NotFound, QueriedBy, IsId, IsCase
    <3> QED BY <2>1, <2>6, <3>1, <3>2, <3>3, ResultFields DEF Told, Explains
  <2>8. CASE Found(l) # {}
    <3>1. PICK r : r = CHOOSE q \in Found(l) : TRUE
      OBVIOUS
    <3>2. r \in Found(l)
      BY <2>8, <3>1
    <3>3. f[l] = Active(<<"salesforce", Canonical[r]>>)
      BY <1>1, <2>8, <3>1
    <3>4. Read(l) = <<"salesforce", Canonical[r]>> /\ Exists(l)
      BY <2>1, <2>5, <3>2 DEF Read, Exists, Matches
    <3> QED BY <2>1, <2>6, <3>3, <3>4, ResultFields DEF Told
  <2> QED BY <2>7, <2>8
<1>5. \A l \in c.about : l \in DOMAIN f
  BY <1>3
<1> HIDE DEF Found
<1> QED BY <1>2, <1>3, <1>4, <1>5, EachStep

LEMMA GetRecordStep == EngineInv /\ (\E c \in calls : GetRecord(c)) => EngineInv'
<1> SUFFICES ASSUME EngineInv, NEW c \in calls, GetRecord(c) PROVE EngineInv'
  OBVIOUS
<1>1. PICK f : f = [l \in c.about |-> Active(<<pc, Canonical[l.record]>>)]
  OBVIOUS
<1>2. Answered(c, ByKey(f), {}) /\ failed' = failed /\ Due(c) /\ pc \notin {"slack", "salesforce"}
  BY <1>1 DEF GetRecord
<1>3. DOMAIN f = c.about
  BY <1>1
<1>4. ASSUME NEW l \in c.about PROVE Told(l, f[l])
  <2>1. /\ l.system = pc /\ l.record # None /\ ~AboveCap(l) /\ ~OverCap(l) /\ pc \in registered
    BY CallFacts
  <2>2. Read(l) = <<pc, Canonical[l.record]>> /\ Exists(l) /\ ~IsId(l)
    BY <1>2, <2>1 DEF Read, Exists, IsId
  <2>3. f[l] = Active(Read(l))
    BY <1>1, <2>2
  <2> QED BY <1>2, <2>1, <2>2, <2>3, ResultFields DEF Told, Verdict
<1>5. \A l \in c.about : l \in DOMAIN f
  BY <1>3
<1> QED BY <1>2, <1>3, <1>4, <1>5, EachStep

\* A Slack call, with the credentials of its links.
LEMMA SlackCall ==
    ASSUME EngineInv, NEW c \in calls, pc = "slack", NEW l \in c.about
    PROVE  /\ Team(c) = ForHost(l.host) /\ Read(l) = <<Team(c), l.record>> /\ ~IsId(l) /\ ~IsCase(l)
           /\ ~IsHistory(c) => Team(c) # None
           /\ IsHistory(c) => c.what = <<"channel", l.host, Channel[l.record]>>
           /\ Verdict(l) = IF Team(c) = None THEN Unchecked("auth")
                           ELSE IF <<Team(c), l.record>> \in Threads
                           THEN Active(<<Team(c), l.record>>) ELSE Unchecked("error")
<1>1. /\ l.system = "slack" /\ l.record # None /\ ~AboveCap(l) /\ Asks(c, l) /\ ~OverCap(l)
      /\ "slack" \in registered /\ KeptInv /\ CallOf(pc, c)
  BY CallFacts
<1>2. Team(c) = ForHost(l.host)
  BY <1>1, TeamOfCall
<1>3. Read(l) = <<Team(c), l.record>> /\ ~IsId(l) /\ ~IsCase(l)
  BY <1>1, <1>2 DEF Read, IsId, IsCase
<1>4. ~IsHistory(c) => Team(c) # None
  BY <1>1, <1>2 DEF CallOf
<1>5. IsHistory(c) => c.what = <<"channel", l.host, Channel[l.record]>>
  <2>1. c.what = Key(l) => c.what[1] = "slack"
    BY <1>1 DEF Key
  <2> QED BY <1>1, <1>3, <2>1 DEF Asks, IsHistory
<1>6. Exists(l) <=> <<Team(c), l.record>> \in Threads
  BY <1>1, <1>3 DEF Exists
<1> QED BY <1>1, <1>2, <1>3, <1>4, <1>5, <1>6 DEF Verdict

LEMMA NoCredentialsStep == EngineInv /\ (\E c \in calls : NoCredentials(c)) => EngineInv'
<1> SUFFICES ASSUME EngineInv, NEW c \in calls, NoCredentials(c) PROVE EngineInv'
  OBVIOUS
<1>1. Answered(c, All(c.about, "auth"), {}) /\ failed' = failed /\ pc = "slack" /\ Team(c) = None
  BY DEF NoCredentials
<1>2. ASSUME NEW l \in c.about PROVE Told(l, Unchecked("auth"))'
  <2>1. l.system = "slack" /\ l.record # None
    BY <1>1, CallFacts
  <2>2. ForHost(l.host) = None /\ Verdict(l) = Unchecked("auth")
    BY <1>1, SlackCall
  <2>3. Told(l, Unchecked("auth"))
    BY <2>1, <2>2, ResultFields DEF Told, Explains, NotServed
  <2> QED BY <1>1, <2>3, ToldStays DEF Answered
<1> QED BY <1>1, <1>2, AllStep

LEMMA HistoryStep == EngineInv /\ (\E c \in calls : \E w \in SUBSET c.about : History(c, w)) => EngineInv'
<1> SUFFICES ASSUME EngineInv, NEW c \in calls, NEW window \in SUBSET c.about, History(c, window)
             PROVE  EngineInv'
  OBVIOUS
<1>1. /\ failed' = failed /\ pc = "slack" /\ IsHistory(c) /\ Team(c) # None
      /\ \A l \in window : <<Team(c), l.record>> \in Threads
  BY DEF History
<1>2. ASSUME NEW l \in c.about
      PROVE  l.system = "slack" /\ l.record # None /\ ForHost(l.host) = Team(c) /\ ~OverCap(l)
  BY <1>1, CallFacts, SlackCall
<1>3. CASE \A l \in c.about : Channel[l.record] \in Channels(Team(c))
  <2>1. PICK f, more : /\ f = [l \in window |-> Active(<<Team(c), l.record>>)]
                       /\ more = OneByOne(c.about \ window)
    OBVIOUS
  <2>2. Answered(c, ByKey(f), more)
    BY <1>3, <2>1 DEF History
  <2>3. DOMAIN f \subseteq c.about
    BY <2>1
  <2>4. ASSUME NEW l \in DOMAIN f PROVE Told(l, f[l])
    <3>1. l \in window /\ l \in c.about /\ <<Team(c), l.record>> \in Threads
      BY <1>1, <2>1
    <3>2. f[l] = Active(<<Team(c), l.record>>)
      BY <2>1
    <3>3. Read(l) = <<Team(c), l.record>> /\ Verdict(l) = f[l]
      BY <1>1, <3>1, <3>2, SlackCall
    <3> QED BY <1>1, <1>2, <3>1, <3>2, <3>3, ResultFields DEF Told
  <2>5. ASSUME NEW l \in c.about PROVE l \in DOMAIN f \/ \E d \in more : l \in d.about
    <3>1. PICK d : d = Call(ls[l], Key(l), {l})
      OBVIOUS
    <3>2. l \in c.about \ window => d \in more /\ l \in d.about
      BY <2>1, <3>1 DEF OneByOne, Call
    <3> QED BY <2>1, <3>2
  <2>6. ASSUME NEW d \in more PROVE CallOf(pc, d)
    <3>1. PICK l \in c.about : d.what = Key(l) /\ d.about = {l}
      BY <2>1 DEF OneByOne, Call
    <3>2. l \in Parsed(Asked("slack"))
      BY <1>1 DEF EngineInv, CallOf
    <3> QED BY <1>1, <1>2, <3>1, <3>2 DEF CallOf, Asks
  <2> QED BY <1>1, <2>2, <2>3, <2>4, <2>5, <2>6, EachStep
<1>4. CASE \E l \in c.about : Channel[l.record] \notin Channels(Team(c))
  <2>1. Answered(c, All(c.about, "error"), {})
    BY <1>4 DEF History
  <2>2. PICK m \in c.about : Channel[m.record] \notin Channels(Team(c))
    BY <1>4
  <2>3. ASSUME NEW l \in c.about PROVE Told(l, Unchecked("error"))'
    <3>1. Channel[l.record] = Channel[m.record]
      <4>1. /\ c.what = <<"channel", l.host, Channel[l.record]>>
            /\ c.what = <<"channel", m.host, Channel[m.record]>>
        BY <1>1, SlackCall
      <4> QED BY <4>1
    <3>2. <<Team(c), l.record>> \notin Threads
      BY <2>2, <3>1 DEF Channels
    <3>3. Verdict(l) = Unchecked("error")
      BY <1>1, <3>2, SlackCall
    <3>4. NotFound(l, "error")
      BY <1>2, <3>2 DEF NotFound
    <3>5. Told(l, Unchecked("error"))
      BY <1>2, <3>3, <3>4, ResultFields DEF Told, Explains
    <3> QED BY <1>1, <2>1, <3>5, ToldStays DEF Answered
  <2> QED BY <1>1, <2>1, <2>3, AllStep
<1> QED BY <1>3, <1>4

LEMMA HistoryGarbledStep ==
    EngineInv /\ (\E c \in calls : \E w \in SUBSET c.about : \E bad \in SUBSET w : HistoryGarbled(c, w, bad))
      => EngineInv'
<1> SUFFICES ASSUME EngineInv, NEW c \in calls, NEW window \in SUBSET c.about,
                    NEW bad \in SUBSET window, HistoryGarbled(c, window, bad)
             PROVE  EngineInv'
  OBVIOUS
<1>1. /\ pc = "slack" /\ IsHistory(c) /\ Team(c) # None /\ bad # {}
      /\ \A l \in window : <<Team(c), l.record>> \in Threads
      /\ failed' = failed \cup {[what |-> Key(l), why |-> "unparseable"] : l \in bad}
  BY DEF HistoryGarbled
<1>2. ASSUME NEW l \in c.about
      PROVE  l.system = "slack" /\ l.record # None /\ ForHost(l.host) = Team(c) /\ ~OverCap(l)
  BY <1>1, CallFacts, SlackCall
<1>3. PICK f, more : /\ f = [l \in window |-> IF l \in bad THEN Unchecked("unparseable")
                                              ELSE Active(<<Team(c), l.record>>)]
                     /\ more = OneByOne(c.about \ window)
  OBVIOUS
<1>4. Answered(c, ByKey(f), more)
  BY <1>3 DEF HistoryGarbled
<1>5. failed \subseteq failed' /\ failed' # {} /\ DOMAIN f \subseteq c.about
  BY <1>1, <1>3
<1>6. ASSUME NEW l \in window \ bad PROVE Told(l, f[l])
  <2>1. l \in c.about /\ <<Team(c), l.record>> \in Threads /\ f[l] = Active(<<Team(c), l.record>>)
    BY <1>1, <1>3
  <2>2. Read(l) = <<Team(c), l.record>> /\ Verdict(l) = f[l]
    BY <1>1, <2>1, SlackCall
  <2> QED BY <1>1, <1>2, <2>1, <2>2, ResultFields DEF Told
<1>7. ASSUME NEW l \in bad PROVE Told(l, f[l])'
  <2>1. l.record # None /\ f[l] = Unchecked("unparseable")
    BY <1>2, <1>3
  <2>2. Failed(Key(l), "unparseable")'
    BY <1>1 DEF Failed
  <2>3. Explains(l, "unparseable")'
    BY <2>1, <2>2 DEF Explains, CallFailed
  <2>4. ASSUME NEW r, r = Unchecked("unparseable") PROVE Told(l, r)'
    BY <1>5, <2>3, <2>4, ResultFields DEF Told
  <2> QED BY <2>1, <2>4
<1>8. \A l \in DOMAIN f : Told(l, f[l]) \/ Told(l, f[l])'
  BY <1>3, <1>6, <1>7
<1>9. ASSUME NEW l \in c.about PROVE l \in DOMAIN f \/ \E d \in more : l \in d.about
  <2>1. PICK d : d = Call(ls[l], Key(l), {l})
    OBVIOUS
  <2>2. l \in c.about \ window => d \in more /\ l \in d.about
    BY <1>3, <2>1 DEF OneByOne, Call
  <2> QED BY <1>3, <2>2
<1>10. ASSUME NEW d \in more PROVE CallOf(pc, d)
  <2>1. PICK l \in c.about : d.what = Key(l) /\ d.about = {l}
    BY <1>3 DEF OneByOne, Call
  <2>2. l \in Parsed(Asked("slack"))
    BY <1>1 DEF EngineInv, CallOf
  <2> QED BY <1>1, <1>2, <2>1, <2>2 DEF CallOf, Asks
<1> QED BY <1>4, <1>5, <1>8, <1>9, <1>10, EachStep

LEMMA RepliesStep == EngineInv /\ (\E c \in calls : Replies(c)) => EngineInv'
<1> SUFFICES ASSUME EngineInv, NEW c \in calls, Replies(c) PROVE EngineInv'
  OBVIOUS
<1>1. PICK f : f = [l \in c.about |-> IF <<Team(c), l.record>> \in Threads
                                      THEN Active(<<Team(c), l.record>>) ELSE Unchecked("error")]
  OBVIOUS
<1>2. Answered(c, ByKey(f), {}) /\ failed' = failed /\ pc = "slack" /\ ~IsHistory(c)
  BY <1>1 DEF Replies
<1>3. DOMAIN f = c.about
  BY <1>1
<1>4. ASSUME NEW l \in c.about PROVE Told(l, f[l])
  <2>1. /\ l.system = "slack" /\ l.record # None /\ ForHost(l.host) = Team(c) /\ Team(c) # None
        /\ Read(l) = <<Team(c), l.record>>
        /\ Verdict(l) = IF <<Team(c), l.record>> \in Threads
                        THEN Active(<<Team(c), l.record>>) ELSE Unchecked("error")
    BY <1>2, CallFacts, SlackCall
  <2>2. CASE <<Team(c), l.record>> \in Threads
    <3>1. f[l] = Active(<<Team(c), l.record>>)
      BY <1>1, <2>2
    <3> QED BY <2>1, <2>2, <3>1, ResultFields DEF Told
  <2>3. CASE <<Team(c), l.record>> \notin Threads
    <3>1. f[l] = Unchecked("error")
      BY <1>1, <2>3
    <3>2. NotFound(l, "error")
      BY <2>1, <2>3 DEF NotFound
    <3> QED BY <2>1, <2>3, <3>1, <3>2, ResultFields DEF Told, Explains
  <2> QED BY <2>2, <2>3
<1>5. \A l \in c.about : l \in DOMAIN f
  BY <1>3
<1> QED BY <1>2, <1>3, <1>4, <1>5, EachStep

LEMMA CallFailsStep ==
    EngineInv /\ (\E c \in calls : \E why \in {"error", "auth"} : CallFails(c, why)) => EngineInv'
<1> SUFFICES ASSUME EngineInv, NEW c \in calls, NEW why, CallFails(c, why) PROVE EngineInv'
  OBVIOUS
<1>1. PICK what : what = c.what
  OBVIOUS
<1>2. /\ Answered(c, All(c.about, why), {})
      /\ failed' = failed \cup {[what |-> what, why |-> why]}
  BY <1>1 DEF CallFails
<1>3. ASSUME NEW l \in c.about PROVE Told(l, Unchecked(why))'
  <2>1. l.record # None /\ Asks(c, l)
    BY CallFacts
  <2>2. Failed(what, why)'
    BY <1>2 DEF Failed
  <2>3. \/ what = Key(l)
        \/ l.system = "slack" /\ what = <<"channel", l.host, Channel[l.record]>>
        \/ IsId(l) /\ what = <<"query", ObjectFor(l)>>
        \/ IsCase(l) /\ what = <<"query", Cases>>
    BY <1>1, <2>1 DEF Asks
  <2>4. CallFailed(l, why)'
    BY <2>2, <2>3 DEF CallFailed
  <2>5. Explains(l, why)'
    BY <2>1, <2>4 DEF Explains
  <2>6. failed' # {}
    BY <1>2
  <2>7. ASSUME NEW r, r = Unchecked(why) PROVE Told(l, r)'
    BY <2>5, <2>6, <2>7, ResultFields DEF Told
  <2> QED BY <2>7 DEF Unchecked
<1> QED BY <1>2, <1>3, AllStep

LEMMA TimesOutStep == EngineInv /\ (\E c \in calls : TimesOut(c)) => EngineInv'
<1> SUFFICES ASSUME EngineInv, NEW c \in calls, TimesOut(c) PROVE EngineInv'
  OBVIOUS
<1>1. Answered(c, All(c.about, "timeout"), {}) /\ failed' = failed /\ late /\ late'
  BY DEF TimesOut, Answered
<1>2. ASSUME NEW l \in c.about, NEW r, r = Unchecked("timeout") PROVE Told(l, r)'
  BY <1>1, <1>2, ResultFields DEF Told, Explains
<1>3. \A l \in c.about : Told(l, Unchecked("timeout"))'
  BY <1>2 DEF Unchecked
<1> QED BY <1>1, <1>3, AllStep
----------------------------------------------------------------------------
(* The engine's steps                                                      *)

LEMMA UnprobedStep == EngineInv /\ (\E s \in left : Unprobed(s)) => EngineInv'
<1> SUFFICES ASSUME EngineInv, NEW s \in left, Unprobed(s) PROVE EngineInv'
  OBVIOUS
<1>1. PICK why : why = IF s \in NotProbeable THEN "notProbeable" ELSE "noProbe"
  OBVIOUS
<1>2. PICK direct, res : /\ direct = All(Asked(s), why)
                         /\ res = Over(All(Excess(s), "tooMany"), direct)
  OBVIOUS
<1>3. /\ UNCHANGED <<pc, registered, store, ls, calls, late, failed>>
      /\ left' = left \ {s} /\ s \notin registered /\ pc = "engine" /\ KeptInv
  BY DEF Unprobed, EngineInv
<1>4. results' = Over(res, results)
  BY <1>1, <1>2, OverOver DEF Unprobed
<1>5. ASSUME NEW l \in Asked(s) PROVE l \in Asked(s) /\ Told(l, Unchecked(why))
  <2>1. l.system = s /\ ~AboveCap(l)
    BY <1>3, AskedIsBelow
  <2>2. NotServed(l, why)
    BY <1>1, <1>3, <2>1 DEF NotServed
  <2>3. Verdict(l) = Unchecked(why)
    BY <1>1, <1>3, <2>1 DEF Verdict
  <2> QED BY <2>2, <2>3, ResultFields DEF Told, Explains
<1>6. (\A l \in Asked(s) : Key(l) \in DOMAIN direct) /\ Directly(s, direct)
  BY <1>2, <1>5, AllDirectly
<1>7. /\ \A l \in Excess(s) : Key(l) \in DOMAIN res
      /\ DOMAIN direct \subseteq DOMAIN res
      /\ \A k \in DOMAIN res : \E l \in DOMAIN ls : Key(l) = k /\ Told(l, res[k])
  BY <1>2, <1>3, <1>6, DirectResults
<1>8. KeptInv'
  BY <1>3 DEF KeptInv, Outside
<1>9. calls' = {}
  BY <1>3 DEF KeptInv, Outside
<1>10. Sound'
  <2>1. ASSUME NEW l, NEW r, Told(l, r) PROVE Told(l, r)'
    BY <1>3, <2>1, ToldStays
  <2>2. \A k \in DOMAIN res : \E l \in DOMAIN ls : Key(l) = k /\ Told(l, res[k])'
    BY <1>7, <2>1
  <2> QED BY <1>3, <1>4, <2>2, SoundAfter DEF EngineInv
<1>11. Pending'
  <2>1. DOMAIN results' = DOMAIN res \cup DOMAIN results
    BY <1>4, ResultsAfter
  <2>2. ASSUME NEW l \in DOMAIN ls, l.system = s PROVE Key(l) \in DOMAIN res
    BY <1>6, <1>7, <2>2 DEF Excess, Of
  <2> QED BY <1>3, <2>1, <2>2 DEF EngineInv, Pending, KeptInv, Outside
<1> QED BY <1>8, <1>9, <1>10, <1>11 DEF EngineInv

\* A prober that has made its calls has left out none of its links.
LEMMA ReturnStep == EngineInv /\ Return => EngineInv'
<1> SUFFICES ASSUME EngineInv, Return PROVE EngineInv'
  OBVIOUS
<1>1. /\ UNCHANGED <<registered, store, ls, left, calls, late, failed>>
      /\ calls = {} /\ pc' = "engine" /\ pc \notin Outside
  BY DEF Return, Outside
<1>2. PICK f : /\ f = All(Asked(pc), "error")
               /\ \A k \in DOMAIN f : \E l \in Asked(pc) : Key(l) = k
  BY AllAt
<1>3. results' = Over(results, f)
  BY <1>2 DEF Return
<1>4. KeptInv'
  BY <1>1 DEF EngineInv, KeptInv, Outside
<1>5. /\ \A k \in DOMAIN results : k \in DOMAIN results' /\ results'[k] = results[k]
      /\ DOMAIN results' = DOMAIN results \cup DOMAIN f
  BY <1>3 DEF Over
<1>6. ASSUME NEW l, NEW r, Told(l, r) PROVE Told(l, r)'
  BY <1>1, <1>6, ToldStays
<1>7. DOMAIN f \subseteq DOMAIN results
  <2>1. ASSUME NEW l \in Asked(pc) PROVE Key(l) \in DOMAIN results
    <3>1. l \in DOMAIN ls /\ l.system = pc
      BY DEF Asked, Of
    <3>2. pc \notin left
      BY <1>1 DEF EngineInv, KeptInv
    <3> QED BY <1>1, <3>1, <3>2 DEF EngineInv, Pending
  <2> QED BY <1>2, <2>1
<1>8. Sound'
  <2>1. ASSUME NEW k, NEW x, k \in DOMAIN results', x = results'[k]
        PROVE  \E l \in DOMAIN ls : Key(l) = k /\ Told(l, x)'
    <3>1. k \in DOMAIN results /\ x = results[k]
      BY <1>5, <1>7, <2>1
    <3>2. PICK l \in DOMAIN ls : Key(l) = k /\ Told(l, x)
      BY <3>1 DEF EngineInv, Sound
    <3> QED BY <1>6, <3>2
  <2> QED BY <1>1, <2>1 DEF Sound
<1>9. Pending'
  BY <1>1, <1>5, <1>7 DEF EngineInv, Pending
<1> QED BY <1>1, <1>4, <1>8, <1>9 DEF EngineInv

\* The steps that change nothing a run has learnt.
LEMMA QuietStep ==
    ASSUME EngineInv, UNCHANGED <<registered, store, ls, left, calls, results, failed>>, late => late',
           KeptInv',
           pc' = pc \/ calls = {}
    PROVE  EngineInv'
<1>1. ASSUME NEW l, NEW r, Told(l, r) PROVE Told(l, r)'
  BY <1>1, ToldStays
<1>2. \A c \in calls' : CallOf(pc, c)'
  <2>1. CASE calls = {}
    BY <2>1
  <2>2. CASE pc' = pc
    <3>1. Asked(pc)' = Asked(pc) /\ \A h : ForHost(h)' = ForHost(h)
      BY <2>2 DEF Asked, Of, ForHost
    <3>2. \A l : OverCap(l)' = OverCap(l)
      BY OverCapStays
    <3> QED BY <2>2, <3>1, <3>2 DEF EngineInv, CallOf
  <2> QED BY <2>1, <2>2
<1>3. Sound'
  <2>1. ASSUME NEW k \in DOMAIN results, NEW x, x = results[k]
        PROVE  \E l \in DOMAIN ls : Key(l) = k /\ Told(l, x)'
    BY <1>1, <2>1 DEF EngineInv, Sound
  <2> QED BY <2>1 DEF Sound
<1>4. Pending'
  BY DEF EngineInv, Pending
<1> QED BY <1>2, <1>3, <1>4 DEF EngineInv

LEMMA DeadlineStep == EngineInv /\ Deadline => EngineInv'
<1> SUFFICES ASSUME EngineInv, Deadline PROVE EngineInv'
  OBVIOUS
<1>1. UNCHANGED <<pc, registered, store, ls, left, calls, results, failed>> /\ late'
  BY DEF Deadline
<1>2. KeptInv'
  BY <1>1 DEF EngineInv, KeptInv, Outside
<1> QED BY <1>1, <1>2, QuietStep

LEMMA EndStep == EngineInv /\ End => EngineInv'
<1> SUFFICES ASSUME EngineInv, End PROVE EngineInv'
  OBVIOUS
<1>1. UNCHANGED <<registered, store, ls, left, calls, results, failed, late>>
      /\ pc = "engine" /\ pc' = "idle" /\ left = {}
  BY DEF End
<1>2. calls = {}
  BY <1>1 DEF EngineInv, KeptInv, Outside
<1>3. KeptInv'
  BY <1>1, <1>2 DEF EngineInv, KeptInv, Outside
<1> QED BY <1>1, <1>2, <1>3, QuietStep

LEMMA FreshInv ==
    ASSUME DOMAIN ls' = {}, DOMAIN results' = {}, calls' = {}, left' = {}, pc' \in {"idle", "loading"}
    PROVE  EngineInv'
<1>1. KeptInv'
  BY FS_EmptySet DEF KeptInv, Outside
<1> QED BY <1>1 DEF EngineInv, Sound, Pending

LEMMA BeginStep == EngineInv /\ (\E readable, token \in BOOLEAN : Begin(readable, token)) => EngineInv'
<1> SUFFICES ASSUME EngineInv, NEW readable, NEW token, Begin(readable, token) PROVE EngineInv'
  OBVIOUS
<1>1. pc = "idle" /\ pc' = "loading" /\ ls' = <<>> /\ results' = <<>> /\ left' = {} /\ calls' = calls
  BY DEF Begin
<1>2. calls' = {} /\ DOMAIN ls' = {} /\ DOMAIN results' = {}
  BY <1>1 DEF EngineInv, KeptInv, Outside
<1> QED BY <1>1, <1>2, FreshInv

LEMMA LoadWorkspaceStep == EngineInv /\ (\E w \in unread : LoadWorkspace(w)) => EngineInv'
<1> SUFFICES ASSUME EngineInv, NEW w, LoadWorkspace(w) PROVE EngineInv'
  OBVIOUS
<1>1. UNCHANGED <<pc, registered, ls, left, calls, results, late, failed>> /\ pc = "loading"
  BY DEF LoadWorkspace
<1>2. DOMAIN ls = {} /\ DOMAIN results = {} /\ calls = {} /\ KeptInv
  BY <1>1 DEF EngineInv, KeptInv, Outside
<1>3. KeptInv'
  BY <1>1, <1>2 DEF KeptInv, Outside
<1> QED BY <1>1, <1>2, <1>3 DEF EngineInv, Sound, Pending

LEMMA FiniteKept == ASSUME NEW c \in Corpora PROVE IsFiniteSet(Kept(c))
<1> DEFINE f == [i \in DOMAIN c |-> c[i]]
<1>1. IsFiniteSet(DOMAIN c)
  BY ProbersAssumption, FS_Interval
<1>2. f \in Surjection(DOMAIN c, Range(c))
  BY DEF Surjection, Range
<1>3. IsFiniteSet(Range(c))
  BY <1>1, <1>2, FS_Surjection
<1> QED BY <1>3, FS_Subset DEF Kept

LEMMA StartEngineStep == EngineInv /\ (\E c \in Corpora : StartEngine(c)) => EngineInv'
<1> SUFFICES ASSUME EngineInv, NEW c \in Corpora, StartEngine(c) PROVE EngineInv'
  OBVIOUS
<1>1. /\ pc = "loading" /\ pc' = "engine" /\ UNCHANGED <<calls, results>>
      /\ DOMAIN ls' = Kept(c) /\ left' = {l.system : l \in Range(c)}
  BY DEF StartEngine
<1>2. DOMAIN results = {} /\ calls = {}
  BY <1>1 DEF EngineInv, KeptInv, Outside
<1>3. Range(c) \subseteq Links /\ Kept(c) \subseteq Range(c)
  BY DEF Links, Kept
<1>4. KeptInv'
  BY <1>1, <1>2, <1>3, KeptLinks, FiniteKept DEF KeptInv, Outside
<1>5. Pending'
  BY <1>1, <1>3 DEF Pending
<1> QED BY <1>1, <1>2, <1>4, <1>5 DEF EngineInv, Sound

\* Every step keeps the invariant of the run.
LEMMA EngineStep == EngineInv /\ [Next]_vars => EngineInv'
<1> SUFFICES ASSUME EngineInv, [Next]_vars PROVE EngineInv'
  OBVIOUS
<1>1. CASE Engine
  BY <1>1, BeginStep, LoadWorkspaceStep, StartEngineStep, UnprobedStep, ReturnStep, EndStep, DeadlineStep
     DEF Engine
<1>2. CASE Prober
  BY <1>2, RestStep, GitHubStep, SalesforceStep, SlackStep, QueryStep, GetRecordStep, NoCredentialsStep,
     RepliesStep, TimesOutStep, HistoryStep, HistoryGarbledStep, CallFailsStep DEF Prober
<1>3. CASE UNCHANGED vars
  <2>1. UNCHANGED <<pc, registered, store, ls, left, calls, results, late, failed>>
    BY <1>3 DEF vars
  <2>2. KeptInv'
    BY <2>1 DEF EngineInv, KeptInv, Outside
  <2> QED BY <2>1, <2>2, QuietStep
<1> QED BY <1>1, <1>2, <1>3 DEF Next, Done

LEMMA EngineInvariant == Spec => []EngineInv
<1>1. Init => EngineInv
  <2> SUFFICES ASSUME Init PROVE EngineInv
    OBVIOUS
  <2>1. DOMAIN ls = {} /\ DOMAIN results = {} /\ calls = {} /\ left = {} /\ pc = "idle"
    BY DEF Init
  <2>2. KeptInv
    BY <2>1, FS_EmptySet DEF KeptInv, Outside
  <2> QED BY <2>1, <2>2 DEF EngineInv, Sound, Pending
<1> QED BY <1>1, EngineStep, PTL DEF Spec

\* Every link of a run is answered, and one that is unchecked has a reason of its own, that
\* the engine or its prober gives it for a call that failed, credentials that are missing or a
\* cap that is reached (engine.go's results, in the order of the links).
THEOREM FailureIsLocal == Spec => []FailureStaysLocal
<1>1. EngineInv => FailureStaysLocal
  <2> SUFFICES ASSUME EngineInv, pc = "idle" PROVE FailureStaysLocal
    BY DEF FailureStaysLocal, Reported
  <2>1. ASSUME NEW l \in DOMAIN ls
        PROVE  Key(l) \in DOMAIN results /\ (results[Key(l)].checked \/ Explains(l, results[Key(l)].reason))
    <3>1. left = {} /\ calls = {}
      BY DEF EngineInv, KeptInv, Outside
    <3>2. Key(l) \in DOMAIN results
      BY <3>1 DEF EngineInv, Pending
    <3>3. Told(l, results[Key(l)])
      BY <3>2 DEF EngineInv, Sound, KeptInv
    <3> QED BY <3>2, <3>3 DEF Told
  <2> QED BY <2>1 DEF FailureStaysLocal
<1> QED BY <1>1, EngineInvariant, PTL

----------------------------------------------------------------------------
(* Credentials                                                             *)

\* The workspace whose credentials serve host h: the only one that claims it, else the
\* only one there is.
Resolve(h) ==
    IF h # None /\ \E w : Claims(file, h) = {w} THEN (CHOOSE w : Claims(file, h) = {w}).team
    ELSE IF \E w : Complete(file) = {w} THEN (CHOOSE w : Complete(file) = {w}).team
    ELSE None

Unreadable == [what |-> <<"store">>, why |-> "error"] \in failed

\* The only workspace of R that claims h.
Sole(R, h, w) == w \in R /\ w.host = h /\ \A v \in R : v.host = h => v = w

\* What Load has made of the workspaces R.
LoadedFrom(R) ==
    /\ store.seen = {w.host : w \in R} \ {None}
    /\ \A h : h \in DOMAIN store.byHost <=> h # None /\ \E w : Sole(R, h, w)
    /\ \A h \in DOMAIN store.byHost : \E w : Sole(R, h, w) /\ store.byHost[h] = w.team
    /\ IF R = {} THEN store.single = None ELSE \E w \in R : store.single = w.team

\* The links of a run are known, and so are its credentials.
Started == pc \notin {"idle", "loading"} \/ DOMAIN ls # {}

StoreInv ==
    /\ file \in Files /\ unread \subseteq file
    /\ pc = "loading" => IF Unreadable THEN unread = {} /\ store = NoStore
                         ELSE LoadedFrom(Complete(file \ unread))
    /\ Started => \A h : ForHost(h) = IF Unreadable THEN None ELSE Resolve(h)

LEMMA SoleClaim ==
    ASSUME NEW h, NEW w
    PROVE  Sole(Complete(file), h, w) <=> Claims(file, h) = {w}
BY DEF Sole, Claims

\* A workspace is read: it is the only one to claim its host, or one of several.
LEMMA LoadingStep ==
    ASSUME KeptInv, StoreInv, NEW w \in unread, LoadWorkspace(w)
    PROVE  StoreInv'
<1>1. /\ pc = "loading" /\ pc' = pc /\ file' = file /\ failed' = failed /\ unread' = unread \ {w}
      /\ w \in file /\ ls' = ls
  BY DEF LoadWorkspace, StoreInv
<1>2. PICK R, Q : R = Complete(file \ unread) /\ Q = Complete(file \ (unread \ {w}))
  OBVIOUS
<1>3. ~Unreadable /\ LoadedFrom(R) /\ Unreadable' = Unreadable
  BY <1>1, <1>2 DEF StoreInv, Unreadable
<1>4. Q = IF w.complete THEN R \cup {w} ELSE R
  BY <1>1, <1>2 DEF Complete
<1>5. LoadedFrom(Q)'
  <2>1. CASE ~w.complete
    <3>1. store' = store /\ Q = R
      BY <1>4, <2>1 DEF LoadWorkspace
    <3> QED BY <1>3, <3>1 DEF LoadedFrom
  <2>2. CASE w.complete
    <3>1. PICK b : b = store'.byHost
      OBVIOUS
    <3>2. /\ b = IF w.host = None THEN store.byHost
                 ELSE IF w.host \in store.seen
                      THEN Restrict(store.byHost, DOMAIN store.byHost \ {w.host})
                      ELSE Over([h \in {w.host} |-> w.team], store.byHost)
          /\ store'.seen = store.seen \cup ({w.host} \ {None})
          /\ store'.single = w.team
      BY <2>2, <3>1 DEF LoadWorkspace
    <3>3. Q = R \cup {w} /\ w \notin R
      BY <1>1, <1>2, <1>4, <2>2 DEF Complete
    <3>4. store'.seen = {v.host : v \in Q} \ {None}
      BY <1>3, <3>2, <3>3 DEF LoadedFrom
    <3>5. ASSUME NEW h, h # w.host
          PROVE  /\ h \in DOMAIN b <=> h \in DOMAIN store.byHost
                 /\ h \in DOMAIN b => b[h] = store.byHost[h]
                 /\ \A v : Sole(Q, h, v) <=> Sole(R, h, v)
      BY <3>2, <3>3, <3>5 DEF Restrict, Over, Sole
    <3>6. CASE w.host = None
      <4>1. b = store.byHost
        BY <3>2, <3>6
      <4>2. \A h : h # None => \A v : Sole(Q, h, v) <=> Sole(R, h, v)
        BY <3>5, <3>6
      <4> QED BY <1>3, <3>1, <3>2, <3>3, <3>4, <4>1, <4>2 DEF LoadedFrom
    <3>7. CASE w.host # None /\ w.host \in store.seen
      <4>1. b = Restrict(store.byHost, DOMAIN store.byHost \ {w.host})
        BY <3>2, <3>7
      <4>2. w.host \notin DOMAIN b
        BY <4>1 DEF Restrict
      <4>3. PICK v \in R : v.host = w.host
        BY <1>3, <3>7 DEF LoadedFrom
      <4>4. \A u : ~Sole(Q, w.host, u)
        BY <3>3, <4>3 DEF Sole
      <4>5. \A h : h \in DOMAIN b <=> h # None /\ \E u : Sole(Q, h, u)
        BY <1>3, <3>5, <3>7, <4>2, <4>4 DEF LoadedFrom
      <4>6. \A h \in DOMAIN b : \E u : Sole(Q, h, u) /\ b[h] = u.team
        BY <1>3, <3>5, <4>2 DEF LoadedFrom
      <4> QED BY <3>1, <3>2, <3>3, <3>4, <4>5, <4>6 DEF LoadedFrom
    <3>8. CASE w.host # None /\ w.host \notin store.seen
      <4>1. b = Over([h \in {w.host} |-> w.team], store.byHost)
        BY <3>2, <3>8
      <4>2. w.host \in DOMAIN b /\ b[w.host] = w.team
        BY <4>1 DEF Over
      <4>3. \A v \in R : v.host # w.host
        BY <1>3, <3>8 DEF LoadedFrom
      <4>4. Sole(Q, w.host, w)
        BY <3>3, <4>3 DEF Sole
      <4>5. \A h : h \in DOMAIN b <=> h # None /\ \E u : Sole(Q, h, u)
        BY <1>3, <3>5, <3>8, <4>2, <4>4 DEF LoadedFrom
      <4>6. \A h \in DOMAIN b : \E u : Sole(Q, h, u) /\ b[h] = u.team
        BY <1>3, <3>5, <4>2, <4>4 DEF LoadedFrom
      <4> QED BY <3>1, <3>2, <3>3, <3>4, <4>5, <4>6 DEF LoadedFrom
    <3> QED BY <3>6, <3>7, <3>8
  <2> QED BY <2>1, <2>2
<1>6. Started' = Started /\ ~Started
  BY <1>1 DEF Started, KeptInv
<1> QED BY <1>1, <1>2, <1>3, <1>5, <1>6 DEF StoreInv

\* The file is opened, or it is not.
LEMMA OpenStep ==
    ASSUME KeptInv, StoreInv, NEW readable \in BOOLEAN, NEW token \in BOOLEAN, Begin(readable, token)
    PROVE  StoreInv'
<1>1. /\ pc' = "loading" /\ file' = file /\ ls' = <<>> /\ unread' = (IF readable THEN file ELSE {})
      /\ store' = NoStore
      /\ failed' = (IF readable THEN {} ELSE {[what |-> <<"store">>, why |-> "error"]})
                   \cup (IF token THEN {} ELSE {[what |-> <<"token">>, why |-> "error"]})
  BY DEF Begin
<1>2. Unreadable' <=> ~readable
  <2>1. PICK x, y : x = [what |-> <<"store">>, why |-> "error"] /\ y = [what |-> <<"token">>, why |-> "error"]
    OBVIOUS
  <2>2. x # y
    <3>1. x.what[1] = "store" /\ y.what[1] = "token"
      BY <2>1
    <3> QED BY <3>1
  <2> QED BY <1>1, <2>1, <2>2 DEF Unreadable
<1>3. readable => LoadedFrom({})'
  BY <1>1 DEF LoadedFrom, NoStore, Sole
<1>4. readable => Complete(file' \ unread') = {}
  BY <1>1 DEF Complete
<1>5. ~Started'
  BY <1>1 DEF Started
<1>6. file' \in Files /\ unread' \subseteq file'
  BY <1>1 DEF StoreInv
<1> QED BY <1>1, <1>2, <1>3, <1>4, <1>5, <1>6 DEF StoreInv

\* The file is read: the last workspace that was stays for every host if it is the only one.
LEMMA LoadedStep ==
    ASSUME StoreInv, NEW c, StartEngine(c)
    PROVE  StoreInv'
<1>1. /\ pc = "loading" /\ pc' = "engine" /\ unread = {} /\ store' = Loaded
      /\ UNCHANGED <<file, unread, failed>>
  BY DEF StartEngine
<1>2. PICK R : R = Complete(file)
  OBVIOUS
<1>3. /\ store'.byHost = store.byHost
      /\ store'.single = IF Cardinality(R) = 1 THEN store.single ELSE None
  <2>1. store' = [store EXCEPT !.single = IF Cardinality(R) = 1 THEN @ ELSE None]
    BY <1>1, <1>2 DEF Loaded
  <2> QED BY <2>1
<1>4. Unreadable' = Unreadable
  BY <1>1 DEF Unreadable
<1>5. ASSUME NEW h, Unreadable PROVE ForHost(h)' = None
  <2>1. store = NoStore
    BY <1>1, <1>5 DEF StoreInv
  <2>2. DOMAIN store'.byHost = {} /\ store'.single = None
    BY <1>3, <2>1 DEF NoStore
  <2> QED BY <2>2 DEF ForHost
<1>6. ASSUME NEW h, ~Unreadable PROVE ForHost(h)' = Resolve(h)
  <2>1. LoadedFrom(R)
    BY <1>1, <1>2, <1>6 DEF StoreInv
  <2>2. CASE h \in DOMAIN store.byHost
    <3>1. PICK w : Sole(R, h, w) /\ store.byHost[h] = w.team
      BY <2>1, <2>2 DEF LoadedFrom
    <3>2. Claims(file, h) = {w} /\ h # None
      BY <1>2, <2>1, <2>2, <3>1, SoleClaim DEF LoadedFrom
    <3>3. \A v : Claims(file, h) = {v} => v = w
      BY <3>2
    <3>4. (CHOOSE v : Claims(file, h) = {v}) = w
      BY <3>2, <3>3
    <3>5. ForHost(h)' = w.team
      BY <1>3, <2>2, <3>1 DEF ForHost
    <3> QED BY <3>2, <3>4, <3>5 DEF Resolve
  <2>3. CASE h \notin DOMAIN store.byHost
    <3>1. ~(h # None /\ \E w : Claims(file, h) = {w})
      BY <1>2, <2>1, <2>3, SoleClaim DEF LoadedFrom
    <3>2. ForHost(h)' = IF Cardinality(R) = 1 THEN store.single ELSE None
      BY <1>3, <2>3 DEF ForHost
    <3>3. IsFiniteSet(R)
      <4>1. IsFiniteSet(file) /\ R \subseteq file
        BY <1>2, ProbersAssumption DEF StoreInv, Complete
      <4> QED BY <4>1, FS_Subset
    <3>4. Cardinality(R) = 1 <=> \E w : R = {w}
      BY <3>3, FS_Singleton
    <3>5. CASE \E w : Complete(file) = {w}
      <4>1. PICK w : Complete(file) = {w}
        BY <3>5
      <4>2. store.single = w.team /\ ForHost(h)' = store.single
        BY <1>2, <2>1, <3>2, <3>4, <4>1 DEF LoadedFrom
      <4>3. (CHOOSE v : Complete(file) = {v}) = w
        BY <4>1
      <4>4. Resolve(h) = w.team
        BY <3>1, <3>5, <4>3 DEF Resolve
      <4> QED BY <4>2, <4>4
    <3>6. CASE ~ \E w : Complete(file) = {w}
      BY <1>2, <3>1, <3>2, <3>4, <3>6 DEF Resolve
    <3> QED BY <3>5, <3>6
  <2> QED BY <2>2, <2>3
<1>7. \A h : Resolve(h)' = Resolve(h)
  BY <1>1 DEF Resolve, Complete, Claims
<1> QED BY <1>1, <1>4, <1>5, <1>6, <1>7 DEF StoreInv

\* Elsewhere the credentials stay as they are.
LEMMA StoreStays ==
    ASSUME StoreInv, UNCHANGED <<file, unread, store, ls>>, Unreadable' = Unreadable,
           pc' # "loading", Started' => Started
    PROVE  StoreInv'
<1>1. \A h : Resolve(h)' = Resolve(h) /\ ForHost(h)' = ForHost(h)
  BY DEF Resolve, Complete, Claims, ForHost
<1> QED BY <1>1 DEF StoreInv

\* No call is mistaken for the reading of the file.
LEMMA CallIsNoStore ==
    ASSUME EngineInv, NEW c \in calls
    PROVE  c.what # <<"store">>
<1>1. PICK l \in c.about : Asks(c, l)
  BY DEF EngineInv, CallOf
<1>2. \/ c.what = Key(l) \/ c.what = <<"channel", l.host, Channel[l.record]>>
      \/ c.what = <<"query", ObjectFor(l)>> \/ c.what = <<"query", Cases>>
  BY <1>1 DEF Asks
<1>3. Len(Key(l)) = 2
  BY DEF Key
<1> QED BY <1>2, <1>3

LEMMA StoreStep == EngineInv /\ StoreInv /\ [Next]_vars => StoreInv'
<1> SUFFICES ASSUME EngineInv, StoreInv, [Next]_vars PROVE StoreInv'
  OBVIOUS
<1>1. ASSUME UNCHANGED <<file, unread, store, ls, failed>>, pc' # "loading", pc \notin {"idle", "loading"}
      PROVE  StoreInv'
  BY <1>1, StoreStays DEF Started, Unreadable
<1>2. CASE Engine
  <2>1. CASE \E readable, token \in BOOLEAN : Begin(readable, token)
    BY <2>1, OpenStep DEF EngineInv
  <2>2. CASE \E w \in unread : LoadWorkspace(w)
    BY <2>2, LoadingStep DEF EngineInv
  <2>3. CASE \E c \in Corpora : StartEngine(c)
    BY <2>3, LoadedStep
  <2>4. CASE \E s \in left : Unprobed(s)
    BY <1>1, <2>4 DEF Unprobed
  <2>5. CASE Return
    BY <1>1, <2>5 DEF Return
  <2>6. CASE End
    BY <1>1, <2>6 DEF End
  <2>7. CASE Deadline
    BY <1>1, <2>7 DEF Deadline
  <2> QED BY <1>2, <2>1, <2>2, <2>3, <2>4, <2>5, <2>6, <2>7 DEF Engine
<1>3. CASE Prober
  <2>1. ASSUME NEW s \in left, NEW direct, NEW cs, Turn(s), Ask(s, direct, cs) PROVE StoreInv'
    <3>1. s \notin Outside
      BY <2>1, ProbersAssumption DEF EngineInv, KeptInv, Outside
    <3> QED BY <1>1, <2>1, <3>1 DEF Ask, Turn, Outside
  <2>2. ASSUME NEW c \in calls, NEW res, NEW more, Answered(c, res, more), Unreadable' = Unreadable
        PROVE  StoreInv'
    <3>1. pc \notin {"idle", "loading"}
      BY DEF EngineInv, KeptInv, Outside
    <3> QED BY <2>2, <3>1, StoreStays DEF Answered, Started
  <2>3. failed' = failed => Unreadable' = Unreadable
    BY DEF Unreadable
  <2>4. CASE \E s \in left : AskRest(s)
    BY <2>1, <2>4 DEF AskRest
  <2>5. CASE AskGitHub \/ AskSalesforce \/ AskSlack
    BY <2>1, <2>5 DEF AskGitHub, AskSalesforce, AskSlack, Turn
  <2>6. ASSUME NEW c \in calls, Query(c) \/ GetRecord(c) \/ NoCredentials(c) \/ Replies(c) \/ TimesOut(c)
        PROVE  StoreInv'
    BY <2>2, <2>3, <2>6 DEF Query, GetRecord, NoCredentials, Replies, TimesOut
  <2>7. ASSUME NEW c \in calls, NEW w \in SUBSET c.about, History(c, w) PROVE StoreInv'
    BY <2>2, <2>3, <2>7 DEF History
  <2>9. ASSUME NEW c \in calls, NEW w \in SUBSET c.about, NEW bad \in SUBSET w, HistoryGarbled(c, w, bad)
        PROVE  StoreInv'
    <3>1. PICK res, more : Answered(c, res, more)
      BY <2>9 DEF HistoryGarbled
    <3>2. PICK T : T = {[what |-> Key(l), why |-> "unparseable"] : l \in bad}
      OBVIOUS
    <3>3. failed' = failed \cup T
      BY <2>9, <3>2 DEF HistoryGarbled
    <3>4. [what |-> <<"store">>, why |-> "error"] \notin T
      BY <3>2
    <3>5. Unreadable' = Unreadable
      BY <3>3, <3>4 DEF Unreadable
    <3> QED BY <2>2, <3>1, <3>5
  <2>8. ASSUME NEW c \in calls, NEW why, CallFails(c, why) PROVE StoreInv'
    <3>1. PICK x : x = [what |-> c.what, why |-> why]
      OBVIOUS
    <3>2. x.what # <<"store">>
      BY <3>1, CallIsNoStore
    <3>3. failed' = failed \cup {x} /\ Answered(c, All(c.about, why), {})
      BY <2>8, <3>1 DEF CallFails
    <3>4. PICK y : y = [what |-> <<"store">>, why |-> "error"]
      OBVIOUS
    <3>5. x # y
      BY <3>2, <3>4
    <3>6. Unreadable' = Unreadable
      BY <3>3, <3>4, <3>5 DEF Unreadable
    <3> QED BY <2>2, <3>3, <3>6
  <2> QED BY <1>3, <2>4, <2>5, <2>6, <2>7, <2>8, <2>9 DEF Prober
<1>4. CASE UNCHANGED vars
  <2>1. UNCHANGED <<pc, file, unread, store, ls, failed>>
    BY <1>4 DEF vars
  <2>2. /\ Unreadable' = Unreadable /\ Started' = Started
        /\ \A h : Resolve(h)' = Resolve(h) /\ ForHost(h)' = ForHost(h)
        /\ \A R : LoadedFrom(R)' = LoadedFrom(R)
    BY <2>1 DEF Unreadable, Started, Resolve, Complete, Claims, ForHost, LoadedFrom
  <2> QED BY <2>1, <2>2 DEF StoreInv
<1> QED BY <1>2, <1>3, <1>4 DEF Next, Done

LEMMA StoreInvariant == Spec => [](EngineInv /\ StoreInv)
<1>1. Init => StoreInv
  BY DEF Init, StoreInv, Started
<1> QED BY <1>1, StoreStep, EngineInvariant, PTL DEF Spec

\* An answer a run gives for a link is the activity of the record the link is about: ids
\* are matched by both their forms, a record by the query it is in, and a thread is read
\* with the credentials of its own workspace (salesforce.go's idKey, slackauth.go's ForHost).
THEOREM AnswersAreTheirOwn == Spec => []AnswersAreOwn
<1>1. EngineInv /\ StoreInv => AnswersAreOwn
  <2> SUFFICES ASSUME EngineInv, StoreInv,
                      NEW l \in OwnKey, l.record # None, Key(l) \in DOMAIN results,
                      results[Key(l)].checked
               PROVE  results[Key(l)].of = Target(l)
    BY DEF AnswersAreOwn
  <2>1. PICK m \in DOMAIN ls : Key(m) = Key(l) /\ Told(m, results[Key(l)])
    BY DEF EngineInv, Sound
  <2>2. m \in Links /\ Target(m) = Target(l)
    BY <2>1 DEF OwnKey, EngineInv, KeptInv
  <2>3. m \in OwnKey
    BY <2>1, <2>2 DEF OwnKey
  <2>4. m.record # None /\ results[Key(l)].of = Read(m)
    BY <2>1 DEF Told
  <2>5. CASE m.system # "slack"
    BY <2>2, <2>4, <2>5 DEF Read, Target
  <2>6. CASE m.system = "slack"
    <3>1. ForHost(m.host) # None /\ <<ForHost(m.host), m.record>> \in Threads
      BY <2>1, <2>6 DEF Told, Read
    <3>2. Started
      BY DEF Started
    <3>3. Resolve(m.host) # None /\ ForHost(m.host) = Resolve(m.host)
      BY <3>1, <3>2 DEF StoreInv
    <3>4. ForHost(m.host) = TeamOf[m.host]
      <4>1. CASE m.host # None /\ \E w : Claims(file, m.host) = {w}
        <5>1. PICK w : w = CHOOSE v : Claims(file, m.host) = {v}
          OBVIOUS
        <5>2. Claims(file, m.host) = {w} /\ ForHost(m.host) = w.team
          BY <3>3, <4>1, <5>1 DEF Resolve
        <5>3. w \in file /\ file \in Files
          BY <5>2 DEF Claims, Complete, StoreInv
        <5> QED BY <2>3, <2>4, <2>6, <5>2, <5>3, WorkspacesAssumption
      <4>2. CASE ~(m.host # None /\ \E w : Claims(file, m.host) = {w})
        <5>1. \E w : Complete(file) = {w}
          BY <3>3, <4>2 DEF Resolve
        <5>2. PICK w : w = CHOOSE v : Complete(file) = {v}
          OBVIOUS
        <5>3. Complete(file) = {w} /\ ForHost(m.host) = w.team
          BY <3>3, <4>2, <5>1, <5>2 DEF Resolve
        <5>4. w \in file /\ file \in Files
          BY <5>3 DEF Complete, StoreInv
        <5> QED BY <2>3, <2>4, <2>6, <3>1, <5>3, <5>4, WorkspacesAssumption
      <4> QED BY <4>1, <4>2
    <3> QED BY <2>2, <2>4, <2>6, <3>4 DEF Read, Target
  <2> QED BY <2>5, <2>6
<1> QED BY <1>1, StoreInvariant, PTL

----------------------------------------------------------------------------
(* What two runs have in common                                            *)

LEMMA LeastAt ==
    ASSUME NEW S, S \subseteq Nat, S # {}
    PROVE  Min(S) \in S /\ \A i \in S : Min(S) <= i
<1>1. IsWellFoundedOn({p \in Nat \X Nat : p[1] < p[2]}, Nat)
  BY NatLessThanWellFounded, Zenon DEF OpToRel
<1>2. PICK R : R = {p \in Nat \X Nat : p[1] < p[2]}
  OBVIOUS
<1>3. PICK i \in S : \A j \in S : <<j, i>> \notin R
  BY <1>1, <1>2, WFMin
<1>4. ASSUME NEW j \in Nat, NEW k \in Nat, j < k PROVE <<j, k>> \in R
  <2>1. PICK p : p = <<j, k>>
    OBVIOUS
  <2>2. p \in Nat \X Nat /\ p[1] < p[2]
    BY <1>4, <2>1
  <2> QED BY <1>2, <2>1, <2>2
<1>5. ASSUME NEW j \in S PROVE i <= j
  <2>1. j \in Nat /\ i \in Nat /\ ~(j < i)
    BY <1>3, <1>4
  <2> QED BY <2>1
<1> QED BY <1>5 DEF Min

\* Of the links with one key, the run keeps the one that is met first.
LEMMA FirstIsKept ==
    ASSUME NEW c \in Corpora, NEW l \in Range(c)
    PROVE  /\ FirstAt(c, l) \in Nat
           /\ \E m \in Kept(c) : Key(m) = Key(l)
<1>1. PICK S : S = {i \in DOMAIN c : Key(c[i]) = Key(l)}
  OBVIOUS
<1>2. PICK i \in DOMAIN c : l = c[i]
  BY DEF Range
<1>3. S \subseteq Nat /\ i \in S
  BY <1>1, <1>2, ProbersAssumption
<1>4. PICK first : first = FirstAt(c, l)
  OBVIOUS
<1>5. first = Min(S) /\ first \in S /\ first \in Nat
  <2>1. first = Min(S)
    BY <1>1, <1>4 DEF FirstAt
  <2> QED BY <1>3, <2>1, LeastAt
<1>6. PICK m : m = c[first]
  OBVIOUS
<1>7. Key(m) = Key(l) /\ m \in Range(c)
  BY <1>1, <1>5, <1>6 DEF Range
<1>8. FirstAt(c, m) = first
  BY <1>4, <1>7 DEF FirstAt
<1> QED BY <1>4, <1>5, <1>6, <1>7, <1>8 DEF Kept

\* The probers there are when the file is read and the token is minted.
HasStore ==
    \/ \E h : h # None /\ \E w : Claims(file, h) = {w}
    \/ (IF \E w : Complete(file) = {w} THEN (CHOOSE w : Complete(file) = {w}).team ELSE None) # None

Registered == Installed \cup Google \cup (IF HasStore THEN {"slack"} ELSE {})

\* The result of l, whose system has no link that shares its key with another, when no call
\* fails: it depends on no order, and on the credentials file alone.
Steady(l) ==
    IF l.system \notin Registered
    THEN Unchecked(IF l.system \in NotProbeable THEN "notProbeable" ELSE "noProbe")
    ELSE IF l.record = None THEN Unchecked("unparseable")
    ELSE IF l.system = "slack" /\ Resolve(l.host) = None THEN Unchecked("auth")
    ELSE IF IsId(l) /\ ObjectFor(l) = None THEN Unchecked("noProbe")
    ELSE IF \/ IsId(l) /\ ObjectFor(l) \notin QueriedObjects(InSystem("salesforce"))
            \/ l.system = "github" /\ l \notin WithinCap(Parsed(InSystem("github")))
    THEN Unchecked("tooMany")
    ELSE IF /\ l.system = "slack" => <<Resolve(l.host), l.record>> \in Threads
            /\ l.system = "salesforce" => \E r \in DOMAIN Org : Matches(r, l) /\ Org[r] = QueriedBy(l)
    THEN Active(IF l.system = "slack" THEN <<Resolve(l.host), l.record>>
                ELSE <<l.system, Canonical[l.record]>>)
    ELSE Unchecked("error")

\* The systems whose links a run keeps all, and asks for.
Whole(s) == OneForm(s) /\ Cardinality(InSystem(s)) <= MaxLinks

AgreeInv ==
    /\ \A l \in DOMAIN ls : ls[l] \in Nat
    /\ pc = "loading" /\ failed = {} => registered = Installed \cup Google
    /\ Started /\ failed = {} => registered = Registered
    /\ Started => \A s : OneForm(s) => Of(s) = InSystem(s)
    /\ clean # None => \A l \in Links : Whole(l.system) =>
                            Key(l) \in DOMAIN clean /\ clean[Key(l)] = Steady(l)

LEMMA WholeIsAsked ==
    ASSUME EngineInv, AgreeInv, Started, NEW s, Whole(s)
    PROVE  /\ Asked(s) = InSystem(s)
           /\ \A l \in InSystem(s) : l \in DOMAIN ls /\ ~AboveCap(l)
<1>1. Of(s) = InSystem(s) /\ Of(s) \subseteq DOMAIN ls
  BY DEF AgreeInv, Whole, Of
<1>2. IsFiniteSet(Of(s)) /\ Cardinality(Of(s)) <= MaxLinks /\ Cardinality(Of(s)) \in Nat
  BY <1>1, FS_Subset, FS_CardinalityType DEF EngineInv, KeptInv, Whole
<1>3. ASSUME NEW l \in Of(s) PROVE Cardinality({m \in Of(s) : ls[m] < ls[l]}) < MaxLinks
  <2>1. {m \in Of(s) : ls[m] < ls[l]} \subseteq Of(s) \ {l}
    <3>1. ls[l] \in Nat
      BY <1>1 DEF AgreeInv
    <3> QED BY <3>1
  <2>2. IsFiniteSet(Of(s) \ {l}) /\ Cardinality(Of(s) \ {l}) = Cardinality(Of(s)) - 1
    BY <1>2, FS_RemoveElement
  <2>3. /\ Cardinality({m \in Of(s) : ls[m] < ls[l]}) <= Cardinality(Of(s) \ {l})
        /\ Cardinality({m \in Of(s) : ls[m] < ls[l]}) \in Nat
    BY <2>1, <2>2, FS_Subset, FS_CardinalityType
  <2> QED BY <1>2, <2>2, <2>3, ProbersAssumption
<1>4. Asked(s) = Of(s)
  BY <1>3 DEF Asked
<1> QED BY <1>1, <1>4, AskedIsBelow DEF EngineInv

\* In a run in which nothing fails, what is said of a link depends on no order.
LEMMA VerdictIsSteady ==
    ASSUME EngineInv, StoreInv, AgreeInv, Started, failed = {}, NEW l \in DOMAIN ls, Whole(l.system)
    PROVE  Verdict(l) = Steady(l)
<1>1. l \in InSystem(l.system)
  BY DEF InSystem, EngineInv, KeptInv
<1>2. Asked(l.system) = InSystem(l.system) /\ ~AboveCap(l)
  BY <1>1, WholeIsAsked
<1>3. registered = Registered
  BY DEF AgreeInv
<1>4. ForHost(l.host) = Resolve(l.host)
  BY DEF StoreInv, Unreadable
<1>5. OverCap(l) <=> \/ IsId(l) /\ ObjectFor(l) \notin QueriedObjects(InSystem("salesforce"))
                     \/ l.system = "github" /\ l \notin WithinCap(Parsed(InSystem("github")))
  <2>1. IsId(l) => l.system = "salesforce"
    BY DEF IsId
  <2>2. l.system = "salesforce" => Asked("salesforce") = InSystem("salesforce")
    BY <1>2
  <2>3. l.system = "github" => Asked("github") = InSystem("github")
    BY <1>2
  <2> QED BY <2>1, <2>2, <2>3 DEF OverCap
<1>6. Read(l) = IF l.system = "slack" THEN <<Resolve(l.host), l.record>> ELSE <<l.system, Canonical[l.record]>>
  BY <1>4 DEF Read
<1>7. Exists(l) <=> /\ l.system = "slack" => <<Resolve(l.host), l.record>> \in Threads
                    /\ l.system = "salesforce" => \E r \in DOMAIN Org : Matches(r, l) /\ Org[r] = QueriedBy(l)
  BY <1>6 DEF Exists
<1> QED BY <1>2, <1>3, <1>4, <1>5, <1>6, <1>7 DEF Verdict, Steady

LEMMA SteadyStays ==
    ASSUME file' = file, NEW l
    PROVE  Registered' = Registered /\ Steady(l)' = Steady(l)
<1>1. /\ Complete(file') = Complete(file) /\ \A h : Claims(file', h) = Claims(file, h)
      /\ \A h : Resolve(h)' = Resolve(h)
  BY DEF Resolve, Complete, Claims
<1>2. HasStore' = HasStore
  BY <1>1 DEF HasStore
<1>3. Registered' = Registered
  BY <1>2 DEF Registered
<1> QED BY <1>1, <1>3 DEF Steady

LEMMA AgreeStays ==
    ASSUME AgreeInv, UNCHANGED <<file, ls, registered>>, failed' = {} => failed = {},
           pc' # "loading", Started' => Started,
           clean' # None => \A l \in Links : Whole(l.system) =>
                                Key(l) \in DOMAIN clean' /\ clean'[Key(l)] = Steady(l)
    PROVE  AgreeInv'
<1>1. Registered' = Registered /\ \A l : Steady(l)' = Steady(l)
  BY SteadyStays
<1>2. \A s : Of(s)' = Of(s)
  BY DEF Of
<1> QED BY <1>1, <1>2 DEF AgreeInv

LEMMA AgreeStart ==
    ASSUME EngineInv, StoreInv, AgreeInv, NEW c \in Corpora, StartEngine(c)
    PROVE  AgreeInv'
<1>1. /\ pc = "loading" /\ pc' = "engine" /\ unread = {} /\ UNCHANGED <<file, failed, clean>>
      /\ ls' = [l \in Kept(c) |-> FirstAt(c, l)]
      /\ registered' = registered \cup (IF EmptyStore(Loaded) THEN {} ELSE {"slack"})
  BY DEF StartEngine
<1>2. Range(c) = Links /\ Kept(c) \subseteq Links
  BY ProbersAssumption, KeptLinks DEF Links
<1>3. \A l \in DOMAIN ls' : ls'[l] \in Nat
  BY <1>1, <1>2, FirstIsKept
<1>4. ASSUME NEW s, OneForm(s) PROVE Of(s)' = InSystem(s)
  <2>1. \A l \in InSystem(s) : l \in Kept(c)
    <3>1. ASSUME NEW l \in InSystem(s) PROVE l \in Kept(c)
      <4>1. l \in Range(c) /\ l.system = s
        BY <1>2 DEF InSystem
      <4>2. PICK m \in Kept(c) : Key(m) = Key(l)
        BY <4>1, FirstIsKept
      <4>3. m.system = s
        BY <4>1, <4>2 DEF Key
      <4>4. m \in InSystem(s)
        BY <1>2, <4>3 DEF InSystem
      <4> QED BY <1>4, <4>2, <4>4 DEF OneForm
    <3> QED BY <3>1
  <2> QED BY <1>1, <1>2, <2>1 DEF Of, InSystem
<1>5. ASSUME failed = {} PROVE registered' = Registered
  <2>1. PICK R : R = Complete(file)
    OBVIOUS
  <2>2. LoadedFrom(R)
    BY <1>1, <1>5, <2>1 DEF StoreInv, Unreadable
  <2>3. /\ Loaded.byHost = store.byHost
        /\ Loaded.single = IF Cardinality(R) = 1 THEN store.single ELSE None
    <3>1. Loaded = [store EXCEPT !.single = IF Cardinality(R) = 1 THEN @ ELSE None]
      BY <2>1 DEF Loaded
    <3> QED BY <3>1
  <2>4. EmptyStore(Loaded) <=> ~HasStore
    <3>1. DOMAIN store.byHost = {} <=> ~ \E h : h # None /\ \E w : Claims(file, h) = {w}
      BY <2>1, <2>2, SoleClaim DEF LoadedFrom
    <3>2. IsFiniteSet(R)
      <4>1. IsFiniteSet(file) /\ R \subseteq file
        BY <2>1, ProbersAssumption DEF StoreInv, Complete
      <4> QED BY <4>1, FS_Subset
    <3>3. Cardinality(R) = 1 <=> \E w : R = {w}
      BY <3>2, FS_Singleton
    <3>4. CASE \E w : Complete(file) = {w}
      <4>1. PICK w : Complete(file) = {w}
        BY <3>4
      <4>2. Loaded.single = w.team
        BY <2>1, <2>2, <2>3, <3>3, <4>1 DEF LoadedFrom
      <4>3. (CHOOSE v : Complete(file) = {v}) = w
        BY <4>1
      <4> QED BY <2>3, <3>1, <3>4, <4>2, <4>3 DEF EmptyStore, HasStore
    <3>5. CASE ~ \E w : Complete(file) = {w}
      <4>1. Loaded.single = None
        BY <2>1, <2>3, <3>3, <3>5
      <4> QED BY <2>3, <3>1, <3>5, <4>1 DEF EmptyStore, HasStore
    <3> QED BY <3>4, <3>5
  <2> QED BY <1>1, <1>5, <2>4 DEF AgreeInv, Registered
<1>6. Registered' = Registered /\ \A l : Steady(l)' = Steady(l)
  BY <1>1, SteadyStays
<1> QED BY <1>1, <1>3, <1>4, <1>5, <1>6 DEF AgreeInv

LEMMA AgreeEnd ==
    ASSUME EngineInv, StoreInv, AgreeInv, End
    PROVE  AgreeInv'
<1>1. /\ pc = "engine" /\ left = {} /\ pc' = "idle" /\ UNCHANGED <<file, ls, registered, failed>>
      /\ clean' = IF failed = {} /\ ~late THEN results ELSE clean
  BY DEF End
<1>2. calls = {} /\ Started
  BY <1>1 DEF EngineInv, KeptInv, Outside, Started
<1>3. ASSUME failed = {}, ~late, NEW l \in Links, Whole(l.system)
      PROVE  Key(l) \in DOMAIN results /\ results[Key(l)] = Steady(l)
  <2>1. l \in DOMAIN ls
    BY <1>2, <1>3, WholeIsAsked DEF InSystem
  <2>2. Key(l) \in DOMAIN results
    BY <1>1, <1>2, <2>1 DEF EngineInv, Pending
  <2>3. Told(l, results[Key(l)])
    BY <2>1, <2>2 DEF EngineInv, Sound, KeptInv
  <2> QED BY <1>2, <1>3, <2>1, <2>2, <2>3, VerdictIsSteady DEF Told
<1>4. clean' # None => \A l \in Links : Whole(l.system) =>
                           Key(l) \in DOMAIN clean' /\ clean'[Key(l)] = Steady(l)
  <2>1. CASE failed = {} /\ ~late
    BY <1>1, <1>3, <2>1
  <2>2. CASE ~(failed = {} /\ ~late)
    BY <1>1, <2>2 DEF AgreeInv
  <2> QED BY <2>1, <2>2
<1> QED BY <1>1, <1>2, <1>4, AgreeStays

LEMMA AgreeStep == EngineInv /\ StoreInv /\ AgreeInv /\ [Next]_vars => AgreeInv'
<1> SUFFICES ASSUME EngineInv, StoreInv, AgreeInv, [Next]_vars PROVE AgreeInv'
  OBVIOUS
<1>1. ASSUME UNCHANGED <<file, ls, registered, clean>>, failed' = {} => failed = {},
             pc' # "loading", pc \notin {"idle", "loading"}
      PROVE  AgreeInv'
  BY <1>1, AgreeStays DEF Started, AgreeInv
<1>2. CASE Engine
  <2>1. ASSUME NEW readable \in BOOLEAN, NEW token \in BOOLEAN, Begin(readable, token) PROVE AgreeInv'
    <3>1. /\ pc' = "loading" /\ UNCHANGED <<file, clean>> /\ ls' = <<>>
          /\ registered' = Installed \cup (IF token THEN Google ELSE {})
          /\ failed' = {} => token
      BY <2>1 DEF Begin
    <3>2. ~Started' /\ DOMAIN ls' = {}
      BY <3>1 DEF Started
    <3>3. \A l : Steady(l)' = Steady(l)
      BY <3>1, SteadyStays
    <3> QED BY <3>1, <3>2, <3>3 DEF AgreeInv
  <2>2. ASSUME NEW w \in unread, LoadWorkspace(w) PROVE AgreeInv'
    <3>1. pc = "loading" /\ UNCHANGED <<pc, file, clean, ls, registered, failed>>
      BY <2>2 DEF LoadWorkspace
    <3>2. ~Started' /\ DOMAIN ls' = {}
      BY <3>1 DEF Started, EngineInv, KeptInv
    <3>3. \A l : Steady(l)' = Steady(l)
      BY <3>1, SteadyStays
    <3> QED BY <3>1, <3>2, <3>3 DEF AgreeInv
  <2>3. CASE \E c \in Corpora : StartEngine(c)
    BY <2>3, AgreeStart
  <2>4. CASE \E s \in left : Unprobed(s)
    BY <1>1, <2>4 DEF Unprobed
  <2>5. CASE Return
    BY <1>1, <2>5 DEF Return
  <2>6. CASE End
    BY <2>6, AgreeEnd
  <2>7. CASE Deadline
    BY <1>1, <2>7 DEF Deadline
  <2> QED BY <1>2, <2>1, <2>2, <2>3, <2>4, <2>5, <2>6, <2>7 DEF Engine
<1>3. CASE Prober
  <2>1. ASSUME NEW s \in left, NEW direct, NEW cs, Turn(s), Ask(s, direct, cs) PROVE AgreeInv'
    <3>1. s \notin Outside
      BY <2>1, ProbersAssumption DEF EngineInv, KeptInv, Outside
    <3> QED BY <1>1, <2>1, <3>1 DEF Ask, Turn, Outside
  <2>2. ASSUME NEW c \in calls, NEW res, NEW more, Answered(c, res, more), failed' = {} => failed = {}
        PROVE  AgreeInv'
    <3>1. pc \notin {"idle", "loading"}
      BY DEF EngineInv, KeptInv, Outside
    <3> QED BY <1>1, <2>2, <3>1 DEF Answered
  <2>3. CASE \E s \in left : AskRest(s)
    BY <2>1, <2>3 DEF AskRest
  <2>4. CASE AskGitHub \/ AskSalesforce \/ AskSlack
    BY <2>1, <2>4 DEF AskGitHub, AskSalesforce, AskSlack, Turn
  <2>5. ASSUME NEW c \in calls, Query(c) \/ GetRecord(c) \/ NoCredentials(c) \/ Replies(c) \/ TimesOut(c)
        PROVE  AgreeInv'
    BY <2>2, <2>5 DEF Query, GetRecord, NoCredentials, Replies, TimesOut
  <2>6. ASSUME NEW c \in calls, NEW w \in SUBSET c.about, History(c, w) PROVE AgreeInv'
    BY <2>2, <2>6 DEF History
  <2>8. ASSUME NEW c \in calls, NEW w \in SUBSET c.about, NEW bad \in SUBSET w, HistoryGarbled(c, w, bad)
        PROVE  AgreeInv'
    <3>1. failed' # {}
      BY <2>8 DEF HistoryGarbled
    <3>2. PICK res, more : Answered(c, res, more)
      BY <2>8 DEF HistoryGarbled
    <3> QED BY <2>2, <3>1, <3>2
  <2>7. ASSUME NEW c \in calls, NEW why, CallFails(c, why) PROVE AgreeInv'
    <3>1. failed' # {} /\ Answered(c, All(c.about, why), {})
      BY <2>7 DEF CallFails
    <3> QED BY <2>2, <3>1
  <2> QED BY <1>3, <2>3, <2>4, <2>5, <2>6, <2>7, <2>8 DEF Prober
<1>4. CASE UNCHANGED vars
  <2>1. UNCHANGED <<pc, file, ls, registered, clean, failed>>
    BY <1>4 DEF vars
  <2>2. /\ Registered' = Registered /\ Started' = Started
        /\ \A l : Steady(l)' = Steady(l)
        /\ \A s : Of(s)' = Of(s)
    BY <2>1, SteadyStays DEF Started, Of
  <2> QED BY <2>1, <2>2 DEF AgreeInv
<1> QED BY <1>2, <1>3, <1>4 DEF Next, Done

\* Two runs in which nothing fails say the same of every link of a system they keep whole:
\* the order of the links, the maps the probers group them in and the order in which the
\* workspaces are read decide nothing (engine.go's groups, github.go's sort, slackauth.go's Load).
THEOREM RunsDoAgree == Spec => []RunsAgree
<1>1. Init => AgreeInv
  <2> SUFFICES ASSUME Init PROVE AgreeInv
    OBVIOUS
  <2>1. pc = "idle" /\ DOMAIN ls = {} /\ clean = None
    BY DEF Init
  <2> QED BY <2>1 DEF AgreeInv, Started
<1>2. EngineInv /\ StoreInv /\ AgreeInv => RunsAgree
  <2> SUFFICES ASSUME EngineInv, StoreInv, AgreeInv, clean # None, failed = {}, ~late,
                      NEW k \in DOMAIN results, Whole(k[1])
               PROVE  results[k] = clean[k]
    BY DEF RunsAgree, Whole
  <2>1. PICK l \in DOMAIN ls : Key(l) = k /\ Told(l, results[k])
    BY DEF EngineInv, Sound
  <2>2. k[1] = l.system /\ Started /\ l \in Links
    BY <2>1 DEF Key, Started, EngineInv, KeptInv
  <2>3. results[k] = Steady(l)
    BY <2>1, <2>2, VerdictIsSteady DEF Told
  <2>4. clean[k] = Steady(l)
    BY <2>1, <2>2 DEF AgreeInv
  <2> QED BY <2>3, <2>4
<1> QED BY <1>1, <1>2, AgreeStep, StoreInvariant, PTL DEF Spec

============================================================================

------------------------------ MODULE MCProbers ------------------------------
(* Small instances of Probers: one corpus of links to every kind of prober,   *)
(* met in two orders, and three workspaces' credentials.                      *)
EXTENDS Probers, SequencesExt, TLC

CONSTANTS
    hostA, hostB, hostE, t1, t2, t3, t4,   \* Slack hosts and workspaces
    c1, c2, thA, thB, thE, thGone,     \* channels and threads
    x15, x18, x, w18, w, y18, y, z18, z, u18, u, case, caseGone, mail \* the other records

Slack(record, host) == [system |-> "slack", record |-> record, host |-> host, hint |-> None]
Force(record, hint) == [system |-> "salesforce", record |-> record, host |-> None, hint |-> hint]
Rest(system, record) == [system |-> system, record |-> record, host |-> None, hint |-> None]

\* thA and thB are in a channel c1, but thB's is another workspace's; hostE is claimed
\* twice, thGone is gone; x is linked by both forms of its id, u by an id with
\* a custom prefix and no object; a link to Teams has no record; the objects 1, 2 and 3
\* are one above their cap, and so are the issues of Jira above the engine's.
Corpus == << Slack(thA, hostA), Force(x15, None), Rest("github", 1), Slack(thB, hostB),
             Force(y18, 2), Slack(thE, hostE), Force(w18, None),
             Rest("github", 3), Force(z18, None), Rest("gmail", mail),
             Force(x18, 3), Rest("github", 2), Slack(thGone, hostA),
             Force(u18, None), Force(case, None), Force(caseGone, None), Slack(None, hostB),
             Rest("teams", None) >>

Issues == [i \in 1 .. 9 |-> Rest("jira", i)]

TwoOrders == {Corpus \o Issues, Reverse(Corpus) \o Issues}

Ids == {x15, x18, w18, y18, z18, u18}
CanonicalValue == (x15 :> x @@ x18 :> x @@ w18 :> w @@ y18 :> y @@ z18 :> z @@ u18 :> u)
                  @@ [r \in {thA, thB, thE, thGone, case, caseGone, mail} \cup (1 .. 9) |-> r]
ChannelValue == (thA :> c1 @@ thB :> c1 @@ thE :> c2 @@ thGone :> c1)
KeyObjectValue == [r \in Ids |-> CASE r \in {x15, x18, w18} -> 1 [] r = z18 -> 3 [] OTHER -> None]
OrgValue == (x18 :> 1 @@ w18 :> 1 @@ y18 :> 2 @@ z18 :> 3 @@ u18 :> 2 @@ case :> Cases)
TeamOfValue == (hostA :> t1 @@ hostB :> t2 @@ hostE :> t3)
ThreadsValue == {<<t1, thA>>, <<t2, thB>>, <<t3, thE>>}
Workspace(team, host, complete) == [team |-> team, host |-> host, complete |-> complete]

\* hostE is claimed twice; only one workspace is complete, and serves every host.
TwoFiles == {{Workspace(t1, hostA, TRUE), Workspace(t2, hostB, TRUE),
              Workspace(t3, hostE, TRUE), Workspace(t4, hostE, TRUE)},
             {Workspace(t1, hostA, TRUE), Workspace(t2, hostB, FALSE)}}

OneFile == {{Workspace(t1, hostA, TRUE), Workspace(t2, hostB, TRUE)}}

\* Two workspaces have a thread with the same channel id and the same ts.
Shared == {<<Slack(thA, hostA), Slack(thA, hostB)>>, <<Slack(thA, hostB), Slack(thA, hostA)>>}
SharedThreads == {<<t1, thA>>, <<t2, thA>>}

=============================================================================

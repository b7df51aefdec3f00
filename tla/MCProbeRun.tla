----------------------------- MODULE MCProbeRun -----------------------------
(* Small instances of ProbeRun. *)
EXTENDS ProbeRun, TLC

CONSTANTS p1, p2, t1, t2, thread, shared, issue

\* The title of t1 links the Slack threads; other records are linked by comments.
ThreadsInTitle == [t \in Tasks |-> IF t = t1 THEN Slack ELSE {}]

\* Two probes are interchangeable.
EitherProbe == Permutations(Probes)

=============================================================================

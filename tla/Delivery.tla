------------------------------ MODULE Delivery -------------------------------
(* What `ballpoint dispatch` promises of a draft, however often its runs fail *)
(* or die and are repeated: it is recorded while it is queued, at least once, *)
(* at most once by one run, in the order in which its task's drafts were      *)
(* queued; a run's assessment of a task follows the run's drafts and is its   *)
(* last word; and the queue gives up what such a run has recorded, no more.   *)
EXTENDS QueueFile

CONSTANTS Tasks, Entries, TaskOf, Malformed, Assessment, MaxRuns

VARIABLES
  queued,              \* entries ever queued
  pending,             \* the dispatch queue, oldest first
  worklog              \* task -> its comments, oldest first

vars == <<queued, pending, worklog>>

Init ==
  /\ queued = {}
  /\ pending = <<>>
  /\ worklog = [t \in Tasks |-> <<>>]

Queue(e) ==
  /\ e \notin queued
  /\ queued' = queued \cup {e}
  /\ pending' = Append(pending, e)
  /\ UNCHANGED worklog

(* The positions of a task's entries in the queue.                            *)
Waiting(t) == { i \in DOMAIN pending : TaskOf[pending[i]] = t }

PostedBy(t, n, what) ==
  \E i \in DOMAIN worklog[t] : worklog[t][i] = [run |-> n, what |-> what]

(* A malformed draft needs no comment.                                        *)
Handled(t, n, e) == e \in Malformed \/ PostedBy(t, n, e)

(* The runs come one after the other, and run n has not yet had its last word. *)
Latest(t, n) == \A i \in DOMAIN worklog[t] : worklog[t][i].run <= n
Open(t, n) == Latest(t, n) /\ ~PostedBy(t, n, Assessment)

Record(t, n, what) ==
  /\ worklog' = [worklog EXCEPT ![t] = Append(@, [run |-> n, what |-> what])]
  /\ UNCHANGED <<queued, pending>>

Draft(t, n, i) ==
  /\ Open(t, n)
  /\ pending[i] \notin Malformed
  /\ ~PostedBy(t, n, pending[i])
  /\ \A j \in Waiting(t) : j < i => Handled(t, n, pending[j])
  /\ Record(t, n, pending[i])

Assess(t, n) ==
  /\ Open(t, n)
  /\ \E i \in Waiting(t) : \A j \in Waiting(t) : j <= i => Handled(t, n, pending[j])
  /\ Record(t, n, Assessment)

(* The oldest entries of a task leave the queue, the rest keeps its order.    *)
Drain(t, n, done) ==
  /\ Latest(t, n) /\ PostedBy(t, n, Assessment)
  /\ \A i \in Waiting(t) : pending[i] \in done =>
       \A j \in Waiting(t) : j <= i => pending[j] \in done /\ Handled(t, n, pending[j])
  /\ pending' \in Rewrites(pending, { i \in DOMAIN pending : i \in Waiting(t) => pending[i] \notin done })
  /\ UNCHANGED <<queued, worklog>>

Run(t, n) ==
  \/ \E i \in Waiting(t) : Draft(t, n, i)
  \/ Assess(t, n)
  \/ \E done \in SUBSET Entries : Drain(t, n, done)

Next ==
  \/ \E e \in Entries : Queue(e)
  \/ \E t \in Tasks, n \in 1..MaxRuns : Run(t, n)

Spec == Init /\ [][Next]_vars
==============================================================================

----------------------------- MODULE MCPipeline -----------------------------
(* Small instances of Pipeline. *)
EXTENDS Pipeline

CONSTANTS p1, t1, d1, thread

\* Every record is linked in the title.
AllInTitle == [t \in Tasks |-> Keys]

OnOneCard == [d \in Drafts |-> t1]

=============================================================================

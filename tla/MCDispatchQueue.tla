-------------------------- MODULE MCDispatchQueue ----------------------------
(* Small instances of DispatchQueue for TLC.                                  *)
EXTENDS DispatchQueue, TLC

CONSTANTS j1, j2, e1, e2, e3

(* One job drains two drafts of a task, the other one draft.                  *)
TwoTasks == (j1 :> {e1, e2} @@ j2 :> {e3})
==============================================================================

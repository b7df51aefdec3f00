---------------------------- MODULE MCDispatcher -----------------------------
(* Small instances of Dispatcher for TLC.                                     *)
EXTENDS Dispatcher, TLC

CONSTANTS t1, t2, e1, e2, e3

(* Two tasks: t1 has two drafts, one of them malformed, t2 has one.           *)
TwoTasks == {t1, t2}
ThreeEntries == {e1, e2, e3}
OnTwoTasks == (e1 :> t1 @@ e2 :> t1 @@ e3 :> t2)

(* One task with two well-formed drafts.                                      *)
OneTask == {t1}
TwoEntries == {e1, e2}
OnOneTask == (e1 :> t1 @@ e2 :> t1)
==============================================================================

------------------------------ MODULE QueueSpec ------------------------------
(* What internal/queue promises the TUI and the dispatcher: one ordered queue *)
(* of outward actions on which Append, Remove and the dispatcher's Load are   *)
(* atomic although they run in different processes.  The only failure that    *)
(* leaves a trace is a torn append: the queue file then holds a line no Load  *)
(* can decode, and nothing in the program repairs it.                         *)
EXTENDS QueueFile

CONSTANT Entries       \* queue.Entry values; an entry's ID is its identity

VARIABLES
  pending,             \* the entries a Load returns, oldest first
  broken,              \* TRUE once a torn line makes every Load fail
  snapshot             \* what the dispatcher's last Load returned and no job of
                       \* it has called Remove for

vars == <<pending, broken, snapshot>>

Queued == { pending[i] : i \in DOMAIN pending }

Init == pending = <<>> /\ broken = FALSE /\ snapshot = {}

(* Append, acknowledged or not, whose line is complete.                       *)
Add(e) ==
  /\ ~broken
  /\ e \notin Queued
  /\ pending' = Append(pending, e)
  /\ UNCHANGED <<broken, snapshot>>

(* Remove: exactly the named entries leave, the others keep their order.      *)
Drop(ids) ==
  /\ ~broken
  /\ pending' \in Rewrites(pending, { i \in DOMAIN pending : pending[i] \notin ids })
  /\ UNCHANGED <<broken, snapshot>>

(* A write stops in the middle of a line.                                     *)
Break == /\ broken' = TRUE
         /\ pending' = <<>>
         /\ UNCHANGED snapshot

(* Load, without a lock: all that is queued, never a part of it and nothing   *)
(* that a Remove has taken out.                                               *)
Load ==
  /\ ~broken
  /\ snapshot' = Queued
  /\ UNCHANGED <<pending, broken>>

(* A job calls Remove for its part of the snapshot, a Load fails, or the      *)
(* dispatcher ends.                                                           *)
Forget ==
  /\ snapshot' \in SUBSET snapshot
  /\ UNCHANGED <<pending, broken>>

Next == \/ \E e \in Entries : Add(e)
        \/ \E ids \in SUBSET Entries : Drop(ids)
        \/ Break \/ Load \/ Forget

Spec == Init /\ [][Next]_vars
==============================================================================

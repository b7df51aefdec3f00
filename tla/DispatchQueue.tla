--------------------------- MODULE DispatchQueue -----------------------------
(* The dispatch queue on disk (src/internal/queue/queue.go with               *)
(* src/internal/fsutil/atomic.go): TUI processes append lines, the jobs of    *)
(* one dispatcher process rewrite the file without the entries they drained,  *)
(* and the dispatcher reads it without a lock when it starts.                 *)
(*                                                                            *)
(* The file is a sequence of lines.  A line remembers whose bytes it holds    *)
(* (the entry that began it, and those glued to it because the line before    *)
(* them had no newline), whether it decodes, and whether it ends in a         *)
(* newline.  A write is two steps, so that a kill, a full disk or a reader    *)
(* may fall in the middle of it.                                              *)
EXTENDS QueueFile

CONSTANTS
  Entries,             \* queue.Entry values, one ID each (model.go:312-316)
  Appenders,           \* TUI processes, each calling queue.Append
  Removers,            \* jobs of the one dispatcher process (queue.Remove)
  DraftsOf,            \* job -> the entries queued on its task
  NoProc, NoEntry,     \* distinguished non-members
  MaxFaults            \* bound on failed system calls plus kills

Procs == Appenders \cup Removers

ASSUME ProcsAssumption == /\ Appenders \cap Removers = {}
                          /\ NoProc \notin Procs
ASSUME EntriesAssumption == NoEntry \notin Entries
ASSUME DraftsAssumption == DraftsOf \in [Removers -> SUBSET Entries]
ASSUME FaultsAssumption == MaxFaults \in Nat

VARIABLES
  file,                \* pending.jsonl, a sequence of lines
  holder,              \* the process holding the flock on queue/.lock
  pc,                  \* where each process is inside its queue call
  result,              \* what its last call returned
  entry,               \* appender -> the argument of Append
  ids,                 \* remover -> the argument of Remove
  buf,                 \* remover -> the rewritten file (buf, then the temp file)
  snapshot,            \* what the dispatcher's unlocked Load returned and no job has
                       \* called Remove for
  faults,              \* number of faults so far (bounded by MaxFaults)
  \* observations of the history; no action reads them except used, which
  \* stands for the uniqueness of entry IDs
  used,                \* entries ever handed to Append
  acked,               \* entries whose Append returned nil
  removed              \* entries dropped by a completed rewrite

sysvars == <<file, holder, pc, result, entry, ids, buf, snapshot, faults>>
vars == <<file, holder, pc, result, entry, ids, buf, snapshot, faults,
          used, acked, removed>>

Line == [id : Entries, glued : SUBSET Entries, ok : BOOLEAN, ended : BOOLEAN]

Bytes(line) == {line.id} \cup line.glued
Holds(f, e) == \E i \in DOMAIN f : e \in Bytes(f[i])
InFile(e) == Holds(file, e)

(* Load decodes every line or fails (queue.go:84-114); an unterminated last   *)
(* line is decoded like any other.                                            *)
Decodes(f) == \A i \in DOMAIN f : f[i].ok
Decoded(f) == { f[i].id : i \in DOMAIN f }

(* Bytes of e written at the end of f: a new line, or more of an unterminated *)
(* one, which then no longer decodes (two JSON values, or a cut one, on one   *)
(* line).                                                                     *)
Glues(f) == f # <<>> /\ ~f[Len(f)].ended
WriteBytes(f, e, whole) ==
  IF Glues(f)
  THEN [f EXCEPT ![Len(f)] = [id |-> @.id, glued |-> @.glued \cup {e},
                              ok |-> FALSE, ended |-> FALSE]]
  ELSE Append(f, [id |-> e, glued |-> {}, ok |-> whole, ended |-> FALSE])
EndLine(f) ==
  [f EXCEPT ![Len(f)] = [id |-> @.id, glued |-> @.glued,
                         ok |-> @.glued = {}, ended |-> TRUE]]

\* Mutant: the newline after each rewritten line is forgotten.
CleanNoNewline(e) == [id |-> e, glued |-> {}, ok |-> TRUE, ended |-> FALSE]
(* The kept entries, each encoded again on a line of its own.                 *)
Clean(e) == [id |-> e, glued |-> {}, ok |-> TRUE, ended |-> TRUE]
\* Mutant: the survivors come back in the order of a map iteration.
KeptUnordered(f, drop) ==
  LET K == { i \in DOMAIN f : f[i].id \notin drop }
  IN  { [k \in DOMAIN g |-> Clean(f[g[k]].id)] :
          g \in { h \in [1..Cardinality(K) -> K] : \A k \in K : \E a \in DOMAIN h : h[a] = k } }
Kept(f, drop) ==
  Rewrites([i \in DOMAIN f |-> Clean(f[i].id)],
           { i \in DOMAIN f : f[i].id \notin drop })

-------------------------------------------------------------------------------

Init ==
  /\ file = <<>>       \* "A missing file is an empty queue."
  /\ holder = NoProc
  /\ pc = [p \in Procs |-> "idle"]
  /\ result = [p \in Procs |-> "none"]
  /\ entry = [a \in Appenders |-> NoEntry]
  /\ ids = [r \in Removers |-> {}]
  /\ buf = [r \in Removers |-> <<>>]
  /\ snapshot = {}
  /\ faults = 0
  /\ used = {}
  /\ acked = {}
  /\ removed = {}

\* Mutant: a process does not wait for the flock.
LockNotExclusive(p) ==
  /\ pc[p] = "lock"
  /\ holder' = p
  /\ pc' = [pc EXCEPT ![p] = IF p \in Appenders THEN "write" ELSE "load"]
  /\ UNCHANGED <<file, result, entry, ids, buf, snapshot, faults, used, acked, removed>>

\* Mutant: Remove takes LOCK_SH, so that two jobs rewrite the file at once.
LockShared(p) ==
  /\ pc[p] = "lock"
  /\ holder = NoProc \/ {holder, p} \subseteq Removers
  /\ holder' = p
  /\ pc' = [pc EXCEPT ![p] = IF p \in Appenders THEN "write" ELSE "load"]
  /\ UNCHANGED <<file, result, entry, ids, buf, snapshot, faults, used, acked, removed>>

(* withQueueLock: the flock is taken by one open file description at a time.  *)
Lock(p) ==
  /\ pc[p] = "lock"
  /\ holder = NoProc
  /\ holder' = p
  /\ pc' = [pc EXCEPT ![p] = IF p \in Appenders THEN "write" ELSE "load"]
  /\ UNCHANGED <<file, result, entry, ids, buf, snapshot, faults, used, acked, removed>>

(* The deferred unlock, after which the call returns to its caller.           *)
Unlock(p) ==
  /\ pc[p] = "unlock"
  /\ holder' = NoProc
  /\ pc' = [pc EXCEPT ![p] = "idle"]
  /\ acked' = IF p \in Appenders /\ result[p] = "ok" THEN acked \cup {entry[p]} ELSE acked
  /\ UNCHANGED <<file, result, entry, ids, buf, snapshot, faults, used, removed>>

(* Leave the critical section with a result.                                  *)
Return(p, res) ==
  /\ pc' = [pc EXCEPT ![p] = "unlock"]
  /\ result' = [result EXCEPT ![p] = res]

(* Append(root, e): the TUI never reuses an entry ID.                         *)
AppendCall(a, e) ==
  /\ pc[a] = "idle"
  /\ e \notin used
  /\ pc' = [pc EXCEPT ![a] = "lock"]
  /\ result' = [result EXCEPT ![a] = "none"]
  /\ entry' = [entry EXCEPT ![a] = e]
  /\ used' = used \cup {e}
  /\ UNCHANGED <<file, holder, ids, buf, snapshot, faults, acked, removed>>

(* The first bytes of the write: whole is a write cut just before its newline. *)
AppendBytes(a) ==
  /\ pc[a] = "write"
  /\ \E whole \in BOOLEAN : file' = WriteBytes(file, entry[a], whole)
  /\ pc' = [pc EXCEPT ![a] = "partial"]
  /\ UNCHANGED <<holder, result, entry, ids, buf, snapshot, faults, used, acked, removed>>

(* The rest of the write, newline included.                                   *)
AppendEnd(a) ==
  /\ pc[a] = "partial"
  /\ file' = EndLine(file)
  /\ Return(a, "ok")
  /\ UNCHANGED <<holder, entry, ids, buf, snapshot, faults, used, acked, removed>>

(* Remove(root, ids), once per job, for the entries of its group.             *)
RemoveCall(r, drop) ==
  /\ pc[r] = "idle"
  /\ drop # {}
  /\ pc' = [pc EXCEPT ![r] = "lock"]
  /\ result' = [result EXCEPT ![r] = "none"]
  /\ ids' = [ids EXCEPT ![r] = drop]
  /\ snapshot' = snapshot \ drop
  /\ UNCHANGED <<file, holder, entry, buf, faults, used, acked, removed>>

(* The Load inside Remove cannot decode the file: nothing is rewritten.       *)
RemoveUndecodable(r) ==
  /\ pc[r] = "load"
  /\ ~Decodes(file)
  /\ Return(r, "err")
  /\ UNCHANGED <<file, holder, entry, ids, buf, snapshot, faults, used, acked, removed>>

\* Mutant: the Load inside Remove skips over lines it cannot decode.
RemoveFilterTolerant(r) ==
  /\ pc[r] = "load"
  /\ \E kept \in Kept(SelectSeq(file, LAMBDA l : l.ok), ids[r]) : buf' = [buf EXCEPT ![r] = kept]
  /\ pc' = [pc EXCEPT ![r] = "temp"]
  /\ UNCHANGED <<file, holder, result, entry, ids, snapshot, faults, used, acked, removed>>

(* Otherwise the kept entries are gathered in memory.  A job's entries are    *)
(* there until it removes them, so the early returns for an empty queue and   *)
(* for none of them in it are never taken: a call would hang here if one was. *)
RemoveFilter(r) ==
  /\ pc[r] = "load"
  /\ Decodes(file)
  /\ Decoded(file) \cap ids[r] # {}
  /\ \E kept \in Kept(file, ids[r]) : buf' = [buf EXCEPT ![r] = kept]
  /\ pc' = [pc EXCEPT ![r] = "temp"]
  /\ UNCHANGED <<file, holder, result, entry, ids, snapshot, faults, used, acked, removed>>

\* Mutant: pending.jsonl is truncated and rewritten in place.
RemoveTruncate(r) ==
  /\ pc[r] = "temp"
  /\ pc' = [pc EXCEPT ![r] = "rename"]
  /\ file' = <<>>
  /\ UNCHANGED <<holder, result, entry, ids, buf, snapshot, faults, used, acked, removed>>

(* WriteBytesAtomic: the temp file is written, synced and closed ...          *)
RemoveWriteTemp(r) ==
  /\ pc[r] = "temp"
  /\ pc' = [pc EXCEPT ![r] = "rename"]
  /\ UNCHANGED <<file, holder, result, entry, ids, buf, snapshot, faults, used, acked, removed>>

\* Mutant: the rewrite is appended to pending.jsonl instead of replacing it.
RemoveAppend(r) ==
  /\ pc[r] = "rename"
  /\ file' = file \o buf[r]
  /\ removed' = removed \cup ids[r]
  /\ Return(r, "ok")
  /\ UNCHANGED <<holder, entry, ids, buf, snapshot, faults, used, acked>>

(* ... and renamed over pending.jsonl.                                        *)
RemoveRename(r) ==
  /\ pc[r] = "rename"
  /\ file' = buf[r]
  /\ removed' = removed \cup ids[r]
  /\ Return(r, "ok")
  /\ UNCHANGED <<holder, entry, ids, buf, snapshot, faults, used, acked>>

\* Mutant: Load skips over lines it cannot decode.
DispatcherLoadTolerant ==
  /\ \A r \in Removers : pc[r] = "idle"
  /\ snapshot' = { file[i].id : i \in { j \in DOMAIN file : file[j].ok } }
  /\ UNCHANGED <<file, holder, pc, result, entry, ids, buf, faults, used, acked, removed>>

(* resolveDispatchDeps: the queue snapshot, read without the lock.  Whatever  *)
(* the file holds at that moment is decoded, or the dispatcher exits.         *)
DispatcherLoad ==
  /\ \A r \in Removers : pc[r] = "idle"
  /\ snapshot' = IF Decodes(file) THEN Decoded(file) ELSE {}
  /\ UNCHANGED <<file, holder, pc, result, entry, ids, buf, faults, used, acked, removed>>

\* Mutant: a failed write or rename is reported as success.
FailSwallowed(p) ==
  /\ faults < MaxFaults
  /\ faults' = faults + 1
  /\ pc[p] \in {"write", "partial", "temp", "rename"}
  /\ Return(p, "ok")
  /\ UNCHANGED <<file, holder, entry, ids, buf, snapshot, used, acked, removed>>

(* A system call fails: before the lock (mkdir, open, flock), in the write    *)
(* (ENOSPC, possibly after some bytes), or in writing or renaming the temp    *)
(* file, which is then removed.                                               *)
Fail(p) ==
  /\ faults < MaxFaults
  /\ faults' = faults + 1
  /\ \/ /\ pc[p] = "lock"
        /\ pc' = [pc EXCEPT ![p] = "idle"]
        /\ result' = [result EXCEPT ![p] = "err"]
     \/ /\ pc[p] \in {"write", "partial", "temp", "rename"}
        /\ Return(p, "err")
  /\ UNCHANGED <<file, holder, entry, ids, buf, snapshot, used, acked, removed>>

(* An operating-system process dies between two steps: a TUI, or the          *)
(* dispatcher with all its jobs.  The kernel drops its flock; what it wrote   *)
(* stays.                                                                     *)
OSProcesses == {{a} : a \in Appenders} \cup {Removers}
\* Mutant: the lock is the existence of the file, which a killed holder leaves.
KillLeavesLock(P) ==
  /\ faults < MaxFaults
  /\ faults' = faults + 1
  /\ \E p \in P : pc[p] # "idle"
  /\ pc' = [p \in Procs |-> IF p \in P THEN "idle" ELSE pc[p]]
  /\ result' = [p \in Procs |-> IF p \in P THEN "none" ELSE result[p]]
  /\ snapshot' = IF P = Removers THEN {} ELSE snapshot
  /\ UNCHANGED <<file, holder, entry, ids, buf, used, acked, removed>>

Kill(P) ==
  /\ faults < MaxFaults
  /\ faults' = faults + 1
  /\ \E p \in P : pc[p] # "idle"
  /\ pc' = [p \in Procs |-> IF p \in P THEN "idle" ELSE pc[p]]
  /\ result' = [p \in Procs |-> IF p \in P THEN "none" ELSE result[p]]
  /\ holder' = IF holder \in P THEN NoProc ELSE holder
  /\ snapshot' = IF P = Removers THEN {} ELSE snapshot
  /\ UNCHANGED <<file, entry, ids, buf, used, acked, removed>>

AppendNext(a) == AppendBytes(a) \/ AppendEnd(a)
RemoveNext(r) ==
  \/ RemoveUndecodable(r)
  \/ RemoveFilter(r)
  \/ RemoveWriteTemp(r)
  \/ RemoveRename(r)

Next ==
  \/ \E p \in Procs : Lock(p) \/ Unlock(p) \/ Fail(p)
  \/ \E a \in Appenders : AppendNext(a)
  \/ \E a \in Appenders, e \in Entries : AppendCall(a, e)
  \/ \E r \in Removers : RemoveNext(r)
  \/ \E r \in Removers : RemoveCall(r, snapshot \cap DraftsOf[r])
  \/ DispatcherLoad
  \/ \E P \in OSProcesses : Kill(P)

Spec == Init /\ [][Next]_vars

(* A process inside a call keeps running, and the kernel does not pass a      *)
(* blocked flock over for ever.                                               *)
Fairness ==
  /\ \A p \in Procs : SF_vars(Lock(p)) /\ WF_vars(Unlock(p))
  /\ \A a \in Appenders : WF_vars(AppendNext(a))
  /\ \A r \in Removers : WF_vars(RemoveNext(r))

LiveSpec == Spec /\ Fairness

-------------------------------------------------------------------------------

PCs == {"idle", "lock", "write", "partial", "load", "temp", "rename", "unlock"}

(* Every variable stays in its type; only the last line of the file may lack  *)
(* its newline.                                                               *)
TypeOK ==
  /\ file \in Seq(Line)
  /\ \A i \in DOMAIN file : i < Len(file) => file[i].ended
  /\ holder \in Procs \cup {NoProc}
  /\ pc \in [Procs -> PCs]
  /\ result \in [Procs -> {"none", "ok", "err"}]
  /\ entry \in [Appenders -> Entries \cup {NoEntry}]
  /\ ids \in [Removers -> SUBSET Entries]
  /\ buf \in [Removers -> Seq(Line)]
  /\ snapshot \in SUBSET Entries
  /\ faults \in 0..MaxFaults
  /\ used \in SUBSET Entries
  /\ acked \in SUBSET Entries
  /\ removed \in SUBSET Entries

(* An acknowledged append is never lost: until a Remove naming it has         *)
(* rewritten the file, its bytes are in pending.jsonl, whatever Removes,      *)
(* failed writes and kills happen around it (queue.go:18-25).                 *)
NoLostAppend == \A e \in acked \ removed : InFile(e)

(* A removed entry never comes back: no rewrite computed from an older file   *)
(* is renamed over a newer one (queue.go:20-24), so the dispatcher cannot     *)
(* send a drained draft again.                                                *)
NoResurrection == \A e \in removed : ~InFile(e)

(* When Remove has returned nil, none of its entries is left in the file, for *)
(* every interleaving with other Removes and Appends (queue.go:116-122).      *)
RemovedMeansGone ==
  \A r \in Removers :
    pc[r] = "idle" /\ result[r] = "ok" => \A e \in ids[r] : ~InFile(e)

(* No entry is in the file twice, so a drained entry cannot survive as a copy *)
(* and one draft is posted per entry of a snapshot.                           *)
NoDuplicates ==
  \A i, j \in DOMAIN file : i # j => Bytes(file[i]) \cap Bytes(file[j]) = {}

(* The file cannot be decoded and no write in progress will repair it.        *)
MidLine(i) == /\ i = Len(file)
              /\ \E a \in Appenders : pc[a] = "partial"
              /\ file[i].glued = {}
Wedged == \E i \in DOMAIN file : ~file[i].ok /\ ~MidLine(i)

(* A torn line is never dropped or healed by a later call: every Load and     *)
(* every Remove fails from then on, and no rewrite silently discards the      *)
(* bytes it could not decode (queue.go:105-107, 126-129).                     *)
WedgedForGood == [][Wedged => Wedged']_vars

(* First-in first-out: no step, a rewrite included, turns the order of two    *)
(* queued entries round (queue.go:83, 134-150); the drafts of a task are      *)
(* posted in the order they were typed.                                       *)
Before(f, b, c) ==
  \E i, j \in DOMAIN f : i < j /\ b \in Bytes(f[i]) /\ c \in Bytes(f[j])
OrderKept ==
  [][\A b, c \in Entries : Before(file, b, c) => ~Before(file', c, b)]_vars

(* Every queue call returns (queue.go:26-40): no process waits for ever on a  *)
(* lock whose holder is gone.                                                 *)
CallsReturn == \A p \in Procs : pc[p] # "idle" ~> pc[p] = "idle"

(* The queue implements the atomic queue of QueueSpec.  An append in progress *)
(* is not there yet; a wedged file has no readable content.  The snapshot is  *)
(* the dispatcher's own: a Load that reads beside an append gets all that is  *)
(* queued or nothing (queue.go:83-114).                                       *)
Readable == { i \in DOMAIN file : file[i].ok }
pendingBar ==
  IF Wedged THEN <<>>
  ELSE [i \in 1..Cardinality(Readable) |-> file[i].id]
Atomic == INSTANCE QueueSpec WITH pending <- pendingBar, broken <- Wedged
AtomicQueue == Atomic!Spec
==============================================================================

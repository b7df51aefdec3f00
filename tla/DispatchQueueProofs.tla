------------------------- MODULE DispatchQueueProofs -------------------------
(* Theorems of DispatchQueue for any number of TUIs, jobs, entries and faults. *)
EXTENDS DispatchQueue, SequenceTheorems, FiniteSetTheorems, TLAPS

(* A file of lines: only the last may be unterminated, what decodes holds one *)
(* entry only, and no entry is in two lines.                                  *)
WellFormed(f) ==
  /\ f \in Seq(Line)
  /\ \A i \in DOMAIN f : i < Len(f) => f[i].ended
  /\ \A i \in DOMAIN f : f[i].ok => f[i].glued = {}
  /\ \A i, j \in DOMAIN f : i # j => Bytes(f[i]) \cap Bytes(f[j]) = {}

(* The lock is held by the process inside the critical section, and each kind *)
(* of process goes through its own steps.                                     *)
LockInv ==
  /\ \A p \in Procs : holder = p <=> pc[p] \notin {"idle", "lock"}
  /\ \A a \in Appenders : pc[a] \in {"idle", "lock", "write", "partial", "unlock"}
  /\ \A r \in Removers : pc[r] \in {"idle", "lock", "load", "temp", "rename", "unlock"}

(* An entry handed to Append but not yet written is nowhere else.             *)
NotYetWritten(a) == pc[a] \in {"lock", "write"}
Unseen(e) ==
  /\ ~InFile(e)
  /\ e \notin acked \cup removed \cup snapshot
  /\ \A r \in Removers : e \notin ids[r]
AppendInv ==
  \A a \in Appenders :
    /\ pc[a] # "idle" => entry[a] \in used
    /\ entry[a] # NoEntry => entry[a] \in used
    /\ NotYetWritten(a) =>
         /\ Unseen(entry[a])
         /\ \A b \in Appenders \ {a} : entry[b] # entry[a]
    /\ result[a] = "ok" => pc[a] \in {"unlock", "idle"}
    /\ pc[a] = "partial" => file # <<>> /\ InFile(entry[a])
    /\ pc[a] = "unlock" /\ result[a] = "ok" => InFile(entry[a])

(* What a remover has gathered is the file it will replace, filtered.         *)
RemoveInv ==
  \A r \in Removers :
    /\ result[r] = "ok" =>
         /\ pc[r] \in {"unlock", "idle"}
         /\ \A e \in ids[r] : ~InFile(e)
    /\ pc[r] \in {"temp", "rename"} =>
         /\ Decodes(file)
         /\ buf[r] \in Kept(file, ids[r])

(* Everything in the file, the history and the snapshot was once appended.    *)
HistoryInv ==
  /\ \A e \in Entries : InFile(e) => e \in used
  /\ acked \cup removed \cup snapshot \subseteq used
  /\ \A r \in Removers : ids[r] \subseteq used

IInv ==
  /\ TypeOK /\ WellFormed(file) /\ LockInv /\ AppendInv /\ RemoveInv /\ HistoryInv
  /\ NoLostAppend /\ NoResurrection

-------------------------------------------------------------------------------
(* What the operations on a file do to its contents.                          *)

(* The first bytes of a write add one entry and take none away.               *)
LEMMA WriteBytesAdds ==
  ASSUME NEW f, WellFormed(f), NEW e \in Entries, ~Holds(f, e), NEW whole \in BOOLEAN,
         NEW g, g = WriteBytes(f, e, whole)
  PROVE  /\ WellFormed(g)
         /\ g # <<>>
         /\ \A x : Holds(g, x) <=> x = e \/ Holds(f, x)
<1>1. PICK n \in Nat : /\ n = Len(f) /\ f \in Seq(Line) /\ DOMAIN f = 1..n
                       /\ \A i \in 1..n : f[i] \in Line
  BY DEF WellFormed
<1>2. CASE Glues(f)
  <2>1. n \in 1..n /\ n \in 1..Len(f) /\ f[n] \in Line /\ ~f[n].ended
    BY <1>1, <1>2 DEF Glues
  <2>2. PICK old \in Line :
          /\ old = [id |-> f[n].id, glued |-> f[n].glued \cup {e}, ok |-> FALSE, ended |-> FALSE]
          /\ ~old.ok /\ ~old.ended /\ Bytes(old) = Bytes(f[n]) \cup {e}
    <3>1. f[n].id \in Entries /\ f[n].glued \cup {e} \in SUBSET Entries
      BY <2>1 DEF Line
    <3>2. PICK old : old = [id |-> f[n].id, glued |-> f[n].glued \cup {e}, ok |-> FALSE, ended |-> FALSE]
      OBVIOUS
    <3>3. /\ old \in Line /\ ~old.ok /\ ~old.ended
          /\ Bytes(old) = {f[n].id} \cup (f[n].glued \cup {e})
      BY <3>1, <3>2 DEF Line, Bytes
    <3>4. Bytes(old) = Bytes(f[n]) \cup {e}
      BY <3>3 DEF Bytes
    <3> QED BY <3>2, <3>3, <3>4
  <2>3. g = [f EXCEPT ![n] = old]
    BY <1>1, <1>2, <2>2 DEF WriteBytes
  <2>4. /\ g \in Seq(Line) /\ Len(g) = n
        /\ \A i \in 1..n : g[i] = IF i = n THEN old ELSE f[i]
    BY <1>1, <2>1, <2>3, ExceptSeq
  <2>5. DOMAIN g = 1..n /\ g # <<>>
    BY <2>1, <2>4
  <2>6. \A i \in 1..n : Bytes(g[i]) = IF i = n THEN Bytes(f[n]) \cup {e} ELSE Bytes(f[i])
    BY <2>2, <2>4
  <2>7. \A x : Holds(g, x) <=> x = e \/ Holds(f, x)
    BY <1>1, <2>1, <2>5, <2>6 DEF Holds
  <2>8. \A i \in 1..n : (i < n => g[i].ended) /\ (g[i].ok => g[i].glued = {})
    BY <1>1, <2>2, <2>4 DEF WellFormed
  <2>9. \A i, j \in 1..n : i # j => Bytes(g[i]) \cap Bytes(g[j]) = {}
    <3>1. \A i \in 1..n : e \notin Bytes(f[i])
      BY <1>1 DEF Holds
    <3>2. \A i, j \in 1..n : i # j => Bytes(f[i]) \cap Bytes(f[j]) = {}
      BY <1>1 DEF WellFormed
    <3> SUFFICES ASSUME NEW i \in 1..n, NEW j \in 1..n, i # j
                 PROVE  Bytes(g[i]) \cap Bytes(g[j]) = {}
      OBVIOUS
    <3>3. /\ Bytes(g[i]) = IF i = n THEN Bytes(f[i]) \cup {e} ELSE Bytes(f[i])
          /\ Bytes(g[j]) = IF j = n THEN Bytes(f[j]) \cup {e} ELSE Bytes(f[j])
      BY <2>6
    <3>4. e \notin Bytes(f[i]) /\ e \notin Bytes(f[j]) /\ Bytes(f[i]) \cap Bytes(f[j]) = {}
      BY <3>1, <3>2
    <3>5. CASE i = n
      <4>1. Bytes(g[i]) = Bytes(f[i]) \cup {e} /\ Bytes(g[j]) = Bytes(f[j])
        BY <3>3, <3>5
      <4> QED BY <3>4, <4>1
    <3>6. CASE i # n
      <4>1. Bytes(g[i]) = Bytes(f[i]) /\ Bytes(g[j]) \subseteq Bytes(f[j]) \cup {e}
        BY <3>3, <3>6
      <4> QED BY <3>4, <4>1
    <3> QED BY <3>5, <3>6
  <2> QED BY <2>4, <2>5, <2>7, <2>8, <2>9 DEF WellFormed
<1>3. CASE ~Glues(f)
  <2>1. PICK new \in Line : /\ new = [id |-> e, glued |-> {}, ok |-> whole, ended |-> FALSE]
                            /\ new.glued = {} /\ Bytes(new) = {e}
    <3>1. PICK new : new = [id |-> e, glued |-> {}, ok |-> whole, ended |-> FALSE]
      OBVIOUS
    <3>2. new \in Line /\ new.glued = {} /\ Bytes(new) = {e} \cup {}
      BY <3>1 DEF Line, Bytes
    <3> QED BY <3>1, <3>2
  <2>2. g = Append(f, new)
    BY <1>3, <2>1 DEF WriteBytes
  <2>3. /\ g \in Seq(Line) /\ Len(g) = n + 1
        /\ g[n + 1] = new /\ \A i \in 1..n : g[i] = f[i]
    BY <1>1, <2>2, AppendProperties
  <2>4. DOMAIN g = 1..(n + 1) /\ g # <<>>
    BY <1>1, <2>3
  <2>5. \A i \in 1..(n + 1) : i \in 1..n \/ i = n + 1
    BY <1>1
  <2>6. \A x : Holds(g, x) <=> x = e \/ Holds(f, x)
    <3>1. \A i \in 1..n : Bytes(g[i]) = Bytes(f[i])
      BY <2>3
    <3>2. n + 1 \in 1..(n + 1) /\ \A i \in 1..n : i \in 1..(n + 1)
      OBVIOUS
    <3>3. Bytes(g[n + 1]) = {e}
      BY <2>1, <2>3
    <3> QED BY <1>1, <2>4, <2>5, <3>1, <3>2, <3>3 DEF Holds
  <2>7. \A i \in 1..n : f[i].ended
    BY <1>1, <1>3 DEF WellFormed, Glues
  <2>8. \A i \in 1..(n + 1) : (i < n + 1 => g[i].ended) /\ (g[i].ok => g[i].glued = {})
    <3>1. \A i \in 1..n : g[i].ended /\ (g[i].ok => g[i].glued = {})
      <4>1. \A i \in 1..n : f[i].ok => f[i].glued = {}
        BY <1>1 DEF WellFormed
      <4> QED BY <2>3, <2>7, <4>1
    <3>2. g[n + 1].glued = {}
      BY <2>1, <2>3
    <3> QED BY <2>5, <3>1, <3>2
  <2>9. \A i, j \in 1..(n + 1) : i # j => Bytes(g[i]) \cap Bytes(g[j]) = {}
    <3>1. \A i \in 1..n : e \notin Bytes(f[i]) /\ Bytes(g[i]) = Bytes(f[i])
      BY <1>1, <2>3 DEF Holds
    <3>2. \A i, j \in 1..n : i # j => Bytes(f[i]) \cap Bytes(f[j]) = {}
      BY <1>1 DEF WellFormed
    <3>3. Bytes(g[n + 1]) = {e}
      BY <2>1, <2>3
    <3> SUFFICES ASSUME NEW i \in 1..(n + 1), NEW j \in 1..(n + 1), i # j
                 PROVE  Bytes(g[i]) \cap Bytes(g[j]) = {}
      OBVIOUS
    <3>4. CASE i \in 1..n /\ j \in 1..n
      BY <3>1, <3>2, <3>4
    <3>5. CASE i \in 1..n /\ j = n + 1
      BY <3>1, <3>3, <3>5
    <3>6. CASE i = n + 1 /\ j \in 1..n
      BY <3>1, <3>3, <3>6
    <3> QED BY <2>5, <3>4, <3>5, <3>6
  <2> QED BY <2>3, <2>4, <2>6, <2>8, <2>9 DEF WellFormed
<1> QED BY <1>2, <1>3

(* The rest of a write ends the last line and keeps its bytes.                *)
LEMMA EndLineKeeps ==
  ASSUME NEW f, WellFormed(f), f # <<>>, NEW g, g = EndLine(f)
  PROVE  /\ WellFormed(g)
         /\ \A x : Holds(g, x) <=> Holds(f, x)
<1>1. PICK n \in Nat : /\ n = Len(f) /\ f \in Seq(Line) /\ DOMAIN f = 1..n
                       /\ n \in 1..n /\ n \in 1..Len(f)
                       /\ \A i \in 1..n : f[i] \in Line
  BY DEF WellFormed
<1>2. PICK new \in Line :
        /\ new = [id |-> f[n].id, glued |-> f[n].glued, ok |-> f[n].glued = {}, ended |-> TRUE]
        /\ new.ended /\ (new.ok => new.glued = {}) /\ Bytes(new) = Bytes(f[n])
  <2>1. f[n].id \in Entries /\ f[n].glued \in SUBSET Entries /\ (f[n].glued = {}) \in BOOLEAN
    BY <1>1 DEF Line
  <2>2. PICK new : new = [id |-> f[n].id, glued |-> f[n].glued, ok |-> f[n].glued = {}, ended |-> TRUE]
    OBVIOUS
  <2>3. /\ new \in Line /\ new.glued = f[n].glued /\ (new.ok <=> f[n].glued = {}) /\ new.ended
        /\ Bytes(new) = {f[n].id} \cup f[n].glued
    BY <2>1, <2>2 DEF Line, Bytes
  <2> QED BY <2>2, <2>3 DEF Bytes
<1>3. g = [f EXCEPT ![n] = new]
  BY <1>1, <1>2 DEF EndLine
<1>4. /\ g \in Seq(Line) /\ Len(g) = n
      /\ \A i \in 1..n : g[i] = IF i = n THEN new ELSE f[i]
  BY <1>1, <1>3, ExceptSeq
<1>5. DOMAIN g = 1..n
  BY <1>4
<1>6. \A i \in 1..n : Bytes(g[i]) = Bytes(f[i])
  BY <1>2, <1>4
<1>7. \A x : Holds(g, x) <=> Holds(f, x)
  BY <1>1, <1>5, <1>6 DEF Holds
<1>8. \A i \in 1..n : (i < n => g[i].ended) /\ (g[i].ok => g[i].glued = {})
  BY <1>1, <1>2, <1>4 DEF WellFormed
<1>9. \A i, j \in 1..n : i # j => Bytes(g[i]) \cap Bytes(g[j]) = {}
  BY <1>1, <1>6 DEF WellFormed
<1> QED BY <1>4, <1>5, <1>7, <1>8, <1>9 DEF WellFormed

(* A rewrite of a decodable file keeps exactly the entries it was not asked   *)
(* to drop, one clean line each.                                              *)
LEMMA KeptKeeps ==
  ASSUME NEW f, WellFormed(f), Decodes(f), NEW drop, NEW g, g \in Kept(f, drop)
  PROVE  /\ WellFormed(g)
         /\ Decodes(g)
         /\ \A x : Holds(g, x) <=> Holds(f, x) /\ x \notin drop
<1>1. PICK n \in Nat : /\ n = Len(f) /\ f \in Seq(Line) /\ DOMAIN f = 1..n
                       /\ \A i \in 1..n : f[i] \in Line
  BY DEF WellFormed
<1>2. \A i \in 1..n : Bytes(f[i]) = {f[i].id} /\ f[i].id \in Entries
  BY <1>1 DEF WellFormed, Decodes, Bytes, Line
<1>3. PICK K : K = { i \in DOMAIN f : f[i].id \notin drop }
  OBVIOUS
<1>4. PICK c : c = [i \in DOMAIN f |-> Clean(f[i].id)]
  OBVIOUS
<1>5. PICK m \in Nat : m = Cardinality(K)
  <2>1. IsFiniteSet(1..n) /\ K \subseteq 1..n
    BY <1>1, <1>3, FS_Interval
  <2> QED BY <2>1, FS_Subset, FS_CardinalityType
<1>6. PICK h \in Embeddings(K) : g = [k \in DOMAIN h |-> c[h[k]]]
  <2>1. g \in Rewrites([i \in DOMAIN f |-> Clean(f[i].id)],
                       { i \in DOMAIN f : f[i].id \notin drop })
    BY DEF Kept
  <2>2. g \in Rewrites(c, K)
    BY <1>3, <1>4, <2>1
  <2> QED BY <2>2 DEF Rewrites
<1>7. /\ h \in [1..m -> K]
      /\ \A a, b \in 1..m : a < b => h[a] < h[b]
      /\ \A k \in K : \E a \in 1..m : h[a] = k
  BY <1>5, <1>6 DEF Embeddings
<1>8. \A k \in 1..m : h[k] \in 1..n /\ f[h[k]].id \notin drop /\ f[h[k]].id \in Entries
  BY <1>1, <1>2, <1>3, <1>7
<1>9. DOMAIN g = 1..m /\ \A k \in 1..m : g[k] = Clean(f[h[k]].id)
  BY <1>1, <1>4, <1>6, <1>7, <1>8
<1>10. \A k \in 1..m : /\ g[k] \in Line /\ Bytes(g[k]) = {f[h[k]].id}
                       /\ g[k].ok /\ g[k].ended /\ g[k].glued = {}
  <2> SUFFICES ASSUME NEW k \in 1..m
               PROVE  /\ g[k] \in Line /\ Bytes(g[k]) = {f[h[k]].id}
                      /\ g[k].ok /\ g[k].ended /\ g[k].glued = {}
    OBVIOUS
  <2>1. g[k] = [id |-> f[h[k]].id, glued |-> {}, ok |-> TRUE, ended |-> TRUE]
    BY <1>9 DEF Clean
  <2>2. f[h[k]].id \in Entries
    BY <1>8
  <2>3. /\ g[k] \in Line /\ g[k].glued = {} /\ g[k].ok /\ g[k].ended
        /\ Bytes(g[k]) = {f[h[k]].id} \cup {}
    BY <2>1, <2>2 DEF Line, Bytes
  <2> QED BY <2>3
<1>11. g \in Seq(Line) /\ Len(g) = m
  <2>1. g = [k \in 1..m |-> g[k]]
    BY <1>6, <1>7, <1>9
  <2>2. g \in [1..m -> Line]
    BY <1>10, <2>1
  <2> QED BY <2>2, SeqDef
<1>12. \A a, b \in 1..m : a # b => h[a] # h[b]
  BY <1>7, <1>8
<1>13. \A a, b \in 1..m : a # b => Bytes(g[a]) \cap Bytes(g[b]) = {}
  <2> SUFFICES ASSUME NEW a \in 1..m, NEW b \in 1..m, a # b
               PROVE  Bytes(g[a]) \cap Bytes(g[b]) = {}
    OBVIOUS
  <2>1. h[a] \in 1..n /\ h[b] \in 1..n /\ h[a] # h[b]
    BY <1>8, <1>12
  <2>2. Bytes(f[h[a]]) \cap Bytes(f[h[b]]) = {}
    BY <1>1, <2>1 DEF WellFormed
  <2>3. Bytes(g[a]) = Bytes(f[h[a]]) /\ Bytes(g[b]) = Bytes(f[h[b]])
    BY <1>2, <1>10, <2>1
  <2> QED BY <2>2, <2>3
<1>14. WellFormed(g) /\ Decodes(g)
  BY <1>9, <1>10, <1>11, <1>13 DEF WellFormed, Decodes
<1>15. ASSUME NEW x, Holds(g, x) PROVE Holds(f, x) /\ x \notin drop
  <2>1. PICK k \in 1..m : x \in Bytes(g[k])
    BY <1>9, <1>15 DEF Holds
  <2>2. x = f[h[k]].id
    BY <1>10, <2>1
  <2>3. h[k] \in DOMAIN f /\ x \in Bytes(f[h[k]]) /\ x \notin drop
    BY <1>1, <1>2, <1>8, <2>2
  <2> QED BY <2>3 DEF Holds
<1>16. ASSUME NEW x, Holds(f, x), x \notin drop PROVE Holds(g, x)
  <2>1. PICK i \in 1..n : x = f[i].id
    BY <1>1, <1>2, <1>16 DEF Holds
  <2>2. i \in K
    BY <1>1, <1>3, <1>16, <2>1
  <2>3. PICK a \in 1..m : h[a] = i
    BY <1>7, <2>2
  <2> QED BY <1>9, <1>10, <2>1, <2>3 DEF Holds
<1> QED BY <1>14, <1>15, <1>16

-------------------------------------------------------------------------------
(* IInv holds initially and no step breaks it.                                *)

LEMMA InitIInv == Init => IInv
<1> SUFFICES ASSUME Init PROVE IInv
  OBVIOUS
<1> USE DEF Init, Procs
<1>1. file = <<>> /\ file \in Seq(Line) /\ DOMAIN file = {}
  OBVIOUS
<1>2. TypeOK
  BY <1>1, FaultsAssumption DEF TypeOK, PCs
<1>3. WellFormed(file) /\ \A e : ~InFile(e)
  BY <1>1 DEF WellFormed, InFile, Holds
<1>4. LockInv
  BY ProcsAssumption DEF LockInv
<1>5. AppendInv /\ RemoveInv
  BY DEF AppendInv, RemoveInv, NotYetWritten
<1>6. HistoryInv /\ NoLostAppend /\ NoResurrection
  BY <1>3 DEF HistoryInv, NoLostAppend, NoResurrection
<1> QED BY <1>2, <1>3, <1>4, <1>5, <1>6 DEF IInv

LEMMA StepIInv == IInv /\ [Next]_vars => IInv'
<1> SUFFICES ASSUME IInv, [Next]_vars PROVE IInv'
  OBVIOUS
<1> USE DEF IInv, Procs
<1>1. ASSUME NEW p \in Procs, Lock(p) PROVE IInv'
  <2> USE <1>1 DEF Lock
  <2>1. TypeOK'
    BY DEF TypeOK, PCs
  <2>2. LockInv'
    BY ProcsAssumption DEF LockInv, TypeOK
  <2>3. AppendInv'
    BY DEF AppendInv, NotYetWritten, Unseen, InFile, TypeOK
  <2>4. RemoveInv'
    BY DEF RemoveInv, InFile, TypeOK
  <2>5. (WellFormed(file) /\ HistoryInv /\ NoLostAppend /\ NoResurrection)'
    BY DEF HistoryInv, NoLostAppend, NoResurrection, InFile
  <2> QED BY <2>1, <2>2, <2>3, <2>4, <2>5
<1>2. ASSUME NEW p \in Procs, Unlock(p) PROVE IInv'
  <2> USE <1>2 DEF Unlock
  <2>1. TypeOK'
    BY DEF TypeOK, PCs, AppendInv
  <2>2. LockInv'
    BY ProcsAssumption DEF LockInv, TypeOK
  <2>3. AppendInv'
    BY DEF AppendInv, NotYetWritten, Unseen, InFile, TypeOK
  <2>4. RemoveInv'
    BY DEF RemoveInv, InFile, TypeOK
  <2>5. (WellFormed(file) /\ HistoryInv /\ NoLostAppend /\ NoResurrection)'
    BY DEF HistoryInv, NoLostAppend, NoResurrection, InFile, AppendInv
  <2> QED BY <2>1, <2>2, <2>3, <2>4, <2>5
<1>3. ASSUME NEW a \in Appenders, NEW e \in Entries, AppendCall(a, e) PROVE IInv'
  <2> USE <1>3 DEF AppendCall
  <2>1. TypeOK'
    BY DEF TypeOK, PCs
  <2>2. LockInv'
    BY ProcsAssumption DEF LockInv, TypeOK
  <2>3. AppendInv'
    BY EntriesAssumption DEF AppendInv, NotYetWritten, Unseen, InFile, TypeOK, HistoryInv
  <2>4. RemoveInv'
    BY DEF RemoveInv, InFile, TypeOK
  <2>5. (WellFormed(file) /\ HistoryInv /\ NoLostAppend /\ NoResurrection)'
    BY DEF HistoryInv, NoLostAppend, NoResurrection, InFile, TypeOK
  <2> QED BY <2>1, <2>2, <2>3, <2>4, <2>5
<1>4. ASSUME NEW a \in Appenders, AppendBytes(a) PROVE IInv'
  <2> USE <1>4 DEF AppendBytes
  <2>1. PICK whole \in BOOLEAN : file' = WriteBytes(file, entry[a], whole)
    OBVIOUS
  <2>2. NotYetWritten(a) /\ entry[a] \in Entries /\ Unseen(entry[a])
    BY EntriesAssumption DEF AppendInv, NotYetWritten, TypeOK, HistoryInv
  <2>3. /\ WellFormed(file') /\ file' # <<>>
        /\ \A x : Holds(file', x) <=> x = entry[a] \/ Holds(file, x)
    BY <2>1, <2>2, WriteBytesAdds DEF Unseen, InFile
  <2>4. holder = a
    BY DEF LockInv
  <2>5. TypeOK'
    BY <2>3 DEF TypeOK, PCs, WellFormed
  <2>6. LockInv'
    BY ProcsAssumption DEF LockInv, TypeOK
  <2>7. AppendInv'
    BY <2>2, <2>3, <2>4 DEF AppendInv, NotYetWritten, Unseen, InFile, TypeOK, LockInv
  <2>8. RemoveInv'
    BY <2>2, <2>3, <2>4, ProcsAssumption DEF RemoveInv, Unseen, InFile, TypeOK, LockInv
  <2>9. (HistoryInv /\ NoLostAppend /\ NoResurrection)'
    BY <2>2, <2>3 DEF HistoryInv, NoLostAppend, NoResurrection, InFile, AppendInv, Unseen
  <2> QED BY <2>3, <2>5, <2>6, <2>7, <2>8, <2>9
<1>5. ASSUME NEW a \in Appenders, AppendEnd(a) PROVE IInv'
  <2> USE <1>5 DEF AppendEnd, Return
  <2>1. WellFormed(file') /\ \A x : Holds(file', x) <=> Holds(file, x)
    BY EndLineKeeps DEF AppendInv
  <2>2. holder = a
    BY DEF LockInv
  <2>3. TypeOK'
    BY <2>1 DEF TypeOK, PCs, WellFormed
  <2>4. LockInv'
    BY ProcsAssumption DEF LockInv, TypeOK
  <2>5. AppendInv'
    BY <2>1, <2>2 DEF AppendInv, NotYetWritten, Unseen, InFile, TypeOK, LockInv
  <2>6. RemoveInv'
    BY <2>1, <2>2, ProcsAssumption DEF RemoveInv, InFile, TypeOK, LockInv
  <2>7. (HistoryInv /\ NoLostAppend /\ NoResurrection)'
    BY <2>1 DEF HistoryInv, NoLostAppend, NoResurrection, InFile
  <2> QED BY <2>1, <2>3, <2>4, <2>5, <2>6, <2>7
<1>6. ASSUME NEW r \in Removers, NEW drop \in SUBSET snapshot, RemoveCall(r, drop) PROVE IInv'
  <2> USE <1>6 DEF RemoveCall
  <2>1. TypeOK'
    BY DEF TypeOK, PCs
  <2>2. LockInv'
    BY ProcsAssumption DEF LockInv, TypeOK
  <2>3. AppendInv'
    BY ProcsAssumption DEF AppendInv, NotYetWritten, Unseen, InFile, TypeOK
  <2>4. RemoveInv'
    BY DEF RemoveInv, InFile, TypeOK
  <2>5. (WellFormed(file) /\ HistoryInv /\ NoLostAppend /\ NoResurrection)'
    BY DEF HistoryInv, NoLostAppend, NoResurrection, InFile, TypeOK
  <2> QED BY <2>1, <2>2, <2>3, <2>4, <2>5
<1>7. ASSUME NEW r \in Removers, RemoveNext(r) PROVE IInv'
  <2>0. \A g : WellFormed(g) => g \in Seq(Line)
    BY DEF WellFormed
  <2>1. ASSUME RemoveUndecodable(r) PROVE IInv'
    <3> USE <2>1 DEF RemoveUndecodable, Return
    <3>1. TypeOK'
      BY <2>0 DEF TypeOK, PCs
    <3>2. LockInv'
      BY ProcsAssumption DEF LockInv, TypeOK
    <3>3. AppendInv'
      BY ProcsAssumption DEF AppendInv, NotYetWritten, Unseen, InFile, TypeOK
    <3>4. RemoveInv'
      BY ProcsAssumption DEF RemoveInv, InFile, TypeOK, LockInv
    <3>5. (WellFormed(file) /\ HistoryInv /\ NoLostAppend /\ NoResurrection)'
      BY DEF HistoryInv, NoLostAppend, NoResurrection, InFile, TypeOK
    <3> QED BY <3>1, <3>2, <3>3, <3>4, <3>5
  <2>2. ASSUME RemoveFilter(r) PROVE IInv'
    <3> USE <2>2 DEF RemoveFilter
    <3>0. PICK kept \in Kept(file, ids[r]) : buf' = [buf EXCEPT ![r] = kept]
      OBVIOUS
    <3>a. kept \in Seq(Line)
      BY <2>0, <3>0, KeptKeeps
    <3>1. TypeOK'
      BY <3>0, <3>a DEF TypeOK, PCs
    <3>2. LockInv'
      BY ProcsAssumption DEF LockInv, TypeOK
    <3>3. AppendInv'
      BY ProcsAssumption DEF AppendInv, NotYetWritten, Unseen, InFile, TypeOK
    <3>4. RemoveInv'
      BY <3>0, ProcsAssumption DEF RemoveInv, InFile, TypeOK, LockInv
    <3>5. (WellFormed(file) /\ HistoryInv /\ NoLostAppend /\ NoResurrection)'
      BY DEF HistoryInv, NoLostAppend, NoResurrection, InFile, TypeOK
    <3> QED BY <3>1, <3>2, <3>3, <3>4, <3>5
  <2>3. ASSUME RemoveWriteTemp(r) PROVE IInv'
    <3> USE <2>3 DEF RemoveWriteTemp, Return
    <3>1. TypeOK'
      BY <2>0 DEF TypeOK, PCs
    <3>2. LockInv'
      BY ProcsAssumption DEF LockInv, TypeOK
    <3>3. AppendInv'
      BY ProcsAssumption DEF AppendInv, NotYetWritten, Unseen, InFile, TypeOK
    <3>4. RemoveInv'
      BY ProcsAssumption DEF RemoveInv, InFile, TypeOK, LockInv
    <3>5. (WellFormed(file) /\ HistoryInv /\ NoLostAppend /\ NoResurrection)'
      BY DEF HistoryInv, NoLostAppend, NoResurrection, InFile, TypeOK
    <3> QED BY <3>1, <3>2, <3>3, <3>4, <3>5
  <2>4. ASSUME RemoveRename(r) PROVE IInv'
    <3> USE <2>4 DEF RemoveRename, Return
    <3>1. holder = r
      BY DEF LockInv
    <3>2. /\ WellFormed(file')
          /\ \A x : Holds(file', x) <=> Holds(file, x) /\ x \notin ids[r]
      BY KeptKeeps DEF RemoveInv
    <3>3. TypeOK'
      BY <3>2 DEF TypeOK, PCs, WellFormed
    <3>4. LockInv'
      BY ProcsAssumption DEF LockInv, TypeOK
    <3>5. AppendInv'
      BY <3>1, <3>2, ProcsAssumption
      DEF AppendInv, NotYetWritten, Unseen, InFile, TypeOK, LockInv
    <3>6. RemoveInv'
      BY <3>1, <3>2, ProcsAssumption DEF RemoveInv, InFile, TypeOK, LockInv
    <3>7. (HistoryInv /\ NoLostAppend /\ NoResurrection)'
      BY <3>2 DEF HistoryInv, NoLostAppend, NoResurrection, InFile, TypeOK
    <3> QED BY <3>2, <3>3, <3>4, <3>5, <3>6, <3>7
  <2> QED BY <1>7, <2>1, <2>2, <2>3, <2>4 DEF RemoveNext
<1>8. ASSUME DispatcherLoad PROVE IInv'
  <2> USE <1>8 DEF DispatcherLoad
  <2>1. \A e \in snapshot' : e \in Entries /\ InFile(e)
    <3> SUFFICES ASSUME NEW e \in Decoded(file) PROVE e \in Entries /\ InFile(e)
      OBVIOUS
    <3>1. PICK i \in DOMAIN file : e = file[i].id
      BY DEF Decoded
    <3>2. file[i] \in Line
      BY DEF WellFormed
    <3> QED BY <3>1, <3>2 DEF Line, InFile, Holds, Bytes
  <2>2. TypeOK'
    BY <2>1 DEF TypeOK, PCs
  <2>3. LockInv'
    BY DEF LockInv
  <2>4. AppendInv'
    BY <2>1 DEF AppendInv, NotYetWritten, Unseen, InFile
  <2>5. RemoveInv'
    BY DEF RemoveInv, InFile
  <2>6. (WellFormed(file) /\ HistoryInv /\ NoLostAppend /\ NoResurrection)'
    BY <2>1 DEF HistoryInv, NoLostAppend, NoResurrection, InFile
  <2> QED BY <2>2, <2>3, <2>4, <2>5, <2>6
<1>9. ASSUME NEW p \in Procs, Fail(p) PROVE IInv'
  <2>1. /\ UNCHANGED <<file, holder, entry, ids, buf, snapshot, used, acked, removed>>
        /\ faults' \in 0..MaxFaults /\ pc[p] # "idle"
    BY <1>9, FaultsAssumption DEF Fail, TypeOK
  <2>2. /\ \/ pc' = [pc EXCEPT ![p] = "idle"] /\ pc[p] = "lock"
           \/ pc' = [pc EXCEPT ![p] = "unlock"] /\ pc[p] \in {"write", "partial", "temp", "rename"}
        /\ result' = [result EXCEPT ![p] = "err"]
    BY <1>9 DEF Fail, Return
  <2>3. \A q \in Procs \ {p} : pc'[q] = pc[q] /\ result'[q] = result[q]
    <3>1. DOMAIN pc = Procs /\ DOMAIN result = Procs
      BY DEF TypeOK
    <3> QED BY <2>2, <3>1
  <2>4. pc'[p] \in {"idle", "unlock"} /\ result'[p] = "err"
    BY <2>2 DEF TypeOK
  <2>5. TypeOK'
    BY <2>1, <2>2 DEF TypeOK, PCs
  <2>6. LockInv'
    <3>1. \A q \in Procs : /\ pc'[q] \in {"idle", "lock"} <=> pc[q] \in {"idle", "lock"}
                           /\ pc'[q] = pc[q] \/ pc'[q] \in {"idle", "unlock"}
      BY <2>2, <2>3 DEF TypeOK
    <3> QED BY <2>1, <3>1 DEF LockInv, Procs
  <2>7. AppendInv'
    <3>1. \A a \in Appenders : NotYetWritten(a)' => NotYetWritten(a)
      BY <2>3, <2>4 DEF NotYetWritten, Procs
    <3>2. \A a \in Appenders : Unseen(entry[a])' <=> Unseen(entry[a])
      BY <2>1 DEF Unseen, InFile
    <3>3. \A a \in Appenders : InFile(entry[a])' <=> InFile(entry[a])
      BY <2>1 DEF InFile
    <3> SUFFICES ASSUME NEW a \in Appenders
                 PROVE  /\ pc'[a] # "idle" => entry'[a] \in used'
                        /\ entry'[a] # NoEntry => entry'[a] \in used'
                        /\ NotYetWritten(a)' =>
                             /\ Unseen(entry[a])'
                             /\ \A b \in Appenders \ {a} : entry'[b] # entry'[a]
                        /\ result'[a] = "ok" => pc'[a] \in {"unlock", "idle"}
                        /\ pc'[a] = "partial" => file' # <<>> /\ InFile(entry[a])'
                        /\ pc'[a] = "unlock" /\ result'[a] = "ok" => InFile(entry[a])'
      BY DEF AppendInv
    <3>4. \/ pc'[a] = pc[a] /\ result'[a] = result[a]
          \/ pc'[a] \in {"idle", "unlock"} /\ result'[a] = "err" /\ pc[a] # "idle"
      BY <2>1, <2>3, <2>4 DEF Procs
    <3>5. /\ pc[a] # "idle" => entry[a] \in used
          /\ entry[a] # NoEntry => entry[a] \in used
          /\ NotYetWritten(a) =>
               Unseen(entry[a]) /\ \A b \in Appenders \ {a} : entry[b] # entry[a]
          /\ result[a] = "ok" => pc[a] \in {"unlock", "idle"}
          /\ pc[a] = "partial" => file # <<>> /\ InFile(entry[a])
          /\ pc[a] = "unlock" /\ result[a] = "ok" => InFile(entry[a])
      BY DEF AppendInv
    <3>6. NotYetWritten(a)' => /\ Unseen(entry[a])'
                               /\ \A b \in Appenders \ {a} : entry'[b] # entry'[a]
      BY <2>1, <3>1, <3>2, <3>5
    <3> QED BY <2>1, <3>3, <3>4, <3>5, <3>6
  <2>8. RemoveInv'
    BY <2>1, <2>2, ProcsAssumption DEF RemoveInv, InFile, TypeOK
  <2>9. (WellFormed(file) /\ HistoryInv /\ NoLostAppend /\ NoResurrection)'
    BY <2>1, <2>2 DEF HistoryInv, NoLostAppend, NoResurrection, InFile, TypeOK
  <2> QED BY <2>5, <2>6, <2>7, <2>8, <2>9
<1>10. ASSUME NEW P \in OSProcesses, Kill(P) PROVE IInv'
  <2> USE <1>10 DEF Kill
  <2>1. P \subseteq Procs
    BY DEF OSProcesses
  <2>2. TypeOK'
    BY FaultsAssumption DEF TypeOK, PCs
  <2>3. LockInv'
    BY <2>1, ProcsAssumption DEF LockInv, TypeOK
  <2>4. AppendInv'
    BY DEF AppendInv, NotYetWritten, Unseen, InFile, TypeOK
  <2>5. RemoveInv'
    BY DEF RemoveInv, InFile, TypeOK
  <2>6. (WellFormed(file) /\ HistoryInv /\ NoLostAppend /\ NoResurrection)'
    BY DEF HistoryInv, NoLostAppend, NoResurrection, InFile, TypeOK
  <2> QED BY <2>2, <2>3, <2>4, <2>5, <2>6
<1>11. CASE UNCHANGED vars
  BY <1>11 DEF vars, TypeOK, PCs, LockInv, AppendInv, RemoveInv, HistoryInv,
               NoLostAppend, NoResurrection, NotYetWritten, Unseen, InFile
<1> QED
  BY <1>1, <1>2, <1>3, <1>4, <1>5, <1>6, <1>7, <1>8, <1>9, <1>10, <1>11
  DEF Next, AppendNext

-------------------------------------------------------------------------------

THEOREM Invariance == Spec => []IInv
BY InitIInv, StepIInv, PTL DEF Spec

(* Type correctness (queue.go and atomic.go as a whole).                      *)
THEOREM TypeCorrect == Spec => []TypeOK
BY Invariance, PTL DEF IInv

(* An append the TUI was told had succeeded is never lost: the flock keeps it *)
(* out of every read-modify-write of Remove (queue.go:18-25).                 *)
THEOREM AppendsSurvive == Spec => []NoLostAppend
BY Invariance, PTL DEF IInv

(* A drained entry never comes back (queue.go:20-24).                         *)
THEOREM RemovesStick == Spec => []NoResurrection
BY Invariance, PTL DEF IInv

(* When Remove has returned nil none of its entries is left (queue.go:116-122). *)
THEOREM RemovesComplete == Spec => []RemovedMeansGone
<1>1. IInv => RemovedMeansGone
  BY DEF IInv, RemoveInv, RemovedMeansGone
<1> QED BY <1>1, Invariance, PTL

(* No entry is in the file twice (queue.go:134-150).                          *)
THEOREM EntriesAreUnique == Spec => []NoDuplicates
<1>1. IInv => NoDuplicates
  BY DEF IInv, WellFormed, NoDuplicates
<1> QED BY <1>1, Invariance, PTL

-----------------------------------------------------------------------------
(* The queue on disk implements the atomic queue of QueueSpec, keeps the order *)
(* of its entries and stays wedged once it is.                                *)


(* The refinement mapping as a function of the file and of whether a write is *)
(* under way, so that it can be compared before and after a step.             *)
UnderWay == \E a \in Appenders : pc[a] = "partial"
Broken(f, w) == \E i \in DOMAIN f : ~f[i].ok /\ ~(i = Len(f) /\ w /\ f[i].glued = {})
Content(f, w) ==
  IF Broken(f, w) THEN <<>>
  ELSE [i \in 1..Cardinality({ j \in DOMAIN f : f[j].ok }) |-> f[i].id]
Ids(f) == [i \in DOMAIN f |-> f[i].id]

(* A step of the atomic queue, or a stutter, in these terms.                  *)
Listed(c) == { c[i] : i \in DOMAIN c }
Simulates(f, w, g, v) ==
  \/ (Broken(f, w) <=> Broken(g, v)) /\ Content(g, v) = Content(f, w)
  \/ ~Broken(f, w) /\ Broken(g, v)
  \/ /\ ~Broken(f, w) /\ ~Broken(g, v)
     /\ \/ \E e \in Entries : /\ e \notin Listed(Content(f, w))
                              /\ Content(g, v) = Append(Content(f, w), e)
        \/ \E gone \in SUBSET Entries :
             Content(g, v) \in Rewrites(Content(f, w),
               { i \in DOMAIN Content(f, w) : Content(f, w)[i] \notin gone })

(* Nothing turns the order of two entries round.                              *)
KeepsOrder(f, g) == \A b, c \in Entries : Before(f, b, c) => ~Before(g, c, b)

-------------------------------------------------------------------------------
(* The lines of a file after each operation.                                  *)

LEMMA FileLines ==
  ASSUME NEW f, WellFormed(f)
  PROVE  /\ Len(f) \in Nat /\ DOMAIN f = 1..Len(f) /\ f \in Seq(Line)
         /\ \A i \in 1..Len(f) : f[i] \in Line /\ f[i].id \in Bytes(f[i]) /\ f[i].id \in Entries
<1>1. f \in Seq(Line)
  BY DEF WellFormed
<1>2. Len(f) \in Nat /\ DOMAIN f = 1..Len(f) /\ \A i \in 1..Len(f) : f[i] \in Line
  BY <1>1
<1>3. \A l \in Line : l.id \in Bytes(l) /\ l.id \in Entries
  BY DEF Line, Bytes
<1> QED BY <1>1, <1>2, <1>3

(* The entry is glued to the last line, or on a line of its own.              *)
GluedOn(f, e, g, n) ==
  /\ n \in 1..n /\ DOMAIN g = 1..n /\ Len(g) = n
  /\ \A i \in 1..n : i # n => g[i] = f[i]
  /\ Bytes(g[n]) = Bytes(f[n]) \cup {e} /\ ~g[n].ok /\ g[n].glued # {}
OwnLine(f, e, whole, g, n) ==
  /\ DOMAIN g = 1..(n + 1) /\ Len(g) = n + 1
  /\ \A i \in 1..n : g[i] = f[i]
  /\ Bytes(g[n + 1]) = {e} /\ g[n + 1].id = e /\ g[n + 1].glued = {}
  /\ g[n + 1].ok <=> whole

LEMMA WriteBytesLines ==
  ASSUME NEW f, WellFormed(f), NEW e \in Entries, NEW whole \in BOOLEAN,
         NEW g, g = WriteBytes(f, e, whole), NEW n \in Nat, n = Len(f)
  PROVE  GluedOn(f, e, g, n) \/ OwnLine(f, e, whole, g, n)
<1>1. DOMAIN f = 1..n /\ f \in Seq(Line) /\ \A i \in 1..n : f[i] \in Line
  BY FileLines
<1>2. CASE Glues(f)
  <2>1. n \in 1..n /\ n \in 1..Len(f)
    BY <1>1, <1>2 DEF Glues
  <2>2. PICK old : old = [id |-> f[n].id, glued |-> f[n].glued \cup {e}, ok |-> FALSE, ended |-> FALSE]
    OBVIOUS
  <2>3. old \in Line
    BY <1>1, <2>1, <2>2 DEF Line
  <2>4. ~old.ok /\ e \in old.glued /\ Bytes(old) = Bytes(f[n]) \cup {e}
    BY <2>2 DEF Bytes
  <2>5. g = [f EXCEPT ![n] = old]
    BY <1>1, <1>2, <2>2 DEF WriteBytes
  <2>6. g \in Seq(Line) /\ Len(g) = n /\ \A i \in 1..n : g[i] = IF i = n THEN old ELSE f[i]
    BY <1>1, <2>1, <2>3, <2>5, ExceptSeq
  <2>7. DOMAIN g = 1..n
    BY <2>6
  <2> QED BY <2>1, <2>4, <2>6, <2>7 DEF GluedOn
<1>3. CASE ~Glues(f)
  <2>1. PICK new : new = [id |-> e, glued |-> {}, ok |-> whole, ended |-> FALSE]
    OBVIOUS
  <2>2. new \in Line /\ new.id = e /\ new.glued = {} /\ (new.ok <=> whole) /\ Bytes(new) = {e}
    BY <2>1 DEF Line, Bytes
  <2>3. g = Append(f, new)
    BY <1>3, <2>1 DEF WriteBytes
  <2>4. /\ g \in Seq(Line) /\ Len(g) = n + 1
        /\ g[n + 1] = new /\ \A i \in 1..n : g[i] = f[i]
    BY <1>1, <2>2, <2>3, AppendProperties
  <2>5. DOMAIN g = 1..(n + 1)
    BY <2>4
  <2> QED BY <2>2, <2>4, <2>5 DEF OwnLine
<1> QED BY <1>2, <1>3

LEMMA EndLineLines ==
  ASSUME NEW f, WellFormed(f), f # <<>>, NEW g, g = EndLine(f), NEW n \in Nat, n = Len(f)
  PROVE  /\ n \in 1..n /\ DOMAIN g = 1..n /\ Len(g) = n
         /\ \A i \in 1..n : i # n => g[i] = f[i]
         /\ Bytes(g[n]) = Bytes(f[n]) /\ g[n].id = f[n].id /\ g[n].glued = f[n].glued
         /\ g[n].ok <=> f[n].glued = {}
<1>1. DOMAIN f = 1..n /\ f \in Seq(Line) /\ n \in 1..n /\ \A i \in 1..n : f[i] \in Line
  BY FileLines
<1>2. PICK new : new = [id |-> f[n].id, glued |-> f[n].glued, ok |-> f[n].glued = {}, ended |-> TRUE]
  OBVIOUS
<1>3. new \in Line
  BY <1>1, <1>2 DEF Line
<1>4. /\ Bytes(new) = Bytes(f[n]) /\ new.id = f[n].id /\ new.glued = f[n].glued
      /\ new.ok <=> f[n].glued = {}
  BY <1>2 DEF Bytes
<1>5. g = [f EXCEPT ![n] = new]
  BY <1>1, <1>2 DEF EndLine
<1>6. g \in Seq(Line) /\ Len(g) = n /\ \A i \in 1..n : g[i] = IF i = n THEN new ELSE f[i]
  BY <1>1, <1>3, <1>5, ExceptSeq
<1>7. DOMAIN g = 1..n
  BY <1>6
<1> QED BY <1>1, <1>4, <1>6, <1>7

(* Line k of g is line h[k] of f, cleaned.                                    *)
Survivors(f, g, h) ==
  /\ DOMAIN g = DOMAIN h
  /\ \A k \in DOMAIN h : /\ h[k] \in DOMAIN f
                         /\ g[k].id = f[h[k]].id /\ Bytes(g[k]) = {f[h[k]].id}

LEMMA KeptLines ==
  ASSUME NEW f, WellFormed(f), NEW drop, NEW g, g \in Kept(f, drop),
         NEW K, K = { i \in DOMAIN f : f[i].id \notin drop }
  PROVE  \E h \in Embeddings(K) : Survivors(f, g, h)
<1>1. PICK c : c = [i \in DOMAIN f |-> Clean(f[i].id)]
  OBVIOUS
<1>2. g \in Rewrites(c, K)
  BY <1>1 DEF Kept
<1>3. PICK h \in Embeddings(K) : g = [k \in DOMAIN h |-> c[h[k]]]
  BY <1>2 DEF Rewrites
<1>4. \A k \in DOMAIN h : h[k] \in K
  BY DEF Embeddings
<1>5. \A k \in DOMAIN h : h[k] \in DOMAIN f /\ g[k] = Clean(f[h[k]].id)
  BY <1>1, <1>3, <1>4
<1>6. ASSUME NEW e PROVE Clean(e).id = e /\ Bytes(Clean(e)) = {e}
  <2>1. Clean(e).id = e /\ Clean(e).glued = {}
    BY DEF Clean
  <2> QED BY <2>1 DEF Bytes
<1>7. DOMAIN g = DOMAIN h
  BY <1>3
<1>8. ASSUME NEW k \in DOMAIN h
      PROVE  h[k] \in DOMAIN f /\ g[k].id = f[h[k]].id /\ Bytes(g[k]) = {f[h[k]].id}
  <2>1. h[k] \in DOMAIN f /\ g[k] = Clean(f[h[k]].id)
    BY <1>5
  <2>2. PICK e : e = f[h[k]].id
    OBVIOUS
  <2> QED BY <1>6, <2>1, <2>2
<1>9. Survivors(f, g, h)
  BY <1>7, <1>8 DEF Survivors
<1> QED BY <1>9

(* A list that goes on where another ends.                                    *)
LEMMA OneMore ==
  ASSUME NEW s \in Seq(Entries), NEW e \in Entries, NEW n \in Nat, n = Len(s),
         NEW t \in Seq(Entries), Len(t) = n + 1, \A i \in 1..n : t[i] = s[i], t[n + 1] = e
  PROVE  t = Append(s, e)
<1>1. /\ Append(s, e) \in Seq(Entries) /\ Len(Append(s, e)) = n + 1
      /\ \A i \in 1..n : Append(s, e)[i] = s[i]
      /\ Append(s, e)[n + 1] = e
  BY AppendProperties
<1>2. \A i \in 1..Len(t) : i \in 1..n \/ i = n + 1
  OBVIOUS
<1>3. \A i \in 1..Len(t) : t[i] = Append(s, e)[i]
  BY <1>1, <1>2
<1> QED BY <1>1, <1>3, SeqEqual

(* The entries of a file, line by line.                                       *)
LEMMA IdsAreEntries ==
  ASSUME NEW f, WellFormed(f), NEW n \in Nat, n = Len(f)
  PROVE  Ids(f) \in Seq(Entries) /\ Len(Ids(f)) = n /\ \A i \in 1..n : Ids(f)[i] = f[i].id
<1>1. DOMAIN f = 1..n /\ \A i \in 1..n : f[i].id \in Entries
  BY FileLines
<1>2. Ids(f) \in [1..n -> Entries]
  BY <1>1 DEF Ids
<1> QED BY <1>1, <1>2 DEF Ids

-------------------------------------------------------------------------------
(* The mapping of a file that decodes, and of one in the middle of a line.    *)

LEMMA WholeContent ==
  ASSUME NEW f, WellFormed(f), NEW w \in BOOLEAN, Decodes(f)
  PROVE  ~Broken(f, w) /\ Content(f, w) = Ids(f)
<1>1. DOMAIN f = 1..Len(f) /\ Len(f) \in Nat
  BY FileLines
<1>2. { j \in DOMAIN f : f[j].ok } = 1..Len(f)
  BY <1>1 DEF Decodes
<1>3. Cardinality(1..Len(f)) = Len(f)
  BY <1>1, FS_Interval
<1>4. ~Broken(f, w)
  BY DEF Broken, Decodes
<1> QED BY <1>1, <1>2, <1>3, <1>4 DEF Content, Ids

LEMMA QuietIsBroken ==
  ASSUME NEW f
  PROVE  Broken(f, FALSE) <=> ~Decodes(f)
BY DEF Broken, Decodes

LEMMA MidContent ==
  ASSUME NEW f, WellFormed(f), NEW n \in Nat, n = Len(f), n \in 1..n, ~f[n].ok, f[n].glued = {},
         \A i \in 1..n : i # n => f[i].ok
  PROVE  ~Broken(f, TRUE) /\ Content(f, TRUE) = [i \in 1..(n - 1) |-> f[i].id]
<1>1. DOMAIN f = 1..n
  BY FileLines
<1>2. { j \in DOMAIN f : f[j].ok } = 1..(n - 1)
  BY <1>1
<1>3. Cardinality(1..(n - 1)) = n - 1
  BY FS_Interval
<1>4. ~Broken(f, TRUE)
  BY <1>1 DEF Broken
<1> QED BY <1>2, <1>3, <1>4 DEF Content

(* In the middle of a write that has torn nothing, the file decodes or its    *)
(* last line is not there yet.                                                *)
LEMMA UnderWayCases ==
  ASSUME NEW f, WellFormed(f), ~Broken(f, TRUE), NEW n \in Nat, n = Len(f)
  PROVE  \/ Decodes(f)
         \/ n \in 1..n /\ ~f[n].ok /\ f[n].glued = {} /\ \A i \in 1..n : i # n => f[i].ok
<1>1. DOMAIN f = 1..n
  BY FileLines
<1> QED BY <1>1 DEF Broken, Decodes

-------------------------------------------------------------------------------
(* Each operation simulates a step of the atomic queue.                       *)

LEMMA StopSimulates ==
  ASSUME NEW f, WellFormed(f)
  PROVE  Simulates(f, TRUE, f, FALSE)
<1>1. Broken(f, TRUE) => Broken(f, FALSE)
  BY DEF Broken
<1>2. CASE Broken(f, TRUE)
  BY <1>1, <1>2 DEF Simulates, Content
<1>3. CASE ~Broken(f, TRUE) /\ Decodes(f)
  BY <1>3, WholeContent DEF Simulates
<1>4. CASE ~Broken(f, TRUE) /\ ~Decodes(f)
  BY <1>4, QuietIsBroken DEF Simulates
<1> QED BY <1>2, <1>3, <1>4

LEMMA BeginSimulates ==
  ASSUME NEW f, WellFormed(f), NEW e \in Entries, ~Holds(f, e), NEW whole \in BOOLEAN,
         NEW g, g = WriteBytes(f, e, whole)
  PROVE  Simulates(f, FALSE, g, TRUE)
<1>1. PICK n \in Nat : n = Len(f)
  BY FileLines
<1>2. DOMAIN f = 1..n /\ WellFormed(g) /\ \A i \in 1..n : f[i].id \in Bytes(f[i])
  BY <1>1, FileLines, WriteBytesAdds
<1>3. CASE GluedOn(f, e, g, n)
  <2>1. Broken(g, TRUE)
    BY <1>3 DEF GluedOn, Broken
  <2> QED BY <2>1 DEF Simulates, Content
<1>4. CASE OwnLine(f, e, whole, g, n)
  <2> USE <1>4 DEF OwnLine
  <2>0. n + 1 \in 1..(n + 1) /\ \A i \in 1..(n + 1) : i \in 1..n \/ i = n + 1
    OBVIOUS
  <2>1. CASE ~Decodes(f)
    <3>1. PICK i \in 1..n : ~f[i].ok
      BY <1>2, <2>1 DEF Decodes
    <3>2. i \in DOMAIN g /\ ~g[i].ok /\ i # Len(g)
      BY <1>4, <3>1
    <3>3. Broken(g, TRUE) /\ Broken(f, FALSE)
      BY <2>1, <3>2, QuietIsBroken DEF Broken
    <3> QED BY <3>3 DEF Simulates, Content
  <2>2. CASE Decodes(f) /\ whole
    <3>1. \A i \in 1..(n + 1) : g[i].ok
      BY <1>2, <1>4, <2>0, <2>2 DEF Decodes
    <3>2. Decodes(g)
      BY <1>4, <3>1 DEF Decodes
    <3>3. /\ ~Broken(f, FALSE) /\ Content(f, FALSE) = Ids(f)
          /\ ~Broken(g, TRUE) /\ Content(g, TRUE) = Ids(g)
      BY <1>2, <2>2, <3>2, WholeContent
    <3>4. Ids(g) = Append(Ids(f), e)
      <4>1. /\ Ids(f) \in Seq(Entries) /\ Len(Ids(f)) = n /\ \A i \in 1..n : Ids(f)[i] = f[i].id
            /\ Ids(g) \in Seq(Entries) /\ Len(Ids(g)) = n + 1
            /\ \A i \in 1..(n + 1) : Ids(g)[i] = g[i].id
        BY <1>1, <1>2, IdsAreEntries
      <4>2. (\A i \in 1..n : Ids(g)[i] = Ids(f)[i]) /\ Ids(g)[n + 1] = e
        BY <2>0, <4>1
      <4> QED BY <4>1, <4>2, OneMore
    <3>5. e \notin Listed(Ids(f))
      BY <1>2 DEF Listed, Ids, Holds
    <3> QED BY <3>3, <3>4, <3>5 DEF Simulates
  <2>3. CASE Decodes(f) /\ ~whole
    <3>1. ~Broken(f, FALSE) /\ Content(f, FALSE) = Ids(f)
      BY <2>3, WholeContent
    <3>2. \A i \in 1..(n + 1) : i # n + 1 => g[i].ok
      BY <1>2, <1>4, <2>0, <2>3 DEF Decodes
    <3>3. /\ n + 1 = Len(g) /\ n + 1 \in 1..(n + 1) /\ ~g[n + 1].ok /\ g[n + 1].glued = {}
          /\ n + 1 \in Nat
      BY <1>4, <2>0, <2>3
    <3>4. PICK m \in Nat : m = n + 1
      OBVIOUS
    <3>5. /\ m = Len(g) /\ m \in 1..m /\ ~g[m].ok /\ g[m].glued = {}
          /\ \A i \in 1..m : i # m => g[i].ok
      BY ONLY <3>2, <3>3, <3>4
    <3>6. ~Broken(g, TRUE) /\ Content(g, TRUE) = [i \in 1..(m - 1) |-> g[i].id]
      BY ONLY <1>2, <3>4, <3>5, MidContent
    <3>7. [i \in 1..(m - 1) |-> g[i].id] = Ids(f)
      BY <1>2, <1>4, <3>4 DEF Ids
    <3> QED BY <3>1, <3>6, <3>7 DEF Simulates
  <2> QED BY <2>1, <2>2, <2>3
<1> QED BY <1>1, <1>3, <1>4, WriteBytesLines

LEMMA EndSimulates ==
  ASSUME NEW f, WellFormed(f), f # <<>>, NEW g, g = EndLine(f)
  PROVE  Simulates(f, TRUE, g, FALSE)
<1>1. PICK n \in Nat : n = Len(f)
  BY FileLines
<1>2. /\ DOMAIN f = 1..n /\ n \in 1..n /\ DOMAIN g = 1..n /\ Len(g) = n /\ WellFormed(g)
      /\ \A i \in 1..n : i # n => g[i] = f[i]
      /\ g[n].id = f[n].id /\ (g[n].ok <=> f[n].glued = {})
  BY <1>1, FileLines, EndLineLines, EndLineKeeps
<1>3. \A i \in 1..n : g[i].id = f[i].id
  BY <1>2
<1>4. CASE Broken(f, TRUE)
  <2>1. PICK i \in 1..n : ~f[i].ok /\ (i # n \/ f[n].glued # {})
    BY <1>1, <1>2, <1>4 DEF Broken
  <2>2. Broken(g, FALSE)
    BY <1>2, <2>1 DEF Broken
  <2> QED BY <1>4, <2>2 DEF Simulates, Content
<1>5. CASE ~Broken(f, TRUE) /\ Decodes(f)
  <2>1. f[n].glued = {}
    BY <1>2, <1>5 DEF Decodes, WellFormed
  <2>2. Decodes(g)
    BY <1>2, <1>5, <2>1 DEF Decodes
  <2>3. Ids(g) = Ids(f)
    BY <1>2, <1>3 DEF Ids
  <2>4. /\ Content(f, TRUE) = Ids(f) /\ ~Broken(f, TRUE)
        /\ Content(g, FALSE) = Ids(g) /\ ~Broken(g, FALSE)
    BY <1>2, <1>5, <2>2, WholeContent
  <2> QED BY <2>3, <2>4 DEF Simulates
<1>6. CASE ~Broken(f, TRUE) /\ ~Decodes(f)
  <2>1. n \in 1..n /\ ~f[n].ok /\ f[n].glued = {} /\ \A i \in 1..n : i # n => f[i].ok
    BY <1>1, <1>6, UnderWayCases
  <2>2. Content(f, TRUE) = [i \in 1..(n - 1) |-> f[i].id]
    BY <1>1, <2>1, MidContent
  <2>3. Decodes(g)
    BY <1>2, <2>1 DEF Decodes
  <2>4. ~Broken(g, FALSE) /\ Content(g, FALSE) = Ids(g)
    BY <1>2, <2>3, WholeContent
  <2>5. f[n].id \in Entries /\ \A i \in 1..n : f[i].id \in Entries /\ f[i].id \in Bytes(f[i])
    BY <1>1, <1>2, FileLines
  <2>6. PICK c : c = Content(f, TRUE)
    OBVIOUS
  <2>7. c \in Seq(Entries) /\ Len(c) = n - 1 /\ n - 1 \in Nat
    <3>1. n - 1 \in Nat
      BY <1>2
    <3>2. PICK m \in Nat : m = n - 1
      BY <3>1
    <3>3. \A i \in 1..m : f[i].id \in Entries
      BY <1>2, <2>5, <3>2
    <3>4. c = [i \in 1..m |-> f[i].id]
      BY <2>2, <2>6, <3>2
    <3>5. c \in [1..m -> Entries]
      BY <3>3, <3>4
    <3>6. c \in Seq(Entries) /\ Len(c) = m
      BY <3>5
    <3> QED BY <3>2, <3>6
  <2>8. Ids(g) = Append(c, f[n].id)
    <3>1. PICK m \in Nat : m = n - 1
      BY <2>7
    <3>2. m = Len(c) /\ m + 1 = n /\ \A i \in 1..m : i \in 1..n
      BY <2>7, <3>1
    <3>3. Ids(g) \in Seq(Entries) /\ Len(Ids(g)) = m + 1 /\ \A i \in 1..n : Ids(g)[i] = f[i].id
      BY <1>2, <1>3, <3>2, IdsAreEntries
    <3>4. c = [i \in 1..m |-> f[i].id]
      BY <2>2, <2>6, <3>1
    <3>5. (\A i \in 1..m : Ids(g)[i] = c[i]) /\ Ids(g)[m + 1] = f[n].id
      BY <1>2, <3>2, <3>3, <3>4
    <3> QED BY <2>5, <2>7, <3>2, <3>3, <3>5, OneMore
  <2>9. f[n].id \notin Listed(c)
    <3>1. \A i \in 1..(n - 1) : i \in 1..n /\ i # n
      OBVIOUS
    <3>2. \A i \in 1..(n - 1) : f[i].id # f[n].id
      BY <1>2, <2>5, <3>1 DEF WellFormed
    <3> QED BY <2>2, <2>6, <3>2 DEF Listed
  <2> QED BY <1>6, <2>4, <2>5, <2>6, <2>8, <2>9 DEF Simulates
<1> QED BY <1>4, <1>5, <1>6

LEMMA RewriteSimulates ==
  ASSUME NEW f, WellFormed(f), Decodes(f), NEW drop \in SUBSET Entries, NEW g, g \in Kept(f, drop)
  PROVE  Simulates(f, FALSE, g, FALSE)
<1>1. WellFormed(g) /\ Decodes(g)
  BY KeptKeeps
<1>2. /\ ~Broken(f, FALSE) /\ Content(f, FALSE) = Ids(f)
      /\ ~Broken(g, FALSE) /\ Content(g, FALSE) = Ids(g)
  BY <1>1, WholeContent
<1>3. PICK K : K = { i \in DOMAIN f : f[i].id \notin drop }
  OBVIOUS
<1>4. PICK h \in Embeddings(K) : Survivors(f, g, h)
  BY <1>3, KeptLines
<1>5. Ids(g) = [k \in DOMAIN h |-> Ids(f)[h[k]]]
  BY <1>4 DEF Ids, Survivors
<1>6. K = { i \in DOMAIN Ids(f) : Ids(f)[i] \notin drop }
  BY <1>3 DEF Ids
<1>7. Ids(g) \in Rewrites(Ids(f), K)
  BY <1>5 DEF Rewrites
<1> QED BY <1>2, <1>6, <1>7 DEF Simulates

-------------------------------------------------------------------------------
(* No operation turns the order of two entries round.                         *)

(* What is in both files is on the same line of both.                         *)
LEMMA SameLinesKeepOrder ==
  ASSUME NEW f, WellFormed(f), NEW g,
         \A i \in DOMAIN f, k \in DOMAIN g, b \in Entries :
           b \in Bytes(f[i]) /\ b \in Bytes(g[k]) => k = i,
         DOMAIN g \subseteq Nat
  PROVE  KeepsOrder(f, g)
<1>1. DOMAIN f \subseteq Nat
  BY FileLines
<1> SUFFICES ASSUME NEW b \in Entries, NEW c \in Entries, Before(f, b, c), Before(g, c, b)
             PROVE  FALSE
  BY DEF KeepsOrder
<1>2. PICK i \in DOMAIN f, j \in DOMAIN f : i < j /\ b \in Bytes(f[i]) /\ c \in Bytes(f[j])
  BY DEF Before
<1>3. PICK k \in DOMAIN g, l \in DOMAIN g : k < l /\ c \in Bytes(g[k]) /\ b \in Bytes(g[l])
  BY DEF Before
<1>4. k = j /\ l = i
  BY <1>2, <1>3
<1> QED BY <1>1, <1>2, <1>3, <1>4

LEMMA SameKeepsOrder ==
  ASSUME NEW f, WellFormed(f)
  PROVE  KeepsOrder(f, f)
<1>1. \A i, k \in DOMAIN f : \A b \in Entries : b \in Bytes(f[i]) /\ b \in Bytes(f[k]) => k = i
  BY DEF WellFormed
<1>2. DOMAIN f \subseteq Nat
  BY FileLines
<1> QED BY <1>1, <1>2, SameLinesKeepOrder

LEMMA BeginKeepsOrder ==
  ASSUME NEW f, WellFormed(f), NEW e \in Entries, ~Holds(f, e), NEW whole \in BOOLEAN,
         NEW g, g = WriteBytes(f, e, whole)
  PROVE  KeepsOrder(f, g)
<1>1. PICK n \in Nat : n = Len(f) /\ DOMAIN f = 1..n
  BY FileLines
<1>2. GluedOn(f, e, g, n) \/ OwnLine(f, e, whole, g, n)
  BY <1>1, WriteBytesLines
<1>3. DOMAIN g \subseteq Nat
  BY <1>2 DEF GluedOn, OwnLine
<1>4. ASSUME NEW i \in DOMAIN f, NEW k \in DOMAIN g, NEW b \in Entries,
             b \in Bytes(f[i]), b \in Bytes(g[k])
      PROVE  k = i
  <2>1. b # e
    BY <1>4 DEF Holds
  <2>2. k \in DOMAIN f /\ b \in Bytes(f[k])
    <3>1. CASE GluedOn(f, e, g, n)
      <4>1. k \in 1..n /\ (k # n => g[k] = f[k]) /\ Bytes(g[n]) = Bytes(f[n]) \cup {e}
        BY <3>1 DEF GluedOn
      <4> QED BY <1>1, <1>4, <2>1, <4>1
    <3>2. CASE OwnLine(f, e, whole, g, n)
      <4>1. k \in 1..n \/ k = n + 1
        BY <3>2 DEF OwnLine
      <4>2. (\A x \in 1..n : g[x] = f[x]) /\ Bytes(g[n + 1]) = {e}
        BY <3>2 DEF OwnLine
      <4>3. k # n + 1
        BY <1>4, <2>1, <4>2
      <4> QED BY <1>1, <1>4, <4>1, <4>2, <4>3
    <3> QED BY <1>2, <3>1, <3>2
  <2> QED BY <1>4, <2>2 DEF WellFormed
<1> QED BY <1>3, <1>4, SameLinesKeepOrder

LEMMA EndKeepsOrder ==
  ASSUME NEW f, WellFormed(f), f # <<>>, NEW g, g = EndLine(f)
  PROVE  KeepsOrder(f, g)
<1>1. PICK n \in Nat : n = Len(f) /\ DOMAIN f = 1..n
  BY FileLines
<1>2. DOMAIN g = 1..n /\ \A k \in 1..n : Bytes(g[k]) = Bytes(f[k])
  BY <1>1, EndLineLines
<1>3. \A i \in DOMAIN f, k \in DOMAIN g, b \in Entries :
        b \in Bytes(f[i]) /\ b \in Bytes(g[k]) => k = i
  BY <1>1, <1>2 DEF WellFormed
<1> QED BY <1>2, <1>3, SameLinesKeepOrder

LEMMA RewriteKeepsOrder ==
  ASSUME NEW f, WellFormed(f), NEW drop, NEW g, g \in Kept(f, drop)
  PROVE  KeepsOrder(f, g)
<1>1. PICK K : K = { i \in DOMAIN f : f[i].id \notin drop }
  OBVIOUS
<1>2. PICK h \in Embeddings(K) : Survivors(f, g, h)
  BY <1>1, KeptLines
<1>3. /\ DOMAIN g = DOMAIN h
      /\ \A k \in DOMAIN h : h[k] \in DOMAIN f /\ Bytes(g[k]) = {f[h[k]].id}
  BY <1>2 DEF Survivors
<1>4. \A k, l \in DOMAIN h : k < l => h[k] < h[l]
  BY DEF Embeddings
<1>5. DOMAIN f \subseteq Nat /\ \A i \in DOMAIN f : f[i].id \in Bytes(f[i])
  BY FileLines
<1>6. ASSUME NEW i \in DOMAIN f, NEW k \in DOMAIN h, NEW b \in Entries,
             b \in Bytes(f[i]), b \in Bytes(g[k])
      PROVE  h[k] = i
  <2>1. h[k] \in DOMAIN f /\ b = f[h[k]].id
    BY <1>3, <1>6
  <2>2. b \in Bytes(f[h[k]])
    BY <1>5, <2>1
  <2> QED BY <1>6, <2>1, <2>2 DEF WellFormed
<1> SUFFICES ASSUME NEW b \in Entries, NEW c \in Entries, Before(f, b, c), Before(g, c, b)
             PROVE  FALSE
  BY DEF KeepsOrder
<1>7. PICK i \in DOMAIN f, j \in DOMAIN f : i < j /\ b \in Bytes(f[i]) /\ c \in Bytes(f[j])
  BY DEF Before
<1>8. PICK k \in DOMAIN g, l \in DOMAIN g : k < l /\ c \in Bytes(g[k]) /\ b \in Bytes(g[l])
  BY DEF Before
<1>9. h[k] = j /\ h[l] = i /\ h[k] < h[l]
  BY <1>3, <1>4, <1>6, <1>7, <1>8
<1> QED BY <1>5, <1>7, <1>9

-------------------------------------------------------------------------------
(* Every step of the queue is one of those operations.                        *)

Follows(f, w, g, v) == Simulates(f, w, g, v) /\ KeepsOrder(f, g)

LEMMA SameFollows ==
  ASSUME NEW f, WellFormed(f), NEW w
  PROVE  Follows(f, w, f, w)
BY SameKeepsOrder DEF Follows, Simulates

LEMMA OneWriter ==
  ASSUME LockInv, NEW p \in Procs, NEW a \in Appenders, pc[p] \notin {"idle", "lock"},
         pc[a] = "partial"
  PROVE  p = a
BY DEF LockInv, Procs

LEMMA StepFollows ==
  ASSUME IInv, [Next]_vars,
         NEW w \in BOOLEAN, w <=> UnderWay, NEW v \in BOOLEAN, v <=> UnderWay'
  PROVE  Follows(file, w, file', v)
<1> USE DEF Procs
<1>a. WellFormed(file) /\ LockInv /\ AppendInv /\ RemoveInv
  BY DEF IInv
<1>b. pc \in [Procs -> PCs] /\ entry \in [Appenders -> Entries \cup {NoEntry}]
      /\ ids \in [Removers -> SUBSET Entries]
  BY DEF IInv, TypeOK
<1>c. ASSUME file' = file, v <=> w PROVE Follows(file, w, file', v)
  BY <1>a, <1>c, SameFollows
<1>d. ASSUME file' = file, w, ~v PROVE Follows(file, w, file', v)
  <2>1. w = TRUE /\ v = FALSE
    BY <1>d
  <2> QED BY <1>a, <1>d, <2>1, StopSimulates, SameKeepsOrder DEF Follows
<1>1. ASSUME NEW p \in Procs, Lock(p) PROVE Follows(file, w, file', v)
  BY <1>1, <1>b, <1>c DEF Lock, UnderWay
<1>2. ASSUME NEW p \in Procs, Unlock(p) PROVE Follows(file, w, file', v)
  BY <1>2, <1>b, <1>c DEF Unlock, UnderWay
<1>3. ASSUME NEW a \in Appenders, NEW e \in Entries, AppendCall(a, e)
      PROVE  Follows(file, w, file', v)
  BY <1>3, <1>b, <1>c DEF AppendCall, UnderWay
<1>4. ASSUME NEW a \in Appenders, AppendBytes(a) PROVE Follows(file, w, file', v)
  <2>1. PICK whole \in BOOLEAN : file' = WriteBytes(file, entry[a], whole)
    BY <1>4 DEF AppendBytes
  <2>2. pc[a] = "write" /\ pc' = [pc EXCEPT ![a] = "partial"]
    BY <1>4 DEF AppendBytes
  <2>3. w = FALSE
    BY <1>a, <2>2, OneWriter DEF UnderWay
  <2>4. v = TRUE
    BY <1>b, <2>2 DEF UnderWay
  <2>5. entry[a] \in Entries /\ ~Holds(file, entry[a])
    <3>1. NotYetWritten(a) /\ entry[a] \in used
      BY <1>a, <2>2 DEF AppendInv, NotYetWritten
    <3>2. entry[a] \in Entries
      BY <3>1 DEF IInv, TypeOK
    <3> QED BY <1>a, <3>1, <3>2 DEF AppendInv, Unseen, InFile
  <2> QED BY <1>a, <2>1, <2>3, <2>4, <2>5, BeginSimulates, BeginKeepsOrder DEF Follows
<1>5. ASSUME NEW a \in Appenders, AppendEnd(a) PROVE Follows(file, w, file', v)
  <2>1. pc[a] = "partial" /\ pc' = [pc EXCEPT ![a] = "unlock"] /\ file' = EndLine(file)
    BY <1>5 DEF AppendEnd, Return
  <2>2. w = TRUE
    BY <2>1 DEF UnderWay
  <2>3. v = FALSE
    BY <1>a, <1>b, <2>1, OneWriter DEF UnderWay
  <2>4. file # <<>>
    BY <1>a, <2>1 DEF AppendInv
  <2> QED BY <1>a, <2>1, <2>2, <2>3, <2>4, EndSimulates, EndKeepsOrder DEF Follows
<1>6. ASSUME NEW r \in Removers, RemoveNext(r) PROVE Follows(file, w, file', v)
  <2>1. CASE RemoveUndecodable(r)
    BY <2>1, <1>b, <1>c, ProcsAssumption DEF RemoveUndecodable, Return, UnderWay
  <2>2. CASE RemoveFilter(r)
    BY <2>2, <1>b, <1>c, ProcsAssumption DEF RemoveFilter, UnderWay
  <2>3. CASE RemoveWriteTemp(r)
    BY <2>3, <1>b, <1>c, ProcsAssumption DEF RemoveWriteTemp, UnderWay
  <2>4. CASE RemoveRename(r)
    <3>1. pc[r] = "rename" /\ pc' = [pc EXCEPT ![r] = "unlock"] /\ file' = buf[r]
      BY <2>4 DEF RemoveRename, Return
    <3>2. Decodes(file) /\ file' \in Kept(file, ids[r]) /\ ids[r] \in SUBSET Entries
      BY <1>a, <1>b, <3>1 DEF RemoveInv
    <3>3. w = FALSE
      BY <1>a, <3>1, OneWriter, ProcsAssumption DEF UnderWay
    <3>4. v = FALSE
      BY <1>b, <3>1, <3>3, ProcsAssumption DEF UnderWay
    <3> QED BY <1>a, <3>2, <3>3, <3>4, RewriteSimulates, RewriteKeepsOrder DEF Follows
  <2> QED BY <1>6, <2>1, <2>2, <2>3, <2>4 DEF RemoveNext
<1>7. ASSUME NEW r \in Removers, NEW drop, RemoveCall(r, drop) PROVE Follows(file, w, file', v)
  BY <1>7, <1>b, <1>c, ProcsAssumption DEF RemoveCall, UnderWay
<1>8. ASSUME DispatcherLoad PROVE Follows(file, w, file', v)
  BY <1>8, <1>c DEF DispatcherLoad, UnderWay
<1>9. ASSUME NEW p \in Procs, Fail(p) PROVE Follows(file, w, file', v)
  <2>1. /\ file' = file
        /\ \E x \in {"idle", "unlock"} : pc' = [pc EXCEPT ![p] = x]
    BY <1>9 DEF Fail, Return
  <2>2. v => w
    BY <1>b, <2>1 DEF UnderWay
  <2> QED BY <1>c, <1>d, <2>1, <2>2
<1>10. ASSUME NEW P \in OSProcesses, Kill(P) PROVE Follows(file, w, file', v)
  <2>1. file' = file /\ pc' = [p \in Procs |-> IF p \in P THEN "idle" ELSE pc[p]]
    BY <1>10 DEF Kill
  <2>2. v => w
    BY <1>b, <2>1 DEF UnderWay
  <2> QED BY <1>c, <1>d, <2>1, <2>2
<1>11. CASE UNCHANGED vars
  BY <1>11, <1>c DEF vars, UnderWay
<1> QED
  BY <1>1, <1>2, <1>3, <1>4, <1>5, <1>6, <1>7, <1>8, <1>9, <1>10, <1>11 DEF Next, AppendNext

-------------------------------------------------------------------------------
(* The refinement mapping of DispatchQueue, before and after a step.          *)

LEMMA Mapping == (Wedged <=> Broken(file, UnderWay)) /\ pendingBar = Content(file, UnderWay)
<1>1. Wedged <=> Broken(file, UnderWay)
  BY DEF Wedged, MidLine, Broken, UnderWay
<1> QED BY <1>1 DEF pendingBar, Readable, Content

LEMMA MappingNext ==
  (Wedged' <=> Broken(file', UnderWay')) /\ pendingBar' = Content(file', UnderWay')
<1>1. Wedged' <=> Broken(file', UnderWay')
  BY DEF Wedged, MidLine, Broken, UnderWay
<1> QED BY <1>1 DEF pendingBar, Readable, Content

(* A step in terms of the mapping: an append, a rewrite, a tear, or nothing   *)
(* that a Load would see.                                                     *)
LEMMA StepMaps ==
  ASSUME IInv, [Next]_vars
  PROVE  /\ \/ (Wedged <=> Wedged') /\ pendingBar' = pendingBar
            \/ ~Wedged /\ Wedged'
            \/ /\ ~Wedged /\ ~Wedged'
               /\ \/ \E e \in Entries : /\ e \notin Listed(pendingBar)
                                        /\ pendingBar' = Append(pendingBar, e)
                  \/ \E gone \in SUBSET Entries :
                       pendingBar' \in Rewrites(pendingBar,
                         { i \in DOMAIN pendingBar : pendingBar[i] \notin gone })
         /\ KeepsOrder(file, file')
<1>1. PICK w \in BOOLEAN : w = UnderWay
  BY DEF UnderWay
<1>2. PICK v \in BOOLEAN : v = UnderWay'
  BY DEF UnderWay
<1>3. Follows(file, w, file', v)
  BY <1>1, <1>2, StepFollows
<1>4. (Wedged <=> Broken(file, w)) /\ pendingBar = Content(file, w)
  BY <1>1, Mapping
<1>5. (Wedged' <=> Broken(file', v)) /\ pendingBar' = Content(file', v)
  BY <1>2, MappingNext
<1> QED BY <1>3, <1>4, <1>5 DEF Follows, Simulates

LEMMA InitMaps == Init => Atomic!Init
<1> SUFFICES ASSUME Init PROVE pendingBar = <<>> /\ Wedged = FALSE
  BY DEF Init, Atomic!Init
<1>1. file = <<>> /\ DOMAIN file = {}
  BY DEF Init
<1>2. Wedged = FALSE
  BY <1>1 DEF Wedged
<1>3. Readable = {} /\ Cardinality(Readable) = 0
  BY <1>1, FS_EmptySet DEF Readable
<1>4. pendingBar = [i \in 1..0 |-> file[i].id]
  BY <1>2, <1>3 DEF pendingBar
<1> QED BY <1>2, <1>4

(* The dispatcher's snapshot changes only while the queue stands still, and   *)
(* shrinks or becomes all that is queued.                                     *)
LEMMA SnapshotMaps ==
  ASSUME IInv, [Next]_vars
  PROVE  \/ snapshot' = snapshot
         \/ /\ Wedged' = Wedged /\ pendingBar' = pendingBar
            /\ \/ snapshot' \in SUBSET snapshot
               \/ ~Wedged /\ snapshot' = Listed(pendingBar)
<1> DEFINE Still == Wedged' = Wedged /\ pendingBar' = pendingBar
<1>1. ASSUME file' = file, UnderWay' = UnderWay PROVE Still
  <2>1. Wedged \in BOOLEAN /\ Wedged' \in BOOLEAN
    BY DEF Wedged
  <2> QED BY <1>1, <2>1, Mapping, MappingNext
<1>2. TypeOK /\ WellFormed(file)
  BY DEF IInv
<1>3. ASSUME NEW r \in Removers, RemoveCall(r, snapshot \cap DraftsOf[r])
      PROVE  Still /\ snapshot' \in SUBSET snapshot
  <2>1. \A a \in Appenders : pc'[a] = pc[a]
    BY <1>2, <1>3, ProcsAssumption DEF RemoveCall, TypeOK, Procs
  <2>2. file' = file /\ snapshot' \in SUBSET snapshot
    BY <1>3 DEF RemoveCall
  <2> QED BY <1>1, <2>1, <2>2 DEF UnderWay
<1>4. ASSUME NEW P \in OSProcesses, Kill(P), snapshot' # snapshot
      PROVE  Still /\ snapshot' \in SUBSET snapshot
  <2>1. P = Removers /\ snapshot' = {} /\ file' = file
    BY <1>4 DEF Kill
  <2>2. \A a \in Appenders : pc'[a] = pc[a]
    BY <1>4, <2>1, ProcsAssumption DEF Kill, Procs
  <2> QED BY <1>1, <2>1, <2>2 DEF UnderWay
<1>5. CASE DispatcherLoad
  <2>1. file' = file /\ UnderWay' = UnderWay
    BY <1>5 DEF DispatcherLoad, UnderWay
  <2>2. CASE ~Decodes(file)
    BY <1>1, <1>5, <2>1, <2>2 DEF DispatcherLoad
  <2>3. CASE Decodes(file)
    <3>1. PICK w \in BOOLEAN : w = UnderWay
      BY DEF UnderWay
    <3>2. ~Wedged /\ pendingBar = Ids(file)
      BY <1>2, <2>3, <3>1, WholeContent, Mapping
    <3>3. snapshot' = Listed(pendingBar)
      BY <1>5, <2>3, <3>2 DEF DispatcherLoad, Decoded, Listed, Ids
    <3> QED BY <1>1, <2>1, <3>2, <3>3
  <2> QED BY <2>2, <2>3
<1>6. ASSUME ~DispatcherLoad, \A r \in Removers : ~RemoveCall(r, snapshot \cap DraftsOf[r]),
             \A P \in OSProcesses : ~Kill(P)
      PROVE  snapshot' = snapshot
  BY <1>6 DEF Next, vars, Lock, Unlock, Fail, AppendNext, AppendBytes, AppendEnd, AppendCall,
              RemoveNext, RemoveUndecodable, RemoveFilter, RemoveWriteTemp, RemoveRename
<1> QED BY <1>3, <1>4, <1>5, <1>6

LEMMA StepRefines == IInv /\ [Next]_vars => [Atomic!Next]_(Atomic!vars)
<1> SUFFICES ASSUME IInv, [Next]_vars PROVE [Atomic!Next]_(Atomic!vars)
  OBVIOUS
<1>1. Wedged \in BOOLEAN /\ Wedged' \in BOOLEAN
  BY DEF Wedged
<1>2. CASE snapshot' # snapshot
  <2>1. Wedged' = Wedged /\ pendingBar' = pendingBar
    BY <1>2, SnapshotMaps
  <2>2. CASE snapshot' \in SUBSET snapshot
    BY <2>1, <2>2 DEF Atomic!Next, Atomic!Forget
  <2>3. CASE ~Wedged /\ snapshot' = Listed(pendingBar)
    BY <2>1, <2>3 DEF Atomic!Next, Atomic!Load, Atomic!Queued, Listed
  <2> QED BY <1>2, <2>2, <2>3, SnapshotMaps
<1>3. CASE snapshot' = snapshot /\ (Wedged <=> Wedged') /\ pendingBar' = pendingBar
  BY <1>1, <1>3 DEF Atomic!vars
<1>4. ASSUME snapshot' = snapshot, ~Wedged, Wedged' PROVE Atomic!Next
  <2>1. Wedged' = TRUE /\ pendingBar' = <<>>
    BY <1>1, <1>4 DEF pendingBar
  <2> QED BY <1>4, <2>1 DEF Atomic!Next, Atomic!Break
<1>5. ASSUME snapshot' = snapshot, ~Wedged, ~Wedged', NEW e \in Entries,
             e \notin Listed(pendingBar), pendingBar' = Append(pendingBar, e)
      PROVE  Atomic!Next
  <2>1. Wedged' = Wedged
    BY <1>1, <1>5
  <2>2. Atomic!Add(e)
    BY <1>5, <2>1 DEF Atomic!Add, Atomic!Queued, Listed
  <2> QED BY <2>2 DEF Atomic!Next
<1>6. ASSUME snapshot' = snapshot, ~Wedged, ~Wedged', NEW gone \in SUBSET Entries,
             pendingBar' \in Rewrites(pendingBar,
               { i \in DOMAIN pendingBar : pendingBar[i] \notin gone })
      PROVE  Atomic!Next
  <2>1. Wedged' = Wedged
    BY <1>1, <1>6
  <2>2. PICK K : K = { i \in DOMAIN pendingBar : pendingBar[i] \notin gone }
    OBVIOUS
  <2>3. Atomic!Embeddings(K) = Embeddings(K)
    BY Zenon DEF Atomic!Embeddings, Embeddings, Atomic!Cardinality, Cardinality
  <2>4. Atomic!Rewrites(pendingBar, K) = Rewrites(pendingBar, K)
    BY <2>3 DEF Atomic!Rewrites, Rewrites
  <2>5. Atomic!Drop(gone)
    BY <1>6, <2>1, <2>2, <2>4 DEF Atomic!Drop
  <2> QED BY <2>5 DEF Atomic!Next
<1> QED BY <1>2, <1>3, <1>4, <1>5, <1>6, StepMaps

-------------------------------------------------------------------------------

(* The file, its lock and its two-step writes implement a queue on which      *)
(* Append, Remove and Load are atomic, across processes, failed system calls and    *)
(* kills; a torn append is the only failure that leaves a trace               *)
(* (queue.go:18-25, 83-150).                                                  *)
THEOREM QueueIsAtomic == Spec => AtomicQueue
BY Invariance, InitMaps, StepRefines, PTL DEF Spec, AtomicQueue, Atomic!Spec

(* A torn line is never dropped or healed by a later call (queue.go:105-107,  *)
(* 126-129).                                                                  *)
THEOREM WedgeStays == Spec => WedgedForGood
<1>1. IInv /\ [Next]_vars => [Wedged => Wedged']_vars
  BY StepMaps
<1> QED BY <1>1, Invariance, PTL DEF Spec, WedgedForGood

(* First-in first-out: no step turns the order of two queued entries round    *)
(* (queue.go:83, 134-150).                                                    *)
THEOREM OrderIsKept == Spec => OrderKept
<1>1. IInv /\ [Next]_vars
      => [\A b, c \in Entries : Before(file, b, c) => ~Before(file', c, b)]_vars
  BY StepMaps DEF KeepsOrder
<1> QED BY <1>1, Invariance, PTL DEF Spec, OrderKept
==============================================================================

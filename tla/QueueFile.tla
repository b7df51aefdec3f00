------------------------------ MODULE QueueFile ------------------------------
(* Vocabulary shared by the dispatch queue's abstract specification           *)
(* (QueueSpec), its implementation on disk (DispatchQueue) and the dispatcher *)
(* that drains it (Dispatcher): what it means to filter a sequence.           *)
EXTENDS Naturals, Sequences, FiniteSets

(* Strictly increasing maps from 1..Cardinality(K) onto the index set K (there *)
(* is exactly one).                                                           *)
Embeddings(K) ==
  { f \in [1..Cardinality(K) -> K] :
      /\ \A a, b \in DOMAIN f : a < b => f[a] < f[b]
      /\ \A k \in K : \E a \in DOMAIN f : f[a] = k }

(* The sequence kept by a filter whose surviving positions are K, as the set  *)
(* holding it: the survivors in their old order.  It is written without       *)
(* recursion so that it can be reasoned about.                                *)
Rewrites(s, K) == { [k \in DOMAIN f |-> s[f[k]]] : f \in Embeddings(K) }

==============================================================================

------------------------------ MODULE LruList ------------------------------
(***************************************************************************)
(* The LruCache of the lru crate, as src/src/dns uses it: only the order   *)
(* of its keys.  A cache is a sequence of distinct keys, the least         *)
(* recently used first and the most recently used last.                    *)
(***************************************************************************)
EXTENDS SequencesExt

LruPosition(l, k) == CHOOSE i \in DOMAIN l : l[i] = k

\* pop(&k): forget a key, wherever it stands.
LruPop(l, k) == IF k \in ToSet(l) THEN RemoveAt(l, LruPosition(l, k)) ELSE l

\* get(&k): a key that is present becomes the most recently used.
LruGet(l, k) == IF k \in ToSet(l) THEN Append(LruPop(l, k), k) ELSE l

\* put(k, v): k becomes the most recently used; a full cache that does not
\* hold k first drops its least recently used key, and says nothing of it.
LruPut(l, k, cap) ==
  LET rest == LruPop(l, k)
  IN  Append(IF Len(rest) >= cap THEN Tail(rest) ELSE rest, k)
=============================================================================

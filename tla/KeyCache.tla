------------------------------- MODULE KeyCache -------------------------------
(***************************************************************************)
(* The cache of CacheableSignalKeyStore (signal/keys.ts): a Map in order   *)
(* of insertion, here a sequence of entries.  Setting an entry that is     *)
(* there keeps its place; a full Map first loses its oldest entry, even    *)
(* when the one to set is there already.                                   *)
(***************************************************************************)
EXTENDS Naturals, Sequences, SequencesExt

CONSTANT MaxCacheSize

Has(cache, k) == \E i \in 1..Len(cache) : cache[i].k = k

PlaceOf(cache, k) == CHOOSE i \in 1..Len(cache) : cache[i].k = k

ValueOf(cache, k) == cache[PlaceOf(cache, k)].v

Without(cache, k) == IF Has(cache, k) THEN RemoveAt(cache, PlaceOf(cache, k)) ELSE cache

\* The oldest entry goes when the cache is full.
Evict(cache) == IF cache # << >> /\ Len(cache) >= MaxCacheSize THEN Tail(cache) ELSE cache

CacheSet(cache, k, v) ==
  LET c == Evict(cache)
  IN  IF Has(c, k)
      THEN [i \in 1..Len(c) |-> IF c[i].k = k THEN [c[i] EXCEPT !.v = v] ELSE c[i]]
      ELSE Append(c, [k |-> k, v |-> v])

\* The entries of a batch, one after the other.
CacheSetAll(cache, batch) ==
  LET after[n \in 0..Len(batch)] ==
        IF n = 0 THEN cache ELSE CacheSet(after[n - 1], batch[n].k, batch[n].v)
  IN  after[Len(batch)]

=============================================================================

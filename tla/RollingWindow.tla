---------------------------- MODULE RollingWindow ---------------------------
(***************************************************************************)
(* The deque both rolling windows of the system are built on                *)
(* (services/reconstructor/src/window.rs, services/signal/src/spike.rs):     *)
(* stamped items are pushed at the back and evicted from the front as long   *)
(* as the front one is too old.  An old item behind a younger one stays.     *)
(***************************************************************************)
EXTENDS Integers, Sequences, SequencesExt

\* x.saturating_sub(y)
Minus(x, y) == IF x > y THEN x - y ELSE 0

\* Mutation: one item at most is evicted.
EvictOne(items, cutoff) ==
  IF items # <<>> /\ items[1].at < cutoff THEN Tail(items) ELSE items

\* Mutation: an item as old as the cutoff is evicted.
EvictAtCutoff(items, cutoff) ==
  LET first == SelectInSeq(items, LAMBDA x : x.at > cutoff)
  IN  IF first = 0 THEN <<>> ELSE SubSeq(items, first, Len(items))

\* Drop the items before the first that is not older than the cutoff.
Evict(items, cutoff) ==
  LET first == SelectInSeq(items, LAMBDA x : x.at >= cutoff)
  IN  IF first = 0 THEN <<>> ELSE SubSeq(items, first, Len(items))
=============================================================================

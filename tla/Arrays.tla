------------------------------- MODULE Arrays -------------------------------
(***************************************************************************)
(* Arrays whose items are taken out by their position: the waiters of a    *)
(* queue, the listeners of a signal, and the keys of a map in their order. *)
(* The operators are not recursive, so that they can be reasoned about.    *)
(***************************************************************************)
EXTENDS Naturals, Sequences, FiniteSets

Elements(s) == {s[i] : i \in DOMAIN s}

\* s.splice(index, 1)
Without(s, i) == SubSeq(s, 1, i - 1) \o SubSeq(s, i + 1, Len(s))

\* What several splices leave: the items of s that are in S, in their order.  The
\* i-th of them is the one with i positions up to its own.
Kept(s, S) == {n \in DOMAIN s : s[n] \in S}
Rank(positions, n) == Cardinality({m \in positions : m <= n})

Only(s, S) ==
    LET kept == Kept(s, S)
    IN  [i \in 1 .. Cardinality(kept) |-> s[CHOOSE n \in kept : Rank(kept, n) = i]]
=============================================================================

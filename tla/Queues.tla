------------------------------- MODULE Queues -------------------------------
(***************************************************************************)
(* What the code does to its lists and deques, as operators on sequences   *)
(* that the provers can reason about: each is defined by the places of the *)
(* elements it keeps, not by recursion.                                    *)
(***************************************************************************)
EXTENDS Integers, Sequences, FiniteSets, FiniteSetsExt

\* list.remove and deque.remove: s without the first place that holds e.
Removed(s, e) ==
    LET i == Min({k \in 1 .. Len(s) : s[k] = e})
    IN  SubSeq(s, 1, i - 1) \o SubSeq(s, i + 1, Len(s))

\* reversed()
Reversed(s) == [k \in 1 .. Len(s) |-> s[Len(s) + 1 - k]]

\* The places of s that hold an element of S, and how many of them there are
\* up to the k-th.
Places(s, S) == {k \in 1 .. Len(s) : s[k] \in S}

Rank(s, S, k) == Cardinality({j \in Places(s, S) : j <= k})

\* A loop over s that keeps the elements of S: they stay in their order.
Only(s, S) ==
    [n \in 1 .. Cardinality(Places(s, S)) |->
        s[CHOOSE k \in Places(s, S) : Rank(s, S, k) = n]]
=============================================================================

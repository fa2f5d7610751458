----------------------------- MODULE ListErase -----------------------------
(***************************************************************************)
(* Erasing from a std::list, as Taskpool::remove and cancelTaskGroup do:   *)
(* it = erase(it) on a match, ++it otherwise, until the end.               *)
(***************************************************************************)
EXTENDS Integers, Sequences, FiniteSets

Elements(s) == {s[i] : i \in DOMAIN s}

\* Variant: the element after an erased one is skipped as well.
KeptIndices_SkipsNext(s, K) ==
    {i \in DOMAIN s : s[i] \notin K /\ (i > 1 => s[i - 1] \notin K)}

\* The positions of s that hold no element of K.
KeptIndices(s, K) == {i \in DOMAIN s : s[i] \notin K}

IsEnumeration(f, S) ==
    /\ \A i, j \in DOMAIN f : i < j => f[i] < f[j]
    /\ {f[i] : i \in DOMAIN f} = S

Enumeration(S) == CHOOSE f \in [1..Cardinality(S) -> S] : IsEnumeration(f, S)

\* The erase loops over a std::list: s without any copy of an element of K.
Erase(s, K) ==
    LET kept == Enumeration(KeptIndices(s, K))
    IN  [i \in 1..Cardinality(KeptIndices(s, K)) |-> s[kept[i]]]
=============================================================================

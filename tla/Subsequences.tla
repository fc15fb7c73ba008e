---------------------------- MODULE Subsequences ----------------------------
(***************************************************************************)
(* Taking some of the entries of a sequence in their order, as a loop over *)
(* a queue or VecDeque::retain does.  The definition is by rank and not by *)
(* recursion, so that it can be reasoned about.                            *)
(***************************************************************************)
EXTENDS Integers, Sequences, FiniteSets

\* How many of the places are at or before i.
Rank(places, i) == Cardinality({j \in places : j <= i})

\* The entries of s at the places, in their order.
AtPlaces(s, places) ==
    [k \in 1..Cardinality(places) |->
        s[CHOOSE i \in places : Rank(places, i) = k]]

\* The entries of s that are in keep, in their order.
Retained(s, keep) == AtPlaces(s, {i \in DOMAIN s : s[i] \in keep})
=============================================================================

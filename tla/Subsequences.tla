---------------------------- MODULE Subsequences ----------------------------
(***************************************************************************)
(* The containers of the code are std::vector and std::list, and most of   *)
(* what is done to them removes some elements and keeps the others in      *)
(* their order: erase(remove_if(...)), erase(begin()), remove(x) and       *)
(* unique().  All of these are one operator here, Keep, which is defined   *)
(* without recursion so that the modules using it can be proved about.     *)
(***************************************************************************)
EXTENDS Naturals, Sequences, FiniteSets

Rank(I, i) == Cardinality({j \in I : j <= i})

\* The elements of s at the positions I, in the order they have in s.
Keep(s, I) ==
  [k \in 1 .. Cardinality(I) |-> s[CHOOSE i \in I : Rank(I, i) = k]]

\* std::list::remove for every value of the set R.
Without(s, R) == Keep(s, {i \in DOMAIN s : s[i] \notin R})

\* std::list::unique: of each run of equal neighbours the first stays.
Unique(s) == Keep(s, {i \in DOMAIN s : i = 1 \/ s[i] # s[i-1]})

Elements(s) == {s[i] : i \in DOMAIN s}
=============================================================================

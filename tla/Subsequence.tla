---------------------------- MODULE Subsequence ----------------------------
(***************************************************************************)
(* Sequences that are what is left of longer ones: how the properties say  *)
(* that readings are stored in a file into which others write, too.        *)
(***************************************************************************)
EXTENDS Naturals, Sequences

\* s is what is left of t when some of its elements are crossed out.
IsSubsequence(s, t) ==
  \E f \in [DOMAIN s -> DOMAIN t] :
    /\ \A i \in DOMAIN s : t[f[i]] = s[i]
    /\ \A i, j \in DOMAIN s : i < j => f[i] < f[j]

\* The first k elements of s are what is left of t when some are crossed out.
StartStored(s, k, t) ==
  \E f \in [1 .. k -> DOMAIN t] :
    /\ \A i \in 1 .. k : t[f[i]] = s[i]
    /\ \A i, j \in 1 .. k : i < j => f[i] < f[j]
=============================================================================

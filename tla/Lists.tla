------------------------------- MODULE Lists -------------------------------
(***************************************************************************)
(* Array.filter, as a recursive function.                                  *)
(***************************************************************************)
EXTENDS Naturals, Sequences

\* What of s is in S, in the order of s.
Filter(s, S) ==
    LET f[i \in 0..Len(s)] ==
            IF i = 0 THEN <<>> ELSE IF s[i] \in S THEN Append(f[i - 1], s[i]) ELSE f[i - 1]
    IN f[Len(s)]
=============================================================================

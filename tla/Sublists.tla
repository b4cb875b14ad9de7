------------------------------- MODULE Sublists -------------------------------
(***************************************************************************)
(* The elements of a sequence that are in a set, in their order: what      *)
(* SelectSeq computes, as a recursive function the provers can expand.     *)
(***************************************************************************)
EXTENDS Integers, Sequences

Sublist(s, T) ==
  LET f[i \in 0 .. Len(s)] ==
        IF i = 0 THEN <<>>
        ELSE IF s[i] \in T THEN Append(f[i - 1], s[i]) ELSE f[i - 1]
  IN  f[Len(s)]
=============================================================================

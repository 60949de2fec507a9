----------------------------- MODULE Selection ------------------------------
(***************************************************************************)
(* The elements of a list that a comprehension with a condition keeps, in  *)
(* their order.  The condition is the set S of the elements that meet it,  *)
(* and the recursion is a function's, so that both can be reasoned about.  *)
(***************************************************************************)
EXTENDS Naturals, Sequences

(* What is kept of the first n elements of s. *)
KeptUpTo(s, S) ==
    LET kept[n \in 0..Len(s)] ==
          IF n = 0 THEN <<>>
          ELSE IF s[n] \in S THEN Append(kept[n - 1], s[n]) ELSE kept[n - 1]
    IN  kept

Kept(s, S) == KeptUpTo(s, S)[Len(s)]
=============================================================================

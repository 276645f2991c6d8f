--------------------------------- MODULE Seqs ---------------------------------
(***************************************************************************)
(* What the loops over slices find and build: an index is 0 if there is    *)
(* none, a selection is given by the set of its indices, and recursion is  *)
(* by functions, so that all of it can be reasoned about.                  *)
(***************************************************************************)
EXTENDS Naturals, Sequences, Functions

\* A sequence.
IsSlice(s) == s \in Seq(Range(s))

\* The first and the last of a set of indices.
FirstOf(I) == IF I = {} THEN 0 ELSE CHOOSE i \in I : \A j \in I : i <= j

LastOf(I) == IF I = {} THEN 0 ELSE CHOOSE i \in I : \A j \in I : j <= i

\* The elements of the sequences in ss, in order.
Flatten(ss) ==
    LET f[i \in 0 .. Len(ss)] == IF i = 0 THEN <<>> ELSE f[i - 1] \o ss[i]
    IN  f[Len(ss)]

\* The elements of s with an index in I, in order.
Select(s, I) == Flatten([i \in DOMAIN s |-> IF i \in I THEN <<s[i]>> ELSE <<>>])
=============================================================================

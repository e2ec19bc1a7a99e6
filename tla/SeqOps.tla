-------------------------------- MODULE SeqOps --------------------------------
(***************************************************************************)
(* Sums, concatenations and selections of sequences, as recursive          *)
(* functions of the length: the loops over records and groups of wal.rs    *)
(* and lib.rs in a form that module SeqOpsProofs reasons about.  Last and  *)
(* Front are those of SequencesExt, and all that is used of it.            *)
(***************************************************************************)
EXTENDS Naturals, Sequences, Functions

Last(s) == s[Len(s)]
Front(s) == SubSeq(s, 1, Len(s) - 1)

\* The sum of a sequence of numbers.
SumSeq(s) ==
  LET sum[i \in 0..Len(s)] == IF i = 0 THEN 0 ELSE sum[i - 1] + s[i]
  IN  sum[Len(s)]

\* The sum of what f makes of the elements.
SumOf(s, f(_)) == SumSeq([i \in 1..Len(s) |-> f(s[i])])

\* The sequences of a sequence, one after the other.
Flatten(ss) ==
  LET flat[i \in 0..Len(ss)] == IF i = 0 THEN <<>> ELSE flat[i - 1] \o ss[i]
  IN  flat[Len(ss)]

\* The elements that are in S, in their order.
Filter(s, S) == Flatten([i \in 1..Len(s) |-> IF s[i] \in S THEN <<s[i]>> ELSE <<>>])
===============================================================================

------------------------------ MODULE ByteStreams ------------------------------
(***************************************************************************)
(* The bytes of one direction of a connection, by the place they have      *)
(* reached.                                                                *)
(***************************************************************************)
EXTENDS Naturals, Sequences, FiniteSets

\* What a sender wrote, if its reader has read r, t is on its way to the
\* reader, b is held by a program in between, and q has not reached that
\* program yet.
Stream(r, t, b, q) == r \o (t \o (b \o q))

\* What there is of s before the first c: strcspn counts the bytes with no c up
\* to them.
Cut(s, c) ==
  SubSeq(s, 1, Cardinality({k \in 1..Len(s) : \A i \in 1..k : s[i] # c}))
===============================================================================

----------------------------- MODULE DartQueue -----------------------------
(***************************************************************************)
(* The one operation of dart:collection's Queue, and of a List used as a   *)
(* queue, that is not an operator of Sequences.  Range is the set of the   *)
(* elements.  (SequencesExt has both, but brings in Bags, which slows the  *)
(* prover down by an order of magnitude.)                                  *)
(***************************************************************************)
EXTENDS Integers, Sequences, FiniteSets, Functions

\* Queue.remove: the first occurrence of e, if there is one, is taken out.
Remove(q, e) ==
  IF e \in Range(q)
    THEN LET i == CHOOSE i \in DOMAIN q : q[i] = e /\ \A j \in 1 .. i - 1 : q[j] # e
         IN  SubSeq(q, 1, i - 1) \o SubSeq(q, i + 1, Len(q))
    ELSE q

=============================================================================

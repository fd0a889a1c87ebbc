------------------------------- MODULE Lists --------------------------------
(***************************************************************************)
(* The operators of SequencesExt that the components use, with its names.  *)
(* SequencesExt extends Bags, and the prover, which carries the definition *)
(* of every operator in scope into each step, is many times slower with    *)
(* Bags in scope.  Sets and functions come from the community modules.     *)
(***************************************************************************)
EXTENDS Integers, Sequences, FiniteSets, FiniteSetsExt, Functions

ToSet(s) == {s[i] : i \in DOMAIN s}

Last(s) == s[Len(s)]

Contains(s, e) == \E i \in 1 .. Len(s) : s[i] = e

IsPrefix(s, t) == Len(s) <= Len(t) /\ s = SubSeq(t, 1, Len(s))

(* The first place of an element that passes the test, or 0.               *)
SelectInSeq(s, Test(_)) ==
  LET found == {i \in 1 .. Len(s) : Test(s[i])}
  IN  IF found # {} THEN Min(found) ELSE 0

ReplaceAt(s, i, e) == [s EXCEPT ![i] = e]
InsertAt(s, i, e) == SubSeq(s, 1, i - 1) \o <<e>> \o SubSeq(s, i, Len(s))
RemoveAt(s, i) == SubSeq(s, 1, i - 1) \o SubSeq(s, i + 1, Len(s))

(* The orders of a set.                                                    *)
SetToSeqs(S) == {f \in [1 .. Cardinality(S) -> S] : IsInjective(f)}

FoldLeft(op(_, _), base, s) ==
  LET upTo[n \in 0 .. Len(s)] == IF n = 0 THEN base ELSE op(upTo[n - 1], s[n])
  IN  upTo[Len(s)]

(* The sequences of a sequence, one after the other.                       *)
FlattenSeq(seqs) == FoldLeft(LAMBDA all, next : all \o next, << >>, seqs)
=============================================================================

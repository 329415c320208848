------------------------------- MODULE Lists -------------------------------
(***************************************************************************)
(* The operators on lists that several models share.  SequencesExt has     *)
(* operators of these names; it also extends Bags, and with Bags the       *)
(* proof system loads the library's theorems on sets and sequences into    *)
(* the context of every obligation of every module that extends it.        *)
(***************************************************************************)
EXTENDS Sequences, FiniteSetsExt

\* The last element of a list, and the list without it.
Last(s) == s[Len(s)]
Front(s) == SubSeq(s, 1, Len(s) - 1)

\* The elements of a list.
ToSet(s) == Range(s)

\* The place of the first element that Test accepts, or 0.
SelectInSeq(s, Test(_)) ==
  LET accepted == {i \in DOMAIN s : Test(s[i])}
  IN  IF accepted = {} THEN 0 ELSE Min(accepted)

\* A list of the elements of a finite set, each of them once.
SetToSeq(S) == CHOOSE s \in [1..Cardinality(S) -> S] : IsInjective(s)

\* What a loop over a list leaves: it starts from base and applies op to each element.
FoldLeft(op(_, _), base, s) ==
  LET after[i \in 0..Len(s)] == IF i = 0 THEN base ELSE op(after[i - 1], s[i])
  IN  after[Len(s)]

=============================================================================

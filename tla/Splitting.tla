------------------------------ MODULE Splitting -----------------------------
(***************************************************************************)
(* What the cursors of the program are compared with: the fields of a      *)
(* string by where its separators are, all at once.                        *)
(***************************************************************************)
EXTENDS Integers, Sequences, FiniteSets

\* Where the string is cut: at its separators, before and behind it.
Cuts(s, sep) == {0, Len(s) + 1} \cup {i \in 1 .. Len(s) : s[i] = sep}

\* The cuts that a field stands behind; an empty one counts or does not.
Begins(s, sep, allowempty) ==
  {c \in Cuts(s, sep) : c <= Len(s) /\ (allowempty \/ c + 1 \notin Cuts(s, sep))}

\* The field behind a cut.
FieldAt(s, sep, c) ==
  LET next == CHOOSE d \in Cuts(s, sep) :
                d > c /\ \A e \in Cuts(s, sep) : e > c => d <= e
  IN  SubSeq(s, c + 1, next - 1)

\* The k-th smallest of a set of numbers.
Ranked(B, k) == CHOOSE b \in B : Cardinality({a \in B : a < b}) = k - 1

Split(s, sep, allowempty) ==
  LET begins == Begins(s, sep, allowempty)
  IN  [k \in 1 .. Cardinality(begins) |-> FieldAt(s, sep, Ranked(begins, k))]
=============================================================================

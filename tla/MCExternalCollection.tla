------------------------ MODULE MCExternalCollection ------------------------
(* Instances of ExternalCollection for TLC. *)
EXTENDS ExternalCollection, TLC

CONSTANTS w1, w2, m1, m2, m3, b1, b2

\* One maildrop, distinct identifiers.
OneBox == [m \in Messages |-> b1]
OwnUidl == [m \in Messages |-> m]
\* m1 and m3 in the first maildrop, m2 in the second.
TwoBoxes == [m \in Messages |-> IF m = m2 THEN b2 ELSE b1]
\* Both servers number their messages from the same identifier.
SameUidl == [m \in Messages |-> m1]

WorkerSymmetry == Permutations(Workers)
MessageSymmetry == Permutations(Messages)
=============================================================================

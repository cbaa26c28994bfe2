--------------------------- MODULE MCMailDelivery ---------------------------
(* Instances of MailDelivery for TLC. *)
EXTENDS MailDelivery, TLC

CONSTANTS w1, w2, q1, q2, o1

\* No row forwards a received mail.
NoForwards == [q \in Rows |-> NoOrigin]
\* Every row forwards the mail o1.
AllForwardO1 == [q \in Rows |-> o1]

WorkerSymmetry == Permutations(Workers)
=============================================================================

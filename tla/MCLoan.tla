------------------------------- MODULE MCLoan -------------------------------
(* Small loans: a schedule is given by its principal and interest dues. *)
EXTENDS Loan, TLC

\* One instalment with all the principal.
MCOneInstalment == {1}
MCOnePrincipalDue == [n \in {1} |-> 2]
MCOneInterestDue == [n \in {1} |-> 1]

\* Two equal instalments.
MCTwoInstalments == {1, 2}
MCTwoPrincipalDue == [n \in {1, 2} |-> 1]
MCTwoInterestDue == [n \in {1, 2} |-> 1]

\* Keys are interchangeable, and so are sessions.
MCSymmetry == Permutations(Key) \cup Permutations(Session)
=============================================================================

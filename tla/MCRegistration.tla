---------------------------- MODULE MCRegistration ----------------------------
(* Registration for TLC: two forms that share an email.                    *)
EXTENDS Registration, TLC

CONSTANTS ana, bea, email
MCForms == {[username |-> u, email |-> email] : u \in {ana, bea}}
Symmetry == Permutations(Tasks) \cup Permutations({ana, bea})
=============================================================================

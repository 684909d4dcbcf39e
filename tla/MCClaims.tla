------------------------------ MODULE MCClaims ------------------------------
(* Small instance of Claims: attachments a1, a2 and b1; b1 belongs to p2     *)
(* when the configuration has two Principals.                                *)
EXTENDS ClaimsProperties, TLC

CONSTANTS a1, a2, b1, p1, p2

OnePrincipal == [a \in Attachments |-> p1]
TwoPrincipals == [a \in Attachments |-> IF a = b1 THEN p2 ELSE p1]

OpSymmetry == Permutations(CurrentOps)
=============================================================================

------------------------------ MODULE MCAccess ------------------------------
(* Two server processes, two requests at a time, one email.                  *)
EXTENDS Access, TLC

Symmetry == Permutations(Server) \union Permutations(Request)
              \union Permutations(Delegation) \union Permutations(Invitation)
=============================================================================

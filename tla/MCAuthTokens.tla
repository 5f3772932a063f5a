---------------------------- MODULE MCAuthTokens ----------------------------
(* AuthTokens with one role; the permission's wildcard is not granted.      *)
EXTENDS AuthTokens, TLC

MCWildcard == [p \in Perms |-> "employee.*"]

Symmetry == Permutations(Users)
=============================================================================

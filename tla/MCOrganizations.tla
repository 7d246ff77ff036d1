--------------------------- MODULE MCOrganizations ---------------------------
(* A small instance of Organizations for TLC: users and requests are       *)
(* interchangeable.                                                        *)
EXTENDS Organizations, TLC

OrgSymmetry == Permutations(Users) \cup Permutations(Requests)
=============================================================================

------------------------------ MODULE MCAccounts ------------------------------
(* A small instance of Accounts; rows, addresses and requests are interchangeable. *)
EXTENDS Accounts, TLC

CONSTANTS u1, u2, e1, e2, r1, r2, wx

AccountSymmetry == Permutations(Users) \cup Permutations(Emails) \cup Permutations(Requests)
==============================================================================

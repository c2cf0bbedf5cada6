------------------------------ MODULE MCAccounts ------------------------------
(* Accounts with the symmetries its model values allow. *)
EXTENDS Accounts, TLC

Symmetry == Permutations(Requests) \cup Permutations(Emails) \cup
            Permutations(Passwords) \cup Permutations(Codes)

=============================================================================

---------------------------- MODULE MCAddressBook ----------------------------
(* AddressBook with the symmetries its model values allow. *)
EXTENDS AddressBook, TLC

Symmetry == Permutations(Requests) \cup Permutations(Users) \cup
            Permutations(Contacts) \cup Permutations(Phones) \cup
            Permutations(Values) \cup Permutations(Tags)

=============================================================================

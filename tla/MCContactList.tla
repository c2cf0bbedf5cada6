----------------------------- MODULE MCContactList -----------------------------
(* ContactList with the query strings its clients send in the run. *)
EXTENDS ContactList

\* The limit is over the cap of the run.
FirstPage == [page |-> 1, limit |-> 2, search |-> None, type |-> None]

Searches == {[FirstPage EXCEPT !.search = v] : v \in Values}

=============================================================================

----------------------------- MODULE SoftDeletion -----------------------------
(***************************************************************************)
(* What soft deletion promises of rows that requests and caches hold       *)
(* copies of: a deleted row can come back while a copy of it is left, for  *)
(* whoever holds one can save it, and after that no more.  Rows are never  *)
(* taken back to nothing, and their ids are not given out twice.           *)
(***************************************************************************)
CONSTANT Things     \* the ids of the rows

VARIABLE life       \* where each row is in its life

\* "deleted" is a deleted row with copies left, "gone" one without.
Lives == {"free", "live", "deleted", "gone"}

Moves == {<<"free", "live">>, <<"live", "deleted">>, <<"live", "gone">>,
          <<"deleted", "live">>, <<"deleted", "gone">>}

LifeInit == life = [x \in Things |-> "free"]

LifeStep(x) ==
    LET old == life[x]
        new == life'[x] IN
    new = old \/ <<old, new>> \in Moves

\* One step can move several rows: a cache that is emptied held copies of many.
LifeNext ==
    /\ DOMAIN life' = Things
    /\ \A x \in Things : LifeStep(x)

LifeSpec == LifeInit /\ [][LifeNext]_life

=============================================================================

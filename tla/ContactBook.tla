----------------------------- MODULE ContactBook -----------------------------
(***************************************************************************)
(* What the contact routes promise, whatever is cached and whatever        *)
(* overlaps: a contact has one owner for good and lives as SoftDeletion    *)
(* says; a detail hangs on one contact for good, is given to a contact     *)
(* only while that one is not gone, and once lost is lost for good.        *)
(***************************************************************************)
EXTENDS SoftDeletion

CONSTANTS
    Users,      \* the owners
    Details,    \* phone numbers, emails and addresses
    None        \* no owner yet, no contact yet

VARIABLES
    owner,      \* the owner of each contact
    home        \* the contact of each detail, None before, "lost" after

bookVars == <<life, owner, home>>

BookInit ==
    /\ LifeInit
    /\ owner = [c \in Things |-> None]
    /\ home = [k \in Details |-> None]

\* An owner comes with the contact.
OwnerStep(c) ==
    IF life[c] = "free" /\ life'[c] = "live" THEN owner'[c] \in Users
                                             ELSE owner'[c] = owner[c]

\* A detail moves in with a contact that is not gone, and moves out for good.
HomeStep(k) ==
    LET old == home[k]
        new == home'[k] IN
    \/ new = old
    \/ old \in Things /\ new = "lost"
    \/ old = None /\ new \in Things /\ life[new] \in {"live", "deleted"}

BookNext ==
    /\ LifeNext
    /\ DOMAIN owner' = Things
    /\ \A c \in Things : OwnerStep(c)
    /\ DOMAIN home' = Details
    /\ \A k \in Details : HomeStep(k)

BookSpec == BookInit /\ [][BookNext]_bookVars

=============================================================================

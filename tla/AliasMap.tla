------------------------------ MODULE AliasMap ------------------------------
(***************************************************************************)
(* What the alias store promises: a map from an account and an alias to a  *)
(* contact, in which a call changes the one entry it names, after the rows *)
(* written before aliases were scoped have been given to the sole account. *)
(* Others may damage the file; a call that meets the damage puts the map   *)
(* right, or gives it up.                                                  *)
(***************************************************************************)
EXTENDS Naturals

CONSTANTS Alias, Contact, Sole, Scope

VARIABLES
  map,    \* of scope and alias to a contact, 0 where there is none
  damaged \* whether others have made the file of it unreadable

Unscoped == "unscoped"

(* An explicit row wins over an unscoped one of the same alias.            *)
Migrated(rows) ==
  [key \in Scope \X Alias |->
     IF key[1] = Unscoped THEN 0
     ELSE IF key[1] = Sole /\ rows[key] = 0 THEN rows[<<Unscoped, key[2]>>]
     ELSE rows[key]]

Init == map \in [Scope \X Alias -> Contact \cup {0}] /\ damaged = FALSE

Change(alias, contact) == map' = [Migrated(map) EXCEPT ![<<Sole, alias>>] = contact]

Update ==
  /\ map' = Migrated(map) \/ \E alias \in Alias, contact \in Contact \cup {0} : Change(alias, contact)
  /\ damaged' = FALSE

Damage == ~damaged /\ damaged' = TRUE /\ UNCHANGED map

GiveUp == damaged /\ damaged' = FALSE /\ map' = [key \in Scope \X Alias |-> 0]

Next == Update \/ Damage \/ GiveUp

Spec == Init /\ [][Next]_<<map, damaged>>
=============================================================================

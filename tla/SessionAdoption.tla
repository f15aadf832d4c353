--------------------------- MODULE SessionAdoption ---------------------------
(***************************************************************************)
(* How a file session of telegram_mcp/session_files.py gets a client: the  *)
(* managed directory is made private, a session an older version left in   *)
(* an unprotectable directory is moved there with its sidecars, and both   *)
(* are verified again before and after the database is opened.             *)
(*                                                                         *)
(* Abstractions.  One legacy directory.  A check of the directory and of   *)
(* every file in it is one step that may fail; a file that is moved in or  *)
(* created is not private until the next check.  A start may die at every  *)
(* step and is followed by another.                                        *)
(***************************************************************************)
EXTENDS Naturals, Sequences

CONSTANT MaxStarts \* bound: starts of the account

SessionAdoptionAssumption == MaxStarts \in Nat

(* _SESSION_SIDECARS, in their order.                                      *)
Files == <<"database", "journal", "wal", "shm">>

VARIABLES
  legacy,  \* files in the legacy directory
  managed, \* files in the managed directory
  private, \* those of them that were verified owner-only
  origin,  \* where the managed database came from
  pc,      \* where the start is; "down" between two
  next,    \* index of the file that is moved next
  starts

adoptionVars == <<legacy, managed, private, origin, pc, next, starts>>

Name == {Files[i] : i \in 1..Len(Files)}

TypeOK ==
  /\ legacy \subseteq Name /\ managed \subseteq Name /\ private \subseteq managed
  /\ origin \in {"none", "legacy", "new", "operator"}
  /\ pc \in {"down", "first", "adopting", "second", "opening", "third", "serving", "refused"}
  /\ next \in 1..Len(Files) + 1
  /\ starts \in 0..MaxStarts

Init ==
  /\ legacy \in SUBSET Name /\ ("database" \notin legacy => legacy = {})
  /\ managed \in {{}, {"database"}} /\ private = {}
  /\ origin = IF managed = {} THEN "none" ELSE "operator"
  /\ pc = "down" /\ next = 1 /\ starts = 0

Start ==
  /\ pc \in {"down", "refused"} /\ starts < MaxStarts
  /\ pc' = "first" /\ next' = 1 /\ starts' = starts + 1
  /\ UNCHANGED <<legacy, managed, private, origin>>

(* harden_session_files(): before the adoption, after it, and over what    *)
(* the constructor created.                                                *)
After(step) == CASE step = "first" -> "adopting" [] step = "second" -> "opening"
                 [] step = "third" -> "serving"
Harden ==
  /\ pc \in {"first", "second", "third"}
  /\ private' = managed
  /\ pc' = After(pc)
  /\ UNCHANGED <<legacy, managed, origin, next, starts>>

(* Definitions whose name says what they get wrong are defects the checks  *)
(* must notice; no action uses them.                                       *)
ServesUnverified(step) == IF step = "third" THEN "serving" ELSE "refused"
Unverified(step) == "refused"

HardenFails ==
  /\ pc \in {"first", "second", "third"}
  /\ pc' = Unverified(pc)
  /\ UNCHANGED <<legacy, managed, private, origin, next, starts>>

(* adopt_legacy_session(): nothing to move, or a database is there.        *)
AdoptsAnyLegacy == legacy # {}
Adoptable == "database" \notin managed /\ "database" \in legacy

SkipAdoption ==
  /\ pc = "adopting" /\ next = 1 /\ ~Adoptable
  /\ pc' = "second"
  /\ UNCHANGED <<legacy, managed, private, origin, next, starts>>

Move ==
  /\ pc = "adopting" /\ next \in 1..Len(Files) /\ (next = 1 => Adoptable)
  /\ next' = next + 1
  /\ IF Files[next] \in legacy
     THEN /\ legacy' = legacy \ {Files[next]}
          /\ managed' = managed \cup {Files[next]}
          /\ private' = private \ {Files[next]}
          /\ origin' = IF Files[next] = "database" THEN "legacy" ELSE origin
     ELSE UNCHANGED <<legacy, managed, private, origin>>
  /\ UNCHANGED <<pc, starts>>

MoveFails ==
  /\ pc = "adopting" /\ next \in 1..Len(Files) /\ (next = 1 => Adoptable)
  /\ Files[next] \in legacy
  /\ pc' = "refused"
  /\ UNCHANGED <<legacy, managed, private, origin, next, starts>>

Adopted ==
  /\ pc = "adopting" /\ next > Len(Files)
  /\ pc' = "second"
  /\ UNCHANGED <<legacy, managed, private, origin, next, starts>>

(* _build_client(): the constructor creates what is not there.             *)
Open ==
  /\ pc = "opening"
  /\ pc' = "third"
  /\ \E born \in SUBSET (Name \ {"database"}) :
       managed' = managed \cup {"database"} \cup born
  /\ origin' = IF "database" \in managed THEN origin ELSE "new"
  /\ UNCHANGED <<legacy, private, next, starts>>

Die ==
  /\ pc \notin {"down", "refused"}
  /\ pc' = "down"
  /\ UNCHANGED <<legacy, managed, private, origin, next, starts>>

Next == Start \/ Harden \/ HardenFails \/ SkipAdoption \/ Move \/ MoveFails \/ Adopted \/ Open \/ Die

Spec == Init /\ [][Next]_adoptionVars

----------------------------------------------------------------------------
(* An account is served only from files its owner alone can read, after    *)
(* any number of starts that died or were refused half way.                *)
ServesPrivateFiles == pc = "serving" => private = managed

(* The managed database is the one in use: no adoption replaces it, also   *)
(* one that takes up where an earlier start stopped.                       *)
DatabaseIsNeverReplaced == [][origin # "none" => origin' = origin]_origin

(* "with every sidecar it had [...] A move that cannot be completed is a   *)
(* refusal": an adopted account is not served while a sidecar is left.     *)
SidecarsFollowTheirDatabase == pc = "serving" /\ origin = "legacy" => legacy = {}

(* The invariant behind the second: the database is there once it came     *)
(* from somewhere, and only the first move of an adoption brings one.      *)
Inv == TypeOK /\ ServesPrivateFiles /\ (origin = "none" <=> "database" \notin managed)
=============================================================================

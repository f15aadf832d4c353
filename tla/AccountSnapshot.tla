--------------------------- MODULE AccountSnapshot ---------------------------
(***************************************************************************)
(* One reading of the account configuration and what is decided from it:   *)
(* which file (account_config._env_file), its bytes, its values over those *)
(* of the process (account_snapshot.read_snapshot), and the reload they    *)
(* are for (connection.refresh_accounts) as far as it depends on them.     *)
(* AccountReload takes this reading as one step and follows the clients.   *)
(*                                                                         *)
(* Abstractions.  A file is a map from labels to sessions; its fingerprint *)
(* is the file.  A client is the session it was built from, and every one  *)
(* that a reload builds is admitted.  Names written in two ways, proxies   *)
(* and interpolation are left out.                                         *)
(***************************************************************************)
EXTENDS Integers, FiniteSets

CONSTANTS Label, Session, NoSession,
  MaxEdits  \* times the file is changed

AccountSnapshotAssumption ==
  /\ NoSession \notin Session /\ MaxEdits \in Nat

VARIABLES
  kind,     \* of the file: whole, garbled, locked, gone
  rows,     \* what it says; of a garbled file, the lines that still parse
  process,  \* PROCESS_ACCOUNT_VARS: what the environment said before dotenv
  accepted, \* whether the file was read once (_accepted_path)
  stamp, digests, serving, \* _env_stamp, _env_digests, the clients
  reading,  \* how far a reload is with the file
  edits

accountSnapshotVars == <<kind, rows, process, accepted, stamp, digests, serving, reading, edits>>

Rows == [Label -> Session \cup {NoSession}]
Empty == [l \in Label |-> NoSession]
Resting == [at |-> "none", found |-> Empty, held |-> FALSE, of |-> "gone"]

(* File first, process last.                                               *)
Merged(file) == [l \in Label |-> IF process[l] # NoSession THEN process[l] ELSE file[l]]
Usable(env) ==
  /\ env # Empty
  /\ \A k, l \in Label : k # l /\ env[k] # NoSession => env[k] # env[l]

TypeOK ==
  /\ kind \in {"whole", "garbled", "locked", "gone"} /\ {rows, process, digests, serving} \subseteq Rows
  /\ accepted \in BOOLEAN /\ stamp \in Rows \cup {<<>>} /\ edits \in 0..MaxEdits
  /\ reading.at \in {"none", "found", "read"} /\ reading.found \in Rows

(* The process starts from a file it can read, or from none.               *)
Init ==
  /\ kind \in {"whole", "gone"} /\ rows \in Rows /\ (kind = "gone" => rows = Empty)
  /\ process \in Rows /\ Usable(Merged(rows))
  /\ accepted = (kind = "whole") /\ stamp = (IF kind = "gone" THEN <<>> ELSE rows)
  /\ digests = Merged(rows) /\ serving = Merged(rows) /\ reading = Resting /\ edits = 0

----------------------------------------------------------------------------
(* Definitions whose name says what they get wrong are defects the checks  *)
(* must notice; no action uses them.                                       *)

Served == <<stamp, digests, serving>>

(* The tools replace the file whole; an editor may write it bit by bit, or *)
(* remove it before it writes the new one.                                 *)
Changes(what) ==
  /\ edits < MaxEdits /\ edits' = edits + 1 /\ kind' = what
  /\ UNCHANGED <<process, accepted, Served, reading>>
Replace == rows' \in Rows \ {rows} /\ Changes("whole")
Spoil ==
  /\ kind = "whole" /\ Changes("garbled")
  /\ rows' \in {r \in Rows : \A l \in Label : r[l] \in {rows[l], NoSession}}
Lock == kind = "whole" /\ Changes("locked") /\ UNCHANGED rows
Vanish == kind # "gone" /\ rows' = Empty /\ Changes("gone")

(* find_dotenv() names only a file that is there.                          *)
Finds ==
  /\ reading.at = "none" /\ reading' = [Resting EXCEPT !.at = "found", !.held = kind # "gone"]
  /\ UNCHANGED <<kind, rows, process, accepted, Served, edits>>

(* A file that is there and cannot be read, or was read and is lost, is a  *)
(* revision nothing is decided from.                                       *)
Refuses ==
  /\ reading.at = "found" /\ reading.held
  /\ kind \in {"garbled", "locked"} \/ (kind = "gone" /\ accepted)
  /\ reading' = Resting /\ accepted' = (accepted \/ kind = "garbled")
  /\ UNCHANGED <<kind, rows, process, Served, edits>>
Absent == ~reading.held \/ (kind = "gone" /\ ~accepted)

OnlyWhole == {"whole"}
ThePartThatParses == {"whole", "garbled"}
Understood == OnlyWhole

Reads ==
  /\ reading.at = "found" /\ (Absent \/ kind \in Understood)
  /\ reading' = [reading EXCEPT !.at = "read", !.held = ~Absent, !.of = IF Absent THEN "gone" ELSE kind, !.found = IF Absent THEN Empty ELSE rows]
  /\ accepted' = (accepted \/ ~Absent)
  /\ UNCHANGED <<kind, rows, process, Served, edits>>

TheBytesThatWereRead == Merged(reading.found)
ASecondReading == Merged(rows)
Values == TheBytesThatWereRead

FromThe(file) == IF reading.held THEN file ELSE <<>>

(* Nothing new; the file moved but no account did; a set of accounts that  *)
(* cannot be served is seen and not applied; and the rest is applied.      *)
Decides ==
  /\ reading.at = "read" /\ reading' = Resting /\ stamp' = FromThe(reading.found)
  /\ IF stamp' = stamp \/ Values = digests \/ ~Usable(Values)
     THEN UNCHANGED <<digests, serving>>
     ELSE digests' = Values /\ serving' = Values
  /\ UNCHANGED <<kind, rows, process, accepted, edits>>

Next == Replace \/ Spoil \/ Lock \/ Vanish \/ Finds \/ Refuses \/ Reads \/ Decides

Spec == Init /\ [][Next]_accountSnapshotVars

----------------------------------------------------------------------------
(* What was seen is what is served: the fingerprint of a revision is never *)
(* recorded beside the accounts of another one (account_snapshot.py, the   *)
(* three readings that were).                                              *)
SeenIsServed ==
  stamp # <<>> /\ Usable(Merged(stamp)) => serving = Merged(stamp)

(* An account goes only when a file that can be read has no line of it:    *)
(* not with a file that is garbled or locked (_read_file_bytes); one that  *)
(* is gone is the case of GoneIsNotAbsent.                                 *)
Lost(l) == serving[l] # NoSession /\ serving'[l] = NoSession
AccountsGoWithTheirLine ==
  [][\A l \in Label : Lost(l) => reading.of \in {"whole", "gone"} /\ reading.found[l] = NoSession]_accountSnapshotVars

(* Of a file that was read no reading goes on as if there were none        *)
(* ("GONE, not absent", _read_file_bytes).                                 *)
GoneIsNotAbsent == accepted /\ reading.at = "read" => reading.held

----------------------------------------------------------------------------
(* What a reload compares with is what serves, and what it decides from    *)
(* was read of a file that is whole, or of none.                           *)
Inv ==
  /\ serving = digests /\ SeenIsServed
  /\ reading.at = "read" => reading.of \in {"whole", "gone"}
=============================================================================

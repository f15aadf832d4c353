----------------------------- MODULE AccountFile -----------------------------
(***************************************************************************)
(* The accounts of .env as the two tools beside the server edit them: the  *)
(* account manager (Manage-Accounts.ps1, account-manager/EnvFile.ps1 and   *)
(* FileSafety.ps1) and the session generator (session_string_generator.py),*)
(* with the backups both leave, and the secret-chat keys the server keeps  *)
(* under the label of an account.                                          *)
(*                                                                         *)
(* Abstractions.  A session stands for the person who is logged in by it.  *)
(* Of the file only the lines of the accounts are kept, one for a label.   *)
(* What the user is asked on the way is a tool that may stop anywhere.     *)
(***************************************************************************)
EXTENDS FiniteSets, Integers, FiniteSetsExt

CONSTANTS
  Tool,     \* among "manager" and "generator"
  Label, Session, NoSession,
  Keep,     \* ENV_BACKUP_RETENTION, of each tool
  MaxTime,  \* seconds of the clock
  MaxEdits, PerSecond, \* edits, and backups taken in one second
  Overlap,  \* whether both tools may edit at a time
  Backwards \* whether the clock may be set back

AccountFileAssumption ==
  /\ Tool \subseteq {"manager", "generator"} /\ NoSession \notin Session
  /\ Keep \in [Tool -> Nat \ {0}] /\ {MaxTime, MaxEdits, PerSecond} \subseteq Nat /\ {Overlap, Backwards} \subseteq BOOLEAN

VARIABLES
  env,      \* the session of each label
  backups,  \* [second, turn, copy]: turn tells two of a second apart
  keys,     \* whose secret chats are kept under each label
  open,     \* for whom the server has them open
  time,
  edits,    \* how many edits were started
  hurry,    \* how many backups were taken in this second
  edit      \* what each tool is doing

accountFileVars == <<env, backups, keys, open, time, edits, hurry, edit>>

File == [Label -> Session \cup {NoSession}]
Kinds == {"none", "add", "remove", "rename"}
NoBackup == [second |-> -1, turn |-> 0]
Idle == [kind |-> "none", at |-> "idle", label |-> "", to |-> "", session |-> NoSession,
         lines |-> <<>>, before |-> <<>>, backup |-> NoBackup, number |-> 0]

Resting == {"idle", "done", "failed"}
Working == {"asked", "backed", "read", "cleared"}
Backup == [second : 0..MaxTime, turn : Nat, copy : File]
Edit == [kind : Kinds, at : Resting \cup Working, label : Label \cup {""}, to : Label \cup {""},
         session : Session \cup {NoSession}, lines : File \cup {<<>>}, before : File \cup {<<>>},
         backup : [second : 0..MaxTime, turn : Nat] \cup {NoBackup}, number : 0..MaxEdits]

TypeOK ==
  /\ env \in File /\ keys \in File /\ open \in File /\ time \in 0..MaxTime /\ edits \in 0..MaxEdits /\ hurry \in 0..PerSecond
  /\ IsFiniteSet(backups) /\ backups \subseteq Backup
  /\ edit \in [Tool -> Edit]

Init ==
  /\ env = [l \in Label |-> NoSession] /\ backups = {} /\ time = 0 /\ edits = 0 /\ hurry = 0
  /\ keys = env /\ open = env /\ edit = [t \in Tool |-> Idle]

----------------------------------------------------------------------------
(* Definitions whose name says what they get wrong are defects the checks  *)
(* must notice; no action uses them.                                       *)

Disk == <<env, backups>>
Server == <<keys, open>>
Goes(t, record) == edit' = [edit EXCEPT ![t] = record]

Begins(t, record) ==
  /\ edits < MaxEdits /\ edits' = edits + 1 /\ edit[t].at \in Resting
  /\ Overlap \/ \A u \in Tool : edit[u].at \in Resting
  /\ Goes(t, [record EXCEPT !.at = "asked", !.number = edits + 1])
  /\ UNCHANGED <<Disk, Server, time, hurry>>

(* A login is of somebody no other label has; both tools may replace what  *)
(* a label has (Add-Account, write_env_value).                             *)
Add(t, l, s) ==
  /\ \A other \in Label \ {l} : env[other] # s
  /\ Begins(t, [Idle EXCEPT !.kind = "add", !.label = l, !.session = s])
Remove(l) ==
  /\ "manager" \in Tool /\ env[l] # NoSession
  /\ Begins("manager", [Idle EXCEPT !.kind = "remove", !.label = l])
Rename(l, to) ==
  /\ "manager" \in Tool /\ env[l] # NoSession /\ env[to] = NoSession
  /\ Begins("manager", [Idle EXCEPT !.kind = "rename", !.label = l, !.to = to])

(* A backup takes the second's first free name.                            *)
FreeTurn == Min({n \in 0..Cardinality(backups) : \A b \in backups : b.second = time => b.turn # n})
Earlier(a, b) == a.second < b.second \/ (a.second = b.second /\ a.turn < b.turn)

(* The names are in the order of the moments they were taken at.           *)
NewestOf(all, n) == {b \in all : Cardinality({c \in all : Earlier(b, c)}) < n}
OldestOf(all, n) == {b \in all : Cardinality({c \in all : Earlier(c, b)}) < n}
Kept(all, n) == NewestOf(all, n)

BackUp(t) ==
  /\ edit[t].at = "asked" /\ hurry < PerSecond /\ hurry' = hurry + 1
  /\ LET taken == [second |-> time, turn |-> FreeTurn, copy |-> env] IN
       /\ backups' = IF t = "manager" THEN Kept(backups \cup {taken}, Keep[t]) ELSE backups \cup {taken}
       /\ Goes(t, [edit[t] EXCEPT !.at = "backed", !.backup = [second |-> time, turn |-> taken.turn]])
  /\ UNCHANGED <<env, Server, time, edits>>
ReadLines(t) ==
  /\ edit[t].at = "backed" /\ Goes(t, [edit[t] EXCEPT !.at = "read", !.lines = env])
  /\ UNCHANGED <<Disk, Server, time, edits, hurry>>

(* One pass and one write, whatever the edit (Rename-EnvKey).              *)
InOnePass(e) ==
  CASE e.kind = "add"    -> [e.lines EXCEPT ![e.label] = e.session]
    [] e.kind = "remove" -> [e.lines EXCEPT ![e.label] = NoSession]
    [] e.kind = "rename" -> [e.lines EXCEPT ![e.label] = NoSession, ![e.to] = e.lines[e.label]]
RemovesFirst(e) ==
  IF e.kind = "rename" THEN [e.lines EXCEPT ![e.label] = NoSession] ELSE InOnePass(e)
Written(e) == InOnePass(e)

Write(t) ==
  /\ edit[t].at = "read"
  /\ env' = Written(edit[t])
  /\ Goes(t, [edit[t] EXCEPT !.at = "cleared", !.before = env])
  /\ UNCHANGED <<backups, Server, time, edits, hurry>>
WriteFails(t) ==
  /\ edit[t].at \in {"asked", "backed", "read"} /\ Goes(t, [edit[t] EXCEPT !.at = "failed"])
  /\ UNCHANGED <<Disk, Server, time, edits, hurry>>

(* Remove-SecretChatKeys: best effort, the account is gone already.        *)
ClearKeys ==
  /\ "manager" \in Tool /\ edit["manager"].at = "cleared" /\ edit["manager"].kind = "remove"
  /\ \/ keys' = [keys EXCEPT ![edit["manager"].label] = NoSession]
     \/ UNCHANGED keys
  /\ Goes("manager", [edit["manager"] EXCEPT !.at = "done"])
  /\ UNCHANGED <<Disk, open, time, edits, hurry>>
Told(t) ==
  /\ edit[t].at = "cleared" /\ (t = "generator" \/ edit[t].kind # "remove")
  /\ backups' = IF t = "generator" THEN Kept(backups, Keep[t]) ELSE backups
  /\ Goes(t, [edit[t] EXCEPT !.at = "done"])
  /\ UNCHANGED <<env, Server, time, edits, hurry>>

(* The process ends: a closed window, a power cut.                         *)
Crash(t) ==
  /\ edit[t].at \notin Resting /\ Goes(t, [edit[t] EXCEPT !.at = "failed"])
  /\ UNCHANGED <<Disk, Server, time, edits, hurry>>

(* The server: one store for a label, whoever the label is; a client that  *)
(* was replaced or removed flushes what it had (_storage_for, retirement). *)
Opens(l) ==
  /\ open[l] = NoSession /\ env[l] # NoSession
  /\ open' = [open EXCEPT ![l] = env[l]]
  /\ keys' = [keys EXCEPT ![l] = IF @ = NoSession THEN env[l] ELSE @]
  /\ UNCHANGED <<Disk, time, edits, hurry, edit>>
Retires(l) ==
  /\ open[l] # NoSession /\ open[l] # env[l]
  /\ open' = [open EXCEPT ![l] = NoSession]
  /\ keys' = [keys EXCEPT ![l] = IF @ = NoSession THEN open[l] ELSE @]
  /\ UNCHANGED <<Disk, time, edits, hurry, edit>>

Tick ==
  /\ \/ time < MaxTime /\ time' = time + 1
     \/ Backwards /\ time > 0 /\ time' = time - 1
  /\ hurry' = 0
  /\ UNCHANGED <<Disk, Server, edits, edit>>

Next ==
  \/ ClearKeys \/ Tick
  \/ \E t \in Tool :
       \/ BackUp(t) \/ ReadLines(t) \/ Write(t) \/ WriteFails(t) \/ Told(t) \/ Crash(t)
       \/ \E l \in Label, s \in Session : Add(t, l, s)
  \/ \E l \in Label : Remove(l) \/ Opens(l) \/ Retires(l) \/ \E to \in Label \ {l} : Rename(l, to)

Spec == Init /\ [][Next]_accountFileVars

----------------------------------------------------------------------------
Logins == {env[l] : l \in Label} \ {NoSession}
LoginsNext == {env'[l] : l \in Label} \ {NoSession}

(* A login is lost only to an edit that removes or replaces it, wherever   *)
(* either tool is stopped.                                                 *)
LoginsStay ==
  [][\A s \in Logins \ LoginsNext :
       \E t \in Tool : edit[t].at = "read" /\ edit[t].kind \in {"add", "remove"} /\ env[edit[t].label] = s
    ]_accountFileVars

(* "Previous .env kept as": the backup that the last edit named is there,  *)
(* and is the file as it was just before that edit.                        *)
PreviousIsKept ==
  \A t \in Tool : edit[t].at = "done" /\ edit[t].number = edits
    => \E b \in backups : /\ b.second = edit[t].backup.second /\ b.turn = edit[t].backup.turn
                          /\ b.copy = edit[t].before

(* Whoever a label means now does not find the secret chats of somebody    *)
(* the label meant before (Manage-Accounts.ps1, Remove-SecretChatKeys).    *)
NewAccountStartsClean == \A l \in Label : open[l] # NoSession => keys[l] \in {NoSession, open[l]}

----------------------------------------------------------------------------
(* The invariant behind the first two, for tools that take turns, a clock  *)
(* that is not set back, and at most two backups in a second.  One tool    *)
(* works at a time, on the last edit there was.                            *)
OneEdits ==
  \A t \in Tool :
    /\ edit[t].number <= edits /\ (edit[t].at # "idle" => edit[t].number > 0)
    /\ edit[t].at \in Working => edit[t].number = edits
    /\ \A u \in Tool \ {t} : edit[t].number = edit[u].number => edit[t].number = 0

(* What it was asked still holds when it writes, and it writes what it     *)
(* read of the file as that is.                                            *)
StillAsAsked(e, file) ==
  /\ e.kind # "none" /\ e.label \in Label /\ (e.kind = "rename" => e.to \in Label \ {e.label})
  /\ e.at # "cleared" /\ e.kind = "rename" => file[e.to] = NoSession
  /\ e.at = "read" => e.lines = file

(* Nothing was taken after the backups of this second.                     *)
TakenInTime == \A b \in backups : b.second < time \/ (b.second = time /\ b.turn < hurry)

(* The last edit's backup is the newest of all.                            *)
IsNewest(b, all) == \A c \in all : ~Earlier(b, c)
IsKept(e, file, all) ==
  \E b \in all : /\ b.second = e.backup.second /\ b.turn = e.backup.turn /\ IsNewest(b, all)
                 /\ b.copy = IF e.at \in {"backed", "read"} THEN file ELSE e.before

Inv ==
  /\ TypeOK /\ OneEdits /\ TakenInTime
  /\ \A t \in Tool : edit[t].at \in Working => StillAsAsked(edit[t], env)
  /\ \A t \in Tool : edit[t].at \in {"backed", "read", "cleared", "done"} /\ edit[t].number = edits => IsKept(edit[t], env, backups)
=============================================================================

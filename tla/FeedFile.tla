------------------------------ MODULE FeedFile ------------------------------
(***************************************************************************)
(* The feed file of telegram_mcp/tools/events_store.py: a file that is     *)
(* appended to and one retained generation, kept within a size and an age  *)
(* by a pass that runs before every append, on a status call and on an     *)
(* idle consumer.                                                          *)
(*                                                                         *)
(* Abstractions.  A file is the time of its oldest record, the time of its *)
(* last append (its mtime) and a number of records; its ceiling counts     *)
(* records.  The age of the oldest record is read from the first line,     *)
(* which a write that was cut short leaves unreadable.  Any rename and any *)
(* unlink may fail.  A crash is a restart: the file stays, what the        *)
(* process remembers does not.                                             *)
(***************************************************************************)
EXTENDS Integers

CONSTANTS
  MaxSize, \* TELEGRAM_EVENT_FEED_MAX_BYTES, in records
  MaxAge,  \* TELEGRAM_EVENT_FEED_MAX_AGE_SECONDS
  MaxTime, \* bound: the clock of the model
  Faulty   \* whether renames, unlinks and writes may fail

ASSUME FeedFileAssumption ==
  /\ MaxSize \in Nat \ {0}
  /\ MaxAge \in Nat
  /\ MaxTime \in Nat
  /\ Faulty \in BOOLEAN

VARIABLES
  now,     \* time.time()
  active,  \* the feed file
  rotated, \* the retained generation
  error    \* _last_rotation_error is set

vars == <<now, active, rotated, error>>

File    == [oldest : 0..MaxTime, newest : 0..MaxTime, size : Nat, readable : BOOLEAN]
Nothing == [oldest |-> 0, newest |-> 0, size |-> 0, readable |-> TRUE]

TypeOK ==
  /\ now \in 0..MaxTime
  /\ active \in File
  /\ rotated \in File
  /\ error \in BOOLEAN

(* A file f with one more record, or with what a failed write left of one. *)
(* Definitions whose name says what they get wrong, like the first of      *)
(* these, are defects the checks must notice; no action uses them.         *)
StampsAhead(f, whole) ==
  IF f.size = 0
  THEN [oldest |-> now, newest |-> now + 1, size |-> 1, readable |-> whole]
  ELSE [f EXCEPT !.newest = now + 1, !.size = @ + 1]

With(f, whole) ==
  IF f.size = 0
  THEN [oldest |-> now, newest |-> now, size |-> 1, readable |-> whole]
  ELSE [f EXCEPT !.newest = now, !.size = @ + 1]

(* _expire_rotated(): by the last append of the generation.                *)
ExpiresByOldest(f) == IF f.size > 0 /\ now - f.oldest > MaxAge THEN {Nothing} ELSE {f}

Expiry(f) ==
  IF f.size > 0 /\ now - f.newest > MaxAge
  THEN {Nothing} \cup (IF Faulty THEN {f} ELSE {})
  ELSE {f}

TooOld(f) == f.readable /\ now - f.oldest > MaxAge
DueBySizeAlone(f) == f.size >= MaxSize
Due(f)    == f.size > 0 /\ (f.size >= MaxSize \/ TooOld(f))

(* _rotate_feed_if_needed(): what it may leave as active file, retained    *)
(* generation and rotation error.                                          *)
Kept == [active : {active}, rotated : Expiry(rotated), error : {error}]
Stuck == [active : {active}, rotated : Expiry(rotated), error : {TRUE}]
Moved == [active : {Nothing}, rotated : Expiry(active), error : {FALSE}]

Passes == IF ~Due(active) THEN Kept ELSE IF Faulty THEN Moved \cup Stuck ELSE Moved

(* FeedWriteRefused.                                                       *)
NeverRefused(p) == FALSE
Refused(p) == p.active.size >= MaxSize /\ p.error

----------------------------------------------------------------------------
(* _open_feed_append() and the write of a line.                            *)
AppendRecord ==
  \E p \in Passes :
    /\ rotated' = p.rotated /\ error' = p.error
    /\ \/ Refused(p) /\ active' = p.active
       \/ ~Refused(p) /\ active' = With(p.active, TRUE)
       \/ ~Refused(p) /\ Faulty /\ active' = With(p.active, FALSE)
    /\ UNCHANGED now

(* apply_retention(), and a file that could not be opened after the pass.  *)
Maintain ==
  \E p \in Passes :
    /\ active' = p.active /\ rotated' = p.rotated /\ error' = p.error
    /\ UNCHANGED now

Restart ==
  /\ error
  /\ error' = FALSE
  /\ UNCHANGED <<now, active, rotated>>

Tick ==
  /\ now < MaxTime
  /\ now' = now + 1
  /\ UNCHANGED <<active, rotated, error>>

Init == now = 0 /\ active = Nothing /\ rotated = Nothing /\ error = FALSE
Next == AppendRecord \/ Maintain \/ Restart \/ Tick
Spec == Init /\ [][Next]_vars

----------------------------------------------------------------------------
(* Properties. *)

(* "Roughly twice max_bytes": each generation carries at most the record   *)
(* that took it to its ceiling, though renames fail and the process comes  *)
(* back with no memory of it.                                              *)
DiskIsBounded == active.size <= MaxSize /\ rotated.size <= MaxSize

(* A feed that may not be rotated is never rotated away: what leaves the   *)
(* active file is in the retained generation, or is past the age budget to *)
(* its last record.                                                        *)
NothingRecentIsDropped ==
  [][active.size > 0 /\ active' # active /\ active'.size <= active.size =>
       \/ rotated' = active
       \/ now - active.newest > MaxAge]_vars

(* A pass leaves no record in the active file that is older than max_age,  *)
(* on an idle server too, unless its first line does not say how old it is *)
(* - and when the file could not be moved, the status tools can say so.    *)
PassLeavesNothingOld ==
  [][Maintain /\ active'.size > 0 /\ active'.readable =>
       now - active'.oldest <= MaxAge \/ error']_vars

(* "The retained generation is deleted once it is past max_age, including  *)
(* immediately after an age-triggered rotation, whose records were already *)
(* too old before they moved" (events_store.py).                           *)
AgeRotationKeepsNothing ==
  [][Maintain /\ active.size > 0 /\ active.size < MaxSize /\ active'.size = 0 =>
       rotated'.size = 0]_vars

(* Why, as an inductive invariant. *)
Inv == TypeOK /\ DiskIsBounded
=============================================================================

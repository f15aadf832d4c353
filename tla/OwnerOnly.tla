------------------------------ MODULE OwnerOnly ------------------------------
(***************************************************************************)
(* Making a directory and what is in it reachable by their owner and       *)
(* nobody else, and proving it (owner_only.py) on Windows: the list of an  *)
(* object is written whole, then read back off the object and judged.      *)
(* Windows is external: what an object may inherit goes down to what is in *)
(* it, unless that is protected, and a new object takes what its directory *)
(* passes on.                                                              *)
(*                                                                         *)
(* Abstractions.  One directory, the one it is in, and the files born in   *)
(* it.  Everybody else is one other account.  A name and a handle of an    *)
(* object are the object.                                                  *)
(***************************************************************************)
EXTENDS Integers, FiniteSets

CONSTANTS File, Dir, MaxGrants

OwnerOnlyAssumption == Dir \notin File /\ MaxGrants \in Nat

VARIABLES
  above,     \* whether the directory above lets everybody in
  list,      \* the entries of each object; Anybody where it has no list
  protected, \* the objects nothing goes down to
  born,      \* the files there are
  call,      \* the object being hardened or looked at, and how far
  answer,    \* the last answer given about each object
  grants

ownerOnlyVars == <<above, list, protected, born, call, answer, grants>>

Object == File \cup {Dir}
Entry == [who : {"me", "other", "anybody"}, allows : BOOLEAN, full : BOOLEAN, down : BOOLEAN, own : BOOLEAN]
Idle == [at |-> "none", of |-> Dir]

TypeOK ==
  /\ above \in BOOLEAN /\ born \subseteq File /\ protected \subseteq Object /\ grants \in 0..MaxGrants
  /\ list \in [Object -> SUBSET Entry]
  /\ answer \in [Object -> {"unasked", "no", "yes"}] /\ call \in [at : {"none", "write", "read"}, of : Object]

Mine == [who |-> "me", allows |-> TRUE, full |-> TRUE, down |-> FALSE, own |-> TRUE]
Others == [Mine EXCEPT !.who = "other"]
Token == {Mine, Others}
Anybody == {[Mine EXCEPT !.who = "anybody", !.full = FALSE]}

Init ==
  /\ above \in BOOLEAN /\ protected = {} /\ born = {} /\ call = Idle /\ grants = 0
  /\ list = [o \in Object |-> {[Mine EXCEPT !.down = TRUE]}] /\ answer = [o \in Object |-> "unasked"]

----------------------------------------------------------------------------
(* Definitions whose name says what they get wrong are defects the checks  *)
(* must notice; no action uses them.                                       *)

(* What goes down is marked as not the object's own.                       *)
PassedOn(entries) == {[e EXCEPT !.own = FALSE] : e \in {d \in entries : d.down}}
OwnOf(entries) == {e \in entries : e.own}
Takes(o, from) ==
  IF o \in protected \/ list[o] = Anybody THEN list[o] ELSE OwnOf(list[o]) \cup PassedOn(from)

(* The directory's list changes; what is in it follows.                    *)
Becomes(entries, guarded) ==
  /\ list' = [o \in Object |-> IF o = Dir THEN entries ELSE IF o \in born THEN Takes(o, entries) ELSE list[o]]
  /\ protected' = guarded

FromAbove == IF above THEN {[Others EXCEPT !.down = TRUE]} ELSE {}
ParentChanges ==
  /\ grants < MaxGrants /\ grants' = grants + 1 /\ above' = ~above
  /\ Becomes(Takes(Dir, IF above THEN {} ELSE {[Others EXCEPT !.down = TRUE]}), protected)
  /\ UNCHANGED <<born, call, answer>>

(* Somebody edits an object by hand; the answer about it is void, and so   *)
(* is one about a file when its directory is edited.                       *)
Voids(o) == answer' = [p \in Object |-> IF p = o \/ o = Dir THEN "unasked" ELSE answer[p]]
Edited(o) ==
  {list[o] \cup {[Others EXCEPT !.down = d]} : d \in BOOLEAN} \cup
    {Anybody, {Mine}, {[Mine EXCEPT !.allows = FALSE]}, {[Mine EXCEPT !.full = FALSE]}}
EditByHand(o) ==
  /\ grants < MaxGrants /\ grants' = grants + 1 /\ (o = Dir \/ o \in born)
  /\ \E entries \in Edited(o) :
       IF o = Dir THEN Becomes(entries, protected)
                  ELSE list' = [list EXCEPT ![o] = entries] /\ UNCHANGED protected
  /\ Voids(o) /\ UNCHANGED <<above, born, call>>

(* A new file has what its directory passes on, or what the creator's      *)
(* token says where that is nothing.                                       *)
Born(f) ==
  /\ f \notin born /\ born' = born \cup {f}
  /\ list' = [list EXCEPT ![f] = IF PassedOn(list[Dir]) = {} THEN Token ELSE PassedOn(list[Dir])]
  /\ UNCHANGED <<above, protected, call, answer, grants>>

(* restrict_to_owner_strict() writes, then asks verify_owner_only().       *)
Asks(o, at) ==
  /\ call = Idle /\ (o = Dir \/ o \in born) /\ call' = [at |-> at, of |-> o]
  /\ UNCHANGED <<above, list, protected, born, answer, grants>>
Restrict(o) == Asks(o, "write")
Verify(o) == Asks(o, "read")

TheWholeList(o) == {[Mine EXCEPT !.down = o = Dir]}
GrantsOnly(o) == {e \in list[o] : e.who # "me"} \cup TheWholeList(o)
Written(o) == TheWholeList(o)

Write ==
  /\ call.at = "write" /\ call' = [call EXCEPT !.at = "read"]
  /\ IF call.of = Dir THEN Becomes(Written(Dir), protected \cup {Dir})
     ELSE list' = [list EXCEPT ![call.of] = Written(call.of)] /\ protected' = protected \cup {call.of}
  /\ UNCHANGED <<above, born, answer, grants>>

Says(what) ==
  /\ call' = Idle /\ answer' = [answer EXCEPT ![call.of] = what]
  /\ UNCHANGED <<above, list, protected, born, grants>>
WriteFails == call.at = "write" /\ Says("no")
ReadFails == call.at = "read" /\ Says("no")

(* One entry, of the owner, that allows everything; a directory has it     *)
(* against what its parent grants tomorrow and passes it on.               *)
OnlyTheOwner(o) ==
  Cardinality(list[o]) = 1 /\ \A e \in list[o] : e.who = "me" /\ e.allows /\ e.full
PassesItOn(o) == \A e \in list[o] : e.down
OwnerOnly(o) == OnlyTheOwner(o) /\ (o = Dir => o \in protected /\ PassesItOn(o))
WhateverItsParent(o) == OnlyTheOwner(o) /\ (o = Dir => PassesItOn(o))
WhateverIsBornInIt(o) == OnlyTheOwner(o) /\ (o = Dir => o \in protected)
Judged(o) == OwnerOnly(o)

ReadBack == call.at = "read" /\ Says(IF Judged(call.of) THEN "yes" ELSE "no")

Next ==
  \/ ParentChanges \/ Write \/ WriteFails \/ ReadFails \/ ReadBack
  \/ \E o \in Object : EditByHand(o) \/ Restrict(o) \/ Verify(o)
  \/ \E f \in File : Born(f)

Spec == Init /\ [][Next]_ownerOnlyVars

----------------------------------------------------------------------------
(* Nobody else gets in, and the owner does.                                *)
Private(o) == /\ \A e \in list[o] : e.who = "me" /\ e.allows
              /\ \E e \in list[o] : e.full

(* What was answered "yes" for stays the owner's, usably, until somebody   *)
(* edits it by hand: a directory whatever is granted above it, and a file  *)
(* as long as its directory was answered "yes" for as well.                *)
PrivateStaysPrivate ==
  /\ answer[Dir] = "yes" => Private(Dir)
  /\ \A f \in born : answer[f] = "yes" /\ (f \in protected \/ answer[Dir] = "yes") => Private(f)

(* What is born in such a directory is the owner's from its first byte.    *)
BornPrivate ==
  [][\A f \in born' \ born : answer[Dir] = "yes" => Private(f)']_ownerOnlyVars

----------------------------------------------------------------------------
(* The invariant behind both.  A directory that was answered for is        *)
(* protected and passes on what its owner needs, and nothing else.         *)
DirIsSealed ==
  answer[Dir] = "yes" =>
    /\ Dir \in protected /\ list[Dir] # {}
    /\ \A e \in list[Dir] : e.who = "me" /\ e.allows /\ e.full /\ e.down

(* What a file has besides its own is what its directory passes on now, or *)
(* somebody took that away.                                                *)
FilesFollowTheirDir ==
  \A f \in born \ protected : list[f] \ OwnOf(list[f]) \in {{}, PassedOn(list[Dir])}

(* A file that was answered for has kept what is its own, and enough, by   *)
(* itself or by what goes down to it.                                      *)
AnsweredFilesKeepTheirOwn ==
  \A f \in born : answer[f] = "yes" =>
    /\ f \in protected => Private(f)
    /\ f \notin protected =>
         /\ \A e \in OwnOf(list[f]) : e.who = "me" /\ e.allows
         /\ (\E e \in OwnOf(list[f]) : e.full) \/ PassedOn(list[Dir]) \subseteq list[f]

OnlyWhatIsThereIsAnsweredFor ==
  call.of \in born \cup {Dir} /\ \A f \in File \ born : answer[f] # "yes"

Inv ==
  /\ TypeOK /\ OnlyWhatIsThereIsAnsweredFor
  /\ DirIsSealed /\ FilesFollowTheirDir /\ AnsweredFilesKeepTheirOwn
=============================================================================

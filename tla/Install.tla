------------------------------- MODULE Install -------------------------------
(* Saving media into an allowed folder: download_media() stages the bytes in  *)
(* a private directory, save_disappearing_media() in a sibling of its target, *)
(* and both publish them through DirHandle (handles.py): a name is reserved   *)
(* with an empty placeholder, which install() exchanges for the staged file   *)
(* and discard() takes away when that fails.  A host with openat tests a name *)
(* and then acts on it; a host that pins directories acts on the handle of    *)
(* the object it tested.  From the test of what was staged a call runs        *)
(* without an await.  The folder is also its owner's, who puts files into it  *)
(* and takes entries out while the calls run.                                 *)
EXTENDS Naturals

CONSTANTS Call,         \* calls of one process that save; each runs once
          NameAttempts, \* NAME_ATTEMPTS: the names a call tries in turn
          MaxFiles,     \* bound: files the owner puts into the folder
          Host          \* what the systems it runs on offer: "openat", "pins"

None == "none"

InstallAssumption ==
  /\ NameAttempts \in Nat \ {0} /\ MaxFiles \in Nat
  /\ Host \subseteq {"openat", "pins"} /\ {None, "owner"} \cap Call = {}

VARIABLES host,    \* how this system holds a directory
          folder,  \* name -> the object it names
          files,   \* files the owner has put so far
          saving,  \* call -> where it stands, the name it holds, what it recorded as made there
          between, \* ghost: files put under a name between a call's test of it and its act
          lost     \* ghost: files of the owner that a call replaced or removed

installVars == <<host, folder, files, saving, between, lost>>

Name == 1..NameAttempts
File(n) == [by |-> "owner", is |-> "file", nth |-> n]
Placeholder(c) == [by |-> c, is |-> "placeholder"]
Media(c) == [by |-> c, is |-> "media"]
Object == {File(n) : n \in 1..MaxFiles} \cup {Placeholder(c) : c \in Call} \cup {Media(c) : c \in Call}
Nothing == [by |-> None, is |-> None]

Asked == [op |-> None, pc |-> "asked", name |-> 1, made |-> Nothing, staged |-> Nothing, told |-> None]

Saving ==
  [op : {None, "download", "disappearing"},
   pc : {"asked", "fetching", "verifying", "reserving", "installing", "moving", "discarding", "removing",
         "cleaning", "done"},
   name : 1..(NameAttempts + 1), made : Object \cup {Nothing}, staged : Object \cup {Nothing},
   told : {None, "saved", "failed"}]

TypeOK ==
  /\ host \in Host /\ files \in 0..MaxFiles
  /\ folder \in [Name -> Object \cup {Nothing}]
  /\ saving \in [Call -> Saving]
  /\ between \subseteq Object /\ lost \subseteq Object

Init ==
  /\ host \in Host /\ files = 0
  /\ folder = [name \in Name |-> Nothing]
  /\ saving = [c \in Call |-> Asked]
  /\ between = {} /\ lost = {}

Free(name) == folder[name] = Nothing
Owners(object) == IF object.by = "owner" THEN {object} ELSE {}

--------------------------------------------------------------------------------
\* The owner of the folder, by other programs, at any time.

\* A call has tested the name, or the entry it may delete, and not acted yet; on a
\* host that pins it no longer answers for the name it freed.
Tested(c) == \/ saving[c].pc \in {"moving", "removing"}
             \/ saving[c].pc = "discarding" /\ saving[c].made = Nothing

PutFile(name) ==
  /\ files < MaxFiles
  /\ folder' = [folder EXCEPT ![name] = File(files + 1)]
  /\ files' = files + 1
  /\ between' = IF \E c \in Call : Tested(c) /\ saving[c].name = name THEN between \cup {File(files + 1)} ELSE between
  /\ UNCHANGED <<host, saving, lost>>

TakeEntry(name) ==
  /\ ~Free(name)
  /\ folder' = [folder EXCEPT ![name] = Nothing]
  /\ UNCHANGED <<host, files, saving, between, lost>>

--------------------------------------------------------------------------------
\* A call, one system call at a time.

Becomes(c, record) == saving' = [saving EXCEPT ![c] = record]
Quiet(c, record) == Becomes(c, record) /\ UNCHANGED <<host, folder, files, between, lost>>
Goes(c, pc) == Quiet(c, [saving[c] EXCEPT !.pc = pc])
Failed(c) == [saving[c] EXCEPT !.pc = "cleaning", !.told = "failed"]
Fails(c) == Quiet(c, Failed(c))

\* The directory is opened and, for a download, a private one made inside it.
Open(c, op) ==
  /\ saving[c].pc = "asked"
  /\ Quiet(c, [saving[c] EXCEPT !.op = op, !.pc = "fetching"])

\* What Telegram delivers: everything, nothing, or more than the cap.
Fetch(c) ==
  /\ saving[c].pc = "fetching"
  /\ \/ Quiet(c, [saving[c] EXCEPT !.pc = "verifying", !.staged = Media(c)])
     \/ Fails(c)

\* open_verified_file() and sync_child() of what was staged.
Idle == {"asked", "fetching", "verifying", "done"}

Verify(c) ==
  /\ saving[c].pc = "verifying" /\ \A other \in Call : saving[other].pc \in Idle
  /\ \/ Goes(c, "reserving")
     \/ Fails(c)

\* create_exclusive(): O_EXCL, so the name was free.
Reserve(c) ==
  LET name == saving[c].name IN
  /\ saving[c].pc = "reserving"
  /\ IF name > NameAttempts THEN Fails(c)
     ELSE IF ~Free(name) THEN Quiet(c, [saving[c] EXCEPT !.name = name + 1])
     ELSE /\ folder' = [folder EXCEPT ![name] = Placeholder(c)]
          /\ Becomes(c, [saving[c] EXCEPT !.pc = "installing", !.made = Placeholder(c)])
          /\ UNCHANGED <<host, files, between, lost>>

\* write_file_durably() writes its sibling after the reservation: it may fail too.
KeepsTheName(c) ==
  /\ saving[c].pc = "installing" /\ saving[c].op = "disappearing"
  /\ Fails(c)

FlushFails(c) ==
  /\ saving[c].pc = "installing" /\ saving[c].op = "disappearing"
  /\ Goes(c, "discarding")

Forgets(record) == [record EXCEPT !.made = Nothing] \* _made.pop(): the name is no longer the call's

\* install(), up to its test of the name: a host that pins deletes the
\* placeholder through the handle it tested, and forgets that it made it.
StillItsOwn(c) == folder[saving[c].name] = saving[c].made

Test(c) ==
  LET name == saving[c].name IN
  /\ saving[c].pc = "installing"
  /\ IF ~StillItsOwn(c) THEN Goes(c, "discarding")
     ELSE IF host = "openat" THEN Goes(c, "moving")
     ELSE /\ folder' = [folder EXCEPT ![name] = Nothing]
          /\ Becomes(c, Forgets([saving[c] EXCEPT !.pc = "moving"]))
          /\ UNCHANGED <<host, files, between, lost>>

\* ... and the move: renameat() takes the name whatever it names by then, the
\* rename of a handle only a name nobody wears.
Move(c) ==
  LET name == saving[c].name IN
  /\ saving[c].pc = "moving"
  /\ IF host = "pins" /\ ~Free(name) THEN Goes(c, "discarding")
     ELSE /\ folder' = [folder EXCEPT ![name] = saving[c].staged]
          /\ lost' = lost \cup Owners(folder[name])
          /\ Becomes(c, Forgets([saving[c] EXCEPT !.pc = "cleaning", !.staged = Nothing, !.told = "saved"]))
          /\ UNCHANGED <<host, files, between>>

\* discard(): an entry goes when it is what the call recorded under that name,
\* or when it recorded nothing.  A host with openat unlinks in a second call.
AnythingThere(c) == ~Free(saving[c].name)
Discardable(c) == ~Free(saving[c].name) /\ saving[c].made \in {Nothing, folder[saving[c].name]}

Remove(c) ==
  LET name == saving[c].name IN
  /\ folder' = [folder EXCEPT ![name] = Nothing]
  /\ lost' = lost \cup Owners(folder[name])
  /\ Becomes(c, Forgets(Failed(c)))
  /\ UNCHANGED <<host, files, between>>

Discard(c) ==
  /\ saving[c].pc = "discarding"
  /\ IF ~Discardable(c) THEN Fails(c)
     ELSE IF host = "openat" THEN Goes(c, "removing")
     ELSE Remove(c)

Unlink(c) ==
  /\ saving[c].pc = "removing"
  /\ IF Free(saving[c].name) THEN Fails(c) ELSE Remove(c)

\* remove_tree() and remove_self(), or the discard of the sibling.
Clean(c) ==
  /\ saving[c].pc = "cleaning"
  /\ Quiet(c, [saving[c] EXCEPT !.pc = "done", !.staged = Nothing])

Next ==
  \/ \E name \in Name : PutFile(name) \/ TakeEntry(name)
  \/ \E c \in Call, op \in {"download", "disappearing"} : Open(c, op)
  \/ \E c \in Call : \/ Fetch(c) \/ Verify(c) \/ Reserve(c) \/ FlushFails(c) \/ Test(c)
                     \/ Move(c) \/ Discard(c) \/ Unlink(c) \/ Clean(c)

Spec == Init /\ [][Next]_installVars

--------------------------------------------------------------------------------
\* A file that was put into the folder by others is replaced or deleted in one
\* case only: it was put there under the name a call had just tested.
StrangersKeepTheirFiles == lost \subseteq between

\* A call that has returned left no placeholder, and what it said it saved it
\* published whole: no name it held shows an empty file.
NoPlaceholderOutlivesItsCall ==
  \A c \in Call : saving[c].pc \in {"cleaning", "done"} =>
    \A name \in Name : folder[name] # Placeholder(c)

\* "Publishing over a name that has since been given to somebody else's file is
\* not an install" (handles.py:496): with openat the test and the move are two
\* calls; where directories are pinned, the move fails and discard() then deletes
\* what it finds, since the call has forgotten what it made there.
NothingOfOthersIsLost == lost = {}

--------------------------------------------------------------------------------
\* The invariant behind the first two.  From its test on a call is the only one at
\* work; what is under the name it holds is its own, or nothing, or was put there
\* between; and no placeholder is anywhere but under the name a call still answers for.
Working == {"reserving", "installing", "moving", "discarding", "removing"}
Holding == Working \ {"reserving"}

OneWorks == \A c, d \in Call : saving[c].pc \in Working /\ saving[d].pc \in Working => c = d

HoldsItsOwn(c) ==
  /\ saving[c].pc \in Holding => saving[c].name \in Name
  /\ saving[c].pc \in Working \cup {"verifying"} => saving[c].staged = Media(c)
  /\ saving[c].pc \in {"installing", "removing"} \/ (saving[c].pc \in {"moving", "discarding"} /\ host = "openat")
        => saving[c].made = Placeholder(c)
  /\ saving[c].pc = "moving" /\ host # "openat" => saving[c].made = Nothing
  /\ saving[c].pc = "discarding" => saving[c].made \in {Placeholder(c), Nothing}
  /\ Tested(c) => Owners(folder[saving[c].name]) \subseteq between

PlaceholdersAreHeld ==
  \A c \in Call, name \in Name :
    folder[name] = Placeholder(c) =>
      saving[c].pc \in Holding /\ saving[c].name = name /\ saving[c].made = Placeholder(c)

Inv ==
  /\ TypeOK
  /\ lost \subseteq between /\ OneWorks /\ PlaceholdersAreHeld
  /\ \A c \in Call : HoldsItsOwn(c)
=============================================================================

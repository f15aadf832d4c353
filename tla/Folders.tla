------------------------------ MODULE Folders ------------------------------
(***************************************************************************)
(* The folder tools of telegram_mcp/tools/folders.py over one account's    *)
(* dialog filters (external): each tool reads every filter, rebuilds one   *)
(* from what it read and writes it whole, under a lock per folder, or for  *)
(* a new folder under the lock of the list; deleting takes no lock.        *)
(*                                                                         *)
(* Abstractions.  A folder is the number of its creation and its chats;    *)
(* pins, flags and the order of the list are left out.                     *)
(***************************************************************************)
EXTENDS Integers, TLAPS

CONSTANTS
  Caller, Chat,
  MaxFolders,   \* the limit of ten
  MaxCreations  \* bound: folders ever made

None == "none"

FoldersAssumption ==
  /\ {MaxFolders, MaxCreations} \subseteq Nat \ {0}
  /\ None \notin Caller

VARIABLES
  folders,   \* the filters by id
  creations, \* folders ever made
  holder,    \* who holds the lock of a folder, or of the list
  added,     \* chats a reply said were added, by the folder's creation
  filing     \* the calls

folderVars == <<folders, creations, holder, added, filing>>

FolderId == 2..(MaxFolders + 1)
Nobody == [made |-> 0, chats |-> {}] \* no such folder
TheList == 0                         \* the key of the lock of create_folder()
Folder == [made : 0..MaxCreations, chats : SUBSET Chat]

Call == [op : {"none", "create", "add", "remove", "delete"}, pc : {"idle", "locking", "reading", "writing"},
         id : FolderId \cup {TheList}, chats : SUBSET Chat, found : Folder,
         gone : BOOLEAN] \* whether a deletion passed what the call read
Idle == [op |-> "none", pc |-> "idle", id |-> TheList, chats |-> {}, found |-> Nobody, gone |-> FALSE]

TypeOK ==
  /\ folders \in [FolderId -> Folder]
  /\ creations \in 0..MaxCreations
  /\ holder \in [FolderId \cup {TheList} -> Caller \cup {None}]
  /\ added \subseteq (1..MaxCreations) \X Chat
  /\ filing \in [Caller -> Call]

Init ==
  /\ folders = [id \in FolderId |-> Nobody]
  /\ creations = 0
  /\ holder = [key \in FolderId \cup {TheList} |-> None]
  /\ added = {}
  /\ filing = [c \in Caller |-> Idle]

----------------------------------------------------------------------------
(* Definitions whose name says what they get wrong are defects the checks  *)
(* must notice; no action uses them.                                       *)

Begin(c, op, id, chats) ==
  /\ filing[c].pc = "idle"
  /\ filing' = [filing EXCEPT ![c] =
       [Idle EXCEPT !.op = op, !.id = id, !.chats = chats,
                    !.pc = IF op = "delete" THEN "reading" ELSE "locking"]]
  /\ UNCHANGED <<folders, creations, holder, added>>

CreateFolder(c, chats) == Begin(c, "create", TheList, chats)
AddChatToFolder(c, id, chat) == Begin(c, "add", id, {chat})
RemoveChatFromFolder(c, id, chat) == Begin(c, "remove", id, {chat})
DeleteFolder(c, id) == Begin(c, "delete", id, {})

(* _folder_lock(): create_folder() contends for the list.                  *)
LockKey(c) == IF filing[c].op = "create" THEN TheList ELSE filing[c].id

NoLock(c) == TRUE
LockIsFree(c) == holder[LockKey(c)] = None
Release(c) == holder' = [key \in DOMAIN holder |-> IF holder[key] = c THEN None ELSE holder[key]]

Enter(c) ==
  /\ filing[c].pc = "locking" /\ LockIsFree(c)
  /\ holder' = [holder EXCEPT ![LockKey(c)] = c]
  /\ filing' = [filing EXCEPT ![c].pc = "reading"]
  /\ UNCHANGED <<folders, creations, added>>

Ends(c) == filing' = [filing EXCEPT ![c] = Idle] /\ Release(c)

Exists(id) == folders[id] # Nobody
FreeIds == {id \in FolderId : ~Exists(id)}

(* GetDialogFilters: nothing to do, or what will be written is known.      *)
NothingToDo(c) ==
  LET call == filing[c]
  IN CASE call.op = "create" -> FreeIds = {}
       [] call.op = "add"    -> ~Exists(call.id) \/ call.chats \subseteq folders[call.id].chats
       [] call.op = "remove" -> ~Exists(call.id) \/ call.chats \cap folders[call.id].chats = {}
       [] call.op = "delete" -> ~Exists(call.id)

(* A new folder gets the least id that is free.                            *)
Targets(c) == IF filing[c].op = "create" THEN {id \in FreeIds : \A other \in FreeIds : id <= other}
              ELSE {filing[c].id}

Read(c) ==
  /\ filing[c].pc = "reading"
  /\ IF NothingToDo(c) THEN Ends(c)
     ELSE /\ \E id \in Targets(c) :
               filing' = [filing EXCEPT ![c] = [@ EXCEPT !.pc = "writing", !.id = id, !.found = folders[id]]]
          /\ UNCHANGED holder
  /\ UNCHANGED <<folders, creations, added>>

(* UpdateDialogFilter: the filter is replaced whole.                       *)
Rebuilt(c) ==
  LET call == filing[c]
  IN CASE call.op = "create" -> [made |-> creations + 1, chats |-> call.chats]
       [] call.op = "add"    -> [call.found EXCEPT !.chats = @ \cup call.chats]
       [] call.op = "remove" -> [call.found EXCEPT !.chats = @ \ call.chats]
       [] call.op = "delete" -> Nobody

(* A deletion, which takes no lock, makes stale what others read of the    *)
(* folder, and so does a write that brings such a folder back.             *)
Passes(c, o) ==
  /\ filing[c].op = "delete" \/ filing[c].gone
  /\ filing[o].pc = "writing" /\ filing[o].id = filing[c].id

Write(c) ==
  /\ filing[c].pc = "writing"
  /\ filing[c].op = "create" => creations < MaxCreations
  /\ folders' = [folders EXCEPT ![filing[c].id] = Rebuilt(c)]
  /\ creations' = IF filing[c].op = "create" THEN creations + 1 ELSE creations
  /\ added' = LET named == {filing[c].found.made} \X filing[c].chats
              IN CASE filing[c].op = "add" -> added \cup named
                   [] filing[c].op = "remove" -> added \ named
                   [] OTHER -> added
  /\ filing' = [o \in Caller |-> IF o = c THEN Idle
                                 ELSE [filing[o] EXCEPT !.gone = @ \/ Passes(c, o)]]
  /\ Release(c)

(* A chat that does not resolve, a request that raises, a budget that ends. *)
Fails(c) ==
  /\ filing[c].pc \in {"locking", "reading", "writing"}
  /\ Ends(c)
  /\ UNCHANGED <<folders, creations, added>>

Next ==
  \E c \in Caller :
    \/ \E chats \in SUBSET Chat : CreateFolder(c, chats)
    \/ \E id \in FolderId, chat \in Chat :
         AddChatToFolder(c, id, chat) \/ RemoveChatFromFolder(c, id, chat)
    \/ \E id \in FolderId : DeleteFolder(c, id)
    \/ Enter(c) \/ Read(c) \/ Write(c) \/ Fails(c)

Spec == Init /\ [][Next]_folderVars

----------------------------------------------------------------------------
(* A chat a reply said was added is in its folder until a reply said it    *)
(* was removed, or the folder is gone: no write drops another's.           *)
AddedChatsStay ==
  \A id \in FolderId : \A a \in added : a[1] = folders[id].made => a[2] \in folders[id].chats

(* Of the folder with this id: it stays itself, is deleted, or is new.     *)
IsKept(id) == folders'[id].made \in {folders[id].made, 0} \/ (~Exists(id) /\ creations' > creations)

(* A folder is written over by another, or brought back, by a call only    *)
(* whose folder was deleted after it had read the filters.                 *)
FoldersKeepTheirIdentity ==
  [][\A id \in FolderId :
       \/ IsKept(id)
       \/ \E c \in Caller : filing[c].gone /\ filing[c].id = id /\ filing'[c] = Idle]_folderVars

(* What the comment on _folder_locks claims of every write; a deletion     *)
(* between the read and the write of another call breaks it.               *)
DeletedFoldersStayGone == [][\A id \in FolderId : IsKept(id)]_folderVars

----------------------------------------------------------------------------
(* Proofs about Folders for any number of calls, folders and chats: what a *)
(* call read under its lock is what it writes over, unless a deletion,     *)
(* which takes no lock, passed it; even then the folder that is written    *)
(* has every chat a reply said was added to it.                            *)

(* What a call read is still there when it writes.  The lock of a folder   *)
(* keeps other additions and removals away, the lock of the list keeps     *)
(* other creations away, and ids that are free are only taken by those.    *)
HoldsItsLock(c) == filing[c].op # "delete" => holder[LockKey(c)] = c
Rebuilds(c) == filing[c].pc = "writing" /\ filing[c].op \in {"add", "remove"}
ReadIsCurrent(c) ==
  /\ filing[c].id \in FolderId
  /\ filing[c].op = "create" => filing[c].gone \/ folders[filing[c].id] = Nobody
  /\ filing[c].op \in {"add", "remove"} =>
       /\ filing[c].found # Nobody
       /\ filing[c].gone \/ filing[c].found = folders[filing[c].id]

CallsAreInOrder ==
  \A c \in Caller :
    /\ filing[c].pc = "idle" <=> filing[c].op = "none"
    /\ filing[c].op \in {"add", "remove", "delete"} => filing[c].id \in FolderId
    /\ filing[c].pc \in {"reading", "writing"} => HoldsItsLock(c)
    /\ filing[c].pc = "writing" => ReadIsCurrent(c)

(* A creation has one number, which no folder, no call and no reply had    *)
(* before, and one id, also in what calls have read.                       *)
CreationsAreNumbered ==
  /\ \A id \in FolderId : folders[id] # Nobody => folders[id].made \in 1..creations
  /\ \A c \in Caller : Rebuilds(c) => filing[c].found.made \in 1..creations
  /\ \A id, other \in FolderId :
       folders[id] # Nobody /\ folders[other] # Nobody /\ folders[id].made = folders[other].made => id = other
  /\ \A c \in Caller, id \in FolderId :
       Rebuilds(c) /\ folders[id] # Nobody /\ folders[id].made = filing[c].found.made => id = filing[c].id
  /\ \A c, o \in Caller :
       Rebuilds(c) /\ Rebuilds(o) /\ filing[c].found.made = filing[o].found.made => filing[c].id = filing[o].id
  /\ \A a \in added : a[1] \in 1..creations

(* What a call read has every chat a reply said was added to it.           *)
FoundAreWhole ==
  \A c \in Caller : Rebuilds(c) =>
    \A a \in added : a[1] = filing[c].found.made => a[2] \in filing[c].found.chats

Inv == TypeOK /\ CallsAreInOrder /\ CreationsAreNumbered /\ FoundAreWhole /\ AddedChatsStay

(* Every call begins alike.                                                *)
Asks(c) ==
  \/ \E chats \in SUBSET Chat : CreateFolder(c, chats)
  \/ \E id \in FolderId, chat \in Chat :
       AddChatToFolder(c, id, chat) \/ RemoveChatFromFolder(c, id, chat)
  \/ \E id \in FolderId : DeleteFolder(c, id)

LEMMA CallsBegin ==
  ASSUME NEW c \in Caller, Asks(c)
  PROVE  \E op \in {"create", "add", "remove", "delete"}, id \in FolderId \cup {TheList}, named \in SUBSET Chat :
           Begin(c, op, id, named) /\ (op # "create" => id \in FolderId)
<1>1. CASE \E chats \in SUBSET Chat : CreateFolder(c, chats)
  BY <1>1 DEF CreateFolder
<1>2. ASSUME NEW id \in FolderId, NEW chat \in Chat,
             AddChatToFolder(c, id, chat) \/ RemoveChatFromFolder(c, id, chat)
      PROVE  Begin(c, "add", id, {chat}) \/ Begin(c, "remove", id, {chat})
  BY <1>2 DEF AddChatToFolder, RemoveChatFromFolder
<1>3. ASSUME NEW id \in FolderId, DeleteFolder(c, id) PROVE Begin(c, "delete", id, {})
  BY <1>3 DEF DeleteFolder
<1>4. CASE \E id \in FolderId, chat \in Chat : AddChatToFolder(c, id, chat) \/ RemoveChatFromFolder(c, id, chat)
  <2>1. PICK id \in FolderId, chat \in Chat : Begin(c, "add", id, {chat}) \/ Begin(c, "remove", id, {chat})
    BY <1>2, <1>4
  <2>2. {chat} \in SUBSET Chat
    OBVIOUS
  <2> QED BY <2>1, <2>2
<1>5. CASE \E id \in FolderId : DeleteFolder(c, id)
  BY <1>3, <1>5
<1> QED BY <1>1, <1>4, <1>5 DEF Asks

LEMMA TypeIsKept == 
  ASSUME FoldersAssumption, TypeOK, CallsAreInOrder, CreationsAreNumbered, [Next]_folderVars
  PROVE  TypeOK'
<1> USE DEF TypeOK
<1>0. /\ Idle \in Call /\ Nobody \in Folder /\ TheList \notin FolderId
      /\ MaxCreations \in Nat /\ creations \in Nat
  BY DEF FoldersAssumption, Idle, Call, Nobody, Folder, FolderId, TheList
<1>1. ASSUME NEW c \in Caller, NEW op \in {"create", "add", "remove", "delete"},
             NEW id \in FolderId \cup {TheList}, NEW named \in SUBSET Chat, Begin(c, op, id, named)
      PROVE  TypeOK'
  <2> DEFINE begun == [Idle EXCEPT !.op = op, !.id = id, !.chats = named,
                         !.pc = IF op = "delete" THEN "reading" ELSE "locking"]
  <2>1. begun \in Call
    BY <1>0 DEF Call
  <2>2. filing' = [filing EXCEPT ![c] = begun] /\ UNCHANGED <<folders, creations, holder, added>>
    BY <1>1 DEF Begin
  <2> HIDE DEF begun
  <2> QED BY <2>1, <2>2
<1>2. ASSUME NEW c \in Caller, Enter(c) PROVE TypeOK'
  <2>1. filing' \in [Caller -> Call]
    BY <1>2 DEF Enter, Call
  <2>2. holder' \in [FolderId \cup {TheList} -> Caller \cup {None}]
    BY <1>2 DEF Enter
  <2> QED BY <1>2, <2>1, <2>2 DEF Enter
<1>3. ASSUME NEW c \in Caller, Ends(c)
      PROVE  /\ filing' \in [Caller -> Call]
             /\ holder' \in [FolderId \cup {TheList} -> Caller \cup {None}]
  BY <1>0, <1>3 DEF Ends, Release
<1>4. ASSUME NEW c \in Caller, Read(c) PROVE TypeOK'
  <2>1. CASE NothingToDo(c)
    BY <1>3, <1>4, <2>1 DEF Read
  <2>2. CASE ~NothingToDo(c)
    <3>1. PICK id \in Targets(c) :
            filing' = [filing EXCEPT ![c] = [@ EXCEPT !.pc = "writing", !.id = id, !.found = folders[id]]]
      BY <1>4, <2>2 DEF Read
    <3>2. id \in FolderId
      BY <1>4, <3>1 DEF Targets, FreeIds, CallsAreInOrder, Read, Call
    <3> DEFINE known == [filing[c] EXCEPT !.pc = "writing", !.id = id, !.found = folders[id]]
    <3>3. known \in Call
      BY <3>2 DEF Call
    <3>4. filing' = [filing EXCEPT ![c] = known] /\ UNCHANGED <<folders, creations, holder, added>>
      BY <1>4, <2>2, <3>1 DEF Read
    <3> HIDE DEF known
    <3> QED BY <3>3, <3>4
  <2> QED BY <2>1, <2>2
<1>5. ASSUME NEW c \in Caller, Write(c) PROVE TypeOK'
  <2>1. /\ filing[c].id \in FolderId /\ filing[c].chats \subseteq Chat /\ filing[c].found \in Folder
        /\ filing[c].op \in {"create", "add", "remove", "delete"} /\ filing[c].pc = "writing"
    BY <1>5 DEF Write, CallsAreInOrder, ReadIsCurrent, Call
  <2>2. /\ filing[c].op = "create" => creations + 1 \in 0..MaxCreations
        /\ creations' \in 0..MaxCreations
    BY <1>0, <1>5 DEF Write
  <2>3. Rebuilt(c) \in Folder
    BY <1>0, <2>1, <2>2 DEF Rebuilt, Folder
  <2>4. folders' \in [FolderId -> Folder]
    BY <1>5, <2>3 DEF Write
  <2>5. filing[c].op = "add" => filing[c].found.made \in 1..MaxCreations
    BY <1>0, <2>1 DEF Rebuilds, CreationsAreNumbered
  <2>6. added' \subseteq (1..MaxCreations) \X Chat
    BY <1>5, <2>1, <2>5 DEF Write
  <2>7. ASSUME NEW o \in Caller PROVE [filing[o] EXCEPT !.gone = @ \/ Passes(c, o)] \in Call
    <3>1. (filing[o].gone \/ Passes(c, o)) \in BOOLEAN
      OBVIOUS
    <3> QED BY <3>1 DEF Call
  <2>8. filing' \in [Caller -> Call]
    BY <1>0, <1>5, <2>7 DEF Write
  <2>9. holder' \in [FolderId \cup {TheList} -> Caller \cup {None}]
    BY <1>5 DEF Write, Release
  <2> QED BY <2>2, <2>4, <2>6, <2>8, <2>9
<1>6. ASSUME NEW c \in Caller, Fails(c) PROVE TypeOK'
  BY <1>3, <1>6 DEF Fails
<1>7. CASE UNCHANGED folderVars
  BY <1>7 DEF folderVars
<1>8. ASSUME NEW c \in Caller, Asks(c) PROVE TypeOK'
  BY <1>1, <1>8, CallsBegin
<1> QED BY <1>2, <1>4, <1>5, <1>6, <1>7, <1>8 DEF Next, Asks

(* Leaving gives up the caller's own locks only.                           *)
LEMMA LeavingKeepsOrder ==
  ASSUME FoldersAssumption, TypeOK, CallsAreInOrder, NEW c \in Caller, filing'[c] = Idle, Release(c),
         \A o \in Caller \ {c} : /\ filing'[o].op = filing[o].op /\ filing'[o].pc = filing[o].pc
                                 /\ filing'[o].id = filing[o].id
                                 /\ filing[o].pc = "writing" => ReadIsCurrent(o)'
  PROVE  CallsAreInOrder'
<1>2. \A key \in DOMAIN holder : holder[key] # c => holder'[key] = holder[key]
  BY DEF Release
<1>3. DOMAIN holder = FolderId \cup {TheList}
  BY DEF TypeOK
<1>4. ASSUME NEW o \in Caller \ {c}, filing[o].pc \in {"reading", "writing"} PROVE HoldsItsLock(o)'
  <2>1. HoldsItsLock(o) /\ LockKey(o)' = LockKey(o)
    BY <1>4 DEF CallsAreInOrder, LockKey
  <2>2. filing[o].op # "delete" => LockKey(o) \in FolderId \cup {TheList}
    BY DEF LockKey, TypeOK, Call
  <2> QED BY <1>2, <1>3, <2>1, <2>2 DEF HoldsItsLock
<1> QED BY <1>4 DEF CallsAreInOrder, Idle

LEMMA InvIsInductive == ASSUME FoldersAssumption, Inv, [Next]_folderVars PROVE Inv'
<1>0. /\ TypeOK /\ CallsAreInOrder /\ CreationsAreNumbered /\ FoundAreWhole /\ AddedChatsStay
      /\ None \notin Caller /\ TheList \notin FolderId
      /\ \A c \in Caller : filing[c] \in Call
  BY DEF Inv, FoldersAssumption, TypeOK, FolderId, TheList
<1>1. TypeOK'
  BY <1>0, TypeIsKept
<1> DEFINE Tables == CreationsAreNumbered /\ FoundAreWhole /\ AddedChatsStay
           StillRebuilds(o) == Rebuilds(o)' => /\ Rebuilds(o) /\ filing'[o].found = filing[o].found
                                              /\ filing'[o].id = filing[o].id
<1>2. ASSUME UNCHANGED <<folders, creations, added>>, \A o \in Caller : StillRebuilds(o) PROVE Tables'
  <2>1. CreationsAreNumbered'
    BY <1>0, <1>2 DEF CreationsAreNumbered
  <2>2. FoundAreWhole'
    BY <1>0, <1>2 DEF FoundAreWhole
  <2>3. AddedChatsStay'
    BY <1>0, <1>2 DEF AddedChatsStay
  <2> QED BY <2>1, <2>2, <2>3
<1>3. ASSUME NEW c \in Caller, NEW op \in {"create", "add", "remove", "delete"},
             NEW id \in FolderId \cup {TheList}, NEW named \in SUBSET Chat,
             Begin(c, op, id, named), op # "create" => id \in FolderId
      PROVE  Inv'
  <2> DEFINE begun == [Idle EXCEPT !.op = op, !.id = id, !.chats = named,
                         !.pc = IF op = "delete" THEN "reading" ELSE "locking"]
  <2>1. filing' = [filing EXCEPT ![c] = begun] /\ UNCHANGED <<folders, creations, holder, added>>
    BY <1>3 DEF Begin
  <2>2. begun.op = op /\ begun.id = id /\ begun.pc = IF op = "delete" THEN "reading" ELSE "locking"
    BY DEF Idle
  <2> HIDE DEF begun
  <2>3. filing'[c] = begun /\ \A o \in Caller \ {c} : filing'[o] = filing[o]
    BY <1>0, <2>1 DEF TypeOK
  <2>4. CallsAreInOrder'
    <3>1. HoldsItsLock(c)' \/ filing'[c].pc = "locking"
      BY <2>2, <2>3 DEF HoldsItsLock
    <3>2. /\ filing'[c].op = op /\ filing'[c].pc \in {"reading", "locking"} /\ op # "none"
          /\ op \in {"add", "remove", "delete"} => filing'[c].id \in FolderId
      BY <1>3, <2>2, <2>3
    <3>3. ASSUME NEW o \in Caller \ {c}
          PROVE  /\ filing'[o].pc = "idle" <=> filing'[o].op = "none"
                 /\ filing'[o].op \in {"add", "remove", "delete"} => filing'[o].id \in FolderId
                 /\ filing'[o].pc \in {"reading", "writing"} => HoldsItsLock(o)'
                 /\ filing'[o].pc = "writing" => ReadIsCurrent(o)'
      <4>1. filing'[o] = filing[o]
        BY <2>3
      <4>2. /\ filing[o].pc = "idle" <=> filing[o].op = "none"
            /\ filing[o].op \in {"add", "remove", "delete"} => filing[o].id \in FolderId
            /\ filing[o].pc \in {"reading", "writing"} => HoldsItsLock(o)
            /\ filing[o].pc = "writing" => ReadIsCurrent(o)
        BY <1>0 DEF CallsAreInOrder
      <4>3. /\ HoldsItsLock(o) => HoldsItsLock(o)'
            /\ ReadIsCurrent(o) => ReadIsCurrent(o)'
        BY <2>1, <4>1 DEF HoldsItsLock, LockKey, ReadIsCurrent
      <4> QED BY <4>1, <4>2, <4>3
    <3>4. /\ filing'[c].pc = "idle" <=> filing'[c].op = "none"
          /\ filing'[c].op \in {"add", "remove", "delete"} => filing'[c].id \in FolderId
          /\ filing'[c].pc \in {"reading", "writing"} => HoldsItsLock(c)'
          /\ filing'[c].pc = "writing" => ReadIsCurrent(c)'
      BY <3>1, <3>2
    <3> QED BY <3>3, <3>4 DEF CallsAreInOrder
  <2>5. \A o \in Caller : StillRebuilds(o)
    BY <2>2, <2>3 DEF Rebuilds
  <2> QED BY <1>1, <1>2, <2>1, <2>4, <2>5 DEF Inv
<1>4. ASSUME NEW c \in Caller, Enter(c) PROVE Inv'
  <2> DEFINE entered == [filing[c] EXCEPT !.pc = "reading"]
  <2>1. filing' = [filing EXCEPT ![c] = entered] /\ filing[c].pc = "locking"
    BY <1>4 DEF Enter
  <2>2. /\ entered.op = filing[c].op /\ entered.id = filing[c].id /\ entered.found = filing[c].found
        /\ entered.pc = "reading"
    BY <1>0 DEF Call
  <2> HIDE DEF entered
  <2>3. filing'[c] = entered /\ \A o \in Caller \ {c} : filing'[o] = filing[o]
    BY <1>0, <2>1 DEF TypeOK
  <2>4. \A o \in Caller : /\ filing'[o].op = filing[o].op /\ filing'[o].id = filing[o].id
                          /\ filing'[o].found = filing[o].found
    BY <2>2, <2>3
  <2>5. \A o \in Caller : LockKey(o)' = LockKey(o)
    BY <2>4 DEF LockKey
  <2>6. LockKey(c) \in DOMAIN holder
    BY <1>0 DEF LockKey, TypeOK, Call
  <2>7. HoldsItsLock(c)'
    BY <1>4, <2>5, <2>6 DEF Enter, HoldsItsLock
  <2>8. \A o \in Caller \ {c} : HoldsItsLock(o) => HoldsItsLock(o)'
    <3>1. \A key \in DOMAIN holder : holder[key] # None => holder'[key] = holder[key]
      BY <1>4 DEF Enter, LockIsFree
    <3>2. \A o \in Caller : LockKey(o) \in DOMAIN holder
      BY <1>0 DEF LockKey, TypeOK, Call
    <3> QED BY <1>0, <2>4, <2>5, <3>1, <3>2 DEF HoldsItsLock
  <2>9. \A o \in Caller \ {c} : ReadIsCurrent(o) => ReadIsCurrent(o)'
    BY <1>4, <2>3 DEF Enter, ReadIsCurrent
  <2>40. CallsAreInOrder'
    <3>1. filing[c].op # "none" /\ filing'[c].pc = "reading"
      BY <1>0, <2>1, <2>2, <2>3 DEF CallsAreInOrder
    <3>2. \A o \in Caller : filing[o].op \in {"add", "remove", "delete"} => filing'[o].id \in FolderId
      BY <1>0, <2>4 DEF CallsAreInOrder
    <3>3. ASSUME NEW o \in Caller \ {c}
          PROVE  /\ filing'[o].pc = "idle" <=> filing'[o].op = "none"
                 /\ filing'[o].pc \in {"reading", "writing"} => HoldsItsLock(o)'
                 /\ filing'[o].pc = "writing" => ReadIsCurrent(o)'
      BY <1>0, <2>8, <2>9, <2>3 DEF CallsAreInOrder
    <3> QED BY <2>4, <2>7, <3>1, <3>2, <3>3 DEF CallsAreInOrder
  <2>41. \A o \in Caller : StillRebuilds(o)
    BY <2>2, <2>3 DEF Rebuilds
  <2> QED BY <1>1, <1>2, <1>4, <2>40, <2>41 DEF Enter, Inv
<1>5. ASSUME NEW c \in Caller, Ends(c), UNCHANGED <<folders, creations, added>> PROVE Inv'
  <2>1. \A o \in Caller \ {c} : filing'[o] = filing[o]
    BY <1>0, <1>5 DEF Ends, TypeOK
  <2>2. \A o \in Caller \ {c} : filing[o].pc = "writing" => ReadIsCurrent(o)'
    BY <1>0, <1>5, <2>1 DEF CallsAreInOrder, ReadIsCurrent
  <2>3. filing'[c] = Idle /\ Release(c)
    BY <1>0, <1>5 DEF Ends, TypeOK
  <2>4. CallsAreInOrder'
    BY <1>0, <2>1, <2>2, <2>3, LeavingKeepsOrder
  <2>5. \A o \in Caller : StillRebuilds(o)
    BY <2>1, <2>3 DEF Rebuilds, Idle
  <2> QED BY <1>1, <1>2, <1>5, <2>4, <2>5 DEF Inv
<1>6. ASSUME NEW c \in Caller, Read(c) PROVE Inv'
  <2>1. CASE NothingToDo(c)
    BY <1>5, <1>6, <2>1 DEF Read
  <2>2. CASE ~NothingToDo(c)
    <3>1. PICK id \in Targets(c) :
            filing' = [filing EXCEPT ![c] = [@ EXCEPT !.pc = "writing", !.id = id, !.found = folders[id]]]
      BY <1>6, <2>2 DEF Read
    <3> DEFINE known == [filing[c] EXCEPT !.pc = "writing", !.id = id, !.found = folders[id]]
    <3>2. /\ filing'[c] = known /\ \A o \in Caller \ {c} : filing'[o] = filing[o]
          /\ UNCHANGED <<folders, creations, holder, added>>
      BY <1>0, <1>6, <2>2, <3>1 DEF Read, TypeOK
    <3>3. /\ known.op = filing[c].op /\ known.pc = "writing" /\ known.id = id /\ known.found = folders[id]
      BY <1>0 DEF Call
    <3> HIDE DEF known
    <3>4. HoldsItsLock(c)'
      <4>1. HoldsItsLock(c)
        BY <1>0, <1>6 DEF Read, CallsAreInOrder
      <4>2. filing[c].op # "create" => id = filing[c].id
        BY <3>1 DEF Targets
      <4> QED BY <3>2, <3>3, <4>1, <4>2 DEF HoldsItsLock, LockKey
    <3>5. ReadIsCurrent(c)'
      <4>1. CASE filing[c].op = "create"
        <5>1. id \in FolderId /\ folders[id] = Nobody
          BY <3>1, <4>1 DEF Targets, FreeIds, Exists
        <5> QED BY <3>2, <3>3, <4>1, <5>1 DEF ReadIsCurrent
      <4>2. CASE filing[c].op = "delete"
        BY <1>0, <3>1, <3>2, <3>3, <4>2 DEF ReadIsCurrent, CallsAreInOrder, Targets
      <4>3. CASE filing[c].op \in {"add", "remove"}
        <5>1. id = filing[c].id /\ id \in FolderId /\ folders[id] # Nobody
          BY <1>0, <2>2, <3>1, <4>3 DEF Targets, NothingToDo, CallsAreInOrder, Exists
        <5> QED BY <3>2, <3>3, <4>3, <5>1 DEF ReadIsCurrent
      <4>4. filing[c].op # "none"
        BY <1>0, <1>6 DEF Read, CallsAreInOrder
      <4> QED BY <1>0, <4>1, <4>2, <4>3, <4>4 DEF Call
    <3>6. CallsAreInOrder'
      <4>1. filing[c].op # "none" /\ filing'[c].op = filing[c].op /\ filing'[c].pc = "writing"
        BY <1>0, <1>6, <3>2, <3>3 DEF Read, CallsAreInOrder
      <4>2. filing'[c].id \in FolderId
        BY <3>5 DEF ReadIsCurrent
      <4>3. ASSUME NEW o \in Caller \ {c}
            PROVE  /\ filing'[o].pc = "idle" <=> filing'[o].op = "none"
                   /\ filing'[o].op \in {"add", "remove", "delete"} => filing'[o].id \in FolderId
                   /\ filing'[o].pc \in {"reading", "writing"} => HoldsItsLock(o)'
                   /\ filing'[o].pc = "writing" => ReadIsCurrent(o)'
        <5>1. filing'[o] = filing[o]
          BY <3>2
        <5>2. /\ filing[o].pc = "idle" <=> filing[o].op = "none"
              /\ filing[o].op \in {"add", "remove", "delete"} => filing[o].id \in FolderId
              /\ filing[o].pc \in {"reading", "writing"} => HoldsItsLock(o)
              /\ filing[o].pc = "writing" => ReadIsCurrent(o)
          BY <1>0 DEF CallsAreInOrder
        <5>3. /\ HoldsItsLock(o) => HoldsItsLock(o)'
              /\ ReadIsCurrent(o) => ReadIsCurrent(o)'
          BY <3>2, <5>1 DEF HoldsItsLock, LockKey, ReadIsCurrent
        <5> QED BY <5>1, <5>2, <5>3
      <4> QED BY <3>4, <3>5, <4>1, <4>2, <4>3 DEF CallsAreInOrder
    <3>7. \A o \in Caller \ {c} : StillRebuilds(o)
      BY <3>2 DEF Rebuilds
    <3>8. Rebuilds(c)' => /\ filing'[c].id = id /\ id \in FolderId
                          /\ filing'[c].found = folders[id] /\ folders[id] # Nobody
      BY <3>2, <3>3, <3>5 DEF Rebuilds, ReadIsCurrent
    <3>9. Tables'
      <4>1. CreationsAreNumbered'
        BY <1>0, <3>2, <3>7, <3>8 DEF CreationsAreNumbered
      <4>2. FoundAreWhole'
        BY <1>0, <3>2, <3>7, <3>8 DEF FoundAreWhole, AddedChatsStay
      <4>3. AddedChatsStay'
        BY <1>0, <3>2 DEF AddedChatsStay
      <4> QED BY <4>1, <4>2, <4>3
    <3> QED BY <1>1, <3>6, <3>9 DEF Inv
  <2> QED BY <2>1, <2>2
<1>7. ASSUME NEW c \in Caller, Write(c) PROVE Inv'
  <2> DEFINE call == filing[c]
  <2>1. /\ call.pc = "writing" /\ call.id \in FolderId /\ ReadIsCurrent(c) /\ HoldsItsLock(c)
        /\ call.op \in {"create", "add", "remove", "delete"}
    BY <1>0, <1>7 DEF Write, CallsAreInOrder, ReadIsCurrent, Call
  <2>2. folders' = [folders EXCEPT ![call.id] = Rebuilt(c)] /\ folders'[call.id] = Rebuilt(c)
    BY <1>0, <1>7, <2>1 DEF Write, TypeOK
  <2>3. \A id \in FolderId \ {call.id} : folders'[id] = folders[id]
    BY <1>0, <2>2 DEF TypeOK
  <2>4. filing'[c] = Idle /\ Release(c)
    BY <1>0, <1>7 DEF Write, TypeOK
  <2>5. ASSUME NEW o \in Caller \ {c}
        PROVE  /\ filing'[o].op = filing[o].op /\ filing'[o].pc = filing[o].pc
               /\ filing'[o].id = filing[o].id /\ filing'[o].found = filing[o].found
               /\ filing[o].gone \/ Passes(c, o) => filing'[o].gone
    <3>1. filing'[o] = [filing[o] EXCEPT !.gone = @ \/ Passes(c, o)]
      BY <1>7 DEF Write
    <3>2. DOMAIN filing[o] = {"op", "pc", "id", "chats", "found", "gone"}
      BY <1>0 DEF Call
    <3> QED BY <3>1, <3>2
  <2>6. ASSUME NEW o \in Caller \ {c}, filing[o].pc = "writing" PROVE ReadIsCurrent(o)'
    <3>1. ReadIsCurrent(o) /\ HoldsItsLock(o) /\ filing[o].op \in {"create", "add", "remove", "delete"}
      BY <1>0, <2>6 DEF CallsAreInOrder, Call
    <3>2. filing[o].gone => filing'[o].gone
      BY <2>5
    <3>3. CASE filing[o].id # call.id
      BY <2>3, <2>5, <3>1, <3>2, <3>3 DEF ReadIsCurrent
    <3>4. CASE filing'[o].gone
      BY <2>5, <3>1, <3>4 DEF ReadIsCurrent
    <3>5. CASE filing[o].id = call.id /\ ~filing'[o].gone /\ filing[o].op # "delete"
      <4>1. ~Passes(c, o) /\ ~filing[o].gone
        BY <2>5, <3>5
      <4>2. call.op # "delete" /\ ~call.gone
        BY <2>6, <3>5, <4>1 DEF Passes
      <4>3. holder[LockKey(c)] = c /\ holder[LockKey(o)] = o
        BY <2>1, <3>1, <3>5, <4>2 DEF HoldsItsLock
      <4>4. CASE call.op = "create" <=> filing[o].op = "create"
        BY <3>5, <4>3, <4>4 DEF LockKey
      <4>5. CASE ~(call.op = "create" <=> filing[o].op = "create")
        BY <2>1, <3>1, <3>5, <4>1, <4>2, <4>5 DEF ReadIsCurrent
      <4> QED BY <4>4, <4>5
    <3>6. CASE filing[o].op = "delete"
      BY <2>5, <3>1, <3>6 DEF ReadIsCurrent
    <3> QED BY <3>3, <3>4, <3>5, <3>6
  <2>7. CallsAreInOrder'
    BY <1>0, <2>4, <2>5, <2>6, LeavingKeepsOrder
  <2>8. /\ ~Rebuilds(c)'
        /\ \A o \in Caller \ {c} : StillRebuilds(o)
    BY <2>4, <2>5 DEF Rebuilds, Idle
  <2>9. CASE call.op = "create"
    <3>1. folders'[call.id].made = creations + 1
      BY <2>2, <2>9 DEF Rebuilt
    <3>2. creations' = creations + 1 /\ added' = added /\ creations \in Nat
      BY <1>0, <1>7, <2>9 DEF Write, TypeOK
    <3>3. CreationsAreNumbered'
      BY <1>0, <2>3, <2>8, <3>1, <3>2 DEF CreationsAreNumbered
    <3>4. AddedChatsStay'
      BY <1>0, <2>3, <3>1, <3>2 DEF CreationsAreNumbered, AddedChatsStay
    <3>5. FoundAreWhole'
      BY <1>0, <2>8, <3>2 DEF FoundAreWhole
    <3> QED BY <1>1, <2>7, <3>3, <3>4, <3>5 DEF Inv
  <2>10. CASE call.op = "delete"
    <3>1. folders'[call.id] = Nobody /\ Nobody.made = 0 /\ creations' = creations /\ added' = added
      BY <1>7, <2>2, <2>10 DEF Write, Rebuilt, Nobody
    <3>2. \A a \in added : a[1] # 0
      BY <1>0 DEF CreationsAreNumbered, TypeOK
    <3>3. CreationsAreNumbered'
      BY <1>0, <2>3, <2>8, <3>1 DEF CreationsAreNumbered
    <3>4. AddedChatsStay'
      BY <1>0, <2>3, <3>1, <3>2 DEF AddedChatsStay
    <3>5. FoundAreWhole'
      BY <1>0, <2>8, <3>1 DEF FoundAreWhole
    <3> QED BY <1>1, <2>7, <3>3, <3>4, <3>5 DEF Inv
  <2>11. CASE call.op \in {"add", "remove"}
    <3> DEFINE found == filing[c].found
    <3>1. Rebuilds(c) /\ found.made \in 1..creations /\ creations \in Nat /\ found \in Folder
      BY <1>0, <2>1, <2>11 DEF Rebuilds, CreationsAreNumbered, TypeOK, Call
    <3>2. /\ folders'[call.id].made = found.made
          /\ folders'[call.id].chats = IF call.op = "add" THEN found.chats \cup call.chats
                                       ELSE found.chats \ call.chats
      <4>1. CASE call.op = "add"
        BY <2>2, <3>1, <4>1 DEF Rebuilt, Folder
      <4>2. CASE call.op = "remove"
        BY <2>2, <3>1, <4>2 DEF Rebuilt, Folder
      <4> QED BY <2>11, <4>1, <4>2
    <3>3. creations' = creations
      BY <1>7, <2>11 DEF Write
    <3> DEFINE named == {found.made} \X call.chats
    <3>4. added' = IF call.op = "add" THEN added \cup named ELSE added \ named
      BY <1>7, <2>11 DEF Write
    <3> HIDE DEF found
    <3>5. /\ \A id \in FolderId \ {call.id} : folders[id] # Nobody => folders[id].made # found.made
          /\ \A o \in Caller : Rebuilds(o) /\ filing[o].found.made = found.made => filing[o].id = call.id
      BY <1>0, <3>1 DEF CreationsAreNumbered, found
    <3>6. CreationsAreNumbered'
      <4>1. \A a \in added' : a[1] \in 1..creations
        BY <1>0, <3>1, <3>4 DEF CreationsAreNumbered
      <4>2. \A id, other \in FolderId :
              folders'[id] # Nobody /\ folders'[other] # Nobody /\ folders'[id].made = folders'[other].made
                => id = other
        BY <1>0, <2>3, <3>2, <3>5 DEF CreationsAreNumbered
      <4>3. \A id \in FolderId : folders'[id] # Nobody => folders'[id].made \in 1..creations
        BY <1>0, <2>3, <3>1, <3>2 DEF CreationsAreNumbered
      <4>4. \A o \in Caller, id \in FolderId :
              Rebuilds(o)' /\ folders'[id] # Nobody /\ folders'[id].made = filing'[o].found.made
                => id = filing'[o].id
        BY <1>0, <2>3, <2>8, <3>2, <3>5 DEF CreationsAreNumbered
      <4>5. /\ \A o \in Caller : Rebuilds(o)' => filing'[o].found.made \in 1..creations
            /\ \A o, p \in Caller :
                 Rebuilds(o)' /\ Rebuilds(p)' /\ filing'[o].found.made = filing'[p].found.made
                   => filing'[o].id = filing'[p].id
        BY <1>0, <2>8 DEF CreationsAreNumbered
      <4> QED BY <3>3, <4>1, <4>2, <4>3, <4>4, <4>5 DEF CreationsAreNumbered
    <3>7. ASSUME NEW o \in Caller \ {c}, Rebuilds(o) PROVE filing[o].found.made # found.made
      <4>1. HoldsItsLock(o) /\ filing[o].op \in {"add", "remove"}
        BY <1>0, <3>7 DEF Rebuilds, CallsAreInOrder
      <4> QED BY <2>1, <2>11, <3>5, <3>7, <4>1 DEF HoldsItsLock, LockKey
    <3>8. FoundAreWhole'
      <4>1. ASSUME NEW o \in Caller \ {c}, Rebuilds(o), NEW a \in added', a[1] = filing[o].found.made
            PROVE  a[2] \in filing[o].found.chats
        <5>1. a \in added
          BY <3>4, <3>7, <4>1
        <5> QED BY <1>0, <4>1, <5>1 DEF FoundAreWhole
      <4> QED BY <2>8, <4>1 DEF FoundAreWhole
    <3>9. ASSUME NEW id \in FolderId \ {call.id}, NEW a \in added', a[1] = folders'[id].made
          PROVE  a[2] \in folders'[id].chats
      <4>1. folders'[id] = folders[id]
        BY <2>3, <3>9
      <4>2. a \notin named
        BY <1>0, <3>1, <3>5, <3>9, <4>1 DEF Nobody
      <4> QED BY <1>0, <3>4, <3>9, <4>1, <4>2 DEF AddedChatsStay
    <3>10. ASSUME NEW a \in added', a[1] = folders'[call.id].made
           PROVE  a[2] \in folders'[call.id].chats
      <4>1. a \in added => a[2] \in found.chats
        BY <1>0, <3>1, <3>2, <3>10 DEF FoundAreWhole, found
      <4>2. CASE call.op = "add"
        BY <3>2, <3>4, <3>10, <4>1, <4>2
      <4>3. CASE call.op = "remove"
        <5>1. a \in added /\ a \notin named /\ a = <<a[1], a[2]>>
          BY <1>0, <3>4, <3>10, <4>3 DEF TypeOK
        <5>2. a[2] \notin call.chats
          BY <3>2, <3>10, <5>1
        <5> QED BY <3>2, <4>1, <4>3, <5>1, <5>2
      <4> QED BY <2>11, <4>2, <4>3
    <3>11. AddedChatsStay'
      BY <3>9, <3>10 DEF AddedChatsStay
    <3> QED BY <1>1, <2>7, <3>6, <3>8, <3>11 DEF Inv
  <2> QED BY <2>1, <2>9, <2>10, <2>11
<1>8. ASSUME NEW c \in Caller, Asks(c) PROVE Inv'
  BY <1>3, <1>8, CallsBegin
<1>9. ASSUME NEW c \in Caller, Fails(c) PROVE Inv'
  BY <1>5, <1>9 DEF Fails
<1>10. CASE UNCHANGED folderVars
  <2>1. UNCHANGED <<folders, creations, holder, added, filing>>
    BY <1>10 DEF folderVars
  <2>2. CallsAreInOrder'
    BY <1>0, <2>1 DEF CallsAreInOrder, HoldsItsLock, LockKey, ReadIsCurrent
  <2>3. \A o \in Caller : StillRebuilds(o)
    BY <2>1 DEF Rebuilds
  <2> QED BY <1>1, <1>2, <2>1, <2>2, <2>3 DEF Inv
<1> QED BY <1>4, <1>6, <1>7, <1>8, <1>9, <1>10 DEF Next, Asks

LEMMA InvHolds == ASSUME FoldersAssumption PROVE Spec => []Inv
<1>1. ASSUME Init PROVE Inv
  <2>1. TheList \notin FolderId /\ 0 \in 0..MaxCreations /\ MaxCreations \in Nat
    BY DEF FoldersAssumption, FolderId, TheList
  <2>2. Nobody \in Folder /\ Idle \in Call
    BY <2>1 DEF Nobody, Folder, Idle, Call
  <2>3. TypeOK
    BY <1>1, <2>1, <2>2 DEF Init, TypeOK
  <2> QED BY <1>1, <2>3 DEF Init, Inv, CallsAreInOrder, CreationsAreNumbered, FoundAreWhole, AddedChatsStay,
                            Rebuilds, Idle
<1>2. Inv /\ [Next]_folderVars => Inv'
  BY InvIsInductive
<1> QED BY <1>1, <1>2, PTL DEF Spec

(* For any number of calls, folders and chats, deletions among them: no    *)
(* addition a reply told of is lost to another write (_folder_lock).       *)
THEOREM AdditionsStay == ASSUME FoldersAssumption PROVE Spec => []AddedChatsStay
<1>1. Inv => AddedChatsStay
  BY DEF Inv
<1>2. Spec => []Inv
  BY InvHolds
<1> QED BY <1>1, <1>2, PTL

(* And only a call whose folder was deleted after it had read the filters  *)
(* writes a folder over another or brings one back: the locks of           *)
(* _folder_lock() keep all the other calls apart.                          *)
THEOREM FoldersStayThemselves == ASSUME FoldersAssumption PROVE Spec => FoldersKeepTheirIdentity
<1> DEFINE Kept == \A id \in FolderId :
             \/ IsKept(id)
             \/ \E c \in Caller : filing[c].gone /\ filing[c].id = id /\ filing'[c] = Idle
<1>1. ASSUME Inv, Next PROVE Kept
  <2>1. CASE folders' = folders
    BY <2>1 DEF IsKept
  <2>2. CASE \E c \in Caller : Write(c)
    <3>1. PICK c \in Caller : Write(c)
      BY <2>2
    <3>2. /\ ReadIsCurrent(c) /\ filing[c].id \in FolderId /\ creations \in Nat
          /\ folders \in [FolderId -> Folder] /\ filing[c].op \in {"create", "add", "remove", "delete"}
      BY <1>1, <3>1 DEF Inv, TypeOK, CallsAreInOrder, ReadIsCurrent, Write, Call
    <3>3. /\ folders'[filing[c].id] = Rebuilt(c) /\ filing'[c] = Idle
          /\ \A id \in FolderId \ {filing[c].id} : folders'[id] = folders[id]
      BY <3>1, <3>2 DEF Write
    <3>4. \A id \in FolderId \ {filing[c].id} : IsKept(id)
      BY <3>3 DEF IsKept
    <3>5. CASE filing[c].gone
      BY <3>3, <3>4, <3>5
    <3>6. CASE filing[c].op = "create" /\ ~filing[c].gone
      <4>1. IsKept(filing[c].id)
        BY <3>1, <3>2, <3>6 DEF Write, ReadIsCurrent, Exists, IsKept
      <4> QED BY <3>4, <4>1
    <3>7. CASE filing[c].op = "delete"
      <4>1. IsKept(filing[c].id)
        BY <3>3, <3>7 DEF Rebuilt, Nobody, IsKept
      <4> QED BY <3>4, <4>1
    <3>8. CASE filing[c].op \in {"add", "remove"} /\ ~filing[c].gone
      <4>1. Rebuilt(c).made = folders[filing[c].id].made
        BY <3>2, <3>8 DEF Rebuilt, ReadIsCurrent, Folder
      <4>2. IsKept(filing[c].id)
        BY <3>3, <4>1 DEF IsKept
      <4> QED BY <3>4, <4>2
    <3> QED BY <3>2, <3>5, <3>6, <3>7, <3>8
  <2>3. folders' = folders \/ \E c \in Caller : Write(c)
    BY <1>1 DEF Next, CreateFolder, AddChatToFolder, RemoveChatFromFolder, DeleteFolder, Begin, Enter, Read, Fails
  <2> QED BY <2>1, <2>2, <2>3
<1>2. Inv /\ [Next]_folderVars => [Kept]_folderVars
  BY <1>1
<1>3. Spec => []Inv
  BY InvHolds
<1> QED BY <1>2, <1>3, PTL DEF Spec, FoldersKeepTheirIdentity
=============================================================================

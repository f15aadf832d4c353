------------------------------ MODULE KeptLists ------------------------------
(***************************************************************************)
(* The lists Telegram (external) keeps for an account and the tools edit:  *)
(* quick replies (tools/quick_replies.py), the row of saved GIFs           *)
(* (tools/saved_gifs.py), the stickers of one pack and the packs in the    *)
(* picker (tools/stickers.py).  A tool reads the list, sends one request   *)
(* and says, from what it read before or from the answer, what came of it. *)
(*                                                                         *)
(* Abstractions.  One list per behaviour: they share nothing.  An entry is *)
(* an item or the number of a message; names, texts, emoji, formatting and *)
(* hashes are left out.  A pack is never full: its limit is a comparison.  *)
(***************************************************************************)
EXTENDS FiniteSets, Sequences, SequencesExt, Integers

CONSTANTS
  Caller,      \* tool calls
  Item,        \* GIFs, stickers, packs, names of shortcuts
  Cap,         \* GIFs in the row, packs in the picker
  Window,      \* GIFs of the row that one answer holds
  MaxRequests, \* edits of the list
  Overlap,     \* whether others edit while a call, or its caller, is unsure
  Drops        \* whether the answer to an edit may be lost

KeptListsAssumption ==
  /\ {Cap, Window, MaxRequests} \subseteq Nat /\ Cap >= 1 /\ Window \in 1..Cap
  /\ {Overlap, Drops} \subseteq BOOLEAN
  /\ "none" \notin Item

VARIABLES
  shelf,    \* the list this behaviour is about
  list,     \* its entries: of a row the newest first, of the picker the first
  archive,  \* the packs that are out of the picker
  shortcut, \* the shortcuts: the messages of each, and the name
  count,    \* how many edits there were
  call

listsVars == <<shelf, list, archive, shortcut, count, call>>

Shelf == {"replies", "row", "pack", "picker"}
None == "none"
Message == 1..MaxRequests
Idle == [pc |-> "idle", op |-> None, item |-> None, id |-> 0, ids |-> {}, whole |-> FALSE, seen |-> 0,
         times |-> 0, found |-> FALSE, flag |-> FALSE, out |-> {}, says |-> "nothing"]
NoShortcut == [name |-> None, held |-> {}]

TypeOK ==
  /\ shelf \in Shelf /\ list \in Seq(Item) /\ archive \subseteq Item /\ count \in 0..MaxRequests
  /\ shortcut \in [Message -> [name : Item \cup {None}, held : SUBSET Message]]
  /\ \A c \in Caller : /\ call[c].pc \in {"idle", "asked", "read", "edited", "replied"}
                       /\ call[c].says \in {"nothing", "refused", "failed", "done"}

Init ==
  /\ shelf \in Shelf
  /\ list \in IF shelf = "replies" THEN {<<>>} ELSE {s \in BoundedSeq(Item, Cap) : IsInjective(s)}
  /\ archive = {} /\ count = 0
  /\ shortcut = [m \in Message |-> NoShortcut]
  /\ call = [c \in Caller |-> Idle]

----------------------------------------------------------------------------
(* Definitions whose name says what they get wrong are defects the checks  *)
(* must notice; no action uses them.                                       *)

Lists == <<shelf, list, archive, shortcut, count>>
Set(c, record) == call' = [call EXCEPT ![c] = record]
Replies(c, says) == Set(c, [call[c] EXCEPT !.pc = "replied", !.says = says])
Exists == {m \in Message : shortcut[m].name # None}
Named(name) == {m \in Exists : shortcut[m].name = name}
First(s, n) == SubSeq(s, 1, IF Len(s) < n THEN Len(s) ELSE n)
Returned == ToSet(First(list, Window))
At(item) == {i \in DOMAIN list : list[i] = item}
Without(item) == IF At(item) = {} THEN list ELSE RemoveAt(list, CHOOSE i \in At(item) : TRUE)
ToFront(item) == <<item>> \o Without(item)

(* A call starts; without Overlap, while no other is under way or has      *)
(* failed and may be made again.                                           *)
Settled(c) == call[c].pc = "idle" \/ call[c].says \in {"refused", "done"}
Start(c, record) ==
  /\ call[c].pc = "idle" /\ (Overlap \/ \A other \in Caller : Settled(other))
  /\ Set(c, record)
  /\ UNCHANGED Lists

Begins(c, on, op, item) ==
  shelf = on /\ Start(c, [Idle EXCEPT !.pc = "asked", !.op = op, !.item = item])

AddQuickReply(c, name) == Begins(c, "replies", "add", name)
RenameQuickReply(c, id, name) ==
  shelf = "replies" /\ Start(c, [Idle EXCEPT !.pc = "asked", !.op = "rename", !.item = name, !.id = id])
EditQuickReply(c, id, m) ==
  shelf = "replies" /\ Start(c, [Idle EXCEPT !.pc = "asked", !.op = "edit", !.id = id, !.ids = {m}])

(* delete_quick_reply(): no ids at all mean the shortcut, an empty list    *)
(* means nothing.                                                          *)
DeleteQuickReply(c, id, whole, ids) ==
  /\ shelf = "replies"
  /\ Start(c, [Idle EXCEPT !.pc = "asked", !.op = "delete", !.id = id, !.ids = ids, !.whole = whole])

SaveGif(c, item) == shelf = "row" /\ Start(c, [Idle EXCEPT !.pc = "read", !.op = "save", !.item = item])
UnsaveGif(c, item) == Begins(c, "row", "unsave", item)

(* add_sticker_to_set(): the count the caller last saw, zero for none.     *)
AddSticker(c, item, expected) ==
  /\ shelf = "pack"
  /\ Start(c, [Idle EXCEPT !.pc = "asked", !.op = "add", !.item = item, !.id = expected])
RemoveSticker(c, item) == shelf = "pack" /\ Start(c, [Idle EXCEPT !.pc = "read", !.op = "remove", !.item = item])
MoveSticker(c, item, position) ==
  shelf = "pack" /\ Start(c, [Idle EXCEPT !.pc = "read", !.op = "move", !.item = item, !.id = position])

InstallSet(c, item, archived) ==
  shelf = "picker" /\ Start(c, [Idle EXCEPT !.pc = "read", !.op = "install", !.item = item, !.whole = archived])
UninstallSet(c, item) == Begins(c, "picker", "uninstall", item)

----------------------------------------------------------------------------
(* The read before the edit, and the refusals that follow from it.         *)
AsExpected(c) == call[c].id = 0 \/ Len(list) = call[c].id
ExpectsNothing(c) == TRUE
Unchanged(c) == AsExpected(c)

OmittedIds(c) == call[c].whole
NoIdsGiven(c) == call[c].whole \/ call[c].ids = {}
Whole(c) == OmittedIds(c)

Unknown(c) ==
  CASE shelf = "replies" /\ call[c].op = "add"                 -> FALSE
    [] shelf = "replies" /\ call[c].op = "edit"                -> ~(call[c].ids \subseteq shortcut[call[c].id].held)
    [] shelf = "replies" /\ call[c].op \in {"rename", "delete"} -> call[c].id \notin Exists
    [] shelf = "row"                                           -> call[c].item \notin Returned
    [] shelf = "pack"                                          -> ~Unchanged(c)
    [] OTHER                                                   -> FALSE

Reads(c) ==
  /\ call[c].pc = "asked"
  /\ IF Unknown(c) \/ (call[c].op = "delete" /\ ~Whole(c) /\ call[c].ids = {})
     THEN Replies(c, "refused")
     ELSE Set(c, [call[c] EXCEPT !.pc = "read", !.seen = Len(list), !.found = Named(call[c].item) # {}])
  /\ UNCHANGED Lists

----------------------------------------------------------------------------
(* The edit, as Telegram applies it.                                       *)
Counted == count < MaxRequests /\ count' = count + 1
Edits(c, op) == call[c].pc = "read" /\ call[c].op = op /\ Counted
Applied(c) == [call[c] EXCEPT !.times = @ + 1] \* bookkeeping of the checks

(* The message goes to the shortcut of that name, or makes it.             *)
PutsMessage(c) ==
  /\ shelf = "replies" /\ Edits(c, "add")
  /\ LET at == IF Named(call[c].item) # {} THEN CHOOSE m \in Named(call[c].item) : TRUE ELSE count + 1 IN
     shortcut' = [shortcut EXCEPT ![at] = [name |-> call[c].item, held |-> @.held \cup {count + 1}]]
  /\ UNCHANGED <<list, archive>>

EditsMessage(c) ==
  /\ shelf = "replies" /\ Edits(c, "edit") /\ call[c].ids \subseteq shortcut[call[c].id].held
  /\ UNCHANGED <<shortcut, list, archive>>

RenamesShortcut(c) ==
  /\ shelf = "replies" /\ Edits(c, "rename")
  /\ call[c].id \in Exists /\ Named(call[c].item) \subseteq {call[c].id}
  /\ shortcut' = [shortcut EXCEPT ![call[c].id].name = call[c].item]
  /\ UNCHANGED <<list, archive>>

DeletesReplies(c) ==
  /\ shelf = "replies" /\ Edits(c, "delete")
  /\ shortcut' = IF Whole(c)
                 THEN [shortcut EXCEPT ![call[c].id] = NoShortcut]
                 ELSE [shortcut EXCEPT ![call[c].id].held = @ \ call[c].ids]
  /\ UNCHANGED <<list, archive>>

(* One entry per GIF, at the front; past the cap the oldest falls out.     *)
SavesGif(c) ==
  /\ shelf = "row" /\ Edits(c, "save")
  /\ list' = First(ToFront(call[c].item), Cap)
  /\ UNCHANGED <<archive, shortcut>>

UnsavesGif(c) ==
  /\ shelf = "row" /\ Edits(c, "unsave")
  /\ list' = Without(call[c].item)
  /\ UNCHANGED <<archive, shortcut>>

(* A sticker is added once per request, whatever the pack holds.           *)
AddsSticker(c) ==
  /\ shelf = "pack" /\ Edits(c, "add")
  /\ list' = Append(list, call[c].item)
  /\ UNCHANGED <<archive, shortcut>>

RemovesSticker(c) ==
  /\ shelf = "pack" /\ Edits(c, "remove")
  /\ \E i \in At(call[c].item) : list' = RemoveAt(list, i)
  /\ UNCHANGED <<archive, shortcut>>

MovesSticker(c) ==
  /\ shelf = "pack" /\ Edits(c, "move")
  /\ \E i \in At(call[c].item) :
       LET rest == RemoveAt(list, i)
           to   == IF call[c].id < Len(rest) THEN call[c].id + 1 ELSE Len(list)
       IN list' = InsertAt(rest, to, call[c].item)
  /\ UNCHANGED <<archive, shortcut>>

(* A picker at its limit archives its last packs and names them.           *)
InstallsSet(c) ==
  /\ shelf = "picker" /\ Edits(c, "install")
  /\ LET row == IF call[c].whole THEN Without(call[c].item)
                ELSE ToFront(call[c].item) IN
     /\ list' = First(row, Cap)
     /\ archive' = IF call[c].whole THEN archive \cup {call[c].item}
                   ELSE (archive \ {call[c].item}) \cup ToSet(SubSeq(row, Cap + 1, Len(row)))
  /\ UNCHANGED shortcut

UninstallsSet(c) ==
  /\ shelf = "picker" /\ Edits(c, "uninstall")
  /\ list' = Without(call[c].item)
  /\ archive' = archive \ {call[c].item}
  /\ UNCHANGED shortcut

Applies(c) ==
  \/ PutsMessage(c) \/ EditsMessage(c) \/ RenamesShortcut(c) \/ DeletesReplies(c)
  \/ SavesGif(c) \/ UnsavesGif(c) \/ AddsSticker(c) \/ RemovesSticker(c) \/ MovesSticker(c)
  \/ InstallsSet(c) \/ UninstallsSet(c)

(* What is said without looking again: the answer to the edit holds the    *)
(* new count, or the packs that were displaced.                            *)
LooksAgain(c) == shelf = "row" \/ (shelf = "replies" /\ call[c].op = "add") \/ call[c].op = "install"
Grew(c) == Len(list') # call[c].seen
Answers(c) ==
  /\ Applies(c)
  /\ Set(c, [Applied(c) EXCEPT !.pc = IF LooksAgain(c) THEN "edited" ELSE "replied",
                            !.says = IF LooksAgain(c) THEN "nothing" ELSE "done",
                            !.flag = Grew(c),
                            !.out = IF call[c].op = "install" /\ ~call[c].whole
                                    THEN archive' \ archive ELSE {}])
  /\ UNCHANGED shelf

(* Telegram refuses, or the connection goes with the edit or its answer.   *)
EditFails(c) ==
  /\ call[c].pc = "read"
  /\ \/ Replies(c, "failed") /\ UNCHANGED Lists
     \/ Drops /\ Applies(c) /\ Set(c, [Applied(c) EXCEPT !.pc = "replied", !.says = "failed"]) /\ UNCHANGED shelf

(* The look at what came of it: by the identity, never by a count.         *)
IsThere(c) == call[c].item \in Returned
IsThereByTheCount(c) == Len(First(list, Window)) # call[c].seen
Present(c) == IsThere(c)

Tells(c) ==
  /\ call[c].pc = "edited"
  /\ Set(c, [call[c] EXCEPT !.pc = "replied", !.says = "done",
                            !.flag = CASE shelf = "row" -> Present(c)
                                       [] shelf = "replies" -> ~call[c].found
                                       [] OTHER -> TRUE])
  /\ UNCHANGED Lists

LookFails(c) ==
  /\ call[c].pc = "edited" /\ Replies(c, "failed")
  /\ UNCHANGED Lists

(* A caller that was told of a failure may make the same call again.       *)
Retry(c) ==
  /\ call[c].pc = "replied" /\ call[c].says = "failed" /\ shelf = "pack" /\ call[c].op = "add"
  /\ Set(c, [call[c] EXCEPT !.pc = "asked", !.says = "nothing"])
  /\ UNCHANGED Lists

Again(c) ==
  /\ call[c].pc = "replied" /\ Set(c, Idle)
  /\ UNCHANGED Lists

Next ==
  \E c \in Caller :
    \/ Reads(c) \/ Answers(c) \/ EditFails(c) \/ Tells(c) \/ LookFails(c) \/ Retry(c) \/ Again(c)
    \/ \E item \in Item :
         \/ AddQuickReply(c, item) \/ SaveGif(c, item) \/ UnsaveGif(c, item)
         \/ RemoveSticker(c, item) \/ UninstallSet(c, item)
         \/ \E archived \in BOOLEAN : InstallSet(c, item, archived)
         \/ \E n \in 0..Cap : AddSticker(c, item, n) \/ MoveSticker(c, item, n)
    \/ \E id \in Message :
         \/ \E item \in Item : RenameQuickReply(c, id, item)
         \/ \E m \in Message : EditQuickReply(c, id, m)
         \/ \E ids \in SUBSET Message : DeleteQuickReply(c, id, FALSE, ids)
         \/ DeleteQuickReply(c, id, TRUE, {})

Spec == Init /\ [][Next]_listsVars
----------------------------------------------------------------------------
(* What a call does not name stays: an empty list of messages deletes no   *)
(* shortcut, a saved GIF pushes out only the oldest, a pack that leaves    *)
(* the picker was uninstalled or is in the archive.                        *)
Editing(op) == {c \in Caller : call[c].pc = "read" /\ call[c].op = op /\ call'[c].pc # "read"}
OnlyTheNamedGo ==
  /\ \A m \in Message : \A id \in shortcut[m].held \ shortcut'[m].held :
       \E c \in Editing("delete") : call[c].id = m /\ (call[c].whole \/ id \in call[c].ids)
  /\ \A item \in ToSet(list) \ ToSet(list') :
       \/ \E c \in Editing("unsave") \cup Editing("remove") \cup Editing("uninstall") : call[c].item = item
       \/ shelf = "row" /\ item = list[Cap]
       \/ shelf = "picker" /\ item \in archive'
OthersStay == [][OnlyTheNamedGo]_listsVars

(* A caller that passes the count it saw adds its sticker once, however    *)
(* often the answer is lost and the call made again.                       *)
StickersAreAddedOnce ==
  \A c \in Caller : shelf = "pack" /\ call[c].op = "add" /\ call[c].id # 0 => call[c].times <= 1

(* What a reply says of the list is so when it is said.                    *)
IsSo(c) ==
  LET r == call[c] IN
    CASE shelf = "row"                          -> r.flag <=> r.item \in Returned
      [] shelf = "replies" /\ r.op = "add"      -> r.flag <=> Named(r.item) = {count} \* made by the last edit
      [] shelf = "pack" /\ r.op = "add"         -> r.flag
      [] shelf = "picker" /\ r.op = "install"   -> /\ r.item \in ToSet(list) \cup archive
                                                  /\ r.out \subseteq archive
      [] OTHER                                  -> TRUE
RepliesAreOfTheList == \A c \in Caller : call[c].says # "done" /\ call'[c].says = "done" => IsSo(c)'
RepliesTellTheList == [][RepliesAreOfTheList]_listsVars

(* Why, as an inductive invariant: a row and the picker are never over     *)
(* their cap.                                                              *)
Entry == Item \cup {None}
ListsAreTyped ==
  /\ list \in Seq(Entry) /\ (shelf # "pack" => Len(list) <= Cap)
  /\ shortcut = [m \in Message |-> shortcut[m]] /\ \A m \in Message : DOMAIN shortcut[m] = DOMAIN NoShortcut
IsACall(record) == DOMAIN record = DOMAIN Idle /\ record.item \in Entry /\ record.id \in Nat
CallsAreTyped == call = [c \in Caller |-> call[c]] /\ \A c \in Caller : IsACall(call[c])
Inv == ListsAreTyped /\ CallsAreTyped

(* And what a call has read and done is of the list as it stands: one call *)
(* at a time is not settled, and a shortcut has the number of the edit     *)
(* that made it.                                                           *)
IsUnderWay(c) == call[c].pc \in {"asked", "read", "edited"}
SaysWhereItIs(c) ==
  /\ call[c].pc \in {"idle", "asked", "read", "edited", "replied"} /\ call[c].times \in Nat
  /\ IsUnderWay(c) => call[c].says = "nothing"
  /\ call[c].pc = "replied" => call[c].says \in {"refused", "failed", "done"}
AddsByTheCount(c) ==
  shelf = "pack" /\ call[c].op = "add" =>
    /\ call[c].pc = "read" => call[c].seen = Len(list)
    /\ call[c].id # 0 => /\ call[c].times <= 1
                         /\ call[c].pc = "read" => call[c].times = 0 /\ Len(list) = call[c].id
                         /\ call[c].times = 1 /\ ~Settled(c) => Len(list) # call[c].id
FindsTheName(c) ==
  shelf = "replies" /\ call[c].op = "add" =>
    /\ call[c].item \in Item
    /\ call[c].pc = "read" => (call[c].found <=> Named(call[c].item) # {})
    /\ call[c].pc = "edited" => (call[c].found <=> Named(call[c].item) # {count})
HasInstalled(c) ==
  shelf = "picker" /\ call[c].op = "install" /\ call[c].pc = "edited" =>
    call[c].item \in ToSet(list) \cup archive /\ call[c].out \subseteq archive
IsOfTheList(c) == SaysWhereItIs(c) /\ AddsByTheCount(c) /\ FindsTheName(c) /\ HasInstalled(c)
ShortcutsAreNumbered ==
  /\ count \in Nat /\ \A m \in Exists : m <= count
  /\ \A m, n \in Exists : shortcut[m].name = shortcut[n].name => m = n
OneIsUnsettled == \A c, d \in Caller : Settled(c) \/ Settled(d) \/ c = d
Meant == ShortcutsAreNumbered /\ (Overlap \/ OneIsUnsettled) /\ \A c \in Caller : IsOfTheList(c)
=============================================================================

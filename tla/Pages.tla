------------------------------- MODULE Pages -------------------------------
(***************************************************************************)
(* What the reading tools serve of a list Telegram keeps newest first      *)
(* (external): messages_read.py, chats.py, groups.py and saved.py, under   *)
(* the bounds of paging.py.  Some tools are walked page by page while the  *)
(* list grows; the others answer once, up to a limit.                      *)
(*                                                                         *)
(* Abstractions.  An item is its number in order of arrival, the day it    *)
(* arrived and two facts a search can ask for; what it shows of itself is  *)
(* left out.  One request sees one state of the list.  A dialog is as old  *)
(* as its last message, and that is when it comes back to the top.         *)
(***************************************************************************)
EXTENDS Integers, Sequences, SequencesExt

CONSTANTS
  Ceiling,   \* LIMITS: the most a page or an answer holds
  MaxOffset, \* MAX_OFFSET
  Depth,     \* GLOBAL_SEARCH_DEPTH
  Scan,      \* SENDER_MEDIA_SCAN
  MaxItems,  \* bound: items ever listed
  MaxDay,    \* bound: days
  MaxPages,  \* bound: pages of a walk
  Drifts     \* whether items may also come back or go away under a walk

PagesAssumption ==
  /\ {Ceiling, Scan, MaxDay} \subseteq Nat \ {0}
  /\ {MaxOffset, Depth, MaxItems, MaxPages} \subseteq Nat
  /\ Drifts \in BOOLEAN

VARIABLES
  items,   \* the list, newest first
  arrived, \* items ever listed
  walk     \* one reader of pages

pageVars == <<items, arrived, walk>>

PagedTool == {"get_messages", "search_global", "get_chats", "get_participants"}
Item == [id : 1..MaxItems, day : 1..MaxDay, wanted : BOOLEAN, media : BOOLEAN]
Ids(rows) == {row.id : row \in ToSet(rows)}

AtRest == [pc |-> "idle", tool |-> "get_messages", size |-> 1, page |-> 1, seen |-> {}, there |-> {}]

TypeOK ==
  /\ items \in Seq(Item)
  /\ arrived \in 0..MaxItems
  /\ walk \in [pc : {"idle", "walking", "ended", "refused"}, tool : PagedTool, size : 1..Ceiling,
               page : 1..(MaxPages + 1), seen : SUBSET (1..MaxItems), there : SUBSET (1..MaxItems)]

Init == items = <<>> /\ arrived = 0 /\ walk = AtRest

----------------------------------------------------------------------------
(* The list (external).                                                    *)

Newest == IF items = <<>> THEN 1 ELSE Head(items).day

Arrive(item) ==
  /\ arrived < MaxItems /\ item.id = arrived + 1 /\ item.day \in Newest..(Newest + 1)
  /\ arrived' = arrived + 1
  /\ items' = <<item>> \o items
  /\ UNCHANGED walk

ComesBack(i) ==
  /\ Drifts \/ walk.pc # "walking"
  /\ i \in 2..Len(items)
  /\ items' = <<[items[i] EXCEPT !.day = Newest]>> \o RemoveAt(items, i)
  /\ UNCHANGED <<arrived, walk>>

Goes(i) ==
  /\ Drifts \/ walk.pc # "walking"
  /\ i \in DOMAIN items
  /\ items' = RemoveAt(items, i)
  /\ walk' = [walk EXCEPT !.there = @ \ {items[i].id}]
  /\ UNCHANGED arrived

----------------------------------------------------------------------------
(* Tools read by the page.  Definitions whose name says what they get      *)
(* wrong are defects the checks must notice; no action uses them.          *)

First(count, rows) == SubSeq(rows, 1, IF count < Len(rows) THEN count ELSE Len(rows))

(* search_global() may ask for one kind of media.                          *)
Listed(tool) ==
  IF tool = "search_global" THEN SelectSeq(items, LAMBDA item : item.media) ELSE items

(* bounded_page()                                                          *)
CountsFromOne(page, size) == page * size
Offset(page, size) == (page - 1) * size

TooDeep(tool, offset, size) ==
  offset > MaxOffset \/ (tool = "search_global" /\ offset + size > Depth)

(* page_metadata()                                                         *)
HasMore(returned, limit) == returned >= limit

BeginWalk(tool, size) ==
  /\ walk.pc # "walking"
  /\ walk' = [AtRest EXCEPT !.pc = "walking", !.tool = tool, !.size = size, !.there = Ids(Listed(tool))]
  /\ UNCHANGED <<items, arrived>>

(* The next page; an empty one says that nothing follows.                  *)
ReadPage ==
  /\ walk.pc = "walking" /\ walk.page <= MaxPages
  /\ LET offset == Offset(walk.page, walk.size)
         read == First(offset + walk.size, Listed(walk.tool))
         rows == SubSeq(read, offset + 1, Len(read))
         next == [walk EXCEPT !.page = @ + 1, !.seen = @ \cup Ids(rows)]
     IN walk' = IF TooDeep(walk.tool, offset, walk.size) THEN [walk EXCEPT !.pc = "refused"]
                ELSE IF rows # <<>> /\ HasMore(Len(rows), walk.size) THEN next
                ELSE [next EXCEPT !.pc = "ended"]
  /\ UNCHANGED <<items, arrived>>

Next ==
  \/ \E item \in Item : Arrive(item)
  \/ \E i \in DOMAIN items : ComesBack(i) \/ Goes(i)
  \/ \E tool \in PagedTool, size \in 1..Ceiling : BeginWalk(tool, size)
  \/ ReadPage

Spec == Init /\ [][Next]_pageVars

----------------------------------------------------------------------------
(* Tools that answer once: the rows, and whether more may follow.          *)

Answer(rows, limit) == [rows |-> rows, more |-> HasMore(Len(rows), limit)]

(* get_history(), list_saved_dialogs(), get_saved_history()                *)
GetHistory(limit) == Answer(First(limit, items), limit)

(* list_chats(): the filter comes after the limit.                         *)
ListChats(limit) ==
  LET fetched == First(limit, items)
  IN [rows |-> SelectSeq(fetched, LAMBDA item : item.wanted), more |-> HasMore(Len(fetched), limit)]

(* The part of a stream before the first row outside these days; no bound  *)
(* is 0.                                                                   *)
Until(rows, from, to) ==
  LET stop == {i \in DOMAIN rows : rows[i].day < from \/ (to # 0 /\ rows[i].day > to)}
  IN IF stop = {} THEN rows ELSE SubSeq(rows, 1, (CHOOSE i \in stop : \A j \in stop : i <= j) - 1)

(* list_messages(): a search runs from the newest; a first day without a   *)
(* search from the oldest.  No day is 0.                                   *)
StopsAtTheFirstTooNew(searched, from, to) ==
  IF searched
  THEN Until(SelectSeq(items, LAMBDA item : item.wanted), from, to)
  ELSE SelectSeq(IF from # 0 THEN Reverse(items) ELSE items,
                 LAMBDA item : item.day >= from /\ (to = 0 \/ item.day <= to))

Matching(searched, from, to) ==
  IF searched
  THEN SelectSeq(Until(SelectSeq(items, LAMBDA item : item.wanted), from, 0),
                 LAMBDA item : to = 0 \/ item.day <= to)
  ELSE IF from # 0
  THEN SelectSeq(Until(Reverse(items), 0, to),
                 LAMBDA item : item.day >= from)
  ELSE SelectSeq(items, LAMBDA item : to = 0 \/ item.day <= to)

ListMessages(searched, from, to, limit) ==
  Answer(First(limit, Matching(searched, from, to)), limit)

(* search_messages(): a sender and a kind of media together are sifted out *)
(* of one bounded scan.                                                    *)
SearchMessages(sender, media, limit) ==
  LET Asked(item) == (sender => item.wanted) /\ (media => item.media)
      pool == First(Scan, SelectSeq(items, LAMBDA item : item.media))
  IN IF sender /\ media
     THEN [rows |-> First(limit, SelectSeq(pool, LAMBDA item : item.wanted)),
           more |-> HasMore(Len(pool), Scan)]
     ELSE Answer(First(limit, SelectSeq(items, Asked)), limit)

----------------------------------------------------------------------------
Limit == 1..Ceiling
Day == 0..MaxDay

(* Whoever reads page after page until told that nothing follows has seen  *)
(* all that was listed when they began, whatever arrived meanwhile.        *)
WalkSeesEverything == walk.pc = "ended" => walk.there \subseteq walk.seen

(* list_messages() serves the days it was asked for and nothing else, from *)
(* the end it reads at, leaving nothing out on its way.                    *)
Window(searched, from, to) ==
  {i \in DOMAIN items : /\ searched => items[i].wanted
                        /\ items[i].day >= from /\ (to # 0 => items[i].day <= to)}

DaysAreServedWhole ==
  \A searched \in BOOLEAN, from, to \in Day, limit \in Limit :
    LET window == Window(searched, from, to)
        rows == ListMessages(searched, from, to, limit).rows
        served == {i \in DOMAIN items : items[i].id \in Ids(rows)}
    IN /\ served \subseteq window
       /\ \A i \in served, j \in window \ served : IF from # 0 /\ ~searched THEN i > j ELSE i < j

(* An answer that says nothing more follows left nothing out.              *)
LeavesOut(answer, all) == {i \in all : items[i].id \notin Ids(answer.rows)}

NoMoreMeansAll ==
  \A limit \in Limit, sender, media \in BOOLEAN :
    LET answer == SearchMessages(sender, media, limit)
    IN ~answer.more =>
         LeavesOut(answer, {i \in DOMAIN items : (sender => items[i].wanted)
                                                 /\ (media => items[i].media)}) = {}

EndsAreHonest ==
  \A limit \in Limit :
    /\ ~GetHistory(limit).more => LeavesOut(GetHistory(limit), DOMAIN items) = {}
    /\ ~ListChats(limit).more =>
         LeavesOut(ListChats(limit), {i \in DOMAIN items : items[i].wanted}) = {}
    /\ \A searched \in BOOLEAN, from, to \in Day :
         LET answer == ListMessages(searched, from, to, limit)
         IN ~answer.more => LeavesOut(answer, Window(searched, from, to)) = {}
=============================================================================

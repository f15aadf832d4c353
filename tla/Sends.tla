-------------------------------- MODULE Sends -------------------------------
(***************************************************************************)
(* What one call puts into a chat: a text (tools/messages.py), the files   *)
(* of an album split by what Telegram (external) groups (media_send.py,    *)
(* media_album.py, tools/media.py), and an album of another chat forwarded *)
(* or copied from one of its messages (tools/messages_relay.py).           *)
(*                                                                         *)
(* Abstractions.  A file is the kind it would be sent as; opening it and   *)
(* naming its kind succeed or are refused.  A chat is what was put into    *)
(* it.  The ids of an album are contiguous, as Telegram allocates them.    *)
(***************************************************************************)
EXTENDS FiniteSets, Sequences, SequencesExt, Integers

CONSTANTS
  MaxFiles,  \* of one call; the code takes ten
  Reach,     \* how far from the named message siblings are looked for
  MaxId,     \* of the source chat
  MaxOthers, \* messages other people put into the destination
  Drops      \* whether the answer to a request may be lost

SendsAssumption ==
  /\ {MaxFiles, Reach, MaxId, MaxOthers} \subseteq Nat /\ MaxFiles >= 1
  /\ Drops \in BOOLEAN

VARIABLES
  chat,    \* the messages of the destination
  present, \* the messages of the source
  album,   \* the ids of its one album
  sending  \* the call

sendsVars == <<chat, present, album, sending>>

Kind == {"photo", "video", "document", "voice"}
Text == "text"
Id == 1..MaxId
Idle == [op |-> "none", pc |-> "idle", kinds |-> <<>>, opened |-> 0, caption |-> FALSE, plan |-> <<>>,
         ids |-> <<>>, anchor |-> 0, batch |-> {}, says |-> "nothing"]

TypeOK ==
  /\ present \subseteq Id /\ album \subseteq Id
  /\ sending.op \in {"none", "files", "forward"}
  /\ sending.pc \in {"idle", "opening", "sending", "anchoring", "widening", "forwarding", "replied"}
  /\ sending.kinds \in Seq(Kind \cup {Text}) /\ sending.opened \in 0..MaxFiles /\ sending.caption \in BOOLEAN
  /\ \A i \in 1..Len(chat) : chat[i].mine \in BOOLEAN

(* At most ten messages make an album: its first still reaches its last.   *)
Init ==
  /\ chat = <<>> /\ present = Id /\ sending = Idle
  /\ \E lo, hi \in Id : lo <= hi /\ hi - lo <= Reach /\ album = lo..hi

----------------------------------------------------------------------------
(* Definitions whose name says what they get wrong are defects the checks  *)
(* must notice; no action uses them.                                       *)

Replies(says) == sending' = [sending EXCEPT !.pc = "replied", !.says = says]
Puts(message) == chat' = Append(chat, message)
Mine(files, caption) == [mine |-> TRUE, files |-> files, caption |-> caption]

(* _GROUPS: the kinds that may share a message; a voice note never does.   *)
Group == [kind \in Kind \cup {Text} |-> IF kind \in {"photo", "video"} THEN "media"
                            ELSE IF kind = "document" THEN "file" ELSE "alone"]
NoCaption == {"voice"}

(* group_sends(): neighbours that can share a message do.                  *)
Joins(kinds, last, i) == Group[kinds[i]] # "alone" /\ Group[kinds[i]] = Group[kinds[last[1]]]
Joined(kinds, plan, i) ==
  IF plan # <<>> /\ Joins(kinds, Last(plan), i)
  THEN [plan EXCEPT ![Len(plan)] = Append(@, i)]
  ELSE Append(plan, <<i>>)
JoinsAnyEarlier(kinds, plan, i) ==
  LET mates == {n \in DOMAIN plan : Joins(kinds, plan[n], i)}
  IN IF mates # {} THEN [plan EXCEPT ![CHOOSE n \in mates : TRUE] = Append(@, i)] ELSE Append(plan, <<i>>)
Grouped(kinds, plan, i) == Joined(kinds, plan, i)
Plan(kinds) == FoldLeftDomain(LAMBDA plan, i : Grouped(kinds, plan, i), <<>>, kinds)

SendFiles(kinds, caption) ==
  /\ sending.pc = "idle" /\ kinds # <<>>
  /\ sending' = [Idle EXCEPT !.op = "files", !.pc = "opening", !.kinds = kinds, !.caption = caption]
  /\ UNCHANGED <<chat, present, album>>

(* send_message(), reply_to_message(): formatting may be described once.   *)
SendText(entities, parseMode) ==
  /\ sending.pc = "idle"
  /\ sending' = IF entities /\ parseMode
                THEN [Idle EXCEPT !.op = "files", !.pc = "replied", !.says = "refused"]
                ELSE [Idle EXCEPT !.op = "files", !.pc = "sending", !.kinds = <<Text>>, !.plan = <<<<1>>>>]
  /\ UNCHANGED <<chat, present, album>>

(* Every file is opened, and stays open, and its kind decided before the   *)
(* first is sent: a path or a kind that is refused sends nothing.          *)
Carries(kind) == ~(sending.caption /\ kind \in NoCaption)
AllOpen == sending.opened = Len(sending.kinds)

OpenFile ==
  /\ sending.pc = "opening" /\ ~AllOpen
  /\ IF Carries(sending.kinds[sending.opened + 1])
     THEN sending' = [sending EXCEPT !.opened = @ + 1]
     ELSE Replies("refused")
  /\ UNCHANGED <<chat, present, album>>

RefuseFile ==
  /\ sending.pc = "opening" /\ ~AllOpen /\ Replies("refused")
  /\ UNCHANGED <<chat, present, album>>

Planned ==
  /\ sending.pc = "opening" /\ AllOpen
  /\ sending' = [sending EXCEPT !.pc = "sending", !.plan = Plan(sending.kinds)]
  /\ UNCHANGED <<chat, present, album>>

(* send_planned(): one message per group; the caption is the first's.      *)
OnTheFirst == sending.caption /\ sending.ids = <<>>
OnEveryMessage == sending.caption
Caption == OnTheFirst

SendGroup ==
  /\ sending.pc = "sending" /\ Len(sending.ids) < Len(sending.plan)
  /\ Puts(Mine(sending.plan[Len(sending.ids) + 1], Caption))
  /\ sending' = [sending EXCEPT !.ids = Append(@, Len(chat) + 1)]
  /\ UNCHANGED <<present, album>>

SendFails ==
  /\ sending.pc = "sending" /\ Len(sending.ids) < Len(sending.plan)
  /\ \/ UNCHANGED chat
     \/ Drops /\ Puts(Mine(sending.plan[Len(sending.ids) + 1], Caption))
  /\ Replies("failed") /\ UNCHANGED <<present, album>>

TheFirstIsSent == Len(sending.ids) >= 1
Everything == Len(sending.ids) = Len(sending.plan)
AllSent ==
  /\ sending.pc = "sending" /\ Everything
  /\ Replies("sent") /\ UNCHANGED <<chat, present, album>>

(* forward_message(), copy_message(): one id, which may stand for its      *)
(* album; _album_batch() reads it and then its neighbours.                 *)
Forward(id, expand) ==
  /\ sending.pc = "idle"
  /\ sending' = [Idle EXCEPT !.op = "forward", !.anchor = id, !.batch = {id},
                             !.pc = IF expand THEN "anchoring" ELSE "forwarding"]
  /\ UNCHANGED <<chat, present, album>>

ReadAnchor ==
  /\ sending.pc = "anchoring"
  /\ sending' = [sending EXCEPT !.pc = IF sending.anchor \in album \cap present
                                       THEN "widening" ELSE "forwarding"]
  /\ UNCHANGED <<chat, present, album>>

Window == (sending.anchor - Reach)..(sending.anchor + Reach)
StopsOneShort == (sending.anchor - Reach)..(sending.anchor + Reach - 1)
Neighbours == Window

ReadNeighbours ==
  /\ sending.pc = "widening"
  /\ LET siblings == Neighbours \cap album \cap present IN
     sending' = [sending EXCEPT !.pc = "forwarding",
                                !.batch = IF Cardinality(siblings) > 1 THEN siblings ELSE @,
                                !.opened = IF Cardinality(siblings) > 1 THEN 1 ELSE 0]
  /\ UNCHANGED <<chat, present, album>>

Forwarded ==
  /\ sending.pc = "forwarding"
  /\ IF sending.batch \cap present = {}
     THEN Replies("failed") /\ UNCHANGED chat
     ELSE /\ Puts(Mine(SetToSortSeq(sending.batch \cap present, <), FALSE))
          /\ Replies("sent")
  /\ UNCHANGED <<present, album>>

ForwardFails ==
  /\ sending.pc = "forwarding"
  /\ Replies("failed") /\ UNCHANGED <<chat, present, album>>

Vanish(id) ==
  /\ sending.op = "forward" /\ sending.pc # "replied"
  /\ present' = present \ {id}
  /\ UNCHANGED <<chat, album, sending>>

Others ==
  /\ Cardinality({i \in DOMAIN chat : ~chat[i].mine}) < MaxOthers
  /\ Puts([mine |-> FALSE, files |-> <<>>, caption |-> FALSE])
  /\ UNCHANGED <<present, album, sending>>

Next ==
  \/ \E kinds \in BoundedSeq(Kind, MaxFiles), caption \in BOOLEAN : SendFiles(kinds, caption)
  \/ \E entities, parseMode \in BOOLEAN : SendText(entities, parseMode)
  \/ OpenFile \/ RefuseFile \/ Planned \/ SendGroup \/ SendFails \/ AllSent
  \/ \E id \in Id, expand \in BOOLEAN : Forward(id, expand)
  \/ ReadAnchor \/ ReadNeighbours \/ Forwarded \/ ForwardFails
  \/ \E id \in Id : Vanish(id)
  \/ Others

Spec == Init /\ [][Next]_sendsVars

----------------------------------------------------------------------------
Sent == SelectSeq(chat, LAMBDA message : message.mine)
Files == FlattenSeq([i \in DOMAIN Sent |-> Sent[i].files])

(* Whatever the kinds are and wherever a call stops: its files are in the  *)
(* chat in the order they were given, none twice, one message holds only   *)
(* what may share one, and neighbours that may share one are not split.    *)
OrderIsTheCallers ==
  sending.op = "files" =>
    /\ Files = [i \in 1..Len(Files) |-> i]
    /\ \A n \in DOMAIN Sent : \A i, j \in ToSet(Sent[n].files) :
         i # j => Joins(sending.kinds, <<i>>, j)
    /\ \A n \in 1..Len(Sent) - 1 : ~Joins(sending.kinds, Sent[n].files, Sent[n + 1].files[1])

(* A caption is written once, with the first message, and never lost.      *)
CaptionIsWrittenOnce ==
  sending.op = "files" =>
    \A n \in DOMAIN Sent : Sent[n].caption = (sending.caption /\ n = 1)

(* What a reply says holds of the chat: a refusal has put nothing there;   *)
(* "sent" names every message of the call, and they hold every file.       *)
RepliesTellWhatWasSent ==
  /\ sending.says = "refused" => Sent = <<>>
  /\ sending.op = "files" /\ sending.says = "sent" =>
       /\ Len(Files) = Len(sending.kinds)
       /\ ToSet(sending.ids) = {i \in DOMAIN chat : chat[i].mine}

(* A message that stands for its album takes all of it that is left.       *)
WholeAlbumIsTaken ==
  sending.op = "forward" /\ sending.says = "sent" /\ sending.opened = 1 =>
    album \cap present \subseteq ToSet(Files)

(* A call that fails has put nothing into the chat.                        *)
FailuresSendNothing == sending.says = "failed" => Sent = <<>>
=============================================================================

----------------------------- MODULE Membership ------------------------------
(***************************************************************************)
(* Who is in a chat, and by what: groups and channels that are created,    *)
(* joined, filled and left (tools/groups.py, tools/invites.py) and their   *)
(* invite links (tools/invite_links.py).  Telegram and the other people    *)
(* are external.                                                           *)
(*                                                                         *)
(* Abstractions.  One chat beside those the calls make, one tool call at a *)
(* time.  A link has one condition, its cap on joins; expiry, title and    *)
(* approval are edited the same way.  Titles, photos and names are text.   *)
(***************************************************************************)
EXTENDS FiniteSets, Sequences, SequencesExt, Integers

CONSTANTS
  User,     \* other people; "me" is the account
  Link,     \* the links the chat can have
  MaxLimit, \* the largest cap on joins
  MaxCalls  \* tool calls of one behaviour

MembershipAssumption ==
  "me" \notin User /\ {MaxLimit, MaxCalls} \subseteq Nat

VARIABLES
  kind,     \* of the chat: a basic group or a channel
  guarded,  \* the people whose privacy keeps them from being added
  replaces, \* whether an exported link takes the place of the primary one
  members,  \* of the chat
  waiting,  \* those whose request to join is open
  link,     \* the state of each link, its cap, and whether it asks first
  primary,  \* the chat's primary link
  made,     \* the chats the calls created: those that are public
  nameFree, \* whether the public name a call wants is free
  calls,    \* how many calls there were
  request   \* the tool call

membershipVars ==
  <<kind, guarded, replaces, members, waiting, link, primary, made, nameFree, calls, request>>

None == "none"
Unset == [state |-> None, limit |-> 0, used |-> 0, asks |-> FALSE]
Idle == [op |-> None, pc |-> "idle", left |-> {}, invited |-> {}, already |-> {}, failed |-> {},
         link |-> None, limit |-> 0, given |-> FALSE, also |-> FALSE, tries |-> 0,
         chats |-> 0, was |-> None, says |-> "nothing", lost |-> None, silent |-> {}, told |-> 0]
Ops == {"group", "channel", "invite", "leave", "redeem", "create", "export", "edit", "revoke", "approve"}

TypeOK ==
  /\ kind \in {"group", "channel"} /\ guarded \subseteq User /\ replaces \in BOOLEAN
  /\ members \subseteq User \cup {"me"} /\ waiting \subseteq User \cup {"me"}
  /\ link \in [Link -> [state : {None, "live", "revoked", "deleted"}, limit : 0..MaxLimit,
                       used : 0..MaxLimit, asks : BOOLEAN]]
  /\ primary \in Link /\ made \in Seq(BOOLEAN) /\ nameFree \in BOOLEAN /\ calls \in 0..MaxCalls
  /\ request.op \in Ops \cup {None} /\ request.left \subseteq User /\ request.told \in 0..Cardinality(User)

Init ==
  /\ kind \in {"group", "channel"} /\ guarded \in SUBSET User /\ replaces \in BOOLEAN
  /\ members \in SUBSET {"me"} /\ waiting = {} /\ primary \in Link
  /\ \E asks \in BOOLEAN : link = [l \in Link |-> IF l = primary THEN [Unset EXCEPT !.state = "live", !.asks = asks]
                                                  ELSE Unset]
  /\ made = <<>> /\ nameFree \in BOOLEAN /\ calls = 0 /\ request = Idle

----------------------------------------------------------------------------
(* Definitions whose name says what they get wrong are defects the checks  *)
(* must notice; no action uses them.                                       *)

World == <<kind, guarded, replaces>>
Chat == <<members, waiting, link, primary>>
Sets(record) == request' = record
Says(what) == Sets([request EXCEPT !.pc = "replied", !.says = what])
(* A request may take effect and its answer be lost.                       *)
Loses == Sets([request EXCEPT !.pc = "replied", !.says = "failed", !.lost = request.pc])
Live(l) == link[l].state = "live" /\ (link[l].limit = 0 \/ link[l].used < link[l].limit)

Begins(op, pc, record) ==
  /\ request.pc \in {"idle", "replied"} /\ calls < MaxCalls /\ calls' = calls + 1
  /\ Sets([record EXCEPT !.op = op, !.pc = pc, !.chats = Len(made), !.was = primary])
  /\ UNCHANGED <<World, Chat, made, nameFree>>

(* A request that is refused, or lost on the way, changes nothing.         *)
RequestFails ==
  /\ request.pc \in {"checking", "creating", "inviting", "adding", "joining", "exporting", "editing",
                     "revoking", "deleting", "deciding"}
  /\ Says("failed")
  /\ UNCHANGED <<World, Chat, made, nameFree, calls>>

----------------------------------------------------------------------------
(* create_group(), create_channel(): a public name is looked up before the *)
(* chat exists and given to it after.  An answer that names no group is    *)
(* followed by a look at the dialogs, whether or not they show it.         *)
CreateGroup == Begins("group", "creating", Idle)
CreateChannel(wanted) ==
  Begins("channel", IF wanted THEN "checking" ELSE "creating", [Idle EXCEPT !.given = wanted])

LooksFirst == request.pc = "checking" /\ nameFree
Checks ==
  /\ request.pc = "checking"
  /\ IF LooksFirst THEN Sets([request EXCEPT !.pc = "creating"]) ELSE Says("refused")
  /\ UNCHANGED <<World, Chat, made, nameFree, calls>>

Creates ==
  /\ request.pc = "creating"
  /\ made' = Append(made, FALSE)
  /\ \/ request.given /\ Sets([request EXCEPT !.pc = "made"])
     \/ ~request.given /\ Says("created")
     \/ request.op = "group" /\ Sets([request EXCEPT !.pc = "finding"])
     \/ Loses
  /\ UNCHANGED <<World, Chat, nameFree, calls>>

Finds ==
  /\ request.pc = "finding" /\ (Says("created") \/ Loses)
  /\ UNCHANGED <<World, Chat, made, nameFree, calls>>

ToldAsPrivate == "created"
ToldAsFailure == "failed"
Unnamed == ToldAsPrivate
Names ==
  /\ request.pc = "made"
  /\ IF nameFree
     THEN /\ made' = [made EXCEPT ![Len(made)] = TRUE]
          /\ nameFree' = FALSE
          /\ Says("public") \/ Says(Unnamed)
     ELSE Says(Unnamed) /\ UNCHANGED <<made, nameFree>>
  /\ UNCHANGED <<World, Chat, calls>>

NamingFails ==
  /\ request.pc = "made" /\ Says(Unnamed)
  /\ UNCHANGED <<World, Chat, made, nameFree, calls>>

----------------------------------------------------------------------------
(* invite_to_group(): a channel takes them in one request, whose answer    *)
(* counts what Telegram lists; a basic group takes them one by one, and    *)
(* may answer with a success that adds nobody.                             *)
Invite(people) ==
  Begins("invite", IF kind = "channel" THEN "inviting" ELSE "adding", [Idle EXCEPT !.left = people])

InvitesAll ==
  /\ request.pc = "inviting"
  /\ members' = members \cup (request.left \ guarded)
  /\ \/ \E told \in 0..Cardinality(User) :
          Sets([request EXCEPT !.pc = "replied", !.says = "done", !.told = told])
     \/ Loses
  /\ UNCHANGED <<World, waiting, link, primary, made, nameFree, calls>>

AddedIsInvited(person) ==
  IF person \in guarded THEN [request EXCEPT !.failed = @ \cup {person}]
  ELSE IF person \in members THEN [request EXCEPT !.already = @ \cup {person}]
  ELSE [request EXCEPT !.invited = @ \cup {person}]
EveryoneIsInvited(person) == [request EXCEPT !.invited = @ \cup {person}]
Counted(person) == AddedIsInvited(person)

Adds(person) ==
  /\ request.pc = "adding" /\ person \in request.left
  /\ members' = members \cup ({person} \ guarded)
  /\ \/ Sets([Counted(person) EXCEPT !.left = @ \ {person}])
     \/ /\ person \in guarded
        /\ Sets([request EXCEPT !.invited = @ \cup {person}, !.silent = @ \cup {person}, !.left = @ \ {person}])
     \/ Loses
  /\ UNCHANGED <<World, waiting, link, primary, made, nameFree, calls>>

AddedAll ==
  /\ request.pc = "adding" /\ request.left = {} /\ Says("done")
  /\ UNCHANGED <<World, Chat, made, nameFree, calls>>

(* leave_chat(): a basic group is asked twice, in two forms.               *)
Leave == Begins("leave", "leaving", Idle)
Tries == IF kind = "group" THEN 2 ELSE 1
Gone == members' = members \ {"me"}

Leaves ==
  /\ request.pc = "leaving"
  /\ \/ "me" \in members /\ Gone /\ Says("left")
     \/ /\ members' \in {members, members \ {"me"}}
        /\ IF request.tries + 1 < Tries THEN Sets([request EXCEPT !.tries = @ + 1]) ELSE Says("failed")
  /\ UNCHANGED <<World, waiting, link, primary, made, nameFree, calls>>

----------------------------------------------------------------------------
(* import_chat_invite(), join_chat_by_link(): a look at the link first;    *)
(* Telegram names the chat to one who is in it, or may have a peek at it.  *)
Redeem(l) == Begins("redeem", "probing", [Idle EXCEPT !.link = l])

Probes ==
  /\ request.pc = "probing"
  /\ \/ /\ Live(request.link)
        /\ Sets([request EXCEPT !.pc = "replied", !.says = "already", !.silent = {"me"} \ members])
     \/ ~("me" \in members /\ Live(request.link)) /\ Sets([request EXCEPT !.pc = "joining"])
  /\ UNCHANGED <<World, Chat, made, nameFree, calls>>
ProbeFails ==
  /\ request.pc = "probing" /\ Sets([request EXCEPT !.pc = "joining"])
  /\ UNCHANGED <<World, Chat, made, nameFree, calls>>

Admits(l, who) ==
  /\ Live(l) /\ who \notin members
  /\ IF link[l].asks
     THEN waiting' = waiting \cup {who} /\ UNCHANGED <<members, link>>
     ELSE /\ members' = members \cup {who}
          /\ link' = [link EXCEPT ![l].used = IF @ < MaxLimit THEN @ + 1 ELSE @]
          /\ UNCHANGED waiting
  /\ UNCHANGED primary

AnswerOf(l) == IF link[l].asks THEN "pending" ELSE "joined"
AnyAnswerIsAJoin(l) == "joined"
Joined(l) == AnswerOf(l)

Joins ==
  /\ request.pc = "joining"
  /\ \/ Admits(request.link, "me") /\ (Says(Joined(request.link)) \/ Loses)
     \/ "me" \in members /\ Live(request.link) /\ Says("already") /\ UNCHANGED Chat
     \/ ~Live(request.link) /\ Says("expired") /\ UNCHANGED Chat
  /\ UNCHANGED <<World, made, nameFree, calls>>

----------------------------------------------------------------------------
(* create_invite_link() and export_chat_invite() send one request, with    *)
(* and without conditions; what it does to the primary link is Telegram's. *)
CreateLink(l, limit, asks) ==
  /\ link[l].state = None
  /\ IF asks /\ limit # 0
     THEN Begins("create", "replied", [Idle EXCEPT !.says = "refused"])
     ELSE Begins("create", "exporting", [Idle EXCEPT !.link = l, !.limit = limit, !.also = asks])
ExportInvite(l) == link[l].state = None /\ Begins("export", "exporting", [Idle EXCEPT !.link = l])

Plain == request.limit = 0 /\ ~request.also
Exports ==
  /\ request.pc = "exporting"
  /\ LET minted == [link EXCEPT ![request.link] = [Unset EXCEPT !.state = "live", !.limit = request.limit,
                                                                  !.asks = request.also]]
     IN IF Plain /\ replaces
        THEN link' = [minted EXCEPT ![primary].state = "revoked"] /\ primary' = request.link
        ELSE link' = minted /\ UNCHANGED primary
  /\ Says("minted") \/ Loses
  /\ UNCHANGED <<World, members, waiting, made, nameFree, calls>>

(* edit_invite_link(): a condition that is omitted is not sent, and stays; *)
(* zero is sent, and clears it.                                            *)
EditLink(l, limit, given) ==
  /\ link[l].state # None
  /\ IF given THEN Begins("edit", "editing", [Idle EXCEPT !.link = l, !.limit = limit, !.given = TRUE])
     ELSE Begins("edit", "replied", [Idle EXCEPT !.says = "refused"])
EditOther(l) == link[l].state # None /\ Begins("edit", "editing", [Idle EXCEPT !.link = l])

SendsWhatIsGiven == request.given
SendsWhatIsNotZero == request.given /\ request.limit # 0
Sent == SendsWhatIsGiven

EditsLink ==
  /\ request.pc = "editing" /\ link[request.link].state = "live"
  /\ link' = IF Sent THEN [link EXCEPT ![request.link].limit = request.limit] ELSE link
  /\ Says("changed") \/ Loses
  /\ UNCHANGED <<World, members, waiting, primary, made, nameFree, calls>>

(* revoke_invite_link(): revoked first, and then, if asked, off the list.  *)
RevokeLink(l, delete) ==
  link[l].state # None /\ Begins("revoke", "revoking", [Idle EXCEPT !.link = l, !.also = delete])

RevokesFirst == "revoked"
DeletesAtOnce == IF request.also THEN link[request.link].state ELSE "revoked"
Revoked == RevokesFirst

Revokes ==
  /\ request.pc = "revoking" /\ link[request.link].state \in {"live", "revoked"}
  /\ link' = [link EXCEPT ![request.link].state = Revoked]
  /\ \/ IF request.also THEN Sets([request EXCEPT !.pc = "deleting"]) ELSE Says("revoked")
     \/ Loses
  /\ UNCHANGED <<World, members, waiting, primary, made, nameFree, calls>>

DeletesLink ==
  /\ request.pc = "deleting"
  /\ link' = [link EXCEPT ![request.link].state = IF @ = "revoked" THEN "deleted" ELSE @]
  /\ Says("revoked") \/ Loses
  /\ UNCHANGED <<World, members, waiting, primary, made, nameFree, calls>>

(* approve_join_request()                                                  *)
Approve(person, approved) ==
  Begins("approve", "deciding", [Idle EXCEPT !.left = {person}, !.given = approved])

Decides ==
  /\ request.pc = "deciding" /\ request.left \subseteq waiting
  /\ waiting' = waiting \ request.left
  /\ members' = IF request.given THEN members \cup request.left ELSE members
  /\ Says("decided") \/ Loses
  /\ UNCHANGED <<World, link, primary, made, nameFree, calls>>

----------------------------------------------------------------------------
(* Other people, and the end of a call.                                    *)
OtherJoins(person, l) == Admits(l, person) /\ UNCHANGED <<World, made, nameFree, calls, request>>
NameIsTaken ==
  /\ request.op = "channel" /\ nameFree /\ nameFree' = FALSE
  /\ UNCHANGED <<World, Chat, made, calls, request>>
Next ==
  \/ RequestFails \/ CreateGroup \/ Checks \/ Creates \/ Finds \/ Names \/ NamingFails
  \/ InvitesAll \/ AddedAll \/ Leave \/ Leaves \/ Probes \/ ProbeFails \/ Joins \/ Exports \/ EditsLink
  \/ Revokes \/ DeletesLink \/ Decides \/ NameIsTaken
  \/ \E wanted \in BOOLEAN : CreateChannel(wanted)
  \/ \E people \in (SUBSET User) \ {{}} : Invite(people)
  \/ \E person \in User :
       \/ Adds(person)
       \/ \E approved \in BOOLEAN : Approve(person, approved)
       \/ \E l \in Link : OtherJoins(person, l)
  \/ \E l \in Link :
       \/ Redeem(l) \/ ExportInvite(l) \/ EditOther(l)
       \/ \E limit \in 0..MaxLimit, flag \in BOOLEAN : CreateLink(l, limit, flag) \/ EditLink(l, limit, flag)
       \/ \E delete \in BOOLEAN : RevokeLink(l, delete)

Spec == Init /\ [][Next]_membershipVars

----------------------------------------------------------------------------
(* What a reply says of the chat is so when it is said: who was added, who *)
(* was there, who could not be; a join that waits for an admin is not a    *)
(* join; a link has the conditions the caller named; revoked is revoked.   *)
(* Telegram may say less than it did: a peek, or an add that added nobody. *)
HoldsOf(r) ==
  CASE r.op = "invite" /\ r.says = "done" ->
         r.invited \cup r.already \subseteq members \cup r.silent /\ r.failed \cup r.silent \subseteq guarded
    [] r.says = "joined"                  -> "me" \in members
    [] r.says = "already"                 -> "me" \in members \cup r.silent
    [] r.says = "pending"                 -> "me" \in waiting \ members
    [] r.says = "left"                    -> "me" \notin members
    [] r.says = "changed"                 -> r.given => link[r.link].limit = r.limit
    [] r.says = "revoked"                 -> link[r.link].state \in {"revoked", "deleted"}
    [] r.says = "public"                  -> Last(made)
    [] OTHER                              -> TRUE
RepliesAreSo ==
  [][request.pc # "replied" /\ request'.pc = "replied" => HoldsOf(request)']_membershipVars

(* A call that fails or refuses has made no chat its caller is not told    *)
(* of, whatever becomes of the public name meanwhile, but where the answer *)
(* to the creation is lost, or the look at the dialogs after it fails.     *)
EveryChatIsTold ==
  /\ request.says = "refused" => Len(made) = request.chats
  /\ request.says = "failed" => Len(made) = request.chats \/ request.lost \in {"creating", "finding"}

(* "... rather than reporting a failure that would send the caller to      *)
(* create a second one" (groups.py:120-124, where the name fails).         *)
(* create_group() reports one when its look at the dialogs fails (75-85).  *)
FailuresMakeNoChat == request.says = "failed" => Len(made) = request.chats

(* "Successfully invited N users" (groups.py:593-595).  N is what the      *)
(* answer lists, not who was added.                                        *)
InvitesAreCounted ==
  request.op = "invite" /\ request.says = "done" =>
    /\ request.silent = {}
    /\ kind = "channel" => request.told <= Cardinality(request.left \cap members)

(* "Telegram answers with the chat itself only for a chat already joined"  *)
(* (invites.py:183).  It may also answer with a peek at one.               *)
AlreadyIsAMember == [][request'.says = "already" => request'.silent = {}]_membershipVars

(* Changing a link changes nothing its caller did not name, and no other.  *)
OnlyTheGivenLimitChanges ==
  \A l \in Link : link[l].limit # link'[l].limit /\ link[l].state = "live" =>
    request.pc = "editing" /\ request.link = l /\ request.given
OmittedConditionsStay == [][OnlyTheGivenLimitChanges]_membershipVars

(* A link that is made beside the primary one leaves it working; one that  *)
(* is made to replace it does not.                                         *)
ExportsAreAsDescribed ==
  request.says = "minted" =>
    /\ request.op = "create" => link[request.was].state = "live"
    /\ request.op = "export" => link[request.was].state # "live"

(* Why, as an inductive invariant: the link a call is about to make does   *)
(* not exist yet.                                                          *)
Inv ==
  /\ DOMAIN link = Link /\ link = [l \in Link |-> link[l]] /\ DOMAIN request = DOMAIN Idle
  /\ \A l \in Link : DOMAIN link[l] = DOMAIN Unset
  /\ request.pc = "exporting" => request.link \in Link /\ link[request.link].state = None

(* And why its replies are so: until it answers, a call has told nothing,  *)
(* has made no chat but the one it is naming, and counted as invited only  *)
(* who is in the chat.                                                     *)
HasTold ==
  /\ request.pc # "replied" => request.says = "nothing"
  /\ request.pc \notin {"made", "finding", "replied"} => Len(made) = request.chats
  /\ EveryChatIsTold

HasInvited ==
  /\ request.invited \cup request.already \subseteq members \cup request.silent
  /\ request.failed \cup request.silent \subseteq guarded

Meant ==
  /\ made \in Seq(BOOLEAN) /\ HasTold
  /\ request.pc = "made" => made # <<>>
  /\ request.pc \in {"inviting", "adding"} => HasInvited
  /\ request.pc \in {"editing", "revoking", "deleting"} => request.link \in Link
  /\ request.pc = "deleting" => link[request.link].state \in {"revoked", "deleted"}
=============================================================================

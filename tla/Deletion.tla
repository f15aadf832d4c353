------------------------------ MODULE Deletion ------------------------------
(***************************************************************************)
(* The deleting tools of telegram_mcp/tools/messages_delete.py over one    *)
(* chat: one message, a list of them in chunks, and the whole history in   *)
(* passes; what each asks Telegram (external) to remove, and what its      *)
(* reply says became of it.                                                *)
(*                                                                         *)
(* Abstractions.  Outside a channel a request names no chat, so a private  *)
(* chat shares its ids with another one.  A request is performed whole or  *)
(* refused; unanswered, it was performed or not.  The clock of a history's *)
(* deadline may run out between any two passes, or under one.              *)
(***************************************************************************)
EXTENDS FiniteSets, Sequences, SequencesExt, Integers

CONSTANTS
  Id,
  ElsewhereId, \* ids that are messages of the other chat
  DeleteChunk, \* _DELETE_CHUNK
  MaxPasses    \* _DELETE_HISTORY_MAX_PASSES

DeletionAssumption ==
  /\ IsFiniteSet(Id) /\ ElsewhereId \subseteq Id /\ ElsewhereId # Id
  /\ {DeleteChunk, MaxPasses} \subseteq Nat \ {0}

VARIABLES
  kind,    \* of the chat: a channel, or a chat between two
  copies,  \* who still has which message
  removed, \* copies the requests of the call took away
  deleting \* the call and its reply

deletionVars == <<kind, copies, removed, deleting>>

Side == {"mine", "theirs"}
Nothing == [gone |-> {}, unknown |-> {}, rejected |-> {}, unsent |-> {}, error |-> "none"]
Idle == [op |-> "none", pc |-> "idle", ids |-> {}, revoke |-> FALSE, targets |-> <<>>,
         sent |-> 0, passes |-> 0, offset |-> -1, says |-> "nothing", report |-> Nothing]

TypeOK ==
  /\ kind \in {"channel", "private"}
  /\ copies \subseteq Id \X Side /\ removed \subseteq Id \X Side
  /\ deleting.op \in {"none", "single", "bulk", "history"}
  /\ deleting.pc \in {"idle", "looking", "deleting", "replied"}
  /\ deleting.ids \subseteq Id /\ deleting.revoke \in BOOLEAN
  /\ deleting.targets \in Seq(Id) /\ deleting.sent \in 0..Len(deleting.targets)
  /\ deleting.passes \in 0..MaxPasses /\ deleting.offset \in -1..Cardinality(Id)
  /\ DOMAIN deleting.report = DOMAIN Nothing

Own == IF kind = "channel" THEN Id ELSE Id \ ElsewhereId
Present == {id \in Id : <<id, "mine">> \in copies}

Init ==
  /\ kind \in {"channel", "private"}
  /\ copies \in {Id \X Side, (Id \X Side) \ {<<CHOOSE id \in Own : TRUE, s>> : s \in Side}}
  /\ removed = {}
  /\ deleting = Idle

----------------------------------------------------------------------------
(* Definitions whose name says what they get wrong are defects the checks  *)
(* must notice; no action uses them.                                       *)

Replies(says, report) ==
  deleting' = [deleting EXCEPT !.pc = "replied", !.says = says, !.report = report]

(* What a request takes away.  A channel keeps one copy for everyone.      *)
Affected(ids, revoke) ==
  copies \cap (ids \X (IF revoke \/ kind = "channel" THEN Side ELSE {"mine"}))

Performs(ids) ==
  /\ copies' = copies \ Affected(ids, deleting.revoke)
  /\ removed' = removed \cup Affected(ids, deleting.revoke)

MayPerform(ids) == Performs(ids) \/ UNCHANGED <<copies, removed>>

(* delete_message(), delete_messages_bulk(): the private-only refusal, then *)
(* the ids are looked up, unless the request will name the channel.        *)
Asked(op, ids, revoke) ==
  [Idle EXCEPT !.op = op, !.ids = ids, !.revoke = revoke,
               !.pc = IF kind = "channel" THEN "deleting" ELSE "looking",
               !.targets = IF kind = "channel" THEN SetToSeq(ids) ELSE <<>>]

PrivateOnly(revoke) == kind = "channel" /\ ~revoke

Ask(op, ids, revoke) ==
  /\ deleting.pc = "idle"
  /\ deleting' = IF PrivateOnly(revoke)
                 THEN [Idle EXCEPT !.op = op, !.ids = ids, !.pc = "replied", !.says = "refused"]
                 ELSE Asked(op, ids, revoke)
  /\ UNCHANGED <<kind, copies, removed>>

DeleteMessage(id, revoke) == Ask("single", {id}, revoke)
DeleteMessagesBulk(ids, revoke) == Ask("bulk", ids, revoke)

(* _ids_that_live_here()                                                   *)
TrustsTheIds == [here |-> deleting.ids, elsewhere |-> {}]
LookUp ==
  [here      |-> deleting.ids \cap Present \cap Own,
   elsewhere |-> (deleting.ids \cap Present) \ Own]

Preflight ==
  /\ deleting.pc = "looking"
  /\ IF LookUp.elsewhere # {} THEN Replies("refused", Nothing)
     ELSE IF LookUp.here = {} THEN Replies("nothing", Nothing)
     ELSE deleting' = [deleting EXCEPT !.pc = "deleting", !.targets = SetToSeq(LookUp.here)]
  /\ UNCHANGED <<kind, copies, removed>>

(* The other party, or another device, deletes a message for both.         *)
Vanish(id) ==
  /\ deleting.pc \in {"looking", "deleting"}
  /\ copies' = copies \ ({id} \X Side)
  /\ UNCHANGED <<kind, removed, deleting>>

(* A slice of the targets: past the end it has no more than there are.     *)
Part(from, to) == {deleting.targets[k] : k \in from..to}
Whole == deleting.sent + DeleteChunk >= Len(deleting.targets)
Through == IF Whole THEN Len(deleting.targets) ELSE deleting.sent + DeleteChunk
Batch == Part(deleting.sent + 1, Through)

AtRequest(op) == deleting.pc = "deleting" /\ deleting.op = op

(* One message: the reply is of the one request.                           *)
SingleAnswered ==
  /\ AtRequest("single")
  /\ Performs(deleting.ids)
  /\ Replies("deleted", [Nothing EXCEPT !.gone = deleting.ids])
  /\ UNCHANGED kind

SingleFails ==
  /\ AtRequest("single")
  /\ MayPerform(deleting.ids)
  /\ Replies("error", Nothing)
  /\ UNCHANGED kind

(* A list: chunk after chunk, stopped by the first that raises.            *)
ChunkAnswered ==
  /\ AtRequest("bulk")
  /\ Performs(Batch)
  /\ IF Whole THEN Replies("deleted", [Nothing EXCEPT !.gone = ToSet(deleting.targets)])
     ELSE deleting' = [deleting EXCEPT !.sent = @ + DeleteChunk]
  /\ UNCHANGED kind

(* Only a TimeoutError counts as lost.  Every other error reads as a       *)
(* refusal, and is named: Telegram's own, or the connection's.             *)
CountsAsLost(error) == error = "timeout"
NothingIsLost(error) == FALSE
IsLost(error) == CountsAsLost(error)

PartWay(error) ==
  [gone     |-> Part(1, deleting.sent),
   unknown  |-> IF IsLost(error) THEN Batch ELSE {},
   rejected |-> IF IsLost(error) THEN {} ELSE Batch,
   unsent   |-> Part(Through + 1, Len(deleting.targets)),
   error    |-> error]

ChunkStops(error) == AtRequest("bulk") /\ Replies("partway", PartWay(error)) /\ UNCHANGED kind

ChunkRefused   == ChunkStops("refusal") /\ UNCHANGED <<copies, removed>>
ChunkTimesOut  == ChunkStops("timeout") /\ MayPerform(Batch)
ConnectionLost == ChunkStops("connection") /\ MayPerform(Batch)

----------------------------------------------------------------------------
(* delete_chat_history() *)

DeleteChatHistory(revoke) ==
  /\ deleting.pc = "idle" /\ kind = "private"
  /\ deleting' = [Idle EXCEPT !.op = "history", !.pc = "deleting", !.ids = Own, !.revoke = revoke]
  /\ UNCHANGED <<kind, copies, removed>>

ClearsOnTheFirstAnswer(passes, remaining) == "cleared"

(* A remainder that does not shrink ends the loop, as the passes do.       *)
AfterAPass(passes, remaining) ==
  IF remaining = 0 THEN "cleared"
  ELSE IF deleting.offset # -1 /\ remaining >= deleting.offset THEN "some"
  ELSE IF passes = MaxPasses THEN "some"
  ELSE "again"

(* The server removes some, and answers zero when nothing is left.         *)
PassAnswered(ids, remaining) ==
  /\ AtRequest("history")
  /\ Performs(ids)
  /\ (remaining = 0) <=> (deleting.ids \cap Present \subseteq ids)
  /\ LET passes == deleting.passes + 1
         outcome == AfterAPass(passes, remaining)
         counted == [deleting EXCEPT !.passes = passes, !.offset = remaining]
     IN deleting' = IF outcome = "again" THEN counted
                    ELSE [counted EXCEPT !.pc = "replied", !.says = outcome]
  /\ UNCHANGED kind

NothingIsKnown == IF deleting.passes = 0 THEN "unknown" ELSE "some"

PassTimesOut(ids) ==
  /\ AtRequest("history")
  /\ MayPerform(ids)
  /\ Replies(NothingIsKnown, Nothing)
  /\ UNCHANGED kind

DeadlinePasses ==
  /\ AtRequest("history") /\ deleting.passes > 0
  /\ Replies("some", Nothing)
  /\ UNCHANGED <<kind, copies, removed>>

----------------------------------------------------------------------------
Next ==
  \/ \E id \in Id, revoke \in BOOLEAN : DeleteMessage(id, revoke)
  \/ \E ids \in (SUBSET Id) \ {{}}, revoke \in BOOLEAN : DeleteMessagesBulk(ids, revoke)
  \/ \E revoke \in BOOLEAN : DeleteChatHistory(revoke)
  \/ Preflight
  \/ \E id \in Own : Vanish(id)
  \/ SingleAnswered \/ SingleFails
  \/ ChunkAnswered \/ ChunkRefused \/ ChunkTimesOut \/ ConnectionLost
  \/ \E ids \in SUBSET (deleting.ids \cap Present) :
       \/ PassTimesOut(ids)
       \/ \E remaining \in 0..Cardinality(Id) : PassAnswered(ids, remaining)
  \/ DeadlinePasses

Spec == Init /\ [][Next]_deletionVars

----------------------------------------------------------------------------
(* A call removes only messages it named of the chat it named, and the     *)
(* other party's copy only where it said so.                               *)
OnlyTheNamedGo ==
  /\ removed \subseteq (deleting.ids \cap Own) \X Side
  /\ ~deleting.revoke => removed \subseteq Id \X {"mine"}

TakenIds == {r[1] : r \in removed}

(* A reply that says what is gone, unsent, refused by Telegram or cleared  *)
(* is right, and what was removed is told: as gone, as not known, or under *)
(* the error of a connection that was lost.                                *)
DeletionIsToldAsItWas ==
  deleting.pc = "replied" =>
    LET told == deleting.report
    IN /\ told.gone \cap Present = {} /\ told.unsent \cap TakenIds = {}
       /\ told.error # "connection" => told.rejected \cap TakenIds = {}
       /\ deleting.says \in {"deleted", "partway"} => TakenIds \subseteq told.gone \cup told.unknown \cup told.rejected
       /\ deleting.says \in {"refused", "nothing"} => removed = {}
       /\ deleting.says = "cleared" => deleting.ids \cap Present = {}

(* "A LOST RESPONSE IS NOT A FAILURE" (messages_delete.py:387-391).  It    *)
(* does not hold: a connection that is lost after the request took effect  *)
(* is told as a rejection.                                                 *)
RejectedIsStillThere ==
  deleting.pc = "replied" => deleting.report.rejected \cap TakenIds = {}

(* Why, as an inductive invariant: a request is made for ids that live     *)
(* here, what is removed is of the chunks that were sent, and what those   *)
(* named is gone.                                                          *)
IsADeletion(record) == DOMAIN record = DOMAIN Idle /\ DOMAIN record.report = DOMAIN Nothing
IsAllowed ==
  /\ deleting.ids \subseteq Id
  /\ deleting.pc = "deleting" =>
       /\ kind = "channel" => deleting.revoke
       /\ deleting.op \in {"single", "history"} => deleting.ids \subseteq Own
ElsewhereStays == \A id \in Id \ Own : id \in Present
IsBatched ==
  deleting.pc = "deleting" /\ deleting.op = "bulk" =>
    /\ deleting.targets \in Seq(deleting.ids \cap Own) /\ deleting.sent \in 0..Len(deleting.targets)
    /\ IsInjective(deleting.targets)
    /\ Part(1, deleting.sent) \cap Present = {} /\ TakenIds \subseteq Part(1, deleting.sent)
NothingIsRemovedYet == deleting.pc \in {"idle", "looking"} => removed = {} /\ deleting.sent = 0
NothingIsToldYet == deleting.pc # "replied" => deleting.report = Nothing
Inv ==
  /\ kind \in {"channel", "private"} /\ IsADeletion(deleting)
  /\ deleting.pc \in {"idle", "looking", "deleting", "replied"} /\ deleting.op \in {"none", "single", "bulk", "history"}
  /\ deleting.pc = "looking" => kind = "private" /\ deleting.op \in {"single", "bulk"}
  /\ IsAllowed /\ ElsewhereStays /\ IsBatched /\ NothingIsRemovedYet /\ NothingIsToldYet
  /\ OnlyTheNamedGo /\ DeletionIsToldAsItWas
=============================================================================

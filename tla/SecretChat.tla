----------------------------- MODULE SecretChat -----------------------------
(***************************************************************************)
(* One secret chat under the tools of telegram_mcp/tools/secret_*.py and   *)
(* the record secret_history.py keeps of it: the timer that is armed       *)
(* around a send and put back, the plaintext history in memory and on      *)
(* disk, deletions, and the scratch file of a copied message.              *)
(*                                                                         *)
(* Abstractions.  A message is the number of its sending.  The manager     *)
(* (external) sends, deletes and sets the timer at one await each; a call  *)
(* of it that raises did nothing, unless LateTimer says it may have.  The  *)
(* history file holds this chat alone; writing it is one step that may     *)
(* fail.  A restart ends every call and reads the file again.              *)
(***************************************************************************)
EXTENDS Naturals, Sequences, SequencesExt

CONSTANTS
  Call,
  Seconds,     \* timers a call may ask for
  HistoryMax,  \* _PER_CHAT_LIMIT
  MaxMessages, \* bound: messages in the chat
  MaxRestarts, \* bound: restarts of the server
  Overlap,     \* whether two calls may move the timer at once
  LateTimer,   \* whether set_ttl() may be cancelled, or raise having taken effect
  SameSecond   \* whether two copies may begin within one second

NoOne == "none"

SecretChatAssumption ==
  /\ Seconds \subseteq Nat \ {0}
  /\ HistoryMax \in Nat \ {0}
  /\ MaxMessages \in Nat
  /\ MaxRestarts \in Nat
  /\ {Overlap, LateTimer, SameSecond} \subseteq BOOLEAN
  /\ NoOne \notin Call

VARIABLES
  timer,    \* the chat's self-destruct timer
  chosen,   \* the timer its owner chose last
  broken,   \* a timer was not put back: its restore failed, or the server went down
  told,     \* the reply to that call said that the chat is still armed
  sent,     \* how many messages the chat has carried
  kept,     \* messages a reply reported sent
  gone,     \* messages a reply reported deleted
  wiped,    \* messages both devices deleted or cleared
  swept,    \* messages a clear dropped from the history
  log,      \* every message record() was called with, in that order
  memory,   \* _cache: the history as the tools read it
  disk,     \* the history file
  scratch,  \* whose bytes the scratch file of this second holds
  restarts,
  call

timerVars   == <<timer, chosen, broken, told>>
historyVars == <<memory, disk, log, kept, gone, wiped, swept>>
chatVars    == <<timerVars, sent, historyVars, scratch, restarts, call>>

Timer   == Seconds \cup {0}
Message == 1..MaxMessages
CallRecord ==
  [op : {"timed", "plain", "timer", "delete", "clear", "copy"},
   pc : {"idle", "arming", "sending", "restoring", "setting", "deleting", "flushing", "flushed"},
   seconds : Timer, previous : Timer, id : Message \cup {0}, cancelled : BOOLEAN]

TypeOK ==
  /\ {timer, chosen} \subseteq Timer
  /\ {broken, told} \subseteq BOOLEAN
  /\ sent \in 0..MaxMessages
  /\ kept \subseteq Message /\ gone \subseteq Message
  /\ wiped \subseteq Message /\ swept \subseteq Message
  /\ {memory, disk, log} \subseteq Seq(Message)
  /\ scratch \in Call \cup {NoOne}
  /\ restarts \in 0..MaxRestarts
  /\ call \in [Call -> CallRecord]

Idle == [op |-> "plain", pc |-> "idle", seconds |-> 0, previous |-> 0, id |-> 0, cancelled |-> FALSE]

Init ==
  /\ timer \in Timer /\ chosen = timer
  /\ broken = FALSE /\ told = FALSE
  /\ sent = 0 /\ kept = {} /\ gone = {} /\ wiped = {} /\ swept = {}
  /\ memory = <<>> /\ disk = <<>> /\ log = <<>>
  /\ scratch = NoOne
  /\ restarts = 0
  /\ call = [c \in Call |-> Idle]

----------------------------------------------------------------------------
(* secret_history: the cache is changed first, then written out.           *)
(* Definitions whose name says what they get wrong are defects the checks  *)
(* must notice; no action uses them.                                       *)

(* record(): at most HistoryMax, the oldest dropped.                       *)
KeepsTheOldest(id) == SubSeq(Append(memory, id), 1, HistoryMax)
Recorded(id) ==
  LET all == Append(memory, id)
  IN IF Len(all) > HistoryMax THEN Tail(all) ELSE all

(* forget(), of a message that a history holds at most once (IsAHistory).  *)
Without(id) ==
  IF id \in ToSet(memory) THEN RemoveAt(memory, CHOOSE i \in DOMAIN memory : memory[i] = id) ELSE memory

(* _flush(): the file is replaced whole, or the caller hears of a failure. *)
Flush(history, written) ==
  /\ memory' = history
  /\ disk' = IF written THEN history ELSE disk

Remembers(id, written) == Flush(Recorded(id), written) /\ log' = Append(log, id)

----------------------------------------------------------------------------
Ends(c) == call' = [call EXCEPT ![c] = Idle]
Goes(c, pc) == call' = [call EXCEPT ![c].pc = pc]
Begins(c, record) == call[c].pc = "idle" /\ call' = [call EXCEPT ![c] = record]

MovesTheTimer(c) == call[c].op \in {"timed", "timer"} /\ call[c].pc # "idle"
TimerIsFree == Overlap \/ \A c \in Call : ~MovesTheTimer(c)

(* send_timed_secret_*(): the timer the chat has is read, then armed.      *)
TimedSend(s) == [Idle EXCEPT !.op = "timed", !.pc = "arming", !.seconds = s, !.previous = timer]

BeginTimed(c, s) ==
  /\ TimerIsFree
  /\ Begins(c, TimedSend(s))
  /\ UNCHANGED <<timerVars, sent, historyVars, scratch, restarts>>

Arm(c) ==
  /\ call[c].pc = "arming"
  /\ timer' = call[c].seconds
  /\ Goes(c, "sending")
  /\ UNCHANGED <<chosen, broken, told, sent, historyVars, scratch, restarts>>

(* set_ttl() is outside the try: nothing is put back.                      *)
ArmFails(c) ==
  /\ call[c].pc = "arming"
  /\ timer' \in {timer} \cup (IF LateTimer THEN {call[c].seconds} ELSE {})
  /\ Ends(c)
  /\ UNCHANGED <<chosen, broken, told, sent, historyVars, scratch, restarts>>

(* The send under the timer returns, raises, or is cancelled, after the    *)
(* message went out or before.                                             *)
SendReturns(c) ==
  /\ call[c].op = "timed" /\ call[c].pc = "sending" /\ sent < MaxMessages
  /\ sent' = sent + 1
  /\ call' = [call EXCEPT ![c].pc = "restoring", ![c].id = sent + 1]
  /\ UNCHANGED <<timerVars, historyVars, scratch, restarts>>

SendRaises(c) ==
  /\ call[c].op = "timed" /\ call[c].pc = "sending"
  /\ Goes(c, "restoring")
  /\ UNCHANGED <<timerVars, sent, historyVars, scratch, restarts>>

DisarmsNothing(c) ==
  /\ call[c].op = "timed" /\ call[c].pc = "sending"
  /\ Ends(c)
  /\ UNCHANGED <<timerVars, sent, historyVars, scratch, restarts>>

SendCancelled(c) ==
  /\ call[c].op = "timed" /\ call[c].pc = "sending"
  /\ sent' \in {sent, sent + 1} \cap 0..MaxMessages
  /\ call' = [call EXCEPT ![c].pc = "restoring", ![c].cancelled = TRUE]
  /\ UNCHANGED <<timerVars, historyVars, scratch, restarts>>

(* What was sent is recorded before the reply is made; a cancelled call    *)
(* and one whose record could not be written make no reply of their own.   *)
Concludes(c, armed, written) ==
  LET id == call[c].id
      replies == ~call[c].cancelled /\ (id = 0 \/ written)
  IN /\ IF id # 0 THEN Remembers(id, written) ELSE UNCHANGED <<memory, disk, log>>
     /\ kept' = IF id # 0 /\ replies THEN kept \cup {id} ELSE kept
     /\ told' = (told \/ (armed /\ replies))
     /\ Ends(c)

Restore(c) ==
  /\ call[c].pc = "restoring"
  /\ timer' = call[c].previous
  /\ \E written \in BOOLEAN : Concludes(c, FALSE, written)
  /\ UNCHANGED <<chosen, broken, sent, gone, wiped, swept, scratch, restarts>>

RestoreFails(c) ==
  /\ call[c].pc = "restoring"
  /\ broken' = TRUE
  /\ \E written \in BOOLEAN : Concludes(c, TRUE, written)
  /\ UNCHANGED <<timer, chosen, sent, gone, wiped, swept, scratch, restarts>>

RestoreCancelled(c) ==
  /\ call[c].pc = "restoring"
  /\ timer' \in {call[c].previous} \cup (IF LateTimer THEN {timer} ELSE {})
  /\ Ends(c)
  /\ UNCHANGED <<chosen, broken, told, sent, historyVars, scratch, restarts>>

(* set_secret_chat_timer()                                                 *)
BeginTimer(c, s) ==
  /\ TimerIsFree
  /\ Begins(c, [Idle EXCEPT !.op = "timer", !.pc = "setting", !.seconds = s])
  /\ UNCHANGED <<timerVars, sent, historyVars, scratch, restarts>>

SetTimer(c) ==
  /\ call[c].pc = "setting"
  /\ timer' = call[c].seconds /\ chosen' = call[c].seconds
  /\ broken' = FALSE /\ told' = FALSE
  /\ Ends(c)
  /\ UNCHANGED <<sent, historyVars, scratch, restarts>>

----------------------------------------------------------------------------
(* send_secret_message(), send_secret_media(): record follows the send.    *)
BeginSend(c) ==
  /\ Begins(c, [Idle EXCEPT !.op = "plain", !.pc = "sending"])
  /\ UNCHANGED <<timerVars, sent, historyVars, scratch, restarts>>

Delivers(c, written) ==
  /\ sent' = sent + 1
  /\ Remembers(sent + 1, written)
  /\ kept' = IF written THEN kept \cup {sent + 1} ELSE kept

PlainSendReturns(c) ==
  /\ call[c].op = "plain" /\ call[c].pc = "sending" /\ sent < MaxMessages
  /\ \E written \in BOOLEAN : Delivers(c, written)
  /\ Ends(c)
  /\ UNCHANGED <<timerVars, gone, wiped, swept, scratch, restarts>>

(* A call that fails or is cancelled at its request.                       *)
CallFails(c) ==
  /\ \/ call[c].op \in {"plain", "copy"} /\ call[c].pc = "sending"
     \/ call[c].pc \in {"setting", "deleting", "flushing"}
  /\ scratch' = IF call[c].op = "copy" THEN NoOne ELSE scratch
  /\ Ends(c)
  /\ UNCHANGED <<timerVars, sent, historyVars, restarts>>

(* record_received(), from the package's dispatch.                         *)
Receive ==
  /\ sent < MaxMessages
  /\ sent' = sent + 1
  /\ \E written \in BOOLEAN : Remembers(sent + 1, written)
  /\ UNCHANGED <<timerVars, kept, gone, wiped, swept, scratch, restarts, call>>

(* delete_secret_message(): for both sides, then from the record.          *)
BeginDelete(c, id) ==
  /\ Begins(c, [Idle EXCEPT !.op = "delete", !.pc = "deleting", !.id = id])
  /\ UNCHANGED <<timerVars, sent, historyVars, scratch, restarts>>

ReportsAnUnwrittenDelete(c) ==
  /\ call[c].pc = "deleting"
  /\ \E written \in BOOLEAN : Flush(Without(call[c].id), written)
  /\ gone' = gone \cup {call[c].id}
  /\ wiped' = wiped \cup {call[c].id}
  /\ Ends(c)
  /\ UNCHANGED <<timerVars, sent, log, kept, swept, scratch, restarts>>

DeleteReturns(c) ==
  /\ call[c].pc = "deleting"
  /\ \E written \in BOOLEAN :
       /\ Flush(Without(call[c].id), written)
       /\ gone' = IF written THEN gone \cup {call[c].id} ELSE gone
  /\ wiped' = wiped \cup {call[c].id}
  /\ Ends(c)
  /\ UNCHANGED <<timerVars, sent, log, kept, swept, scratch, restarts>>

(* clear_secret_history(): both devices clear what they hold, the request  *)
(* returns, and the record of the chat is dropped.                         *)
BeginClear(c) ==
  /\ Begins(c, [Idle EXCEPT !.op = "clear", !.pc = "flushing"])
  /\ UNCHANGED <<timerVars, sent, historyVars, scratch, restarts>>

DevicesClear(c) ==
  /\ call[c].pc = "flushing"
  /\ wiped' = wiped \cup 1..sent
  /\ Goes(c, "flushed")
  /\ UNCHANGED <<timerVars, sent, memory, disk, log, kept, gone, swept, scratch, restarts>>

ClearReturns(c) ==
  /\ call[c].pc = "flushed"
  /\ \E written \in BOOLEAN : Flush(<<>>, written)
  /\ swept' = swept \cup ToSet(memory)
  /\ Ends(c)
  /\ UNCHANGED <<timerVars, sent, log, kept, gone, wiped, scratch, restarts>>

(* copy_into_secret_chat(): the bytes cross through a file named for the   *)
(* second; a file another copy removed fails the upload.                   *)
BeginCopy(c) ==
  /\ SameSecond \/ scratch = NoOne
  /\ Begins(c, [Idle EXCEPT !.op = "copy", !.pc = "sending"])
  /\ scratch' = c
  /\ UNCHANGED <<timerVars, sent, historyVars, restarts>>

CopyReturns(c) ==
  /\ call[c].op = "copy" /\ call[c].pc = "sending" /\ scratch # NoOne /\ sent < MaxMessages
  /\ \E written \in BOOLEAN : Delivers(c, written)
  /\ scratch' = NoOne
  /\ Ends(c)
  /\ UNCHANGED <<timerVars, gone, wiped, swept, restarts>>

(* The server goes down and comes up: _load() reads the file.              *)
Restart ==
  /\ restarts < MaxRestarts
  /\ restarts' = restarts + 1
  /\ memory' = disk
  /\ broken' = (broken \/ \E c \in Call : call[c].pc \in {"sending", "restoring"} /\ MovesTheTimer(c))
  /\ call' = [c \in Call |-> Idle]
  /\ scratch' = NoOne
  /\ UNCHANGED <<timer, chosen, told, sent, disk, log, kept, gone, wiped, swept>>

Next ==
  \/ \E c \in Call :
       \/ \E s \in Seconds : BeginTimed(c, s)
       \/ \E s \in Timer : BeginTimer(c, s)
       \/ \E id \in ToSet(memory) : BeginDelete(c, id)
       \/ BeginSend(c) \/ BeginClear(c) \/ BeginCopy(c)
       \/ Arm(c) \/ ArmFails(c)
       \/ SendReturns(c) \/ SendRaises(c) \/ SendCancelled(c)
       \/ Restore(c) \/ RestoreFails(c) \/ RestoreCancelled(c)
       \/ SetTimer(c) \/ PlainSendReturns(c) \/ CallFails(c)
       \/ DeleteReturns(c) \/ DevicesClear(c) \/ ClearReturns(c) \/ CopyReturns(c)
  \/ Receive
  \/ Restart

Spec == Init /\ [][Next]_chatVars

----------------------------------------------------------------------------
(* A chat its owner had armed, or not, is found as it was left once no     *)
(* call moves its timer, unless a timer could not be put back.             *)
TimerIsTheOwners == (\A c \in Call : ~MovesTheTimer(c)) => timer = chosen \/ broken

LastMost(seq, n) == SubSeq(seq, IF Len(seq) > n THEN Len(seq) - n + 1 ELSE 1, Len(seq))

(* A message a reply reported deleted is not in the history, in memory or  *)
(* on disk, also after writes that failed and restarts.                    *)
DeletedStaysDeleted == gone \cap (ToSet(memory) \cup ToSet(disk)) = {}

(* A send that was reported is in the file, until it is deleted, a clear   *)
(* drops it, or HistoryMax messages are recorded after it.                 *)
ReportedSendIsRemembered ==
  \A m \in kept \ (wiped \cup swept) : m \in ToSet(LastMost(log, HistoryMax)) => m \in ToSet(disk)

----------------------------------------------------------------------------
(* What the code does not keep.                                            *)

(* An armed chat is always told of: "only this reply can tell them".       *)
ArmedChatIsReported == (\A c \in Call : ~MovesTheTimer(c)) => timer = chosen \/ told

(* A copy carries the bytes of its own source.                             *)
CopyCarriesItsSource == [][\A c \in Call : CopyReturns(c) => scratch = c]_chatVars

(* What both devices cleared is not shown by this server once no call is   *)
(* under way, and what it drops is what they cleared.                      *)
ClearedStaysCleared ==
  /\ (\A c \in Call : call[c].pc = "idle") => wiped \cap ToSet(memory) = {}
  /\ swept \subseteq wiped

(* "it orders a conversation correctly either way"                         *)
HistoryIsInOrder == \A i, j \in 1..Len(memory) : i < j => memory[i] < memory[j]

----------------------------------------------------------------------------
(* Why the three hold, as an inductive invariant.  What a call is at says  *)
(* which call it is.                                                       *)
AsItsPlaceSays(record) ==
  /\ record.op = "timed" => record.pc \in {"arming", "sending", "restoring"}
  /\ record.op = "timer" => record.pc = "setting"
  /\ record.pc \in {"arming", "restoring"} => record.op = "timed"
  /\ record.pc = "setting" => record.op = "timer"
  /\ record.op = "timed" /\ record.pc # "restoring" => record.id = 0

OneMovesTheTimer == \A c, d \in Call : MovesTheTimer(c) /\ MovesTheTimer(d) => c = d

(* While a call holds the timer, what it will put back is the owner's.     *)
TimerComesBack ==
  /\ timer = chosen \/ broken \/ \E c \in Call : MovesTheTimer(c) /\ call[c].pc \in {"sending", "restoring"}
  /\ \A c \in Call : call[c].op = "timed" => call[c].previous = chosen \/ broken

(* A number is of a sending that was; what a call has yet to record is in  *)
(* no record and no other call's; what it deletes was recorded.            *)
IsNew(c) == call[c].pc = "restoring" /\ call[c].id # 0
NumbersAreOfSendings ==
  /\ ToSet(log) \subseteq 1..sent
  /\ \A c \in Call : IsNew(c) => call[c].id \in 1..sent \ ToSet(log)
  /\ \A c, d \in Call : IsNew(c) /\ IsNew(d) /\ call[c].id = call[d].id => c = d
  /\ \A c \in Call : call[c].pc = "deleting" => call[c].id \in ToSet(log)

(* A history holds what was recorded, each once, and as many records are   *)
(* between a message and the newest as the history has behind it.          *)
IsAHistory(history) ==
  /\ \A i, j \in DOMAIN history : history[i] = history[j] => i = j
  /\ \A i \in DOMAIN history :
       \E p \in DOMAIN log : log[p] = history[i] /\ Len(history) - i <= Len(log) - p

(* A reported send is in both the memory and the file while it is recent.  *)
ReportedSendIsInBoth ==
  \A p \in DOMAIN log :
    log[p] \in kept \ (wiped \cup swept) /\ Len(log) - p < HistoryMax => log[p] \in ToSet(memory) \cap ToSet(disk)

HistoriesAreOfTheRecord ==
  /\ \A i, j \in DOMAIN log : log[i] = log[j] => i = j
  /\ IsAHistory(memory) /\ IsAHistory(disk)
  /\ gone \cup kept \subseteq ToSet(log)
  /\ DeletedStaysDeleted /\ ReportedSendIsInBoth

(* Of the timer, when no two calls move it at once and set_ttl() is done   *)
(* or not done.                                                            *)
Inv ==
  /\ TypeOK /\ \A c \in Call : AsItsPlaceSays(call[c])
  /\ (~Overlap => OneMovesTheTimer) /\ (~Overlap /\ ~LateTimer => TimerComesBack)
  /\ NumbersAreOfSendings /\ HistoriesAreOfTheRecord
=============================================================================

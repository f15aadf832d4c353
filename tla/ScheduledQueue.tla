--------------------------- MODULE ScheduledQueue ---------------------------
(***************************************************************************)
(* The queue of scheduled messages Telegram keeps for one chat (external)  *)
(* under telegram_mcp/tools/scheduled.py: messages are queued, edited by   *)
(* reading the queue and sending the whole message back, cancelled, and    *)
(* delivered by the server when they are due.                              *)
(*                                                                         *)
(* Abstractions.  A text is a number and its formatting the number of the  *)
(* text it was made for; a rich message reads as the empty text.  A date   *)
(* in the past means now.  What a call reads and checks is one step, what  *)
(* it then requests another; time passes and others write between them.    *)
(***************************************************************************)
EXTENDS Integers

CONSTANTS
  Editor,    \* calls of the tools
  Text,
  Period,    \* REPEAT_PERIODS
  MaxQueued, \* bound: messages queued
  MaxTime    \* bound: the clock

Rich  == -1 \* the body of a rich message
Blank == 0  \* how it reads; and no formatting, and no period
Keep  == -2 \* an argument that was not given

ScheduledQueueAssumption ==
  /\ Text \subseteq Nat \ {0}
  /\ Period \subseteq Nat \ {0}
  /\ {MaxQueued, MaxTime} \subseteq Nat

VARIABLES
  now,
  queue,  \* the scheduled messages by id
  queued, \* ids given out
  early,  \* messages a request that named a date delivered at once, and whether the date had passed when
          \* the call looked
  editing \* the calls

queueVars == <<now, queue, queued, early, editing>>

QueueId == 1..MaxQueued
Entry == [text : Text \cup {Rich, Blank}, format : Text \cup {Blank},
          date : 0..(MaxTime + 2), period : Period \cup {Blank}]
Given == [id : QueueId \cup {0}, text : Text \cup {Keep}, formatted : BOOLEAN,
          date : 0..MaxTime \cup {Keep}, period : Period \cup {Blank, Keep}]

Nothing == [text |-> Blank, format |-> Blank, date |-> 0, period |-> Blank]
Idle == [pc |-> "idle", given |-> [id |-> 0, text |-> Keep, formatted |-> FALSE, date |-> Keep, period |-> Keep],
         found |-> Nothing, looked |-> 0, request |-> Nothing]

TypeOK ==
  /\ now \in 0..MaxTime
  /\ queued \in 0..MaxQueued
  /\ DOMAIN queue \subseteq 1..queued
  /\ \A id \in DOMAIN queue : queue[id].text \in Text \cup {Rich, Blank}
  /\ early \subseteq QueueId \X BOOLEAN
  /\ \A c \in Editor : editing[c].pc \in {"idle", "queueing", "reading", "editing"} /\ editing[c].looked \in 0..now

Init ==
  /\ now = 0
  /\ queue = [id \in {} |-> Nothing]
  /\ queued = 0
  /\ early = {}
  /\ editing = [c \in Editor |-> Idle]

----------------------------------------------------------------------------
(* Telegram (external).  Definitions whose name says what they get wrong   *)
(* are defects the checks must notice; no action uses them.                *)

Without(id) == [other \in DOMAIN queue \ {id} |-> queue[other]]
Placed(id, entry) == [other \in DOMAIN queue \cup {id} |-> IF other = id THEN entry ELSE queue[other]]

Tick ==
  /\ now < MaxTime
  /\ now' = now + 1
  /\ UNCHANGED <<queue, queued, early, editing>>

(* A due message is delivered; a recurring one is queued for its next day. *)
Deliver(id) ==
  /\ id \in DOMAIN queue /\ queue[id].date <= now
  /\ queue' = IF queue[id].period = Blank THEN Without(id)
              ELSE [queue EXCEPT ![id].date = @ + queue[id].period]
  /\ UNCHANGED <<now, queued, early, editing>>

(* copy_message(when=...) queues what text cannot express.                 *)
QueueRich(date, period) ==
  /\ queued < MaxQueued /\ date > now
  /\ queued' = queued + 1
  /\ queue' = Placed(queued', [text |-> Rich, format |-> Blank, date |-> date, period |-> period])
  /\ UNCHANGED <<now, early, editing>>

----------------------------------------------------------------------------
Ends(c) == editing' = [editing EXCEPT ![c] = Idle]

(* _refuse_if_past()                                                       *)
RefuseIfPast(date) == date <= now

(* schedule_message(): the date is checked before the chat is resolved.    *)
Schedule(c, request) ==
  /\ editing[c].pc = "idle"
  /\ ~RefuseIfPast(request.date)
  /\ editing' = [editing EXCEPT ![c] = [Idle EXCEPT !.pc = "queueing", !.looked = now, !.request = request]]
  /\ UNCHANGED <<now, queue, queued, early>>

HadPassed(c) == editing[c].request.date <= editing[c].looked

ScheduleArrives(c) ==
  /\ editing[c].pc = "queueing" /\ queued < MaxQueued
  /\ queued' = queued + 1
  /\ IF editing[c].request.date <= now
     THEN early' = early \cup {<<queued', HadPassed(c)>>} /\ UNCHANGED queue
     ELSE queue' = Placed(queued', editing[c].request) /\ UNCHANGED early
  /\ Ends(c)
  /\ UNCHANGED now

(* edit_scheduled_message(): the queue is read for what was not given.     *)
AskEdit(c, given) ==
  /\ editing[c].pc = "idle"
  /\ editing' = [editing EXCEPT ![c] = [Idle EXCEPT !.pc = "reading", !.given = given]]
  /\ UNCHANGED <<now, queue, queued, early>>

Reads(text) == IF text = Rich THEN Blank ELSE text

DropsTheFormatting(given, found) == IF given.text # Keep /\ given.formatted THEN given.text ELSE Blank
KeepsTheFormatting(given, found) == IF given.formatted THEN given.text ELSE found.format

Formatting(given, found) ==
  IF given.text = Keep THEN found.format ELSE IF given.formatted THEN given.text ELSE Blank

(* The message is replaced whole: text, formatting, date and period.       *)
Replacement(given, found) ==
  [text   |-> IF given.text = Keep THEN Reads(found.text) ELSE given.text,
   format |-> Formatting(given, found),
   date   |-> IF given.date = Keep THEN found.date ELSE given.date,
   period |-> IF given.period = Keep THEN found.period ELSE given.period]

AcceptsThePast(given) ==
  given.id \notin DOMAIN queue \/ (given.text = Keep /\ Reads(queue[given.id].text) = Blank)

Refused(given) ==
  \/ given.id \notin DOMAIN queue
  \/ given.text = Keep /\ Reads(queue[given.id].text) = Blank
  \/ given.date # Keep /\ RefuseIfPast(given.date)

Read(c) ==
  /\ editing[c].pc = "reading"
  /\ LET given == editing[c].given
         found == queue[given.id]
     IN editing' = [editing EXCEPT ![c] =
          IF Refused(given) THEN Idle
          ELSE [@ EXCEPT !.pc = "editing", !.found = found, !.looked = now, !.request = Replacement(given, found)]]
  /\ UNCHANGED <<now, queue, queued, early>>

EditArrives(c) ==
  /\ editing[c].pc = "editing"
  /\ LET id == editing[c].given.id
         request == editing[c].request
     IN IF id \notin DOMAIN queue THEN UNCHANGED <<queue, early>>
        ELSE IF request.date <= now
             THEN queue' = Without(id)
                  /\ early' = IF editing[c].given.date # Keep THEN early \cup {<<id, HadPassed(c)>>} ELSE early
             ELSE queue' = Placed(id, request) /\ UNCHANGED early
  /\ Ends(c)
  /\ UNCHANGED <<now, queued>>

(* A request that raises.                                                  *)
RequestFails(c) ==
  /\ editing[c].pc \in {"queueing", "reading", "editing"}
  /\ Ends(c)
  /\ UNCHANGED <<now, queue, queued, early>>

(* cancel_scheduled_message()                                              *)
Cancel(id) ==
  /\ id \in DOMAIN queue
  /\ queue' = Without(id)
  /\ UNCHANGED <<now, queued, early, editing>>

----------------------------------------------------------------------------
Request ==
  {e \in Entry : e.text \in Text /\ e.format \in {Blank, e.text} /\ e.date \in 0..MaxTime}

Next ==
  \/ Tick
  \/ \E id \in QueueId : Deliver(id) \/ Cancel(id)
  \/ \E date \in 0..MaxTime, period \in Period \cup {Blank} : QueueRich(date, period)
  \/ \E c \in Editor :
       \/ \E request \in Request : Schedule(c, request)
       \/ \E given \in Given : AskEdit(c, given)
       \/ ScheduleArrives(c) \/ Read(c) \/ EditArrives(c) \/ RequestFails(c)

Spec == Init /\ [][Next]_queueVars

----------------------------------------------------------------------------
(* Formatting stays with the text it was made for, and no message is ever  *)
(* replaced by an empty one, whoever else writes or delivers meanwhile.    *)
QueueHoldsWholeMessages ==
  \A id \in DOMAIN queue : queue[id].text # Blank /\ queue[id].format \in {Blank, queue[id].text}

(* What an edit was not given stays: text with its formatting, date and    *)
(* period.  Whose message is no longer as it was read is another matter.   *)
IsKept(c) ==
  LET given == editing[c].given
      id == given.id
  IN id \in DOMAIN queue /\ id \in DOMAIN queue' =>
       /\ given.text = Keep => queue'[id].text = queue[id].text /\ queue'[id].format = queue[id].format
       /\ given.date = Keep => queue'[id].date = queue[id].date
       /\ given.period = Keep => queue'[id].period = queue[id].period
IsAsRead(c) == LET id == editing[c].given.id IN id \in DOMAIN queue => queue[id] = editing[c].found
OmittedStays == \A c \in Editor : EditArrives(c) /\ IsAsRead(c) => IsKept(c)
EditKeepsTheRest == [][OmittedStays]_queueVars

(* "omitting `when` keeps the existing time", "Omitted keeps it"           *)
(* (scheduled.py:267-279).  Not what others, or a delivery, make it        *)
(* between the read and the edit: that is taken back.                      *)
OnlyTheGivenChanges == [][\A c \in Editor : EditArrives(c) => IsKept(c)]_queueVars

(* Why, as an inductive invariant: what an edit sends is made of what it   *)
(* read.                                                                   *)
IsACall(record) == DOMAIN record = DOMAIN Idle
Busy(c) == editing[c].pc \in {"queueing", "editing"}
EditIsOfItsRead(c) ==
  LET call == editing[c]
  IN call.pc = "editing" =>
       /\ call.request = Replacement(call.given, call.found)
       /\ call.given.text = Keep => Reads(call.found.text) # Blank
Inv ==
  /\ DOMAIN editing = Editor
  /\ editing = [c \in Editor |-> editing[c]]
  /\ \A c \in Editor : IsACall(editing[c]) /\ EditIsOfItsRead(c)

(* A date that had passed when the call looked is never a delivery.        *)
PostponedIsNotSent == \A sent \in early : ~sent[2]

(* "an edit that meant to postpone a message delivered it instead"         *)
(* (scheduled.py:62-63).  It still does when the date passes between the   *)
(* check and the request.                                                  *)
DatesAreKept == early = {}

(* Why, as an inductive invariant: what is on its way is whole, and a date *)
(* that was given lay ahead when the call looked.                          *)
IsWhole(entry) ==
  DOMAIN entry = DOMAIN Idle.request /\ entry.text # Blank /\ entry.format \in {Blank, entry.text}
IsMeant(c) ==
  /\ Busy(c) => IsWhole(editing[c].request)
  /\ editing[c].pc \in {"reading", "editing"} => editing[c].given \in Given
  /\ editing[c].pc = "queueing" \/ (editing[c].pc = "editing" /\ editing[c].given.date # Keep) => ~HadPassed(c)
Meant == PostponedIsNotSent /\ (\A id \in DOMAIN queue : IsWhole(queue[id])) /\ \A c \in Editor : IsMeant(c)
=============================================================================

------------------------------ MODULE ChatRecords ------------------------------
(* The lists and rules of a chat that calls read and write back: the       *)
(* scheduled queue, folders, polls, kept lists, memberships with their     *)
(* links, and rights.  MCChats runs them; here are their inductive         *)
(* invariants, proved for every value of the constants, and what a step of *)
(* each leaves alone.                                                      *)
EXTENDS Integers, Sequences, TLAPS

CONSTANTS
  Callers,
  QueueEditor, QueueText, QueuePeriod, QueueMax, QueueTime,                 \* the scheduled queue
  FolderChat, FolderLimit, FolderCreations,                                 \* folders
  PollOption, PollCeiling, PollFallback, PollFloor, PollMargin, PollLag, PollTime, PollVotes,
  ListCaller, ListItem, ListCap, ListWindow, ListRequests, ListOverlap,     \* kept lists
  ChatUser, ChatLink, LinkLimit, MemberCalls,                               \* memberships
  RightPerson, AdminRight, WithheldRight, RightParameter, CloseFriend, RuleLimit, RightEdits

VARIABLES
  queueNow, queue, queued, early, editing,
  folders, creations, holder, added, filing,
  poll, votes, polling, ceiling, cast, clock,
  shelf, list, archive, shortcut, count, keeping,
  chatKind, guarded, replaces, members, asking, link, primary, made, nameFree, memberCalls, request,
  about, means, own, rights, barred, rules, rightsEdits, granting

queueVars      == <<queueNow, queue, queued, early, editing>>
folderVars     == <<folders, creations, holder, added, filing>>
pollVars       == <<poll, votes, polling, ceiling, cast, clock>>
listVars       == <<shelf, list, archive, shortcut, count, keeping>>
membershipVars == <<chatKind, guarded, replaces, members, asking, link, primary, made, nameFree, memberCalls, request>>
rightsVars     == <<about, means, own, rights, barred, rules, rightsEdits, granting>>

Q == INSTANCE ScheduledQueue WITH
       Editor <- QueueEditor, Text <- QueueText, Period <- QueuePeriod, MaxQueued <- QueueMax, MaxTime <- QueueTime,
       now <- queueNow
F == INSTANCE Folders WITH
       Caller <- Callers, Chat <- FolderChat, MaxFolders <- FolderLimit, MaxCreations <- FolderCreations
V == INSTANCE Polls WITH
       Caller <- Callers, Option <- PollOption, Ceiling <- PollCeiling, Fallback <- PollFallback, Floor <- PollFloor,
       Margin <- PollMargin, Lag <- PollLag, MaxTime <- PollTime, MaxVotes <- PollVotes,
       call <- polling
K == INSTANCE KeptLists WITH
       Caller <- ListCaller, Item <- ListItem, Cap <- ListCap, Window <- ListWindow, MaxRequests <- ListRequests,
       Overlap <- ListOverlap, Drops <- TRUE, call <- keeping
M == INSTANCE Membership WITH
       User <- ChatUser, Link <- ChatLink, MaxLimit <- LinkLimit, MaxCalls <- MemberCalls,
       kind <- chatKind, waiting <- asking, calls <- memberCalls
R == INSTANCE Rights WITH
       Person <- RightPerson, Right <- AdminRight, Withheld <- WithheldRight, Parameters <- RightParameter,
       Close <- CloseFriend, MaxRules <- RuleLimit, MaxEdits <- RightEdits,
       edits <- rightsEdits, call <- granting

ASSUME RecordsAssumption ==
  /\ Q!ScheduledQueueAssumption /\ F!FoldersAssumption /\ V!PollsAssumption /\ K!KeptListsAssumption
  /\ M!MembershipAssumption /\ R!RightsAssumption

----------------------------------------------------------------------------
(* The scheduled queue.  What an edit sends is made of what it read.       *)
LEMMA QueueInit == ASSUME Q!Init PROVE Q!Inv
  BY DEF Q!Init, Q!Inv, Q!Idle, Q!IsACall, Q!EditIsOfItsRead

(* One call goes to a record.                                              *)
LEMMA QueueMoves ==
  ASSUME Q!Inv, NEW c \in QueueEditor, NEW r, editing' = [editing EXCEPT ![c] = r], Q!IsACall(r),
         r.pc = "editing" => /\ r.request = Q!Replacement(r.given, r.found)
                             /\ r.given.text = Q!Keep => Q!Reads(r.found.text) # Q!Blank
  PROVE  Q!Inv'
<1>1. editing'[c] = r /\ \A d \in QueueEditor \ {c} : editing'[d] = editing[d]
  BY DEF Q!Inv
<1>2. DOMAIN editing' = QueueEditor /\ editing' = [d \in QueueEditor |-> editing'[d]]
  BY DEF Q!Inv
<1>3. \A d \in QueueEditor : Q!IsACall(editing'[d])
  BY <1>1 DEF Q!Inv
<1>4. \A d \in QueueEditor : Q!EditIsOfItsRead(d)'
  BY <1>1 DEF Q!Inv, Q!EditIsOfItsRead, Q!Replacement, Q!Formatting, Q!Reads
<1> QED BY <1>2, <1>3, <1>4 DEF Q!Inv

LEMMA QueueStep == ASSUME Q!Inv, [Q!Next]_Q!queueVars PROVE Q!Inv'
<1>0. /\ Q!IsACall(Q!Idle) /\ Q!Idle.pc = "idle"
      /\ DOMAIN Q!Idle = {"pc", "given", "found", "looked", "request"}
  BY DEF Q!IsACall, Q!Idle
<1>1. ASSUME NEW c \in QueueEditor, Q!Ends(c) PROVE Q!Inv'
  BY <1>0, <1>1, QueueMoves DEF Q!Ends
<1>2. ASSUME NEW c \in QueueEditor, NEW asked, Q!Schedule(c, asked) PROVE Q!Inv'
  <2> DEFINE r == [Q!Idle EXCEPT !.pc = "queueing", !.looked = queueNow, !.request = asked]
  <2>1. editing' = [editing EXCEPT ![c] = r]
    BY <1>2 DEF Q!Schedule
  <2>2. Q!IsACall(r) /\ r.pc = "queueing"
    BY <1>0 DEF Q!IsACall
  <2> HIDE DEF r
  <2> QED BY <2>1, <2>2, QueueMoves
<1>3. ASSUME NEW c \in QueueEditor, NEW given, Q!AskEdit(c, given) PROVE Q!Inv'
  <2> DEFINE r == [Q!Idle EXCEPT !.pc = "reading", !.given = given]
  <2>1. editing' = [editing EXCEPT ![c] = r]
    BY <1>3 DEF Q!AskEdit
  <2>2. Q!IsACall(r) /\ r.pc = "reading"
    BY <1>0 DEF Q!IsACall
  <2> HIDE DEF r
  <2> QED BY <2>1, <2>2, QueueMoves
<1>4. ASSUME NEW c \in QueueEditor, Q!Read(c) PROVE Q!Inv'
  <2> DEFINE given == editing[c].given
             found == queue[given.id]
             r == [editing[c] EXCEPT !.pc = "editing", !.found = found, !.looked = queueNow,
                                     !.request = Q!Replacement(given, found)]
  <2>1. CASE Q!Refused(given)
    <3>1. Q!Ends(c)
      BY <1>4, <2>1 DEF Q!Read, Q!Ends
    <3> QED BY <3>1, <1>1
  <2>2. CASE ~Q!Refused(given)
    <3>1. editing' = [editing EXCEPT ![c] = r]
      BY <1>4, <2>2 DEF Q!Read
    <3>2. Q!IsACall(editing[c])
      BY DEF Q!Inv
    <3>3. /\ Q!IsACall(r) /\ r.pc = "editing" /\ r.given = given /\ r.found = found
          /\ r.request = Q!Replacement(given, found)
      BY <1>0, <3>2 DEF Q!IsACall
    <3> HIDE DEF r
    <3>4. given.text = Q!Keep => Q!Reads(found.text) # Q!Blank
      BY <2>2 DEF Q!Refused
    <3> QED BY <3>1, <3>3, <3>4, QueueMoves
  <2> QED BY <2>1, <2>2
<1>5. ASSUME NEW c \in QueueEditor, Q!ScheduleArrives(c) \/ Q!EditArrives(c) \/ Q!RequestFails(c) PROVE Q!Inv'
  BY <1>5, <1>1 DEF Q!ScheduleArrives, Q!EditArrives, Q!RequestFails
<1>6. ASSUME UNCHANGED editing PROVE Q!Inv'
  BY <1>6 DEF Q!Inv, Q!IsACall, Q!EditIsOfItsRead, Q!Replacement, Q!Formatting, Q!Reads
<1>7. ASSUME Q!Tick \/ (\E id \in Q!QueueId : Q!Deliver(id) \/ Q!Cancel(id))
             \/ (\E date, period : Q!QueueRich(date, period)) \/ UNCHANGED Q!queueVars
      PROVE  Q!Inv'
  BY <1>6, <1>7 DEF Q!Tick, Q!Deliver, Q!Cancel, Q!QueueRich, Q!queueVars
<1> QED BY <1>2, <1>3, <1>4, <1>5, <1>7 DEF Q!Next

LEMMA QueueEditsKeep ==
  ASSUME Q!Inv, NEW c \in QueueEditor, Q!EditArrives(c), Q!IsAsRead(c)
  PROVE  Q!IsKept(c)
<1> DEFINE given == editing[c].given
           id == given.id
<1>0. SUFFICES ASSUME id \in DOMAIN queue, id \in DOMAIN queue'
      PROVE  /\ given.text = Q!Keep => queue'[id].text = queue[id].text /\ queue'[id].format = queue[id].format
             /\ given.date = Q!Keep => queue'[id].date = queue[id].date
             /\ given.period = Q!Keep => queue'[id].period = queue[id].period
  BY DEF Q!IsKept
<1>1. editing[c].pc = "editing" /\ editing[c].request = Q!Replacement(given, queue[id])
      /\ (given.text = Q!Keep => Q!Reads(queue[id].text) # Q!Blank)
  BY <1>0 DEF Q!Inv, Q!EditArrives, Q!EditIsOfItsRead, Q!IsAsRead
<1>2. queue' = Q!Placed(id, editing[c].request)
  BY <1>0 DEF Q!EditArrives, Q!Without
<1>3. queue'[id] = Q!Replacement(given, queue[id])
  BY <1>1, <1>2 DEF Q!Placed
<1> QED BY <1>1, <1>3 DEF Q!Replacement, Q!Formatting, Q!Reads

(* What is queued and what is on its way is whole, and a date that was     *)
(* given lay ahead when the call looked.                                   *)
LEMMA QueueMeant == ASSUME Q!Init PROVE Q!Meant
  BY DEF Q!Init, Q!Meant, Q!IsMeant, Q!Busy, Q!Idle, Q!PostponedIsNotSent

LEMMA QueueMeansOne ==
  ASSUME Q!Inv, Q!Meant, NEW c \in QueueEditor, NEW r, editing' = [editing EXCEPT ![c] = r],
         Q!PostponedIsNotSent', \A id \in DOMAIN queue' : Q!IsWhole(queue'[id]),
         r.pc \in {"queueing", "editing"} => Q!IsWhole(r.request),
         r.pc \in {"reading", "editing"} => r.given \in Q!Given,
         r.pc = "queueing" \/ (r.pc = "editing" /\ r.given.date # Q!Keep) => ~(r.request.date <= r.looked)
  PROVE  Q!Meant'
<1>1. editing'[c] = r /\ \A d \in QueueEditor \ {c} : editing'[d] = editing[d]
  BY DEF Q!Inv
<1>2. ASSUME NEW d \in QueueEditor PROVE Q!IsMeant(d)'
  <2>1. CASE d = c
    BY <2>1, <1>1 DEF Q!IsMeant, Q!Busy, Q!HadPassed, Q!IsWhole
  <2>2. CASE d # c
    BY <2>2, <1>1 DEF Q!Meant, Q!IsMeant, Q!Busy, Q!HadPassed, Q!IsWhole
  <2> QED BY <2>1, <2>2
<1> QED BY <1>2 DEF Q!Meant, Q!IsWhole

LEMMA QueueMeans == ASSUME Q!Inv, Q!Meant, [Q!Next]_Q!queueVars PROVE Q!Meant'
<1>0. /\ QueueText \subseteq Nat \ {0} /\ Q!Idle.pc = "idle"
      /\ DOMAIN Q!Idle = {"pc", "given", "found", "looked", "request"}
      /\ DOMAIN Q!Idle.request = {"text", "format", "date", "period"}
      /\ Q!Blank = 0 /\ Q!Rich = -1 /\ Q!Keep = -2
  BY RecordsAssumption DEF RecordsAssumption, Q!ScheduledQueueAssumption, Q!Idle, Q!Nothing, Q!Blank, Q!Rich, Q!Keep
<1>1. \A id \in DOMAIN queue : Q!IsWhole(queue[id])
  BY DEF Q!Meant
<1>u. UNCHANGED early => Q!PostponedIsNotSent'
  BY DEF Q!Meant, Q!PostponedIsNotSent
<1>2. ASSUME NEW c \in QueueEditor, Q!Ends(c), \A id \in DOMAIN queue' : Q!IsWhole(queue'[id]),
             Q!PostponedIsNotSent'
      PROVE  Q!Meant'
  BY <1>2, <1>0, QueueMeansOne DEF Q!Ends
<1>3. ASSUME NEW c \in QueueEditor, NEW asked \in Q!Request, Q!Schedule(c, asked) PROVE Q!Meant'
  <2> DEFINE r == [Q!Idle EXCEPT !.pc = "queueing", !.looked = queueNow, !.request = asked]
  <2>1. editing' = [editing EXCEPT ![c] = r] /\ UNCHANGED <<queue, early>> /\ ~(asked.date <= queueNow)
    BY <1>3 DEF Q!Schedule, Q!RefuseIfPast
  <2>2. r.pc = "queueing" /\ r.request = asked /\ r.looked = queueNow
    BY <1>0
  <2>3. Q!IsWhole(asked)
    BY <1>0 DEF Q!Request, Q!Entry, Q!IsWhole
  <2> HIDE DEF r
  <2> QED BY <2>1, <2>2, <2>3, <1>1, <1>u, QueueMeansOne
<1>4. ASSUME NEW c \in QueueEditor, NEW given \in Q!Given, Q!AskEdit(c, given) PROVE Q!Meant'
  <2> DEFINE r == [Q!Idle EXCEPT !.pc = "reading", !.given = given]
  <2>1. editing' = [editing EXCEPT ![c] = r] /\ UNCHANGED <<queueNow, queue, early>>
    BY <1>4 DEF Q!AskEdit
  <2>2. r.pc = "reading" /\ r.given = given
    BY <1>0
  <2> HIDE DEF r
  <2> QED BY <2>1, <2>2, <1>1, <1>u, QueueMeansOne
<1>5. ASSUME NEW c \in QueueEditor, Q!Read(c) PROVE Q!Meant'
  <2> DEFINE given == editing[c].given
             found == queue[given.id]
             new == Q!Replacement(given, found)
             r == [editing[c] EXCEPT !.pc = "editing", !.found = found, !.looked = queueNow, !.request = new]
  <2>1. UNCHANGED <<queueNow, queue, early>> /\ editing[c].pc = "reading"
    BY <1>5 DEF Q!Read
  <2>2. CASE Q!Refused(given)
    BY <1>5, <2>1, <2>2, <1>1, <1>2, <1>u DEF Q!Read, Q!Ends
  <2>3. CASE ~Q!Refused(given)
    <3>1. editing' = [editing EXCEPT ![c] = r]
      BY <1>5, <2>3 DEF Q!Read
    <3>2. r.pc = "editing" /\ r.given = given /\ r.request = new /\ r.looked = queueNow
      BY <1>0 DEF Q!Inv, Q!IsACall
    <3>3. given \in Q!Given
      BY <2>1 DEF Q!Meant, Q!IsMeant
    <3>4. Q!IsWhole(found)
      BY <2>3, <1>1 DEF Q!Refused
    <3>5. DOMAIN new = {"text", "format", "date", "period"}
          /\ new.text = (IF given.text = Q!Keep THEN Q!Reads(found.text) ELSE given.text)
          /\ new.format = Q!Formatting(given, found)
          /\ new.date = (IF given.date = Q!Keep THEN found.date ELSE given.date)
      BY DEF Q!Replacement
    <3> HIDE DEF r, new
    <3>6. Q!IsWhole(new)
      <4>1. CASE given.text = Q!Keep
        <5>1. Q!Reads(found.text) # Q!Blank
          BY <2>3, <4>1 DEF Q!Refused
        <5> QED BY <5>1, <4>1, <3>4, <3>5, <1>0 DEF Q!IsWhole, Q!Reads, Q!Formatting
      <4>2. CASE given.text # Q!Keep
        <5>1. given.text \in QueueText
          BY <3>3, <4>2 DEF Q!Given
        <5>2. new.text = given.text /\ new.text # 0 /\ new.format \in {0, new.text}
          BY <5>1, <4>2, <3>5, <1>0 DEF Q!Formatting
        <5> QED BY <5>2, <3>5, <1>0 DEF Q!IsWhole
      <4> QED BY <4>1, <4>2
    <3>7. given.date # Q!Keep => ~(new.date <= queueNow)
      BY <2>3, <3>5 DEF Q!Refused, Q!RefuseIfPast
    <3> HIDE DEF given
    <3> QED BY <2>1, <3>1, <3>2, <3>3, <3>6, <3>7, <1>1, <1>u, QueueMeansOne
  <2> QED BY <2>2, <2>3
<1>6. ASSUME NEW c \in QueueEditor, Q!ScheduleArrives(c) PROVE Q!Meant'
  <2>1. Q!IsWhole(editing[c].request) /\ ~Q!HadPassed(c)
    BY <1>6 DEF Q!ScheduleArrives, Q!Meant, Q!IsMeant, Q!Busy
  <2>2. /\ queue' \in {queue, Q!Placed(queued', editing[c].request)} /\ Q!Ends(c)
        /\ early' \in {early, early \cup {<<queued', Q!HadPassed(c)>>}}
    BY <1>6 DEF Q!ScheduleArrives
  <2>4. Q!PostponedIsNotSent'
    BY <2>1, <2>2 DEF Q!Meant, Q!PostponedIsNotSent
  <2>3. \A id \in DOMAIN queue' : Q!IsWhole(queue'[id])
    BY <2>1, <2>2, <1>1 DEF Q!Placed
  <2> QED BY <2>2, <2>3, <2>4, <1>2
<1>7. ASSUME NEW c \in QueueEditor, Q!EditArrives(c) PROVE Q!Meant'
  <2> DEFINE given == editing[c].given
  <2>1. /\ Q!IsWhole(editing[c].request)
        /\ given.date # Q!Keep => ~Q!HadPassed(c)
    BY <1>7 DEF Q!EditArrives, Q!Meant, Q!IsMeant, Q!Busy
  <2>2. early' = early \/ (given.date # Q!Keep /\ early' = early \cup {<<given.id, Q!HadPassed(c)>>})
    BY <1>7 DEF Q!EditArrives
  <2>5. Q!PostponedIsNotSent'
    BY <2>1, <2>2 DEF Q!Meant, Q!PostponedIsNotSent
  <2>6. Q!Ends(c)
    BY <1>7 DEF Q!EditArrives
  <2>3. queue' \in {queue, Q!Without(given.id), Q!Placed(given.id, editing[c].request)}
    BY <1>7 DEF Q!EditArrives
  <2>4. \A id \in DOMAIN queue' : Q!IsWhole(queue'[id])
    BY <2>1, <2>3, <1>1 DEF Q!Placed, Q!Without
  <2> QED BY <2>4, <2>5, <2>6, <1>2
<1>8. ASSUME NEW c \in QueueEditor, Q!RequestFails(c) PROVE Q!Meant'
  BY <1>8, <1>1, <1>2, <1>u DEF Q!RequestFails
<1>9. ASSUME UNCHANGED <<editing, early>>,
             \A id \in DOMAIN queue' : Q!IsWhole(queue'[id])
      PROVE  Q!Meant'
  <2>1. \A c \in QueueEditor : Q!IsMeant(c)'
    BY <1>9 DEF Q!Meant, Q!IsMeant, Q!Busy, Q!HadPassed, Q!IsWhole
  <2> QED BY <2>1, <1>9, <1>u DEF Q!Meant, Q!IsWhole
<1>10. ASSUME NEW id \in Q!QueueId, Q!Deliver(id) \/ Q!Cancel(id) PROVE Q!Meant'
  <2>1. /\ UNCHANGED <<editing, early>> /\ id \in DOMAIN queue
        /\ queue' = Q!Without(id) \/ queue' = [queue EXCEPT ![id].date = @ + queue[id].period]
    BY <1>10 DEF Q!Deliver, Q!Cancel
  <2>2. \A other \in DOMAIN queue' : Q!IsWhole(queue'[other])
    <3>1. CASE queue' = Q!Without(id)
      BY <3>1, <1>1 DEF Q!Without
    <3>2. CASE queue' = [queue EXCEPT ![id].date = @ + queue[id].period]
      <4>1. DOMAIN queue' = DOMAIN queue /\ \A other \in DOMAIN queue \ {id} : queue'[other] = queue[other]
        BY <3>2
      <4>2. /\ DOMAIN queue'[id] = DOMAIN queue[id] /\ queue'[id].text = queue[id].text
            /\ queue'[id].format = queue[id].format
        BY <3>2, <2>1, <1>0, <1>1 DEF Q!IsWhole
      <4> QED BY <4>1, <4>2, <1>1, <2>1 DEF Q!IsWhole
    <3> QED BY <3>1, <3>2, <2>1
  <2> QED BY <2>1, <2>2, <1>9
<1>11. ASSUME NEW date, NEW period, Q!QueueRich(date, period) PROVE Q!Meant'
  <2> DEFINE new == [text |-> Q!Rich, format |-> Q!Blank, date |-> date, period |-> period]
  <2>1. UNCHANGED <<editing, early>> /\ queue' = Q!Placed(queued', new)
    BY <1>11 DEF Q!QueueRich
  <2>2. Q!IsWhole(new)
    BY <1>0 DEF Q!IsWhole
  <2> HIDE DEF new
  <2>3. \A id \in DOMAIN queue' : Q!IsWhole(queue'[id])
    BY <2>1, <2>2, <1>1 DEF Q!Placed
  <2> QED BY <2>1, <2>3, <1>9
<1>12. ASSUME Q!Tick \/ UNCHANGED Q!queueVars PROVE Q!Meant'
  BY <1>12, <1>1, <1>9 DEF Q!Tick, Q!queueVars
<1> QED BY <1>3, <1>4, <1>5, <1>6, <1>7, <1>8, <1>10, <1>11, <1>12 DEF Q!Next

(* The polls.  What a call is about to send is the poll as it stands, as   *)
(* long as that is open.                                                   *)
LEMMA PollsInit == ASSUME V!Init PROVE V!Inv
<1>1. DOMAIN poll = DOMAIN V!NoPoll
  BY DEF V!Init, V!NoPoll
<1> QED BY <1>1 DEF V!Init, V!Inv, V!CopyIsOfThePoll, V!Idle, V!NoPoll

(* One call goes to a record and the poll stays.                           *)
LEMMA PollsCall ==
  ASSUME V!Inv, NEW c \in Callers, NEW r, polling' = [polling EXCEPT ![c] = r], UNCHANGED poll,
         DOMAIN r = DOMAIN V!Idle, DOMAIN r.copy = DOMAIN V!NoPoll,
         r.op \in {"read", "vote", "close"} => poll.exists,
         r.op = "close" /\ r.pc \in {"refetching", "requesting"} => (poll.closed \/ r.edited \/ r.copy = poll) /\ r.copy.exists
  PROVE  V!Inv'
<1>1. polling'[c] = r /\ \A d \in Callers \ {c} : polling'[d] = polling[d]
  BY DEF V!Inv
<1> QED BY <1>1 DEF V!Inv, V!CopyIsOfThePoll

LEMMA PollReplies ==
  ASSUME V!Inv, NEW c \in Callers, NEW r, DOMAIN r = DOMAIN V!Idle, NEW what
  PROVE  LET s == V!Replied(r, what)
         IN DOMAIN s = DOMAIN V!Idle /\ s.copy = V!NoPoll /\ s.pc = "replied" /\ s.op = r.op
  BY DEF V!Replied, V!Idle

(* A reply leaves nothing on its way, whatever becomes of the poll.        *)
LEMMA PollsSay ==
  ASSUME V!Inv, NEW c \in Callers, NEW what, V!Says(c, what), UNCHANGED poll
  PROVE  V!Inv'
<1>1. DOMAIN polling[c] = DOMAIN V!Idle /\ (polling[c].op \in {"read", "vote", "close"} => poll.exists)
  BY DEF V!Inv, V!CopyIsOfThePoll
<1> DEFINE s == V!Replied(polling[c], what)
<1>2. DOMAIN s = DOMAIN V!Idle /\ s.copy = V!NoPoll /\ s.pc = "replied" /\ s.op = polling[c].op
  BY <1>1, PollReplies
<1>3. polling' = [polling EXCEPT ![c] = s]
  BY DEF V!Says
<1> HIDE DEF s
<1> QED BY <1>1, <1>2, <1>3, PollsCall

LEMMA PollIsTaken ==
  ASSUME V!Inv, NEW c \in Callers, NEW copy, NEW min, DOMAIN copy = DOMAIN V!NoPoll,
         polling[c].pc \in {"reading", "refetching"}, polling[c].op = "close" => (poll.closed \/ polling[c].edited \/ copy = poll) /\ copy.exists,
         polling' = [polling EXCEPT ![c] = V!TakenAsRead(c, copy, min)], UNCHANGED poll
  PROVE  V!Inv'
<1>1. DOMAIN polling[c] = DOMAIN V!Idle /\ (polling[c].op \in {"read", "vote", "close"} => poll.exists)
  BY DEF V!Inv, V!CopyIsOfThePoll
<1> DEFINE read == [polling[c] EXCEPT !.copy = copy, !.chosen = V!Shown(min), !.told = V!Shown(min), !.min = min,
                                      !.graded = copy.quiz /\ V!Shown(min) # {}]
           asks == [read EXCEPT !.pc = "requesting"]
<1>2. DOMAIN read = DOMAIN V!Idle /\ read.op = polling[c].op
  BY <1>1 DEF V!Idle
<1>3. DOMAIN asks = DOMAIN V!Idle /\ asks.op = polling[c].op /\ asks.copy = copy /\ asks.edited = polling[c].edited
  BY <1>1 DEF V!Idle
<1>4. \/ \E what : polling' = [polling EXCEPT ![c] = V!Replied(read, what)]
      \/ polling' = [polling EXCEPT ![c] = asks]
  BY DEF V!TakenAsRead
<1> HIDE DEF read, asks
<1>5. ASSUME NEW what, polling' = [polling EXCEPT ![c] = V!Replied(read, what)] PROVE V!Inv'
  <2> DEFINE s == V!Replied(read, what)
  <2>1. DOMAIN s = DOMAIN V!Idle /\ s.copy = V!NoPoll /\ s.pc = "replied" /\ s.op = read.op
    BY <1>2, PollReplies
  <2>2. polling' = [polling EXCEPT ![c] = s]
    BY <1>5
  <2> HIDE DEF s
  <2> QED BY <1>1, <1>2, <2>1, <2>2, PollsCall
<1>6. CASE polling' = [polling EXCEPT ![c] = asks]
  BY <1>1, <1>3, <1>6, PollsCall
<1> QED BY <1>4, <1>5, <1>6

LEMMA PollsStep == ASSUME V!Inv, [V!Next]_V!pollsVars PROVE V!Inv'
<1>0. /\ DOMAIN poll = DOMAIN V!NoPoll /\ polling = [c \in Callers |-> polling[c]]
      /\ \A c \in Callers : V!CopyIsOfThePoll(c) /\ DOMAIN polling[c] = DOMAIN V!Idle
      /\ V!Idle.copy = V!NoPoll /\ V!Idle.op = "none" /\ V!Idle.pc = "idle"
  BY DEF V!Inv, V!CopyIsOfThePoll, V!Idle
<1>1. ASSUME NEW c \in Callers, NEW r, polling' = [polling EXCEPT ![c] = r], UNCHANGED poll, DOMAIN r = DOMAIN V!Idle,
             r.copy = polling[c].copy, r.op = polling[c].op, r.pc \in {"resolving", "sending"}
      PROVE  V!Inv'
  BY <1>0, <1>1, PollsCall DEF V!CopyIsOfThePoll
<1>2. ASSUME NEW c \in Callers, NEW options, NEW close, V!Create(c, options, close) PROVE V!Inv'
  <2> DEFINE r == [V!Idle EXCEPT !.op = "create", !.pc = "configuring", !.options = options, !.close = close]
  <2>1. DOMAIN r = DOMAIN V!Idle /\ r.copy = V!NoPoll /\ r.op = "create" /\ r.pc = "configuring"
    BY DEF V!Idle
  <2>2. polling' = [polling EXCEPT ![c] = r] /\ UNCHANGED poll
    BY <1>2 DEF V!Create, V!Only
  <2> HIDE DEF r
  <2> QED BY <2>1, <2>2, PollsCall
<1>3. ASSUME NEW c \in Callers, NEW found, V!Configured(c, found) PROVE V!Inv'
  <2> DEFINE r == [polling[c] EXCEPT !.pc = "resolving"]
  <2>1. UNCHANGED poll /\ (V!Says(c, "refused") \/ polling' = [polling EXCEPT ![c] = r])
    BY <1>3 DEF V!Configured
  <2>2. DOMAIN r = DOMAIN V!Idle /\ r.copy = polling[c].copy /\ r.op = polling[c].op /\ r.pc = "resolving"
    BY <1>0 DEF V!Idle
  <2> HIDE DEF r
  <2> QED BY <2>1, <2>2, <1>1, PollsSay
<1>4. ASSUME NEW c \in Callers, V!Resolved(c) PROVE V!Inv'
  <2> DEFINE r == [polling[c] EXCEPT !.pc = "sending", !.left = clock]
  <2>1. UNCHANGED poll /\ (V!Says(c, "refused") \/ polling' = [polling EXCEPT ![c] = r])
    BY <1>4 DEF V!Resolved, V!Only
  <2>2. DOMAIN r = DOMAIN V!Idle /\ r.copy = polling[c].copy /\ r.op = polling[c].op /\ r.pc = "sending"
    BY <1>0 DEF V!Idle
  <2> HIDE DEF r
  <2> QED BY <2>1, <2>2, <1>1, PollsSay
<1>5. ASSUME NEW c \in Callers, NEW what, V!Says(c, what), ~poll.exists, poll'.exists,
             DOMAIN poll' = DOMAIN V!NoPoll
      PROVE  V!Inv'
  <2>1. polling' = [polling EXCEPT ![c] = V!Replied(polling[c], what)]
    BY <1>5 DEF V!Says
  <2> DEFINE s == V!Replied(polling[c], what)
  <2>2. DOMAIN s = DOMAIN V!Idle /\ s.copy = V!NoPoll /\ s.pc = "replied" /\ s.op = polling[c].op
    BY <1>0, PollReplies
  <2> HIDE DEF s
  <2>3. polling'[c] = s /\ \A d \in Callers \ {c} : polling'[d] = polling[d]
    BY <1>0, <2>1 DEF s
  <2>4. \A d \in Callers : V!CopyIsOfThePoll(d)'
    BY <1>0, <1>5, <2>2, <2>3 DEF V!CopyIsOfThePoll
  <2>5. polling' = [d \in Callers |-> polling'[d]]
    BY <1>0, <2>1
  <2> QED BY <2>4, <2>5, <1>5 DEF V!Inv
<1>6. ASSUME NEW c \in Callers, V!Lands(c) PROVE V!Inv'
  <2>1. \E what : V!Says(c, what)
    BY <1>6 DEF V!Lands
  <2>2. \/ UNCHANGED poll
        \/ ~poll.exists /\ poll' = [V!NoPoll EXCEPT !.exists = TRUE, !.options = polling[c].options]
    BY <1>6 DEF V!Lands
  <2>3. CASE UNCHANGED poll
    BY <2>1, <2>3, PollsSay
  <2>4. CASE ~poll.exists /\ poll' = [V!NoPoll EXCEPT !.exists = TRUE, !.options = polling[c].options]
    <3>1. poll'.exists /\ DOMAIN poll' = DOMAIN V!NoPoll
      BY <2>4 DEF V!NoPoll
    <3> QED BY <2>1, <2>4, <3>1, <1>5
  <2> QED BY <2>2, <2>3, <2>4
<1>7. ASSUME NEW c \in Callers, NEW op, NEW wanted, V!Start(c, op, wanted) PROVE V!Inv'
  <2> DEFINE r == [V!Idle EXCEPT !.op = op, !.pc = "reading", !.wanted = wanted]
  <2>1. DOMAIN r = DOMAIN V!Idle /\ r.copy = V!NoPoll /\ r.pc = "reading"
    BY DEF V!Idle
  <2>2. polling' = [polling EXCEPT ![c] = r] /\ UNCHANGED poll /\ poll.exists
    BY <1>7 DEF V!Start, V!Only
  <2> HIDE DEF r
  <2> QED BY <2>1, <2>2, PollsCall
<1>8. ASSUME NEW c \in Callers, NEW min \in BOOLEAN, V!ReadPoll(c, min) PROVE V!Inv'
  <2> DEFINE r == [polling[c] EXCEPT !.pc = "refetching", !.copy = poll]
  <2>1. /\ UNCHANGED poll /\ polling[c].pc = "reading"
        /\ \/ polling' = [polling EXCEPT ![c] = r]
           \/ polling' = [polling EXCEPT ![c] = V!TakenAsRead(c, poll, min)]
    BY <1>8 DEF V!ReadPoll, V!Only
  <2>2. DOMAIN r = DOMAIN V!Idle /\ r.copy = poll /\ r.op = polling[c].op /\ r.pc = "refetching"
    BY <1>0 DEF V!Idle
  <2> HIDE DEF r
  <2>3. CASE polling' = [polling EXCEPT ![c] = r]
    BY <1>0, <2>1, <2>2, <2>3, PollsCall DEF V!CopyIsOfThePoll
  <2>4. CASE polling' = [polling EXCEPT ![c] = V!TakenAsRead(c, poll, min)]
    BY <1>0, <2>1, <2>4, PollIsTaken DEF V!CopyIsOfThePoll
  <2> QED BY <2>1, <2>3, <2>4
<1>9. ASSUME NEW c \in Callers, NEW min \in BOOLEAN, V!Refetched(c, min) PROVE V!Inv'
  <2>1. /\ UNCHANGED poll /\ polling[c].pc = "refetching"
        /\ polling' = [polling EXCEPT ![c] = V!TakenAsRead(c, polling[c].copy, min)]
    BY <1>9 DEF V!Refetched, V!Only
  <2> QED BY <1>0, <2>1, PollIsTaken DEF V!CopyIsOfThePoll
<1>10. ASSUME NEW c \in Callers, NEW lacks \in BOOLEAN, V!Vote(c, lacks) PROVE V!Inv'
  <2> DEFINE told == [polling[c] EXCEPT !.told = V!FreshResults(c, lacks)]
             s    == V!Replied(told, "done")
  <2>1. UNCHANGED poll /\ (V!Says(c, "failed") \/ polling' = [polling EXCEPT ![c] = s])
    BY <1>10 DEF V!Vote
  <2>2. DOMAIN told = DOMAIN V!Idle /\ told.op = polling[c].op
    BY <1>0 DEF V!Idle
  <2> HIDE DEF told
  <2>3. DOMAIN s = DOMAIN V!Idle /\ s.copy = V!NoPoll /\ s.pc = "replied" /\ s.op = polling[c].op
    BY <2>2, PollReplies
  <2> HIDE DEF s
  <2>4. CASE V!Says(c, "failed")
    BY <2>1, <2>4, PollsSay
  <2>5. CASE polling' = [polling EXCEPT ![c] = s]
    BY <1>0, <2>1, <2>3, <2>5, PollsCall DEF V!CopyIsOfThePoll
  <2> QED BY <2>1, <2>4, <2>5
<1>11. ASSUME NEW c \in Callers, V!Close(c) PROVE V!Inv'
  <2>1. CASE UNCHANGED poll
    <3>1. \E what : V!Says(c, what)
      BY <1>11 DEF V!Close
    <3> QED BY <2>1, <3>1, PollsSay
  <2>2. CASE V!Says(c, "done") /\ poll' = V!Replacement(c)
    <3>1. DOMAIN poll' = DOMAIN V!NoPoll /\ poll'.closed /\ poll'.exists = polling[c].copy.exists
      BY <1>0, <2>2 DEF V!Replacement, V!Carried, V!CopyIsOfThePoll, V!NoPoll
    <3> DEFINE s == V!Replied(polling[c], "done")
    <3>2. DOMAIN s = DOMAIN V!Idle /\ s.copy = V!NoPoll /\ s.pc = "replied" /\ s.op = polling[c].op
      BY <1>0, PollReplies
    <3> HIDE DEF s
    <3>3. polling'[c] = s /\ \A d \in Callers \ {c} : polling'[d] = polling[d]
      BY <1>0, <2>2 DEF s, V!Says
    <3>4. poll'.exists
      BY <1>0, <1>11, <3>1 DEF V!Close, V!CopyIsOfThePoll
    <3>5. \A d \in Callers : V!CopyIsOfThePoll(d)'
      BY <1>0, <3>1, <3>2, <3>3, <3>4 DEF V!CopyIsOfThePoll
    <3>6. polling' = [d \in Callers |-> polling'[d]]
      BY <1>0, <2>2 DEF V!Says
    <3> QED BY <3>1, <3>5, <3>6 DEF V!Inv
  <2> QED BY <1>11, <2>1, <2>2 DEF V!Close
<1>12. ASSUME NEW c \in Callers, V!Repeat(c) PROVE V!Inv'
  <2>1. polling' = [polling EXCEPT ![c] = V!Idle] /\ UNCHANGED poll
    BY <1>12 DEF V!Repeat, V!Only
  <2> QED BY <1>0, <2>1, PollsCall
<1>13. ASSUME NEW options, V!Edit(options) PROVE V!Inv'
  <2>1. /\ poll' = [poll EXCEPT !.options = options]
        /\ polling' = [c \in Callers |-> [polling[c] EXCEPT !.edited =
             polling[c].edited \/ (polling[c].op = "close" /\ polling[c].pc \in {"refetching", "requesting"})]]
    BY <1>13 DEF V!Edit
  <2>2. DOMAIN poll' = DOMAIN V!NoPoll /\ poll'.exists = poll.exists
    BY <1>0, <2>1 DEF V!NoPoll
  <2>3. ASSUME NEW c \in Callers PROVE V!CopyIsOfThePoll(c)'
    <3>1. /\ DOMAIN polling'[c] = DOMAIN V!Idle /\ polling'[c].op = polling[c].op /\ polling'[c].pc = polling[c].pc
          /\ polling'[c].copy = polling[c].copy
          /\ polling[c].op = "close" /\ polling[c].pc \in {"refetching", "requesting"} => polling'[c].edited
      BY <1>0, <2>1 DEF V!Idle
    <3> QED BY <1>0, <2>2, <3>1 DEF V!CopyIsOfThePoll
  <2>4. polling' = [c \in Callers |-> polling'[c]]
    BY <2>1
  <2> QED BY <2>2, <2>3, <2>4 DEF V!Inv
<1>14. ASSUME UNCHANGED <<poll, polling>> PROVE V!Inv'
  BY <1>14 DEF V!Inv, V!CopyIsOfThePoll
<1>15. CASE V!Tick \/ UNCHANGED V!pollsVars
  BY <1>14, <1>15 DEF V!Tick, V!pollsVars
<1> QED BY <1>2, <1>3, <1>4, <1>6, <1>7, <1>8, <1>9, <1>10, <1>11, <1>12, <1>13, <1>15 DEF V!Next

LEMMA PollsClose ==
  ASSUME V!Inv, [V!Next]_V!pollsVars, poll'.closed, ~poll.closed
  PROVE  poll' = [poll EXCEPT !.closed = TRUE] \/ \E c \in Callers : polling[c].edited /\ polling'[c] # polling[c]
<1>1. ASSUME NEW c \in Callers, V!Lands(c) PROVE FALSE
  <2>1. poll' # poll
    OBVIOUS
  <2>2. poll' = [V!NoPoll EXCEPT !.exists = TRUE, !.options = polling[c].options]
    BY <1>1, <2>1 DEF V!Lands
  <2> QED BY <2>2 DEF V!NoPoll
<1>2. ASSUME NEW options, V!Edit(options) PROVE FALSE
  <2>1. poll' = [poll EXCEPT !.options = options] /\ DOMAIN poll = DOMAIN V!NoPoll
    BY <1>2 DEF V!Edit, V!Inv
  <2> QED BY <2>1 DEF V!NoPoll
<1>3. \E c \in Callers : V!Close(c)
  BY <1>1, <1>2 DEF V!Next, V!pollsVars, V!Only, V!Create, V!Configured, V!Resolved, V!Start, V!ReadPoll, V!Refetched,
     V!Vote, V!Repeat, V!Tick
<1>4. PICK c \in Callers : V!Close(c)
  BY <1>3
<1>5. polling[c].op = "close" /\ polling[c].pc = "requesting" /\ poll' = V!Replacement(c)
  BY <1>4 DEF V!Close
<1>6. polling[c].copy = poll \/ polling[c].edited
  BY <1>5 DEF V!Inv, V!CopyIsOfThePoll
<1>7. polling'[c] # polling[c]
  <2>1. \E what : polling' = [polling EXCEPT ![c] = V!Replied(polling[c], what)]
    BY <1>4 DEF V!Close, V!Says
  <2>2. \A r, what : V!Replied(r, what).pc = "replied"
    BY DEF V!Replied, V!Idle
  <2>3. polling'[c].pc = "replied"
    BY <2>1, <2>2 DEF V!Inv
  <2> QED BY <1>5, <2>3
<1> QED BY <1>5, <1>6, <1>7 DEF V!Replacement, V!Carried

(* Deadlines.  A request lands in time, as its way is no longer than the   *)
(* margin it left with.                                                    *)
LEMMA PollNumbers == {PollCeiling, PollFallback, PollFloor, PollMargin, PollLag, PollTime, PollVotes} \subseteq Nat
  BY RecordsAssumption DEF RecordsAssumption, V!PollsAssumption

LEMMA PollsBegin == ASSUME V!Init PROVE V!InTime
  BY DEF V!Init, V!InTime, V!IsInTime, V!Idle

LEMMA PollsTimely ==
  ASSUME V!Inv, V!InTime, NEW c \in Callers, NEW r, polling' = [polling EXCEPT ![c] = r], clock' = clock,
         r.says # "bounced",
         r.pc \in {"configuring", "resolving", "sending"} => r.op = "create" /\ r.close \in Nat,
         r.pc = "sending" => r.left = clock /\ r.close - clock >= PollFloor + PollMargin
  PROVE  V!InTime'
<1>1. polling'[c] = r /\ \A d \in Callers \ {c} : polling'[d] = polling[d]
  BY DEF V!Inv
<1>2. ASSUME NEW d \in Callers PROVE V!IsInTime(d)'
  <2>1. CASE d = c
    <3>1. r.pc = "sending" => r.left \in 0..clock /\ clock - r.left <= PollLag
      BY PollNumbers DEF V!InTime
    <3> QED BY <2>1, <1>1, <3>1 DEF V!IsInTime, V!LeftInTime
  <2>2. CASE d # c
    <3>1. V!IsInTime(d) /\ polling'[d] = polling[d]
      BY <2>2, <1>1 DEF V!InTime
    <3> QED BY <3>1 DEF V!IsInTime, V!LeftInTime
  <2> QED BY <2>1, <2>2
<1> QED BY <1>2 DEF V!InTime

LEMMA PollsSayInTime ==
  ASSUME V!Inv, V!InTime, NEW c \in Callers, NEW r, NEW what, polling' = [polling EXCEPT ![c] = V!Replied(r, what)],
         clock' = clock, what # "bounced"
  PROVE  V!InTime'
<1> DEFINE s == V!Replied(r, what)
<1>1. s.says = what /\ s.pc = "replied"
  BY DEF V!Replied, V!Idle
<1> HIDE DEF s
<1> QED BY <1>1, PollsTimely DEF s

LEMMA PollsTakenInTime ==
  ASSUME V!Inv, V!InTime, NEW c \in Callers, NEW copy, NEW min,
         polling' = [polling EXCEPT ![c] = V!TakenAsRead(c, copy, min)], clock' = clock
  PROVE  V!InTime'
<1> DEFINE read == [polling[c] EXCEPT !.copy = copy, !.chosen = V!Shown(min), !.told = V!Shown(min), !.min = min,
                                      !.graded = copy.quiz /\ V!Shown(min) # {}]
           asks == [read EXCEPT !.pc = "requesting"]
<1>1. asks.pc = "requesting" /\ asks.says = polling[c].says
  BY DEF V!Inv, V!CopyIsOfThePoll, V!Idle
<1>2. polling[c].says # "bounced"
  BY DEF V!InTime, V!IsInTime
<1>3. \/ \E what \in {"done", "refused"} : polling' = [polling EXCEPT ![c] = V!Replied(read, what)]
      \/ polling' = [polling EXCEPT ![c] = asks]
  BY DEF V!TakenAsRead
<1> HIDE DEF read, asks
<1>4. CASE \E what \in {"done", "refused"} : polling' = [polling EXCEPT ![c] = V!Replied(read, what)]
  BY <1>4, PollsSayInTime
<1>5. CASE polling' = [polling EXCEPT ![c] = asks]
  BY <1>1, <1>2, <1>5, PollsTimely
<1> QED BY <1>3, <1>4, <1>5

LEMMA PollsKeepTime == ASSUME PollLag <= PollMargin, V!Inv, V!InTime, [V!Next]_V!pollsVars PROVE V!InTime'
<1>0. /\ DOMAIN V!Idle = {"op", "pc", "options", "close", "left", "wanted", "copy", "chosen", "min", "graded", "edited", "says", "told"}
      /\ V!Idle.op = "none" /\ V!Idle.pc = "idle" /\ V!Idle.says = "nothing"
      /\ \A c \in Callers : V!IsInTime(c) /\ DOMAIN polling[c] = DOMAIN V!Idle
  BY DEF V!Inv, V!CopyIsOfThePoll, V!Idle, V!InTime
<1>1. ASSUME NEW c \in Callers, NEW options, NEW close \in Nat, V!Create(c, options, close) PROVE V!InTime'
  <2> DEFINE r == [V!Idle EXCEPT !.op = "create", !.pc = "configuring", !.options = options, !.close = close]
  <2>1. r.op = "create" /\ r.pc = "configuring" /\ r.close = close /\ r.says = "nothing"
    BY <1>0
  <2>2. polling' = [polling EXCEPT ![c] = r] /\ clock' = clock
    BY <1>1 DEF V!Create, V!Only
  <2> HIDE DEF r
  <2> QED BY <2>1, <2>2, PollsTimely
<1>2. ASSUME NEW c \in Callers, NEW what, what # "bounced", V!Says(c, what), clock' = clock PROVE V!InTime'
  BY <1>2, PollsSayInTime DEF V!Says
<1>3. ASSUME NEW c \in Callers, NEW found, V!Configured(c, found) PROVE V!InTime'
  <2> DEFINE r == [polling[c] EXCEPT !.pc = "resolving"]
  <2>1. clock' = clock /\ polling[c].pc = "configuring" /\ (V!Says(c, "refused") \/ polling' = [polling EXCEPT ![c] = r])
    BY <1>3 DEF V!Configured
  <2>2. r.op = polling[c].op /\ r.pc = "resolving" /\ r.close = polling[c].close /\ r.says = polling[c].says
    BY <1>0
  <2> HIDE DEF r
  <2>3. r.op = "create" /\ r.close \in Nat /\ r.says # "bounced"
    BY <1>0, <2>1, <2>2 DEF V!IsInTime
  <2> QED BY <2>1, <2>2, <2>3, <1>2, PollsTimely
<1>4. ASSUME NEW c \in Callers, V!Resolved(c) PROVE V!InTime'
  <2> DEFINE r == [polling[c] EXCEPT !.pc = "sending", !.left = clock]
  <2>1. /\ clock' = clock /\ polling[c].pc = "resolving"
        /\ \/ V!Says(c, "refused")
           \/ polling' = [polling EXCEPT ![c] = r] /\ polling[c].close - clock >= PollFloor + PollMargin
    BY <1>4 DEF V!Resolved, V!Only, V!StillCanBeSent, V!CanBeSent
  <2>2. /\ r.op = polling[c].op /\ r.pc = "sending" /\ r.close = polling[c].close /\ r.says = polling[c].says
        /\ r.left = clock
    BY <1>0
  <2> HIDE DEF r
  <2>3. r.op = "create" /\ r.close \in Nat /\ r.says # "bounced"
    BY <1>0, <2>1, <2>2 DEF V!IsInTime
  <2> QED BY <2>1, <2>2, <2>3, <1>2, PollsTimely
<1>5. ASSUME NEW c \in Callers, V!Lands(c) PROVE V!InTime'
  <2>1. V!LeftInTime(c) /\ polling[c].close \in Nat /\ clock \in Nat
    BY <1>5, <1>0 DEF V!Lands, V!IsInTime, V!InTime
  <2>2. polling[c].close - clock >= PollFloor
    BY <2>1, PollNumbers DEF V!LeftInTime
  <2>3. V!Says(c, "done") /\ clock' = clock
    BY <1>5, <2>2 DEF V!Lands
  <2> QED BY <2>3, <1>2
<1>6. ASSUME NEW c \in Callers, NEW op, NEW wanted, V!Start(c, op, wanted) PROVE V!InTime'
  <2> DEFINE r == [V!Idle EXCEPT !.op = op, !.pc = "reading", !.wanted = wanted]
  <2>1. r.pc = "reading" /\ r.says = "nothing"
    BY <1>0
  <2>2. polling' = [polling EXCEPT ![c] = r] /\ clock' = clock
    BY <1>6 DEF V!Start, V!Only
  <2> HIDE DEF r
  <2> QED BY <2>1, <2>2, PollsTimely
<1>7. ASSUME NEW c \in Callers, NEW min \in BOOLEAN, V!ReadPoll(c, min) PROVE V!InTime'
  <2> DEFINE r == [polling[c] EXCEPT !.pc = "refetching", !.copy = poll]
  <2>1. /\ clock' = clock
        /\ \/ polling' = [polling EXCEPT ![c] = r]
           \/ polling' = [polling EXCEPT ![c] = V!TakenAsRead(c, poll, min)]
    BY <1>7 DEF V!ReadPoll, V!Only
  <2>2. r.pc = "refetching" /\ r.says = polling[c].says
    BY <1>0
  <2> HIDE DEF r
  <2>3. r.says # "bounced"
    BY <1>0, <2>2 DEF V!IsInTime
  <2>4. CASE polling' = [polling EXCEPT ![c] = r]
    BY <2>1, <2>2, <2>3, <2>4, PollsTimely
  <2>5. CASE polling' = [polling EXCEPT ![c] = V!TakenAsRead(c, poll, min)]
    BY <2>1, <2>5, PollsTakenInTime
  <2> QED BY <2>1, <2>4, <2>5
<1>8. ASSUME NEW c \in Callers, NEW min \in BOOLEAN, V!Refetched(c, min) PROVE V!InTime'
  BY <1>8, PollsTakenInTime DEF V!Refetched, V!Only
<1>9. ASSUME NEW c \in Callers, NEW lacks \in BOOLEAN, V!Vote(c, lacks) PROVE V!InTime'
  <2>1. clock' = clock /\ (V!Says(c, "failed") \/ \E r : polling' = [polling EXCEPT ![c] = V!Replied(r, "done")])
    BY <1>9 DEF V!Vote
  <2> QED BY <2>1, <1>2, PollsSayInTime
<1>10. ASSUME NEW c \in Callers, V!Close(c) PROVE V!InTime'
  BY <1>10, <1>2 DEF V!Close
<1>11. ASSUME NEW c \in Callers, V!Repeat(c) PROVE V!InTime'
  BY <1>11, <1>0, PollsTimely DEF V!Repeat, V!Only
<1>12. ASSUME UNCHANGED <<polling, clock>> PROVE V!InTime'
  BY <1>12 DEF V!InTime, V!IsInTime, V!LeftInTime
<1>13. ASSUME V!Tick PROVE V!InTime'
  <2>1. UNCHANGED polling /\ clock' = clock + 1 /\ clock \in Nat
    BY <1>13 DEF V!Tick, V!InTime
  <2>2. ASSUME NEW c \in Callers PROVE V!IsInTime(c)'
    <3>1. ASSUME polling[c].pc = "sending" PROVE V!LeftInTime(c)'
      <4>1. V!LeftInTime(c) /\ clock - polling[c].left < PollLag
        BY <3>1, <1>0, <1>13 DEF V!Tick, V!IsInTime
      <4> QED BY <4>1, <2>1, PollNumbers DEF V!LeftInTime
    <3> QED BY <3>1, <2>1, <1>0 DEF V!IsInTime
  <2> QED BY <2>1, <2>2 DEF V!InTime
<1>14. \A close \in 1..PollTime + 1 : close \in Nat
  BY PollNumbers
<1>15. ASSUME NEW options, V!Edit(options) PROVE V!InTime'
  <2>1. /\ clock' = clock
        /\ polling' = [c \in Callers |-> [polling[c] EXCEPT !.edited =
             polling[c].edited \/ (polling[c].op = "close" /\ polling[c].pc \in {"refetching", "requesting"})]]
    BY <1>15 DEF V!Edit
  <2>2. ASSUME NEW c \in Callers PROVE V!IsInTime(c)'
    <3>1. /\ polling'[c].op = polling[c].op /\ polling'[c].pc = polling[c].pc /\ polling'[c].says = polling[c].says
          /\ polling'[c].close = polling[c].close /\ polling'[c].left = polling[c].left
      BY <1>0, <2>1
    <3> QED BY <1>0, <2>1, <3>1 DEF V!IsInTime, V!LeftInTime
  <2> QED BY <2>1, <2>2 DEF V!InTime
<1> QED BY <1>1, <1>3, <1>4, <1>5, <1>6, <1>7, <1>8, <1>9, <1>10, <1>11, <1>12, <1>13, <1>14, <1>15
  DEF V!Next, V!pollsVars

(* Who has read is told the votes as they stand.                           *)
LEMMA PollsAreRead ==
  ASSUME V!Inv, V!InTime, [V!Next]_V!pollsVars, NEW c \in Callers, polling'[c].says = "done", polling[c].says # "done",
         polling[c].op = "read"
  PROVE  polling'[c].told = votes \/ (polling'[c].min /\ polling[c].pc = "refetching")
<1>0. /\ DOMAIN polling[c] = DOMAIN V!Idle /\ polling = [d \in Callers |-> polling[d]]
      /\ polling[c].pc \notin {"configuring", "resolving", "sending"}
  BY DEF V!Inv, V!CopyIsOfThePoll, V!InTime, V!IsInTime
<1>1. ASSUME NEW d \in Callers, NEW r, polling' = [polling EXCEPT ![d] = r] PROVE d = c /\ polling'[c] = r
  BY <1>0, <1>1
<1> DEFINE Told == polling'[c].told = votes \/ (polling'[c].min /\ polling[c].pc = "refetching")
<1>2. ASSUME NEW copy, NEW min \in BOOLEAN, polling' = [polling EXCEPT ![c] = V!TakenAsRead(c, copy, min)],
             min => polling[c].pc = "refetching"
      PROVE  Told
  <2> DEFINE read == [polling[c] EXCEPT !.copy = copy, !.chosen = V!Shown(min), !.told = V!Shown(min), !.min = min,
                                        !.graded = copy.quiz /\ V!Shown(min) # {}]
  <2>1. polling'[c] = V!Replied(read, "done")
    BY <1>0, <1>2 DEF V!TakenAsRead
  <2>2. read.told = V!Shown(min) /\ read.min = min
    BY <1>0 DEF V!Idle
  <2> HIDE DEF read
  <2>3. V!Replied(read, "done").told = read.told /\ V!Replied(read, "done").min = read.min
    BY DEF V!Replied, V!Idle
  <2>4. CASE min
    BY <1>2, <2>1, <2>2, <2>3, <2>4
  <2>5. CASE ~min
    BY <2>1, <2>2, <2>3, <2>5 DEF V!Shown
  <2> QED BY <2>4, <2>5
<1>3. ASSUME NEW d \in Callers, NEW min \in BOOLEAN, V!ReadPoll(d, min) PROVE Told
  <2>1. d = c
    BY <1>3, <1>1 DEF V!ReadPoll, V!Only
  <2> DEFINE r == [polling[c] EXCEPT !.pc = "refetching", !.copy = poll]
  <2>2. CASE min
    <3>1. polling' = [polling EXCEPT ![c] = r]
      BY <1>3, <2>1, <2>2 DEF V!ReadPoll, V!Only, V!Asks
    <3>2. r.says = polling[c].says
      BY <1>0 DEF V!Idle
    <3> HIDE DEF r
    <3> QED BY <3>1, <3>2, <1>1
  <2>3. CASE ~min
    BY <1>3, <2>1, <2>3, <1>2 DEF V!ReadPoll, V!Only, V!Asks
  <2> QED BY <2>2, <2>3
<1>4. ASSUME NEW d \in Callers, NEW min \in BOOLEAN, V!Refetched(d, min) PROVE Told
  <2>1. d = c
    BY <1>4, <1>1 DEF V!Refetched, V!Only
  <2> QED BY <1>4, <2>1, <1>2 DEF V!Refetched, V!Only
<1>5. ASSUME NEW d \in Callers, V!Vote(d, TRUE) \/ V!Vote(d, FALSE) \/ V!Close(d) PROVE FALSE
  <2>1. d = c
    BY <1>5, <1>1 DEF V!Vote, V!Close, V!Says
  <2> QED BY <1>5, <2>1 DEF V!Vote, V!Close
<1>6. ASSUME NEW d \in Callers, NEW found, V!Configured(d, found) \/ V!Resolved(d) \/ V!Lands(d) PROVE FALSE
  <2>1. d = c
    BY <1>6, <1>1 DEF V!Configured, V!Resolved, V!Lands, V!Says, V!Only
  <2> QED BY <1>0, <1>6, <2>1 DEF V!Configured, V!Resolved, V!Lands
<1>7. ASSUME NEW d \in Callers, NEW r, r.says = "nothing", polling' = [polling EXCEPT ![d] = r] PROVE FALSE
  BY <1>1, <1>7
<1>8. ASSUME NEW d \in Callers, NEW options, NEW close, V!Create(d, options, close) PROVE FALSE
  <2> DEFINE r == [V!Idle EXCEPT !.op = "create", !.pc = "configuring", !.options = options, !.close = close]
  <2>1. r.says = "nothing" /\ polling' = [polling EXCEPT ![d] = r]
    BY <1>8 DEF V!Create, V!Only, V!Idle
  <2> HIDE DEF r
  <2> QED BY <2>1, <1>7
<1>9. ASSUME NEW d \in Callers, NEW op, NEW wanted, V!Start(d, op, wanted) PROVE FALSE
  <2> DEFINE r == [V!Idle EXCEPT !.op = op, !.pc = "reading", !.wanted = wanted]
  <2>1. r.says = "nothing" /\ polling' = [polling EXCEPT ![d] = r]
    BY <1>9 DEF V!Start, V!Only, V!Idle
  <2> HIDE DEF r
  <2> QED BY <2>1, <1>7
<1>10. ASSUME NEW d \in Callers, V!Repeat(d) PROVE FALSE
  <2>1. V!Idle.says = "nothing"
    BY DEF V!Idle
  <2> QED BY <2>1, <1>7, <1>10 DEF V!Repeat, V!Only
<1>11. ASSUME NEW options, V!Edit(options) PROVE FALSE
  <2>1. polling'[c] = [polling[c] EXCEPT !.edited =
          polling[c].edited \/ (polling[c].op = "close" /\ polling[c].pc \in {"refetching", "requesting"})]
    BY <1>11 DEF V!Edit
  <2>2. polling'[c].says = polling[c].says
    BY <1>0, <2>1 DEF V!Idle
  <2> QED BY <2>2
<1> QED BY <1>3, <1>4, <1>5, <1>6, <1>8, <1>9, <1>10, <1>11 DEF V!Next, V!Tick, V!pollsVars

(* The kept lists.  What the operations on a sequence leave in it.         *)
LEMMA ConcatenatedAt ==
  ASSUME NEW Of, NEW s \in Seq(Of), NEW t \in Seq(Of)
  PROVE  /\ s \o t \in Seq(Of) /\ Len(s \o t) = Len(s) + Len(t) /\ Len(s) \in Nat /\ Len(t) \in Nat
         /\ \A k \in 1..Len(s) : (s \o t)[k] = s[k]
         /\ \A k \in 1..Len(t) : (s \o t)[Len(s) + k] = t[k]
  OBVIOUS

LEMMA RemovedAt ==
  ASSUME NEW Of, NEW s \in Seq(Of), NEW i \in 1..Len(s)
  PROVE  LET rest == K!RemoveAt(s, i)
         IN /\ rest \in Seq(Of) /\ Len(rest) = Len(s) - 1
            /\ \A x \in K!ToSet(s) : x = s[i] \/ x \in K!ToSet(rest)
<1> DEFINE before == SubSeq(s, 1, i - 1)
           after  == SubSeq(s, i + 1, Len(s))
           rest   == before \o after
<1>0. Len(s) \in Nat /\ i \in Nat
  OBVIOUS
<1>1. before \in Seq(Of) /\ Len(before) = i - 1 /\ \A k \in 1..i - 1 : before[k] = s[k]
  BY <1>0
<1>2. after \in Seq(Of) /\ Len(after) = Len(s) - i /\ \A k \in 1..Len(s) - i : after[k] = s[i + k]
  BY <1>0
<1>3. K!RemoveAt(s, i) = rest
  BY DEF K!RemoveAt
<1> HIDE DEF before, after
<1>a. /\ rest \in Seq(Of) /\ Len(rest) = Len(before) + Len(after)
      /\ \A k \in 1..Len(before) : rest[k] = before[k]
      /\ \A k \in 1..Len(after) : rest[Len(before) + k] = after[k]
  <2>1. before \in Seq(Of) /\ after \in Seq(Of)
    BY <1>1, <1>2
  <2> QED BY <2>1, ConcatenatedAt
<1> HIDE DEF rest
<1>4. rest \in Seq(Of) /\ Len(rest) = Len(s) - 1
  BY <1>0, <1>1, <1>2, <1>a
<1>5. \A k \in 1..i - 1 : rest[k] = s[k]
  BY <1>0, <1>1, <1>a
<1>6. ASSUME NEW k \in i + 1..Len(s) PROVE rest[k - 1] = s[k]
  <2>1. k - i \in 1..Len(after) /\ Len(before) + (k - i) = k - 1 /\ i + (k - i) = k
    BY <1>0, <1>1, <1>2
  <2>2. rest[Len(before) + (k - i)] = after[k - i] /\ after[k - i] = s[i + (k - i)]
    BY <1>2, <1>a, <2>1
  <2> QED BY <2>1, <2>2
<1>7. ASSUME NEW k \in 1..Len(s), k # i PROVE \E n \in 1..Len(rest) : rest[n] = s[k]
  <2>1. CASE k < i
    BY <1>0, <1>4, <1>5, <2>1
  <2>2. CASE k > i
    <3>1. k - 1 \in 1..Len(rest) /\ rest[k - 1] = s[k]
      BY <1>0, <1>4, <1>6, <2>2
    <3> QED BY <3>1
  <2> QED BY <1>0, <1>7, <2>1, <2>2
<1>8. ASSUME NEW x \in K!ToSet(s) PROVE x = s[i] \/ x \in K!ToSet(rest)
  <2>1. PICK k \in 1..Len(s) : x = s[k]
    BY <1>8 DEF K!ToSet
  <2>2. CASE k = i
    BY <2>1, <2>2
  <2>3. CASE k # i
    <3>1. PICK n \in 1..Len(rest) : rest[n] = x
      BY <1>7, <2>1, <2>3
    <3>2. DOMAIN rest = 1..Len(rest)
      BY <1>4
    <3> QED BY <3>1, <3>2 DEF K!ToSet
  <2> QED BY <2>2, <2>3
<1> QED BY <1>3, <1>4, <1>8

LEMMA Concatenated ==
  ASSUME NEW Of, NEW s \in Seq(Of), NEW t \in Seq(Of)
  PROVE  /\ s \o t \in Seq(Of) /\ Len(s \o t) = Len(s) + Len(t)
         /\ \A x : x \in K!ToSet(s) \/ x \in K!ToSet(t) => x \in K!ToSet(s \o t)
<1>1. s \o t \in Seq(Of) /\ Len(s \o t) = Len(s) + Len(t) /\ Len(s) \in Nat /\ Len(t) \in Nat
  BY ConcatenatedAt
<1>2. ASSUME NEW k \in 1..Len(s) PROVE s[k] \in K!ToSet(s \o t)
  <2>1. k \in 1..Len(s \o t) /\ (s \o t)[k] = s[k]
    BY <1>1, ConcatenatedAt
  <2> QED BY <1>1, <2>1 DEF K!ToSet
<1>3. ASSUME NEW k \in 1..Len(t) PROVE t[k] \in K!ToSet(s \o t)
  <2>1. Len(s) + k \in 1..Len(s \o t) /\ (s \o t)[Len(s) + k] = t[k]
    BY <1>1, ConcatenatedAt
  <2> QED BY <1>1, <2>1 DEF K!ToSet
<1>4. ASSUME NEW x, x \in K!ToSet(s) \/ x \in K!ToSet(t) PROVE x \in K!ToSet(s \o t)
  <2>1. (\E k \in 1..Len(s) : x = s[k]) \/ (\E k \in 1..Len(t) : x = t[k])
    BY <1>4 DEF K!ToSet
  <2> QED BY <2>1, <1>2, <1>3
<1> QED BY <1>1, <1>4

(* Cut after n: what is gone is further back.                              *)
LEMMA CutAfter ==
  ASSUME NEW Of, NEW s \in Seq(Of), NEW n \in Nat
  PROVE  LET cut == K!First(s, n)
         IN /\ cut \in Seq(Of) /\ Len(cut) <= n /\ (Len(s) <= n => cut = s)
            /\ \A k \in 1..Len(s) : k <= n => s[k] \in K!ToSet(cut)
            /\ \A k \in 1..Len(s) : k > n => s[k] \in K!ToSet(SubSeq(s, n + 1, Len(s)))
<1> DEFINE m == IF Len(s) < n THEN Len(s) ELSE n
           cut == SubSeq(s, 1, m)
           rest == SubSeq(s, n + 1, Len(s))
<1>1. Len(s) \in Nat /\ m \in 0..Len(s) /\ m <= n
  OBVIOUS
<1>2. K!First(s, n) = cut
  BY DEF K!First
<1>3. Len(s) <= n => m = Len(s)
  BY <1>1
<1>4. Len(s) > n => m = n
  BY <1>1
<1> HIDE DEF m
<1>5. cut \in Seq(Of) /\ Len(cut) = m /\ \A k \in 1..m : cut[k] = s[k]
  BY <1>1
<1>6. Len(s) > n => Len(rest) = Len(s) - n /\ \A k \in 1..Len(s) - n : rest[k] = s[n + k]
  BY <1>1
<1>7. ASSUME Len(s) <= n PROVE cut = s
  BY <1>1, <1>3, <1>7
<1>8. ASSUME NEW k \in 1..Len(s), k > n PROVE s[k] \in K!ToSet(rest)
  <2>1. k - n \in 1..Len(rest) /\ rest[k - n] = s[k]
    BY <1>1, <1>6, <1>8
  <2>2. rest \in Seq(Of)
    BY <1>1
  <2> HIDE DEF rest
  <2> QED BY <2>1, <2>2 DEF K!ToSet
<1> HIDE DEF cut
<1>9. ASSUME NEW k \in 1..Len(s), k <= n PROVE s[k] \in K!ToSet(cut)
  <2>1. k \in 1..m
    BY <1>1, <1>3, <1>4, <1>9
  <2> QED BY <1>5, <2>1 DEF K!ToSet
<1> QED BY <1>1, <1>2, <1>5, <1>7, <1>8, <1>9

LEMMA ListsInit == ASSUME K!Init PROVE K!Inv
<1>1. ListCap \in Nat
  BY RecordsAssumption DEF RecordsAssumption, K!KeptListsAssumption
<1>2. list \in Seq(K!Entry) /\ Len(list) <= ListCap
  <2>1. CASE list = <<>>
    BY <1>1, <2>1
  <2>2. CASE list # <<>>
    <3>1. PICK n \in 0..ListCap : list \in [1..n -> ListItem]
      BY <2>2 DEF K!Init, K!BoundedSeq, K!SeqOf
    <3>2. list \in Seq(K!Entry)
      BY <1>1, <3>1 DEF K!Entry
    <3> QED BY <1>1, <3>1, <3>2
  <2> QED BY <2>1, <2>2
<1>3. /\ shortcut = [m \in K!Message |-> shortcut[m]] /\ \A m \in K!Message : DOMAIN shortcut[m] = DOMAIN K!NoShortcut
  BY DEF K!Init, K!NoShortcut
<1>4. K!IsACall(K!Idle)
  BY DEF K!IsACall, K!Idle, K!Entry
<1> QED BY <1>2, <1>3, <1>4 DEF K!Init, K!Inv, K!ListsAreTyped, K!CallsAreTyped

(* A call goes to a record.                                                *)
LEMMA ListsCall ==
  ASSUME K!CallsAreTyped, NEW c \in ListCaller, NEW r, K!IsACall(r), keeping' = [keeping EXCEPT ![c] = r]
  PROVE  K!CallsAreTyped' /\ keeping'[c] = r
<1>1. keeping'[c] = r /\ \A d \in ListCaller \ {c} : keeping'[d] = keeping[d]
  BY DEF K!CallsAreTyped
<1>2. keeping' = [d \in ListCaller |-> keeping'[d]]
  BY DEF K!CallsAreTyped
<1> QED BY <1>1, <1>2 DEF K!CallsAreTyped, K!IsACall

(* What an item's removal leaves.                                          *)
LEMMA ListWithout ==
  ASSUME list \in Seq(K!Entry), NEW item
  PROVE  /\ K!Without(item) \in Seq(K!Entry)
         /\ Len(K!Without(item)) = IF K!At(item) = {} THEN Len(list) ELSE Len(list) - 1
         /\ K!At(item) = {} => K!Without(item) = list
         /\ \A x \in K!ToSet(list) : x = item \/ x \in K!ToSet(K!Without(item))
<1>1. CASE K!At(item) = {}
  BY <1>1 DEF K!Without
<1>2. CASE K!At(item) # {}
  <2> DEFINE i == CHOOSE i \in K!At(item) : TRUE
  <2>1. i \in 1..Len(list) /\ list[i] = item
    BY <1>2 DEF K!At
  <2>2. K!Without(item) = K!RemoveAt(list, i)
    BY <1>2 DEF K!Without
  <2> HIDE DEF i
  <2> QED BY <1>2, <2>1, <2>2, RemovedAt
<1> QED BY <1>1, <1>2

(* What an edit leaves of the list.                                        *)
LEMMA ListsEdit ==
  ASSUME K!Inv, NEW c \in ListCaller, K!Applies(c), UNCHANGED shelf
  PROVE  /\ K!ListsAreTyped' /\ keeping[c].pc = "read"
         /\ \A m \in K!Message : \A id \in shortcut[m].held \ shortcut'[m].held :
              keeping[c].op = "delete" /\ keeping[c].id = m /\ (keeping[c].whole \/ id \in keeping[c].ids)
         /\ \A item \in K!ToSet(list) \ K!ToSet(list') :
              \/ keeping[c].op \in {"unsave", "remove", "uninstall"} /\ keeping[c].item = item
              \/ shelf = "row" /\ item = list[ListCap]
              \/ shelf = "picker" /\ item \in archive'
<1> DEFINE Shortcuts == shortcut' = [m \in K!Message |-> shortcut'[m]]
                        /\ \A m \in K!Message : DOMAIN shortcut'[m] = DOMAIN K!NoShortcut
           ShortcutsStay == \A m \in K!Message : \A id \in shortcut[m].held \ shortcut'[m].held :
              keeping[c].op = "delete" /\ keeping[c].id = m /\ (keeping[c].whole \/ id \in keeping[c].ids)
           ItemsStay == \A item \in K!ToSet(list) \ K!ToSet(list') :
              \/ keeping[c].op \in {"unsave", "remove", "uninstall"} /\ keeping[c].item = item
              \/ shelf = "row" /\ item = list[ListCap]
              \/ shelf = "picker" /\ item \in archive'
           Items == list' \in Seq(K!Entry) /\ (shelf # "pack" => Len(list') <= ListCap)
           each == keeping[c].item
<1>0. /\ ListCap \in Nat /\ ListCap >= 1 /\ list \in Seq(K!Entry) /\ Len(list) \in Nat
      /\ shelf # "pack" => Len(list) <= ListCap
      /\ each \in K!Entry /\ keeping[c].id \in Nat
      /\ shortcut = [m \in K!Message |-> shortcut[m]] /\ DOMAIN K!NoShortcut = {"name", "held"}
      /\ \A m \in K!Message : DOMAIN shortcut[m] = DOMAIN K!NoShortcut
  BY RecordsAssumption DEF RecordsAssumption, K!KeptListsAssumption, K!Inv, K!ListsAreTyped, K!CallsAreTyped, K!IsACall, K!NoShortcut
<1>1. keeping[c].pc = "read"
  BY DEF K!Applies, K!PutsMessage, K!EditsMessage, K!RenamesShortcut, K!DeletesReplies, K!SavesGif, K!UnsavesGif,
     K!AddsSticker, K!RemovesSticker, K!MovesSticker, K!InstallsSet, K!UninstallsSet, K!Edits
<1>2. ASSUME UNCHANGED shortcut PROVE Shortcuts /\ ShortcutsStay
  BY <1>0, <1>2
<1>3. ASSUME UNCHANGED list PROVE Items /\ ItemsStay
  BY <1>0, <1>3
<1>4. CASE K!PutsMessage(c)
  <2>1. PICK at, id : shortcut' = [shortcut EXCEPT ![at] = [name |-> each, held |-> shortcut[at].held \cup {id}]]
    BY <1>4 DEF K!PutsMessage
  <2>2. Shortcuts /\ ShortcutsStay
    BY <1>0, <2>1
  <2>3. UNCHANGED list
    BY <1>4 DEF K!PutsMessage
  <2> QED BY <1>1, <1>3, <2>2, <2>3 DEF K!ListsAreTyped
<1>5. CASE K!EditsMessage(c)
  BY <1>1, <1>2, <1>3, <1>5 DEF K!EditsMessage, K!ListsAreTyped
<1>6. CASE K!RenamesShortcut(c)
  <2>1. shortcut' = [shortcut EXCEPT ![keeping[c].id].name = each] /\ UNCHANGED list
    BY <1>6 DEF K!RenamesShortcut
  <2>2. Shortcuts /\ ShortcutsStay
    BY <1>0, <2>1
  <2> QED BY <1>1, <1>3, <2>1, <2>2 DEF K!ListsAreTyped
<1>7. CASE K!DeletesReplies(c)
  <2>1. /\ keeping[c].op = "delete" /\ UNCHANGED list
        /\ shortcut' = IF keeping[c].whole THEN [shortcut EXCEPT ![keeping[c].id] = K!NoShortcut]
                       ELSE [shortcut EXCEPT ![keeping[c].id].held = @ \ keeping[c].ids]
    BY <1>7 DEF K!DeletesReplies, K!Edits, K!Whole, K!OmittedIds
  <2>2. CASE keeping[c].whole
    <3>1. shortcut' = [shortcut EXCEPT ![keeping[c].id] = K!NoShortcut]
      BY <2>1, <2>2
    <3>2. Shortcuts /\ ShortcutsStay
      BY <1>0, <2>1, <2>2, <3>1
    <3> QED BY <1>1, <1>3, <2>1, <3>2 DEF K!ListsAreTyped
  <2>3. CASE ~keeping[c].whole
    <3>1. shortcut' = [shortcut EXCEPT ![keeping[c].id].held = @ \ keeping[c].ids]
      BY <2>1, <2>3
    <3> DEFINE at == keeping[c].id
               r  == [shortcut[at] EXCEPT !.held = shortcut[at].held \ keeping[c].ids]
    <3>a. shortcut' = [shortcut EXCEPT ![at] = r]
      BY <3>1
    <3>b. at \in K!Message => (DOMAIN r = DOMAIN K!NoShortcut /\ r.held = shortcut[at].held \ keeping[c].ids)
      BY <1>0
    <3> HIDE DEF r
    <3>2. Shortcuts /\ ShortcutsStay
      BY <1>0, <2>1, <3>a, <3>b
    <3> QED BY <1>1, <1>3, <2>1, <3>2 DEF K!ListsAreTyped
  <2> QED BY <2>2, <2>3
<1>8. ASSUME NEW item \in K!Entry, shelf # "pack"
      PROVE  LET row == K!ToFront(item)
                 cut == K!First(row, ListCap)
             IN /\ cut \in Seq(K!Entry) /\ Len(cut) <= ListCap
                /\ \A x \in K!ToSet(list) \ K!ToSet(cut) :
                     x = list[ListCap] /\ x \in K!ToSet(SubSeq(row, ListCap + 1, Len(row)))
  <2> DEFINE rest == K!Without(item)
             one == <<item>>
             row == one \o rest
             cut == K!First(row, ListCap)
  <2>1. /\ rest \in Seq(K!Entry) /\ Len(rest) = IF K!At(item) = {} THEN Len(list) ELSE Len(list) - 1
        /\ K!At(item) = {} => rest = list
        /\ \A x \in K!ToSet(list) : x = item \/ x \in K!ToSet(rest)
    BY <1>0, ListWithout
  <2>2. one \in Seq(K!Entry) /\ Len(one) = 1 /\ item \in K!ToSet(one)
    <3>1. one \in Seq(K!Entry) /\ Len(one) = 1 /\ one[1] = item
      BY <1>8
    <3> HIDE DEF one
    <3> QED BY <3>1 DEF K!ToSet
  <2> HIDE DEF rest, one
  <2>3. /\ row \in Seq(K!Entry) /\ Len(row) = 1 + Len(rest)
        /\ \A x \in K!ToSet(list) : x \in K!ToSet(row)
    BY <2>1, <2>2, Concatenated
  <2>4. Len(row) = ListCap + 1 => \A k \in 1..ListCap + 1 : k <= ListCap \/ row[k] = list[ListCap]
    <3>1. ASSUME Len(row) = ListCap + 1 PROVE row[ListCap + 1] = list[ListCap]
      <4>1. K!At(item) = {} /\ Len(list) = ListCap
        BY <1>0, <1>8, <2>1, <2>3, <3>1
      <4>2. rest = list
        BY <2>1, <4>1
      <4>3. 1 + ListCap = ListCap + 1 /\ ListCap \in 1..Len(rest)
        BY <1>0, <4>1, <4>2
      <4>4. row[1 + ListCap] = rest[ListCap]
        <5>1. one \in Seq(K!Entry) /\ rest \in Seq(K!Entry) /\ Len(one) = 1
          BY <2>1, <2>2
        <5>2. \A s, t \in Seq(K!Entry) : \A k \in 1..Len(t) : (s \o t)[Len(s) + k] = t[k]
          BY ConcatenatedAt
        <5>3. \A k \in 1..Len(rest) : (one \o rest)[Len(one) + k] = rest[k]
          BY <5>1, <5>2
        <5> QED BY <4>3, <5>1, <5>3
      <4> QED BY <4>2, <4>3, <4>4
    <3> QED BY <1>0, <3>1
  <2>5. K!ToFront(item) = row
    BY DEF K!ToFront, rest, one
  <2>6. Len(row) <= ListCap + 1 /\ Len(row) \in Nat
    BY <1>0, <1>8, <2>1, <2>3
  <2> HIDE DEF row
  <2>7. /\ cut \in Seq(K!Entry) /\ Len(cut) <= ListCap
        /\ \A k \in 1..Len(row) : k <= ListCap => row[k] \in K!ToSet(cut)
        /\ \A k \in 1..Len(row) : k > ListCap => row[k] \in K!ToSet(SubSeq(row, ListCap + 1, Len(row)))
    BY <1>0, <2>3, CutAfter
  <2> HIDE DEF cut
  <2>8. ASSUME NEW x \in K!ToSet(list) \ K!ToSet(cut)
        PROVE  x = list[ListCap] /\ x \in K!ToSet(SubSeq(row, ListCap + 1, Len(row)))
    <3>1. x \in K!ToSet(row)
      BY <2>3, <2>8
    <3>2. PICK k \in 1..Len(row) : row[k] = x
      BY <2>3, <3>1 DEF K!ToSet
    <3>3. k > ListCap /\ Len(row) = ListCap + 1
      BY <1>0, <2>6, <2>7, <2>8, <3>2
    <3> QED BY <1>0, <2>4, <2>7, <3>2, <3>3
  <2> QED BY <2>5, <2>7, <2>8 DEF cut
<1>9. CASE K!SavesGif(c)
  <2>1. shelf = "row" /\ list' = K!First(K!ToFront(each), ListCap) /\ UNCHANGED shortcut
    BY <1>9 DEF K!SavesGif
  <2> QED BY <1>0, <1>1, <1>2, <1>8, <2>1 DEF K!ListsAreTyped
<1>10. ASSUME keeping[c].op \in {"unsave", "uninstall"} \/ (shelf = "picker" /\ each \in archive'), shelf # "pack",
              list' = K!Without(each)
       PROVE  Items /\ ItemsStay
  BY <1>0, <1>10, ListWithout
<1>11. CASE K!UnsavesGif(c) \/ K!UninstallsSet(c)
  <2>1. shelf # "pack" /\ keeping[c].op \in {"unsave", "uninstall"} /\ list' = K!Without(each) /\ UNCHANGED shortcut
    BY <1>11 DEF K!UnsavesGif, K!UninstallsSet, K!Edits
  <2> QED BY <1>1, <1>2, <1>10, <2>1 DEF K!ListsAreTyped
<1>12. CASE K!AddsSticker(c)
  <2>1. shelf = "pack" /\ list' = Append(list, each) /\ UNCHANGED shortcut
    BY <1>12 DEF K!AddsSticker
  <2>2. list' \in Seq(K!Entry) /\ Len(list') = Len(list) + 1 /\ \A k \in 1..Len(list) : list'[k] = list[k]
    BY <1>0, <2>1
  <2>3. \A x \in K!ToSet(list) : x \in K!ToSet(list')
    BY <1>0, <2>2 DEF K!ToSet
  <2> QED BY <1>1, <1>2, <2>1, <2>2, <2>3 DEF K!ListsAreTyped
<1>13. CASE K!RemovesSticker(c)
  <2>1. /\ shelf = "pack" /\ keeping[c].op = "remove" /\ UNCHANGED shortcut
        /\ \E i \in 1..Len(list) : list[i] = each /\ list' = K!RemoveAt(list, i)
    BY <1>0, <1>13 DEF K!RemovesSticker, K!At, K!Edits
  <2>2. list' \in Seq(K!Entry) /\ \A x \in K!ToSet(list) : x = each \/ x \in K!ToSet(list')
    BY <1>0, <2>1, RemovedAt
  <2> QED BY <1>1, <1>2, <2>1, <2>2 DEF K!ListsAreTyped
<1>14. CASE K!MovesSticker(c)
  <2>1. /\ shelf = "pack" /\ UNCHANGED shortcut
        /\ \E i \in 1..Len(list) :
             /\ list[i] = each
             /\ LET rest == K!RemoveAt(list, i)
                    to   == IF keeping[c].id < Len(rest) THEN keeping[c].id + 1 ELSE Len(list)
                IN list' = K!InsertAt(rest, to, each)
    BY <1>0, <1>14 DEF K!MovesSticker, K!At
  <2>2. PICK i \in 1..Len(list) :
          /\ list[i] = each
          /\ LET rest == K!RemoveAt(list, i)
                 to   == IF keeping[c].id < Len(rest) THEN keeping[c].id + 1 ELSE Len(list)
             IN list' = K!InsertAt(rest, to, each)
    BY <2>1
  <2> DEFINE rest == K!RemoveAt(list, i)
             to == IF keeping[c].id < Len(rest) THEN keeping[c].id + 1 ELSE Len(list)
             before == SubSeq(rest, 1, to - 1)
             one == <<each>>
             after == SubSeq(rest, to, Len(rest))
  <2>3. rest \in Seq(K!Entry) /\ Len(rest) = Len(list) - 1 /\ \A x \in K!ToSet(list) : x = each \/ x \in K!ToSet(rest)
    BY <1>0, <2>2, RemovedAt
  <2>4. list' = (before \o one) \o after
    BY <2>2 DEF K!InsertAt
  <2> HIDE DEF rest
  <2>5. to \in 1..Len(rest) + 1 /\ Len(rest) \in Nat
    BY <1>0, <2>3
  <2> HIDE DEF to
  <2>6. before \in Seq(K!Entry) /\ Len(before) = to - 1 /\ \A k \in 1..to - 1 : before[k] = rest[k]
    BY <2>3, <2>5
  <2>7. after \in Seq(K!Entry) /\ Len(after) = Len(rest) - to + 1
        /\ \A k \in 1..Len(rest) - to + 1 : after[k] = rest[to + k - 1]
    BY <2>3, <2>5
  <2>8. one \in Seq(K!Entry) /\ each \in K!ToSet(one)
    <3>1. one \in Seq(K!Entry) /\ Len(one) = 1 /\ one[1] = each
      BY <1>0
    <3> HIDE DEF one
    <3> QED BY <3>1 DEF K!ToSet
  <2> HIDE DEF before, one, after
  <2>9. before \o one \in Seq(K!Entry) /\ \A x : x \in K!ToSet(before) \/ x \in K!ToSet(one) => x \in K!ToSet(before \o one)
    BY <2>6, <2>8, Concatenated
  <2>10. list' \in Seq(K!Entry)
         /\ \A x : x \in K!ToSet(before \o one) \/ x \in K!ToSet(after) => x \in K!ToSet(list')
    BY <2>4, <2>7, <2>9, Concatenated
  <2>11. ASSUME NEW k \in 1..Len(rest) PROVE rest[k] \in K!ToSet(before) \/ rest[k] \in K!ToSet(after)
    <3>1. CASE k < to
      BY <2>5, <2>6, <3>1 DEF K!ToSet
    <3>2. CASE ~(k < to)
      <4>0. k - to + 1 \in 1..Len(rest) - to + 1 /\ to + (k - to + 1) - 1 = k
        BY <2>5, <3>2
      <4>1. k - to + 1 \in 1..Len(after) /\ after[k - to + 1] = rest[k]
        BY <2>7, <4>0
      <4> QED BY <2>7, <4>1 DEF K!ToSet
    <3> QED BY <3>1, <3>2
  <2>12. \A x \in K!ToSet(rest) : x \in K!ToSet(before) \/ x \in K!ToSet(after)
    BY <2>3, <2>11 DEF K!ToSet
  <2>13. \A x \in K!ToSet(list) : x \in K!ToSet(list')
    BY <2>3, <2>8, <2>9, <2>10, <2>12
  <2> QED BY <1>1, <1>2, <2>1, <2>10, <2>13 DEF K!ListsAreTyped
<1>15. CASE K!InstallsSet(c)
  <2>1. shelf = "picker" /\ UNCHANGED shortcut
    BY <1>15 DEF K!InstallsSet
  <2>2. CASE keeping[c].whole
    <3>1. list' = K!First(K!Without(each), ListCap) /\ each \in archive'
      BY <1>15, <2>2 DEF K!InstallsSet
    <3>2. K!Without(each) \in Seq(K!Entry) /\ Len(K!Without(each)) <= ListCap
      BY <1>0, <2>1, ListWithout
    <3>3. list' = K!Without(each)
      BY <1>0, <3>1, <3>2, CutAfter
    <3> QED BY <1>1, <1>2, <1>10, <2>1, <3>1, <3>3 DEF K!ListsAreTyped
  <2>3. CASE ~keeping[c].whole
    <3>1. /\ list' = K!First(K!ToFront(each), ListCap)
          /\ K!ToSet(SubSeq(K!ToFront(each), ListCap + 1, Len(K!ToFront(each)))) \subseteq archive'
      BY <1>15, <2>3 DEF K!InstallsSet
    <3> QED BY <1>0, <1>1, <1>2, <1>8, <2>1, <3>1 DEF K!ListsAreTyped
  <2> QED BY <2>2, <2>3
<1> QED BY <1>4, <1>5, <1>6, <1>7, <1>9, <1>11, <1>12, <1>13, <1>14, <1>15 DEF K!Applies

LEMMA ListsStep ==
  ASSUME K!Inv, [K!Next]_K!listsVars
  PROVE  /\ K!Inv'
         /\ \A m \in K!Message : \A id \in shortcut[m].held \ shortcut'[m].held :
              \E c \in K!Editing("delete") : keeping[c].id = m /\ (keeping[c].whole \/ id \in keeping[c].ids)
         /\ \A item \in K!ToSet(list) \ K!ToSet(list') :
              \/ \E c \in K!Editing("unsave") \cup K!Editing("remove") \cup K!Editing("uninstall") :
                   keeping[c].item = item
              \/ shelf = "row" /\ item = list[ListCap]
              \/ shelf = "picker" /\ item \in archive'
<1> DEFINE Kept ==
             /\ \A m \in K!Message : \A id \in shortcut[m].held \ shortcut'[m].held :
                  \E c \in K!Editing("delete") : keeping[c].id = m /\ (keeping[c].whole \/ id \in keeping[c].ids)
             /\ \A item \in K!ToSet(list) \ K!ToSet(list') :
                  \/ \E c \in K!Editing("unsave") \cup K!Editing("remove") \cup K!Editing("uninstall") :
                       keeping[c].item = item
                  \/ shelf = "row" /\ item = list[ListCap]
                  \/ shelf = "picker" /\ item \in archive'
<1>0. /\ K!ListsAreTyped /\ K!CallsAreTyped /\ K!IsACall(K!Idle)
      /\ \A c \in ListCaller : K!IsACall(keeping[c])
      /\ DOMAIN K!Idle = {"pc", "op", "item", "id", "ids", "whole", "seen", "times", "found", "flag", "out", "says"}
      /\ K!Idle.item = K!None /\ K!Idle.id = 0
  BY DEF K!Inv, K!CallsAreTyped, K!IsACall, K!Idle, K!Entry
<1>1. ASSUME UNCHANGED K!Lists PROVE Kept
  BY <1>1 DEF K!Lists
<1>2. ASSUME UNCHANGED K!Lists, K!CallsAreTyped' PROVE K!Inv' /\ Kept
  BY <1>0, <1>1, <1>2 DEF K!Lists, K!Inv, K!ListsAreTyped
<1>3. ASSUME NEW c \in ListCaller, K!Reads(c) PROVE K!Inv' /\ Kept
  <2> DEFINE r == [keeping[c] EXCEPT !.pc = "replied", !.says = "refused"]
             s == [keeping[c] EXCEPT !.pc = "read", !.seen = Len(list), !.found = K!Named(keeping[c].item) # {}]
  <2>1. K!IsACall(r) /\ K!IsACall(s)
    BY <1>0 DEF K!IsACall
  <2>2. UNCHANGED K!Lists /\ (keeping' = [keeping EXCEPT ![c] = r] \/ keeping' = [keeping EXCEPT ![c] = s])
    BY <1>3 DEF K!Reads, K!Replies, K!Set
  <2> HIDE DEF r, s
  <2> QED BY <1>0, <1>2, <2>1, <2>2, ListsCall
<1>4. ASSUME NEW c \in ListCaller, NEW r, K!IsACall(r), r.pc # "read", K!Applies(c), UNCHANGED shelf,
             keeping' = [keeping EXCEPT ![c] = r]
      PROVE  K!Inv' /\ Kept
  <2>1. K!CallsAreTyped' /\ keeping'[c] = r
    BY <1>0, <1>4, ListsCall
  <2>2. /\ K!ListsAreTyped' /\ keeping[c].pc = "read"
        /\ \A m \in K!Message : \A id \in shortcut[m].held \ shortcut'[m].held :
             keeping[c].op = "delete" /\ keeping[c].id = m /\ (keeping[c].whole \/ id \in keeping[c].ids)
        /\ \A item \in K!ToSet(list) \ K!ToSet(list') :
             \/ keeping[c].op \in {"unsave", "remove", "uninstall"} /\ keeping[c].item = item
             \/ shelf = "row" /\ item = list[ListCap]
             \/ shelf = "picker" /\ item \in archive'
    BY <1>4, ListsEdit
  <2>3. \A op : keeping[c].op = op => c \in K!Editing(op)
    BY <1>4, <2>1, <2>2 DEF K!Editing
  <2> QED BY <2>1, <2>2, <2>3 DEF K!Inv
<1>5. ASSUME NEW c \in ListCaller, K!Answers(c) PROVE K!Inv' /\ Kept
  <2> DEFINE pc   == IF K!LooksAgain(c) THEN "edited" ELSE "replied"
             says == IF K!LooksAgain(c) THEN "nothing" ELSE "done"
             out  == IF keeping[c].op = "install" /\ ~keeping[c].whole THEN archive' \ archive ELSE {}
             q    == K!Applied(c)
             r    == [q EXCEPT !.pc = pc, !.says = says, !.flag = K!Grew(c), !.out = out]
  <2>1. keeping' = [keeping EXCEPT ![c] = r]
    BY <1>5 DEF K!Answers, K!Set
  <2>2. K!IsACall(q)
    BY <1>0 DEF K!IsACall, K!Applied
  <2>3. pc # "read"
    OBVIOUS
  <2> HIDE DEF q, pc, says, out
  <2>4. K!IsACall(r) /\ r.pc = pc
    BY <1>0, <2>2 DEF K!IsACall
  <2> HIDE DEF r
  <2> QED BY <1>4, <1>5, <2>1, <2>3, <2>4 DEF K!Answers
<1>6. ASSUME NEW c \in ListCaller, K!EditFails(c) PROVE K!Inv' /\ Kept
  <2> DEFINE q == K!Applied(c)
             r == [q EXCEPT !.pc = "replied", !.says = "failed"]
             s == [keeping[c] EXCEPT !.pc = "replied", !.says = "failed"]
  <2>1. \/ UNCHANGED K!Lists /\ keeping' = [keeping EXCEPT ![c] = s]
        \/ K!Applies(c) /\ UNCHANGED shelf /\ keeping' = [keeping EXCEPT ![c] = r]
    BY <1>6 DEF K!EditFails, K!Replies, K!Set
  <2>2. K!IsACall(q) /\ K!IsACall(s)
    BY <1>0 DEF K!IsACall, K!Applied
  <2> HIDE DEF q, s
  <2>3. K!IsACall(r) /\ r.pc = "replied"
    BY <1>0, <2>2 DEF K!IsACall
  <2> HIDE DEF r
  <2> QED BY <1>0, <1>2, <1>4, <2>1, <2>2, <2>3, ListsCall
<1>7. ASSUME NEW c \in ListCaller, K!Tells(c) \/ K!LookFails(c) \/ K!Retry(c) \/ K!Again(c) PROVE K!Inv' /\ Kept
  <2>1. UNCHANGED K!Lists
    BY <1>7 DEF K!Tells, K!LookFails, K!Retry, K!Again
  <2>2. \/ \E pc, says : keeping' = [keeping EXCEPT ![c] = [keeping[c] EXCEPT !.pc = pc, !.says = says]]
        \/ \E flag : keeping' = [keeping EXCEPT ![c] = [keeping[c] EXCEPT !.pc = "replied", !.says = "done", !.flag = flag]]
        \/ keeping' = [keeping EXCEPT ![c] = K!Idle]
    BY <1>7 DEF K!Tells, K!LookFails, K!Retry, K!Again, K!Replies, K!Set
  <2>3. /\ \A pc, says : K!IsACall([keeping[c] EXCEPT !.pc = pc, !.says = says])
        /\ \A flag : K!IsACall([keeping[c] EXCEPT !.pc = "replied", !.says = "done", !.flag = flag])
    BY <1>0 DEF K!IsACall
  <2>4. \E r : K!IsACall(r) /\ keeping' = [keeping EXCEPT ![c] = r]
    BY <1>0, <2>2, <2>3
  <2> QED BY <1>0, <1>2, <2>1, <2>4, ListsCall
<1>8. ASSUME NEW c \in ListCaller, NEW record, K!IsACall(record), K!Start(c, record) PROVE K!Inv' /\ Kept
  BY <1>0, <1>2, <1>8, ListsCall DEF K!Start, K!Set
<1>9. ASSUME NEW c \in ListCaller, NEW item \in ListItem, NEW archived, NEW n \in Nat,
             \/ K!AddQuickReply(c, item) \/ K!SaveGif(c, item) \/ K!UnsaveGif(c, item)
             \/ K!RemoveSticker(c, item) \/ K!UninstallSet(c, item) \/ K!InstallSet(c, item, archived)
             \/ K!AddSticker(c, item, n) \/ K!MoveSticker(c, item, n)
      PROVE  K!Inv' /\ Kept
  <2>1. \/ \E pc, op : K!Start(c, [K!Idle EXCEPT !.pc = pc, !.op = op, !.item = item])
        \/ \E pc, op : K!Start(c, [K!Idle EXCEPT !.pc = pc, !.op = op, !.item = item, !.whole = archived])
        \/ \E pc, op : K!Start(c, [K!Idle EXCEPT !.pc = pc, !.op = op, !.item = item, !.id = n])
    BY <1>9 DEF K!AddQuickReply, K!SaveGif, K!UnsaveGif, K!RemoveSticker, K!UninstallSet, K!InstallSet, K!AddSticker,
       K!MoveSticker, K!Begins
  <2>2. \A pc, op : /\ K!IsACall([K!Idle EXCEPT !.pc = pc, !.op = op, !.item = item])
                    /\ K!IsACall([K!Idle EXCEPT !.pc = pc, !.op = op, !.item = item, !.whole = archived])
                    /\ K!IsACall([K!Idle EXCEPT !.pc = pc, !.op = op, !.item = item, !.id = n])
    BY DEF K!IsACall, K!Idle, K!Entry
  <2> QED BY <2>1, <2>2, <1>8
<1>10. ASSUME NEW c \in ListCaller, NEW id \in K!Message, NEW item \in ListItem, K!RenameQuickReply(c, id, item)
       PROVE  K!Inv' /\ Kept
  <2>1. K!Start(c, [K!Idle EXCEPT !.pc = "asked", !.op = "rename", !.item = item, !.id = id])
    BY <1>10 DEF K!RenameQuickReply
  <2>2. K!IsACall([K!Idle EXCEPT !.pc = "asked", !.op = "rename", !.item = item, !.id = id])
    BY DEF K!IsACall, K!Idle, K!Entry, K!Message
  <2> QED BY <2>1, <2>2, <1>8
<1>15. ASSUME NEW c \in ListCaller, NEW id \in K!Message, NEW m, K!EditQuickReply(c, id, m) PROVE K!Inv' /\ Kept
  <2>1. K!Start(c, [K!Idle EXCEPT !.pc = "asked", !.op = "edit", !.id = id, !.ids = {m}])
    BY <1>15 DEF K!EditQuickReply
  <2>2. K!IsACall([K!Idle EXCEPT !.pc = "asked", !.op = "edit", !.id = id, !.ids = {m}])
    BY DEF K!IsACall, K!Idle, K!Entry, K!Message
  <2> QED BY <2>1, <2>2, <1>8
<1>11. ASSUME NEW c \in ListCaller, NEW id \in K!Message, NEW whole, NEW ids, K!DeleteQuickReply(c, id, whole, ids)
       PROVE  K!Inv' /\ Kept
  <2>1. K!Start(c, [K!Idle EXCEPT !.pc = "asked", !.op = "delete", !.id = id, !.ids = ids, !.whole = whole])
    BY <1>11 DEF K!DeleteQuickReply
  <2>2. K!IsACall([K!Idle EXCEPT !.pc = "asked", !.op = "delete", !.id = id, !.ids = ids, !.whole = whole])
    BY DEF K!IsACall, K!Idle, K!Entry, K!Message
  <2> QED BY <2>1, <2>2, <1>8
<1>12. CASE UNCHANGED K!listsVars
  BY <1>0, <1>2, <1>12 DEF K!listsVars, K!Lists, K!CallsAreTyped
<1>13. 0..ListCap \subseteq Nat
  OBVIOUS
<1>14. CASE K!Next
  <2>1. PICK c \in ListCaller :
          \/ K!Reads(c) \/ K!Answers(c) \/ K!EditFails(c) \/ K!Tells(c) \/ K!LookFails(c) \/ K!Retry(c) \/ K!Again(c)
          \/ \E item \in ListItem, archived \in BOOLEAN, n \in Nat :
               \/ K!AddQuickReply(c, item) \/ K!SaveGif(c, item) \/ K!UnsaveGif(c, item)
               \/ K!RemoveSticker(c, item) \/ K!UninstallSet(c, item) \/ K!InstallSet(c, item, archived)
               \/ K!AddSticker(c, item, n) \/ K!MoveSticker(c, item, n)
          \/ \E id \in K!Message :
               \/ \E item \in ListItem : K!RenameQuickReply(c, id, item)
               \/ \E m \in K!Message : K!EditQuickReply(c, id, m)
               \/ \E whole \in BOOLEAN, ids \in SUBSET K!Message : K!DeleteQuickReply(c, id, whole, ids)
    <3>1. 0 \in Nat /\ TRUE \in BOOLEAN
      OBVIOUS
    <3> QED BY <1>13, <1>14, <3>1 DEF K!Next
  <2> QED BY <2>1, <1>3, <1>5, <1>6, <1>7, <1>9, <1>10, <1>11, <1>15
<1> QED BY <1>12, <1>14

(* What a call has read and done is of the list as it stands, as one call  *)
(* at a time is not settled.                                               *)
LEMMA ListsMeant == ASSUME ~ListOverlap, K!Init PROVE K!Meant
<1>1. K!Exists = {}
  BY DEF K!Init, K!Exists, K!NoShortcut
<1> QED BY <1>1 DEF K!Init, K!Meant, K!ShortcutsAreNumbered, K!OneIsUnsettled, K!IsOfTheList, K!SaysWhereItIs,
     K!IsUnderWay, K!AddsByTheCount, K!FindsTheName, K!HasInstalled, K!Settled, K!Idle, K!None

LEMMA ListsTurn ==
  ASSUME ~ListOverlap, K!Inv, K!Meant, NEW c \in ListCaller, NEW r, keeping' = [keeping EXCEPT ![c] = r], UNCHANGED shelf,
         K!ShortcutsAreNumbered', K!IsOfTheList(c)',
         UNCHANGED K!Lists \/ \A d \in ListCaller \ {c} : K!Settled(d),
         K!Settled(c)' \/ \A d \in ListCaller \ {c} : K!Settled(d)
  PROVE  K!Meant'
<1>1. keeping'[c] = r /\ \A d \in ListCaller \ {c} : keeping'[d] = keeping[d]
  BY DEF K!Inv, K!CallsAreTyped
<1>2. \A d \in ListCaller \ {c} : K!Settled(d)' = K!Settled(d)
  BY <1>1 DEF K!Settled
<1>3. K!OneIsUnsettled'
  BY <1>2 DEF K!Meant, K!OneIsUnsettled
<1>4. ASSUME NEW d \in ListCaller \ {c} PROVE K!IsOfTheList(d)'
  <2>1. keeping'[d] = keeping[d] /\ K!IsOfTheList(d)
    BY <1>1 DEF K!Meant
  <2>2. CASE UNCHANGED K!Lists
    BY <2>1, <2>2 DEF K!Lists, K!IsOfTheList, K!SaysWhereItIs, K!IsUnderWay, K!AddsByTheCount, K!FindsTheName, K!HasInstalled,
       K!Settled, K!Named, K!Exists, K!ToSet
  <2>3. CASE K!Settled(d)
    <3>1. ~K!IsUnderWay(d)
      BY <2>1, <2>3 DEF K!Settled, K!IsOfTheList, K!SaysWhereItIs, K!IsUnderWay
    <3>2. K!SaysWhereItIs(d)' /\ K!Settled(d)'
      BY <2>1, <2>3 DEF K!Settled, K!IsOfTheList, K!SaysWhereItIs, K!IsUnderWay
    <3>3. K!AddsByTheCount(d)' /\ K!HasInstalled(d)'
      BY <2>1, <3>1, <3>2 DEF K!IsUnderWay, K!IsOfTheList, K!AddsByTheCount, K!HasInstalled
    <3>4. K!FindsTheName(d)'
      BY <2>1, <3>1 DEF K!IsUnderWay, K!IsOfTheList, K!FindsTheName
    <3> QED BY <3>2, <3>3, <3>4 DEF K!IsOfTheList
  <2> QED BY <2>2, <2>3
<1> QED BY <1>3, <1>4 DEF K!Meant

(* What an edit makes of the shortcuts.                                    *)
LEMMA ShortcutsEdit ==
  ASSUME ~ListOverlap, K!Inv, K!Meant, NEW c \in ListCaller, K!Applies(c)
  PROVE  /\ K!ShortcutsAreNumbered' /\ count' = count + 1
         /\ shelf = "replies" /\ keeping[c].op = "add" =>
              (keeping[c].found <=> {m \in K!Exists' : shortcut'[m].name = keeping[c].item} # {count'})
<1> DEFINE each  == keeping[c].item
           after == {m \in K!Exists' : shortcut'[m].name = each}
<1>0. /\ count \in Nat /\ (\A m \in K!Exists : m <= count)
      /\ \A m, n \in K!Exists : shortcut[m].name = shortcut[n].name => m = n
      /\ shortcut = [m \in K!Message |-> shortcut[m]] /\ DOMAIN K!NoShortcut = {"name", "held"}
      /\ \A m \in K!Message : DOMAIN shortcut[m] = DOMAIN K!NoShortcut
      /\ K!NoShortcut.name = K!None /\ K!None \notin ListItem /\ ListRequests \in Nat
  BY RecordsAssumption DEF RecordsAssumption, K!KeptListsAssumption, K!Meant, K!ShortcutsAreNumbered, K!Inv, K!ListsAreTyped,
     K!NoShortcut, K!None
<1>1. keeping[c].pc = "read" /\ count < ListRequests /\ count' = count + 1
  BY DEF K!Applies, K!PutsMessage, K!EditsMessage, K!RenamesShortcut, K!DeletesReplies, K!SavesGif, K!UnsavesGif,
     K!AddsSticker, K!RemovesSticker, K!MovesSticker, K!InstallsSet, K!UninstallsSet, K!Edits, K!Counted
<1>2. count' \in Nat /\ \A m \in K!Exists : m <= count'
  BY <1>0, <1>1 DEF K!Exists, K!Message
<1>3. ASSUME UNCHANGED shortcut PROVE K!ShortcutsAreNumbered'
  BY <1>0, <1>2, <1>3 DEF K!ShortcutsAreNumbered, K!Exists
<1>4. CASE K!PutsMessage(c)
  <2> DEFINE at == IF K!Named(each) # {} THEN CHOOSE m \in K!Named(each) : TRUE ELSE count + 1
             new == [name |-> each, held |-> shortcut[at].held \cup {count + 1}]
  <2>1. shortcut' = [shortcut EXCEPT ![at] = new] /\ shelf = "replies" /\ keeping[c].op = "add"
    BY <1>4 DEF K!PutsMessage, K!Edits
  <2>2. each \in ListItem /\ (keeping[c].found <=> K!Named(each) # {})
    BY <1>1, <2>1 DEF K!Meant, K!IsOfTheList, K!FindsTheName
  <2>3. new.name = each
    OBVIOUS
  <2> HIDE DEF new
  <2>4. CASE K!Named(each) # {}
    <3>1. at \in K!Named(each)
      BY <2>4
    <3>2. at \in K!Exists /\ shortcut[at].name = each /\ at \in K!Message
      BY <3>1 DEF K!Named, K!Exists
    <3> HIDE DEF at
    <3>3. \A m \in K!Message : shortcut'[m].name = shortcut[m].name
      BY <1>0, <2>1, <2>3, <3>2
    <3>4. K!Exists' = K!Exists /\ after = K!Named(each)
      BY <3>3 DEF K!Exists, K!Named, K!Message
    <3>5. at # count'
      BY <1>0, <1>1, <3>2 DEF K!Message
    <3>6. after # {count'}
      BY <2>4, <3>1, <3>4, <3>5
    <3>7. K!ShortcutsAreNumbered'
      BY <1>0, <1>2, <3>3, <3>4 DEF K!ShortcutsAreNumbered, K!Exists
    <3> QED BY <1>1, <2>2, <2>4, <3>6, <3>7
  <2>5. CASE K!Named(each) = {}
    <3>1. at = count + 1 /\ at \in K!Message /\ at = count'
      BY <1>0, <1>1, <2>5 DEF K!Message
    <3> HIDE DEF at
    <3>2. shortcut'[at].name = each /\ \A m \in K!Message \ {at} : shortcut'[m].name = shortcut[m].name
      BY <1>0, <2>1, <2>3, <3>1
    <3>3. K!Exists' = K!Exists \cup {at}
      BY <1>0, <2>2, <3>1, <3>2 DEF K!Exists
    <3>4. after = {at}
      BY <2>5, <3>1, <3>2, <3>3 DEF K!Named, K!Exists
    <3>5. at \notin K!Exists
      BY <1>0, <1>1, <3>1
    <3>6. \A m \in K!Exists : shortcut'[m].name # each /\ shortcut'[m].name = shortcut[m].name
      BY <2>5, <3>2, <3>5 DEF K!Named, K!Exists
    <3>7. \A m, n \in K!Exists' : shortcut'[m].name = shortcut'[n].name => m = n
      BY <1>0, <3>2, <3>3, <3>6
    <3>8. \A m \in K!Exists' : m <= count'
      BY <1>1, <1>0, <1>2, <3>1, <3>3
    <3> QED BY <1>1, <1>2, <2>2, <2>5, <3>1, <3>4, <3>7, <3>8 DEF K!ShortcutsAreNumbered
  <2> QED BY <2>4, <2>5
<1>5. ASSUME keeping[c].op # "add" \/ shelf # "replies", K!ShortcutsAreNumbered'
      PROVE  /\ K!ShortcutsAreNumbered' /\ count' = count + 1
             /\ shelf = "replies" /\ keeping[c].op = "add" =>
                  (keeping[c].found <=> {m \in K!Exists' : shortcut'[m].name = keeping[c].item} # {count'})
  BY <1>1, <1>5
<1>6. CASE K!RenamesShortcut(c)
  <2> DEFINE at == keeping[c].id
  <2>1. /\ at \in K!Exists /\ K!Named(each) \subseteq {at} /\ keeping[c].op = "rename"
        /\ shortcut' = [shortcut EXCEPT ![at].name = each]
    BY <1>6 DEF K!RenamesShortcut, K!Edits
  <2>2. at \in K!Message
    BY <2>1 DEF K!Exists
  <2> HIDE DEF at
  <2>3. shortcut'[at].name = each /\ \A m \in K!Message \ {at} : shortcut'[m] = shortcut[m]
    BY <1>0, <2>1, <2>2
  <2>4. K!Exists' \subseteq K!Exists
    BY <2>1, <2>3 DEF K!Exists
  <2>5. \A m \in K!Exists \ {at} : shortcut[m].name # each
    BY <2>1 DEF K!Named
  <2>6. \A m, n \in K!Exists' : shortcut'[m].name = shortcut'[n].name => m = n
    BY <1>0, <2>3, <2>4, <2>5 DEF K!Exists
  <2>7. K!ShortcutsAreNumbered'
    BY <1>2, <2>4, <2>6 DEF K!ShortcutsAreNumbered
  <2> QED BY <1>5, <2>1, <2>7
<1>7. CASE K!DeletesReplies(c)
  <2>1. /\ keeping[c].op = "delete"
        /\ \/ shortcut' = [shortcut EXCEPT ![keeping[c].id] = K!NoShortcut]
           \/ shortcut' = [shortcut EXCEPT ![keeping[c].id].held = @ \ keeping[c].ids]
    BY <1>7 DEF K!DeletesReplies, K!Edits
  <2>2. \A m \in K!Message : shortcut'[m].name \in {shortcut[m].name, K!None}
    <3>1. CASE shortcut' = [shortcut EXCEPT ![keeping[c].id] = K!NoShortcut]
      BY <1>0, <3>1
    <3>2. CASE shortcut' = [shortcut EXCEPT ![keeping[c].id].held = @ \ keeping[c].ids]
      BY <1>0, <3>2
    <3> QED BY <2>1, <3>1, <3>2
  <2>3. \A m \in K!Exists' : m \in K!Exists /\ shortcut'[m].name = shortcut[m].name
    BY <2>2 DEF K!Exists
  <2>4. K!ShortcutsAreNumbered'
    BY <1>0, <1>2, <2>3 DEF K!ShortcutsAreNumbered
  <2> QED BY <1>5, <2>1, <2>4
<1>8. ASSUME UNCHANGED shortcut, keeping[c].op # "add" \/ shelf # "replies"
      PROVE  /\ K!ShortcutsAreNumbered' /\ count' = count + 1
             /\ shelf = "replies" /\ keeping[c].op = "add" =>
                  (keeping[c].found <=> {m \in K!Exists' : shortcut'[m].name = keeping[c].item} # {count'})
  BY <1>3, <1>5, <1>8
<1> QED BY <1>4, <1>6, <1>7, <1>8 DEF K!Applies, K!EditsMessage, K!SavesGif, K!UnsavesGif, K!AddsSticker, K!RemovesSticker,
     K!MovesSticker, K!InstallsSet, K!UninstallsSet, K!Edits

(* Who says a list changed says so of the list as it is.                   *)
LEMMA ListsSay ==
  ASSUME K!Inv, NEW c \in ListCaller, NEW r, keeping' = [keeping EXCEPT ![c] = r], r.says = "done" => K!IsSo(c)'
  PROVE  K!RepliesAreOfTheList
<1>1. keeping'[c] = r /\ \A d \in ListCaller \ {c} : keeping'[d] = keeping[d]
  BY DEF K!Inv, K!CallsAreTyped
<1> QED BY <1>1 DEF K!RepliesAreOfTheList

(* A pack that takes a sticker has one more, and a picker that takes a     *)
(* pack has it, or has it in the archive.                                  *)
LEMMA ListTakes ==
  ASSUME K!Inv, NEW c \in ListCaller, K!Applies(c)
  PROVE  /\ shelf = "pack" /\ keeping[c].op = "add" => Len(list') = Len(list) + 1 /\ Len(list) \in Nat
         /\ shelf = "picker" /\ keeping[c].op = "install" => keeping[c].item \in K!ToSet(list') \cup archive'
<1> DEFINE item == keeping[c].item
<1>0. list \in Seq(K!Entry) /\ item \in K!Entry /\ ListCap \in Nat /\ ListCap >= 1
  BY RecordsAssumption DEF RecordsAssumption, K!KeptListsAssumption, K!Inv, K!ListsAreTyped, K!CallsAreTyped, K!IsACall
<1>1. ASSUME shelf = "pack", keeping[c].op = "add" PROVE Len(list') = Len(list) + 1 /\ Len(list) \in Nat
  <2>1. list' = Append(list, item)
    BY <1>1 DEF K!Applies, K!PutsMessage, K!EditsMessage, K!RenamesShortcut, K!DeletesReplies, K!SavesGif, K!UnsavesGif,
       K!AddsSticker, K!RemovesSticker, K!MovesSticker, K!InstallsSet, K!UninstallsSet, K!Edits
  <2> HIDE DEF item
  <2> QED BY <1>0, <2>1
<1>2. ASSUME shelf = "picker", keeping[c].op = "install" PROVE item \in K!ToSet(list') \cup archive'
  <2>1. K!InstallsSet(c)
    BY <1>2 DEF K!Applies, K!PutsMessage, K!EditsMessage, K!RenamesShortcut, K!DeletesReplies, K!SavesGif, K!UnsavesGif,
       K!AddsSticker, K!RemovesSticker, K!MovesSticker, K!InstallsSet, K!UninstallsSet, K!Edits
  <2>2. CASE keeping[c].whole
    BY <2>1, <2>2 DEF K!InstallsSet
  <2>3. CASE ~keeping[c].whole
    <3> DEFINE rest == K!Without(item)
               row  == <<item>> \o rest
    <3>1. list' = K!First(row, ListCap)
      BY <2>1, <2>3 DEF K!InstallsSet, K!ToFront
    <3> HIDE DEF item
    <3>2. rest \in Seq(K!Entry) /\ <<item>> \in Seq(K!Entry) /\ Len(<<item>>) = 1
      BY <1>0, ListWithout
    <3> HIDE DEF rest
    <3>3. row \in Seq(K!Entry) /\ Len(row) = 1 + Len(rest) /\ Len(rest) \in Nat /\ row[1] = <<item>>[1]
      BY <3>2, ConcatenatedAt
    <3>4. row[1] = item /\ 1 \in 1..Len(row)
      BY <3>3
    <3> HIDE DEF row
    <3>5. row[1] \in K!ToSet(K!First(row, ListCap))
      BY <1>0, <3>3, <3>4, CutAfter
    <3> QED BY <3>1, <3>4, <3>5 DEF K!ToSet
  <2> QED BY <2>2, <2>3
<1> QED BY <1>1, <1>2

LEMMA ListCallStarts ==
  ASSUME ~ListOverlap, K!Inv, K!Meant, NEW c \in ListCaller, NEW r, K!Start(c, r), K!IsACall(r), r.says = "nothing", r.times = 0,
         r.pc = "asked" \/ (r.pc = "read" /\ r.op # "add"), r.op = "add" => r.item \in ListItem
  PROVE  K!Meant' /\ K!RepliesAreOfTheList
<1>1. /\ keeping' = [keeping EXCEPT ![c] = r] /\ UNCHANGED K!Lists /\ UNCHANGED shelf
      /\ \A d \in ListCaller \ {c} : K!Settled(d)
  BY DEF K!Start, K!Set, K!Lists
<1>2. keeping'[c] = r
  BY <1>1 DEF K!Inv, K!CallsAreTyped
<1>3. K!ShortcutsAreNumbered'
  BY <1>1 DEF K!Meant, K!ShortcutsAreNumbered, K!Lists, K!Exists
<1>4. K!IsOfTheList(c)'
  BY <1>2 DEF K!IsOfTheList, K!SaysWhereItIs, K!IsUnderWay, K!AddsByTheCount, K!FindsTheName, K!HasInstalled, K!Settled
<1> QED BY <1>1, <1>2, <1>3, <1>4, ListsTurn, ListsSay

(* A step of a call that leaves the lists as they are.                     *)
LEMMA ListCallMoves ==
  ASSUME ~ListOverlap, K!Inv, K!Meant, NEW c \in ListCaller, NEW r, keeping' = [keeping EXCEPT ![c] = r], UNCHANGED K!Lists,
         keeping[c].pc # "idle", keeping[c].says \notin {"refused", "done"} \/ r = K!Idle,
         (keeping'[c] = r => K!IsOfTheList(c)'), (keeping'[c] = r /\ r.says = "done" => K!IsSo(c)')
  PROVE  K!Meant' /\ K!RepliesAreOfTheList
<1>1. keeping'[c] = r /\ UNCHANGED shelf
  BY DEF K!Inv, K!CallsAreTyped, K!Lists
<1>2. K!ShortcutsAreNumbered'
  BY DEF K!Meant, K!ShortcutsAreNumbered, K!Lists, K!Exists
<1>3. K!Settled(c)' \/ \A d \in ListCaller \ {c} : K!Settled(d)
  <2>1. CASE r = K!Idle
    BY <1>1, <2>1 DEF K!Settled, K!Idle
  <2>2. CASE keeping[c].says \notin {"refused", "done"}
    BY <2>2 DEF K!Settled, K!Meant, K!OneIsUnsettled
  <2> QED BY <2>1, <2>2
<1> QED BY <1>1, <1>2, <1>3, ListsTurn, ListsSay

LEMMA ListCallReads ==
  ASSUME ~ListOverlap, K!Inv, K!Meant, NEW c \in ListCaller, K!Reads(c)
  PROVE  K!Meant' /\ K!RepliesAreOfTheList
<1>1. /\ keeping[c].pc = "asked" /\ UNCHANGED K!Lists /\ K!IsOfTheList(c) /\ keeping[c].says = "nothing"
      /\ DOMAIN keeping[c] = DOMAIN K!Idle /\ keeping[c].id \in Nat
  BY DEF K!Reads, K!Meant, K!IsOfTheList, K!SaysWhereItIs, K!IsUnderWay, K!Inv, K!CallsAreTyped, K!IsACall
<1>d. DOMAIN K!Idle = {"pc", "op", "item", "id", "ids", "whole", "seen", "times", "found", "flag", "out", "says"}
  BY DEF K!Idle
<1>2. CASE K!Replies(c, "refused")
  <2> DEFINE r == [keeping[c] EXCEPT !.pc = "replied", !.says = "refused"]
  <2>1. keeping' = [keeping EXCEPT ![c] = r]
    BY <1>2 DEF K!Replies, K!Set
  <2>2. r.pc = "replied" /\ r.says = "refused" /\ r.times = keeping[c].times /\ r.op = keeping[c].op /\ r.id = keeping[c].id
        /\ r.item = keeping[c].item
    BY <1>1, <1>d
  <2> HIDE DEF r
  <2>3. keeping'[c] = r => K!IsOfTheList(c)'
    BY <1>1, <2>2 DEF K!IsOfTheList, K!SaysWhereItIs, K!IsUnderWay, K!AddsByTheCount, K!FindsTheName, K!HasInstalled,
       K!Settled, K!Lists
  <2> QED BY <1>1, <2>1, <2>2, <2>3, ListCallMoves
<1>3. CASE ~K!Replies(c, "refused")
  <2> DEFINE r == [keeping[c] EXCEPT !.pc = "read", !.seen = Len(list), !.found = K!Named(keeping[c].item) # {}]
  <2>1. keeping' = [keeping EXCEPT ![c] = r] /\ ~K!Unknown(c)
    BY <1>3 DEF K!Reads, K!Set
  <2>2. /\ r.pc = "read" /\ r.says = "nothing" /\ r.times = keeping[c].times /\ r.op = keeping[c].op /\ r.id = keeping[c].id
        /\ r.item = keeping[c].item /\ r.seen = Len(list) /\ (r.found <=> K!Named(keeping[c].item) # {})
    BY <1>1, <1>d
  <2> HIDE DEF r
  <2>3. ASSUME shelf = "pack", keeping[c].op = "add", keeping[c].id # 0 PROVE Len(list) = keeping[c].id /\ keeping[c].times = 0
    <3>1. Len(list) = keeping[c].id
      BY <2>1, <2>3 DEF K!Unknown, K!Unchanged, K!AsExpected
    <3>2. keeping[c].times <= 1 /\ keeping[c].times \in Nat /\ keeping[c].times # 1
      BY <1>1, <2>3, <3>1 DEF K!IsOfTheList, K!AddsByTheCount, K!SaysWhereItIs, K!Settled
    <3> QED BY <3>1, <3>2
  <2>4. ASSUME keeping'[c] = r PROVE K!IsOfTheList(c)'
    <3>1. K!SaysWhereItIs(c)' /\ K!HasInstalled(c)'
      BY <1>1, <2>2, <2>4 DEF K!IsOfTheList, K!SaysWhereItIs, K!IsUnderWay, K!HasInstalled
    <3>2. K!AddsByTheCount(c)'
      BY <1>1, <2>2, <2>3, <2>4 DEF K!AddsByTheCount, K!Lists
    <3>3. K!FindsTheName(c)'
      BY <1>1, <2>2, <2>4 DEF K!IsOfTheList, K!FindsTheName, K!Lists, K!Named, K!Exists
    <3> QED BY <3>1, <3>2, <3>3 DEF K!IsOfTheList
  <2> QED BY <1>1, <2>1, <2>2, <2>4, ListCallMoves
<1> QED BY <1>2, <1>3

(* An edit reaches Telegram, and its answer the caller or no one.          *)
LEMMA ListCallEdits ==
  ASSUME ~ListOverlap, K!Inv, K!Meant, NEW c \in ListCaller, NEW r, K!Applies(c), UNCHANGED shelf, keeping' = [keeping EXCEPT ![c] = r],
         r.times = keeping[c].times + 1, r.op = keeping[c].op, r.id = keeping[c].id, r.item = keeping[c].item,
         r.seen = keeping[c].seen, r.found = keeping[c].found,
         (r.pc = "replied" /\ r.says \in {"failed", "done"}) \/ (r.pc = "edited" /\ r.says = "nothing"),
         shelf = "pack" /\ r.op = "add" => r.pc = "replied",
         r.pc = "edited" /\ r.op = "install" => r.out \subseteq archive',
         r.says = "done" => r.op # "install" /\ shelf # "row" /\ ~(shelf = "replies" /\ r.op = "add"),
         r.says = "done" => r.flag = K!Grew(c)
  PROVE  K!Meant' /\ K!RepliesAreOfTheList
<1>1. keeping'[c] = r /\ keeping[c].pc = "read" /\ K!IsOfTheList(c) /\ keeping[c].says = "nothing" /\ keeping[c].times \in Nat
  BY ListsEdit DEF K!Meant, K!IsOfTheList, K!SaysWhereItIs, K!IsUnderWay, K!Inv, K!CallsAreTyped
<1>2. \A d \in ListCaller \ {c} : K!Settled(d)
  BY <1>1 DEF K!Settled, K!Meant, K!OneIsUnsettled
<1>3. K!SaysWhereItIs(c)'
  BY <1>1 DEF K!SaysWhereItIs, K!IsUnderWay
<1>4. K!AddsByTheCount(c)'
  <2>1. ASSUME shelf = "pack", r.op = "add" PROVE Len(list') = Len(list) + 1 /\ Len(list) \in Nat /\ r.pc = "replied"
    BY <2>1, ListTakes
  <2>2. ASSUME shelf = "pack", r.op = "add", r.id # 0 PROVE keeping[c].times = 0 /\ Len(list) = r.id
    BY <1>1, <2>2 DEF K!IsOfTheList, K!AddsByTheCount
  <2> QED BY <1>1, <2>1, <2>2 DEF K!AddsByTheCount
<1>5. K!FindsTheName(c)' /\ K!ShortcutsAreNumbered'
  <2>1. /\ K!ShortcutsAreNumbered'
        /\ shelf = "replies" /\ r.op = "add" => (r.found <=> {m \in K!Exists' : shortcut'[m].name = r.item} # {count'})
    BY ShortcutsEdit
  <2>2. shelf = "replies" /\ r.op = "add" => r.item \in ListItem
    BY <1>1 DEF K!IsOfTheList, K!FindsTheName
  <2> QED BY <1>1, <2>1, <2>2 DEF K!FindsTheName, K!Named
<1>6. K!HasInstalled(c)'
  BY <1>1, ListTakes DEF K!HasInstalled
<1>7. K!IsOfTheList(c)'
  BY <1>3, <1>4, <1>5, <1>6 DEF K!IsOfTheList
<1>8. ASSUME r.says = "done" PROVE K!IsSo(c)'
  <2>1. ASSUME shelf = "pack", r.op = "add" PROVE r.flag
    <3>1. keeping[c].seen = Len(list) /\ Len(list') = Len(list) + 1 /\ Len(list) \in Nat
      BY <1>1, <2>1, ListTakes DEF K!IsOfTheList, K!AddsByTheCount
    <3>2. Len(list') # keeping[c].seen
      BY <3>1
    <3> QED BY <1>8, <3>2 DEF K!Grew
  <2> QED BY <1>1, <1>8, <2>1 DEF K!IsSo
<1> QED BY <1>2, <1>5, <1>7, <1>8, ListsTurn, ListsSay

LEMMA ListCallAnswers ==
  ASSUME ~ListOverlap, K!Inv, K!Meant, NEW c \in ListCaller, K!Answers(c) \/ K!EditFails(c)
  PROVE  K!Meant' /\ K!RepliesAreOfTheList
<1>1. /\ DOMAIN keeping[c] = DOMAIN K!Idle /\ K!IsOfTheList(c) /\ keeping[c].pc = "read"
  BY ListsEdit DEF K!Meant, K!Inv, K!CallsAreTyped, K!IsACall, K!Answers, K!EditFails
<1>d. DOMAIN K!Idle = {"pc", "op", "item", "id", "ids", "whole", "seen", "times", "found", "flag", "out", "says"}
  BY DEF K!Idle
<1>2. CASE K!Answers(c)
  <2> DEFINE looks == K!LooksAgain(c)
             gone  == IF keeping[c].op = "install" /\ ~keeping[c].whole THEN archive' \ archive ELSE {}
             r == [keeping[c] EXCEPT !.times = @ + 1, !.pc = IF looks THEN "edited" ELSE "replied",
                                     !.says = IF looks THEN "nothing" ELSE "done",
                                     !.flag = K!Grew(c), !.out = gone]
  <2>1. keeping' = [keeping EXCEPT ![c] = r] /\ K!Applies(c) /\ UNCHANGED shelf
    BY <1>2 DEF K!Answers, K!Set, K!Applied
  <2>2. looks <=> shelf = "row" \/ (shelf = "replies" /\ keeping[c].op = "add") \/ keeping[c].op = "install"
    BY DEF K!LooksAgain
  <2>3. gone \subseteq archive'
    OBVIOUS
  <2> HIDE DEF looks, gone
  <2>4. /\ r.times = keeping[c].times + 1 /\ r.op = keeping[c].op /\ r.id = keeping[c].id /\ r.item = keeping[c].item
        /\ r.seen = keeping[c].seen /\ r.found = keeping[c].found /\ r.out = gone /\ r.flag = K!Grew(c)
        /\ r.pc = (IF looks THEN "edited" ELSE "replied") /\ r.says = (IF looks THEN "nothing" ELSE "done")
    BY <1>1, <1>d
  <2> HIDE DEF r
  <2> QED BY <2>1, <2>2, <2>3, <2>4, ListCallEdits
<1>3. CASE K!Replies(c, "failed") /\ UNCHANGED K!Lists
  <2> DEFINE r == [keeping[c] EXCEPT !.pc = "replied", !.says = "failed"]
  <2>1. keeping' = [keeping EXCEPT ![c] = r]
    BY <1>3 DEF K!Replies, K!Set
  <2>2. r.pc = "replied" /\ r.says = "failed" /\ r.times = keeping[c].times /\ r.op = keeping[c].op /\ r.id = keeping[c].id
        /\ r.item = keeping[c].item
    BY <1>1, <1>d
  <2> HIDE DEF r
  <2>3. keeping[c].says = "nothing"
    BY <1>1 DEF K!IsOfTheList, K!SaysWhereItIs, K!IsUnderWay
  <2>4. ASSUME keeping'[c] = r PROVE K!IsOfTheList(c)'
    <3>1. K!SaysWhereItIs(c)' /\ K!HasInstalled(c)'
      BY <1>1, <2>2, <2>4 DEF K!IsOfTheList, K!SaysWhereItIs, K!IsUnderWay, K!HasInstalled
    <3>2. K!AddsByTheCount(c)'
      BY <1>1, <1>3, <2>2, <2>4 DEF K!IsOfTheList, K!AddsByTheCount, K!Lists
    <3>3. K!FindsTheName(c)'
      BY <1>1, <1>3, <2>2, <2>4 DEF K!IsOfTheList, K!FindsTheName, K!Lists
    <3> QED BY <3>1, <3>2, <3>3 DEF K!IsOfTheList
  <2> QED BY <1>1, <1>3, <2>1, <2>2, <2>3, <2>4, ListCallMoves
<1>4. CASE K!Applies(c) /\ K!Set(c, [K!Applied(c) EXCEPT !.pc = "replied", !.says = "failed"]) /\ UNCHANGED shelf
  <2> DEFINE r == [keeping[c] EXCEPT !.times = @ + 1, !.pc = "replied", !.says = "failed"]
  <2>1. keeping' = [keeping EXCEPT ![c] = r]
    BY <1>4 DEF K!Set, K!Applied
  <2>2. /\ r.times = keeping[c].times + 1 /\ r.op = keeping[c].op /\ r.id = keeping[c].id /\ r.item = keeping[c].item
        /\ r.seen = keeping[c].seen /\ r.found = keeping[c].found /\ r.out = keeping[c].out
        /\ r.pc = "replied" /\ r.says = "failed"
    BY <1>1, <1>d
  <2> HIDE DEF r
  <2> QED BY <1>4, <2>1, <2>2, ListCallEdits
<1> QED BY <1>2, <1>3, <1>4 DEF K!EditFails

LEMMA ListCallTells ==
  ASSUME ~ListOverlap, K!Inv, K!Meant, NEW c \in ListCaller, K!Tells(c) \/ K!LookFails(c) \/ K!Retry(c) \/ K!Again(c)
  PROVE  K!Meant' /\ K!RepliesAreOfTheList
<1>1. /\ DOMAIN keeping[c] = DOMAIN K!Idle /\ K!IsOfTheList(c) /\ UNCHANGED K!Lists
  BY DEF K!Meant, K!Inv, K!CallsAreTyped, K!IsACall, K!Tells, K!LookFails, K!Retry, K!Again
<1>d. DOMAIN K!Idle = {"pc", "op", "item", "id", "ids", "whole", "seen", "times", "found", "flag", "out", "says"}
  BY DEF K!Idle
<1>2. CASE K!Tells(c)
  <2> DEFINE said == CASE shelf = "row" -> K!Present(c) [] shelf = "replies" -> ~keeping[c].found [] OTHER -> TRUE
             r == [keeping[c] EXCEPT !.pc = "replied", !.says = "done", !.flag = said]
  <2>1. keeping' = [keeping EXCEPT ![c] = r] /\ keeping[c].pc = "edited"
    BY <1>2 DEF K!Tells, K!Set
  <2>2. /\ shelf = "row" => said = (keeping[c].item \in K!Returned)
        /\ shelf = "replies" => said = ~keeping[c].found
        /\ shelf = "pack" => said = TRUE
    BY DEF K!Present, K!IsThere
  <2> HIDE DEF said
  <2>3. /\ r.times = keeping[c].times /\ r.op = keeping[c].op /\ r.id = keeping[c].id /\ r.item = keeping[c].item
        /\ r.out = keeping[c].out /\ r.pc = "replied" /\ r.says = "done" /\ r.flag = said
    BY <1>1, <1>d
  <2> HIDE DEF r
  <2>4. keeping[c].says = "nothing"
    BY <1>1, <2>1 DEF K!IsOfTheList, K!SaysWhereItIs, K!IsUnderWay
  <2>5. ASSUME keeping'[c] = r PROVE K!IsOfTheList(c)'
    <3>1. K!SaysWhereItIs(c)' /\ K!HasInstalled(c)'
      BY <1>1, <2>3, <2>5 DEF K!IsOfTheList, K!SaysWhereItIs, K!IsUnderWay, K!HasInstalled
    <3>2. K!AddsByTheCount(c)'
      BY <1>1, <2>3, <2>5 DEF K!IsOfTheList, K!AddsByTheCount, K!Lists, K!Settled
    <3>3. K!FindsTheName(c)'
      BY <1>1, <2>3, <2>5 DEF K!IsOfTheList, K!FindsTheName, K!Lists
    <3> QED BY <3>1, <3>2, <3>3 DEF K!IsOfTheList
  <2>6. ASSUME keeping'[c] = r PROVE K!IsSo(c)'
    <3>1. CASE shelf = "row"
      <4>1. shelf' = "row" /\ K!Returned' = K!Returned
        BY <1>1, <3>1 DEF K!Lists, K!Returned, K!First, K!ToSet
      <4>2. keeping'[c].flag <=> keeping'[c].item \in K!Returned'
        BY <2>2, <2>3, <2>6, <3>1, <4>1
      <4> QED BY <4>1, <4>2 DEF K!IsSo
    <3>2. CASE shelf = "replies"
      <4>1. shelf' = "replies" /\ count' = count /\ shortcut' = shortcut
        BY <1>1, <3>2 DEF K!Lists
      <4>2. keeping[c].op = "add" => (keeping[c].found <=> K!Named(keeping[c].item) # {count})
        BY <1>1, <2>1, <3>2 DEF K!IsOfTheList, K!FindsTheName
      <4>3. keeping'[c].op = "add" => (keeping'[c].flag <=> {m \in K!Exists' : shortcut'[m].name = keeping'[c].item} = {count'})
        BY <2>2, <2>3, <2>6, <3>2, <4>1, <4>2 DEF K!Named, K!Exists
      <4> QED BY <4>1, <4>3 DEF K!IsSo, K!Named
    <3>3. CASE shelf = "pack"
      BY <1>1, <2>2, <2>3, <2>6, <3>3 DEF K!IsSo, K!Lists
    <3>4. CASE shelf = "picker"
      BY <1>1, <2>1, <2>3, <2>6, <3>4 DEF K!IsSo, K!Lists, K!IsOfTheList, K!HasInstalled, K!ToSet
    <3>5. CASE shelf \notin {"row", "replies", "pack", "picker"}
      BY <1>1, <3>5 DEF K!IsSo, K!Lists
    <3> QED BY <3>1, <3>2, <3>3, <3>4, <3>5
  <2> QED BY <1>1, <2>1, <2>3, <2>4, <2>5, <2>6, ListCallMoves
<1>3. ASSUME NEW pc \in {"asked", "replied"}, NEW says \in {"nothing", "failed"}, pc = "asked" <=> says = "nothing",
             keeping' = [keeping EXCEPT ![c] = [keeping[c] EXCEPT !.pc = pc, !.says = says]],
             keeping[c].pc # "idle", keeping[c].says \notin {"refused", "done"}
      PROVE  K!Meant' /\ K!RepliesAreOfTheList
  <2> DEFINE r == [keeping[c] EXCEPT !.pc = pc, !.says = says]
  <2>1. keeping' = [keeping EXCEPT ![c] = r]
    BY <1>3
  <2>2. r.pc = pc /\ r.says = says /\ r.times = keeping[c].times /\ r.op = keeping[c].op /\ r.id = keeping[c].id
        /\ r.item = keeping[c].item
    BY <1>1, <1>d
  <2> HIDE DEF r
  <2>3. ~K!Settled(c)
    BY <1>3 DEF K!Settled
  <2>4. ASSUME keeping'[c] = r PROVE K!IsOfTheList(c)'
    <3>1. K!SaysWhereItIs(c)' /\ K!HasInstalled(c)'
      BY <1>1, <1>3, <2>2, <2>4 DEF K!IsOfTheList, K!SaysWhereItIs, K!IsUnderWay, K!HasInstalled
    <3>2. K!AddsByTheCount(c)'
      BY <1>1, <1>3, <2>2, <2>3, <2>4 DEF K!IsOfTheList, K!AddsByTheCount, K!Lists
    <3>3. K!FindsTheName(c)'
      BY <1>1, <1>3, <2>2, <2>4 DEF K!IsOfTheList, K!FindsTheName, K!Lists
    <3> QED BY <3>1, <3>2, <3>3 DEF K!IsOfTheList
  <2> QED BY <1>1, <1>3, <2>1, <2>2, <2>4, ListCallMoves
<1>4. CASE K!LookFails(c)
  <2>1. keeping[c].pc = "edited" /\ keeping[c].says = "nothing"
    BY <1>1, <1>4 DEF K!LookFails, K!IsOfTheList, K!SaysWhereItIs, K!IsUnderWay
  <2>2. keeping' = [keeping EXCEPT ![c] = [keeping[c] EXCEPT !.pc = "replied", !.says = "failed"]]
    BY <1>4 DEF K!LookFails, K!Replies, K!Set
  <2> QED BY <1>3, <2>1, <2>2
<1>5. CASE K!Retry(c)
  <2>1. /\ keeping[c].pc = "replied" /\ keeping[c].says = "failed"
        /\ keeping' = [keeping EXCEPT ![c] = [keeping[c] EXCEPT !.pc = "asked", !.says = "nothing"]]
    BY <1>5 DEF K!Retry, K!Set
  <2> QED BY <1>3, <2>1
<1>6. CASE K!Again(c)
  <2>1. keeping' = [keeping EXCEPT ![c] = K!Idle] /\ keeping[c].pc = "replied"
    BY <1>6 DEF K!Again, K!Set
  <2>2. K!Idle.says = "nothing" /\ K!Idle.pc = "idle" /\ K!Idle.op = K!None /\ K!Idle.times = 0
    BY DEF K!Idle
  <2>3. ASSUME keeping'[c] = K!Idle PROVE K!IsOfTheList(c)'
    BY <2>2, <2>3 DEF K!None, K!IsOfTheList, K!SaysWhereItIs, K!IsUnderWay, K!AddsByTheCount, K!FindsTheName, K!HasInstalled
  <2> QED BY <1>1, <2>1, <2>2, <2>3, ListCallMoves
<1> QED BY <1>2, <1>4, <1>5, <1>6

LEMMA ListsMean ==
  ASSUME ~ListOverlap, K!Inv, K!Meant, [K!Next]_K!listsVars
  PROVE  K!Meant' /\ K!RepliesAreOfTheList
<1> DEFINE Kept == K!Meant' /\ K!RepliesAreOfTheList
           Fits(r) == /\ K!IsACall(r) /\ r.says = "nothing" /\ r.times = 0 /\ (r.op = "add" => r.item \in ListItem)
                      /\ r.pc = "asked" \/ (r.pc = "read" /\ r.op # "add")
           BeginsWith(c, item) ==
             \/ K!AddQuickReply(c, item) \/ K!SaveGif(c, item) \/ K!UnsaveGif(c, item)
             \/ K!RemoveSticker(c, item) \/ K!UninstallSet(c, item)
             \/ \E archived \in BOOLEAN : K!InstallSet(c, item, archived)
             \/ \E n \in 0..ListCap : K!AddSticker(c, item, n) \/ K!MoveSticker(c, item, n)
           BeginsOn(c, id) ==
             \/ \E item \in ListItem : K!RenameQuickReply(c, id, item)
             \/ \E m \in K!Message : K!EditQuickReply(c, id, m)
             \/ \E ids \in SUBSET K!Message : K!DeleteQuickReply(c, id, FALSE, ids)
             \/ K!DeleteQuickReply(c, id, TRUE, {})
           Goes(c) == K!Reads(c) \/ K!Answers(c) \/ K!EditFails(c) \/ K!Tells(c) \/ K!LookFails(c) \/ K!Retry(c) \/ K!Again(c)
<1>0. ListCap \in Nat /\ K!Message \subseteq Nat
  BY RecordsAssumption DEF RecordsAssumption, K!KeptListsAssumption, K!Message
<1>1. ASSUME NEW c \in ListCaller, \E r : Fits(r) /\ K!Start(c, r) PROVE Kept
  <2>1. PICK r : Fits(r) /\ K!Start(c, r)
    BY <1>1
  <2> QED BY <2>1, ListCallStarts
<1>2. ASSUME NEW item \in ListItem, NEW n \in Nat, NEW whole, NEW ids PROVE
      /\ Fits([K!Idle EXCEPT !.pc = "asked", !.op = "add", !.item = item])
      /\ \A op \in {"unsave", "uninstall"} : Fits([K!Idle EXCEPT !.pc = "asked", !.op = op, !.item = item])
      /\ \A op \in {"save", "remove"} : Fits([K!Idle EXCEPT !.pc = "read", !.op = op, !.item = item])
      /\ Fits([K!Idle EXCEPT !.pc = "read", !.op = "install", !.item = item, !.whole = whole])
      /\ Fits([K!Idle EXCEPT !.pc = "asked", !.op = "add", !.item = item, !.id = n])
      /\ Fits([K!Idle EXCEPT !.pc = "asked", !.op = "rename", !.item = item, !.id = n])
      /\ Fits([K!Idle EXCEPT !.pc = "read", !.op = "move", !.item = item, !.id = n])
  BY DEF K!IsACall, K!Idle, K!Entry
<1>3. ASSUME NEW n \in Nat, NEW whole, NEW ids PROVE
      /\ Fits([K!Idle EXCEPT !.pc = "asked", !.op = "edit", !.id = n, !.ids = ids])
      /\ Fits([K!Idle EXCEPT !.pc = "asked", !.op = "delete", !.id = n, !.ids = ids, !.whole = whole])
  BY DEF K!IsACall, K!Idle, K!Entry
<1> HIDE DEF Fits, Kept
<1>4. ASSUME NEW c \in ListCaller, NEW item \in ListItem, BeginsWith(c, item) PROVE Kept
  <2>0. 0 \in Nat
    OBVIOUS
  <2>1. CASE K!AddQuickReply(c, item) \/ K!UnsaveGif(c, item) \/ K!UninstallSet(c, item)
    BY <2>0, <2>1, <1>1, <1>2 DEF K!AddQuickReply, K!UnsaveGif, K!UninstallSet, K!Begins
  <2>2. CASE K!SaveGif(c, item) \/ K!RemoveSticker(c, item)
    BY <2>0, <2>2, <1>1, <1>2 DEF K!SaveGif, K!RemoveSticker
  <2>3. ASSUME NEW archived, K!InstallSet(c, item, archived) PROVE Kept
    BY <2>0, <2>3, <1>1, <1>2 DEF K!InstallSet
  <2>4. ASSUME NEW n \in 0..ListCap, K!AddSticker(c, item, n) \/ K!MoveSticker(c, item, n) PROVE Kept
    <3>1. n \in Nat
      BY <1>0
    <3>2. CASE K!AddSticker(c, item, n)
      BY <3>1, <3>2, <1>1, <1>2 DEF K!AddSticker
    <3>3. CASE K!MoveSticker(c, item, n)
      BY <3>1, <3>3, <1>1, <1>2 DEF K!MoveSticker
    <3> QED BY <2>4, <3>2, <3>3
  <2> QED BY <1>4, <2>1, <2>2, <2>3, <2>4
<1>5. ASSUME NEW c \in ListCaller, NEW id \in K!Message, BeginsOn(c, id) PROVE Kept
  <2>0. id \in Nat
    BY <1>0
  <2>1. ASSUME NEW item \in ListItem, K!RenameQuickReply(c, id, item) PROVE Kept
    BY <2>0, <2>1, <1>1, <1>2 DEF K!RenameQuickReply
  <2>2. ASSUME NEW m, K!EditQuickReply(c, id, m) PROVE Kept
    BY <2>0, <2>2, <1>1, <1>3 DEF K!EditQuickReply
  <2>3. ASSUME NEW whole, NEW ids, K!DeleteQuickReply(c, id, whole, ids) PROVE Kept
    BY <2>0, <2>3, <1>1, <1>3 DEF K!DeleteQuickReply
  <2> QED BY <1>5, <2>1, <2>2, <2>3
<1>6. ASSUME NEW c \in ListCaller, Goes(c) PROVE Kept
  BY <1>6, ListCallReads, ListCallAnswers, ListCallTells DEF Kept
<1>7. ASSUME UNCHANGED K!listsVars PROVE Kept
  <2>1. K!Meant'
    BY <1>7 DEF K!Meant, K!ShortcutsAreNumbered, K!OneIsUnsettled, K!IsOfTheList, K!SaysWhereItIs, K!IsUnderWay,
       K!AddsByTheCount, K!FindsTheName, K!HasInstalled, K!Settled, K!Exists, K!Named, K!ToSet, K!listsVars
  <2>2. K!RepliesAreOfTheList
    BY <1>7 DEF K!RepliesAreOfTheList, K!listsVars
  <2> QED BY <2>1, <2>2 DEF Kept
<1>8. CASE K!Next
  <2>1. PICK c \in ListCaller : \/ Goes(c) \/ (\E item \in ListItem : BeginsWith(c, item))
                               \/ (\E id \in K!Message : BeginsOn(c, id))
    BY <1>8 DEF K!Next
  <2> HIDE DEF Goes, BeginsWith, BeginsOn
  <2> QED BY <2>1, <1>4, <1>5, <1>6 DEF Kept
<1> QED BY <1>7, <1>8 DEF Kept

LEMMA StickersAreMeant == ASSUME K!Inv, K!Meant PROVE K!StickersAreAddedOnce
BY DEF K!Meant, K!IsOfTheList, K!AddsByTheCount, K!StickersAreAddedOnce

(* The links.  The one a call is about to make does not exist yet.         *)
LEMMA LinksInit == ASSUME M!Init PROVE M!Inv
<1>1. DOMAIN link = ChatLink /\ link = [l \in ChatLink |-> link[l]] /\ \A l \in ChatLink : DOMAIN link[l] = DOMAIN M!Unset
  BY DEF M!Init, M!Unset
<1>2. request = M!Idle /\ M!Idle.pc = "idle"
  BY DEF M!Init, M!Idle
<1> QED BY <1>1, <1>2 DEF M!Inv

LEMMA LinksRest ==
  ASSUME M!Inv, UNCHANGED link, DOMAIN request' = DOMAIN M!Idle,
         request'.pc # "exporting" \/ (request'.link \in ChatLink /\ link[request'.link].state = M!None)
  PROVE  M!Inv'
  BY DEF M!Inv

(* A condition or the state of one link changes.                           *)
LEMMA LinkChanges ==
  ASSUME M!Inv, NEW l \in ChatLink, NEW r, DOMAIN r = DOMAIN M!Unset, link' = [link EXCEPT ![l] = r],
         DOMAIN request' = DOMAIN M!Idle,
         request'.pc = "exporting" => (request' = request /\ r.state = link[l].state)
  PROVE  M!Inv'
<1>1. DOMAIN link' = ChatLink /\ link' = [k \in ChatLink |-> link'[k]]
      /\ link'[l] = r /\ \A k \in ChatLink \ {l} : link'[k] = link[k]
  BY DEF M!Inv
<1> QED BY <1>1 DEF M!Inv

LEMMA LinkSays ==
  ASSUME M!Inv, NEW what, M!Says(what) \/ M!Loses
  PROVE  DOMAIN request' = DOMAIN M!Idle /\ request'.pc = "replied"
  BY DEF M!Inv, M!Says, M!Loses, M!Sets, M!Idle

LEMMA LinkCallBegins ==
  ASSUME M!Inv, NEW op, NEW pc, NEW record, M!Begins(op, pc, record), DOMAIN record = DOMAIN M!Idle,
         pc # "exporting" \/ (record.link \in ChatLink /\ link[record.link].state = M!None)
  PROVE  M!Inv'
<1>1. request' = [record EXCEPT !.op = op, !.pc = pc, !.chats = Len(made), !.was = primary] /\ UNCHANGED link
  BY DEF M!Begins, M!Sets, M!Chat
<1>2. DOMAIN request' = DOMAIN M!Idle /\ request'.pc = pc /\ request'.link = record.link
  BY <1>1 DEF M!Idle
<1> QED BY <1>1, <1>2, LinksRest

LEMMA LinkIsUsed == ASSUME M!Inv, NEW l, NEW who, M!Admits(l, who), l \in ChatLink
                    PROVE  \/ UNCHANGED link
                           \/ \E r : /\ DOMAIN r = DOMAIN M!Unset /\ r.state = link[l].state /\ r.limit = link[l].limit
                                     /\ link' = [link EXCEPT ![l] = r]
<1> DEFINE r == [link[l] EXCEPT !.used = IF link[l].used < LinkLimit THEN link[l].used + 1 ELSE link[l].used]
<1>1. DOMAIN r = DOMAIN M!Unset /\ r.state = link[l].state /\ r.limit = link[l].limit
  BY DEF M!Inv, M!Unset
<1>2. UNCHANGED link \/ link' = [link EXCEPT ![l] = r]
  BY DEF M!Admits
<1> HIDE DEF r
<1> QED BY <1>1, <1>2

LEMMA LinkCallsStep ==
  ASSUME M!Inv,
         \/ M!RequestFails \/ M!CreateGroup \/ M!Checks \/ M!Creates \/ M!Finds \/ M!Names \/ M!NamingFails
         \/ M!InvitesAll \/ M!AddedAll \/ M!Leave \/ M!Leaves \/ M!Probes \/ M!ProbeFails \/ M!Decides \/ M!NameIsTaken
         \/ (\E wanted \in BOOLEAN : M!CreateChannel(wanted))
         \/ (\E people \in (SUBSET ChatUser) \ {{}} : M!Invite(people))
         \/ (\E person \in ChatUser : M!Adds(person) \/ (\E approved \in BOOLEAN : M!Approve(person, approved)))
         \/ UNCHANGED M!membershipVars
  PROVE  M!Inv' /\ UNCHANGED link
<1>0. DOMAIN request = DOMAIN M!Idle /\ DOMAIN M!Idle = {"op", "pc", "left", "invited", "already", "failed", "link",
        "limit", "given", "also", "tries", "chats", "was", "says", "lost", "silent", "told"}
  BY DEF M!Inv, M!Idle
<1>1. UNCHANGED link
  BY DEF M!RequestFails, M!CreateGroup, M!Checks, M!Creates, M!Finds, M!Names, M!NamingFails, M!InvitesAll, M!AddedAll, M!Leave,
     M!Leaves, M!Probes, M!ProbeFails, M!Decides, M!NameIsTaken, M!CreateChannel, M!Invite, M!Adds, M!Approve, M!Begins,
     M!Chat, M!membershipVars
<1>2. ASSUME NEW what, M!Says(what) \/ M!Loses PROVE M!Inv'
  BY <1>1, <1>2, LinkSays, LinksRest
<1>3. ASSUME NEW pc, pc # "exporting", request' = [request EXCEPT !.pc = pc] PROVE M!Inv'
  BY <1>0, <1>1, <1>3, LinksRest
<1>4. ASSUME NEW op, NEW pc, NEW record, M!Begins(op, pc, record), DOMAIN record = DOMAIN M!Idle, pc # "exporting"
      PROVE  M!Inv'
  BY <1>4, LinkCallBegins
<1>5. CASE M!RequestFails \/ M!NamingFails \/ M!InvitesAll \/ M!AddedAll \/ M!Decides \/ M!Finds
  <2>1. \/ \E what : M!Says(what) \/ M!Loses
        \/ \E told : request' = [request EXCEPT !.pc = "replied", !.says = "done", !.told = told]
    BY <1>5 DEF M!RequestFails, M!NamingFails, M!InvitesAll, M!AddedAll, M!Decides, M!Finds, M!Sets
  <2>2. ASSUME NEW told, request' = [request EXCEPT !.pc = "replied", !.says = "done", !.told = told] PROVE M!Inv'
    <3>1. DOMAIN request' = DOMAIN M!Idle /\ request'.pc = "replied"
      BY <1>0, <2>2
    <3> QED BY <1>1, <3>1, LinksRest
  <2> QED BY <1>1, <2>1, <2>2, <1>2
<1>6. CASE M!Checks \/ M!Creates \/ M!Names \/ M!Probes \/ M!ProbeFails
  <2>1. \/ \E what : M!Says(what) \/ M!Loses
        \/ \E pc \in {"creating", "made", "finding", "joining"} : request' = [request EXCEPT !.pc = pc]
        \/ request' = [request EXCEPT !.pc = "replied", !.says = "already", !.silent = {"me"} \ members]
    BY <1>6 DEF M!Checks, M!Creates, M!Names, M!Probes, M!ProbeFails, M!Sets
  <2>2. CASE request' = [request EXCEPT !.pc = "replied", !.says = "already", !.silent = {"me"} \ members]
    <3>1. DOMAIN request' = DOMAIN M!Idle /\ request'.pc = "replied"
      BY <1>0, <2>2
    <3> QED BY <1>1, <3>1, LinksRest
  <2> QED BY <1>1, <2>1, <2>2, <1>2, <1>3
<1>7. CASE M!Leaves
  <2>1. (\E what : M!Says(what)) \/ (request' = [request EXCEPT !.tries = @ + 1] /\ request.pc = "leaving")
    BY <1>7 DEF M!Leaves, M!Sets
  <2>2. CASE request' = [request EXCEPT !.tries = @ + 1] /\ request.pc = "leaving"
    BY <1>0, <1>1, <2>2, LinksRest
  <2> QED BY <1>1, <2>1, <2>2, <1>2
<1>8. CASE M!CreateGroup \/ M!Leave
  BY <1>1, <1>8, <1>4 DEF M!CreateGroup, M!Leave
<1>9. ASSUME NEW wanted, M!CreateChannel(wanted) PROVE M!Inv'
  <2>1. DOMAIN [M!Idle EXCEPT !.given = wanted] = DOMAIN M!Idle
    OBVIOUS
  <2> QED BY <2>1, <1>9, <1>4 DEF M!CreateChannel
<1>10. ASSUME NEW people, M!Invite(people) PROVE M!Inv'
  <2>1. DOMAIN [M!Idle EXCEPT !.left = people] = DOMAIN M!Idle
    OBVIOUS
  <2> QED BY <2>1, <1>10, <1>4 DEF M!Invite
<1>11. ASSUME NEW person, NEW approved, M!Approve(person, approved) PROVE M!Inv'
  <2>1. DOMAIN [M!Idle EXCEPT !.left = {person}, !.given = approved] = DOMAIN M!Idle
    OBVIOUS
  <2> QED BY <2>1, <1>11, <1>4 DEF M!Approve
<1>12. ASSUME NEW person, M!Adds(person) PROVE M!Inv'
  <2> DEFINE r == M!Counted(person)
             s == [r EXCEPT !.left = @ \ {person}]
             t == [request EXCEPT !.invited = @ \cup {person}, !.silent = @ \cup {person}, !.left = @ \ {person}]
  <2>1. (request' = s \/ request' = t \/ M!Loses) /\ request.pc = "adding"
    BY <1>12 DEF M!Adds, M!Sets
  <2>2. DOMAIN r = DOMAIN M!Idle /\ r.pc = request.pc
    BY <1>0 DEF M!Counted, M!AddedIsInvited
  <2> HIDE DEF r
  <2>3. DOMAIN s = DOMAIN M!Idle /\ s.pc = request.pc
    BY <1>0, <2>2
  <2> HIDE DEF s
  <2>4. DOMAIN t = DOMAIN M!Idle /\ t.pc = request.pc
    BY <1>0
  <2> HIDE DEF t
  <2> QED BY <1>1, <1>2, <2>1, <2>3, <2>4, LinksRest
<1>13. ASSUME request' = request PROVE M!Inv'
  BY <1>1, <1>13, LinksRest DEF M!Inv
<1>14. CASE M!NameIsTaken \/ UNCHANGED M!membershipVars
  BY <1>1, <1>13, <1>14 DEF M!NameIsTaken, M!membershipVars
<1> QED BY <1>1, <1>5, <1>6, <1>7, <1>8, <1>9, <1>10, <1>11, <1>12, <1>14

(* The steps that are about a link.                                        *)
LEMMA LinksStep ==
  ASSUME M!Inv, [M!Next]_M!membershipVars
  PROVE  /\ M!Inv'
         /\ \A l \in ChatLink : link[l].limit # link'[l].limit /\ link[l].state = "live" =>
              request.pc = "editing" /\ request.link = l /\ request.given
<1> DEFINE Kept == \A l \in ChatLink : link[l].limit # link'[l].limit /\ link[l].state = "live" =>
                     request.pc = "editing" /\ request.link = l /\ request.given
<1>0. /\ DOMAIN request = DOMAIN M!Idle /\ link = [l \in ChatLink |-> link[l]]
      /\ \A l \in ChatLink : DOMAIN link[l] = DOMAIN M!Unset
      /\ DOMAIN M!Idle = {"op", "pc", "left", "invited", "already", "failed", "link",
                          "limit", "given", "also", "tries", "chats", "was", "says", "lost", "silent", "told"}
      /\ DOMAIN M!Unset = {"state", "limit", "used", "asks"}
  BY DEF M!Inv, M!Idle, M!Unset
<1>1. ASSUME UNCHANGED link PROVE Kept
  BY <1>1
<1>2. ASSUME NEW l \in ChatLink, NEW r, r.limit = link[l].limit, link' = [link EXCEPT ![l] = r] PROVE Kept
  BY <1>0, <1>2
<1>3. ASSUME NEW record, NEW op, NEW pc, M!Begins(op, pc, record) PROVE UNCHANGED link
  BY <1>3 DEF M!Begins, M!Chat
<1>4. ASSUME NEW l \in ChatLink, M!Redeem(l) PROVE M!Inv' /\ UNCHANGED link
  <2> DEFINE r == [M!Idle EXCEPT !.link = l]
  <2>1. DOMAIN r = DOMAIN M!Idle /\ M!Begins("redeem", "probing", r)
    BY <1>4 DEF M!Redeem
  <2> HIDE DEF r
  <2> QED BY <2>1, <1>3, LinkCallBegins
<1>5. ASSUME NEW l \in ChatLink, M!ExportInvite(l) PROVE M!Inv' /\ UNCHANGED link
  <2> DEFINE r == [M!Idle EXCEPT !.link = l]
  <2>1. DOMAIN r = DOMAIN M!Idle /\ r.link = l /\ M!Begins("export", "exporting", r) /\ link[l].state = M!None
    BY <1>0, <1>5 DEF M!ExportInvite
  <2> HIDE DEF r
  <2> QED BY <2>1, <1>3, LinkCallBegins
<1>6. ASSUME NEW l \in ChatLink, M!EditOther(l) PROVE M!Inv' /\ UNCHANGED link
  <2> DEFINE r == [M!Idle EXCEPT !.link = l]
  <2>1. DOMAIN r = DOMAIN M!Idle /\ M!Begins("edit", "editing", r)
    BY <1>6 DEF M!EditOther
  <2> HIDE DEF r
  <2> QED BY <2>1, <1>3, LinkCallBegins
<1>7. ASSUME NEW l \in ChatLink, NEW limit, NEW asks, M!CreateLink(l, limit, asks) PROVE M!Inv' /\ UNCHANGED link
  <2> DEFINE r == [M!Idle EXCEPT !.link = l, !.limit = limit, !.also = asks]
             no == [M!Idle EXCEPT !.says = "refused"]
  <2>1. DOMAIN r = DOMAIN M!Idle /\ r.link = l /\ DOMAIN no = DOMAIN M!Idle
    BY <1>0
  <2>2. /\ link[l].state = M!None
        /\ M!Begins("create", "replied", no) \/ M!Begins("create", "exporting", r)
    BY <1>7 DEF M!CreateLink
  <2> HIDE DEF r, no
  <2> QED BY <2>1, <2>2, <1>3, LinkCallBegins
<1>8. ASSUME NEW l \in ChatLink, NEW limit, NEW given, M!EditLink(l, limit, given) PROVE M!Inv' /\ UNCHANGED link
  <2> DEFINE r == [M!Idle EXCEPT !.link = l, !.limit = limit, !.given = TRUE]
             no == [M!Idle EXCEPT !.says = "refused"]
  <2>1. DOMAIN r = DOMAIN M!Idle /\ DOMAIN no = DOMAIN M!Idle
    OBVIOUS
  <2>2. M!Begins("edit", "replied", no) \/ M!Begins("edit", "editing", r)
    BY <1>8 DEF M!EditLink
  <2> HIDE DEF r, no
  <2> QED BY <2>1, <2>2, <1>3, LinkCallBegins
<1>9. ASSUME NEW l \in ChatLink, NEW delete, M!RevokeLink(l, delete) PROVE M!Inv' /\ UNCHANGED link
  <2> DEFINE r == [M!Idle EXCEPT !.link = l, !.also = delete]
  <2>1. DOMAIN r = DOMAIN M!Idle /\ M!Begins("revoke", "revoking", r)
    BY <1>9 DEF M!RevokeLink
  <2> HIDE DEF r
  <2> QED BY <2>1, <1>3, LinkCallBegins
<1>10. ASSUME NEW l, NEW who, M!Admits(l, who), DOMAIN request' = DOMAIN M!Idle,
              request'.pc = "exporting" => request' = request
       PROVE  M!Inv' /\ Kept
  <2>1. CASE UNCHANGED link
    BY <1>1, <1>10, <2>1, LinksRest DEF M!Inv
  <2>2. CASE ~UNCHANGED link
    <3>1. l \in ChatLink
      <4>1. \E used : link' = [link EXCEPT ![l].used = used]
        BY <1>10, <2>2 DEF M!Admits
      <4> QED BY <1>0, <2>2, <4>1
    <3>2. PICK r : /\ DOMAIN r = DOMAIN M!Unset /\ r.state = link[l].state /\ r.limit = link[l].limit
                   /\ link' = [link EXCEPT ![l] = r]
      BY <1>10, <2>2, <3>1, LinkIsUsed
    <3> QED BY <1>2, <1>10, <3>1, <3>2, LinkChanges
  <2> QED BY <2>1, <2>2
<1>11. CASE M!Joins
  <2>1. \E what : M!Says(what) \/ M!Loses
    BY <1>11 DEF M!Joins
  <2>2. DOMAIN request' = DOMAIN M!Idle /\ request'.pc = "replied"
    BY <2>1, LinkSays
  <2>3. M!Admits(request.link, "me") \/ UNCHANGED link
    BY <1>11 DEF M!Joins, M!Chat
  <2> QED BY <2>2, <2>3, <1>1, <1>10, LinksRest
<1>12. ASSUME NEW person, NEW l, M!OtherJoins(person, l) PROVE M!Inv' /\ Kept
  BY <1>0, <1>10, <1>12 DEF M!OtherJoins
<1>13. CASE M!Exports
  <2> DEFINE l == request.link
             new == [M!Unset EXCEPT !.state = "live", !.limit = request.limit, !.asks = request.also]
             minted == [link EXCEPT ![l] = new]
             old == [minted[primary] EXCEPT !.state = "revoked"]
  <2>1. l \in ChatLink /\ link[l].state = M!None
    BY <1>13 DEF M!Exports, M!Inv
  <2>2. DOMAIN request' = DOMAIN M!Idle /\ request'.pc = "replied"
    <3>1. \E what : M!Says(what) \/ M!Loses
      BY <1>13 DEF M!Exports
    <3> QED BY <3>1, LinkSays
  <2>3. DOMAIN new = DOMAIN M!Unset
    OBVIOUS
  <2>4. link' = minted \/ link' = [minted EXCEPT ![primary] = old]
    BY <1>13 DEF M!Exports
  <2> HIDE DEF new
  <2>5. /\ minted = [k \in ChatLink |-> minted[k]] /\ minted[l] = new
        /\ \A k \in ChatLink \ {l} : minted[k] = link[k]
        /\ \A k \in ChatLink : DOMAIN minted[k] = DOMAIN M!Unset
    BY <1>0, <2>1, <2>3
  <2> HIDE DEF minted
  <2>6. primary \in ChatLink => DOMAIN old = DOMAIN M!Unset /\ old.limit = minted[primary].limit
    BY <1>0, <2>5
  <2> HIDE DEF old
  <2>7. /\ link' = [k \in ChatLink |-> link'[k]]
        /\ \A k \in ChatLink : DOMAIN link'[k] = DOMAIN M!Unset /\ link'[k].limit = minted[k].limit
    BY <2>4, <2>5, <2>6
  <2>8. DOMAIN link' = ChatLink
    BY <2>7
  <2>9. M!Inv'
    BY <2>2, <2>7, <2>8 DEF M!Inv
  <2>10. Kept
    BY <2>1, <2>5, <2>7 DEF M!None
  <2> QED BY <2>9, <2>10
<1>14. CASE M!EditsLink
  <2> DEFINE l == request.link
             r == [link[l] EXCEPT !.limit = request.limit]
  <2>1. DOMAIN request' = DOMAIN M!Idle /\ request'.pc = "replied"
    BY <1>14, LinkSays DEF M!EditsLink
  <2>2. CASE UNCHANGED link
    BY <2>1, <2>2, <1>1, LinksRest
  <2>3. CASE ~UNCHANGED link
    <3>1. request.pc = "editing" /\ request.given /\ link' = [link EXCEPT ![l] = r]
      BY <1>14, <2>3 DEF M!EditsLink, M!Sent, M!SendsWhatIsGiven
    <3>2. l \in ChatLink
      BY <1>0, <2>3, <3>1
    <3>3. DOMAIN r = DOMAIN M!Unset
      BY <1>0, <3>2
    <3> HIDE DEF r
    <3>4. M!Inv'
      BY <2>1, <3>1, <3>2, <3>3, LinkChanges
    <3>5. Kept
      BY <1>0, <3>1, <3>2
    <3> QED BY <3>4, <3>5
  <2> QED BY <2>2, <2>3
<1>15. CASE M!Revokes \/ M!DeletesLink
  <2> DEFINE l == request.link
  <2>1. DOMAIN request' = DOMAIN M!Idle /\ request'.pc \in {"replied", "deleting"}
    <3>1. (\E what : M!Says(what) \/ M!Loses) \/ request' = [request EXCEPT !.pc = "deleting"]
      BY <1>15 DEF M!Revokes, M!DeletesLink, M!Sets
    <3> QED BY <1>0, <3>1, LinkSays
  <2>2. PICK state : link' = [link EXCEPT ![l].state = state]
    BY <1>15 DEF M!Revokes, M!DeletesLink
  <2> DEFINE r == [link[l] EXCEPT !.state = state]
  <2>3. CASE l \in ChatLink
    <3>1. DOMAIN r = DOMAIN M!Unset /\ r.limit = link[l].limit /\ link' = [link EXCEPT ![l] = r]
      BY <1>0, <2>2, <2>3
    <3> HIDE DEF r
    <3>2. M!Inv'
      BY <2>1, <2>3, <3>1, LinkChanges
    <3> QED BY <1>2, <2>3, <3>1, <3>2
  <2>4. CASE l \notin ChatLink
    <3>1. link' = link
      BY <1>0, <2>2, <2>4
    <3> QED BY <1>1, <2>1, <3>1, LinksRest
  <2> QED BY <2>3, <2>4
<1>16. ASSUME M!Inv' /\ UNCHANGED link PROVE M!Inv' /\ Kept
  BY <1>1, <1>16
<1> QED BY <1>4, <1>5, <1>6, <1>7, <1>8, <1>9, <1>11, <1>12, <1>13, <1>14, <1>15, <1>16, LinkCallsStep DEF M!Next

(* What the calls on chats and links say.  A step keeps the invariant and, *)
(* when it answers, what the answer says of the chat holds.                *)
LEMMA ChatsMeant == ASSUME M!Init PROVE M!Meant
<1>1. request.pc = "idle" /\ request.says = "nothing" /\ request.chats = 0 /\ made = <<>>
  BY DEF M!Init, M!Idle
<1> QED BY <1>1 DEF M!Meant, M!HasTold, M!EveryChatIsTold

LEMMA ChatsSay ==
  ASSUME M!Inv, NEW what, M!Says(what)
  PROVE  /\ request'.pc = "replied" /\ request'.says = what /\ request'.op = request.op /\ request'.link = request.link
         /\ request'.given = request.given /\ request'.limit = request.limit /\ request'.chats = request.chats
         /\ request'.invited = request.invited /\ request'.already = request.already /\ request'.failed = request.failed
         /\ request'.silent = request.silent
<1>1. request' = [request EXCEPT !.pc = "replied", !.says = what] /\ DOMAIN request = DOMAIN M!Idle
  BY DEF M!Says, M!Sets, M!Inv
<1>2. DOMAIN M!Idle = {"op", "pc", "left", "invited", "already", "failed", "link",
                       "limit", "given", "also", "tries", "chats", "was", "says", "lost", "silent", "told"}
  BY DEF M!Idle
<1> QED BY <1>1, <1>2

LEMMA ChatsSaid ==
  ASSUME M!Inv, M!Meant, NEW what, M!Says(what), made' \in Seq(BOOLEAN),
         what \in {"failed", "refused"} => request.pc \notin {"made", "finding", "replied"} /\ UNCHANGED made
  PROVE  M!Meant'
<1>1. /\ request'.pc = "replied" /\ request'.says = what /\ request'.chats = request.chats
  BY ChatsSay
<1>2. M!HasTold'
  BY <1>1 DEF M!Meant, M!HasTold, M!EveryChatIsTold
<1> QED BY <1>1, <1>2 DEF M!Meant

(* A lost answer is told as a failure, which says nothing of the chat.     *)
LEMMA ChatsLose ==
  ASSUME M!Inv, M!Meant, M!Loses, made' \in Seq(BOOLEAN), request.pc \notin {"made", "replied"},
         request.pc \notin {"creating", "finding"} => UNCHANGED made
  PROVE  M!Meant' /\ M!HoldsOf(request)'
<1>1. /\ request'.pc = "replied" /\ request'.says = "failed" /\ request'.chats = request.chats
      /\ request'.lost = request.pc
  BY DEF M!Loses, M!Sets, M!Inv, M!Idle
<1>2. M!HasTold'
  BY <1>1 DEF M!Meant, M!HasTold, M!EveryChatIsTold
<1>3. M!HoldsOf(request)'
  BY <1>1 DEF M!HoldsOf
<1> QED BY <1>1, <1>2, <1>3 DEF M!Meant

(* What says nothing of the chat is so whatever the chat is.               *)
LEMMA ChatsSayLittle ==
  ASSUME M!Inv, NEW what, M!Says(what), what \in {"failed", "refused", "created", "expired", "minted", "decided"}
  PROVE  M!HoldsOf(request)'
<1>1. request'.says = what
  BY ChatsSay
<1> QED BY <1>1 DEF M!HoldsOf

LEMMA ChatsCallBegins ==
  ASSUME M!Inv, M!Meant, NEW op, NEW pc, NEW record, M!Begins(op, pc, record), DOMAIN record = DOMAIN M!Idle,
         record.invited = {}, record.already = {}, record.failed = {}, record.silent = {},
         pc \notin {"made", "finding", "deleting", "idle"}, pc \in {"editing", "revoking"} => record.link \in ChatLink,
         record.says = IF pc = "replied" THEN "refused" ELSE "nothing"
  PROVE  M!Meant' /\ M!HoldsOf(request)'
<1>1. /\ request' = [record EXCEPT !.op = op, !.pc = pc, !.chats = Len(made), !.was = primary]
      /\ UNCHANGED <<made, members, guarded, link>>
  BY DEF M!Begins, M!Sets, M!Chat, M!World
<1>2. DOMAIN M!Idle = {"op", "pc", "left", "invited", "already", "failed", "link",
                       "limit", "given", "also", "tries", "chats", "was", "says", "lost", "silent", "told"}
  BY DEF M!Idle
<1>3. /\ request'.pc = pc /\ request'.says = record.says /\ request'.chats = Len(made) /\ request'.link = record.link
      /\ request'.invited = {} /\ request'.already = {} /\ request'.failed = {} /\ request'.silent = {}
  BY <1>1, <1>2
<1>4. M!HasTold' /\ M!HasInvited'
  BY <1>1, <1>3 DEF M!HasTold, M!EveryChatIsTold, M!HasInvited
<1>5. M!Meant'
  BY <1>1, <1>3, <1>4 DEF M!Meant
<1>6. M!HoldsOf(request)'
  BY <1>3 DEF M!HoldsOf
<1> QED BY <1>5, <1>6

(* A call that goes on has told nothing yet.                               *)
LEMMA ChatsCallGoesOn ==
  ASSUME M!Inv, M!Meant, NEW pc, request' = [request EXCEPT !.pc = pc], request.pc # "replied", pc # "replied",
         pc \in {"made", "finding"} => Len(made') = Len(made) + 1,
         pc \notin {"made", "finding"} => UNCHANGED made /\ request.pc \notin {"made", "finding"},
         pc \notin {"inviting", "adding", "editing", "revoking"}, made' \in Seq(BOOLEAN),
         pc = "deleting" => request.link \in ChatLink /\ link'[request.link].state = "revoked"
  PROVE  M!Meant'
<1>1. /\ request'.pc = pc /\ request'.says = request.says /\ request'.chats = request.chats /\ request'.link = request.link
  BY DEF M!Inv, M!Idle
<1>2. M!HasTold'
  BY <1>1 DEF M!Meant, M!HasTold, M!EveryChatIsTold
<1>3. pc = "made" => made' # <<>>
  BY DEF M!Meant
<1> QED BY <1>1, <1>2, <1>3 DEF M!Meant

(* Nor has one nobody moves: links are used and people join meanwhile.     *)
LEMMA ChatsCallWaits ==
  ASSUME M!Meant, UNCHANGED <<request, made, guarded>>, members \subseteq members',
         \A l \in ChatLink : link'[l].state = link[l].state
  PROVE  M!Meant'
<1>1. M!HasTold' /\ (M!HasInvited => M!HasInvited')
  BY DEF M!Meant, M!HasTold, M!EveryChatIsTold, M!HasInvited
<1> QED BY <1>1 DEF M!Meant

LEMMA ChatsCallsBegin ==
  ASSUME M!Inv, M!Meant,
         \/ M!CreateGroup \/ M!Leave \/ (\E wanted \in BOOLEAN : M!CreateChannel(wanted))
         \/ (\E people \in (SUBSET ChatUser) \ {{}} : M!Invite(people))
         \/ (\E person \in ChatUser, approved \in BOOLEAN : M!Approve(person, approved))
         \/ (\E l \in ChatLink :
               \/ M!Redeem(l) \/ M!ExportInvite(l) \/ M!EditOther(l)
               \/ (\E limit \in 0..LinkLimit, flag \in BOOLEAN : M!CreateLink(l, limit, flag) \/ M!EditLink(l, limit, flag))
               \/ (\E delete \in BOOLEAN : M!RevokeLink(l, delete)))
  PROVE  M!Meant' /\ (request.pc # "replied" /\ request'.pc = "replied" => M!HoldsOf(request)')
<1> DEFINE Fresh(r) == /\ DOMAIN r = DOMAIN M!Idle /\ r.invited = {} /\ r.already = {} /\ r.failed = {}
                       /\ r.silent = {} /\ r.says = "nothing"
<1>0. ASSUME NEW op, NEW pc, NEW r, M!Begins(op, pc, r), Fresh(r), pc \notin {"made", "finding", "deleting", "idle", "replied"},
             pc \in {"editing", "revoking"} => r.link \in ChatLink
      PROVE  M!Meant' /\ M!HoldsOf(request)'
  BY <1>0, ChatsCallBegins
<1>1. CASE M!CreateGroup \/ M!Leave
  <2>1. Fresh(M!Idle)
    BY DEF M!Idle
  <2> QED BY <1>0, <1>1, <2>1 DEF M!CreateGroup, M!Leave
<1>2. ASSUME NEW wanted, M!CreateChannel(wanted) PROVE M!Meant' /\ M!HoldsOf(request)'
  <2> DEFINE r == [M!Idle EXCEPT !.given = wanted]
  <2>1. Fresh(r) /\ (M!Begins("channel", "checking", r) \/ M!Begins("channel", "creating", r))
    BY <1>2 DEF M!CreateChannel, M!Idle
  <2> HIDE DEF r, Fresh
  <2> QED BY <1>0, <2>1
<1>3. ASSUME NEW people, M!Invite(people) PROVE M!Meant' /\ M!HoldsOf(request)'
  <2> DEFINE r == [M!Idle EXCEPT !.left = people]
  <2>1. Fresh(r) /\ (M!Begins("invite", "inviting", r) \/ M!Begins("invite", "adding", r))
    BY <1>3 DEF M!Invite, M!Idle
  <2> HIDE DEF r, Fresh
  <2> QED BY <1>0, <2>1
<1>4. ASSUME NEW person, NEW approved, M!Approve(person, approved) PROVE M!Meant' /\ M!HoldsOf(request)'
  <2> DEFINE r == [M!Idle EXCEPT !.left = {person}, !.given = approved]
  <2>1. Fresh(r) /\ M!Begins("approve", "deciding", r)
    BY <1>4 DEF M!Approve, M!Idle
  <2> HIDE DEF r, Fresh
  <2> QED BY <1>0, <2>1
<1>5. ASSUME NEW l \in ChatLink, M!Redeem(l) \/ M!ExportInvite(l) \/ M!EditOther(l) PROVE M!Meant' /\ M!HoldsOf(request)'
  <2> DEFINE r == [M!Idle EXCEPT !.link = l]
  <2>1. /\ Fresh(r) /\ r.link = l
        /\ M!Begins("redeem", "probing", r) \/ M!Begins("export", "exporting", r) \/ M!Begins("edit", "editing", r)
    BY <1>5 DEF M!Redeem, M!ExportInvite, M!EditOther, M!Idle
  <2> HIDE DEF r, Fresh
  <2> QED BY <1>0, <2>1
<1> DEFINE no == [M!Idle EXCEPT !.says = "refused"]
<1>r. /\ DOMAIN no = DOMAIN M!Idle /\ no.invited = {} /\ no.already = {} /\ no.failed = {} /\ no.silent = {} /\ no.says = "refused"
  BY DEF M!Idle
<1> HIDE DEF no
<1>6. ASSUME NEW l \in ChatLink, NEW limit, NEW flag, M!CreateLink(l, limit, flag) \/ M!EditLink(l, limit, flag)
      PROVE  M!Meant' /\ M!HoldsOf(request)'
  <2> DEFINE r == [M!Idle EXCEPT !.link = l, !.limit = limit, !.also = flag]
             s == [M!Idle EXCEPT !.link = l, !.limit = limit, !.given = TRUE]
  <2>1. /\ \/ M!Begins("create", "replied", no) \/ M!Begins("create", "exporting", r)
           \/ M!Begins("edit", "replied", no) \/ M!Begins("edit", "editing", s)
    BY <1>6 DEF M!CreateLink, M!EditLink, no
  <2>2. Fresh(r) /\ Fresh(s) /\ s.link = l
    BY DEF M!Idle
  <2> HIDE DEF r, s
  <2>3. ASSUME NEW op, M!Begins(op, "replied", no) PROVE M!Meant' /\ M!HoldsOf(request)'
    BY <1>r, <2>3, ChatsCallBegins
  <2> HIDE DEF Fresh
  <2> QED BY <1>0, <2>1, <2>2, <2>3
<1>7. ASSUME NEW l \in ChatLink, NEW delete, M!RevokeLink(l, delete) PROVE M!Meant' /\ M!HoldsOf(request)'
  <2> DEFINE r == [M!Idle EXCEPT !.link = l, !.also = delete]
  <2>1. Fresh(r) /\ r.link = l /\ M!Begins("revoke", "revoking", r)
    BY <1>7 DEF M!RevokeLink, M!Idle
  <2> HIDE DEF r, Fresh
  <2> QED BY <1>0, <2>1
<1> QED BY <1>1, <1>2, <1>3, <1>4, <1>5, <1>6, <1>7

(* The steps of a call about people and names.                             *)
LEMMA ChatsCallsMove ==
  ASSUME M!Inv, M!Meant,
         \/ M!RequestFails \/ M!Checks \/ M!Creates \/ M!Finds \/ M!Names \/ M!NamingFails \/ M!InvitesAll \/ M!AddedAll
         \/ M!Leaves \/ M!Decides \/ M!Exports \/ (\E person \in ChatUser : M!Adds(person))
  PROVE  M!Meant' /\ (request.pc # "replied" /\ request'.pc = "replied" => M!HoldsOf(request)')
<1>0. /\ DOMAIN request = DOMAIN M!Idle /\ made \in Seq(BOOLEAN)
      /\ DOMAIN M!Idle = {"op", "pc", "left", "invited", "already", "failed", "link",
                          "limit", "given", "also", "tries", "chats", "was", "says", "lost", "silent", "told"}
  BY DEF M!Inv, M!Idle, M!Meant
<1>1. CASE M!RequestFails \/ M!NamingFails
  <2>1. PICK what \in {"failed", "created"} :
          M!Says(what) /\ (what = "failed" => request.pc \notin {"made", "finding", "replied"})
    BY <1>1 DEF M!RequestFails, M!NamingFails, M!Unnamed, M!ToldAsPrivate
  <2>2. UNCHANGED made
    BY <1>1 DEF M!RequestFails, M!NamingFails
  <2> QED BY <1>0, <2>1, <2>2, ChatsSaid, ChatsSayLittle
<1>8. CASE M!Decides \/ M!Exports \/ M!Finds
  <2>1. M!Loses \/ \E what \in {"decided", "minted", "created"} : M!Says(what)
    BY <1>8 DEF M!Decides, M!Exports, M!Finds
  <2>2. UNCHANGED made /\ request.pc \in {"deciding", "exporting", "finding"}
    BY <1>8 DEF M!Decides, M!Exports, M!Finds
  <2>3. CASE M!Loses
    BY <1>0, <2>2, <2>3, ChatsLose
  <2>4. ASSUME NEW what \in {"decided", "minted", "created"}, M!Says(what) PROVE M!Meant' /\ M!HoldsOf(request)'
    BY <1>0, <2>2, <2>4, ChatsSaid, ChatsSayLittle
  <2> QED BY <2>1, <2>3, <2>4
<1>2. CASE M!Checks
  <2>1. M!Says("refused") \/ request' = [request EXCEPT !.pc = "creating"]
    BY <1>2 DEF M!Checks, M!Sets
  <2>2. UNCHANGED made /\ request.pc = "checking"
    BY <1>2 DEF M!Checks
  <2> QED BY <1>0, <2>1, <2>2, ChatsSaid, ChatsSayLittle, ChatsCallGoesOn
<1>3. CASE M!Creates
  <2>1. M!Says("created") \/ M!Loses \/ \E pc \in {"made", "finding"} : request' = [request EXCEPT !.pc = pc]
    BY <1>3 DEF M!Creates, M!Sets
  <2>2. made' \in Seq(BOOLEAN) /\ Len(made') = Len(made) + 1 /\ request.pc = "creating"
    BY <1>0, <1>3 DEF M!Creates
  <2>3. CASE M!Says("created")
    BY <1>0, <2>2, <2>3, ChatsSaid, ChatsSayLittle
  <2>4. CASE M!Loses
    BY <1>0, <2>2, <2>4, ChatsLose
  <2>5. ASSUME NEW pc \in {"made", "finding"}, request' = [request EXCEPT !.pc = pc]
        PROVE  M!Meant' /\ request'.pc # "replied"
    <3>1. M!Meant'
      BY <1>0, <2>2, <2>5, ChatsCallGoesOn
    <3>2. request'.pc = pc
      BY <1>0, <2>5
    <3> QED BY <3>1, <3>2
  <2> QED BY <2>1, <2>3, <2>4, <2>5
<1>4. CASE M!Names
  <2>1. CASE M!Says("public") /\ made' = [made EXCEPT ![Len(made)] = TRUE]
    <3>1. made # <<>>
      BY <1>4 DEF M!Names, M!Meant
    <3>2. made' \in Seq(BOOLEAN) /\ Len(made') = Len(made) /\ made'[Len(made)] = TRUE
      BY <1>0, <2>1, <3>1
    <3>3. request'.says = "public"
      BY <2>1, ChatsSay
    <3>4. Len(made') # 0 /\ M!Last(made')
      BY <3>1, <3>2, <1>0 DEF M!Last
    <3>5. M!HoldsOf(request)'
      BY <3>3, <3>4 DEF M!HoldsOf
    <3> QED BY <2>1, <3>2, <3>5, ChatsSaid
  <2>2. CASE M!Says("created")
    <3>1. UNCHANGED made \/ made' = [made EXCEPT ![Len(made)] = TRUE]
      BY <1>4 DEF M!Names
    <3>2. made # <<>>
      BY <1>4 DEF M!Names, M!Meant
    <3>3. CASE made' = [made EXCEPT ![Len(made)] = TRUE]
      <4>1. made' \in Seq(BOOLEAN)
        BY <1>0, <3>2, <3>3
      <4> QED BY <2>2, <4>1, ChatsSaid, ChatsSayLittle
    <3>4. CASE UNCHANGED made
      BY <1>0, <2>2, <3>4, ChatsSaid, ChatsSayLittle
    <3> QED BY <3>1, <3>3, <3>4
  <2> QED BY <1>4, <2>1, <2>2 DEF M!Names, M!Unnamed, M!ToldAsPrivate
<1>9. CASE M!InvitesAll
  <2>1. /\ UNCHANGED <<made, guarded>> /\ members \subseteq members' /\ M!HasInvited
        /\ request.pc = "inviting" /\ Len(made) = request.chats
    BY <1>9 DEF M!InvitesAll, M!Meant, M!HasTold, M!World
  <2>2. CASE M!Loses
    BY <1>0, <2>1, <2>2, ChatsLose
  <2>3. ASSUME NEW told, request' = [request EXCEPT !.pc = "replied", !.says = "done", !.told = told]
        PROVE  M!Meant' /\ M!HoldsOf(request)'
    <3>1. /\ request'.pc = "replied" /\ request'.says = "done" /\ request'.chats = request.chats
          /\ request'.invited = request.invited /\ request'.already = request.already
          /\ request'.failed = request.failed /\ request'.silent = request.silent
      BY <1>0, <2>3
    <3>2. M!HoldsOf(request)'
      BY <2>1, <3>1 DEF M!HoldsOf, M!HasInvited
    <3>3. M!HasTold'
      BY <2>1, <3>1 DEF M!HasTold, M!EveryChatIsTold
    <3> QED BY <1>0, <2>1, <3>1, <3>2, <3>3 DEF M!Meant
  <2> QED BY <1>9, <2>2, <2>3 DEF M!InvitesAll, M!Sets
<1>5. CASE M!AddedAll
  <2>1. M!Says("done") /\ UNCHANGED <<made, guarded>> /\ members \subseteq members' /\ M!HasInvited
    BY <1>5 DEF M!AddedAll, M!Meant, M!Chat, M!World
  <2>2. request'.says = "done" /\ request'.invited = request.invited /\ request'.already = request.already
        /\ request'.failed = request.failed /\ request'.silent = request.silent
    BY <2>1, ChatsSay
  <2>3. M!HoldsOf(request)'
    BY <2>1, <2>2 DEF M!HoldsOf, M!HasInvited
  <2> QED BY <1>0, <2>1, <2>3, ChatsSaid
<1>6. CASE M!Leaves
  <2>0. UNCHANGED made /\ request.pc = "leaving"
    BY <1>6 DEF M!Leaves
  <2>1. CASE M!Says("left") /\ "me" \notin members'
    <3>1. request'.says = "left"
      BY <2>1, ChatsSay
    <3>2. M!HoldsOf(request)'
      BY <2>1, <3>1 DEF M!HoldsOf
    <3> QED BY <1>0, <2>0, <2>1, <3>2, ChatsSaid
  <2>2. CASE M!Says("failed")
    BY <1>0, <2>0, <2>2, ChatsSaid, ChatsSayLittle
  <2>3. CASE request' = [request EXCEPT !.tries = @ + 1]
    <3>1. request'.pc = "leaving" /\ request'.says = request.says /\ request'.chats = request.chats
      BY <1>0, <2>0, <2>3
    <3>2. M!HasTold'
      BY <2>0, <3>1 DEF M!Meant, M!HasTold, M!EveryChatIsTold
    <3> QED BY <2>0, <3>1, <3>2 DEF M!Meant
  <2> QED BY <1>6, <2>1, <2>2, <2>3 DEF M!Leaves, M!Gone, M!Sets
<1>7. ASSUME NEW person, M!Adds(person)
      PROVE  M!Meant' /\ (request'.pc = "replied" => M!HoldsOf(request)')
  <2> DEFINE r == M!Counted(person)
             s == [r EXCEPT !.left = @ \ {person}]
             t == [request EXCEPT !.invited = @ \cup {person}, !.silent = @ \cup {person}, !.left = @ \ {person}]
  <2>1. /\ request' = s \/ (request' = t /\ person \in guarded) \/ M!Loses
        /\ request.pc = "adding" /\ members' = members \cup ({person} \ guarded) /\ UNCHANGED <<made, guarded>>
    BY <1>7 DEF M!Adds, M!Sets, M!World
  <2>2. /\ DOMAIN r = DOMAIN M!Idle /\ r.pc = request.pc /\ r.says = request.says /\ r.chats = request.chats
        /\ r.silent = request.silent
        /\ r.invited \cup r.already \subseteq request.invited \cup request.already \cup ({person} \ guarded)
        /\ r.failed \subseteq request.failed \cup ({person} \cap guarded)
    <3>1. CASE person \in guarded
      BY <1>0, <3>1 DEF M!Counted, M!AddedIsInvited
    <3>2. CASE person \notin guarded /\ person \in members
      BY <1>0, <3>2 DEF M!Counted, M!AddedIsInvited
    <3>3. CASE person \notin guarded /\ person \notin members
      BY <1>0, <3>3 DEF M!Counted, M!AddedIsInvited
    <3> QED BY <3>1, <3>2, <3>3
  <2> HIDE DEF r
  <2>3. /\ s.pc = "adding" /\ s.says = request.says /\ s.chats = request.chats
        /\ s.invited = r.invited /\ s.already = r.already /\ s.failed = r.failed /\ s.silent = r.silent
    BY <1>0, <2>1, <2>2
  <2> HIDE DEF s
  <2>4. /\ t.pc = "adding" /\ t.says = request.says /\ t.chats = request.chats
        /\ t.invited = request.invited \cup {person} /\ t.already = request.already /\ t.failed = request.failed
        /\ t.silent = request.silent \cup {person}
    BY <1>0, <2>1
  <2> HIDE DEF t
  <2>5. CASE request' = s
    <3>1. M!HasTold' /\ M!HasInvited'
      BY <2>1, <2>2, <2>3, <2>5 DEF M!Meant, M!HasTold, M!EveryChatIsTold, M!HasInvited
    <3> QED BY <2>1, <2>3, <2>5, <3>1 DEF M!Meant
  <2>6. CASE request' = t /\ person \in guarded
    <3>1. M!HasTold' /\ M!HasInvited'
      BY <2>1, <2>4, <2>6 DEF M!Meant, M!HasTold, M!EveryChatIsTold, M!HasInvited
    <3> QED BY <2>1, <2>4, <2>6, <3>1 DEF M!Meant
  <2>7. CASE M!Loses
    BY <1>0, <2>1, <2>7, ChatsLose
  <2> QED BY <2>1, <2>5, <2>6, <2>7
<1> QED BY <1>1, <1>2, <1>3, <1>4, <1>5, <1>6, <1>7, <1>8, <1>9

(* The steps of a call about a link, and of the others.                    *)
LEMMA ChatsLinksMove ==
  ASSUME M!Inv, M!Meant,
         \/ M!Probes \/ M!ProbeFails \/ M!Joins \/ M!EditsLink \/ M!Revokes \/ M!DeletesLink \/ M!NameIsTaken
         \/ (\E person \in ChatUser, l \in ChatLink : M!OtherJoins(person, l)) \/ UNCHANGED M!membershipVars
  PROVE  M!Meant' /\ (request.pc # "replied" /\ request'.pc = "replied" => M!HoldsOf(request)')
<1>0. /\ DOMAIN request = DOMAIN M!Idle /\ made \in Seq(BOOLEAN) /\ link = [l \in ChatLink |-> link[l]]
      /\ \A l \in ChatLink : DOMAIN link[l] = {"state", "limit", "used", "asks"}
  BY DEF M!Inv, M!Idle, M!Meant, M!Unset
<1>1. ASSUME NEW what \in {"already", "joined", "pending"}, M!Says(what), UNCHANGED made, request.pc # "made",
             what = "pending" => "me" \in asking' \ members', what # "pending" => "me" \in members'
      PROVE  M!Meant' /\ M!HoldsOf(request)'
  <2>1. request'.says = what
    BY <1>1, ChatsSay
  <2>2. M!HoldsOf(request)'
    BY <1>1, <2>1 DEF M!HoldsOf
  <2> QED BY <1>0, <1>1, <2>2, ChatsSaid
<1>2. CASE M!Probes \/ M!ProbeFails
  <2>1. request.pc = "probing" /\ UNCHANGED <<made, members>>
    BY <1>2 DEF M!Probes, M!ProbeFails, M!Chat
  <2>2. \/ request' = [request EXCEPT !.pc = "replied", !.says = "already", !.silent = {"me"} \ members]
        \/ request' = [request EXCEPT !.pc = "joining"]
    BY <1>2 DEF M!Probes, M!ProbeFails, M!Sets
  <2>4. ASSUME request' = [request EXCEPT !.pc = "replied", !.says = "already", !.silent = {"me"} \ members]
        PROVE  M!Meant' /\ M!HoldsOf(request)'
    <3>1. /\ request'.pc = "replied" /\ request'.says = "already" /\ request'.chats = request.chats
          /\ request'.silent = {"me"} \ members
      BY <1>0, <2>4
    <3>2. M!HoldsOf(request)'
      BY <2>1, <3>1 DEF M!HoldsOf
    <3>3. M!HasTold'
      BY <3>1 DEF M!HasTold, M!EveryChatIsTold
    <3> QED BY <1>0, <2>1, <3>1, <3>2, <3>3 DEF M!Meant
  <2>3. ASSUME request' = [request EXCEPT !.pc = "joining"] PROVE M!Meant' /\ request'.pc = "joining"
    <3>1. made' \in Seq(BOOLEAN) /\ made' = made /\ request.pc \notin {"made", "finding", "replied"}
      BY <1>0, <2>1
    <3>2. M!Meant'
      BY <2>3, <3>1, ChatsCallGoesOn
    <3>3. request'.pc = "joining"
      BY <1>0, <2>3
    <3> QED BY <3>2, <3>3
  <2> QED BY <2>2, <2>3, <2>4
<1>3. CASE M!Joins
  <2>1. request.pc = "joining" /\ UNCHANGED made
    BY <1>3 DEF M!Joins
  <2>2. \/ M!Says("expired") \/ M!Loses
        \/ M!Says("already") /\ "me" \in members'
        \/ M!Says("pending") /\ "me" \in asking' \ members'
        \/ M!Says("joined") /\ "me" \in members'
    BY <1>3 DEF M!Joins, M!Chat, M!Admits, M!Joined, M!AnswerOf
  <2>3. CASE M!Loses
    BY <1>0, <2>1, <2>3, ChatsLose
  <2> QED BY <1>0, <1>1, <2>1, <2>2, <2>3, ChatsSaid, ChatsSayLittle
<1>4. CASE M!EditsLink
  <2> DEFINE l == request.link
  <2>0. CASE M!Loses
    BY <1>0, <1>4, <2>0, ChatsLose DEF M!EditsLink
  <2> SUFFICES ASSUME M!Says("changed") PROVE M!Meant' /\ M!HoldsOf(request)'
    BY <1>4, <2>0 DEF M!EditsLink
  <2>1. request.pc = "editing" /\ UNCHANGED made /\ M!Says("changed") /\ l \in ChatLink
    BY <1>4 DEF M!EditsLink, M!Meant
  <2>2. request.given => link'[l].limit = request.limit
    BY <1>0, <1>4, <2>1 DEF M!EditsLink, M!Sent, M!SendsWhatIsGiven
  <2>3. request'.says = "changed" /\ request'.link = l /\ request'.given = request.given /\ request'.limit = request.limit
    BY <2>1, ChatsSay
  <2> HIDE DEF l
  <2>4. M!HoldsOf(request)'
    BY <2>2, <2>3 DEF M!HoldsOf
  <2> QED BY <1>0, <2>1, <2>4, ChatsSaid
<1>5. CASE M!Revokes \/ M!DeletesLink
  <2> DEFINE l == request.link
  <2>0. CASE M!Loses
    BY <1>0, <1>5, <2>0, ChatsLose DEF M!Revokes, M!DeletesLink
  <2> SUFFICES ASSUME ~M!Loses PROVE M!Meant' /\ (request'.pc = "replied" => M!HoldsOf(request)')
    BY <2>0
  <2>1. /\ request.pc \in {"revoking", "deleting"} /\ UNCHANGED made /\ l \in ChatLink
        /\ M!Says("revoked") \/ (request.pc = "revoking" /\ request' = [request EXCEPT !.pc = "deleting"])
    BY <1>5 DEF M!Revokes, M!DeletesLink, M!Meant, M!Sets
  <2>2. CASE M!Revokes
    <3>1. link'[l].state = "revoked"
      BY <1>0, <2>1, <2>2 DEF M!Revokes, M!Revoked, M!RevokesFirst
    <3>2. CASE M!Says("revoked")
      <4>1. request'.says = "revoked" /\ request'.link = l
        BY <3>2, ChatsSay
      <4> HIDE DEF l
      <4>2. M!HoldsOf(request)'
        BY <3>1, <4>1 DEF M!HoldsOf
      <4> QED BY <1>0, <2>1, <3>2, <4>2, ChatsSaid
    <3>3. CASE request.pc = "revoking" /\ request' = [request EXCEPT !.pc = "deleting"]
      <4>1. M!Meant' /\ request'.pc = "deleting"
        <5>1. made' \in Seq(BOOLEAN) /\ made' = made /\ request.pc \notin {"made", "finding", "replied"}
          BY <1>0, <2>1, <3>3
        <5>2. M!Meant'
          BY <2>1, <3>1, <3>3, <5>1, ChatsCallGoesOn
        <5>3. request'.pc = "deleting"
          BY <1>0, <3>3
        <5> QED BY <5>2, <5>3
      <4> QED BY <4>1
    <3> QED BY <2>1, <3>2, <3>3
  <2>3. CASE M!DeletesLink
    <3>1. link[l].state \in {"revoked", "deleted"}
      BY <2>3 DEF M!DeletesLink, M!Meant
    <3>2. link'[l].state = "deleted" /\ M!Says("revoked")
      BY <1>0, <2>1, <2>3, <3>1 DEF M!DeletesLink
    <3>3. request'.says = "revoked" /\ request'.link = l
      BY <3>2, ChatsSay
    <3> HIDE DEF l
    <3>4. M!HoldsOf(request)'
      BY <3>2, <3>3 DEF M!HoldsOf
    <3> QED BY <1>0, <2>1, <3>2, <3>4, ChatsSaid
  <2> QED BY <1>5, <2>2, <2>3
<1>6. CASE M!NameIsTaken \/ UNCHANGED M!membershipVars
  BY <1>6, ChatsCallWaits DEF M!NameIsTaken, M!membershipVars, M!World, M!Chat
<1>7. ASSUME NEW person, NEW l \in ChatLink, M!OtherJoins(person, l) PROVE M!Meant' /\ request' = request
  <2>1. UNCHANGED <<request, made, guarded>> /\ members \subseteq members'
    BY <1>7 DEF M!OtherJoins, M!Admits, M!World
  <2>2. \A k \in ChatLink : link'[k].state = link[k].state
    BY <1>0, <1>7 DEF M!OtherJoins, M!Admits
  <2> QED BY <2>1, <2>2, ChatsCallWaits
<1> QED BY <1>2, <1>3, <1>4, <1>5, <1>6, <1>7 DEF M!NameIsTaken, M!membershipVars

LEMMA ChatsMean ==
  ASSUME M!Inv, M!Meant, [M!Next]_M!membershipVars
  PROVE  /\ M!Meant' /\ (M!Meant => M!EveryChatIsTold)
         /\ request.pc # "replied" /\ request'.pc = "replied" => M!HoldsOf(request)'
<1>1. M!Meant => M!EveryChatIsTold
  BY DEF M!Meant, M!HasTold
<1> QED BY <1>1, ChatsCallsBegin, ChatsCallsMove, ChatsLinksMove DEF M!Next

(* The rights and the rules.  The first rule decides, or the others do.    *)
LEMMA FirstRuleDecides ==
  ASSUME NEW r \in R!RuleSet, NEW all \in Seq(R!RuleSet), NEW p
  PROVE  R!Allowed(<<r>> \o all, p) <=>
           IF R!Matches(r, p) THEN r.kind \in {"allow", "close", "everyone"} ELSE R!Allowed(all, p)
<1> DEFINE both == <<r>> \o all
           Allows(s, i) == /\ R!Matches(s[i], p) /\ \A j \in 1..i - 1 : ~R!Matches(s[j], p)
                           /\ s[i].kind \in {"allow", "close", "everyone"}
<1>1. /\ Len(all) \in Nat /\ Len(both) = 1 + Len(all) /\ both[1] = r
      /\ \A k \in 1..Len(all) : both[1 + k] = all[k]
      /\ DOMAIN both = 1..Len(both) /\ DOMAIN all = 1..Len(all)
  <2>1. <<r>> \in Seq(R!RuleSet) /\ Len(<<r>>) = 1 /\ <<r>>[1] = r
    OBVIOUS
  <2> QED BY <2>1, ConcatenatedAt
<1> HIDE DEF both
<1>2. R!Allowed(both, p) <=> \E i \in 1..Len(both) : Allows(both, i)
  BY <1>1 DEF R!Allowed
<1>3. R!Allowed(all, p) <=> \E i \in 1..Len(all) : Allows(all, i)
  BY <1>1 DEF R!Allowed
<1>4. CASE R!Matches(r, p)
  <2>1. Allows(both, 1) <=> r.kind \in {"allow", "close", "everyone"}
    BY <1>1, <1>4
  <2>2. \A i \in 1..Len(both) : Allows(both, i) => i = 1
    BY <1>1, <1>4
  <2>3. 1 \in 1..Len(both)
    BY <1>1
  <2> HIDE DEF Allows
  <2> QED BY <1>2, <1>4, <2>1, <2>2, <2>3 DEF both
<1>5. CASE ~R!Matches(r, p)
  <2>1. ~Allows(both, 1)
    BY <1>1, <1>5
  <2>2. ASSUME NEW k \in 1..Len(all) PROVE Allows(both, 1 + k) <=> Allows(all, k)
    <3>1. ASSUME \A j \in 1..k - 1 : ~R!Matches(all[j], p), NEW j \in 1..1 + k - 1 PROVE ~R!Matches(both[j], p)
      <4>1. CASE j = 1
        BY <1>1, <1>5, <4>1
      <4>2. CASE j # 1
        <5>1. j - 1 \in 1..k - 1 /\ j - 1 \in 1..Len(all) /\ 1 + (j - 1) = j
          BY <1>1, <3>1, <4>2
        <5>2. both[1 + (j - 1)] = all[j - 1]
          BY <1>1, <5>1
        <5> QED BY <3>1, <5>1, <5>2
      <4> QED BY <4>1, <4>2
    <3>2. ASSUME \A j \in 1..1 + k - 1 : ~R!Matches(both[j], p), NEW j \in 1..k - 1 PROVE ~R!Matches(all[j], p)
      <4>1. 1 + j \in 1..1 + k - 1 /\ j \in 1..Len(all)
        BY <1>1, <3>2
      <4> QED BY <1>1, <3>2, <4>1
    <3>3. both[1 + k] = all[k]
      BY <1>1
    <3> QED BY <3>1, <3>2, <3>3
  <2> HIDE DEF Allows
  <2>3. ASSUME NEW i \in 1..Len(both), Allows(both, i) PROVE \E k \in 1..Len(all) : Allows(all, k)
    <3>1. i - 1 \in 1..Len(all) /\ 1 + (i - 1) = i
      BY <1>1, <2>1, <2>3
    <3> QED BY <2>2, <2>3, <3>1
  <2>4. ASSUME NEW k \in 1..Len(all), Allows(all, k) PROVE \E i \in 1..Len(both) : Allows(both, i)
    <3>1. 1 + k \in 1..Len(both)
      BY <1>1
    <3> QED BY <2>2, <2>4, <3>1
  <2> QED BY <1>2, <1>3, <1>5, <2>3, <2>4 DEF both
<1> QED BY <1>4, <1>5

LEMMA ExceptionDecides ==
  ASSUME NEW people \in SUBSET RightPerson, NEW all \in Seq(R!RuleSet), NEW p, NEW sort \in {"allow", "disallow"}
  PROVE  /\ R!Exception(sort, people) \in Seq(R!RuleSet)
         /\ R!Exception(sort, people) \o all \in Seq(R!RuleSet)
         /\ R!Allowed(R!Exception(sort, people) \o all, p) <=>
              IF p \in people THEN sort = "allow" ELSE R!Allowed(all, p)
<1> DEFINE r == R!Rule(sort, people)
<1>1. r \in R!RuleSet /\ r.kind = sort /\ (R!Matches(r, p) <=> p \in people)
  BY DEF R!Rule, R!RuleSet, R!Kinds, R!Matches
<1>2. CASE people = {}
  <2>1. R!Exception(sort, people) = <<>> /\ <<>> \in Seq(R!RuleSet) /\ <<>> \o all = all
    BY <1>2 DEF R!Exception
  <2> QED BY <1>2, <2>1
<1>3. CASE people # {}
  <2>1. R!Exception(sort, people) = <<r>>
    BY <1>3 DEF R!Exception
  <2> HIDE DEF r
  <2>2. <<r>> \in Seq(R!RuleSet)
    BY <1>1
  <2>3. <<r>> \o all \in Seq(R!RuleSet)
    BY <2>2, ConcatenatedAt
  <2> QED BY <1>1, <2>1, <2>2, <2>3, FirstRuleDecides
<1> QED BY <1>2, <1>3

(* Rules in the order they are built say what the call named.              *)
LEMMA PolicyDecides ==
  ASSUME NEW allow \in SUBSET RightPerson, NEW disallow \in SUBSET RightPerson, NEW base \in R!Base, NEW p,
         allow \cap disallow = {}
  PROVE  LET all == R!InOrder(allow, disallow, base)
         IN /\ all \in Seq(R!RuleSet)
            /\ R!Allowed(all, p) <=> p \in allow \/ (p \notin disallow /\ base = "everyone")
<1> DEFINE r == R!Rule(base, {})
           last_ == <<r>>
           first == R!Exception("allow", allow)
           next  == R!Exception("disallow", disallow)
<1>1. r \in R!RuleSet /\ r.kind = base /\ (R!Matches(r, p) <=> base # "contacts")
  BY DEF R!Rule, R!RuleSet, R!Kinds, R!Matches, R!Base
<1> HIDE DEF r
<1>2. R!Allowed(last_, p) <=> base = "everyone"
  <2>1. <<>> \in Seq(R!RuleSet) /\ last_ \o <<>> = last_ /\ ~R!Allowed(<<>>, p)
    BY DEF R!Allowed
  <2>2. R!Allowed(last_ \o <<>>, p) <=> IF R!Matches(r, p) THEN r.kind \in {"allow", "close", "everyone"} ELSE FALSE
    BY <1>1, <2>1, FirstRuleDecides
  <2> QED BY <1>1, <2>1, <2>2 DEF R!Base
<1>3. last_ \in Seq(R!RuleSet)
  BY <1>1
<1> HIDE DEF last_
<1>4. next \in Seq(R!RuleSet) /\ next \o last_ \in Seq(R!RuleSet)
      /\ (R!Allowed(next \o last_, p) <=> IF p \in disallow THEN FALSE ELSE base = "everyone")
  BY <1>2, <1>3, ExceptionDecides
<1>5. first \in Seq(R!RuleSet) /\ first \o (next \o last_) \in Seq(R!RuleSet)
      /\ (R!Allowed(first \o (next \o last_), p) <=>
            IF p \in allow THEN TRUE ELSE R!Allowed(next \o last_, p))
  <2> DEFINE all == next \o last_
  <2>1. all \in Seq(R!RuleSet)
    BY <1>4
  <2> HIDE DEF all
  <2>2. /\ first \in Seq(R!RuleSet) /\ first \o all \in Seq(R!RuleSet)
        /\ R!Allowed(first \o all, p) <=> IF p \in allow THEN "allow" = "allow" ELSE R!Allowed(all, p)
    BY <2>1, ExceptionDecides
  <2> QED BY <2>2 DEF all
<1>6. R!InOrder(allow, disallow, base) = (first \o next) \o last_
  BY DEF R!InOrder, R!ExceptionsFirst, R!Exception, last_, r
<1> HIDE DEF first, next
<1>7. (first \o next) \o last_ = first \o (next \o last_)
  BY <1>3, <1>4, <1>5
<1> QED BY <1>4, <1>5, <1>6, <1>7

LEMMA RightsInit == ASSUME R!Init PROVE R!Inv
<1>1. R!Rule("close", CloseFriend) \in R!RuleSet /\ R!Rule("contacts", {}) \in R!RuleSet
  BY RecordsAssumption DEF RecordsAssumption, R!RightsAssumption, R!RuleSet, R!Rule, R!Kinds, R!Base
<1>2. rules \in Seq(R!RuleSet)
  BY <1>1 DEF R!Init
<1>3. R!Idle.op = "none" /\ R!Idle.pc = "idle" /\ R!Idle.looked = FALSE
  BY DEF R!Idle
<1> QED BY <1>2, <1>3 DEF R!Init, R!Inv

(* A call that is over, or has not begun, sends nothing.                   *)
LEMMA RightsRest ==
  ASSUME R!Inv, UNCHANGED about, rights' = [p \in RightPerson |-> rights'[p]], rules' \in Seq(R!RuleSet),
         DOMAIN granting' = DOMAIN R!Idle, granting'.pc \notin {"asked", "sent"},
         granting'.op = granting.op \/ granting'.op \in {"policy", "rules"},
         granting'.looked => granting'.pc = "replied"
  PROVE  R!Inv'
  BY DEF R!Inv

LEMMA RightsSay ==
  ASSUME R!Inv, NEW what, R!Says(what), UNCHANGED about, rights' = [p \in RightPerson |-> rights'[p]],
         rules' \in Seq(R!RuleSet)
  PROVE  R!Inv'
<1>1. /\ DOMAIN granting' = DOMAIN R!Idle /\ granting'.pc = "replied" /\ granting'.op = granting.op
  BY DEF R!Says, R!Sets, R!Inv, R!Idle
<1> QED BY <1>1, RightsRest

LEMMA RightsBegin ==
  ASSUME R!Inv, NEW theme, NEW r, R!Begins(theme, r), DOMAIN r = DOMAIN R!Idle, r.looked = FALSE,
         r.op \in {"promote", "edit", "demote", "ban", "unban", "policy", "rules"},
         r.op \in {"promote", "edit", "demote", "ban", "unban"} => theme = "admins",
         r.who \subseteq RightPerson,
         r.op \in {"promote", "edit", "demote"} => r.sends \subseteq r.yes \cup R!Generous,
         r.op = "edit" => r.yes \subseteq r.sends,
         r.op = "demote" => r.sends = {},
         r.op = "policy" => /\ r.yes \cap r.no = {} /\ r.yes \cup r.no \subseteq RightPerson /\ r.base \in R!Base
                            /\ r.rules = R!InOrder(r.yes, r.no, r.base),
         r.op = "rules" => /\ r.yes \subseteq RightPerson /\ r.seen \in Seq(R!RuleSet)
                           /\ r.rules = R!Exception("allow", r.yes) \o r.seen
  PROVE  R!Inv'
<1> DEFINE s == [r EXCEPT !.pc = "asked"]
<1>1. granting' = s /\ UNCHANGED <<about, rights, rules>> /\ about = theme
  BY DEF R!Begins, R!Sets, R!World, R!AtTelegram
<1>2. /\ DOMAIN s = DOMAIN R!Idle /\ s.pc = "asked" /\ s.op = r.op /\ s.who = r.who /\ s.yes = r.yes /\ s.no = r.no
      /\ s.base = r.base /\ s.seen = r.seen /\ s.rules = r.rules /\ s.sends = r.sends /\ s.looked = r.looked
  BY DEF R!Idle
<1> HIDE DEF s
<1>3. R!SendsWhatIsNamed'
  BY <1>1, <1>2 DEF R!SendsWhatIsNamed, R!InOrder, R!ExceptionsFirst, R!Exception, R!Rule, R!Generous, R!RuleSet
<1>4. R!Idle' = R!Idle
  BY DEF R!Idle
<1> QED BY <1>1, <1>2, <1>3, <1>4 DEF R!Inv

LEMMA RightsStep == ASSUME R!Inv, [R!Next]_R!rightsVars PROVE R!Inv'
<1>0. /\ DOMAIN granting = DOMAIN R!Idle /\ rules \in Seq(R!RuleSet) /\ rights = [p \in RightPerson |-> rights[p]]
      /\ DOMAIN R!Idle = {"op", "pc", "who", "yes", "no", "base", "seen", "rules", "sends", "declined", "looked", "says"}
      /\ RightParameter \subseteq AdminRight
  BY RecordsAssumption DEF RecordsAssumption, R!RightsAssumption, R!Inv, R!Idle
<1>1. CASE R!AppliesRights
  <2>1. rights' = [p \in RightPerson |-> rights'[p]] /\ UNCHANGED <<about, rules>>
    BY <1>1 DEF R!AppliesRights, R!World
  <2>2. CASE granting.op = "edit"
    <3>1. granting' = [granting EXCEPT !.pc = "sent"] /\ granting.pc = "asked"
      BY <1>1, <2>2 DEF R!AppliesRights, R!Sets
    <3>2. /\ DOMAIN granting' = DOMAIN R!Idle /\ granting'.pc = "sent" /\ granting'.op = "edit"
          /\ granting'.who = granting.who /\ granting'.yes = granting.yes /\ granting'.sends = granting.sends
          /\ granting'.looked = granting.looked
      BY <1>0, <2>2, <3>1
    <3>3. R!SendsWhatIsNamed'
      BY <2>2, <3>1, <3>2 DEF R!Inv, R!SendsWhatIsNamed, R!Generous
    <3> QED BY <2>1, <2>2, <3>1, <3>2, <3>3 DEF R!Inv
  <2>3. CASE granting.op # "edit"
    BY <1>0, <1>1, <2>1, <2>3, RightsSay DEF R!AppliesRights
  <2> QED BY <2>2, <2>3
<1>2. CASE R!AppliesBan
  <2>1. rights' = [p \in RightPerson |-> rights'[p]] /\ UNCHANGED <<about, rules>> /\ R!Says("granted")
    BY <1>2 DEF R!AppliesBan, R!World
  <2> QED BY <1>0, <2>1, RightsSay
<1>3. CASE R!LooksAgain
  <2> DEFINE declined == {r \in granting.sends : \E p \in granting.who : R!HeldNow(p) # {} /\ r \notin R!Actual(p)}
  <2>1. /\ granting' = [granting EXCEPT !.pc = "replied", !.says = "granted", !.looked = TRUE, !.declined = declined]
        /\ UNCHANGED <<about, rights, rules>>
    BY <1>3 DEF R!LooksAgain, R!World, R!AtTelegram, R!Sets
  <2> HIDE DEF declined
  <2>2. DOMAIN granting' = DOMAIN R!Idle /\ granting'.pc = "replied" /\ granting'.op = granting.op
    BY <1>0, <2>1
  <2> QED BY <1>0, <2>1, <2>2, RightsRest
<1>4. CASE R!LookFails \/ R!RequestFails \/ R!Unresolved
  <2>1. (\E what : R!Says(what)) /\ UNCHANGED <<about, rights, rules>>
    BY <1>4 DEF R!LookFails, R!RequestFails, R!Unresolved, R!World, R!AtTelegram
  <2> QED BY <1>0, <2>1, RightsSay
<1>5. CASE R!Replaces
  <2>1. R!Says("replaced") /\ rules' = granting.rules /\ UNCHANGED <<about, rights>> /\ granting.pc = "asked"
        /\ about = "privacy"
    BY <1>5 DEF R!Replaces, R!World
  <2>2. R!SendsWhatIsNamed /\ granting.op \in {"policy", "rules"}
    BY <2>1 DEF R!Inv, R!SendsWhatIsNamed
  <2>3. CASE granting.op = "policy"
    <3>1. /\ granting.rules = R!InOrder(granting.yes, granting.no, granting.base) /\ granting.base \in R!Base
          /\ granting.yes \cap granting.no = {} /\ granting.yes \in SUBSET RightPerson
          /\ granting.no \in SUBSET RightPerson
      BY <2>2, <2>3 DEF R!SendsWhatIsNamed
    <3>2. granting.rules \in Seq(R!RuleSet)
      <4>1. \A allow, disallow \in SUBSET RightPerson, base \in R!Base :
              allow \cap disallow = {} => R!InOrder(allow, disallow, base) \in Seq(R!RuleSet)
        BY PolicyDecides
      <4> QED BY <3>1, <4>1
    <3> QED BY <1>0, <2>1, <3>2, RightsSay
  <2>4. CASE granting.op = "rules"
    <3>1. /\ granting.rules = R!Exception("allow", granting.yes) \o granting.seen
          /\ granting.yes \in SUBSET RightPerson /\ granting.seen \in Seq(R!RuleSet)
      BY <2>2, <2>4 DEF R!SendsWhatIsNamed
    <3>2. granting.rules \in Seq(R!RuleSet)
      BY <1>0, <3>1, ExceptionDecides
    <3> QED BY <1>0, <2>1, <3>2, RightsSay
  <2> QED BY <2>2, <2>3, <2>4
<1>6. ASSUME NEW p \in RightPerson, NEW yes \in SUBSET AdminRight, NEW no \in SUBSET AdminRight, R!PromoteAdmin(p, yes, no)
      PROVE  R!Inv'
  <2> DEFINE r == [R!Idle EXCEPT !.op = "promote", !.who = {p}, !.yes = yes, !.no = no,
                                 !.sends = R!Built(yes, no, R!Defaults)]
  <2>1. /\ DOMAIN r = DOMAIN R!Idle /\ r.looked = FALSE /\ r.op = "promote" /\ r.who = {p} /\ r.yes = yes
        /\ r.sends = R!Built(yes, no, R!Defaults)
    BY DEF R!Idle
  <2>2. R!Begins("admins", r)
    BY <1>6 DEF R!PromoteAdmin
  <2> HIDE DEF r
  <2> QED BY <2>1, <2>2, RightsBegin DEF R!Built, R!Defaults
<1>7. ASSUME NEW p \in RightPerson, NEW yes \in SUBSET RightParameter, R!EditAdminRights(p, yes) PROVE R!Inv'
  <2> DEFINE r == [R!Idle EXCEPT !.op = "edit", !.who = {p}, !.yes = yes, !.no = RightParameter \ yes,
                                 !.sends = R!Built(yes, RightParameter \ yes, R!Defaults)]
  <2>1. /\ DOMAIN r = DOMAIN R!Idle /\ r.looked = FALSE /\ r.op = "edit" /\ r.who = {p} /\ r.yes = yes
        /\ r.sends = R!Built(yes, RightParameter \ yes, R!Defaults)
    BY DEF R!Idle
  <2>2. R!Begins("admins", r)
    BY <1>7 DEF R!EditAdminRights
  <2> HIDE DEF r
  <2> QED BY <2>1, <2>2, RightsBegin DEF R!Built, R!Defaults
<1>8. ASSUME NEW p \in RightPerson, R!DemoteAdmin(p) \/ R!BanUser(p) \/ R!UnbanUser(p) PROVE R!Inv'
  <2> DEFINE r == [R!Idle EXCEPT !.op = "demote", !.who = {p}, !.sends = R!Built({}, {}, R!Nothing)]
             s(op) == [R!Idle EXCEPT !.op = op, !.who = {p}]
  <2>1. DOMAIN r = DOMAIN R!Idle /\ r.looked = FALSE /\ r.op = "demote" /\ r.who = {p} /\ r.sends = {}
    BY DEF R!Idle, R!Built, R!Nothing, R!NoDefault
  <2>2. \A op \in {"ban", "unban"} : /\ DOMAIN s(op) = DOMAIN R!Idle /\ s(op).looked = FALSE
                                     /\ s(op).op \in {"ban", "unban"} /\ s(op).who = {p}
    BY DEF R!Idle
  <2>3. R!Begins("admins", r) \/ \E op \in {"ban", "unban"} : R!Begins("admins", s(op))
    BY <1>8 DEF R!DemoteAdmin, R!BanUser, R!UnbanUser
  <2> HIDE DEF r, s
  <2>4. CASE R!Begins("admins", r)
    BY <2>1, <2>4, RightsBegin
  <2>5. ASSUME NEW op \in {"ban", "unban"}, R!Begins("admins", s(op)) PROVE R!Inv'
    BY <2>2, <2>5, RightsBegin
  <2> QED BY <2>3, <2>4, <2>5
<1>9. ASSUME NEW p \in RightPerson, NEW held, R!OtherEdits(p, held) PROVE R!Inv'
  <2>1. rights' = [rights EXCEPT ![p] = held] /\ UNCHANGED <<about, rules, granting>>
    BY <1>9 DEF R!OtherEdits, R!World
  <2>2. rights' = [q \in RightPerson |-> rights'[q]]
    BY <1>0, <2>1
  <2> QED BY <2>1, <2>2 DEF R!Inv, R!SendsWhatIsNamed, R!RuleSet, R!InOrder, R!ExceptionsFirst, R!Exception, R!Rule, R!Generous
<1>10. ASSUME NEW allow \in SUBSET RightPerson, NEW disallow \in SUBSET RightPerson, NEW base \in R!Base,
              R!SetPrivacy(allow, disallow, base)
       PROVE  R!Inv'
  <2> DEFINE no == [R!Idle EXCEPT !.op = "policy", !.pc = "replied", !.says = "refused"]
             r == [R!Idle EXCEPT !.op = "policy", !.yes = allow, !.no = disallow, !.base = base,
                                 !.rules = R!InOrder(allow, disallow, base)]
  <2>1. CASE allow \cap disallow # {}
    <3>1. granting' = no /\ UNCHANGED <<about, rights, rules>>
      BY <1>10, <2>1 DEF R!SetPrivacy, R!World, R!AtTelegram, R!Sets
    <3>2. DOMAIN no = DOMAIN R!Idle /\ no.pc = "replied" /\ no.op = "policy"
      BY DEF R!Idle
    <3> HIDE DEF no
    <3> QED BY <1>0, <3>1, <3>2, RightsRest
  <2>2. CASE allow \cap disallow = {}
    <3>1. R!Begins("privacy", r)
      BY <1>10, <2>2 DEF R!SetPrivacy
    <3>2. /\ DOMAIN r = DOMAIN R!Idle /\ r.looked = FALSE /\ r.op = "policy" /\ r.who = {} /\ r.yes = allow
          /\ r.no = disallow /\ r.base = base /\ r.rules = R!InOrder(allow, disallow, base)
      BY DEF R!Idle
    <3> HIDE DEF r
    <3> QED BY <2>2, <3>1, <3>2, RightsBegin
  <2> QED BY <2>1, <2>2
<1>11. ASSUME NEW extra \in SUBSET RightPerson, R!SetRules(extra) PROVE R!Inv'
  <2> DEFINE r == [R!Idle EXCEPT !.op = "rules", !.yes = extra, !.seen = rules,
                                 !.rules = R!Exception("allow", extra) \o rules]
  <2>1. R!Begins("privacy", r)
    BY <1>11 DEF R!SetRules, R!Described, R!EveryKind, R!Exception
  <2>2. /\ DOMAIN r = DOMAIN R!Idle /\ r.looked = FALSE /\ r.op = "rules" /\ r.who = {} /\ r.yes = extra
        /\ r.seen = rules /\ r.rules = R!Exception("allow", extra) \o rules
    BY DEF R!Idle
  <2> HIDE DEF r
  <2> QED BY <1>0, <2>1, <2>2, RightsBegin
<1>12. ASSUME NEW base \in R!Base, R!OtherDevice(base) PROVE R!Inv'
  <2>1. UNCHANGED <<about, rights, granting>> /\ about = "privacy"
        /\ rules' = Append(rules, R!Rule(base, {}))
    BY <1>12 DEF R!OtherDevice, R!World
  <2>2. R!Rule(base, {}) \in R!RuleSet
    BY DEF R!Rule, R!RuleSet, R!Kinds
  <2>3. rules' \in Seq(R!RuleSet)
    BY <1>0, <2>1, <2>2
  <2>4. R!SendsWhatIsNamed => R!SendsWhatIsNamed'
    BY <2>1 DEF R!SendsWhatIsNamed, R!InOrder, R!ExceptionsFirst, R!Exception, R!Rule, R!Generous, R!RuleSet
  <2> QED BY <1>0, <2>1, <2>3, <2>4 DEF R!Inv
<1>13. CASE UNCHANGED R!rightsVars
  BY <1>13 DEF R!rightsVars, R!Inv, R!SendsWhatIsNamed, R!RuleSet, R!InOrder, R!ExceptionsFirst, R!Exception, R!Rule, R!Generous
<1> QED BY <1>1, <1>2, <1>3, <1>4, <1>5, <1>6, <1>7, <1>8, <1>9, <1>10, <1>11, <1>12, <1>13 DEF R!Next

(* What a call that is answered has done.                                  *)
LEMMA RightsAnswer ==
  ASSUME R!Inv, [R!Next]_R!rightsVars, NEW op, R!Answered(op)
  PROVE  \/ op = "edit" /\ (R!LooksAgain \/ R!LookFails)
         \/ op \in {"promote", "demote"} /\ R!AppliesRights
         \/ op \in {"ban", "unban"} /\ R!AppliesBan
         \/ op \notin {"promote", "edit", "demote", "ban", "unban"} /\ R!Replaces
<1>0. DOMAIN granting = DOMAIN R!Idle /\ DOMAIN R!Idle = {"op", "pc", "who", "yes", "no", "base", "seen", "rules", "sends",
        "declined", "looked", "says"}
  BY DEF R!Inv, R!Idle
<1>1. granting.op = op /\ granting.pc # "replied" /\ granting'.pc = "replied" /\ granting'.says \notin {"failed", "refused"}
  BY DEF R!Answered
<1>2. ~R!RequestFails /\ ~R!Unresolved
  BY <1>0, <1>1 DEF R!RequestFails, R!Unresolved, R!Says, R!Sets
<1>3. ASSUME NEW theme, NEW r, R!Begins(theme, r), "pc" \in DOMAIN r PROVE FALSE
  BY <1>1, <1>3 DEF R!Begins, R!Sets
<1>4. ASSUME NEW p, NEW yes, NEW no, R!PromoteAdmin(p, yes, no) \/ R!EditAdminRights(p, yes) \/ R!DemoteAdmin(p)
                                     \/ R!BanUser(p) \/ R!UnbanUser(p)
      PROVE  FALSE
  BY <1>0, <1>3, <1>4 DEF R!PromoteAdmin, R!EditAdminRights, R!DemoteAdmin, R!BanUser, R!UnbanUser
<1>5. ASSUME NEW allow, NEW disallow, NEW base, R!SetPrivacy(allow, disallow, base) PROVE FALSE
  <2>1. granting'.says = "refused" \/ \E r : DOMAIN r = DOMAIN R!Idle /\ R!Begins("privacy", r)
    BY <1>0, <1>5 DEF R!SetPrivacy, R!Sets
  <2> QED BY <1>0, <1>1, <1>3, <2>1
<1>6. ASSUME NEW extra, R!SetRules(extra) PROVE FALSE
  BY <1>0, <1>3, <1>6 DEF R!SetRules
<1>7. ASSUME UNCHANGED granting PROVE FALSE
  BY <1>1, <1>7
<1>8. R!AppliesRights \/ R!AppliesBan \/ R!LooksAgain \/ R!LookFails \/ R!Replaces
  BY <1>2, <1>4, <1>5, <1>6, <1>7 DEF R!Next, R!OtherEdits, R!OtherDevice, R!rightsVars
<1>9. R!AppliesRights => granting.op # "edit"
  BY <1>0, <1>1 DEF R!AppliesRights, R!Sets
<1>10. R!LooksAgain \/ R!LookFails => granting.op = "edit"
  BY DEF R!LooksAgain, R!LookFails, R!Inv
<1>11. R!Replaces => granting.op \notin {"promote", "edit", "demote", "ban", "unban"}
  BY DEF R!Replaces, R!Inv
<1> QED BY <1>1, <1>8, <1>9, <1>10, <1>11 DEF R!AppliesRights, R!AppliesBan

LEMMA EditIsGranted ==
  ASSUME R!Inv, [R!Next]_R!rightsVars, R!Answered("edit"), granting'.looked
  PROVE  \A p \in granting.who : rights[p] = {} \/ granting.yes \subseteq rights[p] \cup granting'.declined
<1>0. DOMAIN granting = DOMAIN R!Idle /\ DOMAIN R!Idle = {"op", "pc", "who", "yes", "no", "base", "seen", "rules", "sends",
        "declined", "looked", "says"}
  BY DEF R!Inv, R!Idle
<1>1. R!LooksAgain \/ R!LookFails
  BY RightsAnswer
<1>2. CASE R!LookFails
  <2>1. granting' = [granting EXCEPT !.pc = "replied", !.says = "granted"] /\ granting.pc = "sent"
    BY <1>2 DEF R!LookFails, R!Says, R!Sets
  <2> QED BY <1>0, <2>1 DEF R!Inv
<1>3. CASE R!LooksAgain
  <2>1. granting.op = "edit" /\ granting.pc = "sent"
    BY <1>3 DEF R!LooksAgain, R!Inv
  <2>2. granting.yes \subseteq granting.sends
    BY <2>1 DEF R!Inv, R!SendsWhatIsNamed
  <2> DEFINE declined == {r \in granting.sends : \E p \in granting.who : R!HeldNow(p) # {} /\ r \notin R!Actual(p)}
  <2>3. granting' = [granting EXCEPT !.pc = "replied", !.says = "granted", !.looked = TRUE, !.declined = declined]
    BY <1>3 DEF R!LooksAgain, R!Sets
  <2>4. granting'.declined = declined
    BY <1>0, <2>3
  <2> QED BY <2>2, <2>4 DEF R!HeldNow, R!Actual
<1> QED BY <1>1, <1>2, <1>3

LEMMA WithheldIsNamed ==
  ASSUME R!Inv, [R!Next]_R!rightsVars
  PROVE  /\ \A p \in RightPerson : rightsEdits' = rightsEdits =>
              (rights'[p] \ rights[p]) \cap WithheldRight \subseteq granting.yes
         /\ R!Answered("demote") => \A p \in granting.who : rights'[p] = {}
<1>1. CASE R!AppliesRights
  <2>1. /\ rights' = [p \in RightPerson |-> IF p \in granting.who THEN granting.sends \cap means \cap own ELSE rights[p]]
        /\ granting.pc = "asked" /\ granting.op \in {"promote", "edit", "demote"}
    BY <1>1 DEF R!AppliesRights
  <2>2. /\ granting.sends \subseteq granting.yes \cup R!Generous /\ granting.who \subseteq RightPerson
        /\ granting.op = "demote" => granting.sends = {}
    BY <2>1 DEF R!Inv, R!SendsWhatIsNamed
  <2> QED BY <2>1, <2>2 DEF R!Generous, R!Answered
<1>2. CASE R!AppliesBan
  <2>1. /\ rights' = [p \in RightPerson |-> IF granting.op = "ban" /\ p \in granting.who THEN {} ELSE rights[p]]
        /\ granting.op # "demote"
    BY <1>2 DEF R!AppliesBan
  <2> QED BY <2>1 DEF R!Answered
<1>3. ASSUME NEW p, NEW held, R!OtherEdits(p, held) PROVE rightsEdits' # rightsEdits /\ UNCHANGED granting
  BY <1>3, RecordsAssumption DEF RecordsAssumption, R!OtherEdits
<1>4. CASE ~R!AppliesRights /\ ~R!AppliesBan
  <2>1. ~R!Answered("demote")
    BY <1>4, RightsAnswer
  <2>2. UNCHANGED rights \/ rightsEdits' # rightsEdits
    BY <1>3, <1>4 DEF R!Next, R!rightsVars, R!LooksAgain, R!LookFails, R!RequestFails, R!Unresolved, R!Replaces,
       R!PromoteAdmin, R!EditAdminRights, R!DemoteAdmin, R!BanUser, R!UnbanUser, R!SetPrivacy, R!SetRules,
       R!OtherDevice, R!Begins, R!AtTelegram
  <2> QED BY <2>1, <2>2
<1> QED BY <1>1, <1>2, <1>4

LEMMA ExceptionsAreHeld ==
  ASSUME R!Inv, [R!Next]_R!rightsVars, NEW p \in RightPerson
  PROVE  /\ R!Answered("policy") =>
              (R!Allowed(rules', p) <=> p \in granting.yes \/ (p \notin granting.no /\ granting.base = "everyone"))
         /\ R!Answered("rules") => (R!Allowed(rules', p) <=> p \in granting.yes \/ R!Allowed(granting.seen, p))
<1>1. ASSUME NEW op \in {"policy", "rules"}, R!Answered(op)
      PROVE  rules' = granting.rules /\ granting.op = op /\ R!SendsWhatIsNamed
  BY <1>1, RightsAnswer DEF R!Answered, R!Replaces, R!Inv
<1>2. ASSUME R!Answered("policy")
      PROVE  R!Allowed(rules', p) <=> p \in granting.yes \/ (p \notin granting.no /\ granting.base = "everyone")
  <2>1. /\ rules' = R!InOrder(granting.yes, granting.no, granting.base) /\ granting.base \in R!Base
        /\ granting.yes \cap granting.no = {} /\ granting.yes \in SUBSET RightPerson /\ granting.no \in SUBSET RightPerson
    BY <1>1, <1>2 DEF R!SendsWhatIsNamed
  <2> QED BY <2>1, PolicyDecides
<1>3. ASSUME R!Answered("rules") PROVE R!Allowed(rules', p) <=> p \in granting.yes \/ R!Allowed(granting.seen, p)
  <2>1. /\ rules' = R!Exception("allow", granting.yes) \o granting.seen /\ granting.yes \in SUBSET RightPerson
        /\ granting.seen \in Seq(R!RuleSet)
    BY <1>1, <1>3 DEF R!SendsWhatIsNamed
  <2> QED BY <2>1, ExceptionDecides
<1> QED BY <1>2, <1>3
================================================================================

-------------------------------- MODULE Polls -------------------------------
(***************************************************************************)
(* Polls of one account, telegram_mcp/tools/polls.py and create_poll() of  *)
(* tools/messages_state.py: a poll is sent with a deadline Telegram        *)
(* (external) measures when the request lands, read back, voted in, and    *)
(* closed by sending all of it again.                                      *)
(*                                                                         *)
(* Abstractions.  The first poll that exists.  An option is the blob that  *)
(* names it on the wire; its index is its place in the copy a call has     *)
(* read.  A minimal copy of the results is one without what this account   *)
(* chose.                                                                  *)
(***************************************************************************)
EXTENDS FiniteSets, Sequences, SequencesExt, Integers

CONSTANTS
  Caller,
  Option,
  Ceiling,  \* poll_answers_max, as Telegram publishes it
  Fallback, \* _POLL_ANSWERS_MAX_FALLBACK
  Floor,    \* _POLL_CLOSE_MIN_SECONDS
  Margin,   \* _POLL_CLOSE_SEND_MARGIN_SECONDS
  Lag,      \* how long a request may be on its way
  MaxTime,
  MaxVotes  \* votes cast

PollsAssumption ==
  /\ {Ceiling, Fallback, Floor, Margin, Lag, MaxTime, MaxVotes} \subseteq Nat
  /\ IsFiniteSet(Option)

VARIABLES
  poll,    \* as Telegram has it
  votes,   \* the options this account has voted for
  call,    \* of each caller
  ceiling, \* _poll_answers_max_cache: the cached ceiling, 0 before a lookup
  cast,    \* votes cast
  clock

pollsVars == <<poll, votes, call, ceiling, cast, clock>>

NoPoll == [exists |-> FALSE, options |-> <<>>, multiple |-> FALSE, quiz |-> FALSE, closed |-> FALSE]
Idle == [op |-> "none", pc |-> "idle", options |-> <<>>, close |-> 0, left |-> 0, wanted |-> {},
         copy |-> NoPoll, chosen |-> {}, min |-> FALSE, graded |-> FALSE,
         edited |-> FALSE, says |-> "nothing", told |-> {}]

Lists == {SubSeq(SetToSeq(Option), 1, n) : n \in 1..Cardinality(Option)}
Indexes == 1..Cardinality(Option)

TypeOK ==
  /\ poll.options \in Seq(Option) /\ {poll.exists, poll.multiple, poll.quiz, poll.closed} \subseteq BOOLEAN
  /\ votes \subseteq Option /\ ceiling \in Nat /\ cast \in 0..MaxVotes /\ clock \in 0..MaxTime
  /\ \A c \in Caller :
       /\ call[c].op \in {"none", "create", "read", "vote", "close"}
       /\ call[c].pc \in {"idle", "configuring", "resolving", "sending", "reading", "refetching",
                          "requesting", "replied"}
       /\ call[c].wanted \subseteq Indexes /\ call[c].chosen \subseteq Option

Init ==
  /\ \/ poll = NoPoll
     \/ \E quiz, multiple \in BOOLEAN, options \in Lists :
          /\ ~(quiz /\ multiple)
          /\ poll = [NoPoll EXCEPT !.exists = TRUE, !.options = options, !.quiz = quiz, !.multiple = multiple]
  /\ votes = {} /\ ceiling = 0 /\ cast = 0 /\ clock = 0
  /\ call = [c \in Caller |-> Idle]

----------------------------------------------------------------------------
(* Definitions whose name says what they get wrong are defects the checks  *)
(* must notice; no action uses them.                                       *)

(* What is left of a call that has replied.                                *)
Replied(call_, what) ==
  [Idle EXCEPT !.op = call_.op, !.pc = "replied", !.says = what, !.told = call_.told, !.min = call_.min,
               !.graded = call_.graded]
Says(c, what) == call' = [call EXCEPT ![c] = Replied(@, what)]
Only(what) == UNCHANGED <<poll, votes, ceiling, cast, clock>> /\ what

(* _poll_answers_max(): looked up once; a failure is remembered as well.   *)
Create(c, options, close) ==
  /\ call[c].pc = "idle" /\ ~poll.exists /\ close > 0
  /\ Only(call' = [call EXCEPT ![c] = [Idle EXCEPT !.op = "create", !.pc = "configuring",
                                                   !.options = options, !.close = close]])

(* _close_date_problem()                                                   *)
InTheFuture(close) == close > clock
CanBeSent(close) == close - clock >= Floor + Margin

Configured(c, found) ==
  /\ call[c].pc = "configuring"
  /\ ceiling' = IF ceiling # 0 THEN ceiling ELSE found
  /\ IF Len(call[c].options) > ceiling' \/ ~CanBeSent(call[c].close)
     THEN Says(c, "refused")
     ELSE call' = [call EXCEPT ![c].pc = "resolving"]
  /\ UNCHANGED <<poll, votes, cast, clock>>

(* The date is checked again when the chat has been resolved.              *)
StillCanBeSent(close) == CanBeSent(close)

Resolved(c) ==
  /\ call[c].pc = "resolving"
  /\ Only(IF StillCanBeSent(call[c].close)
          THEN call' = [call EXCEPT ![c].pc = "sending", ![c].left = clock]
          ELSE Says(c, "refused"))

(* Telegram measures the deadline when the request lands.                  *)
Lands(c) ==
  /\ call[c].pc = "sending"
  /\ IF call[c].close - clock >= Floor
     THEN /\ Says(c, "done")
          /\ poll' = IF poll.exists THEN poll
                     ELSE [NoPoll EXCEPT !.exists = TRUE, !.options = call[c].options]
     ELSE Says(c, "bounced") /\ UNCHANGED poll
  /\ UNCHANGED <<votes, ceiling, cast, clock>>

Start(c, op, wanted) ==
  /\ call[c].pc = "idle" /\ poll.exists /\ op \in {"read", "vote", "close"}
  /\ op # "vote" => wanted = {}
  /\ Only(call' = [call EXCEPT ![c] = [Idle EXCEPT !.op = op, !.pc = "reading", !.wanted = wanted]])

(* What a copy of the results shows of this account's votes.               *)
Shown(min) == IF min THEN {} ELSE votes

(* What a call does with the copy it has read: a reply, or its request.    *)
TakenAsRead(c, copy, min) ==
  LET unknown == \E i \in call[c].wanted : i > Len(copy.options)
      tooMany == Cardinality(call[c].wanted) > 1 /\ ~copy.multiple
      refused == copy.closed \/ (call[c].op = "vote" /\ (unknown \/ tooMany))
      read == [call[c] EXCEPT !.copy = copy, !.chosen = Shown(min), !.told = Shown(min), !.min = min,
                              !.graded = copy.quiz /\ Shown(min) # {}]
  IN IF call[c].op = "read" THEN Replied(read, "done")
     ELSE IF refused THEN Replied(read, "refused")
     ELSE [read EXCEPT !.pc = "requesting"]

(* _read_poll(): a minimal copy of the results is asked for again.  An     *)
(* answer that carries no results leaves the call with the copy it had.    *)
TakesTheMinimalForm(min) == FALSE
Asks(min) == min

ReadPoll(c, min) ==
  /\ call[c].pc = "reading"
  /\ Only(call' = [call EXCEPT ![c] =
       IF Asks(min) THEN [@ EXCEPT !.pc = "refetching", !.copy = poll]
       ELSE TakenAsRead(c, poll, min)])

Refetched(c, min) ==
  /\ call[c].pc = "refetching"
  /\ Only(call' = [call EXCEPT ![c] = TakenAsRead(c, @.copy, min)])

(* vote_in_poll(): the listed indexes, as blobs of the copy.  The reply is *)
(* read from the results the answer carries, if it carries any.            *)
Blobs(c) == {call[c].copy.options[i] : i \in call[c].wanted}
FreshResults(c, lacks) == IF lacks THEN call[c].chosen ELSE Blobs(c)

Vote(c, lacks) ==
  /\ call[c].pc = "requesting" /\ call[c].op = "vote" /\ cast < MaxVotes
  /\ IF poll.closed \/ ~(Blobs(c) \subseteq ToSet(poll.options))
     THEN Says(c, "failed") /\ UNCHANGED <<votes, cast>>
     ELSE /\ votes' = Blobs(c) /\ cast' = cast + 1
          /\ call' = [call EXCEPT ![c] = Replied([@ EXCEPT !.told = FreshResults(c, lacks)], "done")]
  /\ UNCHANGED <<poll, ceiling, clock>>

(* close_poll(): the poll is replaced by the copy, closed.  A quiz carries *)
(* its answers: those this account may see, as the blobs they are read as, *)
(* which the library cannot put on the wire where it takes indexes.        *)
DropsTheKind(copy) == [copy EXCEPT !.multiple = FALSE]
Carried(copy) == copy
Replacement(c) == [Carried(call[c].copy) EXCEPT !.closed = TRUE]

Serialises(c) == ~call[c].graded
Accepts(c) == ~call[c].copy.quiz

Close(c) ==
  /\ call[c].pc = "requesting" /\ call[c].op = "close"
  /\ IF Serialises(c) /\ Accepts(c)
     THEN Says(c, "done") /\ poll' = Replacement(c)
     ELSE Says(c, "failed") /\ UNCHANGED poll
  /\ UNCHANGED <<votes, ceiling, cast, clock>>

Repeat(c) == call[c].pc = "replied" /\ Only(call' = [call EXCEPT ![c] = Idle])

(* Its author changes the options of an open poll: a call that closes it   *)
(* has read the poll as it was before.                                     *)
Edit(options) ==
  /\ poll.exists /\ ~poll.closed /\ options # poll.options
  /\ poll' = [poll EXCEPT !.options = options]
  /\ votes' = {}
  /\ call' = [c \in Caller |->
       [call[c] EXCEPT !.edited = @ \/ (call[c].op = "close" /\ call[c].pc \in {"refetching", "requesting"})]]
  /\ UNCHANGED <<ceiling, cast, clock>>

Tick ==
  /\ clock < MaxTime /\ \E c \in Caller : call[c].pc \in {"configuring", "resolving", "sending"}
  /\ \A c \in Caller : call[c].pc = "sending" => clock - call[c].left < Lag
  /\ clock' = clock + 1
  /\ UNCHANGED <<poll, votes, call, ceiling, cast>>

Next ==
  \/ \E c \in Caller :
       \/ \E options \in Lists, close \in 1..MaxTime + 1 : Create(c, options, close)
       \/ Configured(c, Ceiling) \/ Configured(c, Fallback) \/ Resolved(c) \/ Lands(c)
       \/ \E op \in {"read", "vote", "close"}, wanted \in SUBSET Indexes : Start(c, op, wanted)
       \/ \E min \in BOOLEAN : ReadPoll(c, min) \/ Refetched(c, min)
       \/ Close(c) \/ Repeat(c)
       \/ \E lacks \in BOOLEAN : Vote(c, lacks)
  \/ \E options \in SetToSeqs(Option) : Edit(options)
  \/ Tick

Spec == Init /\ [][Next]_pollsVars

----------------------------------------------------------------------------
(* A deadline this server lets through is one Telegram still accepts when  *)
(* the request lands, whatever the chat took to be resolved.               *)
DeadlinesAreAccepted == \A c \in Caller : call[c].says # "bounced"

(* A reading tells what this account has chosen by then, whoever else      *)
(* votes meanwhile; it takes stripped results for no vote only when it     *)
(* asked for them again and got no others.                                 *)
ReadingIsOfTheVotes ==
  \A c \in Caller : call'[c].says = "done" /\ call[c].says # "done" /\ call[c].op = "read" =>
    call'[c].told = votes \/ (call'[c].min /\ call[c].pc = "refetching")
ReadingTellsTheVotes == [][ReadingIsOfTheVotes]_pollsVars

(* "which is what forces the full one" (polls.py:119-124).  It does not    *)
(* hold: _fresh_results() falls back to the copy it was to replace.        *)
ReadingsAreFull == \A c \in Caller : call[c].op = "read" /\ call[c].says = "done" => ~call[c].min

(* Closing a poll closes it and changes nothing else of it, but what its   *)
(* author changed since it was read.                                       *)
OnlyCloses ==
  poll'.closed /\ ~poll.closed =>
    \/ poll' = [poll EXCEPT !.closed = TRUE]
    \/ \E c \in Caller : call[c].edited /\ call'[c] # call[c]
ClosingKeepsThePoll == [][OnlyCloses]_pollsVars

(* An open quiz whose answers this account may see can be closed.          *)
QuizzesCanBeClosed ==
  \A c \in Caller : call[c].op = "close" /\ call[c].graded => call[c].says # "failed"

(* Why, as an inductive invariant: what a call that closes has read is the *)
(* poll as it stands, until somebody else has closed or edited it.         *)
CopyIsOfThePoll(c) ==
  /\ DOMAIN call[c] = DOMAIN Idle /\ DOMAIN call[c].copy = DOMAIN NoPoll
  /\ call[c].op \in {"read", "vote", "close"} => poll.exists
  /\ call[c].op = "close" /\ call[c].pc \in {"refetching", "requesting"} =>
       (poll.closed \/ call[c].edited \/ call[c].copy = poll) /\ call[c].copy.exists
Inv ==
  /\ DOMAIN poll = DOMAIN NoPoll /\ call = [c \in Caller |-> call[c]]
  /\ \A c \in Caller : CopyIsOfThePoll(c)

(* And a request on its way left in time, with the margin for its way.     *)
LeftInTime(c) ==
  LET left == call[c].left IN
    left \in 0..clock /\ clock - left <= Lag /\ call[c].close - left >= Floor + Margin
IsInTime(c) ==
  /\ call[c].says # "bounced"
  /\ call[c].pc \in {"configuring", "resolving", "sending"} => call[c].op = "create" /\ call[c].close \in Nat
  /\ call[c].pc = "sending" => LeftInTime(c)
InTime == clock \in Nat /\ \A c \in Caller : IsInTime(c)
=============================================================================

------------------------------ MODULE EventFeed ------------------------------
(***************************************************************************)
(* Incoming messages: telegram_mcp/tools/events.py over the pending map of *)
(* tools/events_store.py.  Telethon calls a handler per message, which     *)
(* suspends in get_sender(); what it records is a burst per account and    *)
(* chat, taken by whoever scans first, a waiting tool call or the feed.    *)
(*                                                                         *)
(* One action is one run of the event loop between two awaits.             *)
(*                                                                         *)
(* Abstractions.  A message id is the message.  time.monotonic() is the    *)
(* number of messages recorded so far, which orders bursts by activity;    *)
(* how long a burst has been quiet is its age: fresh, quiet for the settle *)
(* period, or stale, past the time to live (longer than any settle         *)
(* period).  A wait has no clock: its deadline may pass at any moment.     *)
(* Accounts come and go as refresh_accounts() would have it.               *)
(***************************************************************************)
EXTENDS Naturals, FiniteSets

CONSTANTS
  Label,      \* account labels
  Client,     \* Telethon clients
  LabelOf,    \* [Client -> Label]
  Chat,       \* marked chat ids: the same id is another chat on another account
  BotChat,    \* SUBSET Chat: private chats with a bot
  Msg,        \* message ids
  Waiter,     \* tool calls
  Unnamed,    \* no chat, or no account, named
  None,       \* no client
  PendingMax, \* bound: TELEGRAM_EVENT_PENDING_MAX
  InnerTask,  \* asyncio.wait_for() starts a task for what it waits for (Python 3.11)
  HotSwap     \* whether a reload may replace a serving client

ASSUME EventFeedAssumption ==
  /\ LabelOf \in [Client -> Label]
  /\ BotChat \subseteq Chat
  /\ Msg \subseteq Nat
  /\ PendingMax \in Nat \ {0}
  /\ Unnamed \notin Chat \cup Label
  /\ None \notin Client
  /\ InnerTask \in BOOLEAN /\ HotSwap \in BOOLEAN

Key == Label \X Chat
Age == {"fresh", "quiet", "stale"}

VARIABLES
  clients,  \* [Label -> Client \cup {None}]: the registry
  used,     \* SUBSET Client: clients that were ever in it
  wired,    \* [Label -> Client \cup {None}]: _incoming_handlers
  handler,  \* [Msg -> HandlerState]: the handler of a message
  pending,  \* [Key -> Burst or NoBurst]: _pending_msgs
  clock,    \* messages recorded so far
  event,    \* the shared _activity_event is set
  call,     \* [Waiter -> CallState]
  feed,     \* where the consumer is
  taken,    \* the messages a wait returned
  written,  \* the messages of the lines of the feed file
  dropped,  \* the messages of the bursts in the drop ledger
  forgotten \* the messages _forget_pending() let go of

accountVars == <<clients, used, wired>>
outcomeVars == <<taken, written, dropped, forgotten>>
vars == <<accountVars, handler, pending, clock, event, call, feed, outcomeVars>>

Unsent       == [pc |-> "unsent", client |-> None, chat |-> Unnamed]
HandlerState == [pc : {"unsent", "suspended", "recorded", "ignored"},
                 client : Client \cup {None}, chat : Chat \cup {Unnamed}]

(* `msgs`, the messages of a burst, is for the properties.                 *)
Burst   == [count : Nat, first : Nat, last : Nat, latest : Nat, age : Age, msgs : SUBSET Msg]
NoBurst == [count |-> 0, msgs |-> {}]

CallPC    == {"idle", "scan", "arming", "waiting", "sleeping"}
CallState == [pc : CallPC, settled : BOOLEAN, chat : Chat \cup {Unnamed},
              account : Label \cup {Unnamed}]
Idle      == [pc |-> "idle", settled |-> FALSE, chat |-> Unnamed, account |-> Unnamed]
FeedPC    == {"off", "scan", "arming", "waiting", "sleeping", "backoff"}

TypeOK ==
  /\ clients \in [Label -> Client \cup {None}]
  /\ used \in SUBSET Client
  /\ wired \in [Label -> Client \cup {None}]
  /\ handler \in [Msg -> HandlerState]
  /\ pending \in [Key -> Burst \cup {NoBurst}]
  /\ clock \in Nat
  /\ event \in BOOLEAN
  /\ call \in [Waiter -> CallState]
  /\ feed \in FeedPC
  /\ taken \in SUBSET Msg /\ written \in SUBSET Msg
  /\ dropped \in SUBSET Msg /\ forgotten \in SUBSET Msg

----------------------------------------------------------------------------
(* The pending map. *)

Bursts(p) == {k \in Key : p[k] # NoBurst}
Msgs(p, ks) == UNION {p[k].msgs : k \in ks}
Without(p, ks) == [k \in Key |-> IF k \in ks THEN NoBurst ELSE p[k]]

(* _expire_pending(): what it drops.                                       *)
Expired(p) == {k \in Bursts(p) : p[k].age = "stale"}

(* _enforce_pending_ceiling(): the least recently active, until they fit.  *)
(* Definitions whose name says what they get wrong, like the one before    *)
(* it, are defects the checks must notice; no action uses them.            *)
OneTooMany(p) ==
  {k \in Bursts(p) : Cardinality({j \in Bursts(p) : p[j].latest > p[k].latest}) > PendingMax}

Overflowing(p) ==
  {k \in Bursts(p) : Cardinality({j \in Bursts(p) : p[j].latest > p[k].latest}) >= PendingMax}

(* A burst with one more message.  Handlers overtake each other in         *)
(* get_sender(), so ids arrive out of order.                               *)
Started(m) ==
  [count |-> 1, first |-> m, last |-> m, latest |-> clock, age |-> "fresh", msgs |-> {m}]

LastIdWins(b, m) ==
  IF b = NoBurst THEN Started(m)
  ELSE [b EXCEPT !.count = @ + 1, !.last = m, !.latest = clock, !.age = "fresh", !.msgs = @ \cup {m}]

Extended(b, m) ==
  IF b = NoBurst THEN Started(m)
  ELSE [b EXCEPT !.count = @ + 1,
                 !.first = IF m < @ THEN m ELSE @,
                 !.last = IF m > @ THEN m ELSE @,
                 !.latest = clock, !.age = "fresh", !.msgs = @ \cup {m}]

(* Time passes for a burst: never less for one that was active earlier.    *)
Ages(k) ==
  /\ k \in Bursts(pending) /\ pending[k].age # "stale"
  /\ LET older == IF pending[k].age = "fresh" THEN "quiet" ELSE "stale"
     IN  /\ \A j \in Bursts(pending) :
              pending[j].latest < pending[k].latest => pending[j].age \in {older, "stale"}
         /\ pending' = [pending EXCEPT ![k].age = older]
  /\ UNCHANGED <<accountVars, handler, clock, event, call, feed, outcomeVars>>

----------------------------------------------------------------------------
(* The handler: _on_new_incoming(). *)

(* Telethon hands a message to the handler attached to its client.         *)
Arrives(m) ==
  /\ handler[m].pc = "unsent"
  /\ \E c \in Client, x \in Chat :
       /\ wired[LabelOf[c]] = c
       /\ handler' = [handler EXCEPT ![m] =
            [pc |-> IF clients[LabelOf[c]] = c THEN "suspended" ELSE "ignored",
             client |-> c, chat |-> x]]
  /\ UNCHANGED <<accountVars, pending, clock, event, call, feed, outcomeVars>>

(* _still_current() *)
ChecksTheLabel(c) == clients[LabelOf[c]] # None

StillCurrent(c) == clients[LabelOf[c]] = c

(* _activity_event.set(): everybody waiting for it may run.                *)
WakesOnlyCalls ==
  /\ event' = TRUE
  /\ call' = [w \in Waiter |-> IF call[w].pc = "waiting" THEN [call[w] EXCEPT !.pc = "scan"]
                                                         ELSE call[w]]
  /\ feed' = feed

Wake ==
  /\ event' = TRUE
  /\ call' = [w \in Waiter |-> IF call[w].pc = "waiting" THEN [call[w] EXCEPT !.pc = "scan"]
                                                         ELSE call[w]]
  /\ feed' = IF feed = "waiting" THEN "scan" ELSE feed

(* get_sender() answered: the burst grows, both bounds are enforced, and   *)
(* everybody waiting is woken.                                             *)
Records(m) ==
  LET c        == handler[m].client
      k        == <<LabelOf[c], handler[m].chat>>
      recorded == [pending EXCEPT ![k] = Extended(@, m)]
      swept    == Without(recorded, Expired(recorded))
      kept     == Without(swept, Overflowing(swept))
  IN  /\ handler[m].pc = "suspended"
      /\ StillCurrent(c)
      /\ handler' = [handler EXCEPT ![m].pc = "recorded"]
      /\ pending' = kept
      /\ dropped' = dropped \cup Msgs(recorded, Bursts(recorded) \ Bursts(kept))
      /\ clock' = clock + 1
      /\ Wake
      /\ UNCHANGED <<accountVars, taken, written, forgotten>>

(* ... or it failed, or the sender is nobody or this very login, or the    *)
(* client was replaced meanwhile.                                          *)
Ignores(m) ==
  /\ handler[m].pc = "suspended"
  /\ handler' = [handler EXCEPT ![m].pc = "ignored"]
  /\ UNCHANGED <<accountVars, pending, clock, event, call, feed, outcomeVars>>

----------------------------------------------------------------------------
(* The waiting tools: wait_for_new_message, wait_for_settled_message. *)

SwapsTheFilters(w) ==
  /\ call[w].pc = "idle"
  /\ \E settled \in BOOLEAN, x \in Chat \cup {Unnamed}, l \in Label \cup {Unnamed} :
       call' = [call EXCEPT ![w] = [pc |-> "scan", settled |-> settled, chat |-> l, account |-> x]]
  /\ UNCHANGED <<accountVars, handler, pending, clock, event, feed, outcomeVars>>

Calls(w) ==
  /\ call[w].pc = "idle"
  /\ \E settled \in BOOLEAN, x \in Chat \cup {Unnamed}, l \in Label \cup {Unnamed} :
       call' = [call EXCEPT ![w] = [pc |-> "scan", settled |-> settled, chat |-> x, account |-> l]]
  /\ UNCHANGED <<accountVars, handler, pending, clock, event, feed, outcomeVars>>

(* A burst of a bot is for a call that names its chat.                     *)
Wanted(w, k) ==
  /\ call[w].account \in {Unnamed, k[1]}
  /\ \/ call[w].chat = k[2]
     \/ call[w].chat = Unnamed /\ k[2] \notin BotChat

Blocked == IF InnerTask THEN "arming" ELSE "waiting"

(* One turn of the loop of a wait.                                         *)
Scan(w) ==
  LET swept == Without(pending, Expired(pending))
      mine  == {k \in Bursts(swept) : Wanted(w, k)}
      quiet == {k \in mine : swept[k].age = "quiet"}
  IN  /\ call[w].pc = "scan"
      /\ dropped' = dropped \cup Msgs(pending, Expired(pending))
      /\ \/ \* A settled burst is taken.
            /\ call[w].settled
            /\ \E k \in quiet :
                 /\ pending' = Without(swept, {k})
                 /\ taken' = taken \cup swept[k].msgs
            /\ call' = [call EXCEPT ![w] = Idle]
            /\ UNCHANGED event
         \/ \* Pending chats are listed and stay pending; or the deadline passed.
            /\ call[w].settled => quiet = {}
            /\ pending' = swept
            /\ call' = [call EXCEPT ![w] = Idle]
            /\ UNCHANGED <<event, taken>>
         \/ \* A burst is not quiet yet: until it would be.
            /\ call[w].settled /\ mine # {} /\ quiet = {}
            /\ pending' = swept
            /\ call' = [call EXCEPT ![w].pc = "sleeping"]
            /\ UNCHANGED <<event, taken>>
         \/ \* Nothing: until there is activity.
            /\ mine = {}
            /\ pending' = swept
            /\ event' = FALSE
            /\ call' = [call EXCEPT ![w].pc = Blocked]
            /\ UNCHANGED taken
      /\ UNCHANGED <<accountVars, handler, clock, feed, written, forgotten>>

(* The inner task of asyncio.wait_for() reaches the event.                 *)
Arms(w) ==
  /\ call[w].pc = "arming"
  /\ call' = [call EXCEPT ![w].pc = IF event THEN "scan" ELSE "waiting"]
  /\ UNCHANGED <<accountVars, handler, pending, clock, event, feed, outcomeVars>>

SleepEnds(w) ==
  /\ call[w].pc = "sleeping"
  /\ call' = [call EXCEPT ![w].pc = "scan"]
  /\ UNCHANGED <<accountVars, handler, pending, clock, event, feed, outcomeVars>>

(* The deadline passes in the wait, or the call is cancelled.              *)
GivesUp(w) ==
  /\ call[w].pc # "idle"
  /\ call' = [call EXCEPT ![w] = Idle]
  /\ UNCHANGED <<accountVars, handler, pending, clock, event, feed, outcomeVars>>

----------------------------------------------------------------------------
(* The consumer: _feed_loop().  FeedLifecycle says when there is one. *)

FeedStarts ==
  /\ feed = "off"
  /\ feed' = "scan"
  /\ UNCHANGED <<accountVars, handler, pending, clock, event, call, outcomeVars>>

FeedStops ==
  /\ feed # "off"
  /\ feed' = "off"
  /\ UNCHANGED <<accountVars, handler, pending, clock, event, call, outcomeVars>>

(* One turn of the loop.  A burst leaves the map only after its line is    *)
(* written; a refused or failed write keeps it.                            *)
PopsBeforeTheWrite ==
  LET swept  == Without(pending, Expired(pending))
      quiet  == {k \in Bursts(swept) : k[2] \notin BotChat /\ swept[k].age = "quiet"}
  IN  /\ feed = "scan"
      /\ dropped' = dropped \cup Msgs(pending, Expired(pending))
      /\ \E k \in quiet :
           /\ pending' = Without(swept, {k})
           /\ \/ feed' = "scan" /\ written' = written \cup swept[k].msgs
              \/ feed' = "backoff" /\ UNCHANGED written
      /\ UNCHANGED <<accountVars, handler, clock, event, call, taken, forgotten>>

WaitsBehindBots ==
  LET swept == Without(pending, Expired(pending))
      first == IF \E k \in Bursts(swept) : k[2] \in BotChat THEN {} ELSE Bursts(swept)
      quiet == {k \in first : swept[k].age = "quiet"}
  IN  /\ feed = "scan"
      /\ dropped' = dropped \cup Msgs(pending, Expired(pending))
      /\ \/ \E k \in quiet :
              pending' = Without(swept, {k}) /\ written' = written \cup swept[k].msgs /\ feed' = feed
         \/ quiet = {} /\ pending' = swept /\ feed' = "sleeping" /\ UNCHANGED written
      /\ UNCHANGED <<accountVars, handler, clock, event, call, taken, forgotten>>

FeedScans ==
  LET swept  == Without(pending, Expired(pending))
      people == {k \in Bursts(swept) : k[2] \notin BotChat}
      quiet  == {k \in people : swept[k].age = "quiet"}
  IN  /\ feed = "scan"
      /\ dropped' = dropped \cup Msgs(pending, Expired(pending))
      /\ \/ \E k \in quiet :
              /\ pending' = Without(swept, {k})
              /\ written' = written \cup swept[k].msgs
              /\ UNCHANGED <<event, feed>>
         \/ /\ quiet # {}
            /\ pending' = swept
            /\ feed' = "backoff"
            /\ UNCHANGED <<event, written>>
         \/ /\ quiet = {} /\ people # {}
            /\ pending' = swept
            /\ feed' = "sleeping"
            /\ UNCHANGED <<event, written>>
         \/ /\ people = {}
            /\ pending' = swept
            /\ event' = FALSE
            /\ feed' = Blocked
            /\ UNCHANGED written
      /\ UNCHANGED <<accountVars, handler, clock, call, taken, forgotten>>

FeedArms ==
  /\ feed = "arming"
  /\ feed' = IF event THEN "scan" ELSE "waiting"
  /\ UNCHANGED <<accountVars, handler, pending, clock, event, call, outcomeVars>>

(* A sleep is over, or the wait for activity has lasted the five minutes   *)
(* after which an idle feed is maintained.                                 *)
FeedTurns ==
  /\ feed \in {"waiting", "sleeping", "backoff"}
  /\ feed' = "scan"
  /\ UNCHANGED <<accountVars, handler, pending, clock, event, call, outcomeVars>>

----------------------------------------------------------------------------
(* Accounts: what refresh_accounts() and the transaction after it do to    *)
(* the registry, and events._on_clients_changed(). *)

KeysOf(l) == {k \in Key : k[1] = l}

(* A listener call for label l, whose client is now c: detach, forget the  *)
(* bursts of the label, attach.                                            *)
Rewires(l, c) ==
  /\ clients' = [clients EXCEPT ![l] = c]
  /\ wired' = [wired EXCEPT ![l] = c]
  /\ pending' = Without(pending, KeysOf(l))
  /\ forgotten' = forgotten \cup Msgs(pending, KeysOf(l))

Removes(l) ==
  /\ clients[l] # None
  /\ Rewires(l, None)
  /\ UNCHANGED <<used, handler, clock, event, call, feed, taken, written, dropped>>

Adds(c) ==
  /\ c \notin used /\ clients[LabelOf[c]] = None
  /\ used' = used \cup {c}
  /\ Rewires(LabelOf[c], c)
  /\ UNCHANGED <<handler, clock, event, call, feed, taken, written, dropped>>

(* account_lifecycle.admit() publishes a replacement, also for a label that *)
(* was removed meanwhile.  The listeners were told when it was staged, and  *)
(* only of labels whose client had changed.  An account removed during its  *)
(* own admission, which AccountReload finds published again, is not here.   *)
Swaps(c) ==
  /\ HotSwap
  /\ c \notin used
  /\ used' = used \cup {c}
  /\ clients' = [clients EXCEPT ![LabelOf[c]] = c]
  /\ UNCHANGED <<wired, handler, pending, clock, event, call, feed, outcomeVars>>

----------------------------------------------------------------------------
NoClients == [l \in Label |-> None]

(* register_incoming_handlers() at import, before anybody is connected:    *)
(* each account is added as a reload would add it.                         *)
Init ==
  /\ clients = NoClients /\ used = {} /\ wired = NoClients
  /\ handler = [m \in Msg |-> Unsent]
  /\ pending = [k \in Key |-> NoBurst]
  /\ clock = 0
  /\ event = FALSE
  /\ call = [w \in Waiter |-> Idle]
  /\ feed = "off"
  /\ taken = {} /\ written = {} /\ dropped = {} /\ forgotten = {}

Next ==
  \/ \E m \in Msg : Arrives(m) \/ Records(m) \/ Ignores(m)
  \/ \E k \in Key : Ages(k)
  \/ \E w \in Waiter : Calls(w) \/ Scan(w) \/ Arms(w) \/ SleepEnds(w) \/ GivesUp(w)
  \/ FeedStarts \/ FeedStops \/ FeedScans \/ FeedArms \/ FeedTurns
  \/ \E l \in Label : Removes(l)
  \/ \E c \in Client : Adds(c) \/ Swaps(c)

(* A chat gets quiet in the end and the consumer is scheduled; a write     *)
(* that is tried again and again succeeds in the end.  Nothing need ever   *)
(* expire.                                                                 *)
Fairness ==
  /\ \A k \in Key : WF_vars(Ages(k) /\ pending'[k].age = "quiet")
  /\ WF_vars(FeedScans) /\ WF_vars(FeedArms) /\ WF_vars(FeedTurns)
  /\ SF_vars(FeedScans /\ written' # written)

Spec == Init /\ [][Next]_vars
FairSpec == Spec /\ Fairness

----------------------------------------------------------------------------
(* Properties. *)

Recorded == {m \in Msg : handler[m].pc = "recorded"}
Pending  == Msgs(pending, Key)

(* A burst is consumed once or its loss is on record: every message that   *)
(* was recorded is pending, was returned by one wait, is in one line of    *)
(* the feed, is in the drop ledger, or went with its account - and one of  *)
(* these only.  "A write failure retries the same burst on the next        *)
(* iteration instead of dropping it" (events.py).                          *)
EveryMessageIsAccountedFor ==
  LET places == {Pending, taken, written, dropped, forgotten}
  IN  /\ Recorded = UNION places
      /\ Cardinality(Recorded) =
           Cardinality(Pending) + Cardinality(taken) + Cardinality(written)
             + Cardinality(dropped) + Cardinality(forgotten)
      /\ \A j, k \in Bursts(pending) : j # k => pending[j].msgs \cap pending[k].msgs = {}

(* What a burst says of itself covers its messages, whatever the order in  *)
(* which the suspended handlers came back.                                 *)
BurstCoversItsMessages ==
  \A k \in Bursts(pending) :
    LET b == pending[k]
    IN  /\ b.count = Cardinality(b.msgs)
        /\ {b.first, b.last} \subseteq b.msgs
        /\ \A m \in b.msgs : b.first <= m /\ m <= b.last

(* A burst is of one login, the one its label's handler is attached to, and *)
(* none outlives its account: a handler that was suspended while its client *)
(* was replaced or removed writes nothing, and a label the listeners are    *)
(* told of takes its bursts with it (_still_current, _forget_pending), also *)
(* with replacements they are not told of.                                  *)
BurstsAreOfOneLogin ==
  \A k \in Bursts(pending) :
    /\ clients[k[1]] # None
    /\ \A m \in pending[k].msgs :
         /\ handler[m].client = wired[k[1]]
         /\ handler[m].chat = k[2]

(* Nobody waits for activity while there is a burst for it: the event is   *)
(* shared, and each waiter clears it for all.  "Block until a new incoming *)
(* private message arrives, then return immediately" (events.py).          *)
NoLostWakeup ==
  /\ \A w \in Waiter : call[w].pc = "waiting" => \A k \in Bursts(pending) : ~Wanted(w, k)
  /\ feed = "waiting" => \A k \in Bursts(pending) : k[2] \in BotChat

(* Only the inner task of wait_for() costs a wake-up: a waiter that begins  *)
(* to sleep over a burst it should look at begins so between the task's     *)
(* creation and its first step, where another waiter may clear the event.   *)
Oversleeps(w) == call[w].pc = "waiting" /\ \E k \in Bursts(pending) : Wanted(w, k)
FeedOversleeps == feed = "waiting" /\ \E k \in Bursts(pending) : k[2] \notin BotChat
OnlyTheInnerTaskOversleeps ==
  [][ /\ \A w \in Waiter : Oversleeps(w)' => Oversleeps(w) \/ Arms(w)
      /\ FeedOversleeps' => FeedOversleeps \/ FeedArms ]_vars

(* "A server that runs for weeks": the map stays within its ceiling.       *)
PendingIsBounded == Cardinality(Bursts(pending)) <= PendingMax

(* While the feed is on, what a person wrote does not stay pending for     *)
(* ever, whatever other bursts, bots' included, are there.                 *)
PeopleAreHeard ==
  \A m \in Msg :
    (m \in Pending /\ handler[m].chat \notin BotChat) ~> (m \notin Pending \/ feed = "off")
----------------------------------------------------------------------------
(* What the repository says and the code does not do, where HotSwap. *)

(* "The debounce tools would then hand the new login the previous one's    *)
(* unread conversations" (events.py): what is pending for a label came by  *)
(* the login the label means now.                                          *)
PendingIsCurrent ==
  \A k \in Bursts(pending) :
    \A m \in pending[k].msgs : handler[m].client = clients[k[1]]
=============================================================================

--------------------------- MODULE FeedLifecycle ---------------------------
(***************************************************************************)
(* Who owns the event-feed consumer: telegram_mcp/tools/feed_lifecycle.py  *)
(* with its three callers, the enable/disable tools, the autostart of the  *)
(* Telethon handler (events._maybe_autostart_feed) and the shutdown of     *)
(* runner._main.                                                           *)
(*                                                                         *)
(* The consumer takes settled bursts, so two of them race for the same     *)
(* burst.  One action is one run of the event loop between two awaits.     *)
(* The tools serialize on the _transition lock; the autostart and the      *)
(* shutdown do not take it.                                                *)
(*                                                                         *)
(* Abstractions.  A task that has ended and that nobody holds any more is  *)
(* as good as a new one, so three tasks are enough for any number of       *)
(* consumers.  The five seconds of a stop and the budget of the shutdown   *)
(* have no clock: a wait may end before its task.  A consumer may end by   *)
(* itself (it is an exception when it does).                               *)
(***************************************************************************)
EXTENDS Naturals, TLAPS

CONSTANTS
  Task,       \* asyncio tasks that may run a consumer
  Caller,     \* tool calls
  Settle,     \* settle periods
  Default,    \* the _settle_ms a process starts with
  Runner,     \* the shutdown in runner._main
  None        \* no task, no caller

ASSUME FeedAssumption ==
  /\ Default \in Settle
  /\ Runner \notin Caller
  /\ None \notin Task
  /\ None \notin Caller \cup {Runner}
  /\ None \notin Settle

Stopper == Caller \cup {Runner}

VARIABLES
  state,     \* [Task -> TaskState]
  task,      \* _task
  stopping,  \* _stopping
  settle,    \* _settle_ms
  autostart, \* _autostart_done
  lock,      \* who is inside _transition: a caller or None
  pc,        \* [Stopper -> PC]
  target,    \* [Stopper -> Task \cup {None}]: the task its stop waits for
  wants,     \* [Caller -> Settle \cup {None}]: enable's settle, None to disable
  down       \* runner._main is past its transport

vars == <<state, task, stopping, settle, autostart, lock, pc, target, wants, down>>

TaskState == {"running", "cancelling", "ended", "failed"}
PC        == {"idle", "waiting", "stopping", "over"}
Live      == {t \in Task : state[t] \in {"running", "cancelling"}}

TypeOK ==
  /\ state \in [Task -> TaskState]
  /\ task \in Task \cup {None}
  /\ stopping \in Task \cup {None}
  /\ settle \in Settle
  /\ autostart \in BOOLEAN
  /\ lock \in Caller \cup {None}
  /\ pc \in [Stopper -> PC]
  /\ target \in [Stopper -> Task \cup {None}]
  /\ wants \in [Caller -> Settle \cup {None}]
  /\ down \in BOOLEAN

(* feed_enabled()                                                          *)
Enabled == task \in Live

(* _reap(): a stopping task that has stopped is let go.                    *)
Reaped == IF stopping \in Live THEN stopping ELSE None

(* feed_state()                                                            *)
FeedState ==
  IF stopping \in Live THEN "stopping"
  ELSE IF task \in Live THEN "running"
  ELSE IF task # None /\ state[task] = "failed" THEN "failed"
  ELSE "stopped"

(* A task nobody runs in and nobody holds: what create_task returns.       *)
Fresh(t) ==
  /\ t \notin Live \cup {task, stopping}
  /\ \A p \in Stopper : target[p] # t

(* _spawn(): any start consumes the autostart.  The definition before it   *)
(* is a defect the checks must notice, like the others named for what they *)
(* get wrong; no action uses them.                                         *)
SpawnKeepsAutostart(t, s) ==
  /\ Fresh(t)
  /\ state' = [state EXCEPT ![t] = "running"]
  /\ task' = t
  /\ settle' = s
  /\ UNCHANGED autostart

Spawn(t, s) ==
  /\ Fresh(t)
  /\ state' = [state EXCEPT ![t] = "running"]
  /\ task' = t
  /\ settle' = s
  /\ autostart' = TRUE

----------------------------------------------------------------------------
(* _stop_current() up to its await: the task becomes the stopping one      *)
(* before it is waited for.                                                *)
OrphansTheTask(p) ==
  /\ stopping' = None
  /\ state' = [state EXCEPT ![task] = "cancelling"]
  /\ target' = [target EXCEPT ![p] = task]
  /\ task' = None
  /\ pc' = [pc EXCEPT ![p] = "stopping"]

BeginStop(p) ==
  /\ stopping' = task
  /\ state' = [state EXCEPT ![task] = "cancelling"]
  /\ target' = [target EXCEPT ![p] = task]
  /\ task' = None
  /\ pc' = [pc EXCEPT ![p] = "stopping"]

(* A tool call is over, and with it its transition.                        *)
Leave(k) ==
  /\ pc' = [pc EXCEPT ![k] = "idle"]
  /\ target' = [target EXCEPT ![k] = None]
  /\ lock' = None

(* A tool call queues for the transition: enable at some settle period, or *)
(* disable.                                                                *)
Calls(k) ==
  /\ ~down /\ pc[k] = "idle"
  /\ pc' = [pc EXCEPT ![k] = "waiting"]
  /\ \E w \in Settle \cup {None} : wants' = [wants EXCEPT ![k] = w]
  /\ UNCHANGED <<state, task, stopping, settle, autostart, lock, target, down>>

Enters(k) == pc[k] = "waiting" /\ lock = None

(* enable() inside the transition, up to its first await.                  *)
Enable(k) ==
  /\ Enters(k) /\ wants[k] # None
  /\ \/ /\ Reaped # None
        /\ Leave(k)
        /\ UNCHANGED <<state, task, stopping, settle, autostart>>
     \/ /\ Reaped = None /\ Enabled /\ settle = wants[k]
        /\ stopping' = None
        /\ Leave(k)
        /\ UNCHANGED <<state, task, settle, autostart>>
     \/ /\ Reaped = None /\ Enabled /\ settle # wants[k]
        /\ lock' = k
        /\ BeginStop(k)
        /\ UNCHANGED <<settle, autostart>>
     \/ /\ Reaped = None /\ ~Enabled
        /\ stopping' = None
        /\ \E t \in Task : Spawn(t, wants[k])
        /\ Leave(k)
  /\ UNCHANGED <<wants, down>>

(* disable() inside the transition, up to its first await.                 *)
Disable(k) ==
  /\ Enters(k) /\ wants[k] = None
  /\ \/ /\ Reaped # None \/ ~Enabled
        /\ stopping' = Reaped
        /\ Leave(k)
        /\ UNCHANGED <<state, task>>
     \/ /\ Reaped = None /\ Enabled
        /\ lock' = k
        /\ BeginStop(k)
  /\ UNCHANGED <<settle, autostart, wants, down>>

(* The stop returns: the task has ended.  enable() goes on to its          *)
(* replacement.                                                            *)
RestartsAfterDisable(k) ==
  /\ pc[k] = "stopping" /\ target[k] \notin Live
  /\ stopping' = None
  /\ \E t \in Task : Spawn(t, wants[k])
  /\ Leave(k)
  /\ UNCHANGED <<wants, down>>

StopReturns(k) ==
  /\ pc[k] = "stopping" /\ target[k] \notin Live
  /\ stopping' = None
  /\ \/ wants[k] # None /\ \E t \in Task : Spawn(t, wants[k])
     \/ wants[k] = None /\ UNCHANGED <<state, task, settle, autostart>>
  /\ Leave(k)
  /\ UNCHANGED <<wants, down>>

(* The stop times out, or its caller is cancelled: the task stays owned    *)
(* and nothing is started.                                                 *)
SpawnsAnyway(k) ==
  /\ pc[k] = "stopping" /\ target[k] \in Live
  /\ \/ wants[k] # None /\ \E t \in Task : Spawn(t, wants[k])
     \/ wants[k] = None /\ UNCHANGED <<state, task, settle, autostart>>
  /\ Leave(k)
  /\ UNCHANGED <<stopping, wants, down>>

WaitsForTheEnd(k) ==
  /\ pc[k] = "stopping" /\ target[k] \notin Live
  /\ Leave(k)
  /\ UNCHANGED <<state, task, stopping, settle, autostart, wants, down>>

StopTimesOut(k) ==
  /\ pc[k] = "stopping" /\ target[k] \in Live
  /\ Leave(k)
  /\ UNCHANGED <<state, task, stopping, settle, autostart, wants, down>>

(* A tool call is cancelled while it queues or while it waits.             *)
Cancelled(k) ==
  /\ pc[k] \in {"waiting", "stopping"}
  /\ pc' = [pc EXCEPT ![k] = "idle"]
  /\ target' = [target EXCEPT ![k] = None]
  /\ lock' = IF pc[k] = "stopping" THEN None ELSE lock
  /\ UNCHANGED <<state, task, stopping, settle, autostart, wants, down>>

(* start_now() from the handler of an incoming message.                    *)
StartNow(t) ==
  /\ ~autostart
  /\ Reaped = None /\ ~Enabled
  /\ stopping' = None
  /\ Spawn(t, settle)
  /\ UNCHANGED <<lock, pc, target, wants, down>>

----------------------------------------------------------------------------
(* Shutdown: the transport has returned and every tool call with it; a     *)
(* registered consumer is asked to stop, without the transition.           *)
ShutDown ==
  /\ ~down /\ \A k \in Caller : pc[k] = "idle"
  /\ down' = TRUE
  /\ \/ Enabled /\ BeginStop(Runner)
     \/ /\ ~Enabled
        /\ pc' = [pc EXCEPT ![Runner] = "over"]
        /\ UNCHANGED <<state, task, stopping, target>>
  /\ UNCHANGED <<settle, autostart, lock, wants>>

(* ... bounded, whatever the consumer does.                                *)
ShutDownGoesOn ==
  /\ pc[Runner] = "stopping"
  /\ stopping' = IF target[Runner] \in Live THEN stopping ELSE None
  /\ pc' = [pc EXCEPT ![Runner] = "over"]
  /\ target' = [target EXCEPT ![Runner] = None]
  /\ UNCHANGED <<state, task, settle, autostart, lock, wants, down>>

----------------------------------------------------------------------------
(* The consumer ends: it was cancelled, or it raised.                      *)
Ends(t) ==
  /\ \/ state[t] = "cancelling" /\ state' = [state EXCEPT ![t] = "ended"]
     \/ state[t] \in {"running", "cancelling"} /\ state' = [state EXCEPT ![t] = "failed"]
  /\ UNCHANGED <<task, stopping, settle, autostart, lock, pc, target, wants, down>>

Init ==
  /\ state = [t \in Task |-> "ended"]
  /\ task = None
  /\ stopping = None
  /\ settle = Default
  /\ autostart = FALSE
  /\ lock = None
  /\ pc = [p \in Stopper |-> "idle"]
  /\ target = [p \in Stopper |-> None]
  /\ wants = [k \in Caller |-> None]
  /\ down = FALSE

Next ==
  \/ \E k \in Caller :
       \/ Calls(k)
       \/ Enable(k)
       \/ Disable(k)
       \/ StopReturns(k)
       \/ StopTimesOut(k)
       \/ Cancelled(k)
  \/ \E t \in Task : StartNow(t) \/ Ends(t)
  \/ ShutDown
  \/ ShutDownGoesOn

(* The lock is first in, first out, and a stop waits at most five seconds; *)
(* a consumer need never end.                                              *)
Fairness ==
  /\ \A k \in Caller : SF_vars(Enable(k) \/ Disable(k))
  /\ \A k \in Caller : WF_vars(StopReturns(k) \/ StopTimesOut(k))
  /\ WF_vars(ShutDownGoesOn)

Spec == Init /\ [][Next]_vars
FairSpec == Spec /\ Fairness

----------------------------------------------------------------------------
(* Properties. *)

(* One consumer at a time: a burst is never raced for.  Neither start_now()*)
(* nor the shutdown takes the transition, so this rests on what they look  *)
(* at as much as on the lock.                                              *)
OneConsumer == \A t, u \in Live : t = u

(* A consumer that will not stop stays owned: whoever is cancelled or      *)
(* times out, a running task is the current one or the stopping one.       *)
EveryConsumerIsOwned == \A t \in Live : t = task \/ t = stopping

(* feed_state() says what is: "a caller told stopped would believe         *)
(* otherwise" while a cancelled consumer may still take a burst.           *)
StateIsReportedAsItIs ==
  /\ FeedState \in {"stopped", "failed"} <=> Live = {}
  /\ FeedState = "stopping" => task \notin Live

(* Every start and stop comes to an end, whatever the consumer does.       *)
EveryTransitionEnds ==
  \A k \in Caller : pc[k] # "idle" ~> pc[k] = "idle"

(* "STOP NEW WORK FIRST" (runner.py:574): the consumer is stopped, or at   *)
(* least asked to, before the clients under it are torn down.              *)
NoConsumerBehindTheShutdown ==
  pc[Runner] = "over" => \A t \in Live : state[t] = "cancelling"

----------------------------------------------------------------------------
(* Proofs about FeedLifecycle for any number of tasks, tool calls and      *)
(* settle periods: there is one consumer, somebody owns it, and its state  *)
(* is reported as it is.                                                   *)
(*                                                                         *)
(* None of the three is inductive.  What a step may rely on besides:       *)
(* whoever waits for a stop left no current task behind and holds the lock *)
(* (or is the shutdown, when no call is left), and once anything was ever  *)
(* started the autostart is spent, so that the one start which does not    *)
(* take the lock cannot happen under a stop.                               *)

(* A wait for a stop holds the lock, unless it is the shutdown's: then     *)
(* every tool call is over.                                                *)
WaitsAlone ==
  /\ \A k \in Caller : pc[k] = "stopping" <=> lock = k
  /\ down => \A k \in Caller : pc[k] = "idle"
  /\ ~down => pc[Runner] = "idle"

(* While a stop is waited for there is no current task, and the stopping   *)
(* task is the one waited for for as long as it runs.                      *)
StopIsExclusive ==
  \A p \in Stopper : pc[p] = "stopping" =>
    /\ task = None
    /\ target[p] \in Task
    /\ stopping \in {target[p], None}
    /\ target[p] \in Live => stopping = target[p]

(* Anything started has spent the autostart.                               *)
AutostartIsSpent ==
  \/ autostart
  \/ /\ task = None /\ stopping = None /\ Live = {}
     /\ \A p \in Stopper : pc[p] # "stopping"

Inv ==
  /\ TypeOK
  /\ WaitsAlone
  /\ StopIsExclusive
  /\ AutostartIsSpent
  /\ OneConsumer
  /\ EveryConsumerIsOwned
  /\ task # None => task # stopping

----------------------------------------------------------------------------
(* What each step preserves, by what the step does to the tasks.           *)

(* Starting a consumer where none runs and nobody waits.                   *)
LEMMA SpawnPreserves ==
  ASSUME Inv, NEW t \in Task, NEW s \in Settle,
         Live = {}, Spawn(t, s), stopping' = None,
         WaitsAlone', pc' \in [Stopper -> PC], target' \in [Stopper -> Task \cup {None}],
         lock' \in Caller \cup {None}, UNCHANGED <<wants, down>>,
         \A p \in Stopper : pc'[p] # "stopping"
  PROVE  Inv'
<1>1. state' = [state EXCEPT ![t] = "running"] /\ task' = t /\ settle' = s /\ autostart'
  BY DEF Spawn
<1>2. TypeOK'
  BY <1>1 DEF Inv, TypeOK, TaskState
<1>3. Live' = {t}
  BY <1>1 DEF Live, Inv, TypeOK
<1>4. task' # stopping'
  BY <1>1, FeedAssumption
<1> QED
  BY <1>1, <1>2, <1>3, <1>4 DEF Inv, StopIsExclusive, AutostartIsSpent, OneConsumer,
     EveryConsumerIsOwned

(* Asking the current consumer to stop, as a caller that is alone.         *)
LEMMA BeginStopPreserves ==
  ASSUME Inv, NEW p \in Stopper,
         Reaped = None, Enabled, BeginStop(p),
         WaitsAlone', lock' \in Caller \cup {None}, down' \in BOOLEAN,
         UNCHANGED <<settle, autostart, wants>>,
         \A q \in Stopper : pc[q] # "stopping"
  PROVE  Inv'
<1>1. task \in Task /\ task # None /\ stopping \notin Live
  BY FeedAssumption DEF Enabled, Live, Reaped
<1>2. Live = {task}
  BY <1>1 DEF Inv, EveryConsumerIsOwned, Enabled
<1>3. TypeOK'
  BY <1>1 DEF Inv, TypeOK, TaskState, PC, BeginStop
<1>4. Live' = {task}
  BY <1>1, <1>2 DEF Live, Inv, TypeOK, BeginStop
<1>5. StopIsExclusive'
  BY <1>1, <1>4 DEF Inv, TypeOK, BeginStop, StopIsExclusive
<1>6. AutostartIsSpent'
  BY <1>1 DEF Inv, AutostartIsSpent
<1> QED
  BY <1>1, <1>3, <1>4, <1>5, <1>6 DEF Inv, BeginStop, OneConsumer, EveryConsumerIsOwned

LEMMA InitInv == ASSUME Init PROVE Inv
<1>1. Live = {}
  BY DEF Init, Live
<1> QED
  BY <1>1, FeedAssumption DEF Init, Inv, TypeOK, TaskState, PC, WaitsAlone, StopIsExclusive,
     AutostartIsSpent, OneConsumer, EveryConsumerIsOwned, Stopper

(* Nobody else waits for a stop while a caller is between its calls.       *)
LEMMA OnlyOneWaits ==
  ASSUME Inv, NEW k \in Caller, pc[k] # "idle",
         NEW p \in Stopper, pc[p] = "stopping"
  PROVE  lock = p /\ p \in Caller
BY FeedAssumption DEF Inv, WaitsAlone, Stopper

(* Leaving: the transition is free again and the tasks are as they were.   *)
LEMMA LeavePreserves ==
  ASSUME Inv, NEW k \in Caller, pc[k] # "idle",
         pc' = [pc EXCEPT ![k] = "idle"], target' = [target EXCEPT ![k] = None],
         lock' = IF pc[k] = "stopping" THEN None ELSE lock,
         stopping' \in {stopping, None}, stopping' = None => stopping \notin Live,
         UNCHANGED <<state, task, settle, autostart, wants, down>>
  PROVE  Inv'
<1>1. TypeOK'
  BY DEF Inv, TypeOK, PC
<1>2. Live' = Live
  BY DEF Live
<1>3. WaitsAlone'
  BY FeedAssumption DEF Inv, TypeOK, WaitsAlone, Stopper
<1>4. StopIsExclusive'
  BY <1>2 DEF Inv, TypeOK, StopIsExclusive
<1>5. AutostartIsSpent'
  BY <1>2 DEF Inv, TypeOK, AutostartIsSpent
<1> QED
  BY <1>1, <1>2, <1>3, <1>4, <1>5 DEF Inv, OneConsumer, EveryConsumerIsOwned

LEMMA CallsPreserves == ASSUME Inv, NEW k \in Caller, Calls(k) PROVE Inv'
<1>1. TypeOK'
  BY DEF Inv, TypeOK, PC, Calls
<1>2. Live' = Live
  BY DEF Live, Calls
<1> QED
  BY <1>1, <1>2, FeedAssumption DEF Inv, TypeOK, Calls, WaitsAlone, StopIsExclusive,
     AutostartIsSpent, OneConsumer, EveryConsumerIsOwned, Stopper

LEMMA EnablePreserves == ASSUME Inv, NEW k \in Caller, Enable(k) PROVE Inv'
<1> USE DEF Enters
<1>1. /\ pc[k] = "waiting" /\ lock = None /\ wants[k] \in Settle
      /\ UNCHANGED <<wants, down>> /\ ~down
  BY DEF Enable, Inv, TypeOK, WaitsAlone
<1>2. \A p \in Stopper : pc[p] # "stopping"
  BY <1>1, OnlyOneWaits, FeedAssumption DEF Stopper
<1>3. CASE /\ Reaped # None /\ Leave(k)
           /\ UNCHANGED <<state, task, stopping, settle, autostart>>
  BY <1>1, <1>3, LeavePreserves, FeedAssumption DEF Leave, Live
<1>4. CASE /\ Reaped = None /\ stopping' = None /\ Leave(k)
           /\ UNCHANGED <<state, task, settle, autostart>>
  <2>1. stopping \notin Live
    BY <1>4, FeedAssumption DEF Reaped, Live
  <2> QED BY <1>1, <1>4, <2>1, LeavePreserves DEF Leave
<1>5. CASE /\ Reaped = None /\ Enabled /\ lock' = k /\ BeginStop(k)
           /\ UNCHANGED <<settle, autostart>>
  <2>1. WaitsAlone'
    BY <1>1, <1>2, <1>5, FeedAssumption DEF BeginStop, Inv, TypeOK, WaitsAlone, Stopper
  <2>2. down' \in BOOLEAN /\ k \in Stopper
    BY <1>1 DEF Inv, TypeOK, Stopper
  <2> QED BY <1>1, <1>2, <1>5, <2>1, <2>2, BeginStopPreserves
<1>6. CASE /\ Reaped = None /\ ~Enabled /\ stopping' = None /\ Leave(k)
           /\ \E t \in Task : Spawn(t, wants[k])
  <2>1. Live = {}
    BY <1>6, FeedAssumption DEF Reaped, Live, Enabled, Inv, EveryConsumerIsOwned
  <2>2. pc' \in [Stopper -> PC] /\ target' \in [Stopper -> Task \cup {None}]
    BY <1>6 DEF Leave, Inv, TypeOK, PC
  <2>3. \A p \in Stopper : pc'[p] # "stopping"
    BY <1>2, <1>6 DEF Leave, Inv, TypeOK
  <2>4. WaitsAlone'
    BY <1>1, <1>6, <2>3, FeedAssumption DEF Leave, Inv, TypeOK, WaitsAlone, Stopper
  <2>5. lock' \in Caller \cup {None}
    BY <1>6 DEF Leave
  <2> QED BY <1>1, <1>6, <2>1, <2>2, <2>3, <2>4, <2>5, SpawnPreserves
<1> QED BY <1>3, <1>4, <1>5, <1>6 DEF Enable

LEMMA DisablePreserves == ASSUME Inv, NEW k \in Caller, Disable(k) PROVE Inv'
<1> USE DEF Enters
<1>1. /\ pc[k] = "waiting" /\ lock = None
      /\ UNCHANGED <<settle, autostart, wants, down>> /\ ~down
  BY DEF Disable, Inv, TypeOK, WaitsAlone
<1>2. \A p \in Stopper : pc[p] # "stopping"
  BY <1>1, OnlyOneWaits, FeedAssumption DEF Stopper
<1>3. CASE stopping' = Reaped /\ Leave(k) /\ UNCHANGED <<state, task>>
  BY <1>1, <1>3, LeavePreserves, FeedAssumption DEF Leave, Reaped, Live
<1>4. CASE Reaped = None /\ Enabled /\ lock' = k /\ BeginStop(k)
  <2>1. WaitsAlone'
    BY <1>1, <1>2, <1>4, FeedAssumption DEF BeginStop, Inv, TypeOK, WaitsAlone, Stopper
  <2>2. down' \in BOOLEAN /\ k \in Stopper
    BY <1>1 DEF Inv, TypeOK, Stopper
  <2> QED BY <1>1, <1>2, <1>4, <2>1, <2>2, BeginStopPreserves
<1> QED BY <1>3, <1>4 DEF Disable

LEMMA StopReturnsPreserves == ASSUME Inv, NEW k \in Caller, StopReturns(k) PROVE Inv'
<1>1. /\ pc[k] = "stopping" /\ target[k] \notin Live /\ stopping' = None /\ Leave(k)
      /\ lock = k /\ k \in Stopper /\ ~down /\ UNCHANGED <<wants, down>>
  BY FeedAssumption DEF StopReturns, Inv, WaitsAlone, Stopper
<1>2. Live = {} /\ stopping \notin Live
  BY <1>1, FeedAssumption DEF Inv, StopIsExclusive, EveryConsumerIsOwned, Live
<1>3. CASE wants[k] # None /\ \E t \in Task : Spawn(t, wants[k])
  <2>1. wants[k] \in Settle
    BY <1>3 DEF Inv, TypeOK
  <2>2. pc' \in [Stopper -> PC] /\ target' \in [Stopper -> Task \cup {None}]
    BY <1>1 DEF Leave, Inv, TypeOK, PC
  <2>3. \A p \in Stopper : pc'[p] # "stopping"
    BY <1>1, OnlyOneWaits DEF Leave, Inv, TypeOK
  <2>4. WaitsAlone'
    BY <1>1, <2>3, FeedAssumption DEF Leave, Inv, TypeOK, WaitsAlone, Stopper
  <2>5. lock' \in Caller \cup {None}
    BY <1>1 DEF Leave
  <2> QED BY <1>1, <1>2, <1>3, <2>1, <2>2, <2>3, <2>4, <2>5, SpawnPreserves
<1>4. CASE UNCHANGED <<state, task, settle, autostart>>
  BY <1>1, <1>2, <1>4, LeavePreserves DEF Leave
<1> QED BY <1>3, <1>4 DEF StopReturns

LEMMA StartNowPreserves == ASSUME Inv, NEW t \in Task, StartNow(t) PROVE Inv'
<1>1. /\ ~autostart /\ stopping' = None /\ Spawn(t, settle)
      /\ UNCHANGED <<lock, pc, target, wants, down>>
  BY DEF StartNow
<1>2. Live = {} /\ \A p \in Stopper : pc[p] # "stopping"
  BY <1>1 DEF Inv, TypeOK, AutostartIsSpent
<1>3. WaitsAlone'
  BY <1>1 DEF Inv, WaitsAlone
<1>4. settle \in Settle
  BY DEF Inv, TypeOK
<1> QED BY <1>1, <1>2, <1>3, <1>4, SpawnPreserves DEF Inv, TypeOK

LEMMA ShutDownPreserves == ASSUME Inv, ShutDown PROVE Inv'
<1>1. /\ ~down /\ down' /\ \A k \in Caller : pc[k] = "idle"
      /\ UNCHANGED <<settle, autostart, lock, wants>>
  BY DEF ShutDown
<1>2. pc[Runner] = "idle" /\ Runner \in Stopper /\ Runner \notin Caller
  BY <1>1, FeedAssumption DEF Inv, WaitsAlone, Stopper
<1>3. \A p \in Stopper : pc[p] # "stopping"
  BY <1>1, <1>2 DEF Stopper
<1>4. CASE Enabled /\ BeginStop(Runner)
  <2>1. WaitsAlone'
    BY <1>1, <1>2, <1>4 DEF BeginStop, Inv, TypeOK, WaitsAlone, Stopper
  \* The task is the current one, whatever stopped before it has ended.
  <2>2. stopping \notin Live
    BY <1>4, FeedAssumption DEF Enabled, Inv, OneConsumer, Live
  <2>3. Reaped = None
    BY <2>2 DEF Reaped
  <2> QED BY <1>1, <1>2, <1>3, <1>4, <2>1, <2>3, BeginStopPreserves DEF Inv, TypeOK
<1>5. CASE /\ pc' = [pc EXCEPT ![Runner] = "over"]
           /\ UNCHANGED <<state, task, stopping, target>>
  <2>1. TypeOK'
    BY <1>1, <1>5 DEF Inv, TypeOK, PC
  <2>2. Live' = Live
    BY <1>5 DEF Live
  <2>3. WaitsAlone'
    BY <1>1, <1>2, <1>5 DEF Inv, TypeOK, WaitsAlone, Stopper
  <2>4. StopIsExclusive' /\ AutostartIsSpent'
    BY <1>1, <1>3, <1>5, <2>2 DEF Inv, TypeOK, StopIsExclusive, AutostartIsSpent
  <2> QED BY <1>5, <2>1, <2>2, <2>3, <2>4 DEF Inv, OneConsumer, EveryConsumerIsOwned
<1> QED BY <1>4, <1>5 DEF ShutDown

LEMMA ShutDownGoesOnPreserves == ASSUME Inv, ShutDownGoesOn PROVE Inv'
<1> USE DEF ShutDownGoesOn
<1>1. Runner \in Stopper /\ Runner \notin Caller /\ down
  BY FeedAssumption DEF Inv, WaitsAlone, Stopper
<1>2. TypeOK'
  BY <1>1 DEF Inv, TypeOK, PC
<1>3. Live' = Live
  BY DEF Live
<1>4. WaitsAlone'
  BY <1>1 DEF Inv, TypeOK, WaitsAlone, Stopper
<1>5. stopping' \in {stopping, None} /\ (stopping' = None => stopping \notin Live)
  BY <1>1, FeedAssumption DEF Inv, StopIsExclusive, Live
<1>6. StopIsExclusive' /\ AutostartIsSpent'
  BY <1>1, <1>3, <1>5 DEF Inv, TypeOK, StopIsExclusive, AutostartIsSpent
<1> QED BY <1>2, <1>3, <1>4, <1>5, <1>6 DEF Inv, OneConsumer, EveryConsumerIsOwned

LEMMA EndsPreserves == ASSUME Inv, NEW t \in Task, Ends(t) PROVE Inv'
<1>1. TypeOK'
  BY DEF Inv, TypeOK, TaskState, Ends
<1>2. Live' = Live \ {t}
  BY DEF Live, Inv, TypeOK, Ends
<1> QED
  BY <1>1, <1>2 DEF Inv, Ends, WaitsAlone, StopIsExclusive, AutostartIsSpent, OneConsumer,
     EveryConsumerIsOwned

----------------------------------------------------------------------------
LEMMA NextPreserves == Inv /\ [Next]_vars => Inv'
<1> SUFFICES ASSUME Inv, [Next]_vars PROVE Inv'
  OBVIOUS
<1>1. ASSUME NEW k \in Caller, StopTimesOut(k) PROVE Inv'
  <2>1. pc[k] # "idle" /\ lock = k
    BY <1>1 DEF StopTimesOut, Inv, WaitsAlone
  <2> QED BY <1>1, <2>1, LeavePreserves, FeedAssumption DEF StopTimesOut, Leave, Inv, StopIsExclusive,
             Stopper, Live
<1>2. ASSUME NEW k \in Caller, Cancelled(k) PROVE Inv'
  <2>1. pc[k] # "idle"
    BY <1>2 DEF Cancelled
  <2>2. stopping = None => stopping \notin Live
    BY FeedAssumption DEF Live
  <2> QED BY <1>2, <2>1, <2>2, LeavePreserves, FeedAssumption DEF Cancelled, Live
<1>3. CASE UNCHANGED vars
  <2>1. Live' = Live
    BY <1>3 DEF vars, Live
  <2> QED BY <1>3, <2>1 DEF vars, Inv, TypeOK, WaitsAlone, StopIsExclusive, AutostartIsSpent,
             OneConsumer, EveryConsumerIsOwned
<1> QED
  BY <1>1, <1>2, <1>3, CallsPreserves, EnablePreserves, DisablePreserves, StopReturnsPreserves,
     StartNowPreserves, ShutDownPreserves, ShutDownGoesOnPreserves, EndsPreserves DEF Next

THEOREM InvHolds == Spec => []Inv
<1>1. Init => Inv
  BY InitInv
<1> QED
  BY <1>1, NextPreserves, PTL DEF Spec

(* The states are the ones TypeOK lists: a consumer never runs at a settle *)
(* period nobody asked for.                                                *)
THEOREM TypeCorrect == Spec => []TypeOK
<1>1. Inv => TypeOK
  BY DEF Inv
<1> QED BY <1>1, InvHolds, PTL

(* However starts, stops, time-outs, cancellations and the shutdown of     *)
(* feed_lifecycle interleave, at most one consumer runs.                   *)
THEOREM ThereIsOneConsumer == Spec => []OneConsumer
<1>1. Inv => OneConsumer
  BY DEF Inv
<1> QED BY <1>1, InvHolds, PTL

(* A consumer whose stop timed out or was abandoned stays the stopping     *)
(* task: no running consumer is ever nobody's.                             *)
THEOREM ConsumersAreOwned == Spec => []EveryConsumerIsOwned
<1>1. Inv => EveryConsumerIsOwned
  BY DEF Inv
<1> QED BY <1>1, InvHolds, PTL

(* feed_state() says "stopped" or "failed" only when no consumer is left   *)
(* to take a burst.                                                        *)
THEOREM StateIsTold == Spec => []StateIsReportedAsItIs
<1>1. Inv => StateIsReportedAsItIs
  BY FeedAssumption DEF Inv, StateIsReportedAsItIs, FeedState, OneConsumer, EveryConsumerIsOwned, Live
<1> QED BY <1>1, InvHolds, PTL
=============================================================================

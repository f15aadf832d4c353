--------------------------- MODULE SecretManager ---------------------------
(***************************************************************************)
(* The secret-chat managers of telegram_mcp/secret_backend.py: one started *)
(* manager per account, built lazily under one lock over the account's     *)
(* current client, replaced when that client is replaced, and flushed by   *)
(* close_all() at shutdown, which runner.py bounds by a deadline.          *)
(*                                                                         *)
(* Abstractions.  A client is its generation under its label; generation 0 *)
(* is none.  _by_account and _verified_against are set and popped together *)
(* and are one map.  A manager (external) runs from a start() that returns *)
(* to a stop() that returns; a stop() that raises may have stopped it or   *)
(* not; a start() that raises or is cancelled leaves nothing running.      *)
(***************************************************************************)
EXTENDS Naturals

CONSTANTS
  Account,
  Caller,       \* tool calls that ask for a manager
  Closer,       \* callers of close_all(), each under its deadline
  MaxGeneration \* bound: how often an account's client is replaced

NoOne == "none"

SecretManagerAssumption ==
  /\ Account # {}
  /\ MaxGeneration \in Nat \ {0}
  /\ Caller \cap Closer = {}
  /\ NoOne \notin Caller \cup Closer

VARIABLES
  generation, \* of each account's current client
  closing,    \* _closing
  lock,       \* who holds _lock
  manager,    \* _by_account: the generation its manager was built over
  running,    \* managers whose subscription is live, as account and generation
  named,      \* the accounts whose flush close_all() reports as failed
  call,       \* a tool call: where it is, its account, the client it read
  close       \* a close_all(): where it is, the account it is flushing

managerVars == <<generation, closing, lock, manager, running, named, call, close>>

Generation == 1..MaxGeneration
Call  == [pc : {"idle", "queued", "stopping", "starting", "has", "refused", "failed"},
          account : Account, client : Generation]
Close == [pc : {"idle", "queued", "closing", "flushing", "done", "late"},
          account : Account, manager : Generation \cup {0}]

TypeOK ==
  /\ generation \in [Account -> Generation]
  /\ closing \in BOOLEAN
  /\ lock \in Caller \cup Closer \cup {NoOne}
  /\ manager \in [Account -> Generation \cup {0}]
  /\ running \subseteq Account \X Generation
  /\ named \subseteq Account
  /\ call \in [Caller -> Call]
  /\ close \in [Closer -> Close]

Init ==
  /\ generation = [a \in Account |-> 1]
  /\ closing = FALSE
  /\ lock = NoOne
  /\ manager = [a \in Account |-> 0]
  /\ running = {}
  /\ named = {}
  /\ call = [c \in Caller |-> [pc |-> "idle", account |-> CHOOSE a \in Account : TRUE, client |-> 1]]
  /\ close = [k \in Closer |-> [pc |-> "idle", account |-> CHOOSE a \in Account : TRUE, manager |-> 0]]

----------------------------------------------------------------------------
(* secret_manager().  Definitions whose name says what they get wrong are  *)
(* defects the checks must notice; no action uses them.                    *)

Goes(c, pc) == call' = [call EXCEPT ![c].pc = pc]

(* A call arrives: _closing and the client are read before the lock.       *)
Ask(c, a) ==
  /\ call[c].pc \in {"idle", "has", "refused", "failed"}
  /\ call' = [call EXCEPT ![c] = [pc |-> IF closing THEN "refused" ELSE "queued",
                                  account |-> a, client |-> generation[a]]]
  /\ UNCHANGED <<generation, closing, lock, manager, running, named, close>>

(* Both are read again under the lock.                                     *)
TrustsTheFirstLook(c) == FALSE
StaleClient(c) == closing \/ generation[call[c].account] # call[c].client

(* An existing manager is reused while its client is the current one.      *)
Reusable(c) == manager[call[c].account] = call[c].client

StartsBesideIt(c) == "starting"
AfterTheLock(c) == IF manager[call[c].account] = 0 THEN "starting" ELSE "stopping"

Enter(c) ==
  /\ call[c].pc = "queued" /\ lock = NoOne
  /\ IF StaleClient(c) THEN Goes(c, "refused") /\ UNCHANGED lock
     ELSE IF Reusable(c) THEN Goes(c, "has") /\ UNCHANGED lock
     ELSE Goes(c, AfterTheLock(c)) /\ lock' = c
  /\ UNCHANGED <<generation, closing, manager, running, named, close>>

RunningOf(a) == {m \in running : m[1] = a /\ m[2] = manager[a]}

(* The manager of a replaced client is stopped before its successor.       *)
StopReturns(c) ==
  /\ call[c].pc = "stopping"
  /\ running' = running \ RunningOf(call[c].account)
  /\ Goes(c, "starting")
  /\ UNCHANGED <<generation, closing, lock, manager, named, close>>

(* A stop that raises, or is cancelled, fails the call: the old manager    *)
(* stays registered, whether it stopped or not.                            *)
StopFails(c) ==
  /\ call[c].pc = "stopping"
  /\ running' \in {running, running \ RunningOf(call[c].account)}
  /\ Goes(c, "failed")
  /\ lock' = NoOne
  /\ UNCHANGED <<generation, closing, manager, named, close>>

StartReturns(c) ==
  /\ call[c].pc = "starting"
  /\ running' = running \cup {<<call[c].account, call[c].client>>}
  /\ manager' = [manager EXCEPT ![call[c].account] = call[c].client]
  /\ Goes(c, "has")
  /\ lock' = NoOne
  /\ UNCHANGED <<generation, closing, named, close>>

RegistersBeforeTheStart(c) ==
  /\ call[c].pc = "starting"
  /\ manager' = [manager EXCEPT ![call[c].account] = call[c].client]
  /\ Goes(c, "failed")
  /\ lock' = NoOne
  /\ UNCHANGED <<generation, closing, running, named, close>>

StartFails(c) ==
  /\ call[c].pc = "starting"
  /\ Goes(c, "failed")
  /\ lock' = NoOne
  /\ UNCHANGED <<generation, closing, manager, running, named, close>>

(* The budget of the call ends while it waits for the lock.                *)
Cancelled(c) ==
  /\ call[c].pc = "queued"
  /\ Goes(c, "failed")
  /\ UNCHANGED <<generation, closing, lock, manager, running, named, close>>

(* refresh_accounts() or a reconfiguration: another client (external).     *)
Replace(a) ==
  /\ generation[a] < MaxGeneration
  /\ generation' = [generation EXCEPT ![a] = @ + 1]
  /\ UNCHANGED <<closing, lock, manager, running, named, call, close>>

----------------------------------------------------------------------------
(* close_all() *)

BeginClose(k) ==
  /\ close[k].pc = "idle"
  /\ closing' = TRUE
  /\ close' = [close EXCEPT ![k].pc = "queued"]
  /\ UNCHANGED <<generation, lock, manager, running, named, call>>

CloseEnters(k) ==
  /\ close[k].pc = "queued" /\ lock = NoOne
  /\ lock' = k
  /\ close' = [close EXCEPT ![k].pc = "closing"]
  /\ UNCHANGED <<generation, closing, manager, running, named, call>>

(* The next account: its manager is popped before it is stopped.           *)
Pop(k, a) ==
  /\ close[k].pc = "closing" /\ manager[a] # 0
  /\ manager' = [manager EXCEPT ![a] = 0]
  /\ close' = [close EXCEPT ![k] = [pc |-> "flushing", account |-> a, manager |-> manager[a]]]
  /\ UNCHANGED <<generation, closing, lock, running, named, call>>

Popped(k) == <<close[k].account, close[k].manager>>

Flushed(k) ==
  /\ close[k].pc = "flushing"
  /\ running' = running \ {Popped(k)}
  /\ close' = [close EXCEPT ![k].pc = "closing"]
  /\ UNCHANGED <<generation, closing, lock, manager, named, call>>

(* A failure is collected and the next account goes on.                    *)
FlushFails(k) ==
  /\ close[k].pc = "flushing"
  /\ running' \in {running, running \ {Popped(k)}}
  /\ named' = named \cup {close[k].account}
  /\ close' = [close EXCEPT ![k].pc = "closing"]
  /\ UNCHANGED <<generation, closing, lock, manager, call>>

CloseReturns(k) ==
  /\ close[k].pc = "closing" /\ \A a \in Account : manager[a] = 0
  /\ lock' = NoOne
  /\ close' = [close EXCEPT ![k].pc = "done"]
  /\ UNCHANGED <<generation, closing, manager, running, named, call>>

(* wait_for(_BACKEND_CLOSE_SECONDS): what was popped and not flushed is    *)
(* named by nobody; the note says that the closing did not finish.         *)
WaitsForTheLock(k) == {"closing", "flushing"}
Closing(k) == {"queued", "closing", "flushing"}

Deadline(k) ==
  /\ close[k].pc \in Closing(k)
  /\ running' \in IF close[k].pc = "flushing" THEN {running, running \ {Popped(k)}}
                  ELSE {running}
  /\ lock' = IF lock = k THEN NoOne ELSE lock
  /\ close' = [close EXCEPT ![k].pc = "late"]
  /\ UNCHANGED <<generation, closing, manager, named, call>>

----------------------------------------------------------------------------
Next ==
  \/ \E c \in Caller :
       \/ \E a \in Account : Ask(c, a)
       \/ Enter(c) \/ Cancelled(c)
       \/ StopReturns(c) \/ StopFails(c)
       \/ StartReturns(c) \/ StartFails(c)
  \/ \E a \in Account : Replace(a)
  \/ \E k \in Closer :
       \/ BeginClose(k) \/ CloseEnters(k)
       \/ \E a \in Account : Pop(k, a)
       \/ Flushed(k) \/ FlushFails(k) \/ CloseReturns(k) \/ Deadline(k)

(* The deadline of the shutdown is a timer: nothing can put it off.        *)
Fairness == \A k \in Closer : WF_managerVars(Deadline(k))

Spec == Init /\ [][Next]_managerVars /\ Fairness

----------------------------------------------------------------------------
(* Two managers over one account would be two key stores for one           *)
(* conversation: at most one runs, whatever was replaced, failed or was    *)
(* cancelled while the next one was built.                                 *)
OneManagerPerAccount == \A m, n \in running : m[1] = n[1] => m = n

(* What a call may be handed without starting anything is live: a failed   *)
(* start or stop leaves nothing registered under the current client.       *)
ReusableManagerRuns ==
  \A a \in Account : manager[a] = generation[a] => <<a, manager[a]>> \in running

(* Once close_all() has returned in time, a manager still running is one   *)
(* of an account it named, and no call starts another behind the flush.    *)
EveryManagerIsFlushedOrNamed ==
  (\E k \in Closer : close[k].pc = "done") /\ (\A k \in Closer : close[k].pc # "late")
    => \A m \in running : m[1] \in named

(* The shutdown gets past the managers, also behind a call that starts one *)
(* for ever.                                                               *)
ShutdownPassesTheManagers ==
  \A k \in Closer : close[k].pc = "queued" ~> close[k].pc \in {"done", "late"}

(* A call is handed a manager over the client the account has now: the     *)
(* text of the refusal speaks of a client replaced while its backend was   *)
(* being started, which is looked at before the start and not after.       *)
HandedManagerIsCurrent ==
  [][\A c \in Caller : call[c].pc # "has" /\ call'[c].pc = "has"
       => call'[c].client = generation'[call'[c].account]]_managerVars
----------------------------------------------------------------------------
(* The invariant behind the first three.  _lock is held by the call or the *)
(* close_all() that is past it.                                            *)
LockIsHeld ==
  /\ \A c \in Caller : call[c].pc \in {"stopping", "starting"} <=> lock = c
  /\ \A k \in Closer : close[k].pc \in {"closing", "flushing"} <=> lock = k
  /\ \A k \in Closer : close[k].pc # "idle" => closing

(* A manager is never of a later client than the account's, and a call     *)
(* replaces one of an earlier client only.                                 *)
ManagersAreOfTheirTime ==
  /\ \A a \in Account : manager[a] <= generation[a]
  /\ \A c \in Caller :
       /\ call[c].client <= generation[call[c].account]
       /\ call[c].pc \in {"stopping", "starting"} => manager[call[c].account] < call[c].client

(* What runs is registered, or was popped by a close_all(): before that,   *)
(* and while a call has the lock, there is nothing popped.                 *)
WhatRunsIsRegistered ==
  /\ \A m \in running : manager[m[1]] = m[2] \/ manager[m[1]] = 0
  /\ ~closing \/ lock \in Caller => \A m \in running : manager[m[1]] = m[2]
  /\ \A c \in Caller : call[c].pc = "starting" => \A m \in running : m[1] # call[c].account

(* Without a deadline that passed, what runs unregistered is being flushed *)
(* or was named; and a flush that is done leaves nothing to register.      *)
FlushIsOfThePopped ==
  /\ \A k \in Closer : close[k].pc = "flushing" => manager[close[k].account] = 0
  /\ (\A k \in Closer : close[k].pc # "late") =>
       \A m \in running : \/ manager[m[1]] = m[2] \/ m[1] \in named
                         \/ \E k \in Closer : close[k].pc = "flushing" /\ m = Popped(k)
  /\ (\E k \in Closer : close[k].pc = "done") =>
       /\ lock \notin Caller /\ \A a \in Account : manager[a] = 0
       /\ \A k \in Closer : close[k].pc # "flushing"

Inv ==
  /\ TypeOK /\ LockIsHeld /\ ManagersAreOfTheirTime /\ WhatRunsIsRegistered /\ FlushIsOfThePopped
  /\ OneManagerPerAccount /\ ReusableManagerRuns
=============================================================================

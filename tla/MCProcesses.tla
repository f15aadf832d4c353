---------------------------- MODULE MCProcesses -----------------------------
(* What one server process holds and must let go of, each on its own: the  *)
(* leases of its accounts, the managers of their secret chats, the timer   *)
(* and the history of such a chat, a child it decodes with, the sessions   *)
(* of its HTTP clients, and the test run under guard beside it.  A         *)
(* behaviour is one of them, chosen at the start.                          *)
EXTENDS Admission, Sequences, TLAPS

(* Those of the leases come with Admission; the rest keep the names they   *)
(* have in their own modules, but for the clients over HTTP and the calls  *)
(* and the reported sends of a secret chat.                                *)
CONSTANTS
  Account, Caller, Closer, MaxGeneration,
  Sender, Seconds, HistoryMax, MaxMessages, MaxRestarts,
  Limit, PipeSize, MaxWrites,
  Root, Child, Stranger, Hosts,
  HttpClient, MaxSessions, MaxIds, MaxRuns,
  c3, s1, s2, work  \* for MCLabelOf and MCSessionOf

VARIABLES
  part,
  generation, closing, lock, manager, running, named, call, close,
  timer, chosen, broken, told, sent, log, memory, disk, reported, gone, wiped, swept, scratch, restarts, secretCall,
  pc, outcome, child, helper, contained, reader, pipe, written, kept, overflowed, expired, cancelled, caller,
  host, at, alive, used, parent, ran, group, tree, handles, seen, passed, code,
  run, sessions, made, http

managers == <<generation, closing, lock, manager, running, named, call, close>>
secretChat == <<timer, chosen, broken, told, sent, log, memory, disk, reported, gone, wiped, swept,
                scratch, restarts, secretCall>>
childVars == <<pc, outcome, child, helper, contained, reader, pipe, written, kept, overflowed,
               expired, cancelled, caller>>
testRun == <<host, at, alive, used, parent, ran, group, tree, handles, seen, passed, code>>
clients == <<run, sessions, made, http>>
vars == <<part, admissionVars, managers, secretChat, childVars, testRun, clients>>

(* One label; c3 is its account logged in anew.                            *)
MCLabelOf   == [c \in Client |-> work]
MCSessionOf == [c \in Client |-> IF c = c3 THEN s2 ELSE s1]

M == INSTANCE SecretManager
T == INSTANCE SecretChat WITH
       Call <- Sender, Overlap <- FALSE, LateTimer <- FALSE, SameSecond <- FALSE, kept <- reported, call <- secretCall
B == INSTANCE BoundedProcess
G == INSTANCE GuardedProcess WITH Readable <- TRUE
H == INSTANCE HttpSessions WITH Client <- HttpClient, alive <- sessions, client <- http

ASSUME ProcessesAssumption ==
  /\ M!SecretManagerAssumption /\ T!SecretChatAssumption
  /\ B!BoundedProcessAssumption /\ G!GuardedAssumption /\ H!HttpSessionsAssumption

MCInit ==
  /\ part \in {"leases", "managers", "secret chat", "child", "tests", "clients"}
  /\ AdmissionInit /\ M!Init /\ T!Init /\ B!Init /\ G!Init /\ H!Init
  /\ part # "leases" => holder = [session \in Session |-> None]
  /\ timer = 0
  /\ part # "child" => contained /\ ~expired
  /\ part # "tests" => host = "posix"

MCNext ==
  /\ UNCHANGED part
  /\ IF part = "leases"       THEN AdmissionNext ELSE UNCHANGED admissionVars
  /\ IF part = "managers"     THEN M!Next ELSE UNCHANGED managers
  /\ IF part = "secret chat"  THEN T!Next ELSE UNCHANGED secretChat
  /\ IF part = "child"        THEN B!Next ELSE UNCHANGED childVars
  /\ IF part = "tests"        THEN G!Next ELSE UNCHANGED testRun
  /\ IF part = "clients"      THEN H!Next ELSE UNCHANGED clients

(* Nothing that is owed is enabled in a part that was not begun.           *)
MCFairness == AdmissionFairness /\ M!Fairness /\ B!Fairness /\ G!Fairness /\ H!Fairness

MCSpec == MCInit /\ [][MCNext]_vars /\ MCFairness

----------------------------------------------------------------------------
(* Two managers of one account never run at once, one that is reused runs, *)
(* and after the shutdown one that still runs was named.                   *)
ManagersAreKept ==
  M!OneManagerPerAccount /\ M!ReusableManagerRuns /\ M!EveryManagerIsFlushedOrNamed

(* A secret chat keeps its owner's timer, what was deleted stays deleted,  *)
(* and what was reported sent is remembered.                               *)
SecretsAreKept == T!TimerIsTheOwners /\ T!DeletedStaysDeleted /\ T!ReportedSendIsRemembered

(* A call and a test run that are over leave nothing running and end       *)
(* nothing that was not theirs, and a result reported whole is whole.      *)
ChildrenAreDoneWith ==
  B!CompletedIsWhole /\ B!NothingSurvives /\ G!NothingIsLeft /\ G!StrangersLive

(* A call over HTTP is served only to a client that listed this run's tools. *)
ServedIsCurrent == H!ServedIsCurrent

(* The shutdown gets past the managers; every call of a child and every    *)
(* guarded run ends; a client whose session was lost is not left behind.   *)
EverythingEnds ==
  /\ M!ShutdownPassesTheManagers
  /\ B!EveryCallEnds /\ G!EveryRunEnds
  /\ H!LostSessionsComeBack

----------------------------------------------------------------------------
(* The proofs about MCSpec, for every value of its constants: any number   *)
(* of accounts, callers, closers, senders, children, strangers and         *)
(* clients, and any bounds.  Each part has an inductive invariant of its   *)
(* own, Inv in its module; a step of another part leaves it as it is.      *)

(* The managers.  That one runs at a time needs to know who has the lock,  *)
(* that no manager is of a client to come, and that before the shutdown    *)
(* what runs is what is registered; what the flush owes, which of those it *)
(* popped it still has in hand.                                            *)

LEMMA ManagersInit == M!Init => M!Inv
<1> SUFFICES ASSUME M!Init PROVE M!Inv
  OBVIOUS
<1>1. PICK a0 \in Account :
        /\ call = [c \in Caller |-> [pc |-> "idle", account |-> a0, client |-> 1]]
        /\ close = [k \in Closer |-> [pc |-> "idle", account |-> a0, manager |-> 0]]
  BY ProcessesAssumption DEF M!SecretManagerAssumption, M!Init
<1>2. M!TypeOK
  <2>1. 1 \in M!Generation
    BY ProcessesAssumption DEF M!SecretManagerAssumption, M!Generation
  <2>2. call \in [Caller -> M!Call] /\ close \in [Closer -> M!Close]
    BY <1>1, <2>1 DEF M!Call, M!Close
  <2> QED BY <2>1, <2>2 DEF M!Init, M!TypeOK
<1>3. M!LockIsHeld /\ M!ManagersAreOfTheirTime
  <2>1. /\ \A c \in Caller : call[c].pc = "idle" /\ call[c].account = a0 /\ call[c].client = 1
        /\ \A k \in Closer : close[k].pc = "idle"
    BY <1>1
  <2>2. lock = M!NoOne /\ \A a \in Account : manager[a] = 0 /\ generation[a] = 1
    BY DEF M!Init
  <2> QED BY <2>1, <2>2, ProcessesAssumption DEF M!LockIsHeld, M!ManagersAreOfTheirTime, M!SecretManagerAssumption
<1>4. M!WhatRunsIsRegistered /\ M!FlushIsOfThePopped /\ M!OneManagerPerAccount
  BY ProcessesAssumption DEF M!Init, M!WhatRunsIsRegistered, M!FlushIsOfThePopped, M!OneManagerPerAccount, M!SecretManagerAssumption
<1>5. M!ReusableManagerRuns
  BY DEF M!Init, M!ReusableManagerRuns
<1> QED BY <1>2, <1>3, <1>4, <1>5 DEF M!Inv

LEMMA ManagersCallStep ==
  ASSUME M!Inv, NEW c \in Caller, (\E a \in Account : M!Ask(c, a)) \/ M!Enter(c) \/ M!Cancelled(c)
  PROVE  M!Inv'
<1> USE ProcessesAssumption DEF M!SecretManagerAssumption
<1>0. M!TypeOK
  BY DEF M!Inv
<1>1. call' = [call EXCEPT ![c] = call'[c]] /\ call'[c] \in M!Call
  BY <1>0 DEF M!TypeOK, M!Call, M!Ask, M!Enter, M!Cancelled, M!Goes, M!StaleClient, M!Reusable, M!AfterTheLock
<1>2. /\ UNCHANGED <<generation, closing, manager, running, named, close>>
      /\ lock' \in {lock, c} /\ (lock' = c => lock' = lock \/ lock = M!NoOne)
  BY DEF M!Ask, M!Enter, M!Cancelled
<1>3. M!TypeOK'
  BY <1>0, <1>1, <1>2 DEF M!TypeOK
<1>4. \A d \in Caller \ {c} : call'[d] = call[d]
  BY <1>0, <1>1 DEF M!TypeOK
<1>5. \/ call'[c].pc \notin {"stopping", "starting"} /\ lock' = lock /\ call[c].pc \notin {"stopping", "starting"}
      \/ /\ lock = M!NoOne /\ lock' = c /\ ~closing /\ call'[c].pc = M!AfterTheLock(c)
         /\ call'[c].account = call[c].account /\ call'[c].client = call[c].client
         /\ generation[call[c].account] = call[c].client /\ manager[call[c].account] # call[c].client
  BY <1>0 DEF M!TypeOK, M!Call, M!Ask, M!Enter, M!Cancelled, M!Goes, M!StaleClient, M!Reusable, M!AfterTheLock
<1>6. M!LockIsHeld'
  BY <1>0, <1>1, <1>2, <1>4, <1>5 DEF M!Inv, M!LockIsHeld, M!AfterTheLock, M!TypeOK, M!Call
<1>7. call'[c].client <= generation[call'[c].account]
  BY <1>0 DEF M!Inv, M!ManagersAreOfTheirTime, M!TypeOK, M!Call, M!Generation, M!Ask, M!Enter, M!Cancelled, M!Goes, M!AfterTheLock
<1>8. M!ManagersAreOfTheirTime'
  BY <1>0, <1>1, <1>2, <1>4, <1>5, <1>7 DEF M!Inv, M!ManagersAreOfTheirTime, M!TypeOK, M!Call, M!Generation
<1>9. call'[c].pc = "starting" => \A m \in running : m[1] # call'[c].account
  <2> SUFFICES ASSUME call'[c].pc = "starting", NEW m \in running PROVE m[1] # call'[c].account
    OBVIOUS
  <2>1. ~closing /\ manager[call'[c].account] = 0
    BY <1>5 DEF M!AfterTheLock
  <2>2. m[2] \in M!Generation /\ manager[m[1]] = m[2]
    BY <1>0, <2>1 DEF M!Inv, M!WhatRunsIsRegistered, M!TypeOK
  <2> QED BY <2>1, <2>2 DEF M!Generation
<1>10. M!WhatRunsIsRegistered'
  BY <1>0, <1>1, <1>2, <1>4, <1>5, <1>9 DEF M!Inv, M!WhatRunsIsRegistered, M!TypeOK
<1>11. M!FlushIsOfThePopped'
  BY <1>0, <1>2, <1>5 DEF M!Inv, M!FlushIsOfThePopped, M!Popped, M!LockIsHeld, M!TypeOK
<1>12. M!OneManagerPerAccount' /\ M!ReusableManagerRuns'
  BY <1>2 DEF M!Inv, M!OneManagerPerAccount, M!ReusableManagerRuns
<1> QED BY <1>3, <1>6, <1>8, <1>10, <1>11, <1>12 DEF M!Inv

LEMMA ManagersWorkStep ==
  ASSUME M!Inv, NEW c \in Caller, M!StopReturns(c) \/ M!StopFails(c) \/ M!StartReturns(c) \/ M!StartFails(c)
  PROVE  M!Inv'
<1> USE ProcessesAssumption DEF M!SecretManagerAssumption
<1> DEFINE a == call[c].account
           g == call[c].client
<1>0. /\ M!TypeOK /\ lock = c /\ call[c].pc \in {"stopping", "starting"}
      /\ a \in Account /\ g \in M!Generation
  BY DEF M!Inv, M!LockIsHeld, M!TypeOK, M!Call, M!StopReturns, M!StopFails, M!StartReturns, M!StartFails
<1>1. /\ UNCHANGED <<generation, closing, named, close>>
      /\ \/ call'[c].pc = "starting" /\ lock' = lock
         \/ call'[c].pc \in {"has", "failed"} /\ lock' = M!NoOne
      /\ call'[c] \in M!Call /\ call' = [call EXCEPT ![c] = call'[c]]
      /\ call'[c].account = a /\ call'[c].client = g
  BY <1>0 DEF M!TypeOK, M!Call, M!StopReturns, M!StopFails, M!StartReturns, M!StartFails, M!Goes
<1>2. \A d \in Caller \ {c} : call'[d] = call[d] /\ call[d].pc \notin {"stopping", "starting"}
  BY <1>0, <1>1 DEF M!TypeOK, M!Inv, M!LockIsHeld
<1>3. \A m \in running : m \in Account \X M!Generation /\ manager[m[1]] = m[2]
  BY <1>0 DEF M!Inv, M!WhatRunsIsRegistered, M!TypeOK
<1>4. \A k \in Closer : close[k].pc \notin {"closing", "flushing", "done"}
  BY <1>0 DEF M!Inv, M!LockIsHeld, M!FlushIsOfThePopped
<1>5. M!RunningOf(a) = {m \in running : m[1] = a}
  BY <1>3 DEF M!RunningOf
<1>6. CASE running' \in {running, running \ M!RunningOf(a)} /\ manager' = manager
  <2>1. M!TypeOK' /\ M!LockIsHeld'
    BY <1>0, <1>1, <1>2, <1>4, <1>6 DEF M!TypeOK, M!Inv, M!LockIsHeld
  <2>2. M!ManagersAreOfTheirTime'
    BY <1>0, <1>1, <1>2, <1>6 DEF M!Inv, M!ManagersAreOfTheirTime
  <2>3. call'[c].pc = "starting" => \A m \in running' : m[1] # a
    BY <1>0, <1>3, <1>5 DEF M!StopReturns, M!StopFails, M!StartReturns, M!StartFails, M!Goes, M!TypeOK, M!Call
  <2>4. M!WhatRunsIsRegistered'
    BY <1>1, <1>2, <1>3, <1>6, <2>3 DEF M!WhatRunsIsRegistered
  <2>5. M!FlushIsOfThePopped'
    BY <1>1, <1>3, <1>4, <1>6 DEF M!FlushIsOfThePopped
  <2>6. M!OneManagerPerAccount'
    BY <1>6 DEF M!Inv, M!OneManagerPerAccount
  <2>7. M!ReusableManagerRuns'
    <3> SUFFICES ASSUME NEW b \in Account, manager[b] = generation[b] PROVE <<b, manager[b]>> \in running'
      BY <1>1, <1>6 DEF M!ReusableManagerRuns
    <3>1. b # a
      BY <1>0 DEF M!Inv, M!ManagersAreOfTheirTime, M!TypeOK, M!Generation
    <3> QED BY <1>5, <1>6, <3>1 DEF M!Inv, M!ReusableManagerRuns
  <2> QED BY <2>1, <2>2, <2>4, <2>5, <2>6, <2>7 DEF M!Inv
<1>7. CASE M!StartReturns(c)
  <2>1. /\ running' = running \cup {<<a, g>>} /\ manager' = [manager EXCEPT ![a] = g]
        /\ call[c].pc = "starting" /\ call'[c].pc = "has" /\ lock' = M!NoOne
    BY <1>0, <1>7 DEF M!StartReturns, M!Goes, M!TypeOK, M!Call
  <2>2. \A m \in running : m[1] # a
    BY <2>1 DEF M!Inv, M!WhatRunsIsRegistered
  <2>3. manager'[a] = g /\ \A b \in Account \ {a} : manager'[b] = manager[b]
    BY <1>0, <2>1 DEF M!TypeOK
  <2>4. M!TypeOK'
    BY <1>0, <1>1, <2>1 DEF M!TypeOK
  <2>5. M!LockIsHeld'
    BY <1>0, <1>1, <1>2, <1>4, <2>1 DEF M!LockIsHeld, M!Inv
  <2>6. M!ManagersAreOfTheirTime'
    BY <1>0, <1>1, <1>2, <2>1, <2>3 DEF M!Inv, M!ManagersAreOfTheirTime
  <2>7. \A m \in running' : manager'[m[1]] = m[2]
    BY <1>3, <2>1, <2>2, <2>3
  <2>8. M!WhatRunsIsRegistered'
    BY <1>1, <1>2, <2>1, <2>7 DEF M!WhatRunsIsRegistered
  <2>9. M!FlushIsOfThePopped'
    BY <1>1, <1>4, <2>7 DEF M!FlushIsOfThePopped
  <2>10. M!OneManagerPerAccount'
    BY <2>1, <2>2 DEF M!Inv, M!OneManagerPerAccount
  <2>11. M!ReusableManagerRuns'
    BY <1>1, <2>1, <2>3 DEF M!Inv, M!ReusableManagerRuns
  <2> QED BY <2>4, <2>5, <2>6, <2>8, <2>9, <2>10, <2>11 DEF M!Inv
<1> QED BY <1>6, <1>7 DEF M!StopReturns, M!StopFails, M!StartFails

LEMMA ManagersCloseStep ==
  ASSUME M!Inv, NEW k \in Closer,
         M!BeginClose(k) \/ M!CloseEnters(k) \/ M!CloseReturns(k) \/ (M!Deadline(k) /\ close[k].pc # "flushing")
  PROVE  M!Inv'
<1> USE ProcessesAssumption DEF M!SecretManagerAssumption
<1>0. M!TypeOK
  BY DEF M!Inv
<1>1. /\ UNCHANGED <<generation, manager, running, named, call>>
      /\ close'[k] \in M!Close /\ \A i \in Closer \ {k} : close'[i] = close[i]
      /\ close' \in [Closer -> M!Close]
  BY <1>0 DEF M!TypeOK, M!Close, M!BeginClose, M!CloseEnters, M!CloseReturns, M!Deadline
<1>2. M!TypeOK'
  BY <1>0, <1>1 DEF M!TypeOK, M!BeginClose, M!CloseEnters, M!CloseReturns, M!Deadline
<1>3. close[k].pc # "idle" => closing
  BY DEF M!Inv, M!LockIsHeld
<1>4. closing' /\ close'[k].pc \in {"queued", "closing", "done", "late"} /\ (closing => closing')
  BY <1>0, <1>3 DEF M!BeginClose, M!CloseEnters, M!CloseReturns, M!Deadline, M!Closing, M!TypeOK, M!Close
<1>5. M!LockIsHeld'
  <2>1. \A i \in Closer \ {k} : close'[i].pc \in {"closing", "flushing"} <=> lock' = i
    BY <1>0, <1>1 DEF M!Inv, M!LockIsHeld, M!BeginClose, M!CloseEnters, M!CloseReturns, M!Deadline
  <2>2. close'[k].pc \in {"closing", "flushing"} <=> lock' = k
    <3>1. \/ close'[k].pc = "queued" /\ lock' = lock /\ close[k].pc = "idle"
          \/ M!CloseEnters(k) \/ M!CloseReturns(k) \/ M!Deadline(k)
      BY <1>0 DEF M!BeginClose, M!TypeOK, M!Close
    <3>2. CASE M!CloseEnters(k)
      BY <1>0, <3>2 DEF M!CloseEnters, M!TypeOK, M!Close
    <3>3. CASE M!CloseReturns(k)
      BY <1>0, <3>3 DEF M!CloseReturns, M!TypeOK, M!Close
    <3>4. CASE M!Deadline(k)
      BY <1>0, <3>4 DEF M!Deadline, M!TypeOK, M!Close
    <3> QED BY <3>1, <3>2, <3>3, <3>4 DEF M!Inv, M!LockIsHeld
  <2>3. \A c \in Caller : call'[c].pc \in {"stopping", "starting"} <=> lock' = c
    BY <1>0, <1>1 DEF M!Inv, M!LockIsHeld, M!BeginClose, M!CloseEnters, M!CloseReturns, M!Deadline
  <2> QED BY <1>1, <1>4, <2>1, <2>2, <2>3 DEF M!Inv, M!LockIsHeld
<1>6. lock' \in Caller => lock = lock'
  BY <1>0 DEF M!BeginClose, M!CloseEnters, M!CloseReturns, M!Deadline
<1>7. M!ManagersAreOfTheirTime' /\ M!OneManagerPerAccount' /\ M!ReusableManagerRuns'
  BY <1>1 DEF M!Inv, M!ManagersAreOfTheirTime, M!OneManagerPerAccount, M!ReusableManagerRuns
<1>8. M!WhatRunsIsRegistered'
  BY <1>1, <1>4, <1>6 DEF M!Inv, M!WhatRunsIsRegistered
<1>9. close[k].pc # "flushing" /\ close'[k].pc # "flushing"
  BY <1>0, <1>4 DEF M!BeginClose, M!CloseEnters, M!CloseReturns, M!Deadline
<1>10. (\A i \in Closer : close'[i].pc # "late") => \A i \in Closer : close[i].pc # "late"
  BY <1>0, <1>1 DEF M!BeginClose, M!CloseEnters, M!CloseReturns, M!Deadline, M!TypeOK, M!Close
<1>11. (\E i \in Closer : close'[i].pc = "done") =>
          /\ lock' \notin Caller /\ \A a \in Account : manager'[a] = 0
          /\ \A i \in Closer : close'[i].pc # "flushing"
  <2>1. CASE M!CloseReturns(k)
    <3>1. lock = k /\ lock' = M!NoOne /\ \A a \in Account : manager[a] = 0
      BY <2>1 DEF M!CloseReturns, M!Inv, M!LockIsHeld
    <3> QED BY <1>1, <1>9, <3>1 DEF M!Inv, M!LockIsHeld
  <2>2. CASE ~M!CloseReturns(k)
    <3>1. close'[k].pc # "done"
      BY <1>0, <2>2 DEF M!BeginClose, M!CloseEnters, M!Deadline, M!TypeOK, M!Close
    <3> QED BY <1>1, <1>6, <1>9, <3>1 DEF M!Inv, M!FlushIsOfThePopped
  <2> QED BY <2>1, <2>2
<1>12. M!FlushIsOfThePopped'
  <2>1. \A i \in Closer : close'[i].pc = "flushing" => close[i].pc = "flushing" /\ close'[i] = close[i]
    BY <1>1, <1>9
  <2>2. \A i \in Closer : close[i].pc = "flushing" => close'[i] = close[i]
    BY <1>1, <1>9
  <2> QED BY <1>1, <1>10, <1>11, <2>1, <2>2 DEF M!Inv, M!FlushIsOfThePopped, M!Popped
<1> QED BY <1>2, <1>5, <1>7, <1>8, <1>12 DEF M!Inv

LEMMA ManagersFlushStep ==
  ASSUME M!Inv, NEW k \in Closer,
         (\E a \in Account : M!Pop(k, a)) \/ M!Flushed(k) \/ M!FlushFails(k) \/ (M!Deadline(k) /\ close[k].pc = "flushing")
  PROVE  M!Inv'
<1> USE ProcessesAssumption DEF M!SecretManagerAssumption
<1>0. /\ M!TypeOK /\ lock = k /\ closing
      /\ \A i \in Closer \ {k} : close[i].pc \notin {"closing", "flushing"}
      /\ \A c \in Caller : call[c].pc \notin {"stopping", "starting"}
  BY DEF M!Inv, M!LockIsHeld, M!Pop, M!Flushed, M!FlushFails, M!Deadline
<1>1. UNCHANGED <<generation, closing, call>>
  BY DEF M!Pop, M!Flushed, M!FlushFails, M!Deadline
<1>2. /\ close'[k] \in M!Close /\ \A i \in Closer \ {k} : close'[i] = close[i]
      /\ close' \in [Closer -> M!Close]
      /\ \/ close'[k].pc \in {"closing", "flushing"} /\ lock' = k
         \/ close'[k].pc = "late" /\ lock' = M!NoOne
  <2>1. CASE \E a \in Account : M!Pop(k, a)
    BY <1>0, <2>1 DEF M!TypeOK, M!Close, M!Pop
  <2>2. CASE M!Flushed(k) \/ M!FlushFails(k)
    <3>1. close' = [close EXCEPT ![k].pc = "closing"] /\ lock' = lock
      BY <2>2 DEF M!Flushed, M!FlushFails
    <3> QED BY <1>0, <3>1 DEF M!TypeOK, M!Close
  <2>3. CASE M!Deadline(k)
    BY <1>0, <2>3 DEF M!TypeOK, M!Close, M!Deadline
  <2> QED BY <2>1, <2>2, <2>3
<1>3. M!TypeOK'
  <2>1. CASE \E a \in Account : M!Pop(k, a)
    BY <1>0, <1>2, <2>1 DEF M!TypeOK, M!Pop
  <2>2. CASE M!Flushed(k) \/ M!FlushFails(k)
    BY <1>0, <1>2, <2>2 DEF M!TypeOK, M!Close, M!Flushed, M!FlushFails
  <2>3. CASE M!Deadline(k)
    BY <1>0, <1>2, <2>3 DEF M!TypeOK, M!Deadline
  <2> QED BY <2>1, <2>2, <2>3
<1>5. M!LockIsHeld'
  BY <1>0, <1>1, <1>2 DEF M!LockIsHeld
<1>6. \A m \in running : m \in Account \X M!Generation
  BY <1>0 DEF M!TypeOK
<1>7. CASE \E a \in Account : M!Pop(k, a)
  <2>1. PICK a \in Account : M!Pop(k, a)
    BY <1>7
  <2>2. /\ manager' = [manager EXCEPT ![a] = 0] /\ running' = running /\ named' = named /\ lock' = lock
        /\ close'[k] = [pc |-> "flushing", account |-> a, manager |-> manager[a]]
        /\ manager[a] # 0 /\ close[k].pc = "closing"
    BY <1>0, <2>1 DEF M!Pop, M!TypeOK
  <2>3. manager'[a] = 0 /\ \A b \in Account \ {a} : manager'[b] = manager[b]
    BY <1>0, <2>2 DEF M!TypeOK
  <2>4. M!ManagersAreOfTheirTime'
    BY <1>0, <1>1, <2>3 DEF M!Inv, M!ManagersAreOfTheirTime, M!TypeOK, M!Call, M!Generation
  <2>5. \A m \in running : m[1] # a => manager'[m[1]] = manager[m[1]]
    BY <1>6, <2>3
  <2>6. M!WhatRunsIsRegistered'
    BY <1>0, <1>1, <2>2, <2>3, <2>5 DEF M!Inv, M!WhatRunsIsRegistered
  <2>7. M!OneManagerPerAccount' /\ M!ReusableManagerRuns'
    <3>1. \A b \in Account : manager'[b] = generation[b] => b # a
      BY <1>0, <2>3 DEF M!TypeOK, M!Generation
    <3> QED BY <1>1, <2>2, <2>3, <3>1 DEF M!Inv, M!OneManagerPerAccount, M!ReusableManagerRuns
  <2>8. M!Popped(k)' = <<a, manager[a]>>
    BY <2>2 DEF M!Popped
  <2>9. \A m \in running : m[1] = a /\ manager[a] = m[2] => m = <<a, manager[a]>>
    BY <1>6
  <2>10. \A i \in Closer : close'[i].pc = "flushing" => i = k
    BY <1>0, <1>2
  <2>11. \A i \in Closer : close[i].pc # "flushing"
    BY <1>0, <2>2
  <2>12. ASSUME \A i \in Closer : close'[i].pc # "late", NEW m \in running
         PROVE  \/ manager'[m[1]] = m[2] \/ m[1] \in named
                \/ close'[k].pc = "flushing" /\ m = M!Popped(k)'
    <3>1. \A i \in Closer : close[i].pc # "late"
      BY <1>0, <1>2, <2>2, <2>12
    <3>2. manager[m[1]] = m[2] \/ m[1] \in named
      BY <2>11, <3>1 DEF M!Inv, M!FlushIsOfThePopped
    <3> QED BY <2>2, <2>5, <2>8, <2>9, <3>2
  <2>13. \A i \in Closer : close'[i].pc # "done"
    BY <1>2, <2>1, <2>2 DEF M!Inv, M!FlushIsOfThePopped
  <2>14. M!FlushIsOfThePopped'
    BY <2>2, <2>3, <2>10, <2>12, <2>13 DEF M!FlushIsOfThePopped
  <2> QED BY <1>3, <1>5, <2>4, <2>6, <2>7, <2>14 DEF M!Inv
<1>8. CASE close[k].pc = "flushing"
  <2>1. /\ manager' = manager /\ running' \in {running, running \ {M!Popped(k)}}
        /\ named' \in {named, named \cup {close[k].account}} /\ close'[k].pc \in {"closing", "late"}
    <3>1. CASE M!Flushed(k) \/ M!FlushFails(k)
      <4>1. close' = [close EXCEPT ![k].pc = "closing"]
        BY <3>1 DEF M!Flushed, M!FlushFails
      <4>2. close'[k].pc = "closing"
        BY <1>0, <4>1 DEF M!TypeOK, M!Close
      <4> QED BY <3>1, <4>2 DEF M!Flushed, M!FlushFails
    <3>2. CASE M!Deadline(k)
      BY <1>0, <1>8, <3>2 DEF M!TypeOK, M!Close, M!Deadline
    <3> QED BY <1>8, <3>1, <3>2 DEF M!Pop
  <2>2. manager[M!Popped(k)[1]] = 0 /\ M!Popped(k)[1] \in Account /\ M!Popped(k)[1] = close[k].account
    BY <1>0, <1>8 DEF M!Inv, M!FlushIsOfThePopped, M!Popped, M!TypeOK, M!Close
  <2>3. M!ManagersAreOfTheirTime' /\ M!OneManagerPerAccount'
    BY <1>1, <2>1 DEF M!Inv, M!ManagersAreOfTheirTime, M!OneManagerPerAccount
  <2>4. M!WhatRunsIsRegistered'
    BY <1>0, <1>1, <1>2, <2>1 DEF M!Inv, M!WhatRunsIsRegistered
  <2>5. M!ReusableManagerRuns'
    <3>1. \A b \in Account : manager[b] = generation[b] => <<b, manager[b]>> # M!Popped(k)
      BY <1>0, <2>2 DEF M!TypeOK, M!Generation
    <3> QED BY <1>1, <2>1, <3>1 DEF M!Inv, M!ReusableManagerRuns
  <2>6. \A i \in Closer : close'[i].pc # "flushing"
    BY <1>0, <1>2, <2>1
  <2>7. ASSUME \A i \in Closer : close'[i].pc # "late", NEW m \in running'
        PROVE  manager[m[1]] = m[2] \/ m[1] \in named'
    <3>1. \A i \in Closer : close[i].pc # "late"
      BY <1>0, <1>2, <1>8, <2>7
    <3>2. m \in running /\ (m = M!Popped(k) => m[1] \in named')
      <4>1. CASE M!Flushed(k) \/ M!FlushFails(k)
        BY <2>2, <2>7, <4>1 DEF M!Flushed, M!FlushFails
      <4>2. CASE ~(M!Flushed(k) \/ M!FlushFails(k))
        <5>1. M!Deadline(k)
          BY <1>8, <4>2 DEF M!Pop
        <5>2. close'[k].pc = "late"
          BY <1>0, <5>1 DEF M!Deadline, M!TypeOK, M!Close
        <5> QED BY <2>7, <5>2
      <4> QED BY <4>1, <4>2
    <3>3. \/ manager[m[1]] = m[2] \/ m[1] \in named
          \/ \E i \in Closer : close[i].pc = "flushing" /\ m = M!Popped(i)
      BY <3>1, <3>2 DEF M!Inv, M!FlushIsOfThePopped
    <3> QED BY <1>0, <2>1, <3>2, <3>3
  <2>8. \A i \in Closer : close'[i].pc # "done"
    BY <1>2, <1>8, <2>1 DEF M!Inv, M!FlushIsOfThePopped
  <2>9. M!FlushIsOfThePopped'
    BY <2>1, <2>6, <2>7, <2>8 DEF M!FlushIsOfThePopped
  <2> QED BY <1>3, <1>5, <2>3, <2>4, <2>5, <2>9 DEF M!Inv
<1> QED BY <1>7, <1>8 DEF M!Flushed, M!FlushFails

LEMMA ManagersStep ==
  ASSUME M!Inv, [M!Next]_M!managerVars
  PROVE  M!Inv'
<1>1. ASSUME NEW a \in Account, M!Replace(a) PROVE M!Inv'
  <2>1. /\ UNCHANGED <<closing, lock, manager, running, named, call, close>>
        /\ generation' \in [Account -> M!Generation] /\ \A b \in Account : generation[b] <= generation'[b]
        /\ generation'[a] = generation[a] + 1 /\ \A b \in Account \ {a} : generation'[b] = generation[b]
    BY <1>1, ProcessesAssumption DEF M!Replace, M!Inv, M!TypeOK, M!Generation, M!SecretManagerAssumption
  <2>2. M!TypeOK /\ M!TypeOK'
    BY <2>1 DEF M!Inv, M!TypeOK
  <2>3. M!ManagersAreOfTheirTime'
    <3>1. \A b \in Account : manager[b] \in Nat /\ generation[b] \in Nat /\ generation'[b] \in Nat
      BY <2>1, <2>2 DEF M!TypeOK, M!Generation
    <3>2. \A c \in Caller : call[c].account \in Account /\ call[c].client \in Nat
      BY <2>2 DEF M!TypeOK, M!Call, M!Generation
    <3> QED BY <2>1, <3>1, <3>2 DEF M!Inv, M!ManagersAreOfTheirTime
  <2>4. M!ReusableManagerRuns'
    <3>1. manager[a] <= generation[a] /\ manager[a] \in Nat /\ generation[a] \in Nat
      BY <2>2 DEF M!Inv, M!ManagersAreOfTheirTime, M!TypeOK, M!Generation
    <3>2. manager[a] # generation'[a]
      BY <2>1, <3>1
    <3> QED BY <2>1, <3>2 DEF M!Inv, M!ReusableManagerRuns
  <2>5. M!LockIsHeld' /\ M!WhatRunsIsRegistered' /\ M!FlushIsOfThePopped' /\ M!OneManagerPerAccount'
    BY <2>1 DEF M!Inv, M!LockIsHeld, M!WhatRunsIsRegistered, M!FlushIsOfThePopped, M!Popped, M!OneManagerPerAccount
  <2> QED BY <2>2, <2>3, <2>4, <2>5 DEF M!Inv
<1>2. CASE UNCHANGED M!managerVars
  BY <1>2 DEF M!managerVars, M!Inv, M!TypeOK, M!LockIsHeld, M!ManagersAreOfTheirTime, M!WhatRunsIsRegistered, M!FlushIsOfThePopped,
              M!Popped, M!OneManagerPerAccount, M!ReusableManagerRuns
<1>3. ASSUME NEW c \in Caller,
             \/ \E a \in Account : M!Ask(c, a)
             \/ M!Enter(c) \/ M!Cancelled(c) \/ M!StopReturns(c) \/ M!StopFails(c) \/ M!StartReturns(c) \/ M!StartFails(c)
      PROVE M!Inv'
  BY <1>3, ManagersCallStep, ManagersWorkStep
<1>4. ASSUME NEW k \in Closer,
             \/ M!BeginClose(k) \/ M!CloseEnters(k) \/ \E a \in Account : M!Pop(k, a)
             \/ M!Flushed(k) \/ M!FlushFails(k) \/ M!CloseReturns(k) \/ M!Deadline(k)
      PROVE M!Inv'
  BY <1>4, ManagersCloseStep, ManagersFlushStep
<1> QED BY <1>1, <1>2, <1>3, <1>4 DEF M!Next

LEMMA ManagersPromise == M!Inv => M!OneManagerPerAccount /\ M!ReusableManagerRuns /\ M!EveryManagerIsFlushedOrNamed
<1> SUFFICES ASSUME M!Inv PROVE M!EveryManagerIsFlushedOrNamed
  BY DEF M!Inv
<1>1. \A m \in running : m[1] \in Account /\ m[2] \in Nat \ {0}
  BY ProcessesAssumption DEF M!Inv, M!TypeOK, M!Generation, M!SecretManagerAssumption
<1> QED BY <1>1 DEF M!Inv, M!FlushIsOfThePopped, M!EveryManagerIsFlushedOrNamed

----------------------------------------------------------------------------
(* The child.  What is reported complete was read to the end by a reader    *)
(* that left nothing in the pipe; what is over was ended before.           *)

LEMMA ChildInit == B!Init => B!Inv
<1> SUFFICES ASSUME B!Init PROVE B!Inv
  OBVIOUS
<1>1. B!TypeOK
  <2>1. B!Flags
    BY DEF B!Init, B!Flags
  <2>2. \A n \in {Limit, PipeSize, MaxWrites} : 0 \in 0..n
    BY ProcessesAssumption DEF B!BoundedProcessAssumption
  <2> QED BY <2>1, <2>2 DEF B!Init, B!TypeOK
<1>2. B!NothingBeforeTheCall
  BY DEF B!Init, B!NothingBeforeTheCall, B!Stream
<1>3. B!OutputIsAccountedFor /\ B!EndsAreInOrder
  BY DEF B!Init, B!OutputIsAccountedFor, B!EndsAreInOrder, B!Stream
<1> QED BY <1>1, <1>2, <1>3 DEF B!Inv

LEMMA ChildCallStep ==
  ASSUME B!Inv, B!Start \/ B!Poll \/ B!PollExit \/ B!Finish
  PROVE  B!Inv'
<1> USE DEF B!Stops, B!EndTree, B!Tree, B!Sinks, B!Bounds
<1>0. B!TypeOK
  BY DEF B!Inv
<1>1. UNCHANGED <<contained, pipe, written, kept, overflowed, expired, cancelled, caller>> /\ B!Flags'
  <2>1. UNCHANGED <<contained, pipe, written, kept, overflowed, expired, cancelled, caller>>
    BY DEF B!Start, B!Poll, B!PollExit, B!Finish
  <2> QED BY <1>0, <2>1 DEF B!TypeOK, B!Flags
<1>2. CASE B!Start
  <2>1. /\ child = "none" /\ helper = "none" /\ \A s \in B!Stream : reader[s] = "none"
        /\ pc = "idle" /\ outcome # "completed"
    BY <1>2 DEF B!Start, B!Inv, B!NothingBeforeTheCall, B!EndsAreInOrder
  <2>2. /\ helper' = helper /\ child' \in {child, "running"}
        /\ pc' \in {"over", "polling"} /\ outcome' \in {"exhausted", "not found", "none", "failed"}
        /\ reader' \in [B!Stream -> {"none", "reading", "ended"}]
        /\ reader'["out"] # "ended"
        /\ pc' = "over" /\ outcome' # "failed" => child' = child /\ reader' = reader
    BY <1>0, <1>2, <2>1 DEF B!Start, B!TypeOK, B!Stream
  <2>3. B!TypeOK'
    BY <1>0, <1>1, <2>2 DEF B!TypeOK
  <2>4. B!NothingBeforeTheCall' /\ B!OutputIsAccountedFor' /\ B!EndsAreInOrder'
    BY <1>1, <2>1, <2>2 DEF B!Inv, B!NothingBeforeTheCall, B!OutputIsAccountedFor, B!EndsAreInOrder, B!TreeIsEnded
  <2> QED BY <2>3, <2>4 DEF B!Inv
<1>3. CASE B!Poll \/ B!PollExit
  <2>1. /\ reader' = reader /\ pc \notin {"idle", "over"} /\ outcome # "completed"
        /\ \/ /\ pc' = "finishing" /\ child' = "reaped"
              /\ helper' = IF contained /\ helper # "none" THEN "gone" ELSE helper
              /\ outcome' \in {"none", "too large", "cancelled", "timed out"}
           \/ pc' \in {"polled", "polling"} /\ UNCHANGED <<outcome, child, helper>>
    BY <1>3 DEF B!Poll, B!PollExit, B!Inv, B!EndsAreInOrder
  <2>2. B!TypeOK'
    BY <1>0, <1>1, <2>1 DEF B!TypeOK
  <2>3. B!NothingBeforeTheCall' /\ B!OutputIsAccountedFor' /\ B!EndsAreInOrder'
    BY <1>1, <2>1 DEF B!Inv, B!NothingBeforeTheCall, B!OutputIsAccountedFor, B!EndsAreInOrder, B!TreeIsEnded, B!Alive
  <2> QED BY <2>2, <2>3 DEF B!Inv
<1>4. CASE B!Finish
  <2>1. /\ UNCHANGED <<child, helper, reader>> /\ pc = "finishing" /\ pc' = "over"
        /\ \A s \in B!Stream : reader[s] = "ended"
        /\ outcome # "completed"
    BY <1>4 DEF B!Finish, B!Inv, B!EndsAreInOrder
  <2>2. outcome' \in {outcome, "too large", "completed"} /\ (outcome' = "completed" => ~overflowed["out"])
    BY <1>4, <2>1 DEF B!Finish, B!Verdict
  <2>3. B!TypeOK'
    BY <1>0, <1>1, <2>1, <2>2 DEF B!TypeOK
  <2>4. B!NothingBeforeTheCall' /\ B!OutputIsAccountedFor' /\ B!EndsAreInOrder'
    BY <1>1, <2>1, <2>2 DEF B!Inv, B!NothingBeforeTheCall, B!OutputIsAccountedFor, B!EndsAreInOrder, B!TreeIsEnded, B!Stream
  <2> QED BY <2>3, <2>4 DEF B!Inv
<1> QED BY <1>2, <1>3, <1>4

LEMMA ChildReaderStep ==
  ASSUME B!Inv, NEW s \in B!Stream, B!Pump(s) \/ B!Eof(s) \/ B!Write(s)
  PROVE  B!Inv'
<1> USE DEF B!Tree, B!Sinks, B!Bounds
<1>0. B!TypeOK /\ {Limit, PipeSize, MaxWrites} \subseteq Nat
  BY ProcessesAssumption DEF B!Inv, B!BoundedProcessAssumption
<1>1. UNCHANGED <<pc, outcome, child, helper, contained, expired, cancelled, caller>>
  BY DEF B!Pump, B!Eof, B!Write
<1>2. /\ \A t \in B!Stream : pipe[t] \in 0..PipeSize /\ written[t] \in 0..MaxWrites /\ kept[t] \in 0..Limit
      /\ "out" \in B!Stream
  BY <1>0 DEF B!TypeOK, B!Stream
<1>f. B!Flags'
  BY <1>0, <1>1 DEF B!TypeOK, B!Flags, B!Pump, B!Eof, B!Write
<1>3. \A t \in B!Stream : reader'[t] = reader[t] \/ (reader[t] = "reading" /\ reader'[t] = "ended")
  BY <1>0 DEF B!TypeOK, B!Pump, B!Eof, B!Write
<1>4. B!NothingBeforeTheCall' /\ B!EndsAreInOrder'
  <2>1. overflowed'["out"] = overflowed["out"] \/ reader["out"] = "reading"
    <3>1. overflowed' = overflowed \/ (overflowed' = [overflowed EXCEPT ![s] = TRUE] /\ reader[s] = "reading")
      BY DEF B!Pump, B!Eof, B!Write
    <3> QED BY <1>0, <1>2, <3>1 DEF B!TypeOK, B!Flags
  <2> QED BY <1>1, <1>2, <1>3, <2>1 DEF B!Inv, B!NothingBeforeTheCall, B!EndsAreInOrder, B!TreeIsEnded
<1>5. CASE B!Pump(s)
  <2>1. CASE kept[s] < Limit
    <3>1. /\ pipe' = [pipe EXCEPT ![s] = @ - 1] /\ kept' = [kept EXCEPT ![s] = @ + 1]
          /\ UNCHANGED <<overflowed, reader, written>> /\ pipe[s] > 0 /\ reader[s] = "reading"
      BY <1>5, <2>1 DEF B!Pump
    <3>2. pipe[s] - 1 \in 0..PipeSize /\ kept[s] + 1 \in 0..Limit
      BY <1>0, <1>2, <2>1, <3>1
    <3>3. B!TypeOK'
      BY <1>0, <1>f, <1>1, <3>1, <3>2 DEF B!TypeOK
    <3>4. /\ pipe'[s] = pipe[s] - 1 /\ kept'[s] = kept[s] + 1
          /\ \A t \in B!Stream \ {s} : pipe'[t] = pipe[t] /\ kept'[t] = kept[t]
      BY <1>0, <3>1 DEF B!TypeOK, B!Flags
    <3>5. B!OutputIsAccountedFor'
      BY <1>1, <1>2, <3>1, <3>4 DEF B!Inv, B!OutputIsAccountedFor
    <3> QED BY <1>4, <3>3, <3>5 DEF B!Inv
  <2>2. CASE ~(kept[s] < Limit)
    <3>1. /\ pipe' = [pipe EXCEPT ![s] = @ - 1] /\ overflowed' = [overflowed EXCEPT ![s] = TRUE]
          /\ UNCHANGED <<kept, written>> /\ pipe[s] > 0
          /\ reader' = IF s = "out" THEN [reader EXCEPT ![s] = "ended"] ELSE reader
      BY <1>5, <2>2 DEF B!Pump
    <3>2. pipe[s] - 1 \in 0..PipeSize
      BY <1>0, <1>2, <3>1
    <3>3. B!TypeOK'
      BY <1>0, <1>f, <1>1, <3>1, <3>2 DEF B!TypeOK
    <3>4. s # "out" => overflowed'["out"] = overflowed["out"] /\ pipe'["out"] = pipe["out"] /\ reader' = reader
      BY <1>0, <3>1 DEF B!TypeOK, B!Flags, B!Stream
    <3>5. s = "out" => overflowed'["out"]
      BY <1>0, <3>1 DEF B!TypeOK, B!Flags
    <3>6. B!OutputIsAccountedFor'
      BY <1>1, <3>1, <3>4, <3>5 DEF B!Inv, B!OutputIsAccountedFor
    <3> QED BY <1>4, <3>3, <3>6 DEF B!Inv
  <2> QED BY <2>1, <2>2
<1>6. CASE B!Eof(s)
  <2>1. /\ UNCHANGED <<pipe, written, kept, overflowed>> /\ reader' = [reader EXCEPT ![s] = "ended"]
        /\ pipe[s] = 0 /\ ~B!Alive(child) /\ ~B!Alive(helper)
    BY <1>6 DEF B!Eof
  <2>2. B!TypeOK'
    BY <1>0, <1>f, <1>1, <2>1 DEF B!TypeOK
  <2>3. s # "out" => reader'["out"] = reader["out"]
    BY <1>0, <2>1 DEF B!TypeOK, B!Stream
  <2>4. B!OutputIsAccountedFor'
    BY <1>1, <2>1, <2>3 DEF B!Inv, B!OutputIsAccountedFor, B!Alive
  <2> QED BY <1>4, <2>2, <2>4 DEF B!Inv
<1>7. CASE B!Write(s)
  <2>1. /\ pipe' = [pipe EXCEPT ![s] = @ + 1] /\ written' = [written EXCEPT ![s] = @ + 1]
        /\ UNCHANGED <<reader, kept, overflowed>> /\ (B!Alive(child) \/ B!Alive(helper))
        /\ pipe[s] < PipeSize /\ written[s] < MaxWrites
    BY <1>7 DEF B!Write
  <2>2. pipe[s] + 1 \in 0..PipeSize /\ written[s] + 1 \in 0..MaxWrites
    BY <1>0, <1>2, <2>1
  <2>3. B!TypeOK'
    <3>1. pipe' \in [B!Stream -> 0..PipeSize]
      BY <1>0, <2>1, <2>2 DEF B!TypeOK
    <3>2. written' \in [B!Stream -> 0..MaxWrites]
      BY <1>0, <2>1, <2>2 DEF B!TypeOK
    <3>3. UNCHANGED <<reader, kept>>
      BY <2>1
    <3> QED BY <1>0, <1>f, <1>1, <3>1, <3>2, <3>3 DEF B!TypeOK
  <2>4. /\ pipe'[s] = pipe[s] + 1 /\ written'[s] = written[s] + 1
        /\ \A t \in B!Stream \ {s} : pipe'[t] = pipe[t] /\ written'[t] = written[t]
    BY <1>0, <2>1 DEF B!TypeOK
  <2>5. B!OutputIsAccountedFor'
    <3>1. reader["out"] # "ended" \/ overflowed["out"]
      BY <2>1 DEF B!Inv, B!OutputIsAccountedFor
    <3>2. ~overflowed["out"] => written'["out"] = kept["out"] + pipe'["out"]
      <4>1. CASE s = "out"
        BY <1>2, <2>4, <4>1 DEF B!Inv, B!OutputIsAccountedFor
      <4>2. CASE s # "out"
        BY <1>2, <2>4, <4>2 DEF B!Inv, B!OutputIsAccountedFor
      <4> QED BY <4>1, <4>2
    <3>3. UNCHANGED <<reader, kept, overflowed>>
      BY <2>1
    <3> QED BY <3>1, <3>2, <3>3 DEF B!OutputIsAccountedFor
  <2> QED BY <1>4, <2>3, <2>5 DEF B!Inv
<1> QED BY <1>5, <1>6, <1>7

LEMMA ChildStep ==
  ASSUME B!Inv, [B!Next]_B!processVars
  PROVE  B!Inv'
<1> USE DEF B!Tree, B!Sinks, B!Bounds
<1>0. B!TypeOK
  BY DEF B!Inv
<1>1. ASSUME B!Fork \/ B!HelperLeaves \/ B!Exit PROVE B!Inv'
  <2>1. UNCHANGED <<pc, outcome, contained, reader, pipe, written, kept, overflowed, expired, cancelled, caller>>
    BY <1>1 DEF B!Fork, B!HelperLeaves, B!Exit
  <2>2. \/ child = "running" /\ child' = child /\ helper = "none" /\ helper' = "running"
        \/ child' = child /\ helper \in {"running", "silent"} /\ helper' \in {"silent", "gone"}
        \/ child = "running" /\ child' = "exited" /\ helper' = helper
    BY <1>1 DEF B!Fork, B!HelperLeaves, B!Exit, B!Alive
  <2>3. B!TypeOK'
    <3>1. B!Flags'
      BY <1>0, <2>1 DEF B!TypeOK, B!Flags
    <3> QED BY <1>0, <2>1, <2>2, <3>1 DEF B!TypeOK
  <2>4. B!NothingBeforeTheCall' /\ B!OutputIsAccountedFor' /\ B!EndsAreInOrder'
    BY <2>1, <2>2 DEF B!Inv, B!NothingBeforeTheCall, B!OutputIsAccountedFor, B!EndsAreInOrder, B!TreeIsEnded, B!Alive
  <2> QED BY <2>3, <2>4 DEF B!Inv
<1>2. ASSUME B!Expire \/ B!Cancel \/ B!CallerReturns \/ UNCHANGED B!processVars PROVE B!Inv'
  <2>1. /\ UNCHANGED <<pc, outcome, child, helper, contained, reader, pipe, written, kept, overflowed>>
        /\ expired' \in {expired, TRUE} /\ cancelled' \in {cancelled, TRUE}
        /\ caller' \in {caller, "draining", "answered", "cancelled", "outlived"}
    BY <1>2 DEF B!Expire, B!Cancel, B!CallerReturns, B!processVars
  <2>2. B!TypeOK'
    <3>1. B!Flags'
      BY <1>0, <2>1 DEF B!TypeOK, B!Flags
    <3> QED BY <1>0, <2>1, <3>1 DEF B!TypeOK
  <2>3. B!NothingBeforeTheCall' /\ B!OutputIsAccountedFor' /\ B!EndsAreInOrder'
    BY <2>1 DEF B!Inv, B!NothingBeforeTheCall, B!OutputIsAccountedFor, B!EndsAreInOrder, B!TreeIsEnded, B!Alive
  <2> QED BY <2>2, <2>3 DEF B!Inv
<1> QED BY <1>1, <1>2, ChildCallStep, ChildReaderStep DEF B!Next

LEMMA ChildPromise == B!Inv => B!CompletedIsWhole /\ B!NothingSurvives
<1> SUFFICES ASSUME B!Inv PROVE B!CompletedIsWhole /\ B!NothingSurvives
  OBVIOUS
<1>1. B!CompletedIsWhole
  BY DEF B!Inv, B!TypeOK, B!Stream, B!OutputIsAccountedFor, B!EndsAreInOrder, B!CompletedIsWhole
<1>2. B!NothingSurvives
  BY DEF B!Inv, B!EndsAreInOrder, B!TreeIsEnded, B!NothingSurvives
<1> QED BY <1>1, <1>2

----------------------------------------------------------------------------
(* The run under guard.  A group is of the run, pytest is in it before it  *)
(* runs, and no handle is ever opened on a stranger.                       *)

LEMMA TestRunInit == G!Init => G!Inv
<1> SUFFICES ASSUME G!Init PROVE G!Inv
  OBVIOUS
<1>1. /\ host \in Hosts /\ at = "unstarted" /\ alive = Stranger
      /\ ran = FALSE /\ group = {} /\ handles = {}
  BY DEF G!Init
<1> QED
  BY <1>1 DEF G!Inv, G!GroupIsOfTheRun, G!StrangersAreLeftAlone, G!GroupIsEnded, G!PytestIsGone, G!NothingIsLeft

(* A walk that cannot take a stranger for younger than its parent ends     *)
(* without one.                                                            *)
LEMMA NoStrangerIsFound == Root \notin Stranger => G!Descendants \cap Stranger = {}
<1> SUFFICES ASSUME Root \notin Stranger, NEW p \in G!Descendants PROVE p \notin Stranger
  OBVIOUS
<1> DEFINE found == (alive \cup {Root}) \ Stranger
<1>1. G!Walked(found)
  BY DEF G!Walked, G!Adopted, G!NotOlder
<1>2. found \in SUBSET (alive \cup {Root})
  OBVIOUS
<1> QED BY <1>1, <1>2 DEF G!Descendants

LEMMA TestRunRunnerStep ==
  ASSUME G!Inv, G!Launch \/ G!Runner \/ G!ContainmentFailed \/ G!Interrupted
  PROVE  G!Inv'
<1> USE DEF G!Processes, G!Knowledge
<1>0. Root \notin Child \cup Stranger /\ Child \cap Stranger = {} /\ Hosts \subseteq {"posix", "windows"}
  BY ProcessesAssumption DEF G!GuardedAssumption
<1>1. host' = host /\ used \subseteq used'
  BY DEF G!Launch, G!Runner, G!Contains, G!Resumes, G!OpenTree, G!Sample, G!Poll, G!Judge, G!TerminateJob, G!Taskkill, G!KillChild, G!AskGroup,
         G!GraceEnds, G!CloseTree, G!ContainmentFailed, G!Interrupted
<1>2. CASE G!Launch
  <2>1. /\ at = "unstarted" /\ alive' = alive \cup {Root} /\ used' = used \cup {Root} /\ handles' = handles
        /\ \/ host = "windows" /\ at' = "suspended" /\ ran' = ran /\ group' = group
           \/ host # "windows" /\ at' = "open" /\ ran' = TRUE /\ group' = {Root}
    BY <1>2 DEF G!Launch
  <2> QED
    BY <1>0, <1>1, <2>1 DEF G!Inv, G!GroupIsOfTheRun, G!StrangersAreLeftAlone, G!GroupIsEnded, G!PytestIsGone, G!NothingIsLeft, G!Run
<1>3. CASE G!Contains \/ G!Resumes
  <2>1. /\ alive' = alive /\ handles' = handles
        /\ \/ at = "suspended" /\ at' = "contained" /\ group' = {Root} /\ ran' = ran
           \/ at = "contained" /\ at' = "open" /\ ran' = TRUE /\ group' = group
    BY <1>3 DEF G!Contains, G!Resumes
  <2> QED
    BY <1>0, <1>1, <2>1 DEF G!Inv, G!GroupIsOfTheRun, G!StrangersAreLeftAlone, G!GroupIsEnded, G!PytestIsGone, G!NothingIsLeft, G!Run
<1>4. CASE G!ContainmentFailed
  <2>1. /\ at \in {"suspended", "contained"} /\ at' = "done" /\ alive' = alive \ {Root}
        /\ ran' = ran /\ group' = group /\ handles' = handles
    BY <1>4 DEF G!ContainmentFailed
  <2> QED
    BY <1>0, <1>1, <2>1 DEF G!Inv, G!GroupIsOfTheRun, G!StrangersAreLeftAlone, G!GroupIsEnded, G!PytestIsGone, G!NothingIsLeft, G!Run
<1>5. CASE G!OpenTree \/ G!Sample \/ G!Poll \/ G!Judge \/ G!Interrupted
  <2>1. /\ UNCHANGED <<alive, used, ran, group>>
        /\ at \notin {"unstarted", "suspended", "contained", "done"}
        /\ at' \notin {"unstarted", "suspended", "contained", "taskkill", "done"}
        /\ UNCHANGED host
    BY <1>5 DEF G!OpenTree, G!Sample, G!Poll, G!Judge, G!Interrupted
  <2>2. handles' \cap Stranger = {}
    <3>1. handles' \subseteq handles \cup G!Descendants
      BY <1>5 DEF G!OpenTree, G!Sample, G!Poll, G!Judge, G!Interrupted
    <3> QED BY <1>0, <3>1, NoStrangerIsFound DEF G!Inv, G!StrangersAreLeftAlone
  <2>3. G!GroupIsEnded'
    <3> SUFFICES ASSUME at' = "close", host = "posix", tree', code' # "interrupted" PROVE alive \cap group = {}
      BY <1>1, <2>1 DEF G!GroupIsEnded
    <3>1. G!Judge /\ G!RunIsOver(seen, G!TreeAlive) /\ tree
      BY <1>5 DEF G!OpenTree, G!Sample, G!Poll, G!Judge, G!Interrupted
    <3> QED BY <3>1 DEF G!RunIsOver, G!BothGone, G!TreeAlive
  <2>4. G!GroupIsOfTheRun' /\ G!NothingIsLeft' /\ G!PytestIsGone'
    <3>1. ran
      BY <2>1 DEF G!Inv, G!GroupIsOfTheRun
    <3> QED BY <2>1, <3>1 DEF G!Inv, G!GroupIsOfTheRun, G!NothingIsLeft, G!PytestIsGone
  <2> QED
    BY <2>1, <2>2, <2>3, <2>4 DEF G!Inv, G!StrangersAreLeftAlone
<1>6. CASE G!TerminateJob \/ G!Taskkill \/ G!KillChild \/ G!AskGroup \/ G!GraceEnds
  <2>0. G!Taskkill => alive' = alive
    BY DEF G!Taskkill, G!Inv, G!PytestIsGone
  <2>1. /\ UNCHANGED <<ran, group, handles, tree, used>>
        /\ at \notin {"unstarted", "suspended", "contained", "done"} /\ UNCHANGED host
        /\ at' \notin {"unstarted", "suspended", "contained", "done"}
        /\ alive' \subseteq alive /\ alive \ alive' \subseteq handles \cup group \cup {Root}
    BY <1>6, <2>0 DEF G!TerminateJob, G!Taskkill, G!KillChild, G!AskGroup, G!GraceEnds, G!Killed, G!KillGroup
  <2>2. G!GroupIsEnded'
    <3>1. G!Taskkill => host = "windows"
      BY DEF G!Taskkill, G!Inv, G!GroupIsOfTheRun
    <3> QED
      BY <1>1, <1>6, <2>1, <3>1 DEF G!GroupIsEnded, G!TerminateJob, G!Taskkill, G!KillChild, G!AskGroup, G!GraceEnds, G!Killed, G!KillGroup, G!TreeAlive
  <2>3. G!StrangersAreLeftAlone'
    BY <1>0, <2>1 DEF G!Inv, G!StrangersAreLeftAlone, G!GroupIsOfTheRun, G!Run
  <2>4. G!PytestIsGone' /\ (at' = "taskkill" => host = "windows")
    BY <1>6, <2>1 DEF G!PytestIsGone, G!Inv, G!GroupIsOfTheRun, G!TerminateJob, G!Taskkill, G!KillChild, G!AskGroup, G!GraceEnds
  <2>5. ran'
    BY <2>1 DEF G!Inv, G!GroupIsOfTheRun
  <2>6. G!GroupIsOfTheRun'
    BY <2>1, <2>4, <2>5 DEF G!Inv, G!GroupIsOfTheRun
  <2>7. G!NothingIsLeft'
    BY <2>1, <2>5, <2>6 DEF G!GroupIsOfTheRun, G!NothingIsLeft
  <2> QED
    BY <2>2, <2>3, <2>4, <2>6, <2>7 DEF G!Inv
<1>7. CASE G!CloseTree
  <2>1. /\ UNCHANGED <<ran, group, tree, used, code>> /\ at = "close" /\ at' = "done" /\ handles' = {}
        /\ alive' = IF host = "windows" THEN alive \ group ELSE alive
    BY <1>7 DEF G!CloseTree
  <2> QED
    BY <1>0, <1>1, <2>1 DEF G!Inv, G!GroupIsOfTheRun, G!StrangersAreLeftAlone, G!GroupIsEnded, G!PytestIsGone, G!NothingIsLeft, G!Run
<1> QED BY <1>2, <1>3, <1>4, <1>5, <1>6, <1>7 DEF G!Runner

LEMMA TestRunStep ==
  ASSUME G!Inv, [G!Next]_G!guardedVars
  PROVE  G!Inv'
<1> USE DEF G!Processes, G!Knowledge
<1>0. Root \notin Child \cup Stranger /\ Child \cap Stranger = {} /\ Hosts \subseteq {"posix", "windows"}
  BY ProcessesAssumption DEF G!GuardedAssumption
<1>1. ASSUME G!Output \/ (\E clock \in G!Clock : G!Passes(clock)) \/ UNCHANGED G!guardedVars PROVE G!Inv'
  <2>1. UNCHANGED <<host, at, alive, used, ran, group, tree, handles, code>>
    BY <1>1 DEF G!Output, G!Passes, G!guardedVars
  <2> QED BY <2>1 DEF G!Inv, G!GroupIsOfTheRun, G!StrangersAreLeftAlone, G!GroupIsEnded, G!PytestIsGone, G!NothingIsLeft
<1>2. ASSUME NEW p \in G!Run, G!Exit(p) PROVE G!Inv'
  <2>1. /\ UNCHANGED <<host, at, used, ran, group, tree, handles, code>> /\ alive' = alive \ {p}
        /\ p \notin Stranger
    BY <1>0, <1>2 DEF G!Exit, G!Run
  <2> QED BY <2>1 DEF G!Inv, G!GroupIsOfTheRun, G!StrangersAreLeftAlone, G!GroupIsEnded, G!PytestIsGone, G!NothingIsLeft
<1>3. ASSUME NEW p \in G!Run, NEW c \in Child, G!Spawn(p, c) PROVE G!Inv'
  <2>1. /\ UNCHANGED <<host, at, ran, tree, handles, code>> /\ ran /\ at # "done" /\ p \in alive
        /\ alive' = alive \cup {c} /\ used' = used \cup {c} /\ c \notin used
        /\ group' \in {group, group \cup {c}} /\ (p \notin group => group' = group)
    BY <1>3 DEF G!Spawn
  <2> QED
    BY <1>0, <2>1 DEF G!Inv, G!GroupIsOfTheRun, G!StrangersAreLeftAlone, G!GroupIsEnded, G!PytestIsGone, G!NothingIsLeft, G!Run
<1> QED BY <1>1, <1>2, <1>3, TestRunRunnerStep DEF G!Next

LEMMA TestRunPromise == G!Inv => G!NothingIsLeft /\ G!StrangersLive
BY DEF G!Inv, G!StrangersAreLeftAlone, G!StrangersLive

----------------------------------------------------------------------------
(* The clients over HTTP: whoever has an id of this run's sessions, or     *)
(* carries one, listed this run's tools.                                   *)

(* What a step makes of one client leaves the invariant as it is, if it is *)
(* a record, its ids were given, and those of this run have its tools.     *)
LEMMA SessionsClientStep ==
  ASSUME H!Inv, NEW c \in HttpClient, NEW record \in H!Record, H!Becomes(c, record), run' = run,
         made' \in Nat, made <= made', sessions' \subseteq 1..made', sessions' \ sessions \subseteq (made + 1)..made',
         record.id <= made', record.carries <= made',
         record.id \in sessions' => record.tools = run,
         record.at # "none" /\ record.carries \in sessions' => record.tools = run
  PROVE  H!Inv'
<1> USE DEF H!Inv, H!IdsWereGiven, H!IdsAreOfThisRun
<1>1. /\ http' \in [HttpClient -> H!Record] /\ http'[c] = record
      /\ \A d \in HttpClient \ {c} : http'[d] = http[d]
  BY DEF H!Becomes
<1>2. \A d \in HttpClient : http[d].id \in Nat /\ http[d].carries \in Nat
  BY DEF H!Record
<1>3. \A d \in HttpClient : /\ http[d].id \in sessions' => http[d].id \in sessions
                            /\ http[d].carries \in sessions' => http[d].carries \in sessions
  BY <1>2
<1>4. \A d \in HttpClient : http'[d].id <= made' /\ http'[d].carries <= made'
  BY <1>1, <1>2
<1>5. H!IdsAreOfThisRun'
  BY <1>1, <1>3
<1> QED BY <1>1, <1>4, <1>5

LEMMA SessionsStep ==
  ASSUME H!Inv, [H!Next]_H!httpVars
  PROVE  H!Inv'
<1>0. /\ run \in Nat /\ made \in Nat /\ sessions \subseteq 1..made /\ 0 \notin sessions
      /\ \A c \in HttpClient : http[c] \in H!Record
  BY DEF H!Inv, H!IdsWereGiven
<1>1. CASE H!Restart
  <2>1. \A c \in HttpClient : http'[c] \in H!Record /\ http'[c].id = http[c].id /\ http'[c].carries = http[c].carries
    BY <1>0, <1>1 DEF H!Restart, H!Record
  <2>2. http' \in [HttpClient -> H!Record]
    BY <1>0, <1>1, <2>1 DEF H!Restart
  <2>3. run' = run + 1 /\ made' = made /\ sessions' = {}
    BY <1>1 DEF H!Restart
  <2>4. H!IdsWereGiven'
    <3>1. \A c \in HttpClient : http'[c].id <= made' /\ http'[c].carries <= made'
      BY <2>1, <2>3 DEF H!Inv, H!IdsWereGiven
    <3> QED BY <2>3, <3>1 DEF H!IdsWereGiven
  <2>5. H!IdsAreOfThisRun'
    BY <2>3 DEF H!IdsAreOfThisRun
  <2>6. run' \in Nat /\ made' \in Nat
    BY <1>0, <2>3
  <2> QED BY <2>2, <2>4, <2>5, <2>6 DEF H!Inv
<1>2. ASSUME NEW c \in HttpClient, H!Begin(c) \/ H!Call(c) \/ H!ComeBack(c) PROVE H!Inv'
  <2>1. PICK method \in {"initialize", "call"} : H!Asks(c, method)
    BY <1>2 DEF H!Begin, H!Call, H!ComeBack
  <2> DEFINE record == [http[c] EXCEPT !.at = "sent", !.method = method, !.carries = http[c].id]
  <2>2. /\ record \in H!Record /\ record.id = http[c].id /\ record.carries = http[c].id
        /\ record.tools = http[c].tools
    BY <1>0 DEF H!Record
  <2>3. H!Becomes(c, record) /\ UNCHANGED H!Server
    BY <2>1 DEF H!Asks
  <2> HIDE DEF record
  <2> QED BY <1>0, <2>2, <2>3, SessionsClientStep DEF H!Server, H!Inv, H!IdsWereGiven, H!IdsAreOfThisRun
<1>3. ASSUME NEW c \in HttpClient, H!Reads(c) PROVE H!Inv'
  <2> DEFINE record == [http[c] EXCEPT !.at = "read",
                          !.carries = IF http[c].method = "initialize" THEN H!NoId ELSE @]
  <2>1. /\ record \in H!Record /\ record.id = http[c].id /\ record.carries \in {H!NoId, http[c].carries}
        /\ record.tools = http[c].tools
    BY <1>0 DEF H!Record, H!NoId
  <2>2. H!Becomes(c, record) /\ UNCHANGED H!Server /\ http[c].at = "sent"
    BY <1>3 DEF H!Reads, H!IdOfAnInitialize, H!DropsIt
  <2> HIDE DEF record
  <2> QED BY <1>0, <2>1, <2>2, SessionsClientStep DEF H!Server, H!NoId, H!Inv, H!IdsWereGiven, H!IdsAreOfThisRun
<1>4. ASSUME NEW c \in HttpClient, H!Creates(c) PROVE H!Inv'
  <2> DEFINE record == [http[c] EXCEPT !.at = "none", !.reply = "served", !.id = made + 1, !.tools = run]
  <2>1. /\ H!Becomes(c, record) /\ run' = run
        /\ made' = made + 1 /\ sessions' = sessions \cup {made + 1}
    BY <1>4 DEF H!Creates
  <2>2. http[c] \in H!Record /\ made + 1 \in Nat /\ run \in Nat
    BY <1>0
  <2>3. record \in H!Record
    BY <2>2 DEF H!Record
  <2>4. record.id = made + 1 /\ record.tools = run /\ record.carries = http[c].carries
    BY <2>2 DEF H!Record
  <2>5. record.carries <= made /\ record.carries \in Nat
    BY <2>2, <2>4 DEF H!Inv, H!IdsWereGiven, H!Record
  <2> HIDE DEF record
  <2>6. made' \in Nat /\ made <= made' /\ sessions' \subseteq 1..made' /\ sessions' \ sessions \subseteq (made + 1)..made'
    BY <1>0, <2>1
  <2>7. record.id <= made' /\ record.carries <= made'
    BY <1>0, <2>1, <2>4, <2>5
  <2> QED BY <2>1, <2>3, <2>4, <2>6, <2>7, SessionsClientStep
<1>5. ASSUME NEW c \in HttpClient, NEW reply \in {"served", "404", "503", "lost"},
             H!Becomes(c, [http[c] EXCEPT !.at = "none", !.reply = reply]), UNCHANGED H!Server
      PROVE  H!Inv'
  <2> DEFINE record == [http[c] EXCEPT !.at = "none", !.reply = reply]
  <2>1. /\ record \in H!Record /\ record.id = http[c].id /\ record.carries = http[c].carries
        /\ record.tools = http[c].tools /\ record.at = "none"
    BY <1>0 DEF H!Record
  <2>2. H!Becomes(c, record)
    BY <1>5
  <2> HIDE DEF record
  <2> QED BY <1>0, <1>5, <2>1, <2>2, SessionsClientStep DEF H!Server, H!Inv, H!IdsWereGiven, H!IdsAreOfThisRun
<1>6. ASSUME NEW c \in HttpClient, H!Delete(c) \/ H!Abandon(c) PROVE H!Inv'
  <2>1. H!Becomes(c, H!Fresh) /\ run' = run /\ made' = made /\ sessions' \subseteq sessions
    BY <1>6 DEF H!Delete, H!Abandon, H!Server
  <2>2. H!Fresh \in H!Record /\ H!Fresh.id = 0 /\ H!Fresh.carries = 0 /\ H!Fresh.at = "none"
    BY DEF H!Fresh, H!Record, H!NoId
  <2>3. sessions' \ sessions = {} /\ sessions' \subseteq 1..made' /\ 0 \notin sessions' /\ made' \in Nat
    BY <1>0, <2>1
  <2> HIDE DEF H!Fresh
  <2> QED BY <1>0, <2>1, <2>2, <2>3, SessionsClientStep
<1>7. CASE UNCHANGED H!httpVars
  BY <1>7 DEF H!httpVars, H!Inv, H!IdsWereGiven, H!IdsAreOfThisRun
<1>8. ASSUME NEW c \in HttpClient, H!Cut(c) \/ H!Full(c) \/ H!Serves(c) \/ H!NotFound(c) PROVE H!Inv'
  BY <1>5, <1>8 DEF H!Cut, H!Full, H!Serves, H!NotFound, H!Answers
<1> QED BY <1>1, <1>2, <1>3, <1>4, <1>6, <1>7, <1>8 DEF H!Next

----------------------------------------------------------------------------
(* For any number of accounts, calls and closings: two managers of one     *)
(* account never run at once, one that is reused runs, and one that runs   *)
(* after a shutdown in time was named (secret_manager(), close_all()).     *)
THEOREM ManagersStayKept == MCSpec => []ManagersAreKept
<1>1. MCInit => M!Inv
  BY ManagersInit DEF MCInit
<1>2. M!Inv /\ [MCNext]_vars => M!Inv'
  <2> SUFFICES ASSUME M!Inv, [MCNext]_vars PROVE [M!Next]_M!managerVars
    BY ManagersStep
  <2> QED BY DEF MCNext, vars, managers, M!managerVars
<1>3. M!Inv => ManagersAreKept
  BY ManagersPromise DEF ManagersAreKept
<1> QED BY <1>1, <1>2, <1>3, PTL DEF MCSpec

(* Whatever the child writes and starts, and whatever the run under guard  *)
(* leaves behind: a call or a run that is over leaves nothing of its own   *)
(* and ends nothing else, and a result told whole is (run_bounded(),       *)
(* run_tests_guarded.py), for any ceilings and any number of processes.    *)
THEOREM ChildrenStayDoneWith == MCSpec => []ChildrenAreDoneWith
<1>1. MCInit => B!Inv /\ G!Inv
  BY ChildInit, TestRunInit DEF MCInit
<1>2. B!Inv /\ G!Inv /\ [MCNext]_vars => B!Inv' /\ G!Inv'
  <2>1. [MCNext]_vars => [B!Next]_B!processVars
    BY DEF MCNext, vars, childVars, B!processVars
  <2>2. [MCNext]_vars => [G!Next]_G!guardedVars
    BY DEF MCNext, vars, testRun, G!guardedVars
  <2> QED BY <2>1, <2>2, ChildStep, TestRunStep
<1>3. B!Inv /\ G!Inv => ChildrenAreDoneWith
  BY ChildPromise, TestRunPromise DEF ChildrenAreDoneWith
<1> QED BY <1>1, <1>2, <1>3, PTL DEF MCSpec

LEMMA SessionsInit == ASSUME H!Init PROVE H!Inv
<1>1. H!Fresh \in H!Record /\ H!Fresh.id = 0 /\ H!Fresh.carries = 0 /\ H!Fresh.at = "none"
  BY DEF H!Fresh, H!Record, H!NoId
<1>2. run = 1 /\ sessions = {} /\ made = 0 /\ http = [c \in HttpClient |-> H!Fresh]
  BY DEF H!Init
<1> QED BY <1>1, <1>2 DEF H!Inv, H!IdsWereGiven, H!IdsAreOfThisRun

(* For any number of clients, sessions and restarts, a call is served only *)
(* to a client that listed the tools of this run (_stateless_http).        *)
THEOREM ServedStaysCurrent == MCSpec => ServedIsCurrent
<1>1. MCInit => H!Inv
  BY SessionsInit DEF MCInit
<1>2. H!Inv /\ [MCNext]_vars => H!Inv'
  <2>1. [MCNext]_vars => [H!Next]_H!httpVars
    BY DEF MCNext, vars, clients, H!httpVars
  <2> QED BY <2>1, SessionsStep
<1>3. ASSUME H!Inv, NEW c \in HttpClient, H!Serves(c) PROVE http[c].tools = run
  BY <1>3 DEF H!Inv, H!IdsAreOfThisRun, H!Serves, H!Stateless, H!AsTheEnvironmentSays
<1>4. H!Inv /\ [MCNext]_vars => [\A c \in HttpClient : H!Serves(c) => http[c].tools = run]_H!httpVars
  BY <1>3
<1> QED BY <1>1, <1>2, <1>4, PTL DEF MCSpec, ServedIsCurrent, H!ServedIsCurrent

----------------------------------------------------------------------------
(* The secret chat.                                                        *)

----------------------------------------------------------------------------
(* The secret chat.  What is recorded is new; a history that drops its     *)
(* oldest has HistoryMax records behind it.                                *)
LEMMA SecretTypes ==
  /\ T!Idle \in T!CallRecord /\ Seconds \subseteq Nat \ {0} /\ T!Timer \subseteq Nat /\ 0 \in T!Timer
  /\ HistoryMax \in Nat \ {0} /\ MaxMessages \in Nat /\ MaxRestarts \in Nat /\ T!NoOne \notin Sender
  BY ProcessesAssumption DEF ProcessesAssumption, T!SecretChatAssumption, T!Idle, T!CallRecord, T!Timer, T!Message

LEMMA SecretInit == ASSUME T!Init PROVE T!Inv
<1>1. T!TypeOK
  <2>1. <<>> \in Seq(T!Message) /\ 0 \in 0..MaxMessages /\ 0 \in 0..MaxRestarts
    BY SecretTypes
  <2>2. secretCall \in [Sender -> T!CallRecord]
    BY SecretTypes DEF T!Init
  <2>3. timer \in T!Timer /\ chosen \in T!Timer /\ broken \in BOOLEAN /\ told \in BOOLEAN
    BY DEF T!Init
  <2> QED BY <2>1, <2>2, <2>3 DEF T!Init, T!TypeOK
<1> QED
  BY <1>1 DEF T!Init, T!Inv, T!AsItsPlaceSays, T!OneMovesTheTimer, T!MovesTheTimer, T!TimerComesBack,
    T!NumbersAreOfSendings, T!IsNew, T!HistoriesAreOfTheRecord, T!IsAHistory, T!DeletedStaysDeleted,
    T!ReportedSendIsInBoth, T!Idle, T!ToSet

(* Removing a message from a history, and adding one to it.                *)
LEMMA SecretForgets ==
  ASSUME T!TypeOK, T!IsAHistory(memory), NEW id
  PROVE  /\ T!Without(id) \in Seq(T!Message) /\ T!IsAHistory(T!Without(id))
         /\ T!ToSet(T!Without(id)) = T!ToSet(memory) \ {id}
<1>0. memory \in Seq(T!Message) /\ log \in Seq(T!Message)
  BY DEF T!TypeOK
<1>1. CASE id \notin T!ToSet(memory)
  BY <1>0, <1>1 DEF T!Without
<1>2. CASE id \in T!ToSet(memory)
  <2> DEFINE place == CHOOSE i \in DOMAIN memory : memory[i] = id
  <2>1. place \in 1..Len(memory) /\ memory[place] = id
    <3>1. \E i \in DOMAIN memory : memory[i] = id
      BY <1>2 DEF T!ToSet
    <3> QED BY <3>1, <1>0
  <2>2. T!Without(id) = T!RemoveAt(memory, place)
    BY <1>2 DEF T!Without
  <2> HIDE DEF place
  <2> DEFINE rest == T!RemoveAt(memory, place)
  <2> DEFINE head == SubSeq(memory, 1, place - 1)
             tail == SubSeq(memory, place + 1, Len(memory))
  <2>a. head \in Seq(T!Message) /\ Len(head) = place - 1 /\ \A i \in 1..place - 1 : head[i] = memory[i]
    BY <1>0, <2>1
  <2>b. tail \in Seq(T!Message) /\ Len(tail) = Len(memory) - place /\ \A i \in 1..Len(memory) - place : tail[i] = memory[place + i]
    BY <1>0, <2>1
  <2>c. rest = head \o tail
    BY DEF T!RemoveAt
  <2> HIDE DEF head, tail, rest
  <2>3. rest \in Seq(T!Message) /\ Len(rest) = Len(memory) - 1
    <3>1. rest \in Seq(T!Message)
      BY <2>a, <2>b, <2>c
    <3>2. head \in Seq(T!Message) /\ tail \in Seq(T!Message)
      BY <2>a, <2>b
    <3>3. Len(head \o tail) = Len(head) + Len(tail)
      BY <3>2
    <3>4. Len(rest) = place - 1 + (Len(memory) - place)
      BY <3>3, <2>a, <2>b, <2>c
    <3> QED BY <3>1, <3>4, <1>0, <2>1
  <2>4. \A i \in 1..Len(rest) : rest[i] = IF i < place THEN memory[i] ELSE memory[i + 1]
    <3> SUFFICES ASSUME NEW i \in 1..Len(rest) PROVE rest[i] = IF i < place THEN memory[i] ELSE memory[i + 1]
      OBVIOUS
    <3>1. rest[i] = IF i <= Len(head) THEN head[i] ELSE tail[i - Len(head)]
      BY <2>a, <2>b, <2>c, <2>3, <1>0, <2>1
    <3>2. CASE i < place
      BY <3>1, <3>2, <2>a, <1>0, <2>1, <2>3
    <3>3. CASE ~(i < place)
      <4>1. i - (place - 1) \in 1..Len(memory) - place /\ place + (i - (place - 1)) = i + 1
        BY <3>3, <2>3, <1>0, <2>1
      <4>2. rest[i] = tail[i - (place - 1)]
        <5>1. Len(head) = place - 1 /\ ~(i <= place - 1)
          BY <3>3, <2>a, <1>0, <2>1, <2>3
        <5> QED BY <5>1, <3>1
      <4>3. tail[i - (place - 1)] = memory[place + (i - (place - 1))]
        BY <4>1, <2>b
      <4> QED BY <4>1, <4>2, <4>3, <3>3
    <3> QED BY <3>2, <3>3
  <2>5. \A i, j \in 1..Len(memory) : memory[i] = memory[j] => i = j
    BY <1>0 DEF T!IsAHistory
  <2>6. T!IsAHistory(rest)
    <3>1. \A i, j \in DOMAIN rest : rest[i] = rest[j] => i = j
      <4> SUFFICES ASSUME NEW i \in 1..Len(rest), NEW j \in 1..Len(rest), rest[i] = rest[j] PROVE i = j
        BY <2>3
      <4> DEFINE k == IF i < place THEN i ELSE i + 1
                 l == IF j < place THEN j ELSE j + 1
      <4>1. k \in 1..Len(memory) /\ l \in 1..Len(memory) /\ rest[i] = memory[k] /\ rest[j] = memory[l]
        BY <1>0, <2>1, <2>3, <2>4
      <4>2. k = l
        BY <4>1, <2>5
      <4> QED BY <4>2, <1>0, <2>1, <2>3
    <3>2. ASSUME NEW i \in DOMAIN rest
          PROVE  \E p \in DOMAIN log : log[p] = rest[i] /\ Len(rest) - i <= Len(log) - p
      <4> DEFINE k == IF i < place THEN i ELSE i + 1
      <4>1. k \in DOMAIN memory /\ rest[i] = memory[k] /\ Len(rest) - i <= Len(memory) - k
        BY <1>0, <2>1, <2>3, <2>4
      <4>2. PICK p \in DOMAIN log : log[p] = memory[k] /\ Len(memory) - k <= Len(log) - p
        BY <4>1 DEF T!IsAHistory
      <4> QED BY <4>1, <4>2, <1>0, <2>3
    <3> QED BY <3>1, <3>2 DEF T!IsAHistory
  <2>7. T!ToSet(rest) = T!ToSet(memory) \ {id}
    <3>1. ASSUME NEW m \in T!ToSet(rest) PROVE m \in T!ToSet(memory) \ {id}
      <4>1. PICK i \in 1..Len(rest) : m = rest[i]
        BY <3>1, <2>3 DEF T!ToSet
      <4>2. CASE i < place
        <5>1. i \in 1..Len(memory) /\ i # place /\ m = memory[i]
          BY <4>1, <4>2, <2>1, <2>3, <2>4, <1>0
        <5> QED BY <5>1, <2>1, <2>5, <1>0 DEF T!ToSet
      <4>3. CASE ~(i < place)
        <5>1. i + 1 \in 1..Len(memory) /\ i + 1 # place /\ m = memory[i + 1]
          BY <4>1, <4>3, <2>1, <2>3, <2>4, <1>0
        <5> QED BY <5>1, <2>1, <2>5, <1>0 DEF T!ToSet
      <4> QED BY <4>2, <4>3
    <3>2. ASSUME NEW m \in T!ToSet(memory) \ {id} PROVE m \in T!ToSet(rest)
      <4>1. PICK i \in 1..Len(memory) : m = memory[i]
        BY <3>2, <1>0 DEF T!ToSet
      <4>2. i # place
        BY <4>1, <3>2, <2>1
      <4>3. CASE i < place
        <5>1. i \in 1..Len(rest) /\ rest[i] = m
          BY <4>1, <4>3, <2>1, <2>3, <2>4, <1>0
        <5> QED BY <5>1, <2>3 DEF T!ToSet
      <4>4. CASE i > place
        <5>1. i - 1 \in 1..Len(rest) /\ rest[i - 1] = m
          BY <4>1, <4>4, <2>1, <2>3, <2>4, <1>0
        <5> QED BY <5>1, <2>3 DEF T!ToSet
      <4> QED BY <4>2, <4>3, <4>4, <4>1, <2>1
    <3> QED BY <3>1, <3>2
  <2> QED BY <2>2, <2>3, <2>6, <2>7 DEF rest
<1> QED BY <1>1, <1>2

(* What is left of a history when a message that was in no record is added *)
(* to the record: itself, or itself with the new message, less the oldest  *)
(* when it is full.                                                        *)
LEMMA SecretRecords ==
  ASSUME T!TypeOK, T!IsAHistory(memory), NEW id \in T!Message, id \notin T!ToSet(log), log' = Append(log, id)
  PROVE  /\ T!Recorded(id) \in Seq(T!Message) /\ T!ToSet(log') = T!ToSet(log) \cup {id}
         /\ \A i, j \in DOMAIN T!Recorded(id) : T!Recorded(id)[i] = T!Recorded(id)[j] => i = j
         /\ \A i \in DOMAIN T!Recorded(id) :
              \E p \in DOMAIN log' : log'[p] = T!Recorded(id)[i] /\ Len(T!Recorded(id)) - i <= Len(log') - p
         /\ T!ToSet(T!Recorded(id)) \subseteq T!ToSet(memory) \cup {id}
         /\ id \in T!ToSet(T!Recorded(id))
         /\ \A m \in T!ToSet(memory) \ T!ToSet(T!Recorded(id)) :
              \E p \in DOMAIN log : log[p] = m /\ HistoryMax <= Len(log) + 1 - p
<1>0. memory \in Seq(T!Message) /\ log \in Seq(T!Message) /\ HistoryMax \in Nat \ {0}
  BY SecretTypes DEF T!TypeOK
<1> DEFINE new == T!Recorded(id)
           drop == IF Len(memory) + 1 > HistoryMax THEN 1 ELSE 0
<1>1. drop \in 0..1 /\ (drop = 1 => HistoryMax <= Len(memory))
  BY <1>0
<1> DEFINE all == Append(memory, id)
<1>a. /\ all \in Seq(T!Message) /\ Len(all) = Len(memory) + 1 /\ all[Len(memory) + 1] = id
      /\ \A i \in 1..Len(memory) : all[i] = memory[i]
  BY <1>0
<1>b. new = IF drop = 1 THEN Tail(all) ELSE all
  BY <1>0, <1>a DEF T!Recorded
<1> HIDE DEF new, all
<1>2. new \in Seq(T!Message) /\ Len(new) = Len(memory) + 1 - drop
  <2>1. CASE drop = 1
    <3>1. all # <<>>
      BY <1>0, <1>a
    <3>2. Tail(all) \in Seq(T!Message) /\ Len(Tail(all)) = Len(all) - 1
      BY <1>a, <3>1
    <3>3. new = Tail(all)
      BY <2>1, <1>b
    <3> QED BY <3>2, <3>3, <2>1, <1>0, <1>a
  <2>2. CASE drop # 1
    BY <2>2, <1>0, <1>1, <1>a, <1>b
  <2> QED BY <2>1, <2>2
<1>3. \A i \in 1..Len(new) : new[i] = IF i + drop = Len(memory) + 1 THEN id ELSE memory[i + drop]
  <2> SUFFICES ASSUME NEW i \in 1..Len(new) PROVE new[i] = IF i + drop = Len(memory) + 1 THEN id ELSE memory[i + drop]
    OBVIOUS
  <2>1. i + drop \in 1..Len(memory) + 1
    BY <1>0, <1>1, <1>2
  <2>2. new[i] = all[i + drop]
    <3>1. CASE drop = 1
      <4>1. new = Tail(all) /\ i \in 1..Len(all) - 1
        BY <3>1, <1>0, <1>2, <1>a, <1>b
      <4> QED BY <4>1, <3>1, <1>a
    <3>2. CASE drop = 0
      <4>1. new = all /\ i + drop = i
        BY <3>2, <1>b
      <4> QED BY <4>1
    <3> QED BY <3>1, <3>2, <1>1
  <2>3. CASE i + drop = Len(memory) + 1
    BY <2>2, <2>3, <1>a
  <2>4. CASE i + drop # Len(memory) + 1
    BY <2>1, <2>2, <2>4, <1>0, <1>a
  <2> QED BY <2>3, <2>4
<1>4. Len(log') = Len(log) + 1 /\ log' \in Seq(T!Message) /\ log'[Len(log) + 1] = id /\ \A p \in 1..Len(log) : log'[p] = log[p]
  BY <1>0
<1>5. \A i \in DOMAIN memory : memory[i] \in T!ToSet(log)
  BY DEF T!IsAHistory, T!ToSet
<1> HIDE DEF drop
<1>6. \A i, j \in DOMAIN new : new[i] = new[j] => i = j
  <2> SUFFICES ASSUME NEW i \in 1..Len(new), NEW j \in 1..Len(new), new[i] = new[j] PROVE i = j
    BY <1>2
  <2>1. \A k, l \in 1..Len(memory) : memory[k] = memory[l] => k = l
    BY <1>0 DEF T!IsAHistory
  <2>2. \A k \in 1..Len(memory) : memory[k] # id
    BY <1>5, <1>0
  <2>3. i + drop \in 1..Len(memory) + 1 /\ j + drop \in 1..Len(memory) + 1
    BY <1>0, <1>1, <1>2
  <2>4. new[i] = IF i + drop = Len(memory) + 1 THEN id ELSE memory[i + drop]
    BY <1>3
  <2>5. new[j] = IF j + drop = Len(memory) + 1 THEN id ELSE memory[j + drop]
    BY <1>3
  <2>6. i + drop = j + drop
    <3>1. CASE i + drop = Len(memory) + 1
      <4>1. ASSUME j + drop # Len(memory) + 1 PROVE FALSE
        <5>1. j + drop \in 1..Len(memory)
          BY <4>1, <2>3, <1>0
        <5> QED BY <5>1, <4>1, <3>1, <2>2, <2>4, <2>5
      <4> QED BY <3>1, <4>1
    <3>2. CASE i + drop # Len(memory) + 1
      <4>1. i + drop \in 1..Len(memory)
        BY <3>2, <2>3, <1>0
      <4>2. j + drop # Len(memory) + 1
        BY <4>1, <3>2, <2>2, <2>4, <2>5
      <4>3. j + drop \in 1..Len(memory)
        BY <4>2, <2>3, <1>0
      <4> QED BY <4>1, <4>2, <4>3, <3>2, <2>1, <2>4, <2>5
    <3> QED BY <3>1, <3>2
  <2> QED BY <2>6, <1>1, <1>2
<1>7. ASSUME NEW i \in DOMAIN new
      PROVE  \E p \in DOMAIN log' : log'[p] = new[i] /\ Len(new) - i <= Len(log') - p
  <2>1. i \in 1..Len(new) /\ i + drop \in 1..Len(memory) + 1
    BY <1>7, <1>0, <1>1, <1>2
  <2>2. CASE i + drop = Len(memory) + 1
    <3>1. Len(log) + 1 \in DOMAIN log' /\ log'[Len(log) + 1] = new[i] /\ Len(new) - i <= Len(log') - (Len(log) + 1)
      BY <2>1, <2>2, <1>0, <1>1, <1>2, <1>3, <1>4
    <3> QED BY <3>1
  <2>3. CASE i + drop \in DOMAIN memory
    <3>1. PICK p \in DOMAIN log : log[p] = memory[i + drop] /\ Len(memory) - (i + drop) <= Len(log) - p
      BY <2>3 DEF T!IsAHistory
    <3>2. p \in 1..Len(log) /\ i + drop \in 1..Len(memory)
      BY <3>1, <2>3, <1>0
    <3>3. new[i] = memory[i + drop]
      BY <3>2, <2>1, <1>0, <1>3
    <3>4. p \in DOMAIN log' /\ log'[p] = new[i]
      BY <3>1, <3>2, <3>3, <1>4, <1>0
    <3>5. Len(new) - i <= Len(log') - p
      BY <3>1, <3>2, <2>1, <1>0, <1>1, <1>2, <1>4
    <3> QED BY <3>4, <3>5
  <2> QED BY <2>1, <2>2, <2>3, <1>0
<1>8. T!ToSet(log') = T!ToSet(log) \cup {id}
  BY <1>0, <1>4 DEF T!ToSet
<1>9. T!ToSet(new) \subseteq T!ToSet(memory) \cup {id}
  <2> SUFFICES ASSUME NEW i \in 1..Len(new) PROVE new[i] \in T!ToSet(memory) \cup {id}
    BY <1>2 DEF T!ToSet
  <2> QED BY <1>0, <1>1, <1>2, <1>3 DEF T!ToSet
<1>10. id \in T!ToSet(new)
  <2>1. Len(new) \in 1..Len(new) /\ Len(new) + drop = Len(memory) + 1
    BY <1>0, <1>1, <1>2
  <2>2. new[Len(new)] = id
    BY <2>1, <1>3
  <2> QED BY <2>1, <2>2, <1>2 DEF T!ToSet
<1>11. ASSUME NEW m \in T!ToSet(memory) \ T!ToSet(new)
       PROVE  \E p \in DOMAIN log : log[p] = m /\ HistoryMax <= Len(log) + 1 - p
  <2>1. PICK k \in 1..Len(memory) : memory[k] = m
    BY <1>0, <1>11 DEF T!ToSet
  <2>2. k = 1 /\ drop = 1
    <3>1. ASSUME k - drop \in 1..Len(new) PROVE FALSE
      <4>1. new[k - drop] = m
        BY <3>1, <2>1, <1>0, <1>1, <1>3
      <4> QED BY <4>1, <3>1, <1>2, <1>11 DEF T!ToSet
    <3> QED BY <3>1, <2>1, <1>0, <1>1, <1>2
  <2>3. PICK p \in DOMAIN log : log[p] = m /\ Len(memory) - k <= Len(log) - p
    BY <2>1, <1>0 DEF T!IsAHistory
  <2>4. p \in 1..Len(log) /\ HistoryMax <= Len(log) + 1 - p
    BY <2>2, <2>3, <1>0, <1>1
  <2> QED BY <2>3, <2>4
<1> QED BY <1>2, <1>6, <1>7, <1>8, <1>9, <1>10, <1>11 DEF new

(* A message that is recorded, after which its sending is reported if it   *)
(* was stored.                                                            *)
LEMMA SecretRecordGrows ==
  ASSUME T!TypeOK, T!HistoriesAreOfTheRecord, NEW id \in T!Message, id \notin T!ToSet(log), NEW stored \in BOOLEAN,
         T!Remembers(id, stored), reported' \in {reported} \cup (IF stored THEN {reported \cup {id}} ELSE {}),
         UNCHANGED <<gone, wiped, swept>>
  PROVE  /\ memory' \in Seq(T!Message) /\ disk' \in Seq(T!Message) /\ log' \in Seq(T!Message)
         /\ T!HistoriesAreOfTheRecord' /\ T!ToSet(log)' = T!ToSet(log) \cup {id}
<1>0. /\ memory \in Seq(T!Message) /\ disk \in Seq(T!Message) /\ log \in Seq(T!Message) /\ HistoryMax \in Nat \ {0}
      /\ log' = Append(log, id) /\ memory' = T!Recorded(id) /\ disk' = IF stored THEN memory' ELSE disk
  BY SecretTypes DEF T!TypeOK, T!Remembers, T!Flush
<1>1. T!IsAHistory(memory) /\ T!IsAHistory(disk)
  BY DEF T!HistoriesAreOfTheRecord
<1>2. /\ Len(log') = Len(log) + 1 /\ log' \in Seq(T!Message) /\ log'[Len(log) + 1] = id
      /\ \A p \in 1..Len(log) : log'[p] = log[p]
  BY <1>0
<1>3. /\ memory' \in Seq(T!Message) /\ T!ToSet(log') = T!ToSet(log) \cup {id}
      /\ T!ToSet(memory') \subseteq T!ToSet(memory) \cup {id} /\ id \in T!ToSet(memory')
      /\ \A m \in T!ToSet(memory) \ T!ToSet(memory') : \E p \in DOMAIN log : log[p] = m /\ HistoryMax <= Len(log) + 1 - p
  BY <1>0, <1>1, SecretRecords
<1>4. T!IsAHistory(memory)'
  BY <1>0, <1>1, SecretRecords DEF T!IsAHistory
<1>5. T!IsAHistory(disk)'
  <2>1. CASE stored
    BY <2>1, <1>0, <1>4 DEF T!IsAHistory
  <2>2. CASE ~stored
    <3>1. disk' = disk
      BY <2>2, <1>0
    <3>2. ASSUME NEW i \in DOMAIN disk
          PROVE  \E p \in DOMAIN log' : log'[p] = disk[i] /\ Len(disk) - i <= Len(log') - p
      <4>1. PICK p \in DOMAIN log : log[p] = disk[i] /\ Len(disk) - i <= Len(log) - p
        BY <1>1 DEF T!IsAHistory
      <4>2. p \in 1..Len(log) /\ i \in 1..Len(disk)
        BY <4>1, <1>0
      <4>3. p \in DOMAIN log' /\ log'[p] = disk[i] /\ Len(disk) - i <= Len(log') - p
        BY <4>1, <4>2, <1>0, <1>2
      <4> QED BY <4>3
    <3> QED BY <3>1, <3>2, <1>1 DEF T!IsAHistory
  <2> QED BY <2>1, <2>2
<1>6. \A i, j \in DOMAIN log' : log'[i] = log'[j] => i = j
  <2>1. \A i, j \in 1..Len(log) : log[i] = log[j] => i = j
    BY <1>0 DEF T!HistoriesAreOfTheRecord
  <2>2. \A i \in 1..Len(log) : log[i] # id
    BY <1>0 DEF T!ToSet
  <2> SUFFICES ASSUME NEW i \in 1..Len(log) + 1, NEW j \in 1..Len(log) + 1, log'[i] = log'[j] PROVE i = j
    BY <1>2
  <2> QED BY <2>1, <2>2, <1>0, <1>2
<1>7. (gone \cup reported \subseteq T!ToSet(log))'
  BY <1>3, <1>0 DEF T!HistoriesAreOfTheRecord
<1>8. T!DeletedStaysDeleted'
  <2>1. T!ToSet(disk') \subseteq T!ToSet(disk) \cup T!ToSet(memory')
    BY <1>0
  <2>2. gone' = gone /\ id \notin gone /\ gone \cap (T!ToSet(memory) \cup T!ToSet(disk)) = {}
    BY DEF T!HistoriesAreOfTheRecord, T!DeletedStaysDeleted
  <2>3. gone' \cap (T!ToSet(memory') \cup T!ToSet(disk')) = {}
    BY <2>1, <2>2, <1>3
  <2> QED BY <2>3 DEF T!DeletedStaysDeleted, T!ToSet
<1>9. T!ReportedSendIsInBoth'
  <2> SUFFICES ASSUME NEW p \in DOMAIN log', log'[p] \in reported' \ (wiped \cup swept), Len(log') - p < HistoryMax
               PROVE  log'[p] \in T!ToSet(memory') /\ log'[p] \in T!ToSet(disk')
    BY DEF T!ReportedSendIsInBoth, T!ToSet
  <2>1. p \in 1..Len(log) + 1
    BY <1>2
  <2>2. CASE p = Len(log) + 1
    <3>1. id \in reported' /\ id \notin reported
      BY <2>2, <1>2 DEF T!HistoriesAreOfTheRecord
    <3>2. disk' = memory'
      BY <3>1, <1>0
    <3> QED BY <3>2, <2>2, <1>2, <1>3
  <2>3. CASE p \in 1..Len(log)
    <3>1. log'[p] = log[p] /\ Len(log) - p < HistoryMax /\ log[p] # id /\ Len(log) + 1 - p < HistoryMax
      <4>1. log[p] \in T!ToSet(log)
        BY <2>3, <1>0 DEF T!ToSet
      <4> QED BY <4>1, <2>3, <1>0, <1>2
    <3>2. log[p] \in T!ToSet(memory) /\ log[p] \in T!ToSet(disk)
      BY <3>1, <2>3, <1>0 DEF T!HistoriesAreOfTheRecord, T!ReportedSendIsInBoth
    <3>3. log[p] \in T!ToSet(memory')
      <4> SUFFICES ASSUME log[p] \notin T!ToSet(memory') PROVE FALSE
        OBVIOUS
      <4>1. PICK q \in DOMAIN log : log[q] = log[p] /\ HistoryMax <= Len(log) + 1 - q
        BY <3>2, <1>3
      <4>2. q = p
        BY <4>1, <2>3, <1>0 DEF T!HistoriesAreOfTheRecord
      <4> QED BY <4>1, <4>2, <3>1, <2>3, <1>0
    <3>4. disk' = disk \/ disk' = memory'
      BY <1>0
    <3> QED BY <3>1, <3>2, <3>3, <3>4
  <2> QED BY <2>1, <2>2, <2>3, <1>0
<1>10. disk' \in Seq(T!Message) /\ T!ToSet(log)' = T!ToSet(log')
  BY <1>0, <1>3 DEF T!ToSet
<1> QED BY <1>3, <1>2, <1>4, <1>5, <1>6, <1>7, <1>8, <1>9, <1>10 DEF T!HistoriesAreOfTheRecord

(* A history is stored over, by a part of it or by what was on disk.      *)
LEMMA SecretHistoryShrinks ==
  ASSUME T!TypeOK, T!HistoriesAreOfTheRecord, UNCHANGED <<log, reported>>,
         memory' \in Seq(T!Message), T!IsAHistory(memory'), disk' \in {disk, memory'},
         T!ToSet(memory') \subseteq T!ToSet(memory) \cup T!ToSet(disk),
         gone \subseteq gone', gone' \ gone \subseteq T!ToSet(log) \ T!ToSet(memory'), gone' # gone => disk' = memory',
         wiped \cup swept \subseteq wiped' \cup swept',
         \A m \in (reported \cap T!ToSet(memory) \cap T!ToSet(disk)) \ T!ToSet(memory') : m \in wiped' \cup swept'
  PROVE  T!HistoriesAreOfTheRecord'
<1> USE DEF T!HistoriesAreOfTheRecord
<1>1. T!IsAHistory(memory)' /\ T!IsAHistory(disk)'
  <2>1. T!IsAHistory(disk)
    OBVIOUS
  <2> QED BY <2>1 DEF T!IsAHistory
<1>2. (gone \cup reported \subseteq T!ToSet(log))'
  BY DEF T!ToSet
<1>3. T!DeletedStaysDeleted'
  <2>1. T!ToSet(disk') \in {T!ToSet(disk), T!ToSet(memory')}
    OBVIOUS
  <2>2. gone' \cap (T!ToSet(memory') \cup T!ToSet(disk')) = {}
    BY <2>1 DEF T!DeletedStaysDeleted
  <2> QED BY <2>2 DEF T!DeletedStaysDeleted, T!ToSet
<1>4. T!ReportedSendIsInBoth'
  <2> SUFFICES ASSUME NEW p \in DOMAIN log, log[p] \in reported \ (wiped' \cup swept'), Len(log) - p < HistoryMax
               PROVE  log[p] \in T!ToSet(memory') /\ log[p] \in T!ToSet(disk')
    BY DEF T!ReportedSendIsInBoth, T!ToSet
  <2>1. log[p] \in T!ToSet(memory) /\ log[p] \in T!ToSet(disk)
    BY DEF T!ReportedSendIsInBoth
  <2>2. log[p] \in T!ToSet(memory')
    BY <2>1
  <2> QED BY <2>1, <2>2
<1> QED BY <1>1, <1>2, <1>3, <1>4

LEMMA SecretHistoryRests ==
  ASSUME T!HistoriesAreOfTheRecord, UNCHANGED <<memory, disk, log, reported, gone, swept>>, wiped \subseteq wiped'
  PROVE  T!HistoriesAreOfTheRecord'
  BY DEF T!HistoriesAreOfTheRecord, T!IsAHistory, T!DeletedStaysDeleted, T!ReportedSendIsInBoth, T!ToSet

(* A call goes on: where it is fits what it is, and it holds the timer only *)
(* if it held it before or nobody did.                                     *)
LEMMA SecretCallGoesOn ==
  ASSUME T!Inv, NEW c \in Sender, NEW r \in T!CallRecord, secretCall' = [secretCall EXCEPT ![c] = r],
         T!AsItsPlaceSays(r),
         r.op \in {"timed", "timer"} /\ r.pc # "idle" => T!MovesTheTimer(c) \/ T!TimerIsFree
  PROVE  /\ secretCall' \in [Sender -> T!CallRecord] /\ secretCall'[c] = r
         /\ \A d \in Sender \ {c} : secretCall'[d] = secretCall[d]
         /\ (\A d \in Sender : T!AsItsPlaceSays(secretCall[d]))' /\ T!OneMovesTheTimer'
<1>1. secretCall \in [Sender -> T!CallRecord]
  BY DEF T!Inv, T!TypeOK
<1>2. secretCall' \in [Sender -> T!CallRecord] /\ secretCall'[c] = r /\ \A d \in Sender \ {c} : secretCall'[d] = secretCall[d]
  BY <1>1
<1>3. \A d \in Sender : T!AsItsPlaceSays(secretCall'[d])
  BY <1>2 DEF T!Inv
<1>4. T!OneMovesTheTimer'
  <2>1. \A d \in Sender \ {c} : T!MovesTheTimer(d)' <=> T!MovesTheTimer(d)
    BY <1>2 DEF T!MovesTheTimer
  <2>2. T!MovesTheTimer(c)' => T!MovesTheTimer(c) \/ \A d \in Sender : ~T!MovesTheTimer(d)
    BY <1>2 DEF T!MovesTheTimer, T!TimerIsFree
  <2> QED BY <2>1, <2>2 DEF T!OneMovesTheTimer, T!Inv
<1> QED BY <1>2, <1>3, <1>4 DEF T!AsItsPlaceSays

(* Its number, when what it has yet to record is new.                      *)
LEMMA SecretNumbersStay ==
  ASSUME T!Inv, NEW c \in Sender, NEW r \in T!CallRecord, secretCall' = [secretCall EXCEPT ![c] = r],
         sent' \in Nat, sent <= sent', T!ToSet(log) \subseteq T!ToSet(log)', T!ToSet(log)' \subseteq 1..sent',
         \A d \in Sender \ {c} : T!IsNew(d) =>
           secretCall[d].id \notin T!ToSet(log)' /\ (r.pc = "restoring" => r.id # secretCall[d].id),
         r.pc = "restoring" /\ r.id # 0 => r.id \in 1..sent' \ T!ToSet(log)',
         r.pc = "deleting" => r.id \in T!ToSet(log)'
  PROVE  T!NumbersAreOfSendings'
<1>1. secretCall \in [Sender -> T!CallRecord] /\ sent \in Nat
  BY SecretTypes DEF T!Inv, T!TypeOK
<1>2. secretCall' \in [Sender -> T!CallRecord] /\ secretCall'[c] = r /\ \A d \in Sender \ {c} : secretCall'[d] = secretCall[d]
  BY <1>1
<1>3. \A d \in Sender \ {c} : T!IsNew(d)' <=> T!IsNew(d)
  BY <1>2 DEF T!IsNew
<1>4. T!IsNew(c)' <=> r.pc = "restoring" /\ r.id # 0
  BY <1>2 DEF T!IsNew
<1>5. \A d \in Sender : T!IsNew(d)' => secretCall'[d].id \in 1..sent' \ T!ToSet(log)'
  BY <1>1, <1>2, <1>3, <1>4 DEF T!Inv, T!NumbersAreOfSendings
<1>6. \A d, e \in Sender : T!IsNew(d)' /\ T!IsNew(e)' /\ secretCall'[d].id = secretCall'[e].id => d = e
  BY <1>2, <1>3, <1>4 DEF T!Inv, T!NumbersAreOfSendings
<1>7. \A d \in Sender : secretCall'[d].pc = "deleting" => secretCall'[d].id \in T!ToSet(log)'
  BY <1>2 DEF T!Inv, T!NumbersAreOfSendings
<1> QED BY <1>5, <1>6, <1>7 DEF T!NumbersAreOfSendings

(* The timer, when the call has nothing to do with it and when it has: the *)
(* others then have not.                                                   *)
LEMMA SecretTimerRests ==
  ASSUME T!Inv, NEW c \in Sender, NEW r \in T!CallRecord, secretCall' = [secretCall EXCEPT ![c] = r],
         UNCHANGED <<timer, chosen, broken>>,
         secretCall[c].op \notin {"timed", "timer"} \/ secretCall[c].pc = "idle", r.op \notin {"timed", "timer"}
  PROVE  T!TimerComesBack'
<1>1. secretCall \in [Sender -> T!CallRecord] /\ T!TimerComesBack
  BY DEF T!Inv, T!TypeOK
<1>2. secretCall'[c] = r /\ \A d \in Sender \ {c} : secretCall'[d] = secretCall[d]
  BY <1>1
<1>3. \A d \in Sender : T!MovesTheTimer(d) => d # c /\ secretCall'[d] = secretCall[d] /\ T!MovesTheTimer(d)'
  BY <1>2 DEF T!MovesTheTimer
<1>4. \A d \in Sender : secretCall'[d].op = "timed" => d # c
  BY <1>2
<1> QED BY <1>1, <1>2, <1>3, <1>4 DEF T!TimerComesBack

LEMMA SecretMoverIsAlone ==
  ASSUME T!Inv, NEW c \in Sender, T!MovesTheTimer(c) \/ T!TimerIsFree
  PROVE  \A d \in Sender \ {c} : secretCall[d].op \notin {"timed", "timer"}
<1>1. \A d \in Sender : secretCall[d].op \in {"timed", "timer"} => T!MovesTheTimer(d)
  BY DEF T!Inv, T!AsItsPlaceSays, T!MovesTheTimer
<1> QED BY <1>1 DEF T!Inv, T!OneMovesTheTimer, T!TimerIsFree

LEMMA SecretTimerMoves ==
  ASSUME T!Inv, NEW c \in Sender, NEW r \in T!CallRecord, secretCall' = [secretCall EXCEPT ![c] = r],
         T!MovesTheTimer(c) \/ T!TimerIsFree,
         timer' = chosen' \/ broken' \/ (r.op = "timed" /\ r.pc \in {"sending", "restoring"}),
         r.op = "timed" => r.previous = chosen' \/ broken'
  PROVE  T!TimerComesBack'
<1>1. secretCall \in [Sender -> T!CallRecord]
  BY DEF T!Inv, T!TypeOK
<1>2. secretCall'[c] = r /\ \A d \in Sender \ {c} : secretCall'[d] = secretCall[d]
  BY <1>1
<1>3. \A d \in Sender : secretCall'[d].op = "timed" => d = c
  BY <1>2, SecretMoverIsAlone
<1>4. r.op = "timed" /\ r.pc \in {"sending", "restoring"} => T!MovesTheTimer(c)' /\ secretCall'[c].pc \in {"sending", "restoring"}
  BY <1>2 DEF T!MovesTheTimer
<1> QED BY <1>2, <1>3, <1>4 DEF T!TimerComesBack

(* What holds of the timer while a call that moves it is before or past    *)
(* its arming.                                                             *)
LEMMA SecretTimerHeld ==
  ASSUME T!Inv, NEW c \in Sender
  PROVE  /\ T!TimerIsFree => timer = chosen \/ broken
         /\ T!MovesTheTimer(c) /\ secretCall[c].pc \in {"arming", "setting"} => timer = chosen \/ broken
         /\ secretCall[c].op = "timed" => secretCall[c].previous = chosen \/ broken
<1>1. T!TimerComesBack /\ T!OneMovesTheTimer
  BY DEF T!Inv
<1>2. T!TimerIsFree => timer = chosen \/ broken
  BY <1>1 DEF T!TimerComesBack, T!TimerIsFree
<1>3. T!MovesTheTimer(c) /\ secretCall[c].pc \in {"arming", "setting"} => timer = chosen \/ broken
  BY <1>1 DEF T!TimerComesBack, T!OneMovesTheTimer
<1> QED BY <1>1, <1>2, <1>3 DEF T!TimerComesBack

LEMMA SecretRecordTypes ==
  ASSUME T!Inv, NEW c \in Sender
  PROVE  /\ secretCall[c] \in T!CallRecord /\ T!AsItsPlaceSays(secretCall[c])
         /\ timer \in T!Timer /\ chosen \in T!Timer /\ broken \in BOOLEAN /\ told \in BOOLEAN
         /\ sent \in 0..MaxMessages /\ restarts \in 0..MaxRestarts /\ scratch \in Sender \cup {T!NoOne}
         /\ reported \subseteq T!Message /\ gone \subseteq T!Message /\ wiped \subseteq T!Message /\ swept \subseteq T!Message
         /\ memory \in Seq(T!Message) /\ disk \in Seq(T!Message) /\ log \in Seq(T!Message)
         /\ secretCall \in [Sender -> T!CallRecord] /\ T!TypeOK
         /\ T!ToSet(memory) \subseteq T!ToSet(log) /\ T!ToSet(disk) \subseteq T!ToSet(log) /\ T!ToSet(log) \subseteq 1..sent
<1>1. T!TypeOK /\ T!AsItsPlaceSays(secretCall[c]) /\ T!NumbersAreOfSendings /\ T!HistoriesAreOfTheRecord
  BY DEF T!Inv
<1>2. timer \in T!Timer /\ chosen \in T!Timer /\ broken \in BOOLEAN /\ told \in BOOLEAN
  BY <1>1 DEF T!TypeOK
<1>3. /\ sent \in 0..MaxMessages /\ restarts \in 0..MaxRestarts /\ scratch \in Sender \cup {T!NoOne}
      /\ reported \subseteq T!Message /\ gone \subseteq T!Message /\ wiped \subseteq T!Message /\ swept \subseteq T!Message
      /\ memory \in Seq(T!Message) /\ disk \in Seq(T!Message) /\ log \in Seq(T!Message)
      /\ secretCall \in [Sender -> T!CallRecord]
  BY <1>1 DEF T!TypeOK
<1>4. T!ToSet(memory) \subseteq T!ToSet(log) /\ T!ToSet(disk) \subseteq T!ToSet(log)
  BY <1>1 DEF T!HistoriesAreOfTheRecord, T!IsAHistory, T!ToSet
<1> QED BY <1>1, <1>2, <1>3, <1>4 DEF T!NumbersAreOfSendings

(* The parts of the type invariant a step has to say something of.         *)
LEMMA SecretTypesAfter ==
  ASSUME timer' \in T!Timer, chosen' \in T!Timer, broken' \in BOOLEAN, told' \in BOOLEAN,
         sent' \in 0..MaxMessages, restarts' \in 0..MaxRestarts, scratch' \in Sender \cup {T!NoOne},
         reported' \subseteq T!Message, gone' \subseteq T!Message, wiped' \subseteq T!Message, swept' \subseteq T!Message,
         memory' \in Seq(T!Message), disk' \in Seq(T!Message), log' \in Seq(T!Message),
         secretCall' \in [Sender -> T!CallRecord]
  PROVE  T!TypeOK'
<1>1. ({timer, chosen} \subseteq T!Timer /\ {broken, told} \subseteq BOOLEAN)'
  BY DEF T!Timer
<1>2. ({memory, disk, log} \subseteq Seq(T!Message))'
  BY DEF T!Message
<1> QED BY <1>1, <1>2 DEF T!TypeOK, T!Message, T!Timer, T!CallRecord, T!NoOne

(* A step of a call that writes nothing to the histories.                  *)
LEMMA SecretQuietStep ==
  ASSUME T!Inv, NEW c \in Sender, NEW r \in T!CallRecord, secretCall' = [secretCall EXCEPT ![c] = r],
         T!AsItsPlaceSays(r),
         r.op \in {"timed", "timer"} /\ r.pc # "idle" => T!MovesTheTimer(c) \/ T!TimerIsFree,
         UNCHANGED <<memory, disk, log, reported, gone, swept, restarts>>, wiped \subseteq wiped', wiped' \subseteq T!Message,
         sent' \in {sent, sent + 1} \cap 0..MaxMessages,
         timer' \in T!Timer, chosen' \in T!Timer, broken' \in BOOLEAN, told' \in BOOLEAN,
         scratch' \in Sender \cup {T!NoOne}, T!TimerComesBack',
         r.pc = "restoring" /\ r.id # 0 => sent' = sent + 1 /\ r.id = sent',
         r.pc = "deleting" => r.id \in T!ToSet(log)
  PROVE  T!Inv'
<1>1. /\ secretCall' \in [Sender -> T!CallRecord] /\ (\A d \in Sender : T!AsItsPlaceSays(secretCall[d]))'
      /\ T!OneMovesTheTimer'
  BY SecretCallGoesOn
<1>2. T!ToSet(log)' = T!ToSet(log) /\ T!ToSet(log) \subseteq 1..sent /\ sent \in Nat /\ sent' \in Nat /\ sent <= sent'
  BY SecretRecordTypes, SecretTypes DEF T!ToSet
<1>3. \A d \in Sender : T!IsNew(d) => secretCall[d].id \in 1..sent \ T!ToSet(log)
  BY DEF T!Inv, T!NumbersAreOfSendings
<1>4. T!ToSet(log)' \subseteq 1..sent'
  BY <1>2
<1>5. \A d \in Sender \ {c} : T!IsNew(d) /\ r.pc = "restoring" => r.id # secretCall[d].id
  BY <1>2, <1>3 DEF T!IsNew
<1>6. r.pc = "restoring" /\ r.id # 0 => r.id \in 1..sent' \ T!ToSet(log)'
  BY <1>2
<1>7. T!NumbersAreOfSendings'
  <2>1. \A d \in Sender \ {c} : T!IsNew(d) =>
          secretCall[d].id \notin T!ToSet(log)' /\ (r.pc = "restoring" => r.id # secretCall[d].id)
    BY <1>2, <1>3, <1>5
  <2>2. T!ToSet(log) \subseteq T!ToSet(log)' /\ (r.pc = "deleting" => r.id \in T!ToSet(log)')
    BY <1>2
  <2> QED BY <1>2, <1>4, <1>6, <2>1, <2>2, SecretNumbersStay
<1>8. T!HistoriesAreOfTheRecord'
  BY SecretHistoryRests DEF T!Inv
<1>9. T!TypeOK'
  <2>1. /\ restarts' \in 0..MaxRestarts /\ reported' \subseteq T!Message /\ gone' \subseteq T!Message /\ swept' \subseteq T!Message
        /\ memory' \in Seq(T!Message) /\ disk' \in Seq(T!Message) /\ log' \in Seq(T!Message)
    BY SecretRecordTypes
  <2> QED BY <2>1, <1>1, SecretTypesAfter
<1> QED BY <1>1, <1>7, <1>8, <1>9 DEF T!Inv

LEMMA SecretQuietSteps ==
  ASSUME T!Inv, NEW c \in Sender,
         \/ \E s \in Seconds : T!BeginTimed(c, s)
         \/ \E s \in T!Timer : T!BeginTimer(c, s)
         \/ \E id \in T!ToSet(memory) : T!BeginDelete(c, id)
         \/ T!BeginSend(c) \/ T!BeginClear(c) \/ T!BeginCopy(c)
         \/ T!Arm(c) \/ T!ArmFails(c) \/ T!SendReturns(c) \/ T!SendRaises(c) \/ T!SendCancelled(c)
         \/ T!RestoreCancelled(c) \/ T!SetTimer(c) \/ T!CallFails(c) \/ T!DevicesClear(c)
  PROVE  T!Inv'
<1> DEFINE now == secretCall[c]
<1>0. /\ now \in T!CallRecord /\ T!AsItsPlaceSays(now) /\ T!Idle \in T!CallRecord
      /\ timer \in T!Timer /\ chosen \in T!Timer /\ broken \in BOOLEAN /\ told \in BOOLEAN
      /\ sent \in 0..MaxMessages /\ scratch \in Sender \cup {T!NoOne} /\ wiped \subseteq T!Message
      /\ secretCall \in [Sender -> T!CallRecord]
      /\ T!ToSet(memory) \subseteq T!ToSet(log) /\ T!ToSet(memory) \subseteq T!Message
      /\ Seconds \subseteq T!Timer /\ MaxMessages \in Nat
  <2>1. memory \in Seq(T!Message)
    BY SecretRecordTypes
  <2>2. T!ToSet(memory) \subseteq T!Message
    BY <2>1 DEF T!ToSet
  <2>3. Seconds \subseteq T!Timer
    BY DEF T!Timer
  <2> QED BY <2>2, <2>3, SecretRecordTypes, SecretTypes
<1>1. ASSUME NEW s \in Seconds, T!BeginTimed(c, s) PROVE T!Inv'
  <2> DEFINE r == T!TimedSend(s)
  <2>1. r \in T!CallRecord /\ r.op = "timed" /\ r.pc = "arming" /\ r.previous = timer /\ r.id = 0
    BY <1>0 DEF T!TimedSend, T!Idle, T!CallRecord
  <2>2. /\ T!TimerIsFree /\ secretCall' = [secretCall EXCEPT ![c] = r]
        /\ UNCHANGED <<timer, chosen, broken, told, sent, memory, disk, log, reported, gone, wiped, swept, scratch, restarts>>
    BY <1>1 DEF T!BeginTimed, T!Begins, T!timerVars, T!historyVars
  <2> HIDE DEF r
  <2>3. T!TimerComesBack'
    BY <2>1, <2>2, SecretTimerMoves, SecretTimerHeld
  <2>4. T!AsItsPlaceSays(r)
    BY <2>1 DEF T!AsItsPlaceSays
  <2> QED BY <2>1, <2>2, <2>3, <2>4, <1>0, SecretQuietStep
<1>2. ASSUME NEW s \in T!Timer, T!BeginTimer(c, s) PROVE T!Inv'
  <2> DEFINE r == [T!Idle EXCEPT !.op = "timer", !.pc = "setting", !.seconds = s]
  <2>1. r \in T!CallRecord /\ r.op = "timer" /\ r.pc = "setting"
    BY <1>0 DEF T!Idle, T!CallRecord
  <2>2. /\ T!TimerIsFree /\ secretCall' = [secretCall EXCEPT ![c] = r]
        /\ UNCHANGED <<timer, chosen, broken, told, sent, memory, disk, log, reported, gone, wiped, swept, scratch, restarts>>
    BY <1>2 DEF T!BeginTimer, T!Begins, T!timerVars, T!historyVars
  <2> HIDE DEF r
  <2>3. T!TimerComesBack'
    BY <2>1, <2>2, SecretTimerMoves, SecretTimerHeld
  <2>4. T!AsItsPlaceSays(r)
    BY <2>1 DEF T!AsItsPlaceSays
  <2> QED BY <2>1, <2>2, <2>3, <2>4, <1>0, SecretQuietStep
<1>3. ASSUME NEW id \in T!ToSet(memory), T!BeginDelete(c, id) PROVE T!Inv'
  <2> DEFINE r == [T!Idle EXCEPT !.op = "delete", !.pc = "deleting", !.id = id]
  <2>1. r \in T!CallRecord /\ r.op = "delete" /\ r.pc = "deleting" /\ r.id = id
    BY <1>0 DEF T!Idle, T!CallRecord
  <2>2. /\ now.pc = "idle" /\ secretCall' = [secretCall EXCEPT ![c] = r]
        /\ UNCHANGED <<timer, chosen, broken, told, sent, memory, disk, log, reported, gone, wiped, swept, scratch, restarts>>
    BY <1>3 DEF T!BeginDelete, T!Begins, T!timerVars, T!historyVars
  <2> HIDE DEF r
  <2>3. T!TimerComesBack'
    BY <2>1, <2>2, SecretTimerRests
  <2>4. T!AsItsPlaceSays(r)
    BY <2>1 DEF T!AsItsPlaceSays
  <2> QED BY <2>1, <2>2, <2>3, <2>4, <1>0, SecretQuietStep
<1>4. CASE T!BeginSend(c) \/ T!BeginClear(c) \/ T!BeginCopy(c)
  <2> DEFINE r == IF T!BeginSend(c) THEN [T!Idle EXCEPT !.op = "plain", !.pc = "sending"]
                  ELSE IF T!BeginClear(c) THEN [T!Idle EXCEPT !.op = "clear", !.pc = "flushing"]
                  ELSE [T!Idle EXCEPT !.op = "copy", !.pc = "sending"]
  <2>1. r \in T!CallRecord /\ r.op \in {"plain", "clear", "copy"} /\ r.pc \in {"sending", "flushing"}
    BY <1>0 DEF T!Idle, T!CallRecord
  <2>2. /\ now.pc = "idle" /\ secretCall' = [secretCall EXCEPT ![c] = r]
        /\ UNCHANGED <<timer, chosen, broken, told, sent, memory, disk, log, reported, gone, wiped, swept, restarts>>
        /\ scratch' \in Sender \cup {T!NoOne}
    BY <1>4, <1>0 DEF T!BeginSend, T!BeginClear, T!BeginCopy, T!Begins, T!timerVars, T!historyVars
  <2> HIDE DEF r
  <2>3. T!TimerComesBack'
    BY <2>1, <2>2, SecretTimerRests
  <2>4. T!AsItsPlaceSays(r)
    BY <2>1 DEF T!AsItsPlaceSays
  <2> QED BY <2>1, <2>2, <2>3, <2>4, <1>0, SecretQuietStep
<1>5. CASE T!Arm(c)
  <2> DEFINE r == [now EXCEPT !.pc = "sending"]
  <2>1. now.pc = "arming" /\ now.op = "timed" /\ T!MovesTheTimer(c)
    BY <1>5, <1>0 DEF T!Arm, T!AsItsPlaceSays, T!MovesTheTimer
  <2>2. r \in T!CallRecord /\ r.op = "timed" /\ r.pc = "sending" /\ r.previous = now.previous /\ r.id = 0
    BY <1>0, <2>1 DEF T!CallRecord, T!AsItsPlaceSays
  <2>3. /\ secretCall' = [secretCall EXCEPT ![c] = r] /\ timer' = now.seconds
        /\ UNCHANGED <<chosen, broken, told, sent, memory, disk, log, reported, gone, wiped, swept, scratch, restarts>>
    BY <1>5 DEF T!Arm, T!Goes, T!historyVars
  <2>4. now.seconds \in T!Timer
    BY <1>0 DEF T!CallRecord
  <2> HIDE DEF r, now
  <2>5. T!TimerComesBack'
    BY <2>1, <2>2, <2>3, SecretTimerMoves, SecretTimerHeld DEF now
  <2>6. T!AsItsPlaceSays(r)
    BY <2>2 DEF T!AsItsPlaceSays
  <2> QED BY <2>1, <2>2, <2>3, <2>4, <2>5, <2>6, <1>0, SecretQuietStep
<1>6. CASE T!SendReturns(c) \/ T!SendRaises(c) \/ T!SendCancelled(c)
  <2> DEFINE r == IF T!SendReturns(c) THEN [now EXCEPT !.pc = "restoring", !.id = sent + 1]
                  ELSE IF T!SendRaises(c) THEN [now EXCEPT !.pc = "restoring"]
                  ELSE [now EXCEPT !.pc = "restoring", !.cancelled = TRUE]
  <2>1. now.pc = "sending" /\ now.op = "timed" /\ T!MovesTheTimer(c)
    BY <1>6 DEF T!SendReturns, T!SendRaises, T!SendCancelled, T!MovesTheTimer
  <2>2. T!SendReturns(c) => sent + 1 \in T!Message
    BY <1>0 DEF T!SendReturns, T!Message
  <2>3. /\ secretCall' = [secretCall EXCEPT ![c] = r]
        /\ sent' \in {sent, sent + 1} \cap 0..MaxMessages /\ (T!SendReturns(c) => sent' = sent + 1)
        /\ UNCHANGED <<timer, chosen, broken, told, memory, disk, log, reported, gone, wiped, swept, scratch, restarts>>
    <3>1. CASE T!SendReturns(c)
      <4>1. sent' = sent + 1 /\ sent' \in 0..MaxMessages
        BY <3>1, <1>0 DEF T!SendReturns
      <4>2. secretCall' = [secretCall EXCEPT ![c].pc = "restoring", ![c].id = sent + 1]
        BY <3>1 DEF T!SendReturns
      <4>3. secretCall' = [secretCall EXCEPT ![c] = r]
        BY <4>2, <3>1, <1>0
      <4> QED BY <4>1, <4>3, <3>1 DEF T!SendReturns, T!timerVars, T!historyVars
    <3>2. CASE T!SendRaises(c) /\ ~T!SendReturns(c)
      BY <3>2, <1>0 DEF T!SendRaises, T!Goes, T!timerVars, T!historyVars
    <3>3. CASE T!SendCancelled(c) /\ ~T!SendReturns(c) /\ ~T!SendRaises(c)
      BY <3>3, <1>0 DEF T!SendCancelled, T!timerVars, T!historyVars
    <3> QED BY <3>1, <3>2, <3>3, <1>6
  <2>4. r \in T!CallRecord /\ r.op = "timed" /\ r.pc = "restoring" /\ r.previous = now.previous
    BY <1>0, <2>1, <2>2 DEF T!CallRecord
  <2>5. T!SendReturns(c) => r.id = sent + 1
    BY <1>0 DEF T!CallRecord
  <2>6. ~T!SendReturns(c) => r.id = now.id
    BY <1>0 DEF T!CallRecord
  <2>7. now.id = 0
    BY <1>0, <2>1 DEF T!AsItsPlaceSays
  <2> HIDE DEF r, now
  <2>8. T!TimerComesBack'
    BY <2>1, <2>3, <2>4, SecretTimerMoves, SecretTimerHeld DEF now
  <2>9. T!AsItsPlaceSays(r)
    BY <2>4 DEF T!AsItsPlaceSays
  <2> QED BY <2>1, <2>3, <2>4, <2>5, <2>6, <2>7, <2>8, <2>9, <1>0, SecretQuietStep
<1>7. CASE T!ArmFails(c) \/ T!RestoreCancelled(c) \/ T!SetTimer(c)
  <2>1. T!MovesTheTimer(c) /\ now.pc \in {"arming", "restoring", "setting"} /\ now.op \in {"timed", "timer"}
    BY <1>7, <1>0 DEF T!ArmFails, T!RestoreCancelled, T!SetTimer, T!AsItsPlaceSays, T!MovesTheTimer
  <2>2. /\ secretCall' = [secretCall EXCEPT ![c] = T!Idle]
        /\ UNCHANGED <<sent, memory, disk, log, reported, gone, wiped, swept, scratch, restarts>>
    BY <1>7 DEF T!ArmFails, T!RestoreCancelled, T!SetTimer, T!Ends, T!historyVars
  <2>3. now.previous \in T!Timer /\ now.seconds \in T!Timer
    BY <1>0 DEF T!CallRecord
  <2>4. /\ timer' \in T!Timer /\ chosen' \in T!Timer /\ broken' \in BOOLEAN /\ told' \in BOOLEAN
        /\ timer' = chosen' \/ broken'
    <3>1. CASE T!ArmFails(c)
      BY <3>1, <1>0, <2>1, SecretTimerHeld DEF T!ArmFails
    <3>2. CASE T!RestoreCancelled(c)
      <4>1. now.op = "timed"
        BY <3>2, <1>0 DEF T!RestoreCancelled, T!AsItsPlaceSays
      <4>2. now.previous = chosen \/ broken
        BY <4>1, SecretTimerHeld
      <4> QED BY <3>2, <4>2, <1>0, <2>3 DEF T!RestoreCancelled
    <3>3. CASE T!SetTimer(c)
      BY <3>3, <2>3 DEF T!SetTimer
    <3> QED BY <3>1, <3>2, <3>3, <1>7
  <2>5. T!Idle.op = "plain" /\ T!Idle.pc = "idle" /\ T!Idle.id = 0
    BY DEF T!Idle
  <2>6. T!TimerComesBack'
    BY <2>1, <2>2, <2>4, <2>5, <1>0, SecretTimerMoves
  <2>7. T!AsItsPlaceSays(T!Idle)
    BY <2>5 DEF T!AsItsPlaceSays
  <2> QED BY <2>1, <2>2, <2>4, <2>5, <2>6, <2>7, <1>0, SecretQuietStep
<1>8. CASE T!CallFails(c)
  <2>1. /\ secretCall' = [secretCall EXCEPT ![c] = T!Idle] /\ scratch' \in Sender \cup {T!NoOne}
        /\ UNCHANGED <<timer, chosen, broken, told, sent, memory, disk, log, reported, gone, wiped, swept, restarts>>
    BY <1>8, <1>0 DEF T!CallFails, T!Ends, T!timerVars, T!historyVars
  <2>2. T!Idle.op = "plain" /\ T!Idle.pc = "idle" /\ T!Idle.id = 0
    BY DEF T!Idle
  <2>3. T!TimerComesBack'
    <3>1. CASE now.pc = "setting"
      <4>1. T!MovesTheTimer(c)
        BY <3>1, <1>0 DEF T!AsItsPlaceSays, T!MovesTheTimer
      <4> QED BY <4>1, <3>1, <2>1, <2>2, <1>0, SecretTimerMoves, SecretTimerHeld
    <3>2. CASE now.pc # "setting"
      <4>1. now.op \notin {"timed", "timer"}
        BY <3>2, <1>8, <1>0 DEF T!CallFails, T!AsItsPlaceSays
      <4> QED BY <4>1, <2>1, <2>2, <1>0, SecretTimerRests
    <3> QED BY <3>1, <3>2
  <2>4. T!AsItsPlaceSays(T!Idle)
    BY <2>2 DEF T!AsItsPlaceSays
  <2> QED BY <2>1, <2>2, <2>3, <2>4, <1>0, SecretQuietStep
<1>9. CASE T!DevicesClear(c)
  <2> DEFINE r == [now EXCEPT !.pc = "flushed"]
  <2>1. /\ secretCall' = [secretCall EXCEPT ![c] = r] /\ now.pc = "flushing" /\ wiped' = wiped \cup 1..sent
        /\ UNCHANGED <<timer, chosen, broken, told, sent, memory, disk, log, reported, gone, swept, scratch, restarts>>
    BY <1>9 DEF T!DevicesClear, T!Goes, T!timerVars
  <2>2. now.op \notin {"timed", "timer"}
    BY <2>1, <1>0 DEF T!AsItsPlaceSays
  <2>3. r \in T!CallRecord /\ r.op = now.op /\ r.pc = "flushed"
    BY <1>0 DEF T!CallRecord
  <2>4. wiped' \subseteq T!Message
    BY <2>1, <1>0 DEF T!Message
  <2> HIDE DEF r
  <2>5. T!TimerComesBack'
    BY <2>1, <2>2, <2>3, SecretTimerRests
  <2>6. T!AsItsPlaceSays(r)
    BY <2>2, <2>3 DEF T!AsItsPlaceSays
  <2> QED BY <2>1, <2>2, <2>3, <2>4, <2>5, <2>6, <1>0, SecretQuietStep
<1> QED BY <1>1, <1>2, <1>3, <1>4, <1>5, <1>6, <1>7, <1>8, <1>9

(* Calls that end, and one message more in the record at most.             *)
LEMMA SecretCallsEnd ==
  ASSUME T!Inv, secretCall' \in [Sender -> T!CallRecord], \A d \in Sender : secretCall'[d] \in {secretCall[d], T!Idle},
         sent' \in {sent, sent + 1} \cap 0..MaxMessages,
         NEW new \in SUBSET (1..sent'), T!ToSet(log)' = T!ToSet(log) \cup new,
         \A d \in Sender : T!IsNew(d) /\ secretCall[d].id \in new => secretCall'[d] = T!Idle
  PROVE  /\ (\A d \in Sender : T!AsItsPlaceSays(secretCall[d]))' /\ T!OneMovesTheTimer'
         /\ T!NumbersAreOfSendings'
<1>1. T!Idle.op = "plain" /\ T!Idle.pc = "idle" /\ T!Idle.id = 0
  BY DEF T!Idle
<1>2. \A d \in Sender : T!AsItsPlaceSays(secretCall'[d])
  BY <1>1 DEF T!Inv, T!AsItsPlaceSays
<1>3. T!OneMovesTheTimer'
  <2>1. \A d \in Sender : T!MovesTheTimer(d)' => T!MovesTheTimer(d)
    BY <1>1 DEF T!MovesTheTimer
  <2> QED BY <2>1 DEF T!Inv, T!OneMovesTheTimer
<1>4. T!NumbersAreOfSendings'
  <2>0. sent \in Nat /\ sent' \in Nat /\ sent <= sent' /\ 1..sent \subseteq 1..sent'
    BY SecretTypes DEF T!Inv, T!TypeOK
  <2>1. \A d \in Sender : T!IsNew(d)' => T!IsNew(d) /\ secretCall'[d] = secretCall[d] /\ secretCall'[d] # T!Idle
    BY <1>1 DEF T!IsNew
  <2>2. \A d \in Sender : T!IsNew(d)' => secretCall'[d].id \in 1..sent' \ T!ToSet(log)'
    BY <2>0, <2>1 DEF T!Inv, T!NumbersAreOfSendings
  <2>3. \A d, e \in Sender : T!IsNew(d)' /\ T!IsNew(e)' /\ secretCall'[d].id = secretCall'[e].id => d = e
    BY <2>1 DEF T!Inv, T!NumbersAreOfSendings
  <2>4. \A d \in Sender : secretCall'[d].pc = "deleting" => secretCall'[d].id \in T!ToSet(log)'
    BY <1>1 DEF T!Inv, T!NumbersAreOfSendings
  <2>5. T!ToSet(log)' \subseteq 1..sent'
    BY <2>0 DEF T!Inv, T!NumbersAreOfSendings
  <2> QED BY <2>2, <2>3, <2>4, <2>5 DEF T!NumbersAreOfSendings
<1> QED BY <1>2, <1>3, <1>4 DEF T!AsItsPlaceSays

LEMMA SecretTimerIsLeft ==
  ASSUME T!Inv, UNCHANGED <<timer, chosen, broken>>,
         \A d \in Sender : secretCall'[d] \in {secretCall[d], T!Idle} /\ (T!MovesTheTimer(d) => secretCall'[d] = secretCall[d])
  PROVE  T!TimerComesBack'
<1>1. T!TimerComesBack /\ T!Idle.op = "plain"
  BY DEF T!Inv, T!Idle
<1>2. \A d \in Sender : T!MovesTheTimer(d) => secretCall'[d] = secretCall[d] /\ T!MovesTheTimer(d)'
  BY DEF T!MovesTheTimer
<1> QED BY <1>1, <1>2 DEF T!TimerComesBack

(* A message that goes out and is recorded at once.                        *)
LEMMA SecretDeliveries ==
  ASSUME T!Inv, (\E c \in Sender : T!PlainSendReturns(c) \/ T!CopyReturns(c)) \/ T!Receive
  PROVE  T!Inv'
<1>0. /\ T!TypeOK /\ sent \in 0..MaxMessages /\ MaxMessages \in Nat /\ T!ToSet(log) \subseteq 1..sent
      /\ secretCall \in [Sender -> T!CallRecord] /\ T!Idle \in T!CallRecord /\ reported \subseteq T!Message
      /\ scratch \in Sender \cup {T!NoOne} /\ T!HistoriesAreOfTheRecord
  BY SecretTypes DEF T!Inv, T!TypeOK, T!NumbersAreOfSendings
<1> DEFINE id == sent + 1
<1>1. /\ sent' = id /\ sent < MaxMessages /\ UNCHANGED <<timer, chosen, broken, told, gone, wiped, swept, restarts>>
      /\ scratch' \in Sender \cup {T!NoOne} /\ secretCall' \in [Sender -> T!CallRecord]
      /\ \A d \in Sender : secretCall'[d] \in {secretCall[d], T!Idle} /\ (T!MovesTheTimer(d) \/ T!IsNew(d) => secretCall'[d] = secretCall[d])
  <2>1. CASE T!Receive
    BY <2>1, <1>0 DEF T!Receive, T!timerVars
  <2>2. ASSUME NEW c \in Sender, T!PlainSendReturns(c) \/ T!CopyReturns(c)
        PROVE  /\ sent' = id /\ sent < MaxMessages
               /\ UNCHANGED <<timer, chosen, broken, told, gone, wiped, swept, restarts>>
               /\ scratch' \in Sender \cup {T!NoOne} /\ secretCall' = [secretCall EXCEPT ![c] = T!Idle]
               /\ ~T!MovesTheTimer(c) /\ ~T!IsNew(c)
    <3>1. CASE T!PlainSendReturns(c)
      BY <3>1, <1>0 DEF T!PlainSendReturns, T!Delivers, T!Ends, T!timerVars, T!MovesTheTimer, T!IsNew
    <3>2. CASE T!CopyReturns(c)
      BY <3>2, <1>0 DEF T!CopyReturns, T!Delivers, T!Ends, T!timerVars, T!MovesTheTimer, T!IsNew
    <3> QED BY <3>1, <3>2, <2>2
  <2>3. ASSUME NEW c \in Sender, secretCall' = [secretCall EXCEPT ![c] = T!Idle], ~T!MovesTheTimer(c), ~T!IsNew(c)
        PROVE  /\ secretCall' \in [Sender -> T!CallRecord]
               /\ \A d \in Sender : secretCall'[d] \in {secretCall[d], T!Idle} /\ (T!MovesTheTimer(d) \/ T!IsNew(d) => secretCall'[d] = secretCall[d])
    BY <2>3, <1>0
  <2> QED BY <2>1, <2>2, <2>3
<1>2. PICK stored \in BOOLEAN : T!Remembers(id, stored) /\ reported' \in {reported} \cup (IF stored THEN {reported \cup {id}} ELSE {})
  BY DEF T!Receive, T!PlainSendReturns, T!CopyReturns, T!Delivers
<1>3. id \in T!Message /\ id \notin T!ToSet(log) /\ id \in Nat
  BY <1>0, <1>1 DEF T!Message
<1>4. /\ memory' \in Seq(T!Message) /\ disk' \in Seq(T!Message) /\ log' \in Seq(T!Message)
      /\ T!HistoriesAreOfTheRecord' /\ T!ToSet(log)' = T!ToSet(log) \cup {id}
  BY <1>0, <1>1, <1>2, <1>3, SecretRecordGrows
<1>5. T!TimerComesBack'
  BY <1>1, SecretTimerIsLeft
<1>6. \A d \in Sender : T!IsNew(d) => secretCall[d].id \notin {id}
  BY <1>0 DEF T!Inv, T!NumbersAreOfSendings
<1>7. (\A d \in Sender : T!AsItsPlaceSays(secretCall[d]))' /\ T!OneMovesTheTimer' /\ T!NumbersAreOfSendings'
  <2>1. {id} \in SUBSET (1..sent') /\ sent' \in {sent, sent + 1} \cap 0..MaxMessages
    BY <1>0, <1>1
  <2> QED BY <2>1, <1>1, <1>4, <1>6, SecretCallsEnd
<1>8. T!TypeOK'
  <2>1. /\ timer' \in T!Timer /\ chosen' \in T!Timer /\ broken' \in BOOLEAN /\ told' \in BOOLEAN
        /\ restarts' \in 0..MaxRestarts /\ gone' \subseteq T!Message /\ wiped' \subseteq T!Message /\ swept' \subseteq T!Message
    BY <1>0, <1>1 DEF T!TypeOK
  <2>2. sent' \in 0..MaxMessages /\ reported' \subseteq T!Message
    BY <1>0, <1>1, <1>2, <1>3
  <2> QED BY <2>1, <2>2, <1>1, <1>4, SecretTypesAfter
<1> QED BY <1>4, <1>5, <1>7, <1>8 DEF T!Inv

(* A timed send that is over: what it sent is recorded.                    *)
LEMMA SecretRestores ==
  ASSUME T!Inv, NEW c \in Sender, T!Restore(c) \/ T!RestoreFails(c)
  PROVE  T!Inv'
<1> DEFINE id == secretCall[c].id
<1>0. /\ T!TypeOK /\ sent \in 0..MaxMessages /\ MaxMessages \in Nat /\ T!ToSet(log) \subseteq 1..sent
      /\ secretCall \in [Sender -> T!CallRecord] /\ T!Idle \in T!CallRecord /\ reported \subseteq T!Message
      /\ T!HistoriesAreOfTheRecord /\ timer \in T!Timer /\ chosen \in T!Timer /\ broken \in BOOLEAN /\ told \in BOOLEAN
      /\ memory \in Seq(T!Message) /\ disk \in Seq(T!Message) /\ log \in Seq(T!Message)
  BY SecretRecordTypes, SecretTypes DEF T!Inv
<1>1. PICK armed \in BOOLEAN, stored \in BOOLEAN : T!Concludes(c, armed, stored)
  BY DEF T!Restore, T!RestoreFails
<1>2. /\ secretCall' = [secretCall EXCEPT ![c] = T!Idle] /\ UNCHANGED <<chosen, sent, gone, wiped, swept, scratch, restarts>>
      /\ secretCall[c].pc = "restoring"
      /\ \/ timer' = secretCall[c].previous /\ broken' = broken
         \/ timer' = timer /\ broken' = TRUE
  <2>1. secretCall' = [secretCall EXCEPT ![c] = T!Idle]
    BY <1>1 DEF T!Concludes, T!Ends
  <2>2. CASE T!Restore(c)
    BY <2>1, <2>2 DEF T!Restore
  <2>3. CASE T!RestoreFails(c)
    BY <2>1, <2>3 DEF T!RestoreFails
  <2> QED BY <2>2, <2>3
<1>3. secretCall[c].op = "timed" /\ T!MovesTheTimer(c) /\ secretCall[c].previous \in T!Timer /\ id \in T!Message \cup {0}
  BY <1>0, <1>2 DEF T!Inv, T!AsItsPlaceSays, T!MovesTheTimer, T!CallRecord
<1>4. timer' \in T!Timer /\ broken' \in BOOLEAN /\ (timer' = chosen' \/ broken')
  BY <1>0, <1>2, <1>3, SecretTimerHeld
<1>5. T!TimerComesBack'
  <2>1. T!Idle.op = "plain"
    BY DEF T!Idle
  <2> QED BY <2>1, <1>0, <1>2, <1>3, <1>4, SecretTimerMoves
<1>6. told' \in BOOLEAN
  BY <1>0, <1>1 DEF T!Concludes
<1>7. /\ memory' \in Seq(T!Message) /\ disk' \in Seq(T!Message) /\ log' \in Seq(T!Message) /\ reported' \subseteq T!Message
      /\ T!HistoriesAreOfTheRecord' /\ T!ToSet(log)' = T!ToSet(log) \cup ({id} \ {0})
  <2>1. CASE id = 0
    <3>1. UNCHANGED <<memory, disk, log, reported>>
      BY <2>1, <1>1 DEF T!Concludes
    <3>2. T!HistoriesAreOfTheRecord'
      BY <3>1, <1>0, <1>2, SecretHistoryRests
    <3> QED BY <3>1, <3>2, <2>1, <1>0 DEF T!ToSet
  <2>2. CASE id # 0
    <3>1. T!IsNew(c)
      BY <2>2, <1>2 DEF T!IsNew
    <3>2. id \in T!Message /\ id \notin T!ToSet(log)
      BY <3>1, <2>2, <1>3 DEF T!Inv, T!NumbersAreOfSendings
    <3>3. T!Remembers(id, stored) /\ reported' \in {reported} \cup (IF stored THEN {reported \cup {id}} ELSE {})
      BY <2>2, <1>1 DEF T!Concludes
    <3>4. /\ memory' \in Seq(T!Message) /\ disk' \in Seq(T!Message) /\ log' \in Seq(T!Message)
          /\ T!HistoriesAreOfTheRecord' /\ T!ToSet(log)' = T!ToSet(log) \cup {id}
      BY <3>2, <3>3, <1>0, <1>2, SecretRecordGrows
    <3> QED BY <3>2, <3>3, <3>4, <2>2, <1>0
  <2> QED BY <2>1, <2>2
<1>8. (\A d \in Sender : T!AsItsPlaceSays(secretCall[d]))' /\ T!OneMovesTheTimer' /\ T!NumbersAreOfSendings'
  <2>1. id \in 1..sent \cup {0}
    BY <1>2, <1>0 DEF T!Inv, T!NumbersAreOfSendings, T!IsNew
  <2>2. secretCall' \in [Sender -> T!CallRecord] /\ secretCall'[c] = T!Idle /\ \A d \in Sender \ {c} : secretCall'[d] = secretCall[d]
    BY <1>0, <1>2
  <2>3. \A d \in Sender : T!IsNew(d) /\ secretCall[d].id \in {id} \ {0} => secretCall'[d] = T!Idle
    BY <2>2, <1>2 DEF T!Inv, T!NumbersAreOfSendings, T!IsNew
  <2>4. {id} \ {0} \in SUBSET (1..sent') /\ sent' \in {sent, sent + 1} \cap 0..MaxMessages
    BY <2>1, <1>0, <1>2
  <2>5. \A d \in Sender : secretCall'[d] \in {secretCall[d], T!Idle}
    BY <2>2
  <2> HIDE DEF id
  <2> QED BY <2>2, <2>3, <2>4, <2>5, <1>7, SecretCallsEnd
<1>9. T!TypeOK'
  <2>1. /\ restarts' \in 0..MaxRestarts /\ gone' \subseteq T!Message /\ wiped' \subseteq T!Message /\ swept' \subseteq T!Message
        /\ sent' \in 0..MaxMessages /\ chosen' \in T!Timer /\ scratch' \in Sender \cup {T!NoOne}
    BY <1>0, <1>2 DEF T!TypeOK
  <2>2. /\ secretCall' \in [Sender -> T!CallRecord]
        /\ timer' \in T!Timer
        /\ broken' \in BOOLEAN
    <3>1. secretCall' \in [Sender -> T!CallRecord]
      BY <1>0, <1>2
    <3> QED BY <3>1, <1>4
  <2>3. memory' \in Seq(T!Message) /\ disk' \in Seq(T!Message) /\ log' \in Seq(T!Message) /\ reported' \subseteq T!Message
    BY <1>7
  <2> QED BY <2>1, <2>2, <2>3, <1>6, SecretTypesAfter
<1> QED BY <1>5, <1>7, <1>8, <1>9 DEF T!Inv

(* A deletion, a clearing and a restart write a history over.              *)
LEMMA SecretErasures ==
  ASSUME T!Inv, (\E c \in Sender : T!DeleteReturns(c) \/ T!ClearReturns(c)) \/ T!Restart
  PROVE  T!Inv'
<1>0. /\ T!TypeOK /\ sent \in 0..MaxMessages /\ MaxMessages \in Nat /\ MaxRestarts \in Nat
      /\ secretCall \in [Sender -> T!CallRecord] /\ T!Idle \in T!CallRecord
      /\ reported \subseteq T!Message /\ gone \subseteq T!Message /\ wiped \subseteq T!Message /\ swept \subseteq T!Message
      /\ T!HistoriesAreOfTheRecord /\ T!IsAHistory(memory) /\ T!IsAHistory(disk)
      /\ memory \in Seq(T!Message) /\ disk \in Seq(T!Message) /\ log \in Seq(T!Message)
      /\ T!ToSet(memory) \subseteq T!Message /\ T!Idle.op = "plain" /\ T!Idle.pc = "idle"
  <2>1. memory \in Seq(T!Message)
    BY DEF T!Inv, T!TypeOK
  <2>2. T!ToSet(memory) \subseteq T!Message
    BY <2>1 DEF T!ToSet
  <2> QED BY <2>2, SecretTypes DEF T!Inv, T!TypeOK, T!HistoriesAreOfTheRecord, T!Idle
<1>1. ASSUME UNCHANGED <<timer, chosen, told, sent, log, reported>>, broken' \in BOOLEAN, restarts' \in 0..MaxRestarts,
             scratch' \in Sender \cup {T!NoOne}, gone' \subseteq T!Message, wiped' \subseteq T!Message, swept' \subseteq T!Message,
             secretCall' \in [Sender -> T!CallRecord], \A d \in Sender : secretCall'[d] \in {secretCall[d], T!Idle},
             memory' \in Seq(T!Message), disk' \in {disk, memory'}, T!TimerComesBack', T!HistoriesAreOfTheRecord'
      PROVE  T!Inv'
  <2>1. T!TypeOK'
    <3>1. /\ timer' \in T!Timer /\ chosen' \in T!Timer /\ told' \in BOOLEAN /\ sent' \in 0..MaxMessages
          /\ reported' \subseteq T!Message /\ disk' \in Seq(T!Message) /\ log' \in Seq(T!Message)
      BY <1>0, <1>1 DEF T!TypeOK
    <3> QED BY <3>1, <1>1, SecretTypesAfter
  <2>2. {} \in SUBSET (1..sent') /\ sent' \in {sent, sent + 1} \cap 0..MaxMessages /\ T!ToSet(log)' = T!ToSet(log) \cup {}
    BY <1>0, <1>1 DEF T!ToSet
  <2>3. (\A d \in Sender : T!AsItsPlaceSays(secretCall[d]))' /\ T!OneMovesTheTimer' /\ T!NumbersAreOfSendings'
    BY <2>2, <1>1, SecretCallsEnd
  <2> QED BY <2>1, <2>3, <1>1 DEF T!Inv
<1>2. ASSUME NEW c \in Sender, secretCall' = [secretCall EXCEPT ![c] = T!Idle], ~T!MovesTheTimer(c)
      PROVE  /\ secretCall' \in [Sender -> T!CallRecord]
             /\ \A d \in Sender : secretCall'[d] \in {secretCall[d], T!Idle} /\ (T!MovesTheTimer(d) => secretCall'[d] = secretCall[d])
  BY <1>2, <1>0
<1>3. ASSUME NEW c \in Sender, T!DeleteReturns(c) PROVE T!Inv'
  <2> DEFINE id == secretCall[c].id
  <2>1. /\ secretCall' = [secretCall EXCEPT ![c] = T!Idle] /\ secretCall[c].pc = "deleting" /\ wiped' = wiped \cup {id}
        /\ UNCHANGED <<timer, chosen, broken, told, sent, log, reported, swept, scratch, restarts>>
    BY <1>3 DEF T!DeleteReturns, T!Ends, T!timerVars
  <2>2. /\ memory' = T!Without(id) /\ disk' \in {disk, memory'} /\ gone' \in {gone, gone \cup {id}}
        /\ (gone' # gone => disk' = memory')
    BY <1>3 DEF T!DeleteReturns, T!Flush
  <2>3. id \in T!ToSet(log) /\ id \in T!Message
    <3>1. id \in T!ToSet(log)
      BY <2>1 DEF T!Inv, T!NumbersAreOfSendings
    <3> QED BY <3>1, <1>0 DEF T!ToSet
  <2>4. ~T!MovesTheTimer(c)
    BY <2>1 DEF T!Inv, T!AsItsPlaceSays, T!MovesTheTimer
  <2>5. memory' \in Seq(T!Message) /\ T!IsAHistory(memory') /\ T!ToSet(memory') = T!ToSet(memory) \ {id}
    BY <2>2, <1>0, SecretForgets
  <2> HIDE DEF id
  <2>6. T!HistoriesAreOfTheRecord'
    <3>1. T!ToSet(memory') \subseteq T!ToSet(memory) \cup T!ToSet(disk)
      BY <2>5
    <3>2. \A m \in (reported \cap T!ToSet(memory) \cap T!ToSet(disk)) \ T!ToSet(memory') : m \in wiped' \cup swept'
      BY <2>1, <2>5
    <3>3. /\ gone \subseteq gone' /\ gone' \ gone \subseteq T!ToSet(log) \ T!ToSet(memory')
          /\ wiped \cup swept \subseteq wiped' \cup swept'
      BY <2>1, <2>2, <2>3, <2>5
    <3>4. UNCHANGED <<log, reported>> /\ disk' \in {disk, memory'} /\ (gone' # gone => disk' = memory')
      BY <2>1, <2>2
    <3> QED BY <3>1, <3>2, <3>3, <3>4, <2>5, <1>0, SecretHistoryShrinks
  <2>7. T!TimerComesBack'
    BY <2>1, <2>4, <1>2, SecretTimerIsLeft
  <2> QED BY <2>1, <2>2, <2>3, <2>4, <2>5, <2>6, <2>7, <1>0, <1>1, <1>2 DEF T!TypeOK
<1>4. ASSUME NEW c \in Sender, T!ClearReturns(c) PROVE T!Inv'
  <2>1. /\ secretCall' = [secretCall EXCEPT ![c] = T!Idle] /\ secretCall[c].pc = "flushed" /\ swept' = swept \cup T!ToSet(memory)
        /\ UNCHANGED <<timer, chosen, broken, told, sent, log, reported, gone, wiped, scratch, restarts>>
    BY <1>4 DEF T!ClearReturns, T!Ends, T!timerVars
  <2>2. memory' = <<>> /\ disk' \in {disk, memory'}
    BY <1>4 DEF T!ClearReturns, T!Flush
  <2>3. ~T!MovesTheTimer(c)
    BY <2>1 DEF T!Inv, T!AsItsPlaceSays, T!MovesTheTimer
  <2>4. memory' \in Seq(T!Message) /\ T!IsAHistory(memory') /\ T!ToSet(memory') = {}
    BY <2>2 DEF T!IsAHistory, T!ToSet
  <2>5. T!HistoriesAreOfTheRecord'
    <3>1. \A m \in (reported \cap T!ToSet(memory) \cap T!ToSet(disk)) \ T!ToSet(memory') : m \in wiped' \cup swept'
      BY <2>1
    <3> QED BY <3>1, <2>1, <2>2, <2>4, <1>0, SecretHistoryShrinks
  <2>6. T!TimerComesBack'
    BY <2>1, <2>3, <1>2, SecretTimerIsLeft
  <2> QED BY <2>1, <2>2, <2>3, <2>4, <2>5, <2>6, <1>0, <1>1, <1>2 DEF T!TypeOK
<1>5. CASE T!Restart
  <2>1. /\ memory' = disk /\ secretCall' = [d \in Sender |-> T!Idle] /\ restarts' = restarts + 1 /\ restarts < MaxRestarts
        /\ broken' = (broken \/ \E d \in Sender : secretCall[d].pc \in {"sending", "restoring"} /\ T!MovesTheTimer(d))
        /\ scratch' = T!NoOne /\ UNCHANGED <<timer, chosen, told, sent, disk, log, reported, gone, wiped, swept>>
    BY <1>5 DEF T!Restart
  <2>2. T!TimerComesBack'
    <3>1. \A d \in Sender : secretCall'[d].op # "timed"
      BY <2>1, <1>0
    <3>2. timer' = chosen' \/ broken'
      BY <2>1 DEF T!Inv, T!TimerComesBack
    <3> QED BY <3>1, <3>2 DEF T!TimerComesBack
  <2>3. T!HistoriesAreOfTheRecord'
    <3>1. /\ memory' \in Seq(T!Message) /\ T!IsAHistory(memory') /\ disk' \in {disk, memory'}
          /\ T!ToSet(memory') \subseteq T!ToSet(memory) \cup T!ToSet(disk)
          /\ \A m \in (reported \cap T!ToSet(memory) \cap T!ToSet(disk)) \ T!ToSet(memory') : m \in wiped' \cup swept'
      BY <2>1, <1>0
    <3>2. UNCHANGED <<log, reported>> /\ gone' = gone /\ wiped \cup swept \subseteq wiped' \cup swept'
      BY <2>1
    <3> QED BY <3>1, <3>2, <1>0, SecretHistoryShrinks
  <2>4. broken' \in BOOLEAN
    BY <2>1, <1>0 DEF T!TypeOK
  <2>5. restarts' \in 0..MaxRestarts
    BY <2>1, <1>0 DEF T!TypeOK
  <2> QED BY <2>1, <2>2, <2>3, <2>4, <2>5, <1>0, <1>1
<1> QED BY <1>3, <1>4, <1>5

LEMMA SecretStep ==
  ASSUME T!Inv, [T!Next]_T!chatVars
  PROVE  T!Inv'
<1>1. CASE UNCHANGED T!chatVars
  <2>1. UNCHANGED <<timer, chosen, broken, told, sent, reported, gone, wiped, swept, log, memory, disk, scratch, restarts, secretCall>>
    BY <1>1 DEF T!chatVars, T!timerVars, T!historyVars
  <2> QED BY <2>1 DEF T!Inv, T!TypeOK, T!AsItsPlaceSays, T!OneMovesTheTimer, T!MovesTheTimer, T!TimerComesBack,
            T!NumbersAreOfSendings, T!IsNew, T!HistoriesAreOfTheRecord, T!IsAHistory, T!DeletedStaysDeleted,
            T!ReportedSendIsInBoth, T!ToSet
<1>2. CASE T!Next
  BY <1>2, SecretQuietSteps, SecretDeliveries, SecretRestores, SecretErasures DEF T!Next
<1> QED BY <1>1, <1>2

LEMMA SecretPromise == ASSUME T!Inv PROVE T!TimerIsTheOwners /\ T!DeletedStaysDeleted /\ T!ReportedSendIsRemembered
<1>1. T!TimerIsTheOwners
  BY DEF T!Inv, T!TimerComesBack, T!TimerIsTheOwners
<1>2. T!DeletedStaysDeleted
  BY DEF T!Inv, T!HistoriesAreOfTheRecord
<1>3. T!ReportedSendIsRemembered
  <2>0. log \in Seq(T!Message) /\ HistoryMax \in Nat \ {0}
    BY SecretTypes DEF T!Inv, T!TypeOK
  <2> SUFFICES ASSUME NEW m \in reported \ (wiped \cup swept), m \in T!ToSet(T!LastMost(log, HistoryMax)) PROVE m \in T!ToSet(disk)
    BY DEF T!ReportedSendIsRemembered
  <2> DEFINE from == IF Len(log) > HistoryMax THEN Len(log) - HistoryMax + 1 ELSE 1
             most == SubSeq(log, from, Len(log))
  <2>1. from \in 1..Len(log) + 1 /\ Len(log) - from < HistoryMax
    BY <2>0
  <2>2. Len(most) = Len(log) - from + 1 /\ \A i \in 1..Len(log) - from + 1 : most[i] = log[from + i - 1]
    <3> HIDE DEF from
    <3> QED BY <2>0, <2>1
  <2> HIDE DEF from
  <2>3. PICK i \in 1..Len(log) - from + 1 : m = most[i]
    <3>1. DOMAIN most = 1..Len(log) - from + 1
      BY <2>0, <2>1, <2>2
    <3> QED BY <3>1 DEF T!LastMost, T!ToSet, from
  <2>4. from + i - 1 \in 1..Len(log) /\ m = log[from + i - 1] /\ Len(log) - (from + i - 1) < HistoryMax
    BY <2>0, <2>1, <2>2, <2>3
  <2> QED BY <2>4, <2>0 DEF T!Inv, T!HistoriesAreOfTheRecord, T!ReportedSendIsInBoth
<1> QED BY <1>1, <1>2, <1>3

(* For any senders, timers, history length and restarts: a secret chat     *)
(* ends up with its owner's timer when sends and timers do not overlap,    *)
(* what was deleted stays deleted, and a reported send is on disk while it *)
(* is recent (tools/secret_chats.py, secret_history.py).                   *)
THEOREM SecretsStayKept == MCSpec => []SecretsAreKept
<1>1. MCInit => T!Inv
  BY SecretInit DEF MCInit
<1>2. T!Inv /\ [MCNext]_vars => T!Inv'
  <2>1. [MCNext]_vars => [T!Next]_T!chatVars
    BY DEF MCNext, vars, secretChat, T!chatVars, T!timerVars, T!historyVars
  <2> QED BY <2>1, SecretStep
<1>3. T!Inv => SecretsAreKept
  BY SecretPromise DEF SecretsAreKept
<1> QED BY <1>1, <1>2, <1>3, PTL DEF MCSpec
===============================================================================

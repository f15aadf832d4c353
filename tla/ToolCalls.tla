----------------------------- MODULE ToolCalls -----------------------------
(***************************************************************************)
(* A tool call on its way to its body: the safe-mode guard with its        *)
(* policy, allow list and rate limit (telegram_mcp/security.py), the       *)
(* budget of the call (tool_budget.py) and the tools that are exposed      *)
(* (runtime.py).  The panel that edits the policy is another process, and  *)
(* this one reads the file once.                                           *)
(*                                                                         *)
(* Abstractions.  Time is counted in ticks.  A tool is its name, whether   *)
(* it is annotated read-only and whether its name is exempt; a policy is   *)
(* the fields the guard reads.  The body of a call is a duration.          *)
(***************************************************************************)
EXTENDS Integers, Sequences, SequencesExt

CONSTANTS
  Call,
  Chat, NoChat,
  Delay,    \* rate_limit_delay
  Budget,   \* TELEGRAM_TOOL_TIMEOUT_SECONDS
  MaxTime,  \* bound on the clock
  Prompt,   \* the loop serves timers and locks before time passes
  Policies  \* what the configuration file may say

ToolCallsAssumption ==
  /\ {Delay, Budget, MaxTime} \subseteq Nat /\ Budget > 0
  /\ Prompt \in BOOLEAN
  /\ NoChat \notin Chat /\ "none" \notin Call
  /\ \A p \in Policies : p.safe \in BOOLEAN /\ p.readOnly \in BOOLEAN /\ p.paced \in BOOLEAN
                         /\ p.strict \in BOOLEAN /\ p.allowed \subseteq Chat

VARIABLES
  file,     \* safe_config.json: a policy, missing or broken
  active,   \* _ACTIVE_CONFIG
  exposed,  \* the tools that are registered
  now,
  last,     \* _LAST_REQUEST_TIME
  lock,     \* who holds _RATE_LOCK
  waiting,  \* who waits for it, in order
  calls,
  latest    \* when the last paced body began

callVars == <<file, active, exposed, now, last, lock, waiting, calls, latest>>

None == "none"
Missing == [state |-> "missing"]
Broken == [state |-> "broken"]
Unread == [state |-> "unread"]
Defaults == [safe |-> TRUE, readOnly |-> FALSE, paced |-> TRUE, strict |-> FALSE, allowed |-> {}]
Tool == {"get_me", "inspect_message", "send_message"}
ReadOnlyHint(tool) == tool # "send_message"  \* _is_read_only(): annotations
Exempt(tool) == tool = "get_me"              \* READ_ONLY_EXEMPT_TOOLS and the prefixes

Unasked == [pc |-> "unasked", chat |-> NoChat, arrived |-> 0, wake |-> 0, due |-> 0]
Ended == {"refused", "failed", "answered", "timed out", "cancelled"}

CallRecord == [pc : {"unasked", "waiting", "sleeping", "running"} \cup Ended,
               chat : Chat \cup {NoChat}, arrived : 0..MaxTime, wake : 0..MaxTime + Delay, due : 0..MaxTime + Budget]

TypeOK ==
  /\ file \in Policies \cup {Defaults, Missing, Broken}
  /\ active \in Policies \cup {Defaults, Unread}
  /\ exposed \subseteq Tool
  /\ now \in 0..MaxTime /\ last \in 0..MaxTime /\ latest \in -Delay..MaxTime
  /\ lock \in Call \cup {None}
  /\ waiting \in Seq(Call)
  /\ calls \in [Call -> CallRecord]

(* _apply_exposed_tools_mode(): what a mode leaves registered.             *)
ExposedUnder(mode, allowlist) ==
  {tool \in Tool : mode = "all" \/ tool \in allowlist \/ ReadOnlyHint(tool)}

Init ==
  /\ file \in Policies \cup {Missing, Broken}
  /\ active = Unread
  /\ exposed \in {ExposedUnder("all", {}), ExposedUnder("read-only", {}),
                  ExposedUnder("read-only", {"send_message"})}
  /\ now = 0 /\ last = 0 /\ latest = -Delay
  /\ lock = None /\ waiting = <<>>
  /\ calls = [c \in Call |-> Unasked]

----------------------------------------------------------------------------
(* Definitions whose name says what they get wrong are defects the checks  *)
(* must notice; no action uses them.                                       *)

(* SafeSecurityConfig.load(), reached by the first get_security_config().  *)
Loaded == IF file \in {Missing, Broken} THEN Defaults ELSE file
Policy == IF active = Unread THEN Loaded ELSE active
Reads ==
  /\ active' = Policy
  /\ file' = IF active = Unread /\ file = Missing THEN Defaults ELSE file

(* is_chat_allowed() for a target.                                         *)
IsChatAllowed(policy, target) ==
  \/ ~policy.safe
  \/ policy.allowed = {} /\ ~policy.strict
  \/ target \in policy.allowed

RefusedAsWriting(tool) == Policy.safe /\ Policy.readOnly /\ ~Exempt(tool)

(* The guard passes account= to is_chat_allowed(), which takes one         *)
(* argument: a call that names a chat raises there.                        *)
ChatCheckRaises(target) == target # NoChat

Runs(c, call) == calls' = [calls EXCEPT ![c] = [call EXCEPT !.pc = "running", !.due = now + Budget]]

(* SafeSecurityMiddleware as far as enforce_rate_limit().                  *)
Arrive(c, tool, target) ==
  LET call == [Unasked EXCEPT !.chat = target, !.arrived = now]
      Becomes(pc) == calls' = [calls EXCEPT ![c] = [call EXCEPT !.pc = pc]]
  IN /\ calls[c].pc = "unasked"
     /\ Reads
     /\ \/ RefusedAsWriting(tool) /\ Becomes("refused") /\ UNCHANGED waiting
        \/ /\ ~RefusedAsWriting(tool) /\ ChatCheckRaises(target)
           /\ Becomes("failed") /\ UNCHANGED waiting
        \/ /\ ~RefusedAsWriting(tool) /\ ~ChatCheckRaises(target)
           /\ IF Policy.safe /\ Policy.paced /\ Delay > 0
                THEN Becomes("waiting") /\ waiting' = Append(waiting, c)
                ELSE Runs(c, call) /\ UNCHANGED waiting
     /\ UNCHANGED <<exposed, now, last, lock, latest>>

SleepsWithoutTheLock(c) == UNCHANGED lock
KeepsTheLock(c) == lock' = c

(* enforce_rate_limit() with the lock: on its way, or asleep.              *)
TakeLock ==
  /\ waiting # <<>> /\ lock = None
  /\ waiting' = Tail(waiting)
  /\ LET c == Head(waiting)
     IN IF now - last < Delay
          THEN /\ calls' = [calls EXCEPT ![c].pc = "sleeping", ![c].wake = last + Delay]
               /\ KeepsTheLock(c)
               /\ UNCHANGED <<last, latest>>
          ELSE /\ Runs(c, calls[c])
               /\ last' = now /\ latest' = now
               /\ UNCHANGED lock
  /\ UNCHANGED <<file, active, exposed, now>>

Wake(c) ==
  /\ calls[c].pc = "sleeping" /\ now >= calls[c].wake
  /\ Runs(c, calls[c])
  /\ last' = now /\ latest' = now
  /\ lock' = None
  /\ UNCHANGED <<file, active, exposed, now, waiting>>

(* The budget is inside the guard: it starts with the body.                *)
Answer(c) ==
  /\ calls[c].pc = "running"
  /\ calls' = [calls EXCEPT ![c].pc = "answered"]
  /\ UNCHANGED <<file, active, exposed, now, last, lock, waiting, latest>>

TimesOut(c) ==
  /\ calls[c].pc = "running" /\ now >= calls[c].due
  /\ calls' = [calls EXCEPT ![c].pc = "timed out"]
  /\ UNCHANGED <<file, active, exposed, now, last, lock, waiting, latest>>

(* The client gives the call up, wherever it waits.                        *)
Cancel(c) ==
  /\ calls[c].pc \in {"waiting", "sleeping", "running"}
  /\ calls' = [calls EXCEPT ![c].pc = "cancelled"]
  /\ waiting' = Remove(waiting, c)
  /\ lock' = IF lock = c THEN None ELSE lock
  /\ UNCHANGED <<file, active, exposed, now, last, latest>>

(* update_security_config() in the panel's process.                        *)
PanelSaves(policy) ==
  /\ file # policy
  /\ file' = policy
  /\ UNCHANGED <<active, exposed, now, last, lock, waiting, calls, latest>>

(* A timer that is due, or a lock that can be taken.                       *)
Overdue ==
  \/ waiting # <<>> /\ lock = None
  \/ \E c \in Call : calls[c].pc = "sleeping" /\ now >= calls[c].wake
  \/ \E c \in Call : calls[c].pc = "running" /\ now >= calls[c].due

Tick ==
  /\ now < MaxTime
  /\ Prompt => ~Overdue
  /\ now' = now + 1
  /\ UNCHANGED <<file, active, exposed, last, lock, waiting, calls, latest>>

Next ==
  \/ Tick \/ TakeLock
  \/ \E c \in Call : \/ Wake(c) \/ Answer(c) \/ TimesOut(c) \/ Cancel(c)
                     \/ \E tool \in exposed, target \in Chat \cup {NoChat} : Arrive(c, tool, target)
  \/ \E policy \in Policies : PanelSaves(policy)

Spec == Init /\ [][Next]_callVars

----------------------------------------------------------------------------
(* The pacing of enforce_rate_limit(): two bodies that it lets through     *)
(* begin at least the delay apart, whoever waits, wakes late or gives up.  *)
RequestsAreSpaced == [][latest' # latest => latest' - latest >= Delay]_callVars

(* Why, as an inductive invariant: who sleeps holds the lock, so nothing   *)
(* has moved the last request since it set its alarm.                      *)
SleeperHoldsTheLock == \A c \in Call : calls[c].pc = "sleeping" => lock = c /\ calls[c].wake = last + Delay
Pacing ==
  /\ now \in 0..MaxTime /\ last \in 0..now /\ latest \in -Delay..last
  /\ calls \in [Call -> CallRecord]
  /\ SleeperHoldsTheLock

(* install() of tool_budget.py: "the ceiling covers every other            *)
(* middleware".  No call still waits for the guard past its budget.        *)
BudgetCoversTheCall ==
  \A c \in Call : calls[c].pc \in {"waiting", "sleeping"} => now <= calls[c].arrived + Budget

(* test_middleware_allows_whitelisted_chat: a call that names an allowed   *)
(* chat gets past the guard.                                               *)
AllowedCallsAreServed ==
  \A c \in Call : calls[c].chat # NoChat /\ IsChatAllowed(Policy, calls[c].chat)
                  => calls[c].pc # "failed"

(* The panel's settings apply "in real time" (README).                     *)
PolicyIsCurrent == active = Unread \/ active = file
=============================================================================

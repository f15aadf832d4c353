---------------------------- MODULE PeerLookup ----------------------------
(***************************************************************************)
(* Resolving a chat (runtime._resolve_with_retries) over an entity cache   *)
(* that is empty until the dialogs were fetched once: the shared warm of   *)
(* telegram_mcp/dialog_warm.py, its window, its failure, a caller that     *)
(* gives up, and the retirement or shutdown that cancels it.  One client.  *)
(*                                                                         *)
(* Abstractions.  A chat is named as the cache knows it, or bare, so that  *)
(* only its marked variants are in the cache.  A lookup that misses asks   *)
(* Telegram and fails: without an access hash it cannot be answered.       *)
(***************************************************************************)
EXTENDS Naturals, FiniteSets

CONSTANTS
  Caller, Chat,
  Dialogs,  \* the chats the dialogs name
  Window,   \* _DIALOG_WARM_SECONDS
  MaxTime, MaxWarms \* bounds: clock, warms that are started

PeerLookupAssumption ==
  /\ Dialogs \subseteq Chat
  /\ {Window, MaxTime, MaxWarms} \subseteq Nat

VARIABLES
  now,
  cache,      \* the chats the session knows
  stamp,      \* _dialog_warmed: since when, or Never
  warms,      \* the tasks, in the order they were started
  registered, \* _dialog_warms[client], 0 for none
  stopping,   \* the client was retired, or the server is shutting down
  lookups

lookupVars == <<now, cache, stamp, warms, registered, stopping, lookups>>

Never == MaxTime + Window + 1
WarmId == 1..MaxWarms
Running == {w \in WarmId : warms[w] \in {"running", "cancelling"}}
Fresh == stamp # Never /\ now - stamp < Window

Idle == [pc |-> "idle", chat |-> "none", bare |-> FALSE, warm |-> 0, quit |-> FALSE, second |-> FALSE,
         told |-> "nothing"]
Over == {"found", "unknown", "cancelled"}

TypeOK ==
  /\ now \in 0..MaxTime
  /\ cache \subseteq Chat
  /\ stamp \in 0..MaxTime \cup {Never}
  /\ warms \in [WarmId -> {"unborn", "running", "cancelling", "warmed", "failed", "cancelled"}]
  /\ registered \in 0..MaxWarms
  /\ stopping \in BOOLEAN
  /\ lookups \in [Caller -> [pc : {"idle", "asking", "warming", "again"} \cup Over,
                             chat : Chat \cup {"none"}, bare : BOOLEAN, warm : 0..MaxWarms,
                             quit : BOOLEAN, second : BOOLEAN,
                             told : {"nothing", "same answer", "another answer"}]]

Init ==
  /\ now = 0
  /\ cache = {}
  /\ stamp = Never
  /\ warms = [w \in WarmId |-> "unborn"]
  /\ registered = 0
  /\ stopping = FALSE
  /\ lookups = [c \in Caller |-> Idle]

----------------------------------------------------------------------------
(* Definitions whose name says what they get wrong are defects the checks  *)
(* must notice; no action uses them.                                       *)

Goes(c, pc) == lookups' = [lookups EXCEPT ![c].pc = pc]

(* get(): the session knows the name as it was given.                      *)
Known(call) == call.chat \in cache /\ ~call.bare

(* The marked variants of a bare name are tried last.                      *)
AfterTheVariants(call) == IF call.bare /\ call.chat \in cache THEN "found" ELSE "unknown"

Lookup(c, chat, bare) ==
  /\ lookups[c].pc = "idle"
  /\ LET call == [Idle EXCEPT !.chat = chat, !.bare = bare]
     IN lookups' = [lookups EXCEPT ![c] = [call EXCEPT !.pc = IF Known(call) THEN "found" ELSE "asking"]]
  /\ UNCHANGED <<now, cache, stamp, warms, registered, stopping>>

Unborn == {w \in WarmId : warms[w] = "unborn"}
Join(c, w) == lookups' = [lookups EXCEPT ![c].pc = "warming", ![c].warm = w]

(* The answer is a ValueError; warm_dialogs_once() looks at the window and *)
(* joins the warm that runs or starts one.  told records, for the property *)
(* alone, what asking again would have answered when it said no.           *)
Missed(c) ==
  /\ lookups[c].pc = "asking"
  /\ \/ /\ Fresh
        /\ lookups' = [lookups EXCEPT
             ![c].pc = AfterTheVariants(lookups[c]),
             ![c].told = IF Known(lookups[c]) THEN "another answer" ELSE "same answer"]
        /\ UNCHANGED <<warms, registered>>
     \/ /\ ~Fresh /\ registered \in Running
        /\ Join(c, registered) /\ UNCHANGED <<warms, registered>>
     \/ /\ ~Fresh /\ registered \notin Running
        /\ \E w \in Unborn : /\ \A other \in Unborn : w <= other
                             /\ warms' = [warms EXCEPT ![w] = "running"]
                             /\ registered' = w
                             /\ Join(c, w)
  /\ UNCHANGED <<now, cache, stamp, stopping>>

(* A ConnectionError instead: reconnect and ask once more.                 *)
AsksOnceMore(c) ==
  /\ lookups[c].pc = "asking" /\ ~lookups[c].second
  /\ lookups' = [lookups EXCEPT ![c].second = TRUE,
                                ![c].pc = IF Known(lookups[c]) THEN "found" ELSE "asking"]
  /\ UNCHANGED <<now, cache, stamp, warms, registered, stopping>>

(* _warm_dialogs(): the dialogs are in the cache before the stamp is.      *)
StampsAFailure(outcome) == outcome \in {"warmed", "failed"}
Stamps(outcome) == outcome = "warmed"

WarmEnds(w, outcome) ==
  /\ outcome \in (CASE warms[w] = "running" -> {"warmed", "failed"}
                     [] warms[w] = "cancelling" -> {"cancelled"}
                     [] OTHER -> {})
  /\ warms' = [warms EXCEPT ![w] = outcome]
  /\ cache' = IF outcome = "warmed" THEN cache \cup Dialogs ELSE cache
  /\ stamp' = IF Stamps(outcome) THEN now ELSE stamp
  /\ UNCHANGED <<now, registered, stopping, lookups>>

(* _forget_warm(), scheduled by the task that ended.                       *)
Forget(w) ==
  /\ warms[w] \notin {"unborn", "running", "cancelling"}
  /\ registered = w
  /\ registered' = 0
  /\ UNCHANGED <<now, cache, stamp, warms, stopping, lookups>>

(* The shielded wait ends: look again, fall through, or be cancelled too.  *)
Resumes(c) ==
  LET call == lookups[c]
      outcome == warms[call.warm]
  IN /\ call.pc = "warming"
     /\ outcome \in {"warmed", "failed", "cancelled"}
     /\ Goes(c, CASE outcome = "warmed" -> IF Known(call) THEN "found" ELSE "again"
                  [] outcome = "failed" -> AfterTheVariants(call)
                  [] outcome = "cancelled" -> "cancelled")
     /\ UNCHANGED <<now, cache, stamp, warms, registered, stopping>>

MissedAgain(c) ==
  /\ lookups[c].pc = "again"
  /\ Goes(c, AfterTheVariants(lookups[c]))
  /\ UNCHANGED <<now, cache, stamp, warms, registered, stopping>>

(* The budget or the client gives the call up; the shield keeps the warm.  *)
CancelsTheWarm(c) ==
  warms' = [w \in WarmId |-> IF w = lookups[c].warm /\ warms[w] = "running" THEN "cancelling" ELSE warms[w]]
Shield(c) == UNCHANGED warms

GiveUp(c) ==
  /\ lookups[c].pc \in {"asking", "warming", "again"}
  /\ lookups' = [lookups EXCEPT ![c].pc = "cancelled", ![c].quit = TRUE]
  /\ Shield(c)
  /\ UNCHANGED <<now, cache, stamp, registered, stopping>>

(* cancel_warm() at retirement, drain_warms() at shutdown.                 *)
Stop ==
  /\ ~stopping
  /\ stopping' = TRUE
  /\ registered' = 0
  /\ warms' = [w \in WarmId |-> IF w = registered /\ warms[w] = "running" THEN "cancelling" ELSE warms[w]]
  /\ UNCHANGED <<now, cache, stamp, lookups>>

Tick ==
  /\ now < MaxTime
  /\ now' = now + 1
  /\ UNCHANGED <<cache, stamp, warms, registered, stopping, lookups>>

Next ==
  \/ Tick \/ Stop
  \/ \E w \in WarmId : Forget(w) \/ \E outcome \in {"warmed", "failed", "cancelled"} : WarmEnds(w, outcome)
  \/ \E c \in Caller : \/ Missed(c) \/ AsksOnceMore(c) \/ Resumes(c) \/ MissedAgain(c) \/ GiveUp(c)
                       \/ \E chat \in Chat, bare \in BOOLEAN : Lookup(c, chat, bare)

Spec == Init /\ [][Next]_lookupVars

----------------------------------------------------------------------------
(* The warm belongs to nobody who waits for it: one runs at a time, and a  *)
(* call that is cancelled gave up itself, or the client was stopped.       *)
WarmIsShared ==
  /\ Cardinality(Running) <= 1 \/ stopping
  /\ \A c \in Caller : lookups[c].pc = "cancelled" => lookups[c].quit \/ stopping

(* The window suppresses no retry that is needed: while it is open, the    *)
(* dialogs are in the cache.                                               *)
WindowMeansWarmed == Fresh => Dialogs \subseteq cache

(* Why, as an inductive invariant: the stamp says that the dialogs came,   *)
(* the warm that runs is the registered one, and who stops it is the stop. *)
IsWaiting(c) ==
  /\ DOMAIN lookups[c] = DOMAIN Idle
  /\ lookups[c].pc = "warming" => lookups[c].warm \in WarmId
  /\ lookups[c].pc = "cancelled" => lookups[c].quit \/ stopping
OneWarmRuns ==
  /\ warms = [w \in WarmId |-> warms[w]]
  /\ ~stopping => /\ Running \subseteq {registered}
                  /\ \A w \in WarmId : warms[w] \notin {"cancelling", "cancelled"}
Inv ==
  /\ stamp # Never => Dialogs \subseteq cache
  /\ OneWarmRuns
  /\ lookups = [c \in Caller |-> lookups[c]] /\ \A c \in Caller : IsWaiting(c)

(* warm_dialogs_once(): "False means the cache is unchanged and asking     *)
(* again would get the same answer".  told is what it would have got.      *)
FalseMeansUnchanged == \A c \in Caller : lookups[c].told # "another answer"
=============================================================================

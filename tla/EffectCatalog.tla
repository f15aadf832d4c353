--------------------------- MODULE EffectCatalog ---------------------------
(***************************************************************************)
(* The catalogue of message effects of one account                         *)
(* (telegram_mcp/effect_catalog.py) and the lookups that share it          *)
(* (tools/effects.py): an hour's window, a revalidation by hash when an    *)
(* effect is not in it, and the full fetch that renews stale references.   *)
(*                                                                         *)
(* Abstractions.  A catalogue is the set of its effects, and the hash is   *)
(* that set.  A file reference is the change of the server it was issued   *)
(* at.  A request is answered in one step, while the lock is held.         *)
(***************************************************************************)
EXTENDS Naturals, FiniteSets

CONSTANTS
  Caller, Id,
  Hour,       \* _REVALIDATE_AFTER_SECONDS
  MaxUnknown, \* MAX_UNKNOWN_IDS
  MaxTime, MaxChanges, MaxChecks \* bounds: clock, changes of the server, answered requests

EffectCatalogAssumption ==
  /\ {Hour, MaxUnknown, MaxTime, MaxChanges, MaxChecks} \subseteq Nat /\ MaxUnknown > 0

VARIABLES
  now,
  server,     \* the effects Telegram has
  changes,
  catalog,    \* state.catalog
  generation, \* state.generation
  epoch,      \* state.check_epoch
  holder,     \* state.lock
  lookups,
  lacked,     \* per caller, the effects Telegram did not have at some time of its call
  lastAbsent  \* when each effect was last absent

catalogVars == <<now, server, changes, catalog, generation, epoch, holder, lookups, lacked, lastAbsent>>

None == "none"
Nothing == [generation |-> 0, effects |-> {}, fetched |-> 0, checked |-> 0, unknown |-> {}, issued |-> 0]
Idle == [pc |-> "idle", id |-> 0, step |-> "load", seen |-> Nothing, answer |-> "none", at |-> 0]
Catalogue == [generation : 0..MaxChecks, effects : SUBSET Id, fetched : 0..MaxTime,
              checked : 0..MaxChecks, unknown : SUBSET Id, issued : 0..MaxChanges]

TypeOK ==
  /\ now \in 0..MaxTime /\ changes \in 0..MaxChanges
  /\ server \subseteq Id
  /\ catalog \in Catalogue
  /\ generation \in 0..MaxChecks /\ epoch \in 0..MaxChecks
  /\ holder \in Caller \cup {None}
  /\ lookups \in [Caller -> [pc : {"idle", "locking", "asking", "refetching", "got", "over"},
                             id : Id \cup {0}, step : {"load", "revalidate", "refresh"},
                             seen : Catalogue, answer : {"none", "found", "absent", "absent here"},
                             at : 0..MaxTime]]
  /\ lacked \in [Caller -> SUBSET Id]
  /\ lastAbsent \in [Id -> 0..MaxTime]
  /\ Cardinality(catalog.unknown) <= MaxUnknown

Init ==
  /\ now = 0 /\ changes = 0
  /\ server \in SUBSET Id
  /\ catalog = Nothing /\ generation = 0 /\ epoch = 0
  /\ holder = None
  /\ lookups = [c \in Caller |-> Idle]
  /\ lacked = [c \in Caller |-> {}]
  /\ lastAbsent = [id \in Id |-> 0]

----------------------------------------------------------------------------
(* Definitions whose name says what they get wrong are defects the checks  *)
(* must notice; no action uses them.                                       *)

Present == catalog.generation > 0
IsFresh == Present /\ now - catalog.fetched < Hour

ServerChanges(effects) ==
  /\ changes < MaxChanges
  /\ changes' = changes + 1
  /\ server' = effects
  /\ lacked' = [c \in Caller |-> lacked[c] \cup (Id \ effects)]
  /\ lastAbsent' = [id \in Id |-> IF id \in effects THEN lastAbsent[id] ELSE now]
  /\ UNCHANGED <<now, catalog, generation, epoch, holder, lookups>>

Tick ==
  /\ now < MaxTime
  /\ now' = now + 1
  /\ lastAbsent' = [id \in Id |-> IF id \in server THEN lastAbsent[id] ELSE now + 1]
  /\ UNCHANGED <<server, changes, catalog, generation, epoch, holder, lookups, lacked>>

(* _resolved_effect(): load_catalog() first.                               *)
Ask(c, id) ==
  /\ lookups[c].pc = "idle"
  /\ lookups' = [lookups EXCEPT ![c] = [Idle EXCEPT !.pc = "locking", !.id = id]]
  /\ lacked' = [lacked EXCEPT ![c] = Id \ server]
  /\ UNCHANGED <<now, server, changes, catalog, generation, epoch, holder, lastAbsent>>

(* remember_unknown(): at the limit, start over.                           *)
Remembering(cat, id) ==
  [cat EXCEPT !.unknown = (IF Cardinality(@) >= MaxUnknown THEN {} ELSE @) \cup {id}]

(* Without asking: the window for load_catalog(), a later check for        *)
(* revalidate_catalog(), a later generation for refresh_catalog().         *)
TrustsAnyCheck(call) ==
  CASE call.step = "load" -> IsFresh
    [] call.step = "revalidate" -> catalog.checked >= call.seen.checked
    [] call.step = "refresh" -> catalog.generation > call.seen.generation
LocallyKnown(call) ==
  CASE call.step = "load" -> IsFresh
    [] call.step = "revalidate" -> \/ catalog.generation > call.seen.generation
                                   \/ catalog.checked > call.seen.checked
    [] call.step = "refresh" -> catalog.generation > call.seen.generation

Becomes(c, call) == lookups' = [lookups EXCEPT ![c] = call]
Answered(call, answer) == [call EXCEPT !.pc = IF answer = "found" THEN "got" ELSE "over",
                                       !.answer = answer, !.at = now, !.seen = catalog']

(* What the caller makes of the catalogue it was handed.                   *)
Handed(c, cat, contacted) ==
  LET call == lookups[c]
      id == call.id
  IN IF id \in cat.effects
       THEN catalog' = cat /\ Becomes(c, Answered(call, "found"))
     ELSE IF call.step = "load" /\ ~contacted /\ id \notin cat.unknown
       THEN /\ catalog' = cat
            /\ Becomes(c, [call EXCEPT !.pc = "locking", !.step = "revalidate", !.seen = cat])
     ELSE IF call.step = "load" /\ ~contacted
       THEN catalog' = cat /\ Becomes(c, Answered(call, "absent here"))
     ELSE /\ catalog' = IF call.step = "refresh" THEN cat ELSE Remembering(cat, id)
          /\ Becomes(c, Answered(call, "absent"))

Enter(c) ==
  /\ lookups[c].pc = "locking" /\ holder = None
  /\ IF LocallyKnown(lookups[c])
       THEN Handed(c, catalog, FALSE) /\ UNCHANGED holder
       ELSE /\ holder' = c
            /\ Becomes(c, [lookups[c] EXCEPT !.pc = "asking"])
            /\ UNCHANGED catalog
  /\ UNCHANGED <<now, server, changes, generation, epoch, lacked, lastAbsent>>

(* _fetch(), "not modified": the hash is what the catalogue holds.         *)
NotModified(c) ==
  /\ lookups[c].pc = "asking" /\ holder = c
  /\ lookups[c].step # "refresh" /\ Present /\ server = catalog.effects
  /\ epoch < MaxChecks
  /\ epoch' = epoch + 1
  /\ holder' = None
  /\ Handed(c, [catalog EXCEPT !.fetched = now, !.checked = epoch + 1], TRUE)
  /\ UNCHANGED <<now, server, changes, generation, lacked, lastAbsent>>

(* _fetch(), another catalogue, or all of it for the references.           *)
Modified(c) ==
  /\ lookups[c].pc = "asking" /\ holder = c
  /\ lookups[c].step = "refresh" \/ ~Present \/ server # catalog.effects
  /\ epoch < MaxChecks
  /\ epoch' = epoch + 1
  /\ generation' = generation + 1
  /\ holder' = None
  /\ Handed(c, [Nothing EXCEPT !.generation = generation + 1, !.effects = server, !.fetched = now,
                               !.checked = epoch + 1, !.issued = changes], TRUE)
  /\ UNCHANGED <<now, server, changes, lacked, lastAbsent>>

(* The request fails, or the call is cancelled in it or before the lock.   *)
Fails(c) ==
  /\ lookups[c].pc \in {"locking", "asking"}
  /\ holder' = IF holder = c THEN None ELSE holder
  /\ Becomes(c, [lookups[c] EXCEPT !.pc = "over"])
  /\ UNCHANGED <<now, server, changes, catalog, generation, epoch, lacked, lastAbsent>>

(* get_message_effect(): its asset is fetched, or the reference is stale   *)
(* and the catalogue is refetched past the one it came from, once.         *)
Downloads(c) ==
  /\ lookups[c].pc = "got"
  /\ Becomes(c, [lookups[c] EXCEPT !.pc = "over"])
  /\ UNCHANGED <<now, server, changes, catalog, generation, epoch, holder, lacked, lastAbsent>>

StaleReference(c) ==
  /\ lookups[c].pc = "got" /\ lookups[c].step # "refresh"
  /\ lookups[c].seen.issued < changes
  /\ Becomes(c, [lookups[c] EXCEPT !.pc = "locking", !.step = "refresh"])
  /\ UNCHANGED <<now, server, changes, catalog, generation, epoch, holder, lacked, lastAbsent>>

Next ==
  \/ Tick
  \/ \E effects \in SUBSET Id : ServerChanges(effects)
  \/ \E c \in Caller : \/ Enter(c) \/ NotModified(c) \/ Modified(c) \/ Fails(c)
                       \/ Downloads(c) \/ StaleReference(c)
                       \/ \E id \in Id : Ask(c, id)

Spec == Init /\ [][Next]_catalogVars

----------------------------------------------------------------------------
(* _not_found() says how it knows: an effect reported absent after a check *)
(* was absent during this very call, whoever made the check; one reported  *)
(* from the cache was absent within the hour.                              *)
AbsentWasAbsent ==
  \A c \in Caller :
    /\ lookups[c].answer = "absent" => lookups[c].id \in lacked[c]
    /\ lookups[c].answer = "absent here" => lastAbsent[lookups[c].id] + Hour > lookups[c].at

(* Why, as an inductive invariant: what Telegram lacks now a call has seen *)
(* lacking, and so has it what a catalogue newer than the one it saw       *)
(* lacks; and since a fetch everything it did not bring was absent.        *)
IsALookup(record) ==
  DOMAIN record = DOMAIN Idle /\ record.at \in Nat /\ record.step \in {"load", "revalidate", "refresh"}
IsACatalogue ==
  /\ DOMAIN catalog = DOMAIN Nothing
  /\ {catalog.generation, catalog.fetched, catalog.checked, generation, epoch} \subseteq Nat
HoldsSeen(c) == lookups[c].pc = "got" \/ (lookups[c].pc \in {"locking", "asking"} /\ lookups[c].step # "load")
IsNewer(cat, seen) == cat.generation > seen.generation \/ cat.checked > seen.checked
HasLacked(c) ==
  /\ lookups[c].pc = "idle" => lookups[c].answer = "none"
  /\ lookups[c].pc # "idle" => lookups[c].id \in Id /\ Id \ server \subseteq lacked[c]
  /\ HoldsSeen(c) /\ IsNewer(catalog, lookups[c].seen) => Id \ catalog.effects \subseteq lacked[c]
WasAbsent ==
  /\ \A id \in Id : lastAbsent[id] \in 0..now
  /\ \A id \in Id \ server : lastAbsent[id] = now
  /\ Present => \A id \in Id \ catalog.effects : lastAbsent[id] >= catalog.fetched
Inv ==
  /\ now \in Nat /\ IsACatalogue
  /\ lookups = [c \in Caller |-> lookups[c]] /\ lacked = [c \in Caller |-> lacked[c]]
  /\ \A c \in Caller : IsALookup(lookups[c]) /\ HasLacked(c)
  /\ WasAbsent /\ AbsentWasAbsent
=============================================================================

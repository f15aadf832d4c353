----------------------------- MODULE AliasStore -----------------------------
(***************************************************************************)
(* The alias store of telegram_mcp/alias_store.py under the tools that     *)
(* write it and every call that resolves a name: one file shared by the    *)
(* server processes of an installation, read-modify-write cycles under a   *)
(* lock file, and a parsed copy per process that is trusted while the      *)
(* stamp of the file, its mtime and size, is the one it was read under.    *)
(*                                                                         *)
(* Abstractions.  Every process is configured with the one account Sole.   *)
(* A contact is a positive number.  The stamp is a number that grows with  *)
(* a write, or may stay when CoarseClock lets two writes of one size fall  *)
(* into one tick.  The rename of the new file, the pop of the cached copy  *)
(* and the release of the lock are one step.  The rows survive while the   *)
(* file is unreadable, as what a repair would find, and while it has been  *)
(* moved aside by a call that may still write them; a file that is not     *)
(* there holds none.                                                       *)
(***************************************************************************)
EXTENDS Naturals

CONSTANTS
  Process,
  Thread,      \* calls, each on a thread of its process
  ProcessOf,   \* the process of each thread
  Alias, Contact, Sole,
  MaxWrites,   \* bound: writes of the file
  CoarseClock  \* whether a write may leave the stamp as it was

Unscoped == "unscoped"
None     == "none"
Scope    == {Unscoped, Sole}
Rows     == [Scope \X Alias -> Contact \cup {0}]

AliasStoreAssumption ==
  /\ ProcessOf \in [Thread -> Process]
  /\ Contact \subseteq Nat \ {0}
  /\ Sole # Unscoped
  /\ None \notin Thread
  /\ MaxWrites \in Nat
  /\ CoarseClock \in BOOLEAN

VARIABLES
  rows,     \* what the file says
  stamp,    \* its mtime and size
  readable, \* whether it parses
  aside,    \* whether it has been moved aside, by the call that holds the lock
  lock,     \* the thread that holds the lock file
  cache,    \* _ALIAS_CACHE of each process; stamp 0 is none
  call      \* of a thread: where it is, what it asks, the stamp and rows it read

aliasVars == <<rows, stamp, readable, aside, lock, cache, call>>

NoRows == [key \in Scope \X Alias |-> 0]

Ask == [op : {"set", "replace"}, alias : Alias, contact : Contact]
       \cup [op : {"delete"}, alias : Alias] \cup [op : {"read"}]
Call == [pc : {"idle", "waiting", "stat", "reading", "loaded", "saving"},
         ask : Ask, stamp : Nat, rows : Rows]
Idle == [pc |-> "idle", ask |-> [op |-> "read"], stamp |-> 0, rows |-> NoRows]

TypeOK ==
  /\ rows \in Rows
  /\ stamp \in Nat \ {0}
  /\ readable \in BOOLEAN /\ aside \in BOOLEAN
  /\ lock \in Thread \cup {None}
  /\ cache \in [Process -> [stamp : Nat, rows : Rows]]
  /\ call \in [Thread -> Call]

Init ==
  /\ rows \in Rows
  /\ stamp = 1
  /\ readable = TRUE /\ aside = FALSE
  /\ lock = None
  /\ cache = [p \in Process |-> [stamp |-> 0, rows |-> NoRows]]
  /\ call = [t \in Thread |-> Idle]

----------------------------------------------------------------------------
Goes(t, pc) == call' = [call EXCEPT ![t].pc = pc]
Ends(t) == call' = [call EXCEPT ![t] = Idle]
Writes(t) == call[t].ask.op # "read"

(* A tool writes; resolve_entity() reads on every call, without the lock.  *)
Begin(t, ask) ==
  /\ call[t].pc = "idle"
  /\ call' = [call EXCEPT ![t].pc = IF ask.op = "read" THEN "stat" ELSE "waiting",
                          ![t].ask = ask]
  /\ UNCHANGED <<rows, stamp, readable, aside, lock, cache>>

(* _alias_lock(): polled for at most _LOCK_TIMEOUT_SECONDS.  Definitions   *)
(* whose name says what they get wrong are defects the checks must notice; *)
(* no action uses them.                                                    *)
NoLockOnThisPlatform(t) == TRUE
LockIsFree(t) == lock = None

TakeLock(t) ==
  /\ call[t].pc = "waiting" /\ LockIsFree(t)
  /\ lock' = t
  /\ Goes(t, "stat")
  /\ UNCHANGED <<rows, stamp, readable, aside, cache>>

LockTimesOut(t) ==
  /\ call[t].pc = "waiting" /\ lock # None
  /\ Ends(t)
  /\ UNCHANGED <<rows, stamp, readable, aside, lock, cache>>

----------------------------------------------------------------------------
(* load_aliases(): the stamp first, then the cached copy or the file.      *)
Cached(t) == cache[ProcessOf[t]]

CacheIsFresh(t) == ~aside /\ Cached(t).stamp = stamp

Stat(t) ==
  /\ call[t].pc = "stat"
  /\ call' = [call EXCEPT ![t] =
                [@ EXCEPT !.stamp = IF aside THEN 0 ELSE stamp,
                          !.pc = IF CacheIsFresh(t) THEN "loaded" ELSE "reading",
                          !.rows = IF CacheIsFresh(t) THEN Cached(t).rows ELSE call[t].rows]]
  /\ UNCHANGED <<rows, stamp, readable, aside, lock, cache>>

Read(t) ==
  /\ call[t].pc = "reading" /\ readable
  /\ call' = [call EXCEPT ![t].rows = rows, ![t].pc = "loaded"]
  /\ cache' = IF call[t].stamp = 0 THEN cache
              ELSE [cache EXCEPT ![ProcessOf[t]] = [stamp |-> call[t].stamp, rows |-> rows]]
  /\ UNCHANGED <<rows, stamp, readable, aside, lock>>

(* There is no file, or it does not parse: a reader goes on without        *)
(* aliases.  A writer refuses what it cannot read; it never finds the file *)
(* away, since it has the lock.                                            *)
ReadFails(t) ==
  /\ call[t].pc = "reading" /\ ~readable
  /\ IF Writes(t) THEN Ends(t) /\ lock' = None
     ELSE call' = [call EXCEPT ![t].pc = "loaded", ![t].rows = NoRows] /\ UNCHANGED lock
  /\ UNCHANGED <<rows, stamp, readable, aside, cache>>

ReadReturns(t) ==
  /\ call[t].pc = "loaded" /\ ~Writes(t)
  /\ Ends(t)
  /\ UNCHANGED <<rows, stamp, readable, aside, lock, cache>>

----------------------------------------------------------------------------
(* migrate_legacy_rows(), for the one account that is configured.          *)
Migrated(all) ==
  [key \in Scope \X Alias |->
     IF key[1] = Unscoped THEN 0
     ELSE IF all[key] = 0 THEN all[<<Unscoped, key[2]>>]
     ELSE all[key]]

(* The mutate() of the two tools: another contact's alias is kept unless   *)
(* the caller says replace.                                                *)
Mutated(all, ask) ==
  LET key == <<Sole, ask.alias>>
  IN CASE ask.op = "delete" -> [all EXCEPT ![key] = 0]
       [] ask.op = "set" /\ all[key] \notin {0, ask.contact} -> all
       [] OTHER -> [all EXCEPT ![key] = ask.contact]

(* save_aliases(): a file that does not parse by now is moved aside, so    *)
(* what it held is still there to repair; ...                              *)
LookAgain(t) ==
  /\ call[t].pc = "loaded" /\ Writes(t)
  /\ Goes(t, "saving")
  /\ aside' = ~readable
  /\ UNCHANGED <<rows, stamp, readable, lock, cache>>

(* ... then the new one takes its place, ...                               *)
Save(t) ==
  /\ call[t].pc = "saving" /\ stamp <= MaxWrites
  /\ rows' = Mutated(Migrated(call[t].rows), call[t].ask)
  /\ stamp' \in {stamp + 1} \cup (IF CoarseClock THEN {stamp} ELSE {})
  /\ readable' = TRUE /\ aside' = FALSE
  /\ cache' = [cache EXCEPT ![ProcessOf[t]].stamp = 0]
  /\ lock' = None
  /\ Ends(t)

(* ... unless it could not be written, or not be made private, or the      *)
(* process dies: then there is no file any more.                           *)
Abandoned(ends) ==
  IF aside /\ ends THEN rows' = NoRows /\ readable' = TRUE /\ aside' = FALSE /\ stamp' = stamp + 1
  ELSE UNCHANGED <<rows, stamp, readable, aside>>

(* The map was a copy of the cached one: the edit goes no further.         *)
LeavesItsEditInTheCache(t) ==
  /\ call[t].pc \in {"loaded", "saving"} /\ Writes(t)
  /\ cache' = [cache EXCEPT ![ProcessOf[t]].rows =
                 Mutated(Migrated(call[t].rows), call[t].ask)]
  /\ Ends(t)
  /\ lock' = None
  /\ Abandoned(TRUE)

SaveFails(t) ==
  /\ call[t].pc \in {"loaded", "saving"} /\ Writes(t)
  /\ Ends(t)
  /\ lock' = None
  /\ Abandoned(TRUE)
  /\ UNCHANGED cache

(* A process dies: its lock is released and its copy is gone.              *)
Crash(p) ==
  LET holds == lock # None /\ ProcessOf[lock] = p IN
  /\ \E t \in Thread : ProcessOf[t] = p /\ call[t].pc # "idle"
  /\ call' = [t \in Thread |-> IF ProcessOf[t] = p THEN Idle ELSE call[t]]
  /\ lock' = IF holds THEN None ELSE lock
  /\ cache' = [cache EXCEPT ![p].stamp = 0]
  /\ Abandoned(holds)

(* Somebody's editor leaves a file that does not parse.                    *)
Damage ==
  /\ readable /\ stamp <= MaxWrites
  /\ readable' = FALSE
  /\ stamp' = stamp + 1
  /\ UNCHANGED <<rows, aside, lock, cache, call>>

Next ==
  \/ \E t \in Thread :
       \/ \E ask \in Ask : Begin(t, ask)
       \/ TakeLock(t) \/ LockTimesOut(t)
       \/ Stat(t) \/ Read(t) \/ ReadFails(t) \/ ReadReturns(t)
       \/ LookAgain(t) \/ Save(t) \/ SaveFails(t)
  \/ \E p \in Process : Crash(p)
  \/ Damage

Spec == Init /\ [][Next]_aliasVars

----------------------------------------------------------------------------
(* A copy whose stamp is the file's has the file's rows.                   *)
FreshCopyIsTrue ==
  \A p \in Process : cache[p].stamp = stamp => readable /\ cache[p].rows = rows

(* No update is lost, no deleted alias comes back and a file that could    *)
(* not be read is not replaced by what was not read: the file is the map   *)
(* every call would have left behind on its own.  Only a file that         *)
(* somebody damaged may be gone after a call that failed, moved aside.     *)
Map == INSTANCE AliasMap WITH map <- rows, damaged <- ~readable
ImplementsAliasMap == Map!Spec

----------------------------------------------------------------------------
(* The invariant behind both.  No stamp is of a write to come, ...         *)
StampsAreOfTheirTime ==
  /\ \A p \in Process : cache[p].stamp <= stamp
  /\ \A t \in Thread : call[t].stamp <= stamp

(* ... and a call that writes holds the lock from its first look at the    *)
(* file, what it loaded is what the file says until it saves, and only it  *)
(* has the file moved aside.                                               *)
WritersHoldTheLock ==
  \A t \in Thread : Writes(t) =>
    /\ call[t].pc \in {"stat", "reading", "loaded", "saving"} => lock = t
    /\ call[t].pc \in {"loaded", "saving"} => call[t].rows = rows

OnlyWritersSave == \A t \in Thread : call[t].pc = "saving" => Writes(t)

AsideIsOfAWriter == aside => ~readable /\ lock # None /\ call[lock].pc = "saving"

Inv ==
  /\ TypeOK /\ FreshCopyIsTrue /\ StampsAreOfTheirTime
  /\ WritersHoldTheLock /\ OnlyWritersSave /\ AsideIsOfAWriter
=============================================================================

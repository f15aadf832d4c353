----------------------------- MODULE SessionPool -----------------------------
(***************************************************************************)
(* The pool of interchangeable sessions of one account, of                 *)
(* telegram_mcp/session_pool.py: each server process claims the first one  *)
(* it can lock and keeps that lock for its life; a rebuild of the accounts *)
(* gets the slot the process holds already, while it is in the pool.       *)
(*                                                                         *)
(* Abstractions.  A session is its place in TELEGRAM_SESSION_STRINGS.  A   *)
(* lock file can be opened; its lock is refused while any handle holds it, *)
(* one of the same process included.  A process that exits or dies has its *)
(* locks released by the operating system.                                 *)
(***************************************************************************)
EXTENDS Naturals

CONSTANTS Process, Slots

SessionPoolAssumption == Slots \in Nat /\ 0 \notin Process

Session == 1..Slots

VARIABLES
  holder,  \* the process whose handle locks a session, 0 for none
  claimed, \* _CLAIMED_SESSION of a process, 0 for none
  serving  \* the session its client was built over, 0 while it is down

poolVars == <<holder, claimed, serving>>

TypeOK ==
  /\ holder \in [Session -> Process \cup {0}]
  /\ claimed \in [Process -> Session \cup {0}]
  /\ serving \in [Process -> Session \cup {0}]

Init ==
  /\ holder = [s \in Session |-> 0]
  /\ claimed = [p \in Process |-> 0]
  /\ serving = [p \in Process |-> 0]

(* Definitions whose name says what they get wrong are defects the checks  *)
(* must notice; no action uses them.                                       *)
FallsBackToTheFirst(pool) == IF {s \in pool : holder[s] = 0} = {} THEN pool
                             ELSE {s \in pool : holder[s] = 0}
Free(pool) == {s \in pool : holder[s] = 0}
Foremost(pool) == {s \in Free(pool) : \A other \in Free(pool) : s <= other}

(* _acquire_session(), at the start and whenever a reload builds again.    *)
Keep(p, pool) ==
  /\ claimed[p] \in pool
  /\ serving' = [serving EXCEPT ![p] = claimed[p]]
  /\ UNCHANGED <<holder, claimed>>

Claim(p, pool) ==
  /\ claimed[p] \notin pool
  /\ \E s \in Foremost(pool) :
       /\ holder' = [holder EXCEPT ![s] = p]
       /\ claimed' = [claimed EXCEPT ![p] = s]
       /\ serving' = [serving EXCEPT ![p] = s]

(* StartupMessage: a start ends here, a reload leaves what was serving.    *)
Refuse(p, pool) ==
  /\ claimed[p] \notin pool /\ Free(pool) = {}
  /\ UNCHANGED poolVars

Exit(p) ==
  /\ serving[p] # 0
  /\ holder' = [s \in Session |-> IF holder[s] = p THEN 0 ELSE holder[s]]
  /\ claimed' = [claimed EXCEPT ![p] = 0]
  /\ serving' = [serving EXCEPT ![p] = 0]

Next ==
  \E p \in Process :
    \/ \E pool \in (SUBSET Session) \ {{}} : Keep(p, pool) \/ Claim(p, pool) \/ Refuse(p, pool)
    \/ Exit(p)

Spec == Init /\ [][Next]_poolVars

----------------------------------------------------------------------------
(* Two processes never run on one session, however pools and processes     *)
(* come and go: Telegram would burn the key of both.                       *)
NoSessionIsShared ==
  \A p, q \in Process : serving[p] # 0 /\ serving[p] = serving[q] => p = q

(* "already claimed by other live clients": a refusal means that.  It does *)
(* not where an earlier pool had this process lock a slot it then left.    *)
RefusalMeansOthers ==
  \A p \in Process, pool \in (SUBSET Session) \ {{}} :
    ENABLED Refuse(p, pool) => \A s \in pool : holder[s] # p

----------------------------------------------------------------------------
(* What a process claimed or serves it has locked, and it serves what it   *)
(* claimed.                                                                *)
ClaimsAreHeld ==
  \A p \in Process :
    /\ claimed[p] # 0 => holder[claimed[p]] = p
    /\ serving[p] # 0 => serving[p] = claimed[p]

Inv == TypeOK /\ ClaimsAreHeld
=============================================================================

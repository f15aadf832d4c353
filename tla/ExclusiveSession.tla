-------------------------- MODULE ExclusiveSession --------------------------
(***************************************************************************)
(* What the lease store and the account lifecycle promise together.        *)
(* Telegram burns an auth key that is connected twice at once, so a        *)
(* session has one owner, only its owner connects it, and it changes hands *)
(* only while nothing is connected on it (telegram_mcp/singleton.py and    *)
(* admission.py, module docstrings).                                       *)
(***************************************************************************)
CONSTANTS Owner, Session, SessionOf, None

VARIABLES
  owner, \* [Session -> Owner \cup {None}]
  live   \* SUBSET Owner: owners connected on their session

exclusiveVars == <<owner, live>>

(* A client owns nothing but its own session; an owner that is not one of  *)
(* ours, another process, may own any.                                     *)
Ours(o)    == o \in DOMAIN SessionOf
Idle(s)    == \A o \in live : SessionOf[o] # s

ExclusiveInit ==
  /\ owner \in [Session -> {o \in Owner : ~Ours(o)} \cup {None}]
  /\ live = {}

Take(s, o) ==
  /\ owner[s] = None
  /\ Ours(o) => SessionOf[o] = s
  /\ owner' = [owner EXCEPT ![s] = o]
  /\ UNCHANGED live

(* Sessions are given back, together at shutdown, with nobody connected.   *)
GiveBack(S) ==
  /\ \A s \in S : owner[s] # None /\ Idle(s)
  /\ owner' = [s \in Session |-> IF s \in S THEN None ELSE owner[s]]
  /\ UNCHANGED live

Connect(o) ==
  /\ Ours(o)
  /\ owner[SessionOf[o]] = o
  /\ live' = live \cup {o}
  /\ UNCHANGED owner

Close ==
  /\ live' \subseteq live
  /\ UNCHANGED owner

ExclusiveNext ==
  \/ Close
  \/ \E o \in Owner : Connect(o)
  \/ \E s \in Session, o \in Owner : Take(s, o)
  \/ \E S \in SUBSET Session : GiveBack(S)

ExclusiveSpec == ExclusiveInit /\ [][ExclusiveNext]_exclusiveVars
=============================================================================

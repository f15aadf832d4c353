----------------------------- MODULE Admission -----------------------------
(***************************************************************************)
(* The session-lease store of telegram_mcp/admission.py, over the OS lock  *)
(* of telegram_mcp/singleton.py.                                           *)
(*                                                                         *)
(* A lease says that this process alone may connect a Telegram session.    *)
(* It is taken by one of two coroutines, claim_session() (startup and the  *)
(* reload transaction) and _admit() (the first tool call that touches a    *)
(* hot-added client), each of which blocks in a thread on flock.  It is    *)
(* given back by forget(), at once or when the socket it protects has      *)
(* closed, and by release_all() at shutdown.                               *)
(*                                                                         *)
(* Abstractions.  A client object is built for one label from one session, *)
(* so LabelOf and SessionOf are constants.  A SessionLock object is created*)
(* by every acquire and names its lease, so the pair of the coroutine's    *)
(* kind and its client, a Handle, stands for the lock, for the _Lease that *)
(* owns it and for the task that takes it.  session_locks and _active are  *)
(* written together everywhere and are one variable.  Grace periods have   *)
(* no clock: an acquire may give up whenever its lock is taken.  Callers   *)
(* run inside the event loop, so forget() always has a loop to wait on.    *)
(* transfer_lease() is left out: a reload stages only freshly built        *)
(* clients, which hold no lease to move.                                   *)
(***************************************************************************)
EXTENDS Naturals

CONSTANTS
  Label,      \* account labels
  Client,     \* TelegramClient objects
  Session,    \* session identities, one per auth key
  LabelOf,    \* [Client -> Label]   the label a client was built for
  SessionOf,  \* [Client -> Session] the session it was built from
  MaxForgets, \* bound: forget() reaches one lease at most this often
  None,       \* no client, no lease
  Other       \* the other telegram-mcp process

Op     == {"claim", "admit"}
Handle == Op \X Client

ASSUME AdmissionAssumption ==
  /\ LabelOf \in [Client -> Label]
  /\ SessionOf \in [Client -> Session]
  /\ MaxForgets \in Nat
  /\ None \notin Client
  /\ Other \notin Client
  /\ None \notin Handle
  /\ Other \notin Handle
  /\ Other # None

VARIABLES
  holder,     \* [Session -> Handle \cup {None, Other}]: who has the flock
  acq,        \* [Handle -> AcqState]: the coroutine that takes the lock
  active,     \* [Label -> Handle \cup {None}]: _active and session_locks
  retiring,   \* SUBSET Handle: _retiring
  pending,    \* [Label -> Client \cup {None}]: _awaiting_admission
  forgotten,  \* [Handle -> Nat]: forget() calls that found this lease
  waiting,    \* [Handle -> Nat]: its _release_when_closed tasks in flight
  unreleased, \* SUBSET Label: the keys of unreleased_leases
  stopped     \* _stopped

leaseVars == <<active, retiring, forgotten, waiting, unreleased>>
admissionVars == <<holder, acq, pending, stopped, leaseVars>>

(* idle: not started.  acquiring: blocked in the thread.  acquired: the    *)
(* thread took the lock, the coroutine has not resumed.  published: its    *)
(* lease went to `active`.  failed: it raised.                             *)
AcqState == {"idle", "acquiring", "acquired", "published", "failed"}

AdmissionTypeOK ==
  /\ holder \in [Session -> Handle \cup {None, Other}]
  /\ acq \in [Handle -> AcqState]
  /\ active \in [Label -> Handle \cup {None}]
  /\ retiring \in SUBSET Handle
  /\ pending \in [Label -> Client \cup {None}]
  /\ forgotten \in [Handle -> Nat]
  /\ waiting \in [Handle -> Nat]
  /\ unreleased \in SUBSET Label
  /\ stopped \in BOOLEAN

ClientOf(h)      == h[2]
LabelOfLease(h)  == LabelOf[ClientOf(h)]
SessionOfLock(h) == SessionOf[ClientOf(h)]

Held(h)   == holder[SessionOfLock(h)] = h
ForgetsRetiring == {active[l] : l \in {m \in Label : active[m] # None}}
Leases    == retiring \cup {active[l] : l \in {m \in Label : active[m] # None}}

(* Definitions whose name says what they get wrong (ForgetsRetiring and    *)
(* the like) are defects the checks must notice; no action uses them.      *)
ReleasesWhoeverHoldsIt(hs) ==
  [s \in Session |-> IF \E h \in hs : SessionOfLock(h) = s THEN None ELSE holder[s]]

(* lock.release(): a lock that was already given back is left alone.       *)
ReleasedLocks(hs) == [s \in Session |-> IF holder[s] \in hs THEN None ELSE holder[s]]

----------------------------------------------------------------------------
(* Taking a lock. *)

(* claim_session() starts its shielded owner task.                         *)
StartClaim(c) ==
  /\ acq[<<"claim", c>>] = "idle"
  /\ acq' = [acq EXCEPT ![<<"claim", c>>] = "acquiring"]
  /\ UNCHANGED <<holder, pending, stopped, leaseVars>>

(* _start_admission(): a client still waiting under its label, and one     *)
(* task per client.                                                        *)
StartAdmit(c) ==
  /\ pending[LabelOf[c]] = c
  /\ acq[<<"admit", c>>] \in {"idle", "failed"}
  /\ acq' = [acq EXCEPT ![<<"admit", c>>] = "acquiring"]
  /\ UNCHANGED <<holder, pending, stopped, leaseVars>>

(* SessionLock.acquire() in its thread: the flock is free.                 *)
ThreadAcquires(h) ==
  /\ acq[h] = "acquiring"
  /\ holder[SessionOfLock(h)] = None
  /\ holder' = [holder EXCEPT ![SessionOfLock(h)] = h]
  /\ acq' = [acq EXCEPT ![h] = "acquired"]
  /\ UNCHANGED <<pending, stopped, leaseVars>>

GivesUpUnheard(h) ==
  /\ acq[h] = "acquiring" /\ holder[SessionOfLock(h)] # None
  /\ acq' = [acq EXCEPT ![h] = "acquired"]
  /\ UNCHANGED <<holder, pending, stopped, leaseVars>>
NeverGivesUp(h) == FALSE /\ acq' = [acq EXCEPT ![h] = "failed"]

(* SessionLock.acquire() gives up after its grace; the task raises.        *)
ThreadGivesUp(h) ==
  /\ acq[h] = "acquiring"
  /\ holder[SessionOfLock(h)] # None
  /\ acq' = [acq EXCEPT ![h] = "failed"]
  /\ UNCHANGED <<holder, pending, stopped, leaseVars>>

PublishOverwrites(h) ==
  /\ ~stopped
  /\ active' = [active EXCEPT ![LabelOfLease(h)] = h]
  /\ acq' = [acq EXCEPT ![h] = "published"]
  /\ UNCHANGED <<holder, stopped, retiring, forgotten, waiting, unreleased>>

PublishAfterStop(h) ==
  /\ active' = [active EXCEPT ![LabelOfLease(h)] = h]
  /\ retiring' = (retiring \cup {active[LabelOfLease(h)]}) \ {None, h}
  /\ acq' = [acq EXCEPT ![h] = "published"]
  /\ UNCHANGED <<holder, stopped, forgotten, waiting, unreleased>>

(* _publish() once the process is not stopped: the label's previous lease, *)
(* when it is another client's, retires and keeps its lock.                *)
Publish(h) ==
  LET l == LabelOfLease(h)
      previous == active[l]
  IN  /\ ~stopped
      /\ active' = [active EXCEPT ![l] = h]
      /\ retiring' = IF previous # None /\ ClientOf(previous) # ClientOf(h)
                     THEN retiring \cup {previous} ELSE retiring
      /\ acq' = [acq EXCEPT ![h] = "published"]
      /\ UNCHANGED <<holder, stopped, forgotten, waiting, unreleased>>

(* The lock comes back but may not be published: it is released and the    *)
(* coroutine raises AdmissionSuperseded.                                   *)
Refuse(h) ==
  /\ holder' = ReleasedLocks({h})
  /\ acq' = [acq EXCEPT ![h] = "failed"]
  /\ UNCHANGED <<stopped, leaseVars>>

(* The owner task of claim_session() resumes; it checks nothing but the    *)
(* stop boundary.                                                          *)
ClaimResumes(c) ==
  /\ acq[<<"claim", c>>] = "acquired"
  /\ \/ Publish(<<"claim", c>>)
     \/ stopped /\ Refuse(<<"claim", c>>)
  /\ UNCHANGED pending

(* _admit() resumes and checks that its client is still the one waiting.   *)
AdmitResumes(c) ==
  LET h == <<"admit", c>>
      l == LabelOf[c]
  IN  /\ acq[h] = "acquired"
      /\ \/ /\ pending[l] = c
            /\ pending' = [pending EXCEPT ![l] = None]
            /\ Publish(h) \/ (stopped /\ Refuse(h))
         \/ /\ pending[l] # c
            /\ Refuse(h)
            /\ UNCHANGED pending

(* claim_session() returns to a caller that still waits for it.            *)
ClaimReturns(c) ==
  /\ acq[<<"claim", c>>] = "published"
  /\ pending[LabelOf[c]] = c
  /\ pending' = [pending EXCEPT ![LabelOf[c]] = None]
  /\ UNCHANGED <<holder, acq, stopped, leaseVars>>

(* mark_awaiting_admission(): a reload published c without a lease.        *)
MarkAwaiting(c) ==
  /\ pending' = [pending EXCEPT ![LabelOf[c]] = c]
  /\ UNCHANGED <<holder, acq, stopped, leaseVars>>

----------------------------------------------------------------------------
(* Giving a lock back. *)

LeaseAtLabel(c) == active[LabelOf[c]]

RetiringLeaseOf(c) ==
  LET mine == {h \in retiring : ClientOf(h) = c}
  IN  IF mine # {} THEN CHOOSE h \in mine : TRUE ELSE None

(* _lease_of(): by owner, the active lease before a retiring one.          *)
LeaseOf(c) ==
  LET a    == active[LabelOf[c]]
      mine == {h \in retiring : ClientOf(h) = c}
  IN  IF a # None /\ ClientOf(a) = c THEN a
      ELSE IF mine # {} THEN CHOOSE h \in mine : TRUE
      ELSE None

(* What forget() does to the leases of the clients cs.  The clients in open *)
(* have a socket on its way down: their lease retires and a                *)
(* _release_when_closed task waits for the close.  For the others closing  *)
(* is None, the socket is down, and the lock goes at once.                 *)
RetireLeases(cs, open) ==
  LET found == {LeaseOf(c) : c \in cs} \ {None}
      kept  == {h \in found : ClientOf(h) \in open}
      given == found \ kept
  IN  /\ \A h \in found : forgotten[h] < MaxForgets
      /\ active' = [l \in Label |-> IF active[l] \in found THEN None ELSE active[l]]
      /\ retiring' = (retiring \ given) \cup kept
      /\ forgotten' = [h \in Handle |-> IF h \in found THEN forgotten[h] + 1 ELSE forgotten[h]]
      /\ waiting' = [h \in Handle |-> IF h \in kept THEN waiting[h] + 1 ELSE waiting[h]]
      /\ unreleased' = unreleased \ {LabelOfLease(h) : h \in given}
      /\ holder' = ReleasedLocks(given)

(* forget(label, closing, client=c): the label stops waiting for admission *)
(* whoever was waiting under it.                                           *)
Forget(c, closes) ==
  /\ RetireLeases({c}, IF closes THEN {c} ELSE {})
  /\ pending' = [pending EXCEPT ![LabelOf[c]] = None]
  /\ UNCHANGED <<acq, stopped>>

CloseConfirmedTwice(h) ==
  /\ waiting' = [waiting EXCEPT ![h] = @ - 1]
  /\ holder' = ReleasedLocks({h})
  /\ UNCHANGED <<acq, pending, stopped, active, retiring, forgotten, unreleased>>

(* _release_when_closed(): the socket is confirmed down.                   *)
CloseConfirmed(h) ==
  /\ waiting[h] > 0
  /\ waiting' = [waiting EXCEPT ![h] = @ - 1]
  /\ retiring' = retiring \ {h}
  /\ unreleased' = unreleased \ {LabelOfLease(h)}
  /\ holder' = ReleasedLocks({h})
  /\ UNCHANGED <<acq, pending, stopped, active, forgotten>>

CloseUnconfirmedReleases(h) ==
  /\ waiting[h] > 0
  /\ waiting' = [waiting EXCEPT ![h] = @ - 1]
  /\ holder' = ReleasedLocks({h})
  /\ UNCHANGED <<acq, pending, stopped, active, retiring, forgotten, unreleased>>

(* _release_when_closed(): the close timed out or was refused.             *)
CloseUnconfirmed(h) ==
  /\ waiting[h] > 0
  /\ waiting' = [waiting EXCEPT ![h] = @ - 1]
  /\ retiring' = retiring \cup {h}
  /\ unreleased' = unreleased \cup {LabelOfLease(h)}
  /\ UNCHANGED <<holder, acq, pending, stopped, active, forgotten>>

(* release_all(): shutdown's last step.                                    *)
ReleaseAll ==
  /\ stopped' = TRUE
  /\ holder' = ReleasedLocks(Leases)
  /\ active' = [l \in Label |-> None]
  /\ retiring' = {}
  /\ pending' = [l \in Label |-> None]
  /\ UNCHANGED <<acq, forgotten, waiting, unreleased>>

----------------------------------------------------------------------------
(* Another process on the same machine takes a free session, and exits.    *)

OtherTakes(s) ==
  /\ holder[s] = None
  /\ holder' = [holder EXCEPT ![s] = Other]
  /\ UNCHANGED <<acq, pending, stopped, leaseVars>>

OtherExits(s) ==
  /\ holder[s] = Other
  /\ holder' = [holder EXCEPT ![s] = None]
  /\ UNCHANGED <<acq, pending, stopped, leaseVars>>

----------------------------------------------------------------------------
AdmissionInit ==
  /\ holder \in [Session -> {None, Other}]
  /\ acq = [h \in Handle |-> "idle"]
  /\ active = [l \in Label |-> None]
  /\ retiring = {}
  /\ pending = [l \in Label |-> None]
  /\ forgotten = [h \in Handle |-> 0]
  /\ waiting = [h \in Handle |-> 0]
  /\ unreleased = {}
  /\ stopped = FALSE

(* The rest of the process as this store sees it: a fresh client may be    *)
(* claimed or published to wait, any client may be retired at any moment.  *)
Fresh(c) == \A op \in Op : acq[<<op, c>>] = "idle"

AdmissionNext ==
  \/ \E c \in Client :
       \/ StartClaim(c)
       \/ StartAdmit(c)
       \/ ClaimResumes(c)
       \/ AdmitResumes(c)
       \/ ClaimReturns(c)
       \/ Fresh(c) /\ MarkAwaiting(c)
       \/ \E closes \in BOOLEAN : Forget(c, closes)
  \/ \E h \in Handle :
       \/ ThreadAcquires(h)
       \/ ThreadGivesUp(h)
       \/ CloseConfirmed(h)
       \/ CloseUnconfirmed(h)
  \/ ReleaseAll
  \/ \E s \in Session : OtherTakes(s) \/ OtherExits(s)

(* The event loop resumes a coroutine whose thread returned, and the       *)
(* thread's wait is bounded by its grace period.                           *)
AdmissionFairness ==
  /\ \A h \in Handle : WF_admissionVars(ThreadAcquires(h) \/ ThreadGivesUp(h))
  /\ \A c \in Client : WF_admissionVars(ClaimResumes(c)) /\ WF_admissionVars(AdmitResumes(c))

AdmissionSpec == AdmissionInit /\ [][AdmissionNext]_admissionVars
AdmissionFairSpec == AdmissionSpec /\ AdmissionFairness

----------------------------------------------------------------------------
(* Properties. *)

(* No session stays locked by accident: every flock this process holds has *)
(* an owner that will give it back, a lease or the coroutine that has just *)
(* taken it.  _active and _retiring are the strong references that keep a  *)
(* handle from being collected; _publish() and forget() move leases        *)
(* between them.                                                           *)
EveryLockHasAnOwner ==
  \A s \in Session : \A h \in Handle :
    holder[s] = h => h \in Leases \/ acq[h] = "acquired"

(* What a label means is a session this process really holds: no release   *)
(* left behind by an earlier retirement, and no second forget(), takes the *)
(* lock from the lease that serves.                                        *)
ServingLeaseIsHeld ==
  \A l \in Label : active[l] # None => LabelOfLease(active[l]) = l /\ Held(active[l])

(* A lease out of service keeps its lock until its close is confirmed, the *)
(* close that never confirms included (_release_when_closed).  Stated for  *)
(* leases retired once: two retirements of one client are two independent  *)
(* releases.                                                               *)
RetiringLeaseIsHeld ==
  ~stopped => \A h \in retiring : forgotten[h] <= 1 => Held(h)

(* The stop boundary: after release_all() no label has a lease, and a lock *)
(* can only be in the hands of an acquire that was already in its thread.  *)
NothingPublishedAfterStop ==
  stopped => /\ \A l \in Label : active[l] = None
             /\ \A h \in Handle : Held(h) => acq[h] = "acquired"

(* ... and that acquire gives it back: after shutdown every session is     *)
(* free for the next process.                                              *)
StopFreesEverySession ==
  stopped ~> \A h \in Handle : ~Held(h)

(* "Kept as an owned record so shutdown can report what it could not       *)
(* account for, keyed by label with the reason" (admission.py:123): a      *)
(* lease whose release gave up is named until its lock goes.               *)
GaveUp(h) == h \in retiring /\ forgotten[h] > 0 /\ waiting[h] = 0
UnreleasedLeaseIsReported ==
  \A h \in Handle : GaveUp(h) /\ Held(h) => LabelOfLease(h) \in unreleased
============================================================================

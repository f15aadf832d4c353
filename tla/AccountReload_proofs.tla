------------------------ MODULE AccountReload_proofs ------------------------
(***************************************************************************)
(* Safety of the lease store and of the account lifecycle above it, for    *)
(* every set of labels, clients, sessions and tool calls.                  *)
(*                                                                         *)
(* The properties of Admission are not inductive: that a serving lease is  *)
(* held needs to know that no release left over from an earlier retirement *)
(* is aimed at it, hence that a lease is forgotten only after it was       *)
(* published and is never published twice.  AdmissionInv says so.  Three   *)
(* invariants build on it: OwnInv holds whatever revisions overlap and     *)
(* calls do, and says who owns what; ReloadInv holds until a revision is   *)
(* applied over a transaction in flight, and says what is connected; the   *)
(* last part shows step by step that the clients in service implement      *)
(* ExclusiveSession, from OwnInv alone.                                    *)
(***************************************************************************)
EXTENDS AccountReload, TLAPS

(* A lease exists only once its coroutine published it.                    *)
UnpublishedIsUntouched ==
  \A h \in Handle : acq[h] # "published" => h \notin Leases /\ forgotten[h] = 0

(* The lease that serves was never forgotten: no release is aimed at it.   *)
ServingIsNotForgotten ==
  \A l \in Label : active[l] # None =>
    /\ LabelOfLease(active[l]) = l
    /\ Held(active[l])
    /\ forgotten[active[l]] = 0
    /\ active[l] \notin retiring

(* A lock is on the file of its own session.                               *)
LocksAreTheirSessions ==
  \A s \in Session : \A h \in Handle : holder[s] = h => SessionOfLock(h) = s

(* A coroutine that has not resumed still holds what its thread took.      *)
AcquiredIsHeld == \A h \in Handle : acq[h] = "acquired" => Held(h)

(* Every release in flight was started by a forget() of its own.           *)
ReleasesAreForgets == \A h \in Handle : waiting[h] <= forgotten[h]

(* Until shutdown, the one release of a lease retired once finds it still  *)
(* retiring.                                                               *)
WaitingIsRetiring ==
  ~stopped => \A h \in Handle : forgotten[h] = 1 /\ waiting[h] > 0 => h \in retiring

(* Until shutdown a lease is lost by being forgotten only.                 *)
PublishedIsLeased ==
  ~stopped => \A h \in Handle : acq[h] = "published" /\ forgotten[h] = 0 => h \in Leases

AdmissionInv ==
  /\ AdmissionTypeOK
  /\ EveryLockHasAnOwner
  /\ RetiringLeaseIsHeld
  /\ NothingPublishedAfterStop
  /\ UnpublishedIsUntouched
  /\ ServingIsNotForgotten
  /\ LocksAreTheirSessions
  /\ AcquiredIsHeld
  /\ ReleasesAreForgets
  /\ WaitingIsRetiring
  /\ PublishedIsLeased

LEMMA HandleFacts ==
  ASSUME NEW h \in Handle
  PROVE  /\ ClientOf(h) \in Client
         /\ LabelOfLease(h) \in Label
         /\ SessionOfLock(h) \in Session
         /\ h # None
         /\ h # Other
BY AdmissionAssumption DEF Handle, ClientOf, LabelOfLease, SessionOfLock

LEMMA HandleOf ==
  ASSUME NEW c \in Client, NEW op \in Op
  PROVE  /\ <<op, c>> \in Handle
         /\ ClientOf(<<op, c>>) = c
         /\ LabelOfLease(<<op, c>>) = LabelOf[c]
         /\ SessionOfLock(<<op, c>>) = SessionOf[c]
BY DEF Handle, Op, ClientOf, LabelOfLease, SessionOfLock

LEMMA LeaseOfFacts ==
  ASSUME AdmissionTypeOK, NEW c \in Client, LeaseOf(c) # None
  PROVE  /\ LeaseOf(c) \in Handle
         /\ LeaseOf(c) \in Leases
         /\ ClientOf(LeaseOf(c)) = c
<1> DEFINE a == active[LabelOf[c]]
           mine == {h \in retiring : ClientOf(h) = c}
<1>1. CASE a # None /\ ClientOf(a) = c
  BY <1>1, AdmissionAssumption DEF LeaseOf, Leases, AdmissionTypeOK
<1>2. CASE ~(a # None /\ ClientOf(a) = c) /\ mine # {}
  <2>1. LeaseOf(c) = CHOOSE h \in mine : TRUE
    BY <1>2 DEF LeaseOf
  <2>2. LeaseOf(c) \in mine
    BY <1>2, <2>1
  <2> QED BY <2>2 DEF Leases, AdmissionTypeOK
<1>3. CASE ~(a # None /\ ClientOf(a) = c) /\ mine = {}
  BY <1>3 DEF LeaseOf
<1> QED BY <1>1, <1>2, <1>3

LEMMA InitInv == AdmissionInit => AdmissionInv
<1> SUFFICES ASSUME AdmissionInit PROVE AdmissionInv
  OBVIOUS
<1> USE AdmissionAssumption DEF AdmissionInit
<1>1. AdmissionTypeOK
  BY DEF AdmissionTypeOK, AcqState
<1>2. Leases = {}
  BY DEF Leases
<1>3. \A h \in Handle : ~Held(h)
  BY HandleFacts DEF Held
<1>4. \A s \in Session : holder[s] \notin Handle
  OBVIOUS
<1> QED
  BY <1>1, <1>2, <1>3, <1>4
  DEF AdmissionInv, EveryLockHasAnOwner, RetiringLeaseIsHeld, NothingPublishedAfterStop,
      UnpublishedIsUntouched, ServingIsNotForgotten, LocksAreTheirSessions, AcquiredIsHeld,
      ReleasesAreForgets, WaitingIsRetiring, PublishedIsLeased

(* Steps that only move an acquire along: no lease and no lock changes.    *)
LEMMA AcquireMoves ==
  ASSUME AdmissionInv, NEW h \in Handle, NEW to \in {"acquiring", "failed"},
         acq[h] \in {"idle", "failed", "acquiring"},
         acq' = [acq EXCEPT ![h] = to],
         UNCHANGED <<holder, pending, stopped, leaseVars>>
  PROVE  AdmissionInv'
<1> USE DEF AdmissionInv, leaseVars
<1>1. AdmissionTypeOK'
  BY DEF AdmissionTypeOK, AcqState
<1>2. Leases' = Leases
  BY DEF Leases
<1>3. \A g \in Handle : Held(g)' = Held(g)
  BY DEF Held
<1>4. \A g \in Handle : g # h => acq'[g] = acq[g]
  BY DEF AdmissionTypeOK
<1>5. acq'[h] = to
  BY DEF AdmissionTypeOK
<1> QED
  BY <1>1, <1>2, <1>3, <1>4, <1>5
  DEF EveryLockHasAnOwner, RetiringLeaseIsHeld, NothingPublishedAfterStop,
      UnpublishedIsUntouched, ServingIsNotForgotten, LocksAreTheirSessions, AcquiredIsHeld,
      ReleasesAreForgets, WaitingIsRetiring, PublishedIsLeased, Held

(* Only who waits for admission changes: nothing else speaks of it.        *)
LEMMA PendingMoves ==
  ASSUME AdmissionInv, pending' \in [Label -> Client \cup {None}],
         UNCHANGED <<holder, acq, stopped, leaseVars>>
  PROVE  AdmissionInv'
BY DEF AdmissionInv, leaseVars, AdmissionTypeOK, Leases, Held, EveryLockHasAnOwner, RetiringLeaseIsHeld,
      NothingPublishedAfterStop, UnpublishedIsUntouched, ServingIsNotForgotten, LocksAreTheirSessions, AcquiredIsHeld,
      ReleasesAreForgets, WaitingIsRetiring, PublishedIsLeased

LEMMA ThreadAcquiresInv ==
  ASSUME AdmissionInv, NEW h \in Handle, ThreadAcquires(h)
  PROVE  AdmissionInv'
<1> USE AdmissionAssumption, HandleFacts DEF AdmissionInv, ThreadAcquires, leaseVars
<1>1. AdmissionTypeOK'
  BY DEF AdmissionTypeOK, AcqState
<1>2. Leases' = Leases
  BY DEF Leases
<1>3. Held(h)' /\ acq'[h] = "acquired"
  BY DEF AdmissionTypeOK, Held
<1>4. \A g \in Handle : g # h => acq'[g] = acq[g] /\ (Held(g)' <=> Held(g))
  BY DEF AdmissionTypeOK, Held
<1>5. h \notin Leases /\ forgotten[h] = 0
  BY DEF UnpublishedIsUntouched
<1>6. \A s \in Session : \A g \in Handle :
        holder'[s] = g => holder[s] = g \/ (g = h /\ s = SessionOfLock(h))
  BY DEF AdmissionTypeOK
<1>7. \A l \in Label : active[l] # None => active[l] \in Leases /\ active[l] \in Handle
  BY DEF Leases, AdmissionTypeOK
<1>8. retiring \subseteq Leases /\ retiring \subseteq Handle
  BY DEF Leases, AdmissionTypeOK
<1>9. EveryLockHasAnOwner' /\ LocksAreTheirSessions'
  BY <1>2, <1>3, <1>4, <1>6 DEF EveryLockHasAnOwner, LocksAreTheirSessions
<1>10. RetiringLeaseIsHeld' /\ WaitingIsRetiring'
  BY <1>4, <1>5, <1>8 DEF RetiringLeaseIsHeld, WaitingIsRetiring
<1>11. NothingPublishedAfterStop' /\ AcquiredIsHeld'
  BY <1>3, <1>4 DEF NothingPublishedAfterStop, AcquiredIsHeld
<1>12. UnpublishedIsUntouched' /\ ReleasesAreForgets' /\ PublishedIsLeased'
  BY <1>2, <1>3, <1>4, <1>5 DEF UnpublishedIsUntouched, ReleasesAreForgets, PublishedIsLeased
<1>13. ServingIsNotForgotten'
  BY <1>4, <1>5, <1>7 DEF ServingIsNotForgotten
<1> QED BY <1>1, <1>9, <1>10, <1>11, <1>12, <1>13

(* Giving locks back: whichever locks go, those of the handles hs, a lock  *)
(* outside hs stays where it is and one inside is gone.                    *)
LEMMA ReleasedLocksFacts ==
  ASSUME AdmissionTypeOK, NEW hs \in SUBSET Handle, holder' = ReleasedLocks(hs)
  PROVE  /\ holder' \in [Session -> Handle \cup {None, Other}]
         /\ \A h \in Handle : Held(h)' <=> Held(h) /\ h \notin hs
         /\ \A s \in Session : \A h \in Handle :
              holder'[s] = h <=> holder[s] = h /\ h \notin hs
BY AdmissionAssumption, HandleFacts DEF AdmissionTypeOK, ReleasedLocks, Held

LEMMA RefuseInv ==
  ASSUME AdmissionInv, NEW h \in Handle, acq[h] = "acquired", Refuse(h),
         pending' \in [Label -> Client \cup {None}]
  PROVE  AdmissionInv'
<1> USE DEF AdmissionInv, Refuse, leaseVars
<1>1. AdmissionTypeOK'
  BY ReleasedLocksFacts DEF AdmissionTypeOK, AcqState
<1>2. Leases' = Leases
  BY DEF Leases
<1>3. \A g \in Handle : Held(g)' <=> Held(g) /\ g # h
  BY ReleasedLocksFacts
<1>4. \A s \in Session : \A g \in Handle : holder'[s] = g <=> holder[s] = g /\ g # h
  BY ReleasedLocksFacts
<1>5. acq'[h] = "failed" /\ \A g \in Handle : g # h => acq'[g] = acq[g]
  BY DEF AdmissionTypeOK
<1>6. h \notin Leases
  BY DEF UnpublishedIsUntouched
<1>7. \A l \in Label : active[l] # None => active[l] \in Leases /\ active[l] \in Handle
  BY DEF Leases, AdmissionTypeOK
<1>8. retiring \subseteq Leases /\ retiring \subseteq Handle
  BY DEF Leases, AdmissionTypeOK
<1>9. EveryLockHasAnOwner' /\ LocksAreTheirSessions'
  BY <1>2, <1>4, <1>5 DEF EveryLockHasAnOwner, LocksAreTheirSessions
<1>10. RetiringLeaseIsHeld' /\ WaitingIsRetiring'
  BY <1>3, <1>6, <1>8 DEF RetiringLeaseIsHeld, WaitingIsRetiring
<1>11. NothingPublishedAfterStop' /\ AcquiredIsHeld'
  BY <1>3, <1>5 DEF NothingPublishedAfterStop, AcquiredIsHeld
<1>12. UnpublishedIsUntouched' /\ ReleasesAreForgets' /\ PublishedIsLeased'
  BY <1>2, <1>5, <1>6 DEF UnpublishedIsUntouched, ReleasesAreForgets, PublishedIsLeased
<1>13. ServingIsNotForgotten'
  BY <1>3, <1>6, <1>7 DEF ServingIsNotForgotten
<1> QED BY <1>1, <1>9, <1>10, <1>11, <1>12, <1>13

LEMMA PublishInv ==
  ASSUME AdmissionInv, NEW h \in Handle, acq[h] = "acquired", Publish(h),
         pending' \in [Label -> Client \cup {None}]
  PROVE  AdmissionInv'
<1> DEFINE l == LabelOfLease(h)
<1> USE HandleFacts DEF AdmissionInv, Publish
<1>1. AdmissionTypeOK'
  BY DEF AdmissionTypeOK, AcqState
<1>2. acq'[h] = "published" /\ \A g \in Handle : g # h => acq'[g] = acq[g]
  BY DEF AdmissionTypeOK
<1>3. \A g \in Handle : Held(g)' <=> Held(g)
  BY DEF Held
<1>4. Held(h) /\ h \notin Leases /\ forgotten[h] = 0 /\ h \notin retiring
  BY DEF AcquiredIsHeld, UnpublishedIsUntouched, Leases
<1>5. active'[l] = h /\ \A m \in Label : m # l => active'[m] = active[m]
  BY DEF AdmissionTypeOK
(* A previous lease of the same client would hold the lock h has taken.    *)
<1>6. ASSUME active[l] # None PROVE ClientOf(active[l]) # ClientOf(h)
  <2>1. active[l] \in Handle /\ Held(active[l]) /\ active[l] # h
    BY <1>4, <1>6 DEF AdmissionTypeOK, ServingIsNotForgotten, Leases
  <2> QED BY <2>1, <1>4 DEF Held, SessionOfLock
<1>7. retiring' = retiring \cup ({active[l]} \ {None})
  BY <1>6
<1>8. Leases' = Leases \cup {h}
  BY <1>5, <1>7 DEF Leases
<1>9. h \notin retiring'
  BY <1>4, <1>7 DEF Leases
<1>10. \A m \in Label : active[m] # None => active[m] \in Handle /\ acq[active[m]] = "published"
  BY DEF AdmissionTypeOK, UnpublishedIsUntouched, Leases
<1>11. ServingIsNotForgotten'
  <2> SUFFICES ASSUME NEW m \in Label, active'[m] # None, m # l
               PROVE  active[m] \notin retiring'
    BY <1>4, <1>5, <1>9, <1>10 DEF ServingIsNotForgotten, Held
  <2> QED BY <1>5, <1>7 DEF ServingIsNotForgotten
<1>12. RetiringLeaseIsHeld' /\ WaitingIsRetiring'
  <2>1. active[l] # None => active[l] \in Handle /\ Held(active[l])
    BY <1>10 DEF ServingIsNotForgotten
  <2>2. \A g \in retiring' : g \in Handle /\ (g \in retiring \/ Held(g))
    BY <1>7, <2>1 DEF AdmissionTypeOK
  <2> QED BY <1>3, <1>7, <2>2 DEF RetiringLeaseIsHeld, WaitingIsRetiring
<1>13. EveryLockHasAnOwner' /\ UnpublishedIsUntouched' /\ PublishedIsLeased'
  BY <1>2, <1>8 DEF EveryLockHasAnOwner, UnpublishedIsUntouched, PublishedIsLeased
<1> QED
  BY <1>1, <1>2, <1>3, <1>11, <1>12, <1>13
  DEF NothingPublishedAfterStop, LocksAreTheirSessions, AcquiredIsHeld, ReleasesAreForgets

LEMMA RetireLeasesInv ==
  ASSUME AdmissionInv, NEW cs \in SUBSET Client, NEW open, RetireLeases(cs, open),
         UNCHANGED stopped, pending' \in [Label -> Client \cup {None}],
         acq' \in [Handle -> AcqState],
         \A h \in Handle : acq'[h] = acq[h] \/ (acq[h] = "idle" /\ acq'[h] = "acquiring")
  PROVE  AdmissionInv'
<1> DEFINE found == {LeaseOf(c) : c \in cs} \ {None}
           kept  == {h \in found : ClientOf(h) \in open}
           given == found \ kept
<1> USE HandleFacts DEF AdmissionInv
<1>1. found \subseteq Handle /\ found \subseteq Leases /\ kept \subseteq found /\ given \subseteq found
  BY LeaseOfFacts
<1>2. /\ active' = [l \in Label |-> IF active[l] \in found THEN None ELSE active[l]]
      /\ retiring' = (retiring \ given) \cup kept
      /\ forgotten' = [h \in Handle |-> IF h \in found THEN forgotten[h] + 1 ELSE forgotten[h]]
      /\ waiting' = [h \in Handle |-> IF h \in kept THEN waiting[h] + 1 ELSE waiting[h]]
      /\ unreleased' = unreleased \ {LabelOfLease(h) : h \in given}
      /\ holder' = ReleasedLocks(given)
  BY DEF RetireLeases
<1> HIDE DEF found, kept, given
<1>3. AdmissionTypeOK'
  BY <1>1, <1>2, ReleasedLocksFacts DEF AdmissionTypeOK
<1>4. \A h \in Handle : Held(h)' <=> Held(h) /\ h \notin given
  BY <1>1, <1>2, ReleasedLocksFacts
<1>5. \A s \in Session : \A h \in Handle : holder'[s] = h <=> holder[s] = h /\ h \notin given
  BY <1>1, <1>2, ReleasedLocksFacts
<1>6. \A l \in Label : active'[l] # None =>
        active'[l] = active[l] /\ active[l] \notin found /\ active[l] \in Handle
  BY <1>2 DEF AdmissionTypeOK
<1>7. \A h \in Handle : h \in Leases => h \in Leases' \/ h \in given
  <2> SUFFICES ASSUME NEW h \in Handle, h \in Leases, h \notin given, h \notin retiring'
               PROVE  h \in Leases'
    BY DEF Leases
  <2>1. h \notin retiring /\ h \notin kept
    BY <1>2
  <2>2. h \notin found
    BY <2>1 DEF given
  <2>3. PICK l \in Label : active[l] = h
    BY <2>1 DEF Leases
  <2>4. active'[l] = h
    BY <1>2, <2>2, <2>3
  <2> QED BY <2>4 DEF Leases
<1>8. \A h \in Handle : h \in Leases' => h \in Leases
  BY <1>1, <1>2, <1>6 DEF Leases
<1>9. \A h \in Leases : acq[h] = "published" /\ h \in Handle
  BY DEF UnpublishedIsUntouched, Leases, AdmissionTypeOK
<1>a. \A h \in Handle : \A at \in {"acquired", "published"} : acq'[h] = at <=> acq[h] = at
  OBVIOUS
<1>10. EveryLockHasAnOwner' /\ LocksAreTheirSessions'
  BY <1>5, <1>7, <1>a DEF EveryLockHasAnOwner, LocksAreTheirSessions
<1>11. UnpublishedIsUntouched'
  <2> SUFFICES ASSUME NEW h \in Handle, acq[h] # "published"
               PROVE  h \notin Leases' /\ forgotten'[h] = 0
    BY <1>a DEF UnpublishedIsUntouched
  <2> QED BY <1>1, <1>2, <1>8, <1>9 DEF UnpublishedIsUntouched
<1>b. PublishedIsLeased'
  <2> SUFFICES ASSUME ~stopped, NEW h \in Handle, acq[h] = "published", forgotten'[h] = 0
               PROVE  h \in Leases'
    BY <1>a DEF PublishedIsLeased
  <2>1. h \notin found /\ forgotten[h] = 0
    BY <1>2 DEF AdmissionTypeOK
  <2> QED BY <1>1, <1>7, <2>1 DEF PublishedIsLeased
<1>12. NothingPublishedAfterStop' /\ AcquiredIsHeld'
  <2>1. \A h \in Handle : acq[h] = "acquired" => h \notin given
    BY <1>1, <1>9
  <2>2. stopped => \A l \in Label : active'[l] = None
    BY <1>2, <1>6 DEF NothingPublishedAfterStop, AdmissionTypeOK
  <2> QED BY <1>4, <1>a, <2>1, <2>2 DEF NothingPublishedAfterStop, AcquiredIsHeld
<1>13. ServingIsNotForgotten'
  <2> SUFFICES ASSUME NEW l \in Label, active'[l] # None
               PROVE  /\ LabelOfLease(active[l]) = l
                      /\ Held(active[l])'
                      /\ forgotten'[active[l]] = 0
                      /\ active[l] \notin retiring'
    BY <1>6 DEF ServingIsNotForgotten, Held
  <2>1. active[l] \notin found /\ active[l] \notin given /\ active[l] \notin kept /\ active[l] \in Handle
    BY <1>1, <1>6
  <2>2. holder'[SessionOfLock(active[l])] = active[l]
    BY <1>6, <2>1, <1>5 DEF ServingIsNotForgotten, Held
  <2> QED BY <1>2, <1>6, <2>1, <2>2 DEF ServingIsNotForgotten, Held
<1>14. ReleasesAreForgets'
  BY <1>1, <1>2 DEF ReleasesAreForgets, AdmissionTypeOK
<1>15. RetiringLeaseIsHeld'
  <2> SUFFICES ASSUME ~stopped, NEW h \in retiring', forgotten'[h] <= 1
               PROVE  Held(h)'
    BY DEF RetiringLeaseIsHeld
  <2>1. h \in Handle /\ h \notin given
    BY <1>1, <1>2 DEF AdmissionTypeOK, given
  <2>2. CASE h \in retiring
    BY <1>2, <1>4, <2>1, <2>2 DEF RetiringLeaseIsHeld, AdmissionTypeOK
  <2>3. CASE h \notin retiring
    <3>1. PICK l \in Label : active[l] = h
      BY <1>1, <1>2, <2>3 DEF Leases
    <3> QED BY <1>4, <2>1, <3>1 DEF ServingIsNotForgotten
  <2> QED BY <2>2, <2>3
<1>16. WaitingIsRetiring'
  <2> SUFFICES ASSUME ~stopped, NEW h \in Handle, forgotten'[h] = 1, waiting'[h] > 0
               PROVE  h \in retiring'
    BY DEF WaitingIsRetiring
  <2>1. CASE h \in kept
    BY <1>2, <2>1
  <2>2. CASE h \notin kept
    <3>1. waiting[h] > 0 /\ forgotten[h] > 0
      BY <1>2, <2>2 DEF ReleasesAreForgets, AdmissionTypeOK
    <3>2. h \notin found
      BY <1>2, <3>1 DEF AdmissionTypeOK
    <3> QED BY <1>1, <1>2, <3>1, <3>2 DEF WaitingIsRetiring
  <2> QED BY <2>1, <2>2
<1> QED
  BY <1>3, <1>10, <1>11, <1>b, <1>12, <1>13, <1>14, <1>15, <1>16

(* A lease with a release in flight was forgotten, so it serves no label.  *)
LEMMA WaitingDoesNotServe ==
  ASSUME AdmissionInv, NEW h \in Handle, waiting[h] > 0
  PROVE  /\ forgotten[h] > 0
         /\ acq[h] = "published"
         /\ \A l \in Label : active[l] # h
<1> USE DEF AdmissionInv
<1>1. forgotten[h] > 0
  BY DEF ReleasesAreForgets, AdmissionTypeOK
<1>2. h # None
  BY HandleFacts
<1> QED BY <1>1, <1>2 DEF UnpublishedIsUntouched, ServingIsNotForgotten

LEMMA CloseConfirmedInv ==
  ASSUME AdmissionInv, NEW h \in Handle, CloseConfirmed(h)
  PROVE  AdmissionInv'
<1>a. forgotten[h] > 0 /\ acq[h] = "published" /\ \A l \in Label : active[l] # h
  BY WaitingDoesNotServe DEF CloseConfirmed
<1>b. /\ holder' \in [Session -> Handle \cup {None, Other}]
      /\ \A g \in Handle : Held(g)' <=> Held(g) /\ g \notin {h}
      /\ \A s \in Session : \A g \in Handle : holder'[s] = g <=> holder[s] = g /\ g \notin {h}
  <2>1. AdmissionTypeOK /\ {h} \in SUBSET Handle /\ holder' = ReleasedLocks({h})
    BY DEF AdmissionInv, CloseConfirmed
  <2> QED BY <2>1, ReleasedLocksFacts
<1> USE <1>a DEF AdmissionInv, CloseConfirmed
<1>1. AdmissionTypeOK'
  <2>1. LabelOfLease(h) \in Label /\ waiting[h] - 1 \in Nat
    BY HandleFacts DEF AdmissionTypeOK
  <2> QED BY <1>b, <2>1 DEF AdmissionTypeOK
<1>2. \A g \in Handle : Held(g)' <=> Held(g) /\ g # h
  BY <1>b
<1>3. \A s \in Session : \A g \in Handle : holder'[s] = g <=> holder[s] = g /\ g # h
  BY <1>b
<1>4. Leases' \subseteq Leases /\ \A g \in Handle : g \in Leases => g \in Leases' \/ g = h
  BY DEF Leases
<1>5. EveryLockHasAnOwner' /\ LocksAreTheirSessions'
  BY <1>3, <1>4 DEF EveryLockHasAnOwner, LocksAreTheirSessions
<1>6. NothingPublishedAfterStop' /\ AcquiredIsHeld'
  BY <1>2 DEF NothingPublishedAfterStop, AcquiredIsHeld
<1>7. UnpublishedIsUntouched' /\ PublishedIsLeased'
  BY <1>4 DEF UnpublishedIsUntouched, PublishedIsLeased
<1>8. ServingIsNotForgotten'
  <2> SUFFICES ASSUME NEW l \in Label, active[l] # None
               PROVE  Held(active[l])' /\ active[l] \notin retiring'
    BY DEF ServingIsNotForgotten, Held
  <2>1. active[l] \in Handle /\ active[l] # h
    BY DEF AdmissionTypeOK
  <2>2. holder'[SessionOfLock(active[l])] = active[l]
    BY <1>3, <2>1, HandleFacts DEF ServingIsNotForgotten, Held
  <2> QED BY <2>1, <2>2 DEF ServingIsNotForgotten, Held
<1>9. RetiringLeaseIsHeld'
  BY <1>2 DEF RetiringLeaseIsHeld, AdmissionTypeOK
<1>10. ReleasesAreForgets' /\ WaitingIsRetiring'
  <2>1. \A g \in Handle : g # h => waiting'[g] = waiting[g]
    BY DEF AdmissionTypeOK
  <2>2. waiting'[h] = waiting[h] - 1 /\ waiting[h] \in Nat /\ forgotten[h] \in Nat
    BY DEF AdmissionTypeOK
  <2>3. forgotten[h] = 1 => waiting'[h] <= 0
    BY <2>2 DEF ReleasesAreForgets
  <2> QED BY <2>1, <2>2, <2>3 DEF ReleasesAreForgets, WaitingIsRetiring
<1> QED BY <1>1, <1>5, <1>6, <1>7, <1>8, <1>9, <1>10

LEMMA CloseUnconfirmedInv ==
  ASSUME AdmissionInv, NEW h \in Handle, CloseUnconfirmed(h)
  PROVE  AdmissionInv'
<1>a. forgotten[h] > 0 /\ acq[h] = "published" /\ \A l \in Label : active[l] # h
  BY WaitingDoesNotServe DEF CloseUnconfirmed
<1> USE HandleFacts, <1>a DEF AdmissionInv, CloseUnconfirmed
<1>1. AdmissionTypeOK'
  BY DEF AdmissionTypeOK
<1>2. \A g \in Handle : Held(g)' <=> Held(g)
  BY DEF Held
<1>3. Leases' = Leases \cup {h}
  BY DEF Leases
<1>4. EveryLockHasAnOwner' /\ LocksAreTheirSessions'
  BY <1>3 DEF EveryLockHasAnOwner, LocksAreTheirSessions
<1>5. NothingPublishedAfterStop' /\ AcquiredIsHeld'
  BY <1>2 DEF NothingPublishedAfterStop, AcquiredIsHeld
<1>6. UnpublishedIsUntouched' /\ PublishedIsLeased'
  BY <1>3 DEF UnpublishedIsUntouched, PublishedIsLeased
<1>7. ServingIsNotForgotten'
  <2> SUFFICES ASSUME NEW l \in Label, active[l] # None
               PROVE  active[l] \notin retiring'
    BY DEF ServingIsNotForgotten, Held
  <2> QED BY DEF ServingIsNotForgotten
<1>8. RetiringLeaseIsHeld'
  <2> SUFFICES ASSUME ~stopped, forgotten[h] <= 1 PROVE Held(h)
    BY <1>2 DEF RetiringLeaseIsHeld, AdmissionTypeOK
  <2>1. forgotten[h] = 1
    BY DEF AdmissionTypeOK
  <2> QED BY <2>1 DEF WaitingIsRetiring, RetiringLeaseIsHeld
<1>9. ReleasesAreForgets' /\ WaitingIsRetiring'
  BY DEF ReleasesAreForgets, WaitingIsRetiring, AdmissionTypeOK
<1> QED BY <1>1, <1>4, <1>5, <1>6, <1>7, <1>8, <1>9

LEMMA ReleaseAllInv ==
  ASSUME AdmissionInv, ReleaseAll
  PROVE  AdmissionInv'
<1> USE HandleFacts DEF AdmissionInv, ReleaseAll
<1>1. Leases \in SUBSET Handle
  BY DEF Leases, AdmissionTypeOK
<1>2. AdmissionTypeOK'
  BY <1>1, ReleasedLocksFacts DEF AdmissionTypeOK
<1>3. \A h \in Handle : Held(h)' <=> Held(h) /\ h \notin Leases
  BY <1>1, ReleasedLocksFacts
<1>4. \A s \in Session : \A h \in Handle : holder'[s] = h <=> holder[s] = h /\ h \notin Leases
  BY <1>1, ReleasedLocksFacts
<1>5. Leases' = {}
  BY DEF Leases
<1>6. EveryLockHasAnOwner' /\ LocksAreTheirSessions'
  BY <1>4 DEF EveryLockHasAnOwner, LocksAreTheirSessions
<1>7. \A h \in Handle : Held(h)' => acq[h] = "acquired"
  BY <1>3 DEF EveryLockHasAnOwner, Held
<1>8. NothingPublishedAfterStop' /\ AcquiredIsHeld'
  BY <1>3, <1>7 DEF NothingPublishedAfterStop, AcquiredIsHeld, UnpublishedIsUntouched
<1> QED
  BY <1>2, <1>5, <1>6, <1>8
  DEF RetiringLeaseIsHeld, UnpublishedIsUntouched, ServingIsNotForgotten, ReleasesAreForgets,
      WaitingIsRetiring, PublishedIsLeased

(* Another process only ever moves a lock between itself and nobody.       *)
LEMMA OtherMovesInv ==
  ASSUME AdmissionInv, NEW s \in Session, OtherTakes(s) \/ OtherExits(s)
  PROVE  AdmissionInv'
<1> USE AdmissionAssumption, HandleFacts DEF AdmissionInv, OtherTakes, OtherExits, leaseVars
<1>1. AdmissionTypeOK'
  BY DEF AdmissionTypeOK
<1>2. Leases' = Leases
  BY DEF Leases
<1>3. \A t \in Session : \A h \in Handle : holder'[t] = h <=> holder[t] = h
  BY DEF AdmissionTypeOK
<1>4. \A h \in Handle : Held(h)' <=> Held(h)
  BY <1>3 DEF Held
<1>5. ServingIsNotForgotten'
  <2> SUFFICES ASSUME NEW l \in Label, active[l] # None
               PROVE  holder'[SessionOfLock(active[l])] = active[l]
    BY DEF ServingIsNotForgotten, Held
  <2> QED BY <1>3 DEF ServingIsNotForgotten, Held, AdmissionTypeOK
<1>6. RetiringLeaseIsHeld' /\ WaitingIsRetiring'
  BY <1>4 DEF RetiringLeaseIsHeld, WaitingIsRetiring, AdmissionTypeOK
<1> QED
  BY <1>1, <1>2, <1>3, <1>4, <1>5, <1>6
  DEF EveryLockHasAnOwner, NothingPublishedAfterStop, UnpublishedIsUntouched,
      LocksAreTheirSessions, AcquiredIsHeld, ReleasesAreForgets, PublishedIsLeased

LEMMA StepInv == AdmissionInv /\ [AdmissionNext]_admissionVars => AdmissionInv'
<1> SUFFICES ASSUME AdmissionInv, [AdmissionNext]_admissionVars PROVE AdmissionInv'
  OBVIOUS
<1> USE HandleOf DEF Op
<1>1. AdmissionTypeOK
  BY DEF AdmissionInv
<1>2. ASSUME NEW c \in Client, StartClaim(c) \/ StartAdmit(c) PROVE AdmissionInv'
  BY <1>2, AcquireMoves DEF StartClaim, StartAdmit
<1>3. ASSUME NEW c \in Client, ClaimResumes(c) PROVE AdmissionInv'
  BY <1>1, <1>3, PublishInv, RefuseInv DEF ClaimResumes, AdmissionTypeOK
<1>4. ASSUME NEW c \in Client, AdmitResumes(c) PROVE AdmissionInv'
  <2>1. pending' \in [Label -> Client \cup {None}]
    BY <1>1, <1>4, AdmissionAssumption DEF AdmitResumes, AdmissionTypeOK
  <2> QED BY <1>4, <2>1, PublishInv, RefuseInv DEF AdmitResumes
<1>5. ASSUME NEW c \in Client, ClaimReturns(c) \/ MarkAwaiting(c) PROVE AdmissionInv'
  <2>1. pending' \in [Label -> Client \cup {None}]
    BY <1>1, <1>5, AdmissionAssumption DEF ClaimReturns, MarkAwaiting, AdmissionTypeOK
  <2> QED BY <1>5, <2>1, PendingMoves DEF ClaimReturns, MarkAwaiting
<1>6. ASSUME NEW c \in Client, NEW closes \in BOOLEAN, Forget(c, closes) PROVE AdmissionInv'
  <2>1. pending' \in [Label -> Client \cup {None}]
    BY <1>1, <1>6, AdmissionAssumption DEF Forget, AdmissionTypeOK
  <2> QED BY <1>1, <1>6, <2>1, RetireLeasesInv DEF Forget, AdmissionTypeOK
<1>7. ASSUME NEW h \in Handle, ThreadAcquires(h) \/ ThreadGivesUp(h) PROVE AdmissionInv'
  BY <1>7, ThreadAcquiresInv, AcquireMoves DEF ThreadGivesUp
<1>8. ASSUME NEW h \in Handle, CloseConfirmed(h) \/ CloseUnconfirmed(h) PROVE AdmissionInv'
  BY <1>8, CloseConfirmedInv, CloseUnconfirmedInv
<1>9. CASE ReleaseAll
  BY <1>9, ReleaseAllInv
<1>10. ASSUME NEW s \in Session, OtherTakes(s) \/ OtherExits(s) PROVE AdmissionInv'
  BY <1>10, OtherMovesInv
<1>11. CASE UNCHANGED admissionVars
  BY <1>1, <1>11, PendingMoves DEF admissionVars, AdmissionTypeOK
<1> QED
  BY <1>2, <1>3, <1>4, <1>5, <1>6, <1>7, <1>8, <1>9, <1>10, <1>11 DEF AdmissionNext

LEMMA Invariance == AdmissionSpec => []AdmissionInv
BY InitInv, StepInv, PTL DEF AdmissionSpec

(* The variables of the lease store keep their types.                      *)
THEOREM TypeCorrect == AdmissionSpec => []AdmissionTypeOK
BY Invariance, PTL DEF AdmissionInv

(* Every flock this process holds has an owner that will give it back,     *)
(* whatever the interleaving of claims, admissions, retirements and        *)
(* shutdown.                                                               *)
THEOREM LocksHaveOwners == AdmissionSpec => []EveryLockHasAnOwner
BY Invariance, PTL DEF AdmissionInv

(* A label never means a session whose lock was given away.                *)
THEOREM ServingLeasesAreHeld == AdmissionSpec => []ServingLeaseIsHeld
<1>1. AdmissionInv => ServingLeaseIsHeld
  BY DEF AdmissionInv, ServingIsNotForgotten, ServingLeaseIsHeld
<1> QED BY <1>1, Invariance, PTL

(* A lease out of service keeps its lock until its close is confirmed.     *)
THEOREM RetiringLeasesAreHeld == AdmissionSpec => []RetiringLeaseIsHeld
BY Invariance, PTL DEF AdmissionInv

(* release_all() is a boundary: nothing is published behind it.            *)
THEOREM StopIsFinal == AdmissionSpec => []NothingPublishedAfterStop
BY Invariance, PTL DEF AdmissionInv

----------------------------------------------------------------------------
(* Reload: ReloadInv.                                                      *)
(*                                                                         *)
(* What a serving label, a recorded digest and a live connection have to   *)
(* do with each other rests on what nobody states in one place: that a     *)
(* client on its way into service is the only one for its label and        *)
(* belongs to the one transaction in flight, that its claim follows the    *)
(* state of its transaction, and that a lease is forgotten only with a     *)
(* client that was retired or rejected.  Overlapping transactions break    *)
(* the first of these.                                                     *)

(* On its way into service.                                                *)
Unsettled(c) == c \in built /\ ~Settled(c)

(* The lease a client was admitted with, not yet forgotten.                *)
HasLease(c) ==
  \E op \in Op : acq[<<op, c>>] = "published" /\ forgotten[<<op, c>>] = 0

(* What a call may find of the client it was given: retired, still to be   *)
(* admitted by the first call, or leased.                                  *)
Covered(c) == c \in retired \/ pending[LabelOf[c]] = c \/ HasLease(c)

(* The registry names clients that were built, each under its own label.   *)
RegistryIsBuilt ==
  \A l \in Label : clients[l] # None => clients[l] \in built /\ LabelOf[clients[l]] = l

(* A client that was not built yet has done nothing.                       *)
UnbuiltIsUntouched ==
  \A c \in Client \ built :
    tx[c] = "none" /\ c \notin retired /\ \A op \in Op : acq[<<op, c>>] = "idle"

(* The claim of a session is where the transaction of its client is.       *)
ClaimsFollowTx ==
  \A c \in Client :
    /\ tx[c] = "none" => acq[<<"claim", c>>] = "idle"
    /\ acq[<<"claim", c>>] \in {"acquiring", "acquired"} => tx[c] = "claiming"
    /\ tx[c] \in {"connecting", "authorizing", "active"} => acq[<<"claim", c>>] = "published"

(* A lease is forgotten with its client, never from under it.              *)
ForgottenIsRetired ==
  \A c \in Client : \A op \in Op :
    forgotten[<<op, c>>] > 0 => c \in retired \/ tx[c] = "rejected"

(* A staged client that failed was retired.                                *)
RejectedIsRetired == \A c \in Client \ Boot : tx[c] = "rejected" => c \in retired

(* Nobody retires a client before its admission is over.                   *)
UnsettledIsNotRetired == \A c \in Client : ~Settled(c) => c \notin retired

(* Startup is over before the first reload, and calls end before shutdown. *)
BootComesFirst ==
  /\ Boot \subseteq built
  /\ \A c \in Boot : previous[c] = None
  /\ phase = "starting" => built = Boot
  /\ phase \in {"starting", "stopping"} => batches = {}
  /\ phase # "starting" => \A c \in Boot : Settled(c)
  /\ phase = "serving" => \A c \in Boot : tx[c] = "active"
  /\ phase # "serving" => \A k \in Call : call[k] = Idle
  /\ stopped => phase = "stopped"

(* One reload transaction at a time, and one admission for a label.        *)
OneAtATime ==
  /\ \A t, u \in batches : t = u
  /\ \A c \in Client \ Boot : Unsettled(c) => \E t \in batches : c \in t.members
  /\ \A c, d \in Client : Unsettled(c) /\ Unsettled(d) /\ LabelOf[c] = LabelOf[d] => c = d

(* A client on its way in replaces what its label means, or is new to it.  *)
UnsettledReplaces ==
  \A c \in Client : Unsettled(c) =>
    /\ clients[LabelOf[c]] = IF previous[c] = None THEN c ELSE previous[c]
    /\ previous[c] # None => Settled(previous[c])

(* The digests lag the registry only by what the transaction activated.    *)
DigestsFollow ==
  /\ \A l \in Label : clients[l] # None =>
       \/ digests[l] = SessionOf[clients[l]]
       \/ l \in activated /\ \E t \in batches : clients[l] \in t.members
  /\ \A t \in batches :
       /\ \A c \in t.members : t.digests[LabelOf[c]] = SessionOf[c]
       /\ \A l \in activated :
            clients[l] # None /\ t.digests[l] # None => t.digests[l] = SessionOf[clients[l]]

(* The lease of a label is of the client it names or of the one on its way.*)
LeasesAreOfTheRegistry ==
  \A l \in Label : active[l] # None =>
    clients[l] = ClientOf(active[l]) \/ Unsettled(ClientOf(active[l]))

(* A label waits for its first call only while its new client claims.      *)
PendingIsClaiming ==
  \A l \in Label : pending[l] # None =>
    clients[l] = pending[l] /\ tx[pending[l]] = "claiming" /\ pending[l] \notin Boot

(* What get_client() may answer with is covered ...                        *)
RegistryIsCovered ==
  phase = "serving" => \A l \in Label : clients[l] # None => Covered(clients[l])

(* ... and so is what a call in flight holds of an earlier answer ...      *)
CallsAreCovered ==
  \A k \in Call : LET c == call[k].client IN
    call[k] # Idle =>
      /\ c \in built
      /\ call[k].pc = "called" => Covered(c)
      /\ call[k].pc \in {"reconnecting", "opening"} => c \in retired \/ HasLease(c)

(* ... and whatever is connected, until it is retired.                     *)
SocketsAreCovered ==
  /\ phase # "stopped" => \A c \in socket \ retired : HasLease(c)
  /\ \A c \in socket \cap Boot : tx[c] \notin {"none", "claiming", "connecting"}

(* What serves was not retired.                                            *)
ServingIsNotRetired ==
  \A l \in Label : clients[l] # None /\ tx[clients[l]] = "active" => clients[l] \notin retired

(* ... about the transactions and what they publish ...                    *)
LifeInv ==
  /\ RegistryIsBuilt
  /\ RejectedIsRetired
  /\ UnsettledIsNotRetired
  /\ BootComesFirst
  /\ OneAtATime
  /\ UnsettledReplaces
  /\ DigestsFollow
  /\ ServingIsNotRetired

(* ... about the leases behind them ...                                    *)
LeaseInv ==
  /\ UnbuiltIsUntouched
  /\ ClaimsFollowTx
  /\ ForgottenIsRetired
  /\ LeasesAreOfTheRegistry
  /\ PendingIsClaiming

(* ... and about what calls and sockets rest on.                           *)
CoverInv ==
  /\ RegistryIsCovered
  /\ CallsAreCovered
  /\ SocketsAreCovered

ReloadInv ==
  /\ AdmissionInv
  /\ TypeOK
  /\ LifeInv
  /\ LeaseInv
  /\ CoverInv

(* A lease that was not forgotten is held, until shutdown.                 *)
LEMMA PublishedIsHeld ==
  ASSUME AdmissionInv, ~stopped, NEW h \in Handle, acq[h] = "published", forgotten[h] = 0
  PROVE  Held(h)
<1>1. h \in Leases
  BY DEF AdmissionInv, PublishedIsLeased
<1>2. CASE h \in retiring
  BY <1>2 DEF AdmissionInv, RetiringLeaseIsHeld
<1>3. CASE h \notin retiring
  <2>1. PICK l \in Label : active[l] = h
    BY <1>1, <1>3 DEF Leases
  <2> QED BY <2>1, HandleFacts DEF AdmissionInv, ServingIsNotForgotten
<1> QED BY <1>2, <1>3

LEMMA HasLeaseIsLeased ==
  ASSUME AdmissionInv, ~stopped, NEW c \in Client, HasLease(c)
  PROVE  Leased(c)
<1>1. PICK op \in Op : acq[<<op, c>>] = "published" /\ forgotten[<<op, c>>] = 0
  BY DEF HasLease
<1>2. Held(<<op, c>>)
  BY <1>1, PublishedIsHeld, HandleOf
<1> QED BY <1>2, HandleOf DEF Held, Leased

(* A client whose claim went through has its lease until it is retired or  *)
(* rejected.                                                               *)
LEMMA ClaimIsKept ==
  ASSUME AdmissionInv, ForgottenIsRetired, NEW c \in Client, c \notin retired, tx[c] # "rejected",
         acq[<<"claim", c>>] = "published"
  PROVE  forgotten[<<"claim", c>>] = 0 /\ HasLease(c)
<1>1. forgotten[<<"claim", c>>] \in Nat /\ ~(forgotten[<<"claim", c>>] > 0)
  BY HandleOf DEF Op, ForgottenIsRetired, AdmissionInv, AdmissionTypeOK
<1> QED BY <1>1 DEF HasLease, Op

LEMMA ClaimHasLease ==
  ASSUME ReloadInv, NEW c \in Client, c \notin retired, tx[c] # "rejected",
         acq[<<"claim", c>>] = "published"
  PROVE  forgotten[<<"claim", c>>] = 0 /\ HasLease(c)
BY ClaimIsKept DEF ReloadInv, LeaseInv

LEMMA ClaimedIsKept ==
  ASSUME AdmissionInv, ClaimsFollowTx, ForgottenIsRetired, NEW c \in Client, c \notin retired,
         tx[c] \in {"connecting", "authorizing", "active"}
  PROVE  /\ acq[<<"claim", c>>] = "published"
         /\ forgotten[<<"claim", c>>] = 0
         /\ HasLease(c)
<1>1. acq[<<"claim", c>>] = "published"
  BY DEF ClaimsFollowTx
<1> QED BY <1>1, ClaimIsKept

LEMMA ClaimedHasLease ==
  ASSUME ReloadInv, NEW c \in Client, c \notin retired,
         tx[c] \in {"connecting", "authorizing", "active"}
  PROVE  /\ acq[<<"claim", c>>] = "published"
         /\ forgotten[<<"claim", c>>] = 0
         /\ HasLease(c)
BY ClaimedIsKept DEF ReloadInv, LeaseInv

(* forget() of the clients cs reaches no other client's lease.             *)
LEMMA RetireFacts ==
  ASSUME AdmissionInv, NEW cs \in SUBSET Client, NEW open, RetireLeases(cs, open)
  PROVE  /\ \A c \in Client : \A op \in Op :
              /\ forgotten'[<<op, c>>] = 0 => forgotten[<<op, c>>] = 0
              /\ c \notin cs => forgotten'[<<op, c>>] = forgotten[<<op, c>>]
         /\ \A l \in Label :
              /\ active'[l] \in {active[l], None}
              /\ active[l] # None /\ ClientOf(active[l]) \in cs => active'[l] = None
<1> DEFINE found == {LeaseOf(c) : c \in cs} \ {None}
<1>0. AdmissionTypeOK
  BY DEF AdmissionInv
<1>1. \A h \in found : h \in Handle /\ h \in Leases /\ ClientOf(h) \in cs
  BY <1>0, LeaseOfFacts
<1>2. /\ active' = [l \in Label |-> IF active[l] \in found THEN None ELSE active[l]]
      /\ forgotten' = [h \in Handle |-> IF h \in found THEN forgotten[h] + 1 ELSE forgotten[h]]
  BY DEF RetireLeases
<1>3. \A l \in Label : active[l] # None /\ ClientOf(active[l]) \in cs => active[l] \in found
  <2> SUFFICES ASSUME NEW l \in Label, active[l] # None, ClientOf(active[l]) \in cs
               PROVE  active[l] \in found
    OBVIOUS
  <2>1. LabelOf[ClientOf(active[l])] = l
    BY DEF AdmissionInv, ServingIsNotForgotten, LabelOfLease
  <2>2. LeaseOf(ClientOf(active[l])) = active[l]
    BY <2>1 DEF LeaseOf
  <2> QED BY <2>2
<1> HIDE DEF found
<1>4. \A c \in Client : \A op \in Op :
        /\ forgotten'[<<op, c>>] = 0 => forgotten[<<op, c>>] = 0
        /\ c \notin cs => forgotten'[<<op, c>>] = forgotten[<<op, c>>]
  <2> SUFFICES ASSUME NEW c \in Client, NEW op \in Op
               PROVE  /\ forgotten'[<<op, c>>] = 0 => forgotten[<<op, c>>] = 0
                      /\ c \notin cs => forgotten'[<<op, c>>] = forgotten[<<op, c>>]
    OBVIOUS
  <2>1. <<op, c>> \in Handle /\ ClientOf(<<op, c>>) = c /\ forgotten[<<op, c>>] \in Nat
    BY <1>0, HandleOf DEF AdmissionTypeOK
  <2>2. forgotten'[<<op, c>>] = IF <<op, c>> \in found THEN forgotten[<<op, c>>] + 1
                                ELSE forgotten[<<op, c>>]
    BY <1>2, <2>1
  <2> QED BY <1>1, <2>1, <2>2
<1>5. \A l \in Label :
        /\ active'[l] \in {active[l], None}
        /\ active[l] # None /\ ClientOf(active[l]) \in cs => active'[l] = None
  BY <1>2, <1>3
<1> QED BY <1>4, <1>5

(* ... and releases no lock but theirs, none of those whose socket is on   *)
(* its way down.                                                           *)
LEMMA RetireLocks ==
  ASSUME AdmissionInv, NEW cs \in SUBSET Client, NEW open, RetireLeases(cs, open)
  PROVE  /\ cs \subseteq open => holder' = holder
         /\ \E given \in SUBSET {h \in Handle : ClientOf(h) \in cs} : holder' = ReleasedLocks(given)
<1> DEFINE found == {LeaseOf(c) : c \in cs} \ {None}
           kept  == {h \in found : ClientOf(h) \in open}
           given == found \ kept
<1>0. AdmissionTypeOK
  BY DEF AdmissionInv
<1>1. \A h \in found : h \in Handle /\ ClientOf(h) \in cs
  BY <1>0, LeaseOfFacts
<1>2. holder' = ReleasedLocks(given)
  BY DEF RetireLeases
<1>3. given \in SUBSET {h \in Handle : ClientOf(h) \in cs}
  BY <1>1
<1>4. cs \subseteq open => given = {}
  BY <1>1
<1> HIDE DEF found, kept, given
<1>5. cs \subseteq open => holder' = holder
  BY <1>0, <1>2, <1>4 DEF ReleasedLocks, AdmissionTypeOK
<1> QED BY <1>2, <1>3, <1>5

(* Nothing of the account lifecycle changes.                               *)
LEMMA LifeUnchanged ==
  ASSUME LifeInv, UNCHANGED <<clients, built, tx, previous, retired, phase, batches, digests,
                              activated, call>>,
         stopped' => phase = "stopped"
  PROVE  LifeInv'
<1> USE DEF LifeInv
<1>1. RegistryIsBuilt' /\ RejectedIsRetired' /\ ServingIsNotRetired'
  BY DEF RegistryIsBuilt, RejectedIsRetired, ServingIsNotRetired
<1>2. UnsettledIsNotRetired' /\ UnsettledReplaces'
  BY DEF UnsettledIsNotRetired, UnsettledReplaces, Settled, Unsettled
<1>3. BootComesFirst' /\ OneAtATime'
  BY DEF BootComesFirst, OneAtATime, Unsettled, Settled
<1>4. DigestsFollow'
  BY DEF DigestsFollow
<1> QED BY <1>1, <1>2, <1>3, <1>4

(* Steps of the lease store alone: coroutines move on, a client may stop   *)
(* waiting for admission because it got its lease.                         *)
LEMMA LeaseMoves ==
  ASSUME ReloadInv, AdmissionInv', UNCHANGED reloadVars, UNCHANGED forgotten,
         stopped' => phase = "stopped",
         \A h \in Handle :
           /\ acq[h] = "published" => acq'[h] = "published"
           /\ acq[h] = "idle" => acq'[h] = "idle"
           /\ acq'[h] \in {"acquiring", "acquired"} => acq[h] \in {"acquiring", "acquired"},
         \A l \in Label : pending'[l] \in {pending[l], None},
         \A c \in Client : pending[LabelOf[c]] = c =>
           pending'[LabelOf[c]] = c \/ stopped' \/ HasLease(c)',
         \A l \in Label : active'[l] \in {active[l], None}
                          \/ clients[l] = ClientOf(active'[l]) \/ Unsettled(ClientOf(active'[l]))
  PROVE  ReloadInv'
<1> USE HandleOf DEF reloadVars
<1>1. TypeOK'
  BY DEF ReloadInv, TypeOK, AdmissionInv
<1>2. LifeInv'
  BY LifeUnchanged DEF ReloadInv
<1>3. \A c \in Client : HasLease(c) => HasLease(c)'
  BY DEF HasLease
<1>4. phase = "serving" => ~stopped'
  OBVIOUS
<1>5. \A c \in Client : Covered(c) /\ ~stopped' => Covered(c)'
  BY <1>3 DEF Covered
<1>a. \A c \in Client : \A op \in Op : <<op, c>> \in Handle
  OBVIOUS
<1>6. UnbuiltIsUntouched' /\ ClaimsFollowTx' /\ ForgottenIsRetired'
  <2>1. UnbuiltIsUntouched'
    BY <1>a DEF ReloadInv, LeaseInv, UnbuiltIsUntouched
  <2>2. ClaimsFollowTx'
    BY <1>a DEF ReloadInv, LeaseInv, ClaimsFollowTx, Op
  <2>3. ForgottenIsRetired'
    BY DEF ReloadInv, LeaseInv, ForgottenIsRetired
  <2> QED BY <2>1, <2>2, <2>3
<1>7. LeasesAreOfTheRegistry'
  BY DEF ReloadInv, LeaseInv, LeasesAreOfTheRegistry, Unsettled, Settled
<1>8. PendingIsClaiming'
  BY DEF ReloadInv, LeaseInv, PendingIsClaiming
<1>9. RegistryIsCovered'
  BY <1>4, <1>5 DEF ReloadInv, CoverInv, RegistryIsCovered, TypeOK
<1>10. CallsAreCovered'
  <2> SUFFICES ASSUME NEW k \in Call, call[k] # Idle
               PROVE  LET c == call[k].client IN
                        /\ c \in built
                        /\ call[k].pc = "called" => Covered(c)'
                        /\ call[k].pc \in {"reconnecting", "opening"} => c \in retired \/ HasLease(c)'
    BY DEF CallsAreCovered
  <2>1. phase = "serving"
    BY DEF ReloadInv, LifeInv, BootComesFirst, TypeOK
  <2>2. call[k].client \in Client
    BY DEF ReloadInv, CoverInv, CallsAreCovered, TypeOK
  <2> QED BY <2>1, <2>2, <1>3, <1>4, <1>5 DEF ReloadInv, CoverInv, CallsAreCovered
<1>11. SocketsAreCovered'
  BY <1>3 DEF ReloadInv, CoverInv, SocketsAreCovered, TypeOK
<1> QED
  BY <1>1, <1>2, <1>6, <1>7, <1>8, <1>9, <1>10, <1>11 DEF ReloadInv, LeaseInv, CoverInv

LEMMA LeaseStepInv ==
  ASSUME ReloadInv, LeaseStep
  PROVE  ReloadInv'
<1>0. AdmissionInv /\ AdmissionTypeOK /\ UNCHANGED reloadVars
  BY DEF ReloadInv, AdmissionInv, LeaseStep
<1> USE HandleOf DEF Op
<1>1. ASSUME NEW h \in Handle, ThreadAcquires(h) \/ ThreadGivesUp(h) PROVE ReloadInv'
  <2>1. AdmissionInv'
    BY <1>0, <1>1, ThreadAcquiresInv, AcquireMoves DEF ThreadGivesUp
  <2>2. \A g \in Handle :
          /\ acq[g] = "published" => acq'[g] = "published"
          /\ acq[g] = "idle" => acq'[g] = "idle"
          /\ acq'[g] \in {"acquiring", "acquired"} => acq[g] \in {"acquiring", "acquired"}
    BY <1>0, <1>1 DEF ThreadAcquires, ThreadGivesUp, AdmissionTypeOK
  <2>3. UNCHANGED <<pending, active, forgotten, stopped>>
    BY <1>1 DEF ThreadAcquires, ThreadGivesUp, leaseVars
  <2>4. stopped' => phase = "stopped"
    BY <2>3 DEF ReloadInv, LifeInv, BootComesFirst
  <2> QED BY <1>0, <2>1, <2>2, <2>3, <2>4, LeaseMoves
<1>2. ASSUME NEW c \in Client, ClaimResumes(c) PROVE ReloadInv'
  <2> DEFINE h == <<"claim", c>>
  <2>1. AdmissionInv'
    BY <1>0, <1>2, PublishInv, RefuseInv DEF ClaimResumes, AdmissionTypeOK
  <2>2. \A g \in Handle :
          /\ acq[g] = "published" => acq'[g] = "published"
          /\ acq[g] = "idle" => acq'[g] = "idle"
          /\ acq'[g] \in {"acquiring", "acquired"} => acq[g] \in {"acquiring", "acquired"}
    BY <1>0, <1>2 DEF ClaimResumes, Publish, Refuse, AdmissionTypeOK
  <2>3. UNCHANGED <<pending, forgotten, stopped>>
    BY <1>2 DEF ClaimResumes, Publish, Refuse, leaseVars
  <2>4. stopped' => phase = "stopped"
    BY <2>3 DEF ReloadInv, LifeInv, BootComesFirst
  <2>5. Unsettled(c)
    <3>1. tx[c] = "claiming"
      BY <1>2 DEF ReloadInv, LeaseInv, ClaimsFollowTx, ClaimResumes
    <3> QED BY <3>1 DEF ReloadInv, LeaseInv, UnbuiltIsUntouched, Unsettled, Settled
  <2>6. \A l \in Label : active'[l] \in {active[l], None} \/ Unsettled(ClientOf(active'[l]))
    BY <1>0, <1>2, <2>5 DEF ClaimResumes, Publish, Refuse, leaseVars, AdmissionTypeOK
  <2> QED BY <1>0, <2>1, <2>2, <2>3, <2>4, <2>6, LeaseMoves
<1>3. ASSUME NEW c \in Client, AdmitResumes(c) PROVE ReloadInv'
  <2> DEFINE h == <<"admit", c>>
  <2>0. pending' \in [Label -> Client \cup {None}] /\ LabelOf[c] \in Label
    BY <1>0, <1>3, AdmissionAssumption DEF AdmitResumes, AdmissionTypeOK
  <2>1. AdmissionInv'
    BY <1>0, <1>3, <2>0, PublishInv, RefuseInv DEF AdmitResumes
  <2>2. \A g \in Handle :
          /\ acq[g] = "published" => acq'[g] = "published"
          /\ acq[g] = "idle" => acq'[g] = "idle"
          /\ acq'[g] \in {"acquiring", "acquired"} => acq[g] \in {"acquiring", "acquired"}
    BY <1>0, <1>3 DEF AdmitResumes, Publish, Refuse, AdmissionTypeOK
  <2>3. UNCHANGED <<forgotten, stopped>>
    BY <1>3 DEF AdmitResumes, Publish, Refuse, leaseVars
  <2>4. stopped' => phase = "stopped"
    BY <2>3 DEF ReloadInv, LifeInv, BootComesFirst
  <2>5. acq[h] = "acquired" /\ forgotten[h] = 0
    BY <1>0, <1>3 DEF AdmitResumes, AdmissionInv, UnpublishedIsUntouched
  <2>6. CASE pending[LabelOf[c]] = c /\ Publish(h)
    <3>1. acq'[h] = "published" /\ pending' = [pending EXCEPT ![LabelOf[c]] = None]
      BY <1>0, <1>3, <2>6, AdmissionAssumption DEF AdmitResumes, Publish, AdmissionTypeOK
    <3>2. HasLease(c)'
      BY <2>3, <2>5, <3>1 DEF HasLease
    <3>3. \A l \in Label : pending'[l] \in {pending[l], None}
      BY <1>0, <3>1 DEF AdmissionTypeOK
    <3>4. \A d \in Client : pending[LabelOf[d]] = d => pending'[LabelOf[d]] = d \/ HasLease(d)'
      BY <1>0, <2>0, <2>6, <3>1, <3>2, AdmissionAssumption DEF AdmissionTypeOK
    <3>5. clients[LabelOf[c]] = c
      BY <2>0, <2>6, AdmissionAssumption DEF ReloadInv, LeaseInv, PendingIsClaiming
    <3>6. \A l \in Label : active'[l] \in {active[l], None} \/ clients[l] = ClientOf(active'[l])
      BY <1>0, <2>0, <2>6, <3>5 DEF Publish, AdmissionTypeOK
    <3> QED BY <1>0, <2>1, <2>2, <2>3, <2>4, <3>3, <3>4, <3>6, LeaseMoves
  <2>7. CASE Refuse(h)
    <3>1. active' = active
      BY <2>7 DEF Refuse, leaseVars
    <3>2. \A l \in Label : pending'[l] \in {pending[l], None}
      BY <1>0, <1>3 DEF AdmitResumes, AdmissionTypeOK
    <3>3. stopped' \/ pending' = pending
      <4>1. acq'[h] # "published"
        BY <1>0, <2>7 DEF Refuse, AdmissionTypeOK
      <4>2. ~Publish(h)
        BY <1>0, <4>1 DEF Publish, AdmissionTypeOK
      <4> QED BY <1>3, <2>3, <4>2 DEF AdmitResumes
    <3> QED BY <1>0, <2>1, <2>2, <2>3, <2>4, <3>1, <3>2, <3>3, LeaseMoves
  <2> QED BY <1>3, <2>6, <2>7 DEF AdmitResumes
<1>4. ASSUME NEW s \in Session, OtherTakes(s) \/ OtherExits(s) PROVE ReloadInv'
  <2>1. AdmissionInv'
    BY <1>0, <1>4, OtherMovesInv
  <2>2. UNCHANGED <<acq, pending, stopped, active, forgotten>>
    BY <1>4 DEF OtherTakes, OtherExits, leaseVars
  <2>3. stopped' => phase = "stopped"
    BY <2>2 DEF ReloadInv, LifeInv, BootComesFirst
  <2> QED BY <1>0, <2>1, <2>2, <2>3, LeaseMoves
<1> QED BY <1>1, <1>2, <1>3, <1>4 DEF LeaseStep

LEMMA ReleasesInv ==
  ASSUME ReloadInv, NEW h \in Handle, ReleaseConfirmed(h) \/ ReleaseGivesUp(h)
  PROVE  ReloadInv'
<1>1. AdmissionInv /\ AdmissionInv' /\ UNCHANGED reloadVars
  BY CloseConfirmedInv, CloseUnconfirmedInv DEF ReloadInv, ReleaseConfirmed, ReleaseGivesUp
<1>2. UNCHANGED <<acq, pending, stopped, active, forgotten>>
  BY DEF ReleaseConfirmed, ReleaseGivesUp, CloseConfirmed, CloseUnconfirmed
<1>3. stopped' => phase = "stopped"
  BY <1>2 DEF ReloadInv, LifeInv, BootComesFirst
<1> QED BY <1>1, <1>2, <1>3, LeaseMoves

LEMMA StopReleasesInv ==
  ASSUME ReloadInv, StopReleases
  PROVE  ReloadInv'
<1>1. AdmissionInv /\ AdmissionInv' /\ UNCHANGED reloadVars /\ stopped' /\ phase = "stopped"
  BY ReleaseAllInv DEF ReloadInv, StopReleases, ReleaseAll
<1>2. UNCHANGED <<acq, forgotten>> /\ \A l \in Label : pending'[l] = None /\ active'[l] = None
  BY DEF StopReleases, ReleaseAll
<1> QED BY <1>1, <1>2, LeaseMoves

LEMMA AdmissionUnchanged ==
  ASSUME AdmissionInv, UNCHANGED admissionVars
  PROVE  AdmissionInv'
BY PendingMoves DEF AdmissionInv, AdmissionTypeOK, admissionVars

LEMMA LeaseUnchanged ==
  ASSUME LeaseInv, UNCHANGED <<built, tx, retired, acq, forgotten, active, clients, pending>>
  PROVE  LeaseInv'
BY DEF LeaseInv, UnbuiltIsUntouched, ClaimsFollowTx, ForgottenIsRetired, LeasesAreOfTheRegistry,
       PendingIsClaiming, Unsettled, Settled

LEMMA CoverUnchanged ==
  ASSUME CoverInv,
         UNCHANGED <<phase, clients, retired, pending, acq, forgotten, call, built, socket, tx>>
  PROVE  CoverInv'
BY DEF CoverInv, RegistryIsCovered, CallsAreCovered, SocketsAreCovered, Covered, HasLease

LEMMA EditFileInv ==
  ASSUME ReloadInv, EditFile
  PROVE  ReloadInv'
<1> USE DEF ReloadInv, EditFile
<1>1. AdmissionInv' /\ LeaseInv' /\ CoverInv'
  BY AdmissionUnchanged, LeaseUnchanged, CoverUnchanged DEF admissionVars, leaseVars
<1>2. TypeOK'
  <2>1. file' \in Config /\ edits' \in 0..MaxEdits
    BY ReloadAssumption DEF TypeOK
  <2> QED BY <1>1, <2>1 DEF TypeOK, AdmissionInv
<1>3. stopped' => phase = "stopped"
  BY DEF admissionVars, LifeInv, BootComesFirst
<1> QED BY <1>1, <1>2, <1>3, LifeUnchanged

(* A reload that finds nothing to do, or refuses what it finds.            *)
ReloadRefuses ==
  /\ phase = "serving"
  /\ seen' = TRUE
  /\ UNCHANGED <<admissionVars, digests, clients, handler, built, tx, previous, batches,
                 activated, disc, retired, phase, file, edits, socket, call, overlapped>>

LEMMA ReloadRefusesInv ==
  ASSUME ReloadInv, ReloadRefuses
  PROVE  ReloadInv'
<1> USE DEF ReloadInv, ReloadRefuses
<1>1. AdmissionInv' /\ LeaseInv' /\ CoverInv'
  BY AdmissionUnchanged, LeaseUnchanged, CoverUnchanged DEF admissionVars, leaseVars
<1>2. TypeOK'
  BY <1>1 DEF TypeOK, AdmissionInv
<1>3. UNCHANGED <<clients, built, tx, previous, retired, phase, batches, digests, activated, call, stopped>>
  BY DEF admissionVars
<1>4. OneAtATime'
  BY <1>3 DEF LifeInv, OneAtATime, Unsettled, Settled
<1>5. RegistryIsBuilt' /\ RejectedIsRetired' /\ ServingIsNotRetired' /\ UnsettledIsNotRetired'
  BY <1>3 DEF LifeInv, RegistryIsBuilt, RejectedIsRetired, ServingIsNotRetired,
              UnsettledIsNotRetired, Settled
<1>6. BootComesFirst' /\ UnsettledReplaces' /\ DigestsFollow'
  BY <1>3 DEF LifeInv, BootComesFirst, UnsettledReplaces, DigestsFollow, Settled, Unsettled
<1> QED BY <1>1, <1>2, <1>4, <1>5, <1>6 DEF LifeInv

LEMMA SettleBatchInv ==
  ASSUME ReloadInv, NEW t \in batches, SettleBatch(t)
  PROVE  ReloadInv'
<1> USE DEF ReloadInv, SettleBatch
<1>1. AdmissionInv' /\ LeaseInv' /\ CoverInv'
  BY AdmissionUnchanged, LeaseUnchanged, CoverUnchanged DEF admissionVars, leaseVars
<1>2. UNCHANGED <<clients, built, tx, previous, retired, phase, activated, seen, call, stopped>>
  BY DEF admissionVars
<1>3. batches' = {}
  BY DEF LifeInv, OneAtATime
<1>4. t \in [members : SUBSET Client, digests : Config]
  BY DEF TypeOK
<1>5. digests' \in Config
  BY <1>4 DEF TypeOK, Recorded, Config
<1>6. TypeOK'
  BY <1>1, <1>2, <1>3, <1>5 DEF TypeOK, AdmissionInv
<1>7. OneAtATime'
  <2>1. \A c \in Client \ Boot : ~Unsettled(c)
    BY DEF LifeInv, OneAtATime, Unsettled, TypeOK
  <2> QED BY <1>2, <1>3, <2>1 DEF LifeInv, OneAtATime, Unsettled, Settled
<1>8. RegistryIsBuilt' /\ RejectedIsRetired' /\ ServingIsNotRetired' /\ UnsettledIsNotRetired'
  BY <1>2 DEF LifeInv, RegistryIsBuilt, RejectedIsRetired, ServingIsNotRetired,
              UnsettledIsNotRetired, Settled
<1>9. BootComesFirst' /\ UnsettledReplaces'
  BY <1>2, <1>3 DEF LifeInv, BootComesFirst, UnsettledReplaces, Settled, Unsettled
<1>10. DigestsFollow'
  <2> SUFFICES ASSUME NEW l \in Label, clients[l] # None
               PROVE  digests'[l] = SessionOf[clients[l]]
    BY <1>2, <1>3 DEF DigestsFollow
  <2>1. clients[l] \in Client /\ LabelOf[clients[l]] = l /\ SessionOf[clients[l]] # None
    BY AdmissionAssumption, ReloadAssumption DEF LifeInv, RegistryIsBuilt, TypeOK
  <2>2. digests'[l] = IF l \in activated /\ t.digests[l] # None THEN t.digests[l] ELSE digests[l]
    BY DEF Recorded
  <2>3. CASE l \in activated /\ t.digests[l] # None
    BY <2>2, <2>3 DEF LifeInv, DigestsFollow
  <2>4. CASE l \in activated /\ t.digests[l] = None
    <3>1. clients[l] \notin t.members
      BY <2>1, <2>4 DEF LifeInv, DigestsFollow
    <3>2. \A u \in batches : u = t
      BY DEF LifeInv, OneAtATime
    <3> QED BY <2>2, <2>4, <3>1, <3>2 DEF LifeInv, DigestsFollow
  <2>5. CASE l \notin activated
    BY <2>2, <2>5 DEF LifeInv, DigestsFollow
  <2> QED BY <2>3, <2>4, <2>5
<1> QED BY <1>1, <1>6, <1>7, <1>8, <1>9, <1>10 DEF LifeInv

(* A transaction moves on, and settles nothing.                            *)
LEMMA LifeMoves ==
  ASSUME TypeOK, LifeInv,
         UNCHANGED <<clients, built, previous, retired, phase, batches, seen, digests, activated,
                     call, stopped>>,
         \A c \in Client : \A at \in {"active", "rejected"} : tx'[c] = at <=> tx[c] = at
  PROVE  LifeInv'
<1> USE DEF LifeInv, Settled
<1>1. RegistryIsBuilt' /\ DigestsFollow'
  BY DEF RegistryIsBuilt, DigestsFollow
<1>2. RejectedIsRetired' /\ UnsettledIsNotRetired'
  BY DEF RejectedIsRetired, UnsettledIsNotRetired
<1>3. BootComesFirst'
  BY ReloadAssumption DEF BootComesFirst
<1>4. OneAtATime'
  BY DEF OneAtATime, Unsettled
<1>5. UnsettledReplaces'
  BY DEF UnsettledReplaces, Unsettled, TypeOK
<1>6. ServingIsNotRetired'
  BY DEF ServingIsNotRetired, TypeOK
<1> QED BY <1>1, <1>2, <1>3, <1>4, <1>5, <1>6

LEMMA ConnectsInv ==
  ASSUME ReloadInv, NEW c \in Client, Connects(c)
  PROVE  ReloadInv'
<1> USE DEF ReloadInv, Connects, Advance, registryVars
<1>1. AdmissionInv'
  BY AdmissionUnchanged
<1>2. /\ tx'[c] = "authorizing" /\ tx[c] = "connecting"
      /\ \A d \in Client : d # c => tx'[d] = tx[d]
  BY DEF TypeOK
<1>3. TypeOK'
  BY <1>1 DEF TypeOK, AdmissionInv, TxState
<1>4. UNCHANGED <<acq, forgotten, active, pending, stopped>>
  BY DEF admissionVars, leaseVars
<1>5. LifeInv'
  BY <1>2, <1>4, LifeMoves
<1>6. LeaseInv'
  BY <1>2, <1>4 DEF LeaseInv, UnbuiltIsUntouched, ClaimsFollowTx, ForgottenIsRetired,
     LeasesAreOfTheRegistry, PendingIsClaiming, Unsettled, Settled
<1>7. HasLease(c)
  BY <1>2, ClaimedHasLease DEF LifeInv, UnsettledIsNotRetired, Settled
<1>8. RegistryIsCovered' /\ CallsAreCovered'
  BY <1>4 DEF CoverInv, RegistryIsCovered, CallsAreCovered, Covered, HasLease
<1>9. SocketsAreCovered'
  <2>1. \A d \in Client : HasLease(d)' = HasLease(d)
    BY <1>4 DEF HasLease
  <2>2. socket' \subseteq Client /\ socket' = socket \cup {c}
    BY DEF TypeOK
  <2>3. phase # "stopped" => \A d \in socket' \ retired : HasLease(d)'
    BY <1>7, <2>1, <2>2 DEF CoverInv, SocketsAreCovered
  <2>4. \A d \in socket' \cap Boot : tx'[d] \notin {"none", "claiming", "connecting"}
    BY <1>2, <2>2 DEF CoverInv, SocketsAreCovered
  <2> QED BY <2>3, <2>4 DEF SocketsAreCovered
<1> QED BY <1>1, <1>3, <1>5, <1>6, <1>8, <1>9 DEF CoverInv

LEMMA BootClientIsRegistered ==
  ASSUME ReloadInv, NEW c \in Boot, ~Settled(c)
  PROVE  /\ phase = "starting"
         /\ c \in Client
         /\ clients[LabelOf[c]] = c
BY ReloadAssumption
   DEF ReloadInv, LifeInv, BootComesFirst, UnsettledReplaces, Unsettled, TypeOK

LEMMA BootActivateInv ==
  ASSUME ReloadInv, NEW c \in Client, BootActivate(c)
  PROVE  ReloadInv'
<1> USE DEF BootActivate, Advance, registryVars
<1>1. AdmissionInv'
  BY AdmissionUnchanged DEF ReloadInv
<1>2. /\ tx'[c] = "active" /\ tx[c] = "authorizing"
      /\ \A d \in Client : d # c => tx'[d] = tx[d]
  BY DEF ReloadInv, TypeOK
<1>3. TypeOK'
  BY <1>1 DEF ReloadInv, TypeOK, AdmissionInv, TxState
<1>4. UNCHANGED <<acq, forgotten, active, pending, stopped>>
  BY DEF admissionVars, leaseVars
<1>5. phase = "starting" /\ clients[LabelOf[c]] = c /\ c \notin retired
  BY <1>2, BootClientIsRegistered DEF ReloadInv, LifeInv, UnsettledIsNotRetired, Settled
<1>6. LifeInv'
  <2> USE DEF ReloadInv, LifeInv
  <2>1. RegistryIsBuilt' /\ DigestsFollow'
    BY DEF RegistryIsBuilt, DigestsFollow
  <2>2. RejectedIsRetired' /\ UnsettledIsNotRetired' /\ ServingIsNotRetired'
    BY <1>2, <1>5 DEF RejectedIsRetired, UnsettledIsNotRetired, ServingIsNotRetired, Settled, TypeOK
  <2>3. BootComesFirst'
    BY <1>2, <1>4, <1>5 DEF BootComesFirst, Settled
  <2>4. OneAtATime'
    BY <1>2 DEF OneAtATime, Unsettled, Settled
  <2>5. UnsettledReplaces'
    BY <1>2 DEF UnsettledReplaces, Unsettled, Settled, TypeOK
  <2> QED BY <2>1, <2>2, <2>3, <2>4, <2>5
<1>7. LeaseInv'
  <2> USE DEF ReloadInv, LeaseInv
  <2>1. UnbuiltIsUntouched' /\ ClaimsFollowTx' /\ ForgottenIsRetired' /\ PendingIsClaiming'
    BY <1>2, <1>4 DEF UnbuiltIsUntouched, ClaimsFollowTx, ForgottenIsRetired, PendingIsClaiming
  <2>2. \A l \in Label : active[l] # None /\ ClientOf(active[l]) = c => clients[l] = c
    BY <1>5 DEF AdmissionInv, ServingIsNotForgotten, LabelOfLease
  <2>3. LeasesAreOfTheRegistry'
    BY <1>2, <1>4, <2>2 DEF LeasesAreOfTheRegistry, Unsettled, Settled
  <2> QED BY <2>1, <2>3
<1>8. CoverInv'
  BY <1>2, <1>4 DEF ReloadInv, CoverInv, RegistryIsCovered, CallsAreCovered, SocketsAreCovered, Covered, HasLease
<1> QED BY <1>1, <1>3, <1>6, <1>7, <1>8 DEF ReloadInv

LEMMA BootDoneInv ==
  ASSUME ReloadInv, BootDone
  PROVE  ReloadInv'
<1> USE DEF ReloadInv, BootDone
<1>1. AdmissionInv' /\ LeaseInv'
  BY AdmissionUnchanged, LeaseUnchanged DEF admissionVars, leaseVars
<1>2. TypeOK'
  BY <1>1 DEF TypeOK, AdmissionInv
<1>3. UNCHANGED <<acq, forgotten, pending, stopped>>
  BY DEF admissionVars, leaseVars
<1>4. LifeInv'
  <2>1. BootComesFirst'
    BY <1>3 DEF LifeInv, BootComesFirst, Settled
  <2>2. OneAtATime' /\ UnsettledReplaces' /\ DigestsFollow'
    BY DEF LifeInv, OneAtATime, UnsettledReplaces, DigestsFollow, Unsettled, Settled
  <2>3. RegistryIsBuilt' /\ RejectedIsRetired' /\ ServingIsNotRetired' /\ UnsettledIsNotRetired'
    BY DEF LifeInv, RegistryIsBuilt, RejectedIsRetired, ServingIsNotRetired,
           UnsettledIsNotRetired, Settled
  <2> QED BY <2>1, <2>2, <2>3 DEF LifeInv
<1>5. RegistryIsCovered'
  <2> SUFFICES ASSUME phase' = "serving", NEW l \in Label, clients[l] # None
               PROVE  clients[l] \in retired \/ HasLease(clients[l])
    BY <1>3 DEF RegistryIsCovered, Covered, HasLease
  <2>1. clients[l] \in Boot /\ clients[l] \in Client /\ tx[clients[l]] = "active"
    BY DEF LifeInv, RegistryIsBuilt, BootComesFirst, TypeOK
  <2> QED BY <2>1, ClaimedHasLease
<1>6. CallsAreCovered' /\ SocketsAreCovered'
  BY <1>3 DEF CoverInv, CallsAreCovered, SocketsAreCovered, Covered, HasLease
<1> QED BY <1>1, <1>2, <1>4, <1>5, <1>6 DEF CoverInv

LEMMA DisconnectsInv ==
  ASSUME ReloadInv, NEW c \in Client, Disconnects(c)
  PROVE  ReloadInv'
<1> USE DEF ReloadInv, Disconnects, registryVars
<1>1. AdmissionInv' /\ LeaseInv'
  BY AdmissionUnchanged, LeaseUnchanged DEF admissionVars, leaseVars
<1>2. TypeOK'
  BY <1>1 DEF TypeOK, AdmissionInv, DiscState
<1>3. UNCHANGED <<acq, forgotten, pending, stopped>>
  BY DEF admissionVars, leaseVars
<1>4. LifeInv'
  BY <1>3, LifeMoves
<1>5. CoverInv'
  BY <1>3 DEF CoverInv, RegistryIsCovered, CallsAreCovered, SocketsAreCovered, Covered, HasLease
<1> QED BY <1>1, <1>2, <1>4, <1>5

(* A tool call moves on over a lease store that stands still.              *)
LEMMA CallMoves ==
  ASSUME ReloadInv, UNCHANGED <<admissionVars, callUnchanged>>,
         phase = "serving",
         call' \in [Call -> CallState],
         \A k \in Call : LET c == call'[k].client IN
           call'[k] # Idle =>
             /\ c \in built
             /\ call'[k].pc = "called" => Covered(c)
             /\ call'[k].pc \in {"reconnecting", "opening"} => c \in retired \/ HasLease(c),
         socket' \in SUBSET Client,
         \A c \in socket' \ socket : c \in retired \/ HasLease(c)
  PROVE  ReloadInv'
<1> USE DEF ReloadInv, callUnchanged
<1>1. AdmissionInv' /\ LeaseInv'
  BY AdmissionUnchanged, LeaseUnchanged DEF admissionVars, leaseVars
<1>2. TypeOK'
  BY <1>1 DEF TypeOK, AdmissionInv
<1>3. UNCHANGED <<acq, forgotten, pending, stopped>>
  BY DEF admissionVars, leaseVars
<1>4. LifeInv'
  <2>1. BootComesFirst'
    BY <1>3 DEF LifeInv, BootComesFirst, Settled
  <2>2. OneAtATime' /\ UnsettledReplaces' /\ DigestsFollow'
    BY DEF LifeInv, OneAtATime, UnsettledReplaces, DigestsFollow, Unsettled, Settled
  <2>3. RegistryIsBuilt' /\ RejectedIsRetired' /\ ServingIsNotRetired' /\ UnsettledIsNotRetired'
    BY DEF LifeInv, RegistryIsBuilt, RejectedIsRetired, ServingIsNotRetired,
           UnsettledIsNotRetired, Settled
  <2> QED BY <2>1, <2>2, <2>3 DEF LifeInv
<1>5. RegistryIsCovered'
  BY <1>3 DEF CoverInv, RegistryIsCovered, Covered, HasLease
<1>6. CallsAreCovered'
  BY <1>3 DEF CallsAreCovered, Covered, HasLease
<1>7. SocketsAreCovered'
  <2>1. \A c \in Boot : tx[c] = "active"
    BY DEF LifeInv, BootComesFirst
  <2> QED BY <1>3, <2>1 DEF CoverInv, SocketsAreCovered, HasLease
<1> QED BY <1>1, <1>2, <1>4, <1>5, <1>6, <1>7 DEF CoverInv

(* What the invariant says of a call that is under way.                    *)
LEMMA CallFacts ==
  ASSUME ReloadInv, NEW k \in Call, call[k] # Idle
  PROVE  /\ phase = "serving"
         /\ ~stopped
         /\ call[k].client \in built
         /\ call[k].client \in Client
         /\ call[k].pc = "called" => Covered(call[k].client)
         /\ call[k].pc \in {"reconnecting", "opening"} =>
              call[k].client \in retired \/ HasLease(call[k].client)
         /\ \A p \in {"called", "admitting", "reconnecting", "opening"} :
              [call EXCEPT ![k].pc = p] \in [Call -> CallState]
         /\ [call EXCEPT ![k] = Idle] \in [Call -> CallState]
BY DEF ReloadInv, LifeInv, BootComesFirst, CoverInv, CallsAreCovered, TypeOK, CallState, Idle

LEMMA CallBeginsInv ==
  ASSUME ReloadInv, NEW k \in Call, CallBegins(k)
  PROVE  ReloadInv'
<1>1. PICK l \in Label : /\ clients[l] # None
                         /\ call' = [call EXCEPT ![k] = [pc |-> "called", client |-> clients[l]]]
  BY DEF CallBegins
<1>2. phase = "serving" /\ UNCHANGED <<admissionVars, callUnchanged, socket>>
  BY DEF CallBegins, callUnchanged
<1>3. clients[l] \in Client /\ clients[l] \in built /\ Covered(clients[l])
  BY <1>1, <1>2 DEF ReloadInv, TypeOK, LifeInv, RegistryIsBuilt, CoverInv, RegistryIsCovered
<1>4. call' \in [Call -> CallState]
  BY <1>1, <1>3 DEF ReloadInv, TypeOK, CallState
<1>5. \A j \in Call : LET c == call'[j].client IN
        call'[j] # Idle =>
          /\ c \in built
          /\ call'[j].pc = "called" => Covered(c)
          /\ call'[j].pc \in {"reconnecting", "opening"} => c \in retired \/ HasLease(c)
  BY <1>1, <1>3 DEF ReloadInv, TypeOK, CoverInv, CallsAreCovered
<1> QED BY <1>2, <1>4, <1>5, CallMoves DEF ReloadInv, TypeOK

LEMMA EnsureConnectedInv ==
  ASSUME ReloadInv, NEW k \in Call, EnsureConnected(k)
  PROVE  ReloadInv'
<1> DEFINE c == call[k].client
<1>0. call[k] # Idle /\ call[k].pc = "called" /\ UNCHANGED <<callUnchanged, socket>>
  BY DEF EnsureConnected, Idle
<1>1. c \in built /\ c \in Client /\ Covered(c) /\ phase = "serving" /\ ~stopped
  BY <1>0, CallFacts
(* Whichever way the call goes, it is not yet due to connect anything it   *)
(* may not.                                                                *)
<1>2. /\ call' \in [Call -> CallState]
      /\ \A j \in Call : LET d == call'[j].client IN
           call'[j] # Idle =>
             /\ d \in built
             /\ call'[j].pc = "called" => Covered(d)
             /\ call'[j].pc \in {"reconnecting", "opening"} => d \in retired \/ HasLease(d)
  <2>1. \A j \in Call : j # k => call'[j] = call[j]
    BY DEF EnsureConnected, ReloadInv, TypeOK
  <2>2. call' \in [Call -> CallState]
    BY <1>0, CallFacts DEF EnsureConnected
  <2>3. /\ pending[LabelOf[c]] = c => call'[k] = [call[k] EXCEPT !.pc = "admitting"]
        /\ pending[LabelOf[c]] # c => call'[k] \in {Idle, [call[k] EXCEPT !.pc = "reconnecting"]}
    BY DEF EnsureConnected, ReloadInv, TypeOK
  <2>4. call[k] \in CallState
    BY DEF ReloadInv, TypeOK
  <2>5. LET d == call'[k].client IN
           call'[k] # Idle =>
             /\ d \in built
             /\ call'[k].pc = "called" => Covered(d)
             /\ call'[k].pc \in {"reconnecting", "opening"} => d \in retired \/ HasLease(d)
    BY <1>1, <2>3, <2>4 DEF Covered, CallState, Idle
  <2> QED BY <2>1, <2>2, <2>5 DEF ReloadInv, CoverInv, CallsAreCovered
<1>3. CASE UNCHANGED admissionVars
  BY <1>0, <1>1, <1>2, <1>3, CallMoves DEF ReloadInv, TypeOK
<1>4. CASE StartAdmit(c)
  <2> DEFINE h == <<"admit", c>>
  <2>0. h \in Handle /\ h # <<"claim", c>>
    BY <1>1, HandleOf DEF Op
  <2>1. AdmissionInv'
    BY <1>4, <2>0, AcquireMoves DEF StartAdmit, ReloadInv
  <2>2. UNCHANGED <<holder, pending, stopped, leaseVars>>
    BY <1>4 DEF StartAdmit
  <2>3. \A g \in Handle : g # h => acq'[g] = acq[g]
    BY <1>4 DEF StartAdmit, ReloadInv, AdmissionInv, AdmissionTypeOK
  <2>4. acq[h] # "published"
    BY <1>4 DEF StartAdmit
  <2>5. TypeOK'
    BY <1>0, <1>2, <2>1 DEF ReloadInv, TypeOK, AdmissionInv, callUnchanged
  <2>6. LifeInv'
    <3>1. BootComesFirst'
      BY <1>0, <1>1, <2>2 DEF ReloadInv, LifeInv, BootComesFirst, Settled, callUnchanged
    <3>2. OneAtATime' /\ UnsettledReplaces' /\ DigestsFollow'
      BY <1>0 DEF ReloadInv, LifeInv, OneAtATime, UnsettledReplaces, DigestsFollow, Unsettled,
                  Settled, callUnchanged
    <3>3. RegistryIsBuilt' /\ RejectedIsRetired' /\ ServingIsNotRetired' /\ UnsettledIsNotRetired'
      BY <1>0 DEF ReloadInv, LifeInv, RegistryIsBuilt, RejectedIsRetired, ServingIsNotRetired,
             UnsettledIsNotRetired, Settled, callUnchanged
    <3> QED BY <3>1, <3>2, <3>3 DEF LifeInv
  <2>7. LeaseInv'
    <3>1. UnbuiltIsUntouched'
      <4> SUFFICES ASSUME NEW d \in Client, d \notin built, NEW op \in Op
                   PROVE  acq'[<<op, d>>] = acq[<<op, d>>]
        BY <1>0 DEF ReloadInv, LeaseInv, UnbuiltIsUntouched, callUnchanged
      <4> QED BY <1>1, <2>3, HandleOf
    <3>2. ClaimsFollowTx'
      <4> SUFFICES ASSUME NEW d \in Client
                   PROVE  acq'[<<"claim", d>>] = acq[<<"claim", d>>]
        BY <1>0 DEF ReloadInv, LeaseInv, ClaimsFollowTx, callUnchanged
      <4> QED BY <2>3, HandleOf DEF Op
    <3>3. ForgottenIsRetired' /\ LeasesAreOfTheRegistry' /\ PendingIsClaiming'
      BY <1>0, <2>2 DEF ReloadInv, LeaseInv, ForgottenIsRetired, LeasesAreOfTheRegistry,
         PendingIsClaiming, Unsettled, Settled, callUnchanged, leaseVars
    <3> QED BY <3>1, <3>2, <3>3 DEF LeaseInv
  <2>8. \A d \in Client : HasLease(d) => HasLease(d)'
    <3> SUFFICES ASSUME NEW d \in Client, NEW op \in Op, acq[<<op, d>>] = "published"
                 PROVE  acq'[<<op, d>>] = "published"
      BY <2>2 DEF HasLease, leaseVars
    <3> QED BY <2>3, <2>4, HandleOf
  <2>9. CoverInv'
    <3>1. RegistryIsCovered'
      BY <1>0, <2>2, <2>8 DEF ReloadInv, TypeOK, CoverInv, RegistryIsCovered, Covered, callUnchanged
    <3>2. CallsAreCovered'
      <4>1. \A d \in Client : Covered(d) => Covered(d)'
        BY <1>0, <2>2, <2>8 DEF Covered, callUnchanged
      <4>2. \A j \in Call : \A d \in Client : call'[j] # Idle /\ call'[j].client = d =>
              /\ d \in built'
              /\ call'[j].pc = "called" => Covered(d)'
              /\ call'[j].pc \in {"reconnecting", "opening"} => d \in retired' \/ HasLease(d)'
        BY <1>0, <1>2, <2>8, <4>1 DEF callUnchanged
      <4>3. \A j \in Call : call'[j] # Idle => call'[j].client \in Client
        BY <1>2 DEF ReloadInv, TypeOK
      <4> QED BY <4>2, <4>3 DEF CallsAreCovered, Covered, HasLease
    <3>3. SocketsAreCovered'
      BY <1>0, <2>8 DEF ReloadInv, TypeOK, CoverInv, SocketsAreCovered, callUnchanged
    <3> QED BY <3>1, <3>2, <3>3 DEF CoverInv
  <2> QED BY <2>1, <2>5, <2>6, <2>7, <2>9 DEF ReloadInv
<1> QED BY <1>3, <1>4 DEF EnsureConnected

LEMMA AdmittedHasLease ==
  ASSUME ReloadInv, phase = "serving", NEW c \in Client, acq[<<"admit", c>>] = "published"
  PROVE  c \in retired \/ HasLease(c)
<1> SUFFICES ASSUME c \notin retired
             PROVE  forgotten[<<"admit", c>>] = 0
  BY DEF HasLease, Op
<1>1. forgotten[<<"admit", c>>] \in Nat
  BY HandleOf DEF Op, ReloadInv, AdmissionInv, AdmissionTypeOK
<1>2. tx[c] # "rejected"
  BY DEF ReloadInv, LifeInv, RejectedIsRetired, BootComesFirst
<1>3. ~(forgotten[<<"admit", c>>] > 0)
  BY <1>2 DEF ReloadInv, LeaseInv, ForgottenIsRetired, Op
<1> QED BY <1>1, <1>3

LEMMA AdmissionSettledInv ==
  ASSUME ReloadInv, NEW k \in Call, AdmissionSettled(k)
  PROVE  ReloadInv'
<1> DEFINE c == call[k].client
           h == <<"admit", c>>
<1>0. /\ call[k] # Idle /\ call[k].pc = "admitting"
      /\ UNCHANGED <<callUnchanged, admissionVars, socket>>
  BY DEF AdmissionSettled, Idle
<1>1. c \in built /\ c \in Client /\ phase = "serving" /\ ~stopped
  BY <1>0, CallFacts
<1>2. acq[h] = "published" => c \in retired \/ HasLease(c)
  BY <1>1, AdmittedHasLease
<1>3. \A j \in Call : j # k => call'[j] = call[j]
  BY DEF AdmissionSettled, ReloadInv, TypeOK
<1>4. call' \in [Call -> CallState]
  BY <1>0, CallFacts DEF AdmissionSettled
<1>5. \/ call'[k] = Idle
      \/ acq[h] = "published" /\ call'[k] = [call[k] EXCEPT !.pc = "reconnecting"]
  BY DEF AdmissionSettled, ReloadInv, TypeOK
<1>6. LET d == call'[k].client IN
        call'[k] # Idle =>
          /\ d \in built
          /\ call'[k].pc = "called" => Covered(d)
          /\ call'[k].pc \in {"reconnecting", "opening"} => d \in retired \/ HasLease(d)
  <2>1. call[k] \in CallState
    BY DEF ReloadInv, TypeOK
  <2> QED BY <1>1, <1>2, <1>5, <2>1 DEF CallState, Idle
<1> QED
  BY <1>0, <1>1, <1>3, <1>4, <1>6, CallMoves DEF ReloadInv, TypeOK, CoverInv, CallsAreCovered

LEMMA ReconnectsInv ==
  ASSUME ReloadInv, NEW k \in Call, ReconnectCloses(k) \/ ReconnectOpens(k)
  PROVE  ReloadInv'
<1> DEFINE c == call[k].client
<1>0. /\ call[k] # Idle /\ call[k].pc \in {"reconnecting", "opening"}
      /\ UNCHANGED <<callUnchanged, admissionVars>>
  BY DEF ReconnectCloses, ReconnectOpens, Idle
<1>1. c \in built /\ c \in Client /\ phase = "serving" /\ (c \in retired \/ HasLease(c))
  BY <1>0, CallFacts
<1>2. \A j \in Call : j # k => call'[j] = call[j]
  BY DEF ReconnectCloses, ReconnectOpens, ReloadInv, TypeOK
<1>3. call' \in [Call -> CallState]
  BY <1>0, CallFacts DEF ReconnectCloses, ReconnectOpens
<1>4. call'[k] \in {Idle, [call[k] EXCEPT !.pc = "opening"]}
  BY DEF ReconnectCloses, ReconnectOpens, ReloadInv, TypeOK
<1>5. LET d == call'[k].client IN
        call'[k] # Idle =>
          /\ d \in built
          /\ call'[k].pc = "called" => Covered(d)
          /\ call'[k].pc \in {"reconnecting", "opening"} => d \in retired \/ HasLease(d)
  <2>1. call[k] \in CallState
    BY DEF ReloadInv, TypeOK
  <2> QED BY <1>1, <1>4, <2>1 DEF CallState, Idle
<1>6. socket' \in SUBSET Client /\ socket' \ socket \subseteq {c}
  BY <1>1 DEF ReconnectCloses, ReconnectOpens, ReloadInv, TypeOK
<1> QED
  BY <1>0, <1>1, <1>2, <1>3, <1>5, <1>6, CallMoves DEF ReloadInv, CoverInv, CallsAreCovered

LEMMA StopInv ==
  ASSUME ReloadInv, Stop
  PROVE  ReloadInv'
<1> USE DEF ReloadInv, Stop
<1>1. AdmissionInv' /\ LeaseInv'
  BY AdmissionUnchanged, LeaseUnchanged DEF admissionVars, leaseVars
<1>2. TypeOK'
  BY <1>1 DEF TypeOK, AdmissionInv, DiscState, CallState, Idle
<1>3. UNCHANGED <<acq, forgotten, pending, stopped>>
  BY DEF admissionVars, leaseVars
<1>4. LifeInv'
  <2>1. BootComesFirst'
    BY <1>3 DEF LifeInv, BootComesFirst, Settled
  <2>2. OneAtATime' /\ UnsettledReplaces' /\ DigestsFollow'
    BY DEF LifeInv, OneAtATime, UnsettledReplaces, DigestsFollow, Unsettled, Settled
  <2>3. RegistryIsBuilt' /\ RejectedIsRetired' /\ ServingIsNotRetired' /\ UnsettledIsNotRetired'
    BY DEF LifeInv, RegistryIsBuilt, RejectedIsRetired, ServingIsNotRetired,
           UnsettledIsNotRetired, Settled
  <2> QED BY <2>1, <2>2, <2>3 DEF LifeInv
<1>5. CoverInv'
  BY DEF CoverInv, RegistryIsCovered, CallsAreCovered, SocketsAreCovered
<1> QED BY <1>1, <1>2, <1>4, <1>5

(* Whatever a step does to the transactions, calls and sockets stay        *)
(* covered as long as leases are lost by retirement only.                  *)
LEMMA CoverMoves ==
  ASSUME ReloadInv, TypeOK', UNCHANGED <<phase, call, socket>>,
         built \subseteq built', retired \subseteq retired',
         \A c \in Client : HasLease(c) =>
           HasLease(c)' \/ c \in retired' \/ (c \notin socket /\ phase = "starting"),
         phase = "serving" => \A c \in Client :
           pending[LabelOf[c]] = c => pending'[LabelOf[c]] = c \/ c \in retired' \/ HasLease(c)',
         phase = "serving" => \A l \in Label : \A c \in Client :
           clients'[l] = c => clients[l] = c \/ pending'[LabelOf[c]] = c \/ HasLease(c)',
         \A c \in socket \cap Boot : tx'[c] = tx[c] \/ tx'[c] \notin {"none", "claiming", "connecting"}
  PROVE  CoverInv'
<1> USE DEF ReloadInv, CoverInv
<1>1. phase = "serving" => \A c \in Client : Covered(c) => Covered(c)'
  BY DEF Covered
<1>2. RegistryIsCovered'
  <2> SUFFICES ASSUME phase = "serving"
               PROVE  \A l \in Label : \A c \in Client : clients'[l] = c => Covered(c)'
    BY DEF RegistryIsCovered, TypeOK, Covered, HasLease
  <2> SUFFICES ASSUME NEW l \in Label, NEW c \in Client, clients'[l] = c
               PROVE  Covered(c)'
    OBVIOUS
  <2>1. CASE clients[l] = c
    BY <1>1, <2>1, AdmissionAssumption DEF RegistryIsCovered
  <2>2. CASE clients[l] # c
    BY <2>2 DEF Covered
  <2> QED BY <2>1, <2>2
<1>3. CallsAreCovered'
  <2> SUFFICES ASSUME NEW k \in Call, call[k] # Idle
               PROVE  LET c == call[k].client IN
                        /\ c \in built'
                        /\ call[k].pc = "called" => Covered(c)'
                        /\ call[k].pc \in {"reconnecting", "opening"} => c \in retired' \/ HasLease(c)'
    BY DEF CallsAreCovered
  <2>1. phase = "serving" /\ call[k].client \in Client
    BY CallFacts
  <2> QED BY <1>1, <2>1 DEF CallsAreCovered
<1>4. SocketsAreCovered'
  BY DEF SocketsAreCovered, TypeOK
<1> QED BY <1>2, <1>3, <1>4

LEMMA BootClaimsInv ==
  ASSUME ReloadInv, NEW c \in Client, BootClaims(c)
  PROVE  ReloadInv'
<1> DEFINE h == <<"claim", c>>
<1> USE DEF ReloadInv, BootClaims, Advance, StartClaim, registryVars
<1>0. h \in Handle /\ \A op \in Op : \A d \in Client : <<op, d>> \in Handle /\ (d # c => <<op, d>> # h)
  BY HandleOf DEF Op
<1>1. AdmissionInv'
  BY <1>0, AcquireMoves
<1>2. /\ tx'[c] = "claiming" /\ tx[c] = "none" /\ c \in Boot /\ c \in built
      /\ \A d \in Client : d # c => tx'[d] = tx[d]
  BY DEF TypeOK, LifeInv, BootComesFirst
<1>3. /\ acq'[h] = "acquiring" /\ acq[h] = "idle"
      /\ \A g \in Handle : g # h => acq'[g] = acq[g]
  BY <1>0 DEF AdmissionInv, AdmissionTypeOK
<1>4. UNCHANGED <<forgotten, active, pending, stopped>>
  BY DEF leaseVars
<1>5. TypeOK'
  BY <1>1 DEF TypeOK, AdmissionInv, TxState
<1>6. LifeInv'
  BY <1>2, <1>4, LifeMoves
<1>7. LeaseInv'
  <2>1. UnbuiltIsUntouched'
    BY <1>0, <1>2, <1>3 DEF LeaseInv, UnbuiltIsUntouched
  <2>2. ClaimsFollowTx'
    BY <1>0, <1>2, <1>3 DEF LeaseInv, ClaimsFollowTx, Op
  <2>3. ForgottenIsRetired' /\ LeasesAreOfTheRegistry' /\ PendingIsClaiming'
    BY <1>2, <1>4 DEF LeaseInv, ForgottenIsRetired, LeasesAreOfTheRegistry, PendingIsClaiming,
       Unsettled, Settled
  <2> QED BY <2>1, <2>2, <2>3 DEF LeaseInv
<1>8. \A d \in Client : HasLease(d) => HasLease(d)'
  BY <1>0, <1>3, <1>4 DEF HasLease
<1>9. \A d \in socket \cap Boot : tx'[d] = tx[d]
  BY <1>2 DEF CoverInv, SocketsAreCovered, TypeOK
<1>10. CoverInv'
  BY <1>4, <1>5, <1>8, <1>9, CoverMoves
<1> QED BY <1>1, <1>5, <1>6, <1>7, <1>10

LEMMA ClaimDoneInv ==
  ASSUME ReloadInv, NEW c \in Client, ClaimDone(c)
  PROVE  ReloadInv'
<1> USE DEF ReloadInv, ClaimDone, Advance, registryVars
<1>1. /\ UNCHANGED <<holder, acq, stopped, leaseVars>>
      /\ UNCHANGED <<forgotten, active>>
  BY DEF ClaimReturns, admissionVars, leaseVars
<1>2. /\ \A l \in Label : pending'[l] \in {pending[l], None}
      /\ pending' \in [Label -> Client \cup {None}]
      /\ pending'[LabelOf[c]] # c
      /\ \A l \in Label : l # LabelOf[c] => pending'[l] = pending[l]
  BY AdmissionAssumption DEF ClaimReturns, admissionVars, AdmissionInv, AdmissionTypeOK
<1>3. AdmissionInv'
  BY <1>1, <1>2, PendingMoves
<1>4. /\ tx'[c] = "connecting" /\ tx[c] = "claiming" /\ acq[<<"claim", c>>] = "published"
      /\ \A d \in Client : d # c => tx'[d] = tx[d]
  BY DEF TypeOK
<1>5. TypeOK'
  BY <1>3 DEF TypeOK, AdmissionInv, TxState
<1>6. LifeInv'
  BY <1>1, <1>4, LifeMoves
<1>7. LeaseInv'
  <2>1. UnbuiltIsUntouched' /\ ClaimsFollowTx' /\ ForgottenIsRetired'
    BY <1>1, <1>4 DEF LeaseInv, UnbuiltIsUntouched, ClaimsFollowTx, ForgottenIsRetired
  <2>2. LeasesAreOfTheRegistry'
    BY <1>1, <1>4 DEF LeaseInv, LeasesAreOfTheRegistry, Unsettled, Settled
  <2>3. \A l \in Label : pending'[l] # None => pending'[l] # c
    BY <1>2 DEF LeaseInv, PendingIsClaiming, LifeInv, RegistryIsBuilt
  <2>4. PendingIsClaiming'
    BY <1>2, <1>4, <2>3 DEF LeaseInv, PendingIsClaiming, AdmissionInv, AdmissionTypeOK
  <2> QED BY <2>1, <2>2, <2>4 DEF LeaseInv
<1>8. HasLease(c)
  BY <1>4, ClaimHasLease DEF LifeInv, UnsettledIsNotRetired, Settled
<1>9. \A d \in Client : HasLease(d)' = HasLease(d)
  BY <1>1 DEF HasLease
<1>10. \A d \in socket \cap Boot : tx'[d] = tx[d]
  BY <1>4 DEF CoverInv, SocketsAreCovered, TypeOK
<1>11. CoverInv'
  <2>1. \A d \in Client : pending[LabelOf[d]] = d => pending'[LabelOf[d]] = d \/ d = c
    BY <1>2, AdmissionAssumption DEF ClaimReturns, admissionVars, AdmissionInv, AdmissionTypeOK
  <2> QED BY <1>5, <1>8, <1>9, <1>10, <2>1, CoverMoves
<1> QED BY <1>3, <1>5, <1>6, <1>7, <1>11

LEMMA ForgetFacts ==
  ASSUME AdmissionInv, NEW c \in Client, NEW open, RetireLeases({c}, open)
  PROVE  /\ \A d \in Client : \A op \in Op : d # c => forgotten'[<<op, d>>] = forgotten[<<op, d>>]
         /\ \A l \in Label : /\ active'[l] \in {active[l], None}
                             /\ active[l] # None /\ ClientOf(active[l]) = c => active'[l] = None
<1> DEFINE cs == {c}
<1>1. cs \in SUBSET Client /\ RetireLeases(cs, open)
  OBVIOUS
<1>2. \A d \in Client : d # c => d \notin cs
  OBVIOUS
<1>3. c \in cs
  OBVIOUS
<1> HIDE DEF cs
<1> QED BY <1>1, <1>2, <1>3, RetireFacts

(* An admission is over: the registry stands, at most its own client       *)
(* retires.                                                                *)
LEMMA LifeSettles ==
  ASSUME ReloadInv, NEW c \in Client,
         UNCHANGED <<clients, built, previous, phase, batches, seen, digests, activated, call, stopped>>,
         ~Settled(c), tx' = [tx EXCEPT ![c] = "rejected"],
         retired' \in {retired, retired \cup {c}},
         c \notin Boot => c \in retired',
         c \in Boot => phase = "starting"
  PROVE  LifeInv'
<1> USE DEF ReloadInv, LifeInv
<1>1. tx'[c] = "rejected" /\ \A d \in Client : d # c => tx'[d] = tx[d]
  BY DEF TypeOK
<1>2. RegistryIsBuilt' /\ DigestsFollow'
  BY DEF RegistryIsBuilt, DigestsFollow
<1>3. RejectedIsRetired' /\ UnsettledIsNotRetired' /\ ServingIsNotRetired'
  BY <1>1 DEF RejectedIsRetired, UnsettledIsNotRetired, ServingIsNotRetired, Settled, TypeOK
<1>4. BootComesFirst'
  BY <1>1, ReloadAssumption DEF BootComesFirst, Settled
<1>5. OneAtATime'
  BY <1>1 DEF OneAtATime, Unsettled, Settled
<1>6. UnsettledReplaces'
  BY <1>1 DEF UnsettledReplaces, Unsettled, Settled, TypeOK
<1> QED BY <1>2, <1>3, <1>4, <1>5, <1>6

LEMMA RejectInv ==
  ASSUME ReloadInv, NEW c \in Client, Reject(c)
  PROVE  ReloadInv'
<1> USE DEF ReloadInv, registryVars
<1>0. /\ c \notin Boot
      /\ tx' = [tx EXCEPT ![c] = "rejected"]
      /\ ~Settled(c) /\ Unsettled(c)
      /\ retired' = retired \cup {c}
      /\ RetireLeases({c}, {c})
      /\ pending' = [pending EXCEPT ![LabelOf[c]] = None]
      /\ UNCHANGED <<acq, stopped>>
      /\ UNCHANGED <<clients, built, previous, phase, batches, seen, digests, activated, call, socket>>
  BY DEF Reject, Retire, Forget, Unsettled, Settled, LeaseInv, UnbuiltIsUntouched
<1>1. AdmissionInv'
  <2>1. pending' \in [Label -> Client \cup {None}] /\ acq \in [Handle -> AcqState]
    BY <1>0, AdmissionAssumption DEF AdmissionInv, AdmissionTypeOK
  <2> QED BY <1>0, <2>1, RetireLeasesInv
<1>2. tx'[c] = "rejected" /\ \A d \in Client : d # c => tx'[d] = tx[d]
  BY <1>0 DEF TypeOK
<1>3. TypeOK'
  BY <1>1 DEF Reject, Retire, TypeOK, AdmissionInv, TxState, DiscState
<1>4. LifeInv'
  BY <1>0, LifeSettles
<1>5. /\ \A d \in Client : \A op \in Op : d # c => forgotten'[<<op, d>>] = forgotten[<<op, d>>]
      /\ \A l \in Label : /\ active'[l] \in {active[l], None}
                          /\ active[l] # None /\ ClientOf(active[l]) = c => active'[l] = None
  BY <1>0, ForgetFacts
<1>6. /\ pending'[LabelOf[c]] = None
      /\ \A l \in Label : l # LabelOf[c] => pending'[l] = pending[l]
  BY <1>0, AdmissionAssumption DEF AdmissionInv, AdmissionTypeOK
<1>7. LeaseInv'
  <2>1. UnbuiltIsUntouched' /\ ClaimsFollowTx' /\ ForgottenIsRetired'
    <3>1. acq[<<"claim", c>>] \notin {"acquiring", "acquired"}
      BY DEF Reject, LeaseInv, ClaimsFollowTx
    <3>2. UnbuiltIsUntouched' /\ ForgottenIsRetired'
      BY <1>0, <1>2, <1>5 DEF LeaseInv, UnbuiltIsUntouched, ForgottenIsRetired, Unsettled
    <3>3. ClaimsFollowTx'
      BY <1>0, <1>2, <3>1 DEF LeaseInv, ClaimsFollowTx
    <3> QED BY <3>2, <3>3
  <2>2. LeasesAreOfTheRegistry'
    BY <1>0, <1>2, <1>5 DEF LeaseInv, LeasesAreOfTheRegistry, Unsettled, Settled
  <2>3. PendingIsClaiming'
    BY <1>0, <1>2, <1>6 DEF LeaseInv, PendingIsClaiming, LifeInv, RegistryIsBuilt, AdmissionInv,
       AdmissionTypeOK
  <2> QED BY <2>1, <2>2, <2>3 DEF LeaseInv
<1>8. CoverInv'
  <2>1. \A d \in Client : HasLease(d) => HasLease(d)' \/ d \in retired'
    BY <1>0, <1>5 DEF HasLease
  <2>2. \A d \in Client : pending[LabelOf[d]] = d => pending'[LabelOf[d]] = d \/ d \in retired'
    <3> SUFFICES ASSUME NEW d \in Client, pending[LabelOf[d]] = d, LabelOf[d] = LabelOf[c]
                 PROVE  d = c
      BY <1>0, <1>6, AdmissionAssumption
    <3>1. Unsettled(d)
      BY AdmissionAssumption DEF LeaseInv, PendingIsClaiming, LifeInv, RegistryIsBuilt, Unsettled, Settled
    <3> QED BY <1>0, <3>1 DEF LifeInv, OneAtATime
  <2>3. \A d \in socket \cap Boot : tx'[d] = tx[d]
    BY <1>0, <1>2 DEF TypeOK
  <2> QED BY <1>0, <1>3, <2>1, <2>2, <2>3, CoverMoves
<1> QED BY <1>1, <1>3, <1>4, <1>7, <1>8

LEMMA BootRejectInv ==
  ASSUME ReloadInv, NEW c \in Client, BootReject(c)
  PROVE  ReloadInv'
<1> USE DEF ReloadInv, registryVars
<1>0. /\ c \in Boot
      /\ tx' = [tx EXCEPT ![c] = "rejected"]
      /\ ~Settled(c) /\ Unsettled(c)
      /\ UNCHANGED <<clients, built, previous, phase, batches, seen, digests, activated, call>>
  BY DEF BootReject, Unsettled, Settled, LeaseInv, UnbuiltIsUntouched
<1>a. phase = "starting" /\ clients[LabelOf[c]] = c
  BY <1>0, BootClientIsRegistered
(* Its lease is left alone, or forgotten with or without a close.          *)
<1>b. UNCHANGED <<acq, stopped, socket>> /\ retired' \in {retired, retired \cup {c}}
  BY DEF BootReject, Retire, Forget, admissionVars
<1>c. \/ UNCHANGED admissionVars
      \/ /\ \E closes \in BOOLEAN : RetireLeases({c}, IF closes THEN {c} ELSE {})
         /\ pending' = [pending EXCEPT ![LabelOf[c]] = None]
         /\ c \in retired' \/ tx[c] = "connecting"
  BY DEF BootReject, Retire, Forget
<1>1. AdmissionInv'
  <2>1. CASE UNCHANGED admissionVars
    BY <2>1, AdmissionUnchanged
  <2>2. CASE ~UNCHANGED admissionVars
    <3>1. pending' \in [Label -> Client \cup {None}] /\ acq \in [Handle -> AcqState]
      BY <1>c, <2>2, AdmissionAssumption DEF AdmissionInv, AdmissionTypeOK
    <3> QED BY <1>b, <1>c, <2>2, <3>1, RetireLeasesInv
  <2> QED BY <2>1, <2>2
<1>2. tx'[c] = "rejected" /\ \A d \in Client : d # c => tx'[d] = tx[d]
  BY <1>0 DEF TypeOK
<1>3. TypeOK'
  <2>1. disc' \in [Client -> DiscState] /\ retired' \in SUBSET Client
    BY DEF BootReject, Retire, TypeOK, DiscState
  <2> QED BY <1>1, <1>b, <2>1 DEF BootReject, TypeOK, AdmissionInv, TxState
<1>4. LifeInv'
  BY <1>0, <1>a, <1>b, LifeSettles
<1>5. /\ \A d \in Client : \A op \in Op : d # c => forgotten'[<<op, d>>] = forgotten[<<op, d>>]
      /\ \A l \in Label : active'[l] \in {active[l], None}
  <2>1. CASE UNCHANGED admissionVars
    BY <2>1 DEF admissionVars, leaseVars
  <2>2. CASE ~UNCHANGED admissionVars
    <3>1. PICK closes \in BOOLEAN : RetireLeases({c}, IF closes THEN {c} ELSE {})
      BY <1>c, <2>2
    <3> QED BY <3>1, ForgetFacts
  <2> QED BY <2>1, <2>2
<1>6. \A l \in Label : pending'[l] \in {pending[l], None}
  BY <1>c DEF admissionVars, AdmissionInv, AdmissionTypeOK
<1>7. LeaseInv'
  <2>1. acq[<<"claim", c>>] \notin {"acquiring", "acquired"}
    BY DEF BootReject, LeaseInv, ClaimsFollowTx
  <2>2. UnbuiltIsUntouched' /\ ForgottenIsRetired'
    BY <1>0, <1>b, <1>2, <1>5 DEF LeaseInv, UnbuiltIsUntouched, ForgottenIsRetired, Unsettled
  <2>3. ClaimsFollowTx'
    BY <1>b, <1>2, <2>1 DEF LeaseInv, ClaimsFollowTx
  <2>4. \A l \in Label : active[l] # None /\ ClientOf(active[l]) = c => clients[l] = c
    BY <1>a DEF AdmissionInv, ServingIsNotForgotten, LabelOfLease
  <2>5. LeasesAreOfTheRegistry'
    BY <1>0, <1>2, <1>5, <2>4 DEF LeaseInv, LeasesAreOfTheRegistry, Unsettled, Settled
  <2>6. PendingIsClaiming'
    BY <1>0, <1>2, <1>6 DEF LeaseInv, PendingIsClaiming, AdmissionInv, AdmissionTypeOK
  <2> QED BY <2>2, <2>3, <2>5, <2>6 DEF LeaseInv
<1>8. CoverInv'
  <2>1. tx[c] = "connecting" => c \notin socket
    BY <1>0 DEF CoverInv, SocketsAreCovered
  <2>2. \A d \in Client : HasLease(d) => HasLease(d)' \/ d \in retired' \/ d \notin socket
    <3>1. CASE UNCHANGED admissionVars
      BY <1>b, <3>1 DEF HasLease, admissionVars, leaseVars
    <3>2. CASE ~UNCHANGED admissionVars
      BY <1>b, <1>c, <1>5, <2>1, <3>2 DEF HasLease
    <3> QED BY <3>1, <3>2
  <2>3. \A d \in socket \cap Boot : tx'[d] = tx[d] \/ tx'[d] = "rejected"
    BY <1>2 DEF TypeOK
  <2>4. built \subseteq built' /\ retired \subseteq retired' /\ phase # "serving"
    BY <1>0, <1>a, <1>b
  <2> QED BY <1>0, <1>a, <1>b, <1>3, <2>2, <2>3, <2>4, CoverMoves
<1> QED BY <1>1, <1>3, <1>4, <1>7, <1>8

LEMMA ActivateInv ==
  ASSUME ReloadInv, NEW c \in Client, Activate(c)
  PROVE  ReloadInv'
<1> DEFINE l    == LabelOf[c]
           gone == Predecessor(c)
<1> USE DEF ReloadInv
<1>0. /\ c \notin Boot /\ l \in Label
      /\ tx[c] = "authorizing"
      /\ tx' = [tx EXCEPT ![c] = "active"]
      /\ clients' = [clients EXCEPT ![l] = c]
      /\ activated' = activated \cup {l}
      /\ retired' = retired \cup gone
      /\ RetireLeases(gone, gone)
      /\ pending' = IF gone = {} THEN pending ELSE [pending EXCEPT ![l] = None]
      /\ UNCHANGED <<acq, stopped, built, previous, phase, batches, seen, digests, call, socket>>
  BY AdmissionAssumption DEF Activate, Retire, Advance, registryVars
<1>1. Unsettled(c) /\ c \in built
  BY <1>0 DEF Unsettled, Settled, LeaseInv, UnbuiltIsUntouched
(* The client that goes is the one the label meant until now.              *)
<1>2. /\ gone \in SUBSET Client /\ gone \subseteq built /\ c \notin gone
      /\ \A d \in gone : Settled(d) /\ LabelOf[d] = l
      /\ clients[l] = c \/ clients[l] \in gone
  <2>1. /\ clients[l] = IF previous[c] = None THEN c ELSE previous[c]
        /\ previous[c] # None => Settled(previous[c])
    BY <1>1 DEF LifeInv, UnsettledReplaces
  <2>2. ~Settled(c)
    BY <1>1 DEF Unsettled
  <2> QED BY <1>0, <2>1, <2>2 DEF Predecessor, LifeInv, RegistryIsBuilt, TypeOK
<1>3. pending[l] = None /\ pending' = pending
  <2>1. pending[l] = None
    BY <1>0, <1>2 DEF LeaseInv, PendingIsClaiming, Settled
  <2> QED BY <1>0, <2>1 DEF AdmissionInv, AdmissionTypeOK
<1> HIDE DEF gone
<1>4. tx'[c] = "active" /\ \A d \in Client : d # c => tx'[d] = tx[d]
  BY <1>0 DEF TypeOK
<1>5. clients'[l] = c /\ \A m \in Label : m # l => clients'[m] = clients[m]
  BY <1>0 DEF TypeOK
<1>6. AdmissionInv'
  <2>1. pending' \in [Label -> Client \cup {None}] /\ acq \in [Handle -> AcqState]
    BY <1>3 DEF AdmissionInv, AdmissionTypeOK
  <2> QED BY <1>0, <1>2, <2>1, RetireLeasesInv
<1>7. TypeOK'
  <2>1. disc' \in [Client -> DiscState]
    BY DEF Activate, Retire, TypeOK, DiscState
  <2>2. /\ clients' \in [Label -> Client \cup {None}] /\ tx' \in [Client -> TxState]
        /\ activated' \in SUBSET Label /\ retired' \in SUBSET Client
    BY <1>0, <1>2 DEF TypeOK, TxState
  <2>3. UNCHANGED <<registryVars, handler, socket>>
    BY DEF Activate
  <2> QED BY <1>6, <2>1, <2>2, <2>3 DEF registryVars, TypeOK, AdmissionInv
<1>8. /\ \A d \in Client : \A op \in Op : d \notin gone => forgotten'[<<op, d>>] = forgotten[<<op, d>>]
      /\ \A m \in Label : /\ active'[m] \in {active[m], None}
                          /\ active[m] # None /\ ClientOf(active[m]) \in gone => active'[m] = None
  BY <1>0, <1>2, RetireFacts
<1>9. c \notin retired /\ HasLease(c) /\ acq[<<"claim", c>>] = "published"
  BY <1>0, <1>1, ClaimedHasLease DEF LifeInv, UnsettledIsNotRetired, Unsettled
<1>10. LifeInv'
  <2> USE DEF LifeInv
  <2>1. RegistryIsBuilt' /\ RejectedIsRetired'
    BY <1>0, <1>1, <1>4, <1>5 DEF RegistryIsBuilt, RejectedIsRetired
  <2>2. UnsettledIsNotRetired'
    BY <1>0, <1>2, <1>4 DEF UnsettledIsNotRetired, Settled
  <2>3. BootComesFirst'
    BY <1>0, <1>4, ReloadAssumption DEF BootComesFirst, Settled
  <2>4. OneAtATime'
    BY <1>0, <1>4 DEF OneAtATime, Unsettled, Settled
  <2>5. UnsettledReplaces'
    <3> SUFFICES ASSUME NEW d \in Client, Unsettled(d)'
                 PROVE  /\ clients'[LabelOf[d]] = IF previous[d] = None THEN d ELSE previous[d]
                        /\ previous[d] # None => Settled(previous[d])'
      BY <1>0 DEF UnsettledReplaces
    <3>1. Unsettled(d) /\ d # c
      BY <1>0, <1>4 DEF Unsettled, Settled
    <3>2. LabelOf[d] # l /\ LabelOf[d] \in Label
      BY <1>1, <3>1, AdmissionAssumption DEF OneAtATime
    <3>3. previous[d] # None => Settled(previous[d])'
      BY <1>0, <1>4, <3>1 DEF UnsettledReplaces, Settled, TypeOK
    <3> QED BY <1>5, <3>1, <3>2, <3>3 DEF UnsettledReplaces
  <2>6. DigestsFollow'
    <3>1. PICK t \in batches : c \in t.members
      BY <1>0, <1>1 DEF OneAtATime
    <3>2. \A u \in batches : u = t
      BY DEF OneAtATime
    <3>3. t.digests[l] = SessionOf[c]
      BY <3>1 DEF DigestsFollow
    <3>4. \A m \in Label : clients'[m] # None =>
            \/ digests[m] = SessionOf[clients'[m]]
            \/ m \in activated' /\ \E u \in batches : clients'[m] \in u.members
      BY <1>0, <1>5, <3>1 DEF DigestsFollow
    <3>5. \A u \in batches : \A m \in activated' :
            clients'[m] # None /\ u.digests[m] # None => u.digests[m] = SessionOf[clients'[m]]
      BY <1>0, <1>5, <3>2, <3>3 DEF DigestsFollow, TypeOK
    <3> QED BY <1>0, <3>4, <3>5 DEF DigestsFollow
  <2>7. ServingIsNotRetired'
    <3> SUFFICES ASSUME NEW m \in Label, m # l, clients[m] # None, tx'[clients[m]] = "active"
                 PROVE  clients[m] \notin retired'
      BY <1>0, <1>2, <1>5, <1>9 DEF ServingIsNotRetired
    <3>1. LabelOf[clients[m]] = m /\ clients[m] \in Client
      BY DEF RegistryIsBuilt, TypeOK
    <3> QED BY <1>0, <1>2, <1>4, <3>1 DEF ServingIsNotRetired
  <2> QED BY <2>1, <2>2, <2>3, <2>4, <2>5, <2>6, <2>7
<1>11. LeaseInv'
  <2> USE DEF LeaseInv
  <2>1. UnbuiltIsUntouched' /\ ForgottenIsRetired'
    BY <1>0, <1>1, <1>2, <1>4, <1>8 DEF UnbuiltIsUntouched, ForgottenIsRetired
  <2>2. ClaimsFollowTx'
    BY <1>0, <1>4, <1>9 DEF ClaimsFollowTx
  <2>3. LeasesAreOfTheRegistry'
    <3> SUFFICES ASSUME NEW m \in Label, active'[m] # None
                 PROVE  clients'[m] = ClientOf(active[m]) \/ Unsettled(ClientOf(active[m]))'
      BY <1>8 DEF LeasesAreOfTheRegistry, Unsettled, Settled
    <3>1. /\ active'[m] = active[m] /\ active[m] # None
          /\ ClientOf(active[m]) \notin gone
          /\ ClientOf(active[m]) \in Client
          /\ LabelOf[ClientOf(active[m])] = m
      BY <1>8, HandleFacts DEF AdmissionInv, AdmissionTypeOK, ServingIsNotForgotten, LabelOfLease
    <3>2. CASE m = l
      BY <1>1, <1>2, <1>5, <3>1, <3>2 DEF LeasesAreOfTheRegistry, LifeInv, OneAtATime
    <3>3. CASE m # l
      <4>1. ClientOf(active[m]) # c
        BY <3>1, <3>3
      <4> QED BY <1>0, <1>4, <1>5, <3>1, <3>3, <4>1 DEF LeasesAreOfTheRegistry, Unsettled, Settled
    <3> QED BY <3>2, <3>3
  <2>4. PendingIsClaiming'
    BY <1>0, <1>3, <1>4, <1>5 DEF PendingIsClaiming, AdmissionInv, AdmissionTypeOK
  <2> QED BY <2>1, <2>2, <2>3, <2>4
<1>12. CoverInv'
  <2>1. \A d \in Client : HasLease(d) => HasLease(d)' \/ d \in retired'
    BY <1>0, <1>8 DEF HasLease
  <2>2. HasLease(c)'
    BY <1>0, <1>2, <1>8, <1>9 DEF HasLease
  <2>3. \A m \in Label : \A d \in Client : clients'[m] = d => clients[m] = d \/ HasLease(d)'
    BY <1>5, <2>2
  <2>4. \A d \in socket \cap Boot : tx'[d] = tx[d]
    BY <1>0, <1>4 DEF TypeOK
  <2> QED BY <1>0, <1>3, <1>7, <2>1, <2>3, <2>4, CoverMoves
<1> QED BY <1>6, <1>7, <1>10, <1>11, <1>12

(* A reload that applies the revision b of the file.                       *)
ReloadApplies(b) ==
  /\ phase = "serving" /\ ~seen
  /\ seen' = TRUE
  /\ b \in Builds
  /\ Apply(b)
  /\ overlapped' = (overlapped \/ batches # {})
  /\ UNCHANGED <<stopped, phase, file, edits, socket, call>>

(* When a reload applies, every transaction is over and nobody waits.      *)
LEMMA ReloadFindsQuiet ==
  ASSUME ReloadInv, phase = "serving", batches = {}
  PROVE  /\ \A c \in Client : c \in built => Settled(c)
         /\ \A l \in Label : pending[l] = None
<1>2. \A c \in Client : c \in built => Settled(c)
  BY DEF ReloadInv, LifeInv, OneAtATime, BootComesFirst, Unsettled
<1>3. ASSUME NEW l \in Label, pending[l] # None PROVE FALSE
  <2>1. pending[l] \in Client /\ pending[l] \in built /\ tx[pending[l]] = "claiming"
    BY <1>3 DEF ReloadInv, LeaseInv, PendingIsClaiming, LifeInv, RegistryIsBuilt, AdmissionInv, AdmissionTypeOK
  <2> QED BY <1>2, <2>1 DEF Settled
<1> QED BY <1>2, <1>3

LEMMA ReloadAppliesInv ==
  ASSUME ReloadInv, NEW b, ReloadApplies(b), ~overlapped'
  PROVE  ReloadInv'
<1> DEFINE staged  == {b[l] : l \in Staged}
           removed == {clients[l] : l \in Removed}
           reg     == Registry(b)
           serving == {l \in Label : reg[l] # None}
           replacing == {l \in Staged : clients[l] # None}
<1> USE DEF ReloadInv
<1>1. /\ batches = {}
      /\ \A c \in Client : c \in built => Settled(c)
      /\ \A l \in Label : pending[l] = None
  BY ReloadFindsQuiet DEF ReloadApplies
<1>2. /\ \A l \in Staged : /\ l \in Label /\ l \notin Removed /\ file[l] # None
                           /\ b[l] \in Client /\ b[l] \notin built
                           /\ LabelOf[b[l]] = l /\ SessionOf[b[l]] = file[l]
      /\ \A l \in Removed : l \in Label /\ clients[l] # None /\ file[l] = None
  BY DEF ReloadApplies, Builds, Staged, Removed
<1>3. /\ clients' = reg
      /\ retired' = retired \cup removed
      /\ RetireLeases(removed, removed)
      /\ digests' = Recorded(file, serving \ replacing, reg)
      /\ pending' = AwaitingAfter(b)
      /\ acq' = [h \in Handle |-> IF h[1] = "claim" /\ h[2] \in staged THEN "acquiring" ELSE acq[h]]
      /\ built' = built \cup staged
      /\ tx' = [c \in Client |-> IF c \in staged THEN "claiming" ELSE tx[c]]
      /\ previous' = [c \in Client |-> IF c \in staged THEN clients[LabelOf[c]] ELSE previous[c]]
      /\ activated' = activated \ Staged
      /\ batches' = IF staged = {} THEN {} ELSE {[members |-> staged, digests |-> file]}
      /\ disc' = [c \in Client |-> IF c \in removed THEN "running" ELSE disc[c]]
      /\ overlapped' \in BOOLEAN
      /\ handler' = [l \in Label |-> IF reg[l] # clients[l] THEN reg[l] ELSE handler[l]]
  BY <1>1 DEF ReloadApplies, Apply, Retire, TypeOK
<1>4. phase = "serving" /\ seen' /\ UNCHANGED <<stopped, phase, file, edits, socket, call>>
  BY DEF ReloadApplies
(* Staged clients are fresh, one for a label; removed ones are built.      *)
<1>5. /\ \A c \in staged : /\ c \in Client /\ c \notin built /\ c \notin removed
                           /\ LabelOf[c] \in Staged /\ b[LabelOf[c]] = c
      /\ \A l \in Staged : b[l] \in staged
      /\ \A c \in removed : c \in Client /\ c \in built
      /\ \A l \in Label : clients[l] \in removed => l \in Removed
  <2>1. \A c \in removed : c \in Client /\ c \in built
    BY <1>2 DEF LifeInv, RegistryIsBuilt, TypeOK
  <2>2. ASSUME NEW l \in Label, clients[l] \in removed PROVE l \in Removed
    <3>1. PICK m \in Removed : clients[l] = clients[m]
      BY <2>2
    <3> QED BY <1>2, <3>1 DEF LifeInv, RegistryIsBuilt
  <2>3. \A c \in staged : c \in Client /\ c \notin built /\ LabelOf[c] \in Staged /\ b[LabelOf[c]] = c
    BY <1>2
  <2> QED BY <2>1, <2>2, <2>3
<1>6. \A l \in Label :
        /\ l \in Removed => reg[l] = None
        /\ l \in Staged /\ clients[l] = None => reg[l] = b[l]
        /\ l \notin Removed /\ (l \notin Staged \/ clients[l] # None) => reg[l] = clients[l]
  BY <1>2 DEF Registry
<1>7. \A l \in Label : pending'[l] # None =>
        l \in Staged /\ clients[l] = None /\ pending'[l] = b[l] /\ reg[l] = b[l]
  BY <1>1, <1>3, <1>6 DEF AwaitingAfter
<1> HIDE DEF staged, removed, reg, serving, replacing
<1>8. /\ \A c \in staged : tx'[c] = "claiming" /\ previous'[c] = clients[LabelOf[c]]
      /\ \A c \in Client : c \notin staged => tx'[c] = tx[c] /\ previous'[c] = previous[c]
  BY <1>3, <1>5
<1>9. /\ \A c \in staged : /\ acq'[<<"claim", c>>] = "acquiring" /\ tx[c] = "none" /\ c \notin retired
                           /\ \A op \in Op : acq[<<op, c>>] = "idle"
      /\ \A c \in Client : \A op \in Op :
           op # "claim" \/ c \notin staged => acq'[<<op, c>>] = acq[<<op, c>>]
  BY <1>3, <1>5, HandleOf DEF LeaseInv, UnbuiltIsUntouched, Op
<1>10. AdmissionInv'
  <2>1. pending' \in [Label -> Client \cup {None}]
    <3>1. \A l \in Label : pending'[l] \in Client \cup {None}
      BY <1>2, <1>7
    <3> QED BY <1>3, <3>1 DEF AwaitingAfter
  <2>2. acq' \in [Handle -> AcqState]
    BY <1>3 DEF AdmissionInv, AdmissionTypeOK, AcqState
  <2>3. ASSUME NEW h \in Handle
        PROVE  acq'[h] = acq[h] \/ (acq[h] = "idle" /\ acq'[h] = "acquiring")
    <3>1. PICK op \in Op, c \in Client : h = <<op, c>>
      BY DEF Handle
    <3> QED BY <1>9, <3>1
  <2>4. removed \in SUBSET Client
    BY <1>5
  <2> QED BY <1>3, <1>4, <2>1, <2>2, <2>3, <2>4, RetireLeasesInv
<1>11. TypeOK'
  <2>1. clients' \in [Label -> Client \cup {None}]
    <3>1. \A l \in Label : reg[l] \in Client \cup {None}
      BY <1>2, <1>6 DEF TypeOK
    <3> QED BY <1>3, <3>1 DEF Registry, reg
  <2>2. handler' \in [Label -> Client \cup {None}]
    BY <1>3, <2>1 DEF TypeOK
  <2>3. digests' \in Config
    BY <1>3 DEF Recorded, TypeOK, Config
  <2>4. built' \in SUBSET Client /\ retired' \in SUBSET Client /\ activated' \in SUBSET Label
    BY <1>3, <1>5 DEF TypeOK
  <2>5. tx' \in [Client -> TxState] /\ disc' \in [Client -> DiscState]
    BY <1>3 DEF TypeOK, TxState, DiscState
  <2>6. previous' \in [Client -> Client \cup {None}]
    BY <1>3, AdmissionAssumption DEF TypeOK
  <2>7. batches' \in SUBSET [members : SUBSET Client, digests : Config]
    BY <1>3, <1>5 DEF TypeOK
  <2> QED BY <1>3, <1>4, <1>10, <2>1, <2>2, <2>3, <2>4, <2>5, <2>6, <2>7 DEF TypeOK, AdmissionInv
<1>12. LifeInv'
  <2> USE DEF LifeInv
  <2>1. RegistryIsBuilt'
    BY <1>2, <1>3, <1>5, <1>6 DEF RegistryIsBuilt
  <2>2. RejectedIsRetired'
    BY <1>3, <1>8 DEF RejectedIsRetired
  <2>3. UnsettledIsNotRetired'
    BY <1>1, <1>3, <1>5, <1>8, <1>9 DEF UnsettledIsNotRetired, Settled
  <2>4. BootComesFirst'
    <3>1. \A c \in Boot : c \notin staged /\ c \in Client
      BY <1>5, ReloadAssumption DEF BootComesFirst
    <3> QED BY <1>3, <1>4, <1>8, <3>1 DEF BootComesFirst, Settled
  <2>5. \A c \in Client : Unsettled(c)' => c \in staged
    BY <1>1, <1>3, <1>8 DEF Unsettled, Settled
  <2>6. OneAtATime'
    BY <1>3, <1>4, <1>5, <2>5 DEF OneAtATime
  <2>7. UnsettledReplaces'
    <3>1. \A c \in staged : previous'[c] = clients[LabelOf[c]] /\ LabelOf[c] \in Label
      BY <1>2, <1>5, <1>8
    <3>2. \A c \in staged : clients'[LabelOf[c]] = IF previous'[c] = None THEN c ELSE previous'[c]
      BY <1>2, <1>3, <1>5, <1>6, <3>1
    <3>3. ASSUME NEW c \in staged, previous'[c] # None
          PROVE  tx'[previous'[c]] \in {"active", "rejected"}
      <4>1. previous'[c] \in Client /\ previous'[c] \in built
        BY <3>1, <3>3 DEF RegistryIsBuilt, TypeOK
      <4>2. previous'[c] \notin staged /\ Settled(previous'[c])
        BY <1>1, <1>5, <4>1
      <4> QED BY <1>8, <4>1, <4>2 DEF Settled
    <3> QED BY <2>5, <3>2, <3>3 DEF UnsettledReplaces, Settled
  <2>8. DigestsFollow'
    <3>1. \A l \in Label : clients[l] # None => digests[l] = SessionOf[clients[l]]
      BY <1>1 DEF DigestsFollow
    <3>2. ASSUME NEW l \in Label, reg[l] # None PROVE digests'[l] = SessionOf[reg[l]]
      <4>1. l \notin Removed
        BY <1>6, <3>2
      <4>2. digests'[l] = IF l \in serving \ replacing /\ file[l] # None THEN file[l] ELSE digests[l]
        BY <1>3, <3>2 DEF Recorded
      <4>3. CASE l \in Staged /\ clients[l] = None
        BY <1>2, <1>6, <3>2, <4>2, <4>3 DEF serving, replacing
      <4>4. CASE l \in Staged /\ clients[l] # None
        BY <1>6, <3>1, <4>1, <4>2, <4>4 DEF replacing
      <4>5. CASE l \notin Staged
        <5>1. reg[l] = clients[l] /\ file[l] = digests[l]
          BY <1>6, <3>2, <4>1, <4>5 DEF Staged, Removed, Replaced
        <5> QED BY <3>1, <3>2, <4>2, <5>1
      <4> QED BY <4>3, <4>4, <4>5
    <3>3. \A c \in staged : file[LabelOf[c]] = SessionOf[c]
      BY <1>2, <1>5
    <3>4. ASSUME NEW l \in Label, l \notin Staged, reg[l] # None, file[l] # None
          PROVE  file[l] = SessionOf[reg[l]]
      <4>1. reg[l] = clients[l] /\ file[l] = digests[l]
        BY <1>6, <3>4 DEF Staged, Removed, Replaced
      <4> QED BY <3>1, <3>4, <4>1
    <3>5. \A t \in batches' : t.members = staged /\ t.digests = file
      BY <1>3
    <3> QED BY <1>3, <3>2, <3>3, <3>4, <3>5 DEF DigestsFollow, TypeOK
  <2>9. ServingIsNotRetired'
    <3> SUFFICES ASSUME NEW l \in Label, reg[l] # None, tx'[reg[l]] = "active"
                 PROVE  reg[l] \notin retired'
      BY <1>3 DEF ServingIsNotRetired
    <3>1. reg[l] \notin staged
      BY <1>8
    <3>2. reg[l] = clients[l] /\ l \notin Removed
      BY <1>5, <1>6, <3>1
    <3>3. clients[l] \in Client /\ clients[l] \notin removed
      BY <1>5, <3>2 DEF TypeOK
    <3> QED BY <1>3, <1>8, <3>1, <3>2, <3>3 DEF ServingIsNotRetired
  <2> QED BY <2>1, <2>2, <2>3, <2>4, <2>6, <2>7, <2>8, <2>9
<1>13. /\ \A c \in Client : \A op \in Op : c \notin removed => forgotten'[<<op, c>>] = forgotten[<<op, c>>]
       /\ \A l \in Label : /\ active'[l] \in {active[l], None}
                           /\ active[l] # None /\ ClientOf(active[l]) \in removed => active'[l] = None
  <2>1. removed \in SUBSET Client
    BY <1>5
  <2> QED BY <1>3, <2>1, RetireFacts
<1>14. \A l \in Label : active[l] # None => clients[l] = ClientOf(active[l]) /\ clients[l] # None
  <2> SUFFICES ASSUME NEW l \in Label, active[l] # None
               PROVE  clients[l] = ClientOf(active[l]) /\ clients[l] # None
    OBVIOUS
  <2>1. ClientOf(active[l]) \in Client
    BY HandleFacts DEF AdmissionInv, AdmissionTypeOK
  <2> QED BY <1>1, <2>1, AdmissionAssumption DEF LeaseInv, LeasesAreOfTheRegistry, Unsettled
<1>15. LeaseInv'
  <2> USE DEF LeaseInv
  <2>1. UnbuiltIsUntouched'
    BY <1>3, <1>5, <1>8, <1>9 DEF UnbuiltIsUntouched
  <2>2. ClaimsFollowTx'
    <3>1. \A c \in staged : tx'[c] = "claiming" /\ acq'[<<"claim", c>>] = "acquiring"
      BY <1>8, <1>9
    <3>2. \A c \in Client : c \notin staged =>
            tx'[c] = tx[c] /\ acq'[<<"claim", c>>] = acq[<<"claim", c>>]
      BY <1>8, <1>9 DEF Op
    <3> QED BY <3>1, <3>2 DEF ClaimsFollowTx
  <2>3. ForgottenIsRetired'
    <3> SUFFICES ASSUME NEW c \in Client, NEW op \in Op, forgotten'[<<op, c>>] > 0,
                        c \notin retired'
                 PROVE  tx'[c] = "rejected"
      BY DEF ForgottenIsRetired
    <3>1. c \notin retired /\ forgotten[<<op, c>>] > 0
      BY <1>3, <1>13
    <3>2. tx[c] = "rejected"
      BY <3>1 DEF ForgottenIsRetired
    <3> QED BY <1>8, <1>9, <3>2
  <2>4. LeasesAreOfTheRegistry'
    <3> SUFFICES ASSUME NEW l \in Label, active'[l] # None
                 PROVE  reg[l] = ClientOf(active'[l])
      BY <1>3 DEF LeasesAreOfTheRegistry
    <3>1. active'[l] = active[l] /\ clients[l] = ClientOf(active[l]) /\ clients[l] \notin removed
      BY <1>13, <1>14
    <3>2. l \notin Removed
      BY <3>1 DEF removed
    <3> QED BY <1>6, <1>13, <1>14, <3>1, <3>2
  <2>5. PendingIsClaiming'
    BY <1>2, <1>3, <1>5, <1>7, <1>8 DEF PendingIsClaiming, LifeInv, BootComesFirst
  <2> QED BY <2>1, <2>2, <2>3, <2>4, <2>5
<1>16. CoverInv'
  <2>1. ASSUME NEW c \in Client, HasLease(c) PROVE HasLease(c)' \/ c \in retired'
    <3>1. c \notin staged
      BY <1>9, <2>1 DEF HasLease
    <3> QED BY <1>3, <1>9, <1>13, <2>1, <3>1 DEF HasLease
  <2>2. ASSUME NEW l \in Label, NEW c \in Client, clients'[l] = c, clients[l] # c
        PROVE  pending'[LabelOf[c]] = c
    <3>1. l \in Staged /\ clients[l] = None /\ reg[l] = b[l] /\ b[l] = c
      BY <1>3, <1>6, <2>2, AdmissionAssumption
    <3>2. active[l] = None /\ l \notin Removed /\ LabelOf[c] = l
      BY <1>2, <1>14, <3>1
    <3> QED BY <1>3, <2>2, <3>1, <3>2 DEF AwaitingAfter, reg
  <2>3. \A c \in Client : pending[LabelOf[c]] # c
    BY <1>1, AdmissionAssumption
  <2>4. \A c \in socket \cap Boot : tx'[c] = tx[c]
    BY <1>5, <1>8, ReloadAssumption DEF LifeInv, BootComesFirst
  <2> QED BY <1>3, <1>4, <1>11, <2>1, <2>2, <2>3, <2>4, CoverMoves
<1> QED BY <1>10, <1>11, <1>12, <1>15, <1>16

LEMMA BootClientFacts ==
  /\ \A l \in Label : BootClient(l) # None => BootClient(l) \in Boot /\ LabelOf[BootClient(l)] = l
  /\ \A c \in Boot : c \in Client /\ c # None /\ BootClient(LabelOf[c]) = c
<1>1. ASSUME NEW l \in Label, BootClient(l) # None
      PROVE  BootClient(l) \in Boot /\ LabelOf[BootClient(l)] = l
  <2>1. \E c \in Boot : LabelOf[c] = l
    BY <1>1 DEF BootClient
  <2>2. BootClient(l) = CHOOSE c \in Boot : LabelOf[c] = l
    BY <2>1 DEF BootClient
  <2> QED BY <2>1, <2>2
<1>2. ASSUME NEW c \in Boot PROVE c \in Client /\ c # None /\ BootClient(LabelOf[c]) = c
  <2>1. c \in Client /\ c # None /\ LabelOf[c] \in Label
    BY ReloadAssumption, AdmissionAssumption
  <2>2. BootClient(LabelOf[c]) = CHOOSE d \in Boot : LabelOf[d] = LabelOf[c]
    BY DEF BootClient
  <2>3. BootClient(LabelOf[c]) \in Boot /\ LabelOf[BootClient(LabelOf[c])] = LabelOf[c]
    BY <2>2
  <2> QED BY <2>1, <2>3, ReloadAssumption
<1> QED BY <1>1, <1>2

LEMMA ReloadInitInv == Init => ReloadInv
<1> SUFFICES ASSUME Init PROVE ReloadInv
  OBVIOUS
<1> USE DEF Init
<1>1. AdmissionInv
  BY InitInv
<1>2. \A l \in Label : /\ clients[l] = BootClient(l)
                       /\ clients[l] # None => /\ clients[l] \in Boot /\ clients[l] \in Client
                                               /\ LabelOf[clients[l]] = l
  BY BootClientFacts
<1>3. \A c \in Boot : clients[LabelOf[c]] = c /\ c \in Client /\ c # None
  BY <1>2, BootClientFacts, AdmissionAssumption
<1>4. TypeOK
  <2>1. clients \in [Label -> Client \cup {None}]
    BY <1>2
  <2>2. file \in Config
    BY <1>2, AdmissionAssumption DEF Config
  <2>3. seen \in BOOLEAN /\ overlapped \in BOOLEAN
    OBVIOUS
  <2> QED
    BY <1>1, <2>1, <2>2, <2>3, ReloadAssumption
    DEF TypeOK, AdmissionInv, TxState, DiscState, CallState, Idle
<1>5. LifeInv
  <2>1. RegistryIsBuilt /\ RejectedIsRetired /\ UnsettledIsNotRetired /\ ServingIsNotRetired
    BY <1>2 DEF RegistryIsBuilt, RejectedIsRetired, UnsettledIsNotRetired, ServingIsNotRetired
  <2>2. BootComesFirst
    BY ReloadAssumption DEF BootComesFirst, AdmissionInit
  <2>3. OneAtATime
    BY ReloadAssumption DEF OneAtATime, Unsettled
  <2>4. UnsettledReplaces
    BY <1>3 DEF UnsettledReplaces, Unsettled
  <2>5. DigestsFollow
    BY <1>2 DEF DigestsFollow
  <2> QED BY <2>1, <2>2, <2>3, <2>4, <2>5 DEF LifeInv
<1>6. LeaseInv
  <2>1. \A c \in Client : \A op \in Op : acq[<<op, c>>] = "idle" /\ forgotten[<<op, c>>] = 0
    BY HandleOf DEF AdmissionInit
  <2>2. UnbuiltIsUntouched /\ ClaimsFollowTx /\ ForgottenIsRetired
    <3>1. UnbuiltIsUntouched /\ ForgottenIsRetired
      BY <2>1 DEF UnbuiltIsUntouched, ForgottenIsRetired
    <3>2. ClaimsFollowTx
      BY <2>1 DEF ClaimsFollowTx, Op
    <3> QED BY <3>1, <3>2
  <2>3. LeasesAreOfTheRegistry /\ PendingIsClaiming
    BY DEF LeasesAreOfTheRegistry, PendingIsClaiming, AdmissionInit
  <2> QED BY <2>2, <2>3 DEF LeaseInv
<1>7. CoverInv
  BY DEF CoverInv, RegistryIsCovered, CallsAreCovered, SocketsAreCovered
<1> QED BY <1>1, <1>4, <1>5, <1>6, <1>7 DEF ReloadInv

LEMMA ReloadStutterInv ==
  ASSUME ReloadInv, UNCHANGED vars
  PROVE  ReloadInv'
<1> USE DEF ReloadInv, vars, reloadVars
<1>1. AdmissionInv' /\ LeaseInv' /\ CoverInv'
  BY AdmissionUnchanged, LeaseUnchanged, CoverUnchanged DEF admissionVars, leaseVars
<1>2. TypeOK'
  BY <1>1 DEF TypeOK, AdmissionInv
<1>3. stopped' => phase = "stopped"
  BY DEF admissionVars, LifeInv, BootComesFirst
<1> QED BY <1>1, <1>2, <1>3, LifeUnchanged

LEMMA ReloadStepInv ==
  ASSUME ReloadInv, [Next]_vars, ~overlapped'
  PROVE  ReloadInv'
<1>1. CASE EditFile
  BY <1>1, EditFileInv
<1>2. CASE Reload
  <2>1. CASE \E b : ReloadApplies(b)
    BY <2>1, ReloadAppliesInv
  <2>2. CASE ReloadRefuses
    BY <2>2, ReloadRefusesInv
  <2> QED BY <1>2, <2>1, <2>2 DEF Reload, ReloadApplies, ReloadRefuses
<1>3. ASSUME NEW t \in batches, SettleBatch(t) PROVE ReloadInv'
  BY <1>3, SettleBatchInv
<1>4. ASSUME NEW c \in Client, BootClaims(c) \/ BootActivate(c) \/ BootReject(c) PROVE ReloadInv'
  BY <1>4, BootClaimsInv, BootActivateInv, BootRejectInv
<1>5. ASSUME NEW c \in Client, ClaimDone(c) \/ Connects(c) \/ Activate(c) \/ Reject(c)
      PROVE  ReloadInv'
  BY <1>5, ClaimDoneInv, ConnectsInv, ActivateInv, RejectInv
<1>6. ASSUME NEW c \in Client, Disconnects(c) PROVE ReloadInv'
  BY <1>6, DisconnectsInv
<1>7. ASSUME NEW h \in Handle, ReleaseConfirmed(h) \/ ReleaseGivesUp(h) PROVE ReloadInv'
  BY <1>7, ReleasesInv
<1>8. ASSUME NEW k \in Call, CallBegins(k) \/ EnsureConnected(k) \/ AdmissionSettled(k)
                             \/ ReconnectCloses(k) \/ ReconnectOpens(k)
      PROVE  ReloadInv'
  BY <1>8, CallBeginsInv, EnsureConnectedInv, AdmissionSettledInv, ReconnectsInv
<1>9. CASE LeaseStep \/ BootDone \/ Stop \/ StopReleases
  BY <1>9, LeaseStepInv, BootDoneInv, StopInv, StopReleasesInv
<1>10. CASE UNCHANGED vars
  BY <1>10, ReloadStutterInv
<1> QED
  BY <1>1, <1>2, <1>3, <1>4, <1>5, <1>6, <1>7, <1>8, <1>9, <1>10 DEF Next

(* A revision applied over a transaction in flight stays on record.        *)
LEMMA OverlapIsRecorded ==
  ASSUME TypeOK, [Next]_vars, overlapped
  PROVE  overlapped'
<1>1. CASE EditFile \/ BootDone \/ Stop \/ (\E t \in batches : SettleBatch(t)) \/ UNCHANGED vars
  BY <1>1 DEF EditFile, BootDone, Stop, SettleBatch, vars, reloadVars
<1>2. CASE Reload
  BY <1>2 DEF Reload
<1>3. CASE LeaseStep \/ StopReleases \/ \E h \in Handle : ReleaseConfirmed(h) \/ ReleaseGivesUp(h)
  BY <1>3 DEF LeaseStep, StopReleases, ReleaseConfirmed, ReleaseGivesUp, reloadVars
<1>4. ASSUME NEW c \in Client, \/ BootClaims(c) \/ BootActivate(c) \/ BootReject(c)
                               \/ ClaimDone(c) \/ Connects(c) \/ Activate(c) \/ Reject(c)
                               \/ Disconnects(c)
      PROVE  overlapped'
  BY <1>4 DEF BootClaims, BootActivate, BootReject, ClaimDone, Connects, Activate, Reject,
              Disconnects, registryVars
<1>5. ASSUME NEW k \in Call, \/ CallBegins(k) \/ EnsureConnected(k) \/ AdmissionSettled(k)
                             \/ ReconnectCloses(k) \/ ReconnectOpens(k)
      PROVE  overlapped'
  BY <1>5 DEF CallBegins, EnsureConnected, AdmissionSettled, ReconnectCloses, ReconnectOpens,
              callUnchanged
<1> QED BY <1>1, <1>2, <1>3, <1>4, <1>5 DEF Next

----------------------------------------------------------------------------
(* Whatever overlaps: OwnInv.  Nothing above is left of a label once       *)
(* revisions are applied over transactions in flight; what a client did    *)
(* itself is: its claim follows its own transaction, and its lease is      *)
(* forgotten with it.                                                      *)

(* The registry, the admissions and the calls name clients that were built.*)
NamesAreBuilt ==
  /\ Boot \subseteq built
  /\ RegistryIsBuilt
  /\ \A l \in Label : pending[l] # None => pending[l] \in built
  /\ \A c \in Client : previous[c] # None => previous[c] \in built
  /\ \A k \in Call : call[k] # Idle => call[k].client \in built

(* What a client did, and what was done to its leases.                     *)
DeedsInv ==
  /\ UnbuiltIsUntouched
  /\ ClaimsFollowTx
  /\ ForgottenIsRetired

OwnInv ==
  /\ AdmissionInv
  /\ TypeOK
  /\ NamesAreBuilt
  /\ DeedsInv
  /\ stopped => phase = "stopped"

LEMMA InitNamesBuilt == Init => NamesAreBuilt /\ DeedsInv
<1> SUFFICES ASSUME Init PROVE NamesAreBuilt /\ DeedsInv
  OBVIOUS
<1>1. NamesAreBuilt
  BY BootClientFacts, ReloadAssumption DEF Init, AdmissionInit, NamesAreBuilt, RegistryIsBuilt
<1>2. \A c \in Client : \A op \in Op : acq[<<op, c>>] = "idle" /\ forgotten[<<op, c>>] = 0
  BY HandleOf DEF Init, AdmissionInit
<1>3. UnbuiltIsUntouched /\ ForgottenIsRetired
  BY <1>2 DEF Init, UnbuiltIsUntouched, ForgottenIsRetired
<1>4. ClaimsFollowTx
  BY <1>2 DEF Init, ClaimsFollowTx, Op
<1> QED BY <1>1, <1>3, <1>4 DEF DeedsInv

LEMMA OwnInitInv == Init => OwnInv
<1>1. Init => AdmissionInv /\ TypeOK /\ ~stopped
  BY ReloadInitInv DEF ReloadInv, Init, AdmissionInit
<1> QED BY <1>1, InitNamesBuilt DEF OwnInv

(* Steps that name nobody new.                                             *)
LEMMA NamesStay ==
  ASSUME NamesAreBuilt, UNCHANGED <<built, previous>>,
         \A l \in Label : clients'[l] = clients[l],
         \A l \in Label : pending'[l] \in {pending[l], None},
         \A k \in Call : call'[k] # Idle => call[k] # Idle /\ call'[k].client = call[k].client
  PROVE  NamesAreBuilt'
BY DEF NamesAreBuilt, RegistryIsBuilt

(* Steps that move acquires along.                                         *)
LEMMA DeedsStay ==
  ASSUME DeedsInv, UNCHANGED <<built, tx, retired, forgotten>>,
         \A c \in Client : \A op \in Op :
           LET h == <<op, c>> IN
           /\ acq[h] = "published" => acq'[h] = "published"
           /\ c \notin built \/ (op = "claim" /\ acq[h] = "idle") => acq'[h] = acq[h]
           /\ op = "claim" /\ acq'[h] \in {"acquiring", "acquired"} => acq[h] \in {"acquiring", "acquired"}
  PROVE  DeedsInv'
<1>1. UnbuiltIsUntouched' /\ ForgottenIsRetired'
  BY DEF DeedsInv, UnbuiltIsUntouched, ForgottenIsRetired
<1>2. ClaimsFollowTx'
  BY DEF DeedsInv, ClaimsFollowTx, Op
<1> QED BY <1>1, <1>2 DEF DeedsInv

(* Steps that leave the lease store alone but for who waits.               *)
LEMMA OwnMoves ==
  ASSUME OwnInv, AdmissionInv', NamesAreBuilt', UNCHANGED <<built, tx, retired, forgotten, acq>>,
         phase = "stopped" => phase' = "stopped", stopped' => phase' = "stopped",
         TypeOK'
  PROVE  OwnInv'
<1>1. DeedsInv'
  BY DEF OwnInv, DeedsInv, UnbuiltIsUntouched, ClaimsFollowTx, ForgottenIsRetired
<1> QED BY <1>1 DEF OwnInv

LEMMA OwnFileMoves ==
  ASSUME OwnInv, EditFile \/ ReloadRefuses \/ BootDone \/ Stop \/ UNCHANGED vars
                 \/ \E t \in batches : SettleBatch(t)
  PROVE  OwnInv'
<1>0. UNCHANGED <<admissionVars, clients, built, previous, tx, retired, handler, activated, socket>>
  BY DEF EditFile, ReloadRefuses, BootDone, Stop, SettleBatch, vars, reloadVars
<1>1. AdmissionInv' /\ UNCHANGED <<acq, forgotten, pending, stopped>>
  BY <1>0, AdmissionUnchanged DEF OwnInv, admissionVars, leaseVars
<1>2. /\ phase' \in {"starting", "serving", "stopping", "stopped"}
      /\ phase = "stopped" => phase' = "stopped"
  BY DEF EditFile, ReloadRefuses, BootDone, Stop, SettleBatch, vars, reloadVars, OwnInv, TypeOK
<1>3. file' \in Config /\ edits' \in 0..MaxEdits /\ seen' \in BOOLEAN /\ overlapped' \in BOOLEAN
  <2>1. edits' \in 0..MaxEdits
    BY ReloadAssumption DEF EditFile, ReloadRefuses, BootDone, Stop, SettleBatch, vars, reloadVars, OwnInv, TypeOK
  <2>2. file' \in Config /\ seen' \in BOOLEAN /\ overlapped' = overlapped
    BY DEF EditFile, ReloadRefuses, BootDone, Stop, SettleBatch, vars, reloadVars, OwnInv, TypeOK
  <2> QED BY <2>1, <2>2 DEF OwnInv, TypeOK
<1>4. digests' \in Config /\ batches' \in SUBSET [members : SUBSET Client, digests : Config]
  <2>1. ASSUME NEW t \in batches, SettleBatch(t)
        PROVE  digests' \in Config /\ batches' \in SUBSET [members : SUBSET Client, digests : Config]
    <3>1. t.digests \in Config /\ digests \in Config /\ batches \in SUBSET [members : SUBSET Client, digests : Config]
      BY <2>1 DEF OwnInv, TypeOK
    <3> QED BY <2>1, <3>1 DEF SettleBatch, Recorded, Config
  <2>2. CASE UNCHANGED <<digests, batches>>
    BY <2>2 DEF OwnInv, TypeOK
  <2> QED BY <2>1, <2>2 DEF EditFile, ReloadRefuses, BootDone, Stop, vars, reloadVars
<1>5. /\ disc' \in [Client -> DiscState] /\ call' \in [Call -> CallState]
      /\ \A k \in Call : call'[k] \in {call[k], Idle}
  <2>1. CASE Stop
    BY <2>1 DEF Stop, OwnInv, TypeOK, DiscState, CallState, Idle
  <2>2. CASE UNCHANGED <<disc, call>>
    BY <2>2 DEF OwnInv, TypeOK
  <2> QED BY <2>1, <2>2 DEF EditFile, ReloadRefuses, BootDone, SettleBatch, vars, reloadVars
<1>6. TypeOK'
  BY <1>0, <1>1, <1>2, <1>3, <1>4, <1>5 DEF OwnInv, TypeOK, AdmissionInv
<1>7. NamesAreBuilt'
  BY <1>0, <1>1, <1>5, NamesStay DEF OwnInv
<1> QED BY <1>0, <1>1, <1>2, <1>6, <1>7, OwnMoves DEF OwnInv

(* A reload that applies, over whatever is in flight.                      *)
LEMMA OwnReloadApplies ==
  ASSUME OwnInv, NEW b, ReloadApplies(b)
  PROVE  OwnInv'
<1> DEFINE staged  == {b[l] : l \in Staged}
           removed == {clients[l] : l \in Removed}
           reg     == Registry(b)
<1> USE DEF OwnInv
<1>2. /\ \A l \in Staged : /\ l \in Label /\ l \notin Removed
                           /\ b[l] \in Client /\ b[l] \notin built
                           /\ LabelOf[b[l]] = l
      /\ \A l \in Removed : l \in Label /\ clients[l] # None
  BY DEF ReloadApplies, Builds, Staged, Removed
<1>3. /\ clients' = reg
      /\ retired' = retired \cup removed
      /\ RetireLeases(removed, removed)
      /\ pending' = AwaitingAfter(b)
      /\ acq' = [h \in Handle |-> IF h[1] = "claim" /\ h[2] \in staged THEN "acquiring" ELSE acq[h]]
      /\ built' = built \cup staged
      /\ tx' = [c \in Client |-> IF c \in staged THEN "claiming" ELSE tx[c]]
      /\ previous' = [c \in Client |-> IF c \in staged THEN clients[LabelOf[c]] ELSE previous[c]]
      /\ activated' = activated \ Staged
      /\ batches' = IF staged = {} THEN batches
                    ELSE batches \cup {[members |-> staged, digests |-> file]}
      /\ disc' = [c \in Client |-> IF c \in removed THEN "running" ELSE disc[c]]
      /\ handler' = [l \in Label |-> IF reg[l] # clients[l] THEN reg[l] ELSE handler[l]]
  BY DEF ReloadApplies, Apply, Retire
<1>a. digests' \in Config
  <2>1. file \in Config /\ digests \in Config
    BY DEF TypeOK
  <2> QED BY <2>1 DEF ReloadApplies, Apply, Recorded, Config
<1>4. phase = "serving" /\ seen' = TRUE /\ UNCHANGED <<stopped, phase, file, edits, socket, call>>
  BY DEF ReloadApplies
<1>b. seen' \in BOOLEAN /\ overlapped' \in BOOLEAN
  BY <1>4 DEF ReloadApplies
<1>5. /\ \A c \in staged : c \in Client /\ c \notin built
      /\ \A l \in Staged : b[l] \in staged
      /\ \A c \in removed : c \in Client /\ c \in built
  BY <1>2 DEF NamesAreBuilt, RegistryIsBuilt, TypeOK
<1>6. \A l \in Label : reg[l] # None => reg[l] = clients[l] \/ (l \in Staged /\ reg[l] = b[l])
  BY DEF Registry
<1>7. \A l \in Label : pending'[l] # None => pending'[l] = pending[l] \/ (l \in Staged /\ pending'[l] = b[l])
  <2> SUFFICES ASSUME NEW l \in Label, pending'[l] # None, pending'[l] # pending[l]
               PROVE  l \in Staged /\ pending'[l] = b[l]
    OBVIOUS
  <2>1. l \notin Removed /\ reg[l] # clients[l] /\ pending'[l] = b[l]
    BY <1>3 DEF AwaitingAfter
  <2>2. l \in Staged
    BY <2>1 DEF Registry
  <2> QED BY <2>1, <2>2
<1> HIDE DEF staged, removed, reg
<1>8. /\ \A c \in staged : tx'[c] = "claiming" /\ previous'[c] = clients[LabelOf[c]]
      /\ \A c \in Client : c \notin staged => tx'[c] = tx[c] /\ previous'[c] = previous[c]
  BY <1>3, <1>5
<1>9. /\ \A c \in staged : /\ acq'[<<"claim", c>>] = "acquiring" /\ c \notin retired
                           /\ \A op \in Op : acq[<<op, c>>] = "idle"
      /\ \A c \in Client : \A op \in Op :
           op # "claim" \/ c \notin staged => acq'[<<op, c>>] = acq[<<op, c>>]
  BY <1>3, <1>5, HandleOf DEF DeedsInv, UnbuiltIsUntouched, Op
<1>10. AdmissionInv'
  <2>1. pending' \in [Label -> Client \cup {None}]
    <3>1. \A l \in Label : pending'[l] \in Client \cup {None}
      BY <1>2, <1>7 DEF AdmissionInv, AdmissionTypeOK
    <3> QED BY <1>3, <3>1 DEF AwaitingAfter
  <2>2. acq' \in [Handle -> AcqState]
    BY <1>3 DEF AdmissionInv, AdmissionTypeOK, AcqState
  <2>3. ASSUME NEW h \in Handle
        PROVE  acq'[h] = acq[h] \/ (acq[h] = "idle" /\ acq'[h] = "acquiring")
    <3>1. PICK op \in Op, c \in Client : h = <<op, c>>
      BY DEF Handle
    <3> QED BY <1>9, <3>1
  <2>4. removed \in SUBSET Client
    BY <1>5
  <2> QED BY <1>3, <1>4, <2>1, <2>2, <2>3, <2>4, RetireLeasesInv
<1>11. TypeOK'
  <2>1. clients' \in [Label -> Client \cup {None}]
    <3>1. \A l \in Label : reg[l] \in Client \cup {None}
      BY <1>2, <1>6 DEF TypeOK
    <3> QED BY <1>3, <3>1 DEF Registry, reg
  <2>2. handler' \in [Label -> Client \cup {None}]
    BY <1>3, <2>1 DEF TypeOK
  <2>4. built' \in SUBSET Client /\ retired' \in SUBSET Client /\ activated' \in SUBSET Label
    BY <1>3, <1>5 DEF TypeOK
  <2>5. tx' \in [Client -> TxState] /\ disc' \in [Client -> DiscState]
    BY <1>3 DEF TypeOK, TxState, DiscState
  <2>6. previous' \in [Client -> Client \cup {None}]
    BY <1>3, AdmissionAssumption DEF TypeOK
  <2>7. batches' \in SUBSET [members : SUBSET Client, digests : Config]
    BY <1>3, <1>5 DEF TypeOK
  <2> QED BY <1>4, <1>a, <1>b, <1>10, <2>1, <2>2, <2>4, <2>5, <2>6, <2>7 DEF TypeOK, AdmissionInv
<1>12. NamesAreBuilt'
  <2>1. Boot \subseteq built' /\ RegistryIsBuilt'
    BY <1>2, <1>3, <1>5, <1>6 DEF NamesAreBuilt, RegistryIsBuilt
  <2>2. \A l \in Label : pending'[l] # None => pending'[l] \in built'
    BY <1>3, <1>5, <1>7 DEF NamesAreBuilt
  <2>3. \A c \in Client : previous'[c] # None => previous'[c] \in built'
    BY <1>2, <1>3, <1>5, <1>8, AdmissionAssumption DEF NamesAreBuilt, RegistryIsBuilt
  <2>4. \A k \in Call : call'[k] # Idle => call'[k].client \in built'
    BY <1>3, <1>4 DEF NamesAreBuilt
  <2> QED BY <2>1, <2>2, <2>3, <2>4 DEF NamesAreBuilt
<1>13. \A c \in Client : \A op \in Op : c \notin removed => forgotten'[<<op, c>>] = forgotten[<<op, c>>]
  <2>1. removed \in SUBSET Client
    BY <1>5
  <2> QED BY <1>3, <2>1, RetireFacts
<1>15. DeedsInv'
  <2> USE DEF DeedsInv
  <2>1. UnbuiltIsUntouched'
    BY <1>3, <1>5, <1>8, <1>9 DEF UnbuiltIsUntouched
  <2>2. ClaimsFollowTx'
    <3>2. \A c \in Client : c \notin staged =>
            tx'[c] = tx[c] /\ acq'[<<"claim", c>>] = acq[<<"claim", c>>]
      BY <1>8, <1>9 DEF Op
    <3> QED BY <1>8, <1>9, <3>2 DEF ClaimsFollowTx
  <2>3. ForgottenIsRetired'
    <3> SUFFICES ASSUME NEW c \in Client, NEW op \in Op, forgotten'[<<op, c>>] > 0,
                        c \notin retired'
                 PROVE  tx'[c] = "rejected"
      BY DEF ForgottenIsRetired
    <3>1. c \notin retired /\ forgotten[<<op, c>>] > 0
      BY <1>3, <1>13
    <3>2. tx[c] = "rejected"
      BY <3>1 DEF ForgottenIsRetired
    <3>3. c \notin staged
      BY <1>5, <3>2 DEF UnbuiltIsUntouched
    <3> QED BY <1>8, <3>2, <3>3
  <2> QED BY <2>1, <2>2, <2>3
<1> QED BY <1>4, <1>10, <1>11, <1>12, <1>15

(* Steps of one transaction: only c moves, and at most its own lease, or   *)
(* those of whom it retires, are forgotten.                                *)
LEMMA OwnTransaction ==
  ASSUME OwnInv, AdmissionInv', TypeOK', NEW c \in Client, NEW gone \in SUBSET Client,
         UNCHANGED <<built, previous, call, phase, stopped>>,
         c \in built, gone \subseteq built,
         \A d \in Client \ {c} : tx'[d] = tx[d],
         tx'[c] # "none",
         retired \subseteq retired', retired' \subseteq retired \cup gone,
         \A l \in Label : clients'[l] \in {clients[l]} \/ (clients'[l] = c /\ LabelOf[c] = l),
         \A l \in Label : pending'[l] \in {pending[l], None},
         \A d \in Client : \A op \in Op :
           /\ <<op, d>> # <<"claim", c>> => acq'[<<op, d>>] = acq[<<op, d>>]
           /\ forgotten'[<<op, d>>] = forgotten[<<op, d>>] \/ d \in retired' \/ tx'[d] = "rejected",
         acq'[<<"claim", c>>] \in {"acquiring", "acquired"} => tx'[c] = "claiming",
         tx'[c] \in {"connecting", "authorizing", "active"} => acq'[<<"claim", c>>] = "published",
         tx[c] = "rejected" => tx'[c] = "rejected"
  PROVE  OwnInv'
<1> USE DEF OwnInv
<1>1. NamesAreBuilt'
  <2>1. RegistryIsBuilt'
    BY DEF NamesAreBuilt, RegistryIsBuilt
  <2> QED BY <2>1 DEF NamesAreBuilt
<1>2. UnbuiltIsUntouched'
  <2> SUFFICES ASSUME NEW d \in Client \ built
               PROVE  tx'[d] = "none" /\ d \notin retired' /\ \A op \in Op : acq'[<<op, d>>] = "idle"
    BY DEF UnbuiltIsUntouched
  <2>1. d # c /\ d \notin gone
    OBVIOUS
  <2>2. tx[d] = "none" /\ d \notin retired /\ \A op \in Op : acq[<<op, d>>] = "idle"
    BY DEF DeedsInv, UnbuiltIsUntouched
  <2>3. \A op \in Op : <<op, d>> # <<"claim", c>>
    BY <2>1
  <2> QED BY <2>1, <2>2, <2>3
<1>3. ClaimsFollowTx'
  <2> SUFFICES ASSUME NEW d \in Client
               PROVE  /\ tx'[d] = "none" => acq'[<<"claim", d>>] = "idle"
                      /\ acq'[<<"claim", d>>] \in {"acquiring", "acquired"} => tx'[d] = "claiming"
                      /\ tx'[d] \in {"connecting", "authorizing", "active"} =>
                           acq'[<<"claim", d>>] = "published"
    BY DEF ClaimsFollowTx
  <2>1. CASE d = c
    BY <2>1
  <2>2. CASE d # c
    <3>1. acq'[<<"claim", d>>] = acq[<<"claim", d>>] /\ tx'[d] = tx[d]
      BY <2>2 DEF Op
    <3> QED BY <3>1 DEF DeedsInv, ClaimsFollowTx
  <2> QED BY <2>1, <2>2
<1>4. ForgottenIsRetired'
  BY DEF DeedsInv, ForgottenIsRetired
<1> QED BY <1>1, <1>2, <1>3, <1>4 DEF DeedsInv

LEMMA OwnAdvances ==
  ASSUME OwnInv, NEW c \in Client,
         BootClaims(c) \/ BootActivate(c) \/ ClaimDone(c) \/ Connects(c)
  PROVE  OwnInv'
<1> DEFINE h == <<"claim", c>>
<1> USE DEF OwnInv, registryVars
<1>0. h \in Handle /\ \A op \in Op : \A d \in Client : <<op, d>> \in Handle
  BY HandleOf DEF Op
<1>1. /\ UNCHANGED <<built, previous, call, phase, stopped, clients, retired, forgotten, active>>
      /\ \A d \in Client \ {c} : tx'[d] = tx[d]
      /\ tx'[c] \in {"claiming", "connecting", "authorizing", "active"}
      /\ tx[c] \in {"none", "claiming", "connecting", "authorizing"}
      /\ tx' \in [Client -> TxState]
      /\ socket' \in SUBSET Client
      /\ UNCHANGED <<file, edits, seen, digests, batches, handler, activated, disc, overlapped>>
  BY DEF BootClaims, BootActivate, ClaimDone, Connects, Advance, StartClaim, ClaimReturns,
         admissionVars, leaseVars, TypeOK, TxState
<1>2. c \in built
  BY <1>1 DEF BootClaims, BootActivate, ClaimDone, Connects, Advance, NamesAreBuilt, DeedsInv, UnbuiltIsUntouched
<1>3. AdmissionInv' /\ \A l \in Label : pending'[l] \in {pending[l], None}
  <2>1. CASE BootClaims(c)
    BY <1>0, <2>1, AcquireMoves DEF BootClaims, StartClaim
  <2>2. CASE UNCHANGED admissionVars
    BY <2>2, AdmissionUnchanged DEF admissionVars
  <2>3. CASE ClaimReturns(c)
    <3>1. pending' \in [Label -> Client \cup {None}] /\ \A l \in Label : pending'[l] \in {pending[l], None}
      BY <2>3 DEF ClaimReturns, AdmissionInv, AdmissionTypeOK
    <3> QED BY <2>3, <3>1, PendingMoves DEF ClaimReturns
  <2> QED BY <2>1, <2>2, <2>3 DEF BootActivate, ClaimDone, Connects
<1>4. /\ \A d \in Client : \A op \in Op : <<op, d>> # h => acq'[<<op, d>>] = acq[<<op, d>>]
      /\ tx'[c] = "claiming" \/ (acq'[h] = acq[h] /\ acq[h] = "published")
  <2>1. CASE BootClaims(c)
    BY <1>0, <2>1 DEF BootClaims, StartClaim, Advance, TypeOK, AdmissionInv, AdmissionTypeOK
  <2>2. CASE ~BootClaims(c)
    <3>1. acq' = acq
      BY <2>2 DEF BootActivate, ClaimDone, Connects, ClaimReturns, admissionVars
    <3>2. acq[h] = "published"
      BY <2>2 DEF BootActivate, ClaimDone, Connects, Advance, DeedsInv, ClaimsFollowTx
    <3> QED BY <3>1, <3>2
  <2> QED BY <2>1, <2>2
<1>5. TypeOK'
  BY <1>1, <1>3 DEF TypeOK, AdmissionInv
<1>6. {} \in SUBSET Client /\ {} \subseteq built
  OBVIOUS
<1>7. acq'[h] \in {"acquiring", "acquired"} => tx'[c] = "claiming"
  BY <1>4
<1> HIDE DEF h
<1> QED BY <1>1, <1>2, <1>3, <1>4, <1>5, <1>6, <1>7, OwnTransaction DEF h

LEMMA OwnActivate ==
  ASSUME OwnInv, NEW c \in Client, Activate(c)
  PROVE  OwnInv'
<1> DEFINE l    == LabelOf[c]
           gone == Predecessor(c)
<1> USE DEF OwnInv
<1>0. /\ l \in Label
      /\ tx[c] = "authorizing"
      /\ tx' = [tx EXCEPT ![c] = "active"]
      /\ clients' = [clients EXCEPT ![l] = c]
      /\ activated' = activated \cup {l}
      /\ retired' = retired \cup gone
      /\ disc' = [d \in Client |-> IF d \in gone THEN "running" ELSE disc[d]]
      /\ RetireLeases(gone, gone)
      /\ pending' = IF gone = {} THEN pending ELSE [pending EXCEPT ![l] = None]
      /\ UNCHANGED <<acq, stopped, registryVars, handler, socket>>
  BY AdmissionAssumption DEF Activate, Retire, Advance
<1>1. c \in built /\ gone \in SUBSET Client /\ gone \subseteq built
  BY <1>0 DEF DeedsInv, UnbuiltIsUntouched, NamesAreBuilt, Predecessor, TypeOK
<1> HIDE DEF gone
<1>2. acq[<<"claim", c>>] = "published"
  BY <1>0 DEF DeedsInv, ClaimsFollowTx
<1>3. AdmissionInv'
  <2>1. pending' \in [Label -> Client \cup {None}] /\ acq \in [Handle -> AcqState]
    BY <1>0 DEF AdmissionInv, AdmissionTypeOK
  <2> QED BY <1>0, <1>1, <2>1, RetireLeasesInv
<1>4. TypeOK'
  <2>1. disc' \in [Client -> DiscState]
    BY <1>0 DEF TypeOK, DiscState
  <2>2. /\ clients' \in [Label -> Client \cup {None}] /\ tx' \in [Client -> TxState]
        /\ activated' \in SUBSET Label /\ retired' \in SUBSET Client
    BY <1>0, <1>1 DEF TypeOK, TxState
  <2> QED BY <1>0, <1>3, <2>1, <2>2 DEF registryVars, TypeOK, AdmissionInv
<1>5. \A d \in Client : \A op \in Op : d \notin gone => forgotten'[<<op, d>>] = forgotten[<<op, d>>]
  BY <1>0, <1>1, RetireFacts
<1>6. /\ tx'[c] = "active" /\ \A d \in Client \ {c} : tx'[d] = tx[d]
      /\ \A m \in Label : clients'[m] \in {clients[m]} \/ (clients'[m] = c /\ l = m)
      /\ \A m \in Label : pending'[m] \in {pending[m], None}
  BY <1>0 DEF TypeOK, AdmissionInv, AdmissionTypeOK
<1>7. UNCHANGED <<built, previous, call, phase, stopped, acq>>
  BY <1>0 DEF registryVars
<1> QED BY <1>0, <1>1, <1>2, <1>3, <1>4, <1>5, <1>6, <1>7, OwnTransaction

LEMMA OwnRejects ==
  ASSUME OwnInv, NEW c \in Client, Reject(c) \/ BootReject(c)
  PROVE  OwnInv'
<1> DEFINE gone == {c}
<1> USE DEF OwnInv
<1>0. /\ tx' = [tx EXCEPT ![c] = "rejected"]
      /\ tx[c] \in {"claiming", "connecting", "authorizing"}
      /\ tx[c] = "claiming" => acq[<<"claim", c>>] = "failed"
      /\ retired' \in {retired, retired \cup gone}
      /\ UNCHANGED <<acq, stopped, registryVars, clients, handler, activated, socket>>
      /\ \/ UNCHANGED admissionVars
         \/ /\ \E closes \in BOOLEAN : RetireLeases({c}, IF closes THEN {c} ELSE {})
            /\ pending' = [pending EXCEPT ![LabelOf[c]] = None]
  BY DEF Reject, BootReject, Retire, Forget, admissionVars
<1>1. c \in built /\ gone \in SUBSET Client /\ gone \subseteq built
  BY <1>0 DEF DeedsInv, UnbuiltIsUntouched
<1>2. acq[<<"claim", c>>] \notin {"acquiring", "acquired"}
  BY <1>0 DEF DeedsInv, ClaimsFollowTx
<1>3. /\ AdmissionInv'
      /\ \A l \in Label : pending'[l] \in {pending[l], None}
      /\ \A d \in Client : \A op \in Op : d # c => forgotten'[<<op, d>>] = forgotten[<<op, d>>]
  <2>1. CASE UNCHANGED admissionVars
    BY <2>1, AdmissionUnchanged DEF admissionVars, leaseVars
  <2>2. CASE ~UNCHANGED admissionVars
    <3>0. PICK closes \in BOOLEAN : RetireLeases({c}, IF closes THEN {c} ELSE {})
      BY <1>0, <2>2
    <3>1. /\ pending' \in [Label -> Client \cup {None}] /\ acq \in [Handle -> AcqState]
          /\ \A l \in Label : pending'[l] \in {pending[l], None}
      BY <1>0, <2>2 DEF AdmissionInv, AdmissionTypeOK
    <3>2. AdmissionInv'
      BY <1>0, <3>0, <3>1, RetireLeasesInv
    <3> QED BY <3>0, <3>1, <3>2, ForgetFacts
  <2> QED BY <2>1, <2>2
<1>4. tx'[c] = "rejected" /\ \A d \in Client \ {c} : tx'[d] = tx[d]
  BY <1>0 DEF TypeOK
<1>5. TypeOK'
  <2>1. disc' \in [Client -> DiscState] /\ retired' \in SUBSET Client
    BY DEF Reject, BootReject, Retire, TypeOK, DiscState
  <2> QED BY <1>0, <1>3, <2>1 DEF registryVars, TypeOK, AdmissionInv, TxState
<1>6. UNCHANGED <<built, previous, call, phase, stopped, acq, clients>>
  BY <1>0 DEF registryVars
<1> HIDE DEF gone
<1> QED BY <1>0, <1>1, <1>2, <1>3, <1>4, <1>5, <1>6, OwnTransaction

LEMMA OwnReleases ==
  ASSUME OwnInv, NEW h \in Handle, ReleaseConfirmed(h) \/ ReleaseGivesUp(h)
  PROVE  OwnInv'
<1>1. AdmissionInv' /\ UNCHANGED reloadVars
  BY CloseConfirmedInv, CloseUnconfirmedInv DEF OwnInv, ReleaseConfirmed, ReleaseGivesUp
<1>2. UNCHANGED <<acq, pending, stopped, active, forgotten>>
  BY DEF ReleaseConfirmed, ReleaseGivesUp, CloseConfirmed, CloseUnconfirmed
<1>3. TypeOK' /\ NamesAreBuilt'
  BY <1>1, <1>2, NamesStay DEF OwnInv, TypeOK, AdmissionInv, reloadVars
<1> QED BY <1>1, <1>2, <1>3, OwnMoves DEF OwnInv, reloadVars

LEMMA OwnDisconnects ==
  ASSUME OwnInv, NEW c \in Client, Disconnects(c)
  PROVE  OwnInv'
<1> USE DEF OwnInv, Disconnects, registryVars
<1>1. AdmissionInv' /\ UNCHANGED <<acq, pending, stopped, forgotten>>
  BY AdmissionUnchanged DEF admissionVars, leaseVars
<1>2. TypeOK'
  BY <1>1 DEF TypeOK, AdmissionInv, DiscState
<1>3. NamesAreBuilt'
  BY <1>1, NamesStay
<1> QED BY <1>1, <1>2, <1>3, OwnMoves

LEMMA OwnLeaseSteps ==
  ASSUME OwnInv, LeaseStep \/ StopReleases
  PROVE  OwnInv'
<1>0. AdmissionInv /\ AdmissionTypeOK /\ UNCHANGED reloadVars
  BY DEF OwnInv, AdmissionInv, LeaseStep, StopReleases
<1> USE HandleOf DEF Op
<1>1. /\ AdmissionInv' /\ UNCHANGED forgotten
      /\ \A l \in Label : pending'[l] \in {pending[l], None}
      /\ stopped' => phase = "stopped"
      /\ \A g \in Handle :
          /\ acq[g] = "published" => acq'[g] = "published"
          /\ acq[g] = "idle" => acq'[g] = "idle"
          /\ acq'[g] \in {"acquiring", "acquired"} => acq[g] \in {"acquiring", "acquired"}
  <2>1. ASSUME NEW h \in Handle, ThreadAcquires(h) \/ ThreadGivesUp(h) PROVE <1>1!:
    <3>1. AdmissionInv'
      BY <1>0, <2>1, ThreadAcquiresInv, AcquireMoves DEF ThreadGivesUp
    <3> QED BY <1>0, <2>1, <3>1 DEF ThreadAcquires, ThreadGivesUp, AdmissionTypeOK, leaseVars, OwnInv
  <2>2. ASSUME NEW c \in Client, ClaimResumes(c) PROVE <1>1!:
    <3>1. AdmissionInv'
      BY <1>0, <2>2, PublishInv, RefuseInv DEF ClaimResumes, AdmissionTypeOK
    <3> QED BY <1>0, <2>2, <3>1 DEF ClaimResumes, Publish, Refuse, AdmissionTypeOK, leaseVars, OwnInv
  <2>3. ASSUME NEW c \in Client, AdmitResumes(c) PROVE <1>1!:
    <3>0. pending' \in [Label -> Client \cup {None}] /\ \A l \in Label : pending'[l] \in {pending[l], None}
      BY <1>0, <2>3, AdmissionAssumption DEF AdmitResumes, AdmissionTypeOK
    <3>1. AdmissionInv'
      BY <1>0, <2>3, <3>0, PublishInv, RefuseInv DEF AdmitResumes
    <3> QED BY <1>0, <2>3, <3>0, <3>1 DEF AdmitResumes, Publish, Refuse, AdmissionTypeOK, leaseVars, OwnInv
  <2>4. ASSUME NEW s \in Session, OtherTakes(s) \/ OtherExits(s) PROVE <1>1!:
    <3>1. AdmissionInv'
      BY <1>0, <2>4, OtherMovesInv
    <3> QED BY <1>0, <2>4, <3>1 DEF OtherTakes, OtherExits, leaseVars, OwnInv
  <2>5. CASE StopReleases
    <3>1. AdmissionInv'
      BY <1>0, <2>5, ReleaseAllInv DEF StopReleases
    <3> QED BY <1>0, <2>5, <3>1 DEF StopReleases, ReleaseAll
  <2> QED BY <2>1, <2>2, <2>3, <2>4, <2>5 DEF LeaseStep
<1>2. TypeOK' /\ NamesAreBuilt'
  BY <1>0, <1>1, NamesStay DEF OwnInv, TypeOK, AdmissionInv, reloadVars
<1>3. \A c \in Client : \A op \in Op : <<op, c>> \in Handle
  OBVIOUS
<1>4. DeedsInv'
  BY <1>0, <1>1, <1>3, DeedsStay DEF OwnInv, reloadVars, DeedsInv, UnbuiltIsUntouched
<1> QED BY <1>0, <1>1, <1>2, <1>4 DEF OwnInv, reloadVars

LEMMA OwnCalls ==
  ASSUME OwnInv, NEW k \in Call,
         CallBegins(k) \/ EnsureConnected(k) \/ AdmissionSettled(k) \/ ReconnectCloses(k) \/ ReconnectOpens(k)
  PROVE  OwnInv'
<1> USE DEF OwnInv
<1>1. UNCHANGED <<callUnchanged, pending, stopped, forgotten>> /\ \A j \in Call : j # k => call'[j] = call[j]
  BY DEF CallBegins, EnsureConnected, AdmissionSettled, ReconnectCloses, ReconnectOpens, StartAdmit,
         callUnchanged, admissionVars, leaseVars, TypeOK
<1>2. /\ call'[k] \in CallState
      /\ call'[k] # Idle => call'[k].client \in built
      /\ call' \in [Call -> CallState]
  <2>1. CASE CallBegins(k)
    <3>1. PICK l \in Label : /\ clients[l] # None
                             /\ call' = [call EXCEPT ![k] = [pc |-> "called", client |-> clients[l]]]
      BY <2>1 DEF CallBegins
    <3>2. clients[l] \in Client /\ clients[l] \in built
      BY <3>1 DEF NamesAreBuilt, RegistryIsBuilt, TypeOK
    <3> QED BY <3>1, <3>2 DEF TypeOK, CallState
  <2>2. CASE ~CallBegins(k)
    <3>1. call[k] # Idle /\ call[k] \in CallState /\ Idle \in CallState
      BY <2>2 DEF EnsureConnected, AdmissionSettled, ReconnectCloses, ReconnectOpens, Idle, TypeOK, CallState
    <3>2. call[k].client \in built
      BY <3>1 DEF NamesAreBuilt
    <3>3. \E p \in {"admitting", "reconnecting", "opening"} :
            call' = [call EXCEPT ![k] = Idle] \/ call' = [call EXCEPT ![k].pc = p]
      BY <2>2 DEF EnsureConnected, AdmissionSettled, ReconnectCloses, ReconnectOpens
    <3> QED BY <3>1, <3>2, <3>3 DEF TypeOK, CallState
  <2> QED BY <2>1, <2>2
<1>3. socket' \in SUBSET Client
  <2>1. CASE ReconnectOpens(k)
    <3>1. call[k] # Idle
      BY <2>1 DEF ReconnectOpens, Idle
    <3>2. call[k].client \in Client
      BY <3>1 DEF NamesAreBuilt, TypeOK
    <3> QED BY <2>1, <3>2 DEF ReconnectOpens, TypeOK
  <2>2. CASE ~ReconnectOpens(k)
    BY <2>2 DEF CallBegins, EnsureConnected, AdmissionSettled, ReconnectCloses, TypeOK
  <2> QED BY <2>1, <2>2
<1>4. NamesAreBuilt'
  <2>1. RegistryIsBuilt'
    BY <1>1 DEF NamesAreBuilt, RegistryIsBuilt, callUnchanged
  <2> QED BY <1>1, <1>2, <2>1 DEF NamesAreBuilt, callUnchanged
<1>5. CASE UNCHANGED admissionVars
  <2>1. AdmissionInv' /\ UNCHANGED acq
    BY <1>5, AdmissionUnchanged DEF admissionVars
  <2>2. TypeOK'
    BY <1>1, <1>2, <1>3, <2>1 DEF TypeOK, AdmissionInv, callUnchanged
  <2> QED BY <1>1, <1>4, <2>1, <2>2, OwnMoves DEF callUnchanged
<1>6. CASE EnsureConnected(k) /\ StartAdmit(call[k].client)
  <2> DEFINE c == call[k].client
             h == <<"admit", c>>
  <2>0. c \in Client /\ c \in built
    <3>1. call[k] # Idle
      BY <1>6 DEF EnsureConnected, Idle
    <3> QED BY <3>1 DEF NamesAreBuilt, TypeOK
  <2>1. h \in Handle
    BY <2>0, HandleOf DEF Op
  <2>2. AdmissionInv'
    BY <1>6, <2>1, AcquireMoves DEF StartAdmit
  <2>3. acq[h] \in {"idle", "failed"} /\ \A g \in Handle : g # h => acq'[g] = acq[g]
    BY <1>6 DEF StartAdmit, AdmissionInv, AdmissionTypeOK
  <2>4. TypeOK'
    BY <1>1, <1>2, <1>3, <2>2 DEF TypeOK, AdmissionInv, callUnchanged
  <2>5. \A d \in Client : \A op \in Op : <<op, d>> \in Handle /\ (op = "claim" \/ d # c => <<op, d>> # h)
    BY <2>0, HandleOf
  <2> HIDE DEF h, c
  <2>6. DeedsInv'
    BY <1>1, <2>0, <2>3, <2>5, DeedsStay DEF callUnchanged
  <2> QED BY <1>1, <1>4, <2>2, <2>4, <2>6 DEF callUnchanged
<1> QED BY <1>5, <1>6 DEF CallBegins, EnsureConnected, AdmissionSettled, ReconnectCloses, ReconnectOpens

LEMMA OwnStepInv ==
  ASSUME OwnInv, [Next]_vars
  PROVE  OwnInv'
<1>1. CASE EditFile \/ BootDone \/ Stop \/ UNCHANGED vars \/ \E t \in batches : SettleBatch(t)
  BY <1>1, OwnFileMoves
<1>2. CASE Reload
  <2>1. CASE \E b : ReloadApplies(b)
    BY <2>1, OwnReloadApplies
  <2>2. CASE ReloadRefuses
    BY <2>2, OwnFileMoves
  <2> QED BY <1>2, <2>1, <2>2 DEF Reload, ReloadApplies, ReloadRefuses
<1>3. ASSUME NEW c \in Client, BootClaims(c) \/ BootActivate(c) \/ ClaimDone(c) \/ Connects(c)
                               \/ Activate(c) \/ BootReject(c) \/ Reject(c) \/ Disconnects(c)
      PROVE  OwnInv'
  BY <1>3, OwnAdvances, OwnActivate, OwnRejects, OwnDisconnects
<1>4. ASSUME NEW h \in Handle, ReleaseConfirmed(h) \/ ReleaseGivesUp(h) PROVE OwnInv'
  BY <1>4, OwnReleases
<1>5. ASSUME NEW k \in Call, CallBegins(k) \/ EnsureConnected(k) \/ AdmissionSettled(k)
                             \/ ReconnectCloses(k) \/ ReconnectOpens(k)
      PROVE  OwnInv'
  BY <1>5, OwnCalls
<1>6. CASE LeaseStep \/ StopReleases
  BY <1>6, OwnLeaseSteps
<1> QED BY <1>1, <1>2, <1>3, <1>4, <1>5, <1>6 DEF Next

LEMMA OwnInvariance == Spec => []OwnInv
<1>1. OwnInv /\ [Next]_vars => OwnInv'
  BY OwnStepInv
<1> QED BY <1>1, OwnInitInv, PTL DEF Spec

(* The variables of the account lifecycle keep their types.                *)
THEOREM ReloadTypeCorrect == Spec => []TypeOK
<1>1. OwnInv => TypeOK
  BY DEF OwnInv
<1> QED BY <1>1, OwnInvariance, PTL

(* Whatever revisions overlap and calls reconnect, a client that passed    *)
(* its claim keeps its session until it is retired or its admission fails  *)
(* (account_lifecycle.admit, retirement.retire, admission.forget).         *)
THEOREM AdmittedClientsAreLeased == Spec => []AdmittedClientsKeepTheirLeases
<1>1. OwnInv => AdmittedClientsKeepTheirLeases
  <2> SUFFICES ASSUME OwnInv, phase # "stopped", NEW c \in Client \ retired,
                      tx[c] \in {"connecting", "authorizing", "active"}
               PROVE  Leased(c)
    BY DEF AdmittedClientsKeepTheirLeases
  <2>1. HasLease(c) /\ ~stopped
    BY ClaimedIsKept DEF OwnInv, DeedsInv
  <2> QED BY <2>1, HasLeaseIsLeased DEF OwnInv
<1> QED BY <1>1, OwnInvariance, PTL

----------------------------------------------------------------------------
LEMMA ReloadInvariance == Spec => [](overlapped \/ ReloadInv)
<1>1. (overlapped \/ ReloadInv) /\ OwnInv /\ [Next]_vars => (overlapped \/ ReloadInv)'
  <2> SUFFICES ASSUME overlapped \/ ReloadInv, OwnInv, [Next]_vars, ~overlapped'
               PROVE  ReloadInv'
    OBVIOUS
  <2>1. ~overlapped
    BY OverlapIsRecorded DEF OwnInv
  <2> QED BY <2>1, ReloadStepInv
<1> QED BY <1>1, ReloadInitInv, OwnInvariance, PTL DEF Spec

(* While no revision was applied over a transaction in flight: whatever    *)
(* connects a client, its admission or a tool call that reconnects it, a   *)
(* client that was not retired holds its session                           *)
(* (reconnect.ensure_connected, admission).                                *)
THEOREM ConnectedMeansLeased == Spec => []ConnectedClientsAreLeased
<1>1. overlapped \/ ReloadInv => ConnectedClientsAreLeased
  <2> SUFFICES ASSUME ReloadInv, phase # "stopped", NEW c \in socket, c \notin retired
               PROVE  Leased(c)
    BY DEF ConnectedClientsAreLeased
  <2>1. c \in Client /\ ~stopped /\ HasLease(c)
    BY DEF ReloadInv, TypeOK, LifeInv, BootComesFirst, CoverInv, SocketsAreCovered
  <2> QED BY <2>1, HasLeaseIsLeased DEF ReloadInv
<1> QED BY <1>1, ReloadInvariance, PTL

----------------------------------------------------------------------------
(* The clients in service implement ExclusiveSession.                      *)

(* The mapping: who owns each session, and who is connected and in service.*)
Owned == [s \in Session |-> IF holder[s] \in Handle THEN ClientOf(holder[s]) ELSE holder[s]]
Live  == IF phase = "stopped" THEN {} ELSE InService

(* A step of the abstract specification, or none.                          *)
ServiceStep == Serving!ExclusiveNext \/ (Owned' = Owned /\ Live' = Live)

LEMMA LiveHolds ==
  ASSUME OwnInv, NEW c \in Live
  PROVE  /\ c \in Client
         /\ holder[SessionOf[c]] = <<"claim", c>>
         /\ forgotten[<<"claim", c>>] = 0
<1>1. /\ c \in Client \ retired /\ ~stopped
      /\ tx[c] \in {"connecting", "authorizing", "active"}
  BY DEF Live, InService, OwnInv, TypeOK
<1>2. acq[<<"claim", c>>] = "published" /\ forgotten[<<"claim", c>>] = 0
  BY <1>1, ClaimedIsKept DEF OwnInv, DeedsInv
<1>3. <<"claim", c>> \in Handle /\ SessionOfLock(<<"claim", c>>) = SessionOf[c]
  BY <1>1, HandleOf DEF Op
<1>4. Held(<<"claim", c>>)
  BY <1>1, <1>2, <1>3, PublishedIsHeld DEF OwnInv
<1> QED BY <1>1, <1>2, <1>3, <1>4 DEF Held

LEMMA LiveUnchanged ==
  ASSUME UNCHANGED <<phase, socket, retired, tx>>
  PROVE  Live' = Live
BY DEF Live, InService

LEMMA StepTakes ==
  ASSUME NEW s \in Session, NEW h \in Handle \cup {Other}, TypeOK,
         holder[s] = None, h \in Handle => SessionOfLock(h) = s,
         holder' = [holder EXCEPT ![s] = h], Live' = Live
  PROVE  ServiceStep
<1> DEFINE o == IF h \in Handle THEN ClientOf(h) ELSE h
<1>1. o \in Client \cup {Other} /\ (o \in DOMAIN SessionOf => SessionOf[o] = s)
  BY HandleFacts, AdmissionAssumption DEF SessionOfLock
<1>2. Owned[s] = None /\ Owned' = [Owned EXCEPT ![s] = o]
  BY AdmissionAssumption DEF Owned, TypeOK, AdmissionTypeOK
<1> HIDE DEF o
<1>3. Serving!Take(s, o)
  BY <1>1, <1>2 DEF Serving!Take, Serving!Ours, Owned, Live
<1> QED BY <1>1, <1>3 DEF ServiceStep, Serving!ExclusiveNext

LEMMA StepGivesBack ==
  ASSUME NEW S \in SUBSET Session, TypeOK, Live' = Live,
         \A s \in S : holder[s] # None /\ holder'[s] = None,
         \A s \in Session \ S : holder'[s] = holder[s],
         \A c \in Live : SessionOf[c] \notin S
  PROVE  ServiceStep
<1>1. /\ \A s \in S : Owned[s] # None
      /\ Owned' = [s \in Session |-> IF s \in S THEN None ELSE Owned[s]]
  BY AdmissionAssumption, HandleFacts DEF Owned, TypeOK, AdmissionTypeOK
<1>2. \A s \in S : \A c \in Live : SessionOf[c] # s
  OBVIOUS
<1>3. Serving!GiveBack(S)
  BY <1>1, <1>2 DEF Serving!GiveBack, Serving!Idle, Owned, Live
<1> QED BY <1>3 DEF ServiceStep, Serving!ExclusiveNext

LEMMA StepReleases ==
  ASSUME OwnInv, NEW hs \in SUBSET Handle, holder' = ReleasedLocks(hs), Live' = Live,
         \A c \in Live : <<"claim", c>> \notin hs
  PROVE  ServiceStep
<1> DEFINE S == {s \in Session : holder[s] \in hs}
<1>1. \A s \in S : holder[s] # None /\ holder'[s] = None
  BY HandleFacts DEF ReleasedLocks
<1>2. \A s \in Session \ S : holder'[s] = holder[s]
  BY DEF ReleasedLocks
<1>3. ASSUME NEW c \in Live PROVE SessionOf[c] \notin S
  BY <1>3, LiveHolds
<1> HIDE DEF S
<1>4. S \in SUBSET Session
  BY DEF S
<1> QED BY <1>1, <1>2, <1>3, <1>4, StepGivesBack DEF OwnInv

(* Connections close and clients leave service.                            *)
LEMMA StepCloses ==
  ASSUME UNCHANGED holder, Live' \subseteq Live
  PROVE  ServiceStep
<1>1. Owned' = Owned
  BY DEF Owned
<1>2. Serving!Close
  BY <1>1 DEF Serving!Close, Owned, Live
<1> QED BY <1>2 DEF ServiceStep, Serving!ExclusiveNext

LEMMA StepConnects ==
  ASSUME OwnInv, UNCHANGED holder, OwnInv', NEW c \in Client,
         Live \subseteq Live', Live' \subseteq Live \cup {c}
  PROVE  ServiceStep
<1>1. CASE c \notin Live'
  BY <1>1, StepCloses
<1>2. CASE c \in Live'
  <2>1. Live' = Live \cup {c}
    BY <1>2
  <2>2. holder'[SessionOf[c]] = <<"claim", c>>
    <3>1. /\ c \in Client \ retired' /\ ~stopped'
          /\ tx'[c] \in {"connecting", "authorizing", "active"}
      BY <1>2 DEF Live, InService, OwnInv
    <3>2. acq'[<<"claim", c>>] = "published" /\ forgotten'[<<"claim", c>>] = 0
      <4>1. acq'[<<"claim", c>>] = "published"
        BY <3>1 DEF OwnInv, DeedsInv, ClaimsFollowTx
      <4>2. forgotten'[<<"claim", c>>] \in Nat /\ ~(forgotten'[<<"claim", c>>] > 0)
        BY <3>1, HandleOf DEF Op, OwnInv, DeedsInv, ForgottenIsRetired, AdmissionInv, AdmissionTypeOK
      <4> QED BY <4>1, <4>2
    <3>3. <<"claim", c>> \in Handle /\ SessionOfLock(<<"claim", c>>) = SessionOf[c]
      BY HandleOf DEF Op
    <3>4. Held(<<"claim", c>>)'
      BY <3>1, <3>2, <3>3, HandleFacts
         DEF OwnInv, AdmissionInv, PublishedIsLeased, RetiringLeaseIsHeld, ServingIsNotForgotten, Leases
    <3> QED BY <3>3, <3>4 DEF Held
  <2>3. Owned[SessionOf[c]] = c /\ SessionOf[c] \in Session /\ c \in DOMAIN SessionOf /\ Owned' = Owned
    BY <2>2, HandleOf, AdmissionAssumption DEF Owned, Op
  <2>4. Serving!Connect(c)
    BY <2>1, <2>3 DEF Serving!Connect, Serving!Ours, Owned, Live
  <2> QED BY <2>4 DEF ServiceStep, Serving!ExclusiveNext
<1> QED BY <1>1, <1>2

LEMMA InitIsExclusive == Init => Serving!ExclusiveInit
BY AdmissionAssumption DEF Init, AdmissionInit, Serving!ExclusiveInit, Serving!Ours, InService

LEMMA StepIsExclusive ==
  ASSUME OwnInv, OwnInv', [Next]_vars
  PROVE  ServiceStep
<1>0. TypeOK /\ AdmissionInv /\ AdmissionTypeOK /\ (stopped => phase = "stopped")
  BY DEF OwnInv, AdmissionInv
<1> USE HandleOf DEF Op
<1>1. CASE EditFile \/ BootDone \/ Stop \/ (\E t \in batches : SettleBatch(t)) \/ UNCHANGED vars
  <2>1. UNCHANGED <<holder, socket, retired, tx>> /\ (phase = "stopped" => phase' = "stopped")
    BY <1>1 DEF EditFile, BootDone, Stop, SettleBatch, vars, reloadVars, admissionVars
  <2>2. Live' \subseteq Live
    BY <2>1 DEF Live, InService
  <2> QED BY <2>1, <2>2, StepCloses
<1>2. CASE Reload
  <2>1. UNCHANGED <<phase, socket>>
    BY <1>2 DEF Reload
  <2>2. ASSUME NEW b \in Builds, Apply(b)
        PROVE  /\ holder' = holder /\ retired \subseteq retired'
               /\ \A c \in Client : tx'[c] \in {"claiming", tx[c]}
    <3>1. PICK removed \in SUBSET Client : RetireLeases(removed, removed)
      <4>1. {clients[l] : l \in Removed} \in SUBSET Client
        BY <1>0 DEF Removed, TypeOK
      <4> QED BY <2>2, <4>1 DEF Apply
    <3>2. holder' = holder
      BY <1>0, <3>1, RetireLocks
    <3> QED BY <2>2, <3>2 DEF Apply, Retire
  <2>3. /\ holder' = holder /\ retired \subseteq retired'
        /\ \A c \in Client : tx'[c] \in {"claiming", tx[c]}
    BY <1>2, <2>2 DEF Reload, admissionVars
  <2>4. Live' \subseteq Live
    BY <1>0, <2>1, <2>3 DEF Live, InService, TypeOK
  <2> QED BY <2>3, <2>4, StepCloses
<1>3. ASSUME NEW c \in Client, BootClaims(c) \/ ClaimDone(c) \/ BootActivate(c)
      PROVE  ServiceStep
  <2>1. UNCHANGED <<holder, phase, socket, retired>>
    BY <1>3 DEF BootClaims, ClaimDone, BootActivate, StartClaim, ClaimReturns, admissionVars, registryVars
  <2>2. tx'[c] \in {"claiming", "connecting"} \/ tx[c] = "authorizing"
    BY <1>0, <1>3 DEF BootClaims, ClaimDone, BootActivate, Advance, TypeOK
  <2>3. \A d \in Client : d # c => tx'[d] = tx[d]
    BY <1>0, <1>3 DEF BootClaims, ClaimDone, BootActivate, Advance, TypeOK
  <2>4. Live' \subseteq Live
    BY <1>0, <2>1, <2>2, <2>3 DEF Live, InService, TypeOK
  <2> QED BY <2>1, <2>4, StepCloses
<1>4. ASSUME NEW c \in Client, Connects(c) PROVE ServiceStep
  <2>1. UNCHANGED <<holder, phase, retired>> /\ socket' = socket \cup {c} /\ tx[c] = "connecting"
        /\ tx' = [tx EXCEPT ![c] = "authorizing"]
    BY <1>4 DEF Connects, Advance, admissionVars, registryVars
  <2>2. \A d \in Client : d # c => tx'[d] = tx[d]
    BY <1>0, <2>1 DEF TypeOK
  <2>3. Live \subseteq Live' /\ Live' \subseteq Live \cup {c}
    BY <1>0, <2>1, <2>2 DEF Live, InService, TypeOK
  <2> QED BY <2>1, <2>3, StepConnects
<1>5. ASSUME NEW c \in Client, Activate(c) PROVE ServiceStep
  <2>1. /\ RetireLeases(Predecessor(c), Predecessor(c)) /\ UNCHANGED <<phase, socket>>
        /\ retired \subseteq retired' /\ tx[c] = "authorizing" /\ tx' = [tx EXCEPT ![c] = "active"]
    BY <1>5 DEF Activate, Advance, Retire, registryVars
  <2>2. Predecessor(c) \in SUBSET Client
    BY <1>0 DEF Predecessor, TypeOK
  <2>3. holder' = holder
    BY <1>0, <2>1, <2>2, RetireLocks
  <2>4. \A d \in Client : d # c => tx'[d] = tx[d]
    BY <1>0, <2>1 DEF TypeOK
  <2>5. Live' \subseteq Live
    BY <1>0, <2>1, <2>4 DEF Live, InService, TypeOK
  <2> QED BY <2>3, <2>5, StepCloses
<1>6. ASSUME NEW c \in Client, Reject(c) \/ BootReject(c) PROVE ServiceStep
  <2>1. /\ \/ holder' = holder
           \/ RetireLeases({c}, {c})
           \/ tx[c] = "connecting" /\ RetireLeases({c}, {}) /\ UNCHANGED retired
        /\ UNCHANGED <<phase, socket>> /\ retired \subseteq retired'
        /\ tx' = [tx EXCEPT ![c] = "rejected"]
    BY <1>6 DEF Reject, BootReject, Retire, Forget, registryVars, admissionVars
  <2>0. {c} \in SUBSET Client /\ {c} \subseteq {c}
    OBVIOUS
  <2>a. tx'[c] = "rejected" /\ \A d \in Client : d # c => tx'[d] = tx[d]
    BY <1>0, <2>1 DEF TypeOK
  <2>b. Live' \subseteq Live
    BY <1>0, <2>1, <2>a DEF Live, InService, TypeOK
  <2>2. CASE RetireLeases({c}, {c})
    <3>1. holder' = holder
      BY <1>0, <2>0, <2>2, RetireLocks
    <3> QED BY <2>b, <3>1, StepCloses
  (* Its connect() timed out: it is not in service yet.                    *)
  <2>3. CASE tx[c] = "connecting" /\ RetireLeases({c}, {}) /\ UNCHANGED retired
    <3>1. PICK given \in SUBSET {h \in Handle : ClientOf(h) \in {c}} : holder' = ReleasedLocks(given)
      BY <1>0, <2>0, <2>3, RetireLocks
    <3>2. c \notin Live /\ Live' = Live
      BY <1>0, <2>1, <2>3, <2>a DEF Live, InService, TypeOK
    <3>3. \A d \in Live : <<"claim", d>> \notin given
      <4>1. \A d \in Live : d \in Client
        BY <1>0 DEF Live, InService, TypeOK
      <4> QED BY <3>1, <3>2, <4>1
    <3>4. given \in SUBSET Handle
      BY <3>1
    <3> QED BY <3>1, <3>2, <3>3, <3>4, StepReleases
  <2> QED BY <2>1, <2>2, <2>3, <2>b, StepCloses
<1>7. ASSUME NEW c \in Client, Disconnects(c) PROVE ServiceStep
  <2>1. UNCHANGED <<holder, phase, retired, tx>> /\ socket' = socket \ {c}
    BY <1>7 DEF Disconnects, admissionVars, registryVars
  <2>2. Live' \subseteq Live
    BY <2>1 DEF Live, InService
  <2> QED BY <2>1, <2>2, StepCloses
(* A release in flight is of a lease that was forgotten, so of a client    *)
(* that is out of service.                                                 *)
<1>8. ASSUME NEW h \in Handle, ReleaseConfirmed(h) PROVE ServiceStep
  <2>1. UNCHANGED <<phase, socket, retired, tx>> /\ holder' = ReleasedLocks({h}) /\ waiting[h] > 0
    BY <1>8 DEF ReleaseConfirmed, CloseConfirmed, reloadVars
  <2>2. forgotten[h] > 0
    BY <1>0, <2>1, WaitingDoesNotServe
  <2>3. \A c \in Live : <<"claim", c>> \notin {h}
    BY <2>2, LiveHolds
  <2>4. {h} \in SUBSET Handle /\ Live' = Live
    BY <2>1, LiveUnchanged
  <2> QED BY <2>1, <2>3, <2>4, StepReleases
<1>9. ASSUME NEW h \in Handle, ReleaseGivesUp(h) PROVE ServiceStep
  <2>1. Live' = Live /\ UNCHANGED holder
    BY <1>9, LiveUnchanged DEF ReleaseGivesUp, CloseUnconfirmed, reloadVars
  <2> QED BY <2>1, StepCloses
<1>10. CASE LeaseStep
  <2>0. Live' = Live
    BY <1>10, LiveUnchanged DEF LeaseStep, reloadVars
  <2>1. ASSUME NEW h \in Handle, ThreadAcquires(h) PROVE ServiceStep
    BY <1>0, <2>0, <2>1, HandleFacts, StepTakes DEF ThreadAcquires
  <2>2. ASSUME NEW h \in Handle, ThreadGivesUp(h) PROVE ServiceStep
    BY <2>0, <2>2, StepCloses DEF ThreadGivesUp
  (* A coroutine that refuses what its thread took: its client was never   *)
  (* admitted with it.                                                     *)
  <2>3. ASSUME NEW c \in Client, NEW op \in Op, acq[<<op, c>>] = "acquired", Refuse(<<op, c>>)
        PROVE  ServiceStep
    <3>1. holder' = ReleasedLocks({<<op, c>>}) /\ {<<op, c>>} \in SUBSET Handle
      BY <2>3 DEF Refuse
    <3>2. \A d \in Live : <<"claim", d>> \notin {<<op, c>>}
      <4> SUFFICES ASSUME NEW d \in Live, <<"claim", d>> = <<op, c>> PROVE FALSE
        OBVIOUS
      <4>1. tx[d] \in {"authorizing", "active"} /\ d \in Client
        BY <1>0 DEF Live, InService, TypeOK
      <4>2. acq[<<"claim", d>>] = "published"
        BY <4>1 DEF OwnInv, DeedsInv, ClaimsFollowTx
      <4> QED BY <2>3, <4>2
    <3> QED BY <2>0, <3>1, <3>2, StepReleases
  <2>4. ASSUME NEW h \in Handle, Publish(h) PROVE ServiceStep
    BY <2>0, <2>4, StepCloses DEF Publish
  <2>5. ASSUME NEW c \in Client, ClaimResumes(c) \/ AdmitResumes(c) PROVE ServiceStep
    BY <2>3, <2>4, <2>5 DEF ClaimResumes, AdmitResumes
  <2>6. ASSUME NEW s \in Session, OtherTakes(s) PROVE ServiceStep
    BY <1>0, <2>0, <2>6, AdmissionAssumption, StepTakes DEF OtherTakes
  <2>7. ASSUME NEW s \in Session, OtherExits(s) PROVE ServiceStep
    <3>1. holder[s] = Other /\ holder' = [holder EXCEPT ![s] = None]
      BY <2>7 DEF OtherExits
    <3>2. \A c \in Live : SessionOf[c] \notin {s}
      BY <3>1, LiveHolds, HandleFacts
    <3>3. \A r \in {s} : holder[r] # None /\ holder'[r] = None
      BY <1>0, <3>1, AdmissionAssumption DEF AdmissionTypeOK
    <3>4. \A r \in Session \ {s} : holder'[r] = holder[r]
      BY <1>0, <3>1 DEF AdmissionTypeOK
    <3>5. {s} \in SUBSET Session
      BY <2>7
    <3> QED BY <1>0, <2>0, <3>2, <3>3, <3>4, <3>5, StepGivesBack
  <2> QED BY <1>10, <2>1, <2>2, <2>5, <2>6, <2>7 DEF LeaseStep
<1>11. CASE StopReleases
  <2>1. phase = "stopped" /\ UNCHANGED reloadVars /\ holder' = ReleasedLocks(Leases)
    BY <1>11 DEF StopReleases, ReleaseAll
  <2>2. Leases \in SUBSET Handle
    BY <1>0 DEF Leases, AdmissionTypeOK
  <2>3. Live = {} /\ Live' = Live
    BY <2>1 DEF Live, reloadVars
  <2> QED BY <2>1, <2>2, <2>3, StepReleases
(* A call reconnects a client it was given earlier; the client is in       *)
(* service only with its lease.                                            *)
<1>12. ASSUME NEW k \in Call, ReconnectOpens(k) PROVE ServiceStep
  <2>1. UNCHANGED <<holder, phase, retired, tx>> /\ call[k] # Idle
    BY <1>12 DEF ReconnectOpens, callUnchanged, admissionVars, Idle
  <2>2. call[k].client \in Client
    BY <1>0, <2>1 DEF OwnInv, NamesAreBuilt, TypeOK
  <2>3. Live \subseteq Live' /\ Live' \subseteq Live \cup {call[k].client}
    BY <1>12, <2>1 DEF ReconnectOpens, Live, InService
  <2> QED BY <2>1, <2>2, <2>3, StepConnects
<1>13. ASSUME NEW k \in Call, CallBegins(k) \/ EnsureConnected(k) \/ AdmissionSettled(k) \/ ReconnectCloses(k)
       PROVE  ServiceStep
  <2>1. UNCHANGED <<holder, phase, retired, tx>> /\ socket' \subseteq socket
    BY <1>13 DEF CallBegins, EnsureConnected, AdmissionSettled, ReconnectCloses, StartAdmit,
                 callUnchanged, admissionVars
  <2>2. Live' \subseteq Live
    BY <2>1 DEF Live, InService
  <2> QED BY <2>1, <2>2, StepCloses
<1> QED
  BY <1>1, <1>2, <1>3, <1>4, <1>5, <1>6, <1>7, <1>8, <1>9, <1>10, <1>11, <1>12, <1>13 DEF Next

(* Whatever revisions overlap, admissions fail, calls reconnect, other     *)
(* processes and shutdown do: a session has one owner, only that owner is  *)
(* in service on it, and it changes hands only while nobody is             *)
(* (admission.py and singleton.py, module docstrings).                     *)
THEOREM LifecycleIsExclusive == Spec => ServiceIsExclusive
<1>1. OwnInv /\ OwnInv' /\ [Next]_vars => [Serving!ExclusiveNext]_Serving!exclusiveVars
  BY StepIsExclusive DEF ServiceStep, Serving!exclusiveVars, Owned, Live
<1> QED BY <1>1, InitIsExclusive, OwnInvariance, PTL
        DEF Spec, ServiceIsExclusive, Serving!ExclusiveSpec
=============================================================================

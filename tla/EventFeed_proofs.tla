-------------------------- MODULE EventFeed_proofs --------------------------
(***************************************************************************)
(* Proofs about EventFeed for any accounts, chats, messages and waiters.   *)
(*                                                                         *)
(* That every message is accounted for is a partition: the messages that   *)
(* were recorded, the pending bursts and the four places a burst may have  *)
(* gone to.  Every step of the module either moves whole bursts out of the *)
(* map (a scan, an expiry, a removal) or adds one message to one burst, so *)
(* two lemmas about the map carry the proof; FeedInv adds what they need   *)
(* to know of a handler and of a burst.  That a burst is of one login is   *)
(* an invariant on top of it (LoginsAreInOrder); where a wake-up may be     *)
(* lost is seen step by step.                                              *)
(*                                                                         *)
(* The ceiling needs an order: bursts differ in when they were last        *)
(* active, so those that stay all come after the oldest of them, and it    *)
(* stays only if fewer than PendingMax do.                                 *)
(***************************************************************************)
EXTENDS EventFeed, FiniteSetTheorems, WellFoundedInduction, TLAPS

(* The messages r that were recorded are, once each, in the map p or in    *)
(* one of the places t, w, d and f.                                        *)
Accounted(p, r, t, w, d, f) ==
  /\ \A j, k \in Key : j # k => p[j].msgs \cap p[k].msgs = {}
  /\ r = Msgs(p, Key) \cup t \cup w \cup d \cup f
  /\ Msgs(p, Key) \cap (t \cup w \cup d \cup f) = {}
  /\ t \cap (w \cup d \cup f) = {}
  /\ w \cap (d \cup f) = {}
  /\ d \cap f = {}

(* What a burst says of itself is true.                                    *)
Truthful(b) ==
  /\ IsFiniteSet(b.msgs) /\ b.count = Cardinality(b.msgs)
  /\ b.first \in b.msgs /\ b.last \in b.msgs
  /\ \A m \in b.msgs : b.first <= m /\ m <= b.last

Possible(p) ==
  /\ p \in [Key -> Burst \cup {NoBurst}]
  /\ \A k \in Key : p[k] = NoBurst \/ (p[k] \in Burst /\ Truthful(p[k]))

(* A handler that is suspended knows its client and its chat.              *)
SuspendedIsNamed ==
  \A m \in Msg : handler[m].pc = "suspended" =>
    handler[m].client \in Client /\ handler[m].chat \in Chat

FeedInv ==
  /\ TypeOK
  /\ Possible(pending)
  /\ SuspendedIsNamed
  /\ IsFiniteSet(Recorded)
  /\ Accounted(pending, Recorded, taken, written, dropped, forgotten)

----------------------------------------------------------------------------
(* The map. *)

LEMMA MsgsFacts ==
  ASSUME NEW p, NEW ks
  PROVE  \A m : m \in Msgs(p, ks) <=> \E k \in ks : m \in p[k].msgs
BY DEF Msgs

LEMMA WithoutFacts ==
  ASSUME NEW p, NEW ks
  PROVE  \A k \in Key : Without(p, ks)[k].msgs = IF k \in ks THEN {} ELSE p[k].msgs
BY DEF Without, NoBurst

(* Leaving out twice is leaving out both.                                  *)
LEMMA WithoutTwice ==
  ASSUME NEW p, NEW js, NEW ks
  PROVE  Without(Without(p, js), ks) = Without(p, js \cup ks)
BY DEF Without

(* Whole bursts E, T, W and F leave the map for the places they belong to. *)
LEMMA LeavingIsAccounted ==
  ASSUME NEW p, NEW r, NEW t, NEW w, NEW d, NEW f, Accounted(p, r, t, w, d, f),
         NEW T \in SUBSET Key, NEW W \in SUBSET Key, NEW E \in SUBSET Key, NEW F \in SUBSET Key,
         T \cap (W \cup E \cup F) = {}, W \cap (E \cup F) = {}, E \cap F = {}
  PROVE  Accounted(Without(p, T \cup W \cup E \cup F), r, t \cup Msgs(p, T), w \cup Msgs(p, W),
                   d \cup Msgs(p, E), f \cup Msgs(p, F))
<1> DEFINE q == Without(p, T \cup W \cup E \cup F)
<1>1. \A k \in Key : q[k].msgs = IF k \in T \cup W \cup E \cup F THEN {} ELSE p[k].msgs
  BY WithoutFacts
<1> HIDE DEF q
<1>2. \A m : m \in Msgs(q, Key) <=> \E k \in Key : k \notin T \cup W \cup E \cup F /\ m \in p[k].msgs
  BY <1>1, MsgsFacts
<1>3. \A m : m \in Msgs(p, Key) <=>
               m \in Msgs(q, Key) \cup Msgs(p, T) \cup Msgs(p, W) \cup Msgs(p, E) \cup Msgs(p, F)
  BY <1>2, MsgsFacts
<1>4. ASSUME NEW m, NEW j \in Key, NEW k \in Key, m \in p[j].msgs, m \in p[k].msgs PROVE j = k
  BY <1>4 DEF Accounted
<1>5. /\ Msgs(q, Key) \cap (Msgs(p, T) \cup Msgs(p, W) \cup Msgs(p, E) \cup Msgs(p, F)) = {}
      /\ Msgs(p, T) \cap (Msgs(p, W) \cup Msgs(p, E) \cup Msgs(p, F)) = {}
      /\ Msgs(p, W) \cap (Msgs(p, E) \cup Msgs(p, F)) = {}
      /\ Msgs(p, E) \cap Msgs(p, F) = {}
  BY <1>2, <1>4, MsgsFacts
<1>6. \A j, k \in Key : j # k => q[j].msgs \cap q[k].msgs = {}
  BY <1>1 DEF Accounted
<1>7. Accounted(q, r, t \cup Msgs(p, T), w \cup Msgs(p, W), d \cup Msgs(p, E), f \cup Msgs(p, F))
  BY <1>3, <1>5, <1>6 DEF Accounted
<1> QED BY <1>7 DEF q

(* A message that was not recorded before joins the burst at k.            *)
LEMMA RecordingIsAccounted ==
  ASSUME NEW p, NEW r, NEW t, NEW w, NEW d, NEW f, Accounted(p, r, t, w, d, f),
         NEW m, m \notin r, NEW k \in Key, NEW q,
         \A j \in Key : q[j].msgs = IF j = k THEN p[j].msgs \cup {m} ELSE p[j].msgs
  PROVE  Accounted(q, r \cup {m}, t, w, d, f)
<1>1. ASSUME NEW x PROVE x \in Msgs(q, Key) <=> x = m \/ x \in Msgs(p, Key)
  <2>1. x \in Msgs(q, Key) <=> \E j \in Key : x \in q[j].msgs
    BY MsgsFacts
  <2>2. x \in Msgs(p, Key) <=> \E j \in Key : x \in p[j].msgs
    BY MsgsFacts
  <2>3. x \in q[k].msgs <=> x = m \/ x \in p[k].msgs
    OBVIOUS
  <2> QED BY <2>1, <2>2, <2>3
<1>2. \A j \in Key : m \notin p[j].msgs
  BY MsgsFacts DEF Accounted
<1>3. \A i, j \in Key : i # j => q[i].msgs \cap q[j].msgs = {}
  BY <1>2 DEF Accounted
<1> QED BY <1>1, <1>3 DEF Accounted

LEMMA WithoutIsPossible ==
  ASSUME NEW p, Possible(p), NEW ks
  PROVE  Possible(Without(p, ks))
BY DEF Possible, Without

(* A burst that started or grew says what is true of it.                   *)
LEMMA ExtendedIsTruthful ==
  ASSUME NEW b, b = NoBurst \/ (b \in Burst /\ Truthful(b)), NEW m \in Msg, m \notin b.msgs,
         clock \in Nat
  PROVE  /\ Extended(b, m) \in Burst
         /\ Truthful(Extended(b, m))
         /\ Extended(b, m).msgs = b.msgs \cup {m}
<1>0. m \in Nat
  BY EventFeedAssumption
<1>1. CASE b = NoBurst
  <2>1. Extended(b, m) = Started(m) /\ b.msgs = {}
    BY <1>1 DEF Extended, NoBurst
  <2>2. IsFiniteSet({m}) /\ Cardinality({m}) = 1
    BY FS_Singleton
  <2> QED BY <1>0, <2>1, <2>2 DEF Started, Burst, Truthful, Age
<1>2. CASE b # NoBurst
  <2>0. b \in Burst /\ Truthful(b)
    BY <1>2
  <2> DEFINE e == Extended(b, m)
  <2>1. e = [b EXCEPT !.count = @ + 1,
                      !.first = IF m < @ THEN m ELSE @,
                      !.last = IF m > @ THEN m ELSE @,
                      !.latest = clock, !.age = "fresh", !.msgs = @ \cup {m}]
    BY <1>2 DEF Extended
  <2> HIDE DEF e
  <2>2. /\ e.count = b.count + 1
        /\ e.first = IF m < b.first THEN m ELSE b.first
        /\ e.last = IF m > b.last THEN m ELSE b.last
        /\ e.msgs = b.msgs \cup {m}
        /\ e.latest = clock /\ e.age = "fresh"
        /\ e = [count |-> e.count, first |-> e.first, last |-> e.last, latest |-> e.latest,
                age |-> e.age, msgs |-> e.msgs]
    BY <2>0, <2>1 DEF Burst
  <2>3. b.msgs \in SUBSET Nat /\ b.first \in Nat /\ b.last \in Nat
    BY <2>0, EventFeedAssumption DEF Burst
  <2>4. IsFiniteSet(e.msgs) /\ Cardinality(e.msgs) = b.count + 1
    <3>1. IsFiniteSet(b.msgs) /\ Cardinality(b.msgs) = b.count
      BY <2>0 DEF Truthful
    <3>2. /\ IsFiniteSet(b.msgs \cup {m})
          /\ Cardinality(b.msgs \cup {m}) = Cardinality(b.msgs) + 1
      BY <3>1, FS_AddElement, Zenon
    <3> QED BY <2>2, <3>1, <3>2
  <2>5. \A x \in e.msgs : e.first <= x /\ x <= e.last
    BY <1>0, <2>0, <2>2, <2>3 DEF Truthful
  <2>6. e.first \in e.msgs /\ e.last \in e.msgs
    BY <2>0, <2>2 DEF Truthful
  <2>7. e \in Burst
    BY <1>0, <2>0, <2>2, <2>3, EventFeedAssumption DEF Burst, Age
  <2> QED BY <2>2, <2>4, <2>5, <2>6, <2>7 DEF Truthful, e
<1> QED BY <1>1, <1>2

----------------------------------------------------------------------------
(* FeedInv. *)

LEMMA FeedInitInv == Init => FeedInv
<1> SUFFICES ASSUME Init PROVE FeedInv
  OBVIOUS
<1> USE DEF Init
<1>1. TypeOK /\ Possible(pending)
  BY DEF TypeOK, Possible, NoClients, HandlerState, Unsent, CallState, CallPC, Idle, FeedPC
<1>2. SuspendedIsNamed /\ Recorded = {}
  BY DEF SuspendedIsNamed, Recorded, Unsent
<1>3. Msgs(pending, Key) = {}
  BY MsgsFacts DEF NoBurst
<1>4. Accounted(pending, Recorded, taken, written, dropped, forgotten)
  BY <1>2, <1>3 DEF Accounted, NoBurst
<1> QED BY <1>1, <1>2, <1>4, FS_EmptySet DEF FeedInv

(* Steps that leave the map, its places and the handlers as they are.      *)
LEMMA FeedUnchanged ==
  ASSUME FeedInv, TypeOK', UNCHANGED <<pending, handler, outcomeVars>>
  PROVE  FeedInv'
BY DEF FeedInv, SuspendedIsNamed, Recorded, outcomeVars

(* Steps that take bursts out of the map.                                  *)
LEMMA FeedLeaves ==
  ASSUME FeedInv, TypeOK', UNCHANGED handler,
         NEW T \in SUBSET Key, NEW W \in SUBSET Key, NEW E \in SUBSET Key, NEW F \in SUBSET Key,
         T \cap (W \cup E \cup F) = {}, W \cap (E \cup F) = {}, E \cap F = {},
         pending' = Without(pending, T \cup W \cup E \cup F),
         taken' = taken \cup Msgs(pending, T), written' = written \cup Msgs(pending, W),
         dropped' = dropped \cup Msgs(pending, E), forgotten' = forgotten \cup Msgs(pending, F)
  PROVE  FeedInv'
<1>1. SuspendedIsNamed' /\ Recorded' = Recorded
  BY DEF FeedInv, SuspendedIsNamed, Recorded
<1>2. Possible(pending')
  BY WithoutIsPossible DEF FeedInv
<1>3. Accounted(pending', Recorded, taken', written', dropped', forgotten')
  BY LeavingIsAccounted DEF FeedInv
<1> QED BY <1>1, <1>2, <1>3 DEF FeedInv

LEMMA MsgsAreMessages ==
  ASSUME NEW p, Possible(p), NEW ks \in SUBSET Key
  PROVE  Msgs(p, ks) \in SUBSET Msg
BY MsgsFacts DEF Possible, Burst, NoBurst

LEMMA SweepFacts ==
  /\ Expired(pending) \in SUBSET Key
  /\ \A k \in Bursts(Without(pending, Expired(pending))) :
       /\ k \in Key /\ k \notin Expired(pending)
       /\ Without(pending, Expired(pending))[k] = pending[k]
       /\ pending[k] # NoBurst
BY DEF Expired, Bursts, Without

LEMMA ArrivesInv == ASSUME FeedInv, NEW m \in Msg, Arrives(m) PROVE FeedInv'
<1>1. PICK c \in Client, x \in Chat :
        handler' = [handler EXCEPT ![m] =
          [pc |-> IF clients[LabelOf[c]] = c THEN "suspended" ELSE "ignored", client |-> c, chat |-> x]]
  BY DEF Arrives
<1>2. handler[m].pc = "unsent"
      /\ UNCHANGED <<accountVars, pending, clock, event, call, feed, outcomeVars>>
  BY DEF Arrives
<1>3. handler \in [Msg -> HandlerState]
  BY DEF FeedInv, TypeOK
<1>4. handler' \in [Msg -> HandlerState] /\ SuspendedIsNamed' /\ Recorded' = Recorded
  BY <1>1, <1>2, <1>3 DEF FeedInv, HandlerState, SuspendedIsNamed, Recorded
<1> QED BY <1>2, <1>4 DEF FeedInv, TypeOK, accountVars, outcomeVars

LEMMA IgnoresInv == ASSUME FeedInv, NEW m \in Msg, Ignores(m) PROVE FeedInv'
<1>1. handler[m].pc = "suspended" /\ handler' = [handler EXCEPT ![m].pc = "ignored"]
      /\ UNCHANGED <<accountVars, pending, clock, event, call, feed, outcomeVars>>
  BY DEF Ignores
<1>2. handler' \in [Msg -> HandlerState] /\ SuspendedIsNamed' /\ Recorded' = Recorded
  BY <1>1 DEF FeedInv, TypeOK, HandlerState, SuspendedIsNamed, Recorded
<1> QED BY <1>1, <1>2 DEF FeedInv, TypeOK, accountVars, outcomeVars

(* The bursts a record lets go are in the ledger, whatever the sweep and   *)
(* the ceiling choose.                                                     *)
LEMMA RecordsInv == ASSUME FeedInv, NEW m \in Msg, Records(m) PROVE FeedInv'
<1> DEFINE k        == <<LabelOf[handler[m].client], handler[m].chat>>
           recorded == [pending EXCEPT ![k] = Extended(@, m)]
           swept    == Without(recorded, Expired(recorded))
           kept     == Without(swept, Overflowing(swept))
           gone     == Expired(recorded) \cup Overflowing(swept)
<1>1. /\ handler[m].pc = "suspended"
      /\ handler' = [handler EXCEPT ![m].pc = "recorded"]
      /\ pending' = kept
      /\ dropped' = dropped \cup Msgs(recorded, Bursts(recorded) \ Bursts(kept))
      /\ clock' = clock + 1
      /\ Wake
      /\ UNCHANGED <<accountVars, taken, written, forgotten>>
  BY DEF Records
<1>2. k \in Key
  BY <1>1, EventFeedAssumption DEF FeedInv, SuspendedIsNamed, Key
<1>3. m \notin Recorded /\ Recorded' = Recorded \cup {m}
  BY <1>1 DEF Recorded, FeedInv, TypeOK, HandlerState
<1>4. m \notin pending[k].msgs
  BY <1>2, <1>3, MsgsFacts DEF FeedInv, Accounted
<1>5. /\ Extended(pending[k], m) \in Burst
      /\ Truthful(Extended(pending[k], m))
      /\ Extended(pending[k], m).msgs = pending[k].msgs \cup {m}
  BY <1>2, <1>4, ExtendedIsTruthful DEF FeedInv, Possible, TypeOK
<1>6. \A j \in Key : recorded[j] = IF j = k THEN Extended(pending[k], m) ELSE pending[j]
  BY <1>2 DEF FeedInv, Possible
<1>7. Possible(recorded)
  BY <1>2, <1>5, <1>6 DEF FeedInv, Possible
<1> HIDE DEF recorded, k
<1>8. Accounted(recorded, Recorded \cup {m}, taken, written, dropped, forgotten)
  <2>1. \A j \in Key : recorded[j].msgs = IF j = k THEN pending[j].msgs \cup {m} ELSE pending[j].msgs
    BY <1>5, <1>6
  <2>2. Accounted(pending, Recorded, taken, written, dropped, forgotten)
    BY DEF FeedInv
  <2> QED BY <1>2, <1>3, <2>1, <2>2, RecordingIsAccounted
<1>9. gone \in SUBSET Key
  BY DEF Expired, Overflowing, Bursts
<1>10. kept = Without(recorded, gone)
  BY WithoutTwice
<1>11. Bursts(recorded) \ Bursts(kept) = gone
  <2>1. gone \subseteq Bursts(recorded)
    BY DEF Expired, Overflowing, Bursts, Without
  <2>2. \A j \in Key : kept[j] = IF j \in gone THEN NoBurst ELSE recorded[j]
    BY <1>10 DEF Without
  <2> HIDE DEF kept, gone
  <2> QED BY <2>1, <2>2 DEF Bursts
<1> HIDE DEF gone
<1>12. Accounted(pending', Recorded', taken', written', dropped', forgotten')
  <2>1. Without(recorded, {} \cup {} \cup gone \cup {}) = pending'
    BY <1>1, <1>10
  <2>2. Msgs(recorded, {}) = {}
    BY DEF Msgs
  <2>3. Accounted(Without(recorded, {} \cup {} \cup gone \cup {}), Recorded \cup {m},
                  taken \cup Msgs(recorded, {}), written \cup Msgs(recorded, {}),
                  dropped \cup Msgs(recorded, gone), forgotten \cup Msgs(recorded, {}))
    BY <1>8, <1>9, LeavingIsAccounted
  <2> QED BY <1>1, <1>3, <1>11, <2>1, <2>2, <2>3
<1>13. Possible(pending')
  BY <1>1, <1>7, <1>10, WithoutIsPossible
<1>14. TypeOK'
  <2>1. dropped' \in SUBSET Msg
    BY <1>1, <1>7, <1>9, <1>11, MsgsAreMessages DEF FeedInv, TypeOK
  <2>2. handler' \in [Msg -> HandlerState]
    BY <1>1 DEF FeedInv, TypeOK, HandlerState
  <2>3. call' \in [Waiter -> CallState] /\ feed' \in FeedPC /\ event' \in BOOLEAN
    BY <1>1 DEF Wake, FeedInv, TypeOK, CallState, CallPC, FeedPC
  <2>4. pending' \in [Key -> Burst \cup {NoBurst}]
    BY <1>13 DEF Possible
  <2>5. clock' \in Nat /\ UNCHANGED <<accountVars, taken, written, forgotten>>
    BY <1>1 DEF FeedInv, TypeOK
  <2> QED BY <2>1, <2>2, <2>3, <2>4, <2>5 DEF FeedInv, TypeOK, accountVars
<1>15. SuspendedIsNamed'
  BY <1>1 DEF FeedInv, SuspendedIsNamed, TypeOK, HandlerState
<1>16. IsFiniteSet(Recorded')
  BY <1>3, FS_AddElement DEF FeedInv
<1> QED BY <1>12, <1>13, <1>14, <1>15, <1>16 DEF FeedInv

LEMMA AgesInv == ASSUME FeedInv, NEW k \in Key, Ages(k) PROVE FeedInv'
<1>1. PICK older \in {"quiet", "stale"} : pending' = [pending EXCEPT ![k].age = older]
  BY DEF Ages
<1>2. pending[k] \in Burst /\ Truthful(pending[k])
  BY DEF Ages, Bursts, FeedInv, Possible
<1>3. UNCHANGED <<accountVars, handler, clock, event, call, feed, outcomeVars>>
  BY DEF Ages
<1> DEFINE e == [pending[k] EXCEPT !.age = older]
<1>4. e \in Burst /\ Truthful(e) /\ e.msgs = pending[k].msgs
  BY <1>2 DEF Burst, Truthful, Age
<1>5. \A j \in Key : pending'[j] = IF j = k THEN e ELSE pending[j]
  BY <1>1 DEF FeedInv, Possible
<1> HIDE DEF e
<1>6. Possible(pending')
  BY <1>1, <1>4, <1>5 DEF FeedInv, Possible
<1>7. \A j \in Key : pending'[j].msgs = pending[j].msgs
  BY <1>4, <1>5
<1>8. Msgs(pending', Key) = Msgs(pending, Key)
  BY <1>7 DEF Msgs
<1>9. Recorded' = Recorded /\ SuspendedIsNamed'
  BY <1>3 DEF FeedInv, Recorded, SuspendedIsNamed
<1>10. TypeOK'
  BY <1>3, <1>6 DEF FeedInv, TypeOK, Possible, accountVars, outcomeVars
<1>11. UNCHANGED <<taken, written, dropped, forgotten>>
  BY <1>3 DEF outcomeVars
<1> QED BY <1>6, <1>7, <1>8, <1>9, <1>10, <1>11 DEF FeedInv, Accounted

(* Where a call may be moved to.                                           *)
LEMMA CallTypes ==
  ASSUME call \in [Waiter -> CallState], NEW w \in Waiter
  PROVE  /\ Idle \in CallState
         /\ [call EXCEPT ![w] = Idle] \in [Waiter -> CallState]
         /\ \A x \in CallPC : [call EXCEPT ![w].pc = x] \in [Waiter -> CallState]
<1>1. Idle \in CallState
  BY DEF Idle, CallState, CallPC
<1>2. ASSUME NEW x \in CallPC PROVE [call EXCEPT ![w].pc = x] \in [Waiter -> CallState]
  <2>1. [call[w] EXCEPT !.pc = x] \in CallState
    BY DEF CallState
  <2> QED BY <2>1
<1> QED BY <1>1, <1>2

(* The expired bursts go to the ledger, and at most one other is taken.    *)
LEMMA ScanInv == ASSUME FeedInv, NEW w \in Waiter, Scan(w) PROVE FeedInv'
<1> DEFINE gone  == Expired(pending)
           swept == Without(pending, gone)
<1>1. /\ dropped' = dropped \cup Msgs(pending, gone)
      /\ UNCHANGED <<accountVars, handler, clock, feed, written, forgotten>>
      /\ call' = [call EXCEPT ![w] = Idle] \/ \E x \in CallPC : call' = [call EXCEPT ![w].pc = x]
      /\ event' \in BOOLEAN
  BY DEF Scan, FeedInv, TypeOK, CallPC, Blocked
<1>2. PICK T \in SUBSET Key : /\ T \cap gone = {}
                              /\ pending' = Without(swept, T)
                              /\ taken' = taken \cup Msgs(pending, T)
  <2>1. CASE \E k \in Bursts(swept) : pending' = Without(swept, {k}) /\ taken' = taken \cup swept[k].msgs
    <3>1. PICK k \in Bursts(swept) : pending' = Without(swept, {k}) /\ taken' = taken \cup swept[k].msgs
      BY <2>1
    <3>2. {k} \in SUBSET Key /\ {k} \cap gone = {} /\ swept[k] = pending[k]
      BY SweepFacts
    <3>3. Msgs(pending, {k}) = pending[k].msgs
      BY DEF Msgs
    <3> QED BY <3>1, <3>2, <3>3
  <2>2. CASE pending' = swept /\ taken' = taken
    <3>1. Without(swept, {}) = swept /\ Msgs(pending, {}) = {}
      BY DEF Without, Msgs
    <3> QED BY <2>2, <3>1
  <2> QED BY <2>1, <2>2 DEF Scan
<1>3. gone \in SUBSET Key
  BY SweepFacts
<1>4. pending' = Without(pending, T \cup {} \cup gone \cup {}) /\ Msgs(pending, {}) = {}
  BY <1>2, WithoutTwice DEF Without, Msgs
<1> HIDE DEF gone
<1>5. TypeOK'
  <2>1. taken' \in SUBSET Msg /\ dropped' \in SUBSET Msg
    BY <1>1, <1>2, <1>3, MsgsAreMessages DEF FeedInv, TypeOK
  <2>2. pending' \in [Key -> Burst \cup {NoBurst}]
    BY <1>4, WithoutIsPossible DEF FeedInv, Possible
  <2>3. call' \in [Waiter -> CallState]
    BY <1>1, CallTypes DEF FeedInv, TypeOK
  <2> QED BY <1>1, <2>1, <2>2, <2>3 DEF FeedInv, TypeOK, accountVars
<1> QED BY <1>1, <1>2, <1>3, <1>4, <1>5, FeedLeaves

(* The same for the consumer, whose burst goes to the file.                *)
LEMMA FeedScansInv == ASSUME FeedInv, FeedScans PROVE FeedInv'
<1> DEFINE gone  == Expired(pending)
           swept == Without(pending, gone)
<1>1. /\ dropped' = dropped \cup Msgs(pending, gone)
      /\ UNCHANGED <<accountVars, handler, clock, call, taken, forgotten>>
      /\ feed' \in FeedPC /\ event' \in BOOLEAN
  BY DEF FeedScans, FeedInv, TypeOK, FeedPC, Blocked
<1>2. PICK W \in SUBSET Key : /\ W \cap gone = {}
                              /\ pending' = Without(swept, W)
                              /\ written' = written \cup Msgs(pending, W)
  <2>1. CASE \E k \in Bursts(swept) : pending' = Without(swept, {k}) /\ written' = written \cup swept[k].msgs
    <3>1. PICK k \in Bursts(swept) : pending' = Without(swept, {k}) /\ written' = written \cup swept[k].msgs
      BY <2>1
    <3>2. {k} \in SUBSET Key /\ {k} \cap gone = {} /\ swept[k] = pending[k]
      BY SweepFacts
    <3>3. Msgs(pending, {k}) = pending[k].msgs
      BY DEF Msgs
    <3> QED BY <3>1, <3>2, <3>3
  <2>2. CASE pending' = swept /\ written' = written
    <3>1. Without(swept, {}) = swept /\ Msgs(pending, {}) = {}
      BY DEF Without, Msgs
    <3> QED BY <2>2, <3>1
  <2> QED BY <2>1, <2>2 DEF FeedScans
<1>3. gone \in SUBSET Key
  BY SweepFacts
<1>4. pending' = Without(pending, {} \cup W \cup gone \cup {}) /\ Msgs(pending, {}) = {}
  BY <1>2, WithoutTwice DEF Without, Msgs
<1> HIDE DEF gone
<1>5. TypeOK'
  <2>1. written' \in SUBSET Msg /\ dropped' \in SUBSET Msg
    BY <1>1, <1>2, <1>3, MsgsAreMessages DEF FeedInv, TypeOK
  <2>2. pending' \in [Key -> Burst \cup {NoBurst}]
    BY <1>4, WithoutIsPossible DEF FeedInv, Possible
  <2> QED BY <1>1, <2>1, <2>2 DEF FeedInv, TypeOK, accountVars
<1> QED BY <1>1, <1>2, <1>3, <1>4, <1>5, FeedLeaves

(* A label that changes hands: its bursts are let go together.             *)
LEMMA RewiresInv ==
  ASSUME FeedInv, NEW l \in Label, NEW c \in Client \cup {None}, Rewires(l, c),
         used' \in SUBSET Client,
         UNCHANGED <<handler, clock, event, call, feed, taken, written, dropped>>
  PROVE  FeedInv'
<1> DEFINE F == KeysOf(l)
<1>1. F \in SUBSET Key
  BY DEF KeysOf
<1>2. /\ clients' = [clients EXCEPT ![l] = c] /\ wired' = [wired EXCEPT ![l] = c]
      /\ pending' = Without(pending, F) /\ forgotten' = forgotten \cup Msgs(pending, F)
  BY DEF Rewires
<1> HIDE DEF F
<1>3. TypeOK'
  <2>1. forgotten' \in SUBSET Msg
    BY <1>1, <1>2, MsgsAreMessages DEF FeedInv, TypeOK
  <2>2. pending' \in [Key -> Burst \cup {NoBurst}]
    BY <1>2, WithoutIsPossible DEF FeedInv, Possible
  <2> QED BY <1>2, <2>1, <2>2 DEF FeedInv, TypeOK
<1>4. Without(pending, F) = Without(pending, {} \cup {} \cup {} \cup F) /\ Msgs(pending, {}) = {}
  BY DEF Without, Msgs
<1> QED BY <1>1, <1>2, <1>3, <1>4, FeedLeaves

LEMMA FeedStepInv == FeedInv /\ [Next]_vars => FeedInv'
<1> SUFFICES ASSUME FeedInv, [Next]_vars PROVE FeedInv'
  OBVIOUS
<1>1. ASSUME NEW m \in Msg, Arrives(m) \/ Records(m) \/ Ignores(m) PROVE FeedInv'
  BY <1>1, ArrivesInv, RecordsInv, IgnoresInv
<1>2. ASSUME NEW k \in Key, Ages(k) PROVE FeedInv'
  BY <1>2, AgesInv
<1>3. ASSUME NEW w \in Waiter, Scan(w) PROVE FeedInv'
  BY <1>3, ScanInv
<1>4. ASSUME NEW w \in Waiter, Calls(w) \/ Arms(w) \/ SleepEnds(w) \/ GivesUp(w) PROVE FeedInv'
  <2>1. call' \in [Waiter -> CallState]
    <3>1. CASE Calls(w)
      <4>1. PICK v \in CallState : call' = [call EXCEPT ![w] = v]
        BY <3>1 DEF Calls, CallState, CallPC
      <4> QED BY <4>1 DEF FeedInv, TypeOK
    <3>2. CASE Arms(w) \/ SleepEnds(w) \/ GivesUp(w)
      <4>1. call' = [call EXCEPT ![w] = Idle] \/ \E x \in CallPC : call' = [call EXCEPT ![w].pc = x]
        BY <3>2 DEF Arms, SleepEnds, GivesUp, CallPC
      <4> QED BY <4>1, CallTypes DEF FeedInv, TypeOK
    <3> QED BY <1>4, <3>1, <3>2
  <2>2. UNCHANGED <<accountVars, handler, pending, clock, event, feed, outcomeVars>>
    BY <1>4 DEF Calls, Arms, SleepEnds, GivesUp
  <2>3. TypeOK'
    BY <2>1, <2>2 DEF FeedInv, TypeOK, accountVars, outcomeVars
  <2> QED BY <2>2, <2>3, FeedUnchanged
<1>5. CASE FeedStarts \/ FeedStops \/ FeedArms \/ FeedTurns
  <2>1. feed' \in FeedPC /\ UNCHANGED <<accountVars, handler, pending, clock, event, call, outcomeVars>>
    BY <1>5 DEF FeedStarts, FeedStops, FeedArms, FeedTurns, FeedPC
  <2>2. TypeOK'
    BY <2>1 DEF FeedInv, TypeOK, accountVars, outcomeVars
  <2> QED BY <2>1, <2>2, FeedUnchanged
<1>6. CASE FeedScans
  BY <1>6, FeedScansInv
<1>7. ASSUME NEW l \in Label, Removes(l) PROVE FeedInv'
  <2>1. used' \in SUBSET Client
    BY <1>7 DEF Removes, FeedInv, TypeOK
  <2> QED BY <1>7, <2>1, RewiresInv DEF Removes
<1>8. ASSUME NEW c \in Client, Adds(c) PROVE FeedInv'
  <2>1. used' \in SUBSET Client /\ LabelOf[c] \in Label
    BY <1>8, EventFeedAssumption DEF Adds, FeedInv, TypeOK
  <2> QED BY <1>8, <2>1, RewiresInv DEF Adds
<1>9. ASSUME NEW c \in Client, Swaps(c) PROVE FeedInv'
  <2>1. UNCHANGED <<wired, handler, pending, clock, event, call, feed, outcomeVars>>
    BY <1>9 DEF Swaps
  <2>2. used' \in SUBSET Client /\ clients' \in [Label -> Client \cup {None}]
    BY <1>9, EventFeedAssumption DEF Swaps, FeedInv, TypeOK
  <2>3. TypeOK'
    BY <2>1, <2>2 DEF FeedInv, TypeOK, outcomeVars
  <2> QED BY <2>1, <2>3, FeedUnchanged
<1>10. CASE UNCHANGED vars
  <2>1. TypeOK'
    BY <1>10 DEF vars, FeedInv, TypeOK, accountVars, outcomeVars
  <2> QED BY <1>10, <2>1, FeedUnchanged DEF vars
<1> QED BY <1>1, <1>2, <1>3, <1>4, <1>5, <1>6, <1>7, <1>8, <1>9, <1>10 DEF Next

LEMMA FeedInvariance == Spec => []FeedInv
BY FeedInitInv, FeedStepInv, PTL DEF Spec

(* The variables keep their types: a burst is never half a burst.          *)
THEOREM FeedTypeCorrect == Spec => []TypeOK
<1>1. FeedInv => TypeOK
  BY DEF FeedInv
<1> QED BY <1>1, FeedInvariance, PTL

(* Whatever the handlers, waits, consumer, expiries and account changes    *)
(* do, a message that was recorded is in one place: pending, returned by   *)
(* one wait, in one line of the feed, in the drop ledger, or let go with   *)
(* its account.                                                            *)
THEOREM NoMessageIsLost == Spec => []EveryMessageIsAccountedFor
<1>1. ASSUME FeedInv PROVE EveryMessageIsAccountedFor
  <2>1. /\ Recorded = Pending \cup taken \cup written \cup dropped \cup forgotten
        /\ Pending \cap (taken \cup written \cup dropped \cup forgotten) = {}
        /\ taken \cap (written \cup dropped \cup forgotten) = {}
        /\ written \cap (dropped \cup forgotten) = {}
        /\ dropped \cap forgotten = {}
        /\ IsFiniteSet(Recorded)
    BY <1>1 DEF FeedInv, Accounted, Pending
  <2>2. Recorded = UNION {Pending, taken, written, dropped, forgotten}
    BY <2>1
  <2>3. /\ IsFiniteSet(Pending) /\ IsFiniteSet(taken) /\ IsFiniteSet(written)
        /\ IsFiniteSet(dropped) /\ IsFiniteSet(forgotten)
    BY <2>1, FS_Subset
  <2>4. ASSUME NEW S, NEW T, IsFiniteSet(S), IsFiniteSet(T), S \cap T = {}
        PROVE  IsFiniteSet(S \cup T) /\ Cardinality(S \cup T) = Cardinality(S) + Cardinality(T)
    <3>1. Cardinality(S \cap T) = 0
      BY <2>4, FS_EmptySet
    <3>2. Cardinality(S) \in Nat /\ Cardinality(T) \in Nat
      BY <2>4, FS_CardinalityType
    <3>3. /\ IsFiniteSet(S \cup T)
          /\ Cardinality(S \cup T) = Cardinality(S) + Cardinality(T) - Cardinality(S \cap T)
      BY <2>4, FS_Union, Zenon
    <3> QED BY <3>1, <3>2, <3>3
  <2>5. IsFiniteSet(dropped \cup forgotten)
        /\ Cardinality(dropped \cup forgotten) = Cardinality(dropped) + Cardinality(forgotten)
    BY <2>1, <2>3, <2>4
  <2>6. LET rest == dropped \cup forgotten
        IN  IsFiniteSet(written \cup rest) /\ Cardinality(written \cup rest) = Cardinality(written) + Cardinality(rest)
    BY <2>1, <2>3, <2>4, <2>5
  <2>7. LET rest == written \cup (dropped \cup forgotten)
        IN  IsFiniteSet(taken \cup rest) /\ Cardinality(taken \cup rest) = Cardinality(taken) + Cardinality(rest)
    BY <2>1, <2>3, <2>4, <2>6
  <2>8. LET rest == taken \cup (written \cup (dropped \cup forgotten))
        IN  Cardinality(Pending \cup rest) = Cardinality(Pending) + Cardinality(rest)
    BY <2>1, <2>3, <2>4, <2>7
  <2>9. Recorded = Pending \cup (taken \cup (written \cup (dropped \cup forgotten)))
    BY <2>1
  <2>10. /\ Cardinality(Pending) \in Nat /\ Cardinality(taken) \in Nat /\ Cardinality(written) \in Nat
         /\ Cardinality(dropped) \in Nat /\ Cardinality(forgotten) \in Nat
    BY <2>3, FS_CardinalityType
  <2>11. Cardinality(Recorded) =
           Cardinality(Pending) + Cardinality(taken) + Cardinality(written)
             + Cardinality(dropped) + Cardinality(forgotten)
    BY <2>5, <2>6, <2>7, <2>8, <2>9, <2>10
  <2>12. \A j, k \in Bursts(pending) : j # k => pending[j].msgs \cap pending[k].msgs = {}
    BY <1>1 DEF FeedInv, Accounted, Bursts
  <2> QED BY <2>2, <2>11, <2>12 DEF EveryMessageIsAccountedFor
<1> QED BY <1>1, FeedInvariance, PTL

(* However the suspended handlers overtake each other, a burst's count,    *)
(* first and last id are those of its messages (_on_new_incoming).         *)
THEOREM BurstsAreTruthful == Spec => []BurstCoversItsMessages
<1>1. FeedInv => BurstCoversItsMessages
  BY DEF FeedInv, Possible, Truthful, Bursts, BurstCoversItsMessages
<1> QED BY <1>1, FeedInvariance, PTL

----------------------------------------------------------------------------
(* Whose bursts they are, also behind replacements nobody is told of. *)

(* A client is published once, and what a handler still means to record is *)
(* of the attached client if it is of the current one.                     *)
LoginsAreInOrder ==
  /\ \A l \in Label : {clients[l], wired[l]} \subseteq used \cup {None}
  /\ \A m \in Msg : handler[m].client \in used \cup {None}
  /\ \A m \in Msg : handler[m].pc = "suspended" /\ StillCurrent(handler[m].client)
                      => wired[LabelOf[handler[m].client]] = handler[m].client

LEMMA LoginsStep ==
  ASSUME FeedInv, LoginsAreInOrder, [Next]_vars
  PROVE  LoginsAreInOrder'
<1>0. \A m \in Msg : handler[m].pc = "suspended" => handler[m].client \in Client /\ LabelOf[handler[m].client] \in Label
  BY EventFeedAssumption DEF FeedInv, SuspendedIsNamed
<1>1. ASSUME NEW m \in Msg, Arrives(m) PROVE LoginsAreInOrder'
  <2>1. PICK c \in Client, x \in Chat :
          /\ wired[LabelOf[c]] = c
          /\ handler' = [handler EXCEPT ![m] =
               [pc |-> IF clients[LabelOf[c]] = c THEN "suspended" ELSE "ignored",
                client |-> c, chat |-> x]]
    BY <1>1 DEF Arrives
  <2>2. c \in used /\ UNCHANGED <<clients, wired, used>>
    BY <1>1, <2>1, EventFeedAssumption DEF Arrives, accountVars, LoginsAreInOrder
  <2> QED BY <2>1, <2>2 DEF LoginsAreInOrder, StillCurrent, FeedInv, TypeOK
<1>2. ASSUME NEW m \in Msg, Records(m) \/ Ignores(m) PROVE LoginsAreInOrder'
  <2>1. /\ UNCHANGED <<clients, wired, used>>
        /\ \A n \in Msg : /\ handler'[n].client = handler[n].client
                          /\ handler'[n].pc = "suspended" => handler[n].pc = "suspended"
    BY <1>2 DEF Records, Ignores, accountVars, FeedInv, TypeOK, HandlerState
  <2> QED BY <2>1 DEF LoginsAreInOrder, StillCurrent
<1>3. ASSUME NEW l \in Label, Removes(l) PROVE LoginsAreInOrder'
  <2>1. /\ clients' = [clients EXCEPT ![l] = None] /\ wired' = [wired EXCEPT ![l] = None]
        /\ UNCHANGED <<used, handler>>
    BY <1>3 DEF Removes, Rewires
  <2> QED BY <1>0, <2>1, EventFeedAssumption DEF LoginsAreInOrder, StillCurrent, FeedInv, TypeOK
<1>4. ASSUME NEW c \in Client, Adds(c) PROVE LoginsAreInOrder'
  <2>1. /\ clients' = [clients EXCEPT ![LabelOf[c]] = c] /\ wired' = [wired EXCEPT ![LabelOf[c]] = c]
        /\ used' = used \cup {c} /\ UNCHANGED handler
    BY <1>4 DEF Adds, Rewires
  <2> QED BY <1>0, <2>1, EventFeedAssumption DEF LoginsAreInOrder, StillCurrent, FeedInv, TypeOK
<1>5. ASSUME NEW c \in Client, Swaps(c) PROVE LoginsAreInOrder'
  <2>1. /\ clients' = [clients EXCEPT ![LabelOf[c]] = c] /\ c \notin used
        /\ used' = used \cup {c} /\ UNCHANGED <<handler, wired>>
    BY <1>5 DEF Swaps
  <2>2. \A m \in Msg : handler[m].pc = "suspended" => handler[m].client # c
    BY <1>0, <2>1, EventFeedAssumption DEF LoginsAreInOrder
  <2> QED BY <1>0, <2>1, <2>2, EventFeedAssumption DEF LoginsAreInOrder, StillCurrent, FeedInv, TypeOK
<1>6. CASE UNCHANGED <<accountVars, handler>>
  BY <1>6 DEF LoginsAreInOrder, StillCurrent, accountVars
<1> QED
  <2>1. ASSUME \/ \E k \in Key : Ages(k)
               \/ \E w \in Waiter : Calls(w) \/ Scan(w) \/ Arms(w) \/ SleepEnds(w) \/ GivesUp(w)
               \/ FeedStarts \/ FeedStops \/ FeedScans \/ FeedArms \/ FeedTurns
               \/ UNCHANGED vars
        PROVE  UNCHANGED <<accountVars, handler>>
    BY <2>1 DEF Ages, Calls, Scan, Arms, SleepEnds, GivesUp, FeedStarts, FeedStops, FeedScans,
                FeedArms, FeedTurns, vars
  <2> QED BY <1>1, <1>2, <1>3, <1>4, <1>5, <1>6, <2>1 DEF Next

LEMMA FewerAreOfOneLogin ==
  ASSUME BurstsAreOfOneLogin, NEW ks, pending' = Without(pending, ks), UNCHANGED handler,
         \A k \in Key \ ks : clients'[k[1]] = clients[k[1]] /\ wired'[k[1]] = wired[k[1]]
  PROVE  BurstsAreOfOneLogin'
<1>1. ASSUME NEW k \in Bursts(pending)'
      PROVE  k \in Bursts(pending) /\ k \in Key \ ks /\ pending'[k] = pending[k]
  BY <1>1 DEF Bursts, Without
<1> QED BY <1>1 DEF BurstsAreOfOneLogin

LEMMA OneLoginStep ==
  ASSUME FeedInv, LoginsAreInOrder, BurstsAreOfOneLogin, [Next]_vars
  PROVE  BurstsAreOfOneLogin'
<1>0. \A k \in Key : \A m \in pending[k].msgs : m \in Recorded
  BY MsgsFacts DEF FeedInv, Accounted
<1>1. ASSUME NEW m \in Msg, Arrives(m) \/ Ignores(m) PROVE BurstsAreOfOneLogin'
  <2>1. UNCHANGED <<clients, wired, pending>> /\ \A n \in Msg : n # m => handler'[n] = handler[n]
    BY <1>1 DEF Arrives, Ignores, accountVars, FeedInv, TypeOK
  <2>2. m \notin Recorded
    BY <1>1 DEF Arrives, Ignores, Recorded
  <2>3. \A k \in Bursts(pending) : \A n \in pending[k].msgs : handler'[n] = handler[n]
    BY <1>0, <2>1, <2>2 DEF Bursts, Recorded
  <2> QED BY <2>1, <2>3 DEF BurstsAreOfOneLogin, Bursts
<1>2. ASSUME NEW m \in Msg, Records(m) PROVE BurstsAreOfOneLogin'
  <2> DEFINE c        == handler[m].client
             x        == handler[m].chat
             k        == <<LabelOf[c], x>>
             recorded == [pending EXCEPT ![k] = Extended(@, m)]
             swept    == Without(recorded, Expired(recorded))
  <2>1. /\ handler[m].pc = "suspended" /\ StillCurrent(c)
        /\ handler' = [handler EXCEPT ![m].pc = "recorded"]
        /\ pending' = Without(swept, Overflowing(swept))
        /\ UNCHANGED accountVars
    BY <1>2 DEF Records
  <2>2. c \in Client /\ k \in Key /\ m \notin Recorded
    BY <2>1, EventFeedAssumption DEF FeedInv, SuspendedIsNamed, Key, Recorded
  <2>3. m \notin pending[k].msgs
    BY <1>0, <2>2
  <2>4. Extended(pending[k], m).msgs = pending[k].msgs \cup {m}
    BY <2>2, <2>3, ExtendedIsTruthful DEF FeedInv, Possible, TypeOK
  <2>5. \A j \in Key : recorded[j].msgs = IF j = k THEN pending[j].msgs \cup {m} ELSE pending[j].msgs
    BY <2>2, <2>4 DEF FeedInv, Possible
  <2>6. \A n \in Msg : handler'[n].client = handler[n].client /\ handler'[n].chat = handler[n].chat
    BY <2>1 DEF FeedInv, TypeOK, HandlerState
  <2>7. clients[k[1]] = c /\ wired[k[1]] = c /\ k[2] = x /\ c # None
    BY <2>1, <2>2, EventFeedAssumption DEF StillCurrent, LoginsAreInOrder
  <2>8. \A j \in Key : \A n \in pending[j].msgs :
          /\ n \in Msg /\ clients[j[1]] # None
          /\ handler[n].client = wired[j[1]] /\ handler[n].chat = j[2]
    BY <1>0 DEF BurstsAreOfOneLogin, Bursts, NoBurst, Recorded
  <2>9. ASSUME NEW j \in Bursts(pending)', NEW n \in pending'[j].msgs
        PROVE  handler'[n].client = wired'[j[1]] /\ handler'[n].chat = j[2]
    <3>1. j \in Key /\ n \in recorded[j].msgs
      BY <2>1, <2>9 DEF Bursts, Without, NoBurst
    <3> HIDE DEF recorded, k, c, x
    <3>2. n \in pending[j].msgs \/ (j = k /\ n = m)
      BY <2>5, <3>1
    <3>3. wired' = wired
      BY <2>1 DEF accountVars
    <3>4. CASE n \in pending[j].msgs
      BY <2>6, <2>8, <3>1, <3>3, <3>4
    <3>5. CASE j = k /\ n = m
      BY <2>6, <2>7, <3>3, <3>5 DEF c, x
    <3> QED BY <3>2, <3>4, <3>5
  <2>10. ASSUME NEW j \in Bursts(pending)' PROVE clients'[j[1]] # None
    <3>1. clients' = clients /\ j \in Key /\ recorded[j] # NoBurst
      BY <2>1, <2>10 DEF Bursts, Without, accountVars
    <3>2. j = k \/ j \in Bursts(pending)
      BY <3>1 DEF Bursts
    <3> QED BY <2>7, <3>1, <3>2 DEF BurstsAreOfOneLogin
  <2> QED BY <2>9, <2>10 DEF BurstsAreOfOneLogin
<1>3. ASSUME NEW k \in Key, Ages(k) PROVE BurstsAreOfOneLogin'
  <2>1. PICK older \in Age : pending' = [pending EXCEPT ![k].age = older]
    BY <1>3 DEF Ages, Age
  <2>2. k \in Bursts(pending) /\ pending[k] \in Burst /\ UNCHANGED <<clients, wired, handler>>
    BY <1>3 DEF Ages, Bursts, FeedInv, Possible, accountVars
  <2>3. \A j \in Key : pending'[j].msgs = pending[j].msgs
    BY <2>1, <2>2 DEF FeedInv, Possible, Burst
  <2>4. \A j \in Bursts(pending)' : j \in Bursts(pending)
    BY <2>1, <2>2 DEF Bursts, FeedInv, Possible
  <2> QED BY <2>2, <2>3, <2>4 DEF BurstsAreOfOneLogin, Bursts
<1>4. ASSUME \/ \E w \in Waiter : Scan(w)
             \/ FeedScans
      PROVE  BurstsAreOfOneLogin'
  <2>1. UNCHANGED <<clients, wired, handler>>
    BY <1>4 DEF Scan, FeedScans, accountVars
  <2>2. PICK ks : pending' = Without(Without(pending, Expired(pending)), ks)
    <3>1. Without(pending, Expired(pending)) = Without(Without(pending, Expired(pending)), {})
      BY DEF Without
    <3> QED BY <1>4, <3>1 DEF Scan, FeedScans
  <2>3. pending' = Without(pending, Expired(pending) \cup ks)
    BY <2>2, WithoutTwice
  <2> QED BY <2>1, <2>3, FewerAreOfOneLogin
<1>5. ASSUME NEW l \in Label, NEW c \in Client \cup {None}, Rewires(l, c), UNCHANGED handler
      PROVE  BurstsAreOfOneLogin'
  <2>1. \A k \in Key \ KeysOf(l) : clients'[k[1]] = clients[k[1]] /\ wired'[k[1]] = wired[k[1]]
    BY <1>5 DEF KeysOf, Rewires, Key, FeedInv, TypeOK
  <2> QED BY <1>5, <2>1, FewerAreOfOneLogin DEF Rewires
<1>6. CASE UNCHANGED <<clients, wired, handler, pending>>
  BY <1>6 DEF BurstsAreOfOneLogin, Bursts
<1>7. ASSUME NEW c \in Client, Adds(c) PROVE BurstsAreOfOneLogin'
  BY <1>5, <1>7, EventFeedAssumption DEF Adds
<1> QED
  <2>1. ASSUME NEW w \in Waiter, Calls(w) \/ Arms(w) \/ SleepEnds(w) \/ GivesUp(w)
        PROVE  UNCHANGED <<clients, wired, handler, pending>>
    BY <2>1 DEF Calls, Arms, SleepEnds, GivesUp, accountVars
  <2>2. FeedStarts \/ FeedStops \/ FeedArms \/ FeedTurns \/ UNCHANGED vars
          => UNCHANGED <<clients, wired, handler, pending>>
    BY DEF FeedStarts, FeedStops, FeedArms, FeedTurns, vars, accountVars
  <2>3. ASSUME NEW l \in Label, Removes(l) PROVE BurstsAreOfOneLogin'
    BY <1>5, <2>3 DEF Removes
  <2>4. ASSUME NEW c \in Client, Swaps(c) PROVE BurstsAreOfOneLogin'
    <3>1. /\ clients' = [clients EXCEPT ![LabelOf[c]] = c] /\ c # None
          /\ UNCHANGED <<wired, handler, pending>>
      BY <2>4, EventFeedAssumption DEF Swaps
    <3>2. \A k \in Key : clients[k[1]] # None => clients'[k[1]] # None
      BY <3>1, EventFeedAssumption DEF FeedInv, TypeOK, Key
    <3> QED BY <3>1, <3>2 DEF BurstsAreOfOneLogin, Bursts
  <2> QED BY <1>1, <1>2, <1>3, <1>4, <1>6, <1>7, <2>1, <2>2, <2>3, <2>4 DEF Next

(* A handler that slept through a change of its label writes nothing, and  *)
(* the label's bursts went with it (_still_current, _forget_pending).  A    *)
(* reload that swaps a serving client tells no listener: the bursts of the  *)
(* old login stay and get no message of the new one.                        *)
THEOREM BurstsAreNotMixed == Spec => []BurstsAreOfOneLogin
<1> DEFINE Inv == LoginsAreInOrder /\ BurstsAreOfOneLogin
<1>1. Init => Inv
  BY DEF Init, LoginsAreInOrder, BurstsAreOfOneLogin, Bursts, Unsent, NoClients
<1>2. FeedInv /\ Inv /\ [Next]_vars => Inv'
  BY LoginsStep, OneLoginStep
<1>3. Inv => BurstsAreOfOneLogin
  OBVIOUS
<1> QED BY <1>1, <1>2, <1>3, FeedInvariance, PTL DEF Spec

----------------------------------------------------------------------------
(* Waiting. *)

(* Steps after which nobody waits who did not, with no burst more.         *)
LEMMA NobodyFallsAsleep ==
  ASSUME Bursts(pending)' \subseteq Bursts(pending),
         feed' = "waiting" => feed = "waiting",
         \A w \in Waiter : call'[w] = call[w] \/ call'[w].pc # "waiting"
  PROVE  /\ \A w \in Waiter : Oversleeps(w)' => Oversleeps(w)
         /\ FeedOversleeps' => FeedOversleeps
BY DEF Oversleeps, FeedOversleeps, Wanted

LEMMA SleepStep ==
  ASSUME FeedInv, [Next]_vars
  PROVE  /\ \A w \in Waiter : Oversleeps(w)' => Oversleeps(w) \/ Arms(w)
         /\ FeedOversleeps' => FeedOversleeps \/ FeedArms
<1> DEFINE Goal == /\ \A w \in Waiter : Oversleeps(w)' => Oversleeps(w) \/ Arms(w)
                   /\ FeedOversleeps' => FeedOversleeps \/ FeedArms
           swept == Without(pending, Expired(pending))
<1>0. call \in [Waiter -> CallState]
  BY DEF FeedInv, TypeOK
<1>1. ASSUME NEW m \in Msg, Records(m) PROVE Goal
  <2>1. /\ \A w \in Waiter : call'[w].pc # "waiting"
        /\ feed' # "waiting"
    BY <1>0, <1>1 DEF Records, Wake, CallState
  <2> QED BY <2>1 DEF Oversleeps, FeedOversleeps
<1>2. ASSUME NEW k \in Key, Ages(k) PROVE Goal
  <2>1. Bursts(pending)' \subseteq Bursts(pending)
    BY <1>2 DEF Ages, Bursts, FeedInv, TypeOK
  <2> QED BY <1>2, <2>1, NobodyFallsAsleep DEF Ages
<1>3. ASSUME NEW w \in Waiter, Scan(w) PROVE Goal
  <2>1. Bursts(pending)' \subseteq Bursts(pending) /\ feed' = feed
    BY <1>3 DEF Scan, Bursts, Without
  <2>2. \A v \in Waiter : v # w => call'[v] = call[v]
    BY <1>0, <1>3 DEF Scan
  <2>3. CASE call'[w].pc # "waiting"
    BY <2>1, <2>2, <2>3, NobodyFallsAsleep
  <2>4. CASE /\ {k \in Bursts(swept) : Wanted(w, k)} = {}
             /\ pending' = swept
             /\ call' = [call EXCEPT ![w].pc = "waiting"]
    <3>1. call'[w].account = call[w].account /\ call'[w].chat = call[w].chat
      BY <1>0, <2>4 DEF CallState
    <3>2. \A k \in Bursts(pending)' : ~Wanted(w, k)
      BY <2>4
    <3>3. ~Oversleeps(w)'
      BY <3>1, <3>2 DEF Oversleeps, Wanted
    <3> QED BY <2>1, <2>2, <3>3 DEF Oversleeps, FeedOversleeps, Wanted
  <2> QED BY <1>0, <1>3, <2>3, <2>4 DEF Scan, Idle, Blocked, CallState
<1>4. ASSUME NEW w \in Waiter, Calls(w) \/ Arms(w) \/ SleepEnds(w) \/ GivesUp(w) PROVE Goal
  <2>1. UNCHANGED <<pending, feed>> /\ \A v \in Waiter : v # w => call'[v] = call[v]
    BY <1>0, <1>4 DEF Calls, Arms, SleepEnds, GivesUp
  <2>2. CASE Arms(w)
    BY <2>1, <2>2 DEF Oversleeps, FeedOversleeps, Wanted, Bursts
  <2>3. CASE ~Arms(w)
    <3>1. call'[w].pc # "waiting"
      BY <1>0, <1>4, <2>3 DEF Calls, SleepEnds, GivesUp, Idle, CallState
    <3> QED BY <2>1, <3>1, NobodyFallsAsleep DEF Bursts
  <2> QED BY <2>2, <2>3
<1>5. CASE FeedStarts \/ FeedStops \/ FeedArms \/ FeedTurns
  <2>1. UNCHANGED <<pending, call>>
    BY <1>5 DEF FeedStarts, FeedStops, FeedArms, FeedTurns
  <2>2. CASE FeedArms
    BY <2>1, <2>2 DEF Oversleeps, Wanted, Bursts
  <2>3. CASE ~FeedArms
    BY <1>5, <2>1, <2>3, NobodyFallsAsleep DEF FeedStarts, FeedStops, FeedTurns, Bursts
  <2> QED BY <2>2, <2>3
<1>6. CASE FeedScans
  <2>1. Bursts(pending)' \subseteq Bursts(pending) /\ call' = call
    BY <1>6 DEF FeedScans, Bursts, Without
  <2>2. CASE feed' # "waiting"
    BY <2>1, <2>2, NobodyFallsAsleep
  <2>3. CASE /\ {k \in Bursts(swept) : k[2] \notin BotChat} = {}
             /\ pending' = swept
             /\ feed' = "waiting"
    BY <2>1, <2>3 DEF Oversleeps, FeedOversleeps, Wanted
  <2> QED BY <1>6, <2>2, <2>3 DEF FeedScans, Blocked
<1>7. ASSUME \/ \E l \in Label : Removes(l)
             \/ \E c \in Client : Adds(c) \/ Swaps(c)
      PROVE  Goal
  <2>1. Bursts(pending)' \subseteq Bursts(pending) /\ UNCHANGED <<call, feed>>
    BY <1>7 DEF Removes, Adds, Swaps, Rewires, Bursts, Without
  <2> QED BY <2>1, NobodyFallsAsleep
<1>8. CASE UNCHANGED <<pending, call, feed>>
  BY <1>8, NobodyFallsAsleep DEF Bursts
<1> QED
  BY <1>1, <1>2, <1>3, <1>4, <1>5, <1>6, <1>7, <1>8 DEF Next, Arrives, Ignores, vars

(* One waiter's clear of the shared event costs another its wake-up in one *)
(* place only, whatever Python the server runs on: between the creation of *)
(* the task that wait_for() waits for and that task's first step           *)
(* (_activity_event).  What a waiter found absent in a scan that led       *)
(* straight into its wait is still absent.                                 *)
THEOREM WakeupsAreLostInOnePlace == Spec => OnlyTheInnerTaskOversleeps
<1>1. FeedInv /\ [Next]_vars
        => [ /\ \A w \in Waiter : Oversleeps(w)' => Oversleeps(w) \/ Arms(w)
             /\ FeedOversleeps' => FeedOversleeps \/ FeedArms ]_vars
  BY SleepStep
<1> QED BY <1>1, FeedInvariance, PTL DEF Spec, OnlyTheInnerTaskOversleeps

(* Nobody is between its scan and its wait.                                *)
NobodyArms == feed # "arming" /\ \A w \in Waiter : call[w].pc # "arming"

(* So where wait_for() starts no task, Python 3.12 and later, no wake-up   *)
(* is lost at all.                                                         *)
THEOREM WakeupsAreNotLost ==
  ASSUME ~InnerTask
  PROVE  Spec => []NoLostWakeup
<1> DEFINE Inv == NobodyArms /\ NoLostWakeup
<1>1. Init => Inv
  BY DEF Init, NobodyArms, NoLostWakeup, Idle
<1>2. ASSUME FeedInv, Inv, [Next]_vars PROVE Inv'
  <2>1. NobodyArms'
    <3>1. call \in [Waiter -> CallState]
      BY <1>2 DEF FeedInv, TypeOK
    <3>2. ASSUME NEW w \in Waiter, Scan(w) \/ Calls(w) \/ Arms(w) \/ SleepEnds(w) \/ GivesUp(w)
          PROVE  NobodyArms'
      <4>1. feed' = feed /\ \A v \in Waiter : v # w => call'[v] = call[v]
        BY <3>1, <3>2 DEF Scan, Calls, Arms, SleepEnds, GivesUp
      <4>2. call'[w].pc # "arming"
        <5>1. CASE Scan(w)
          BY <1>2, <3>1, <5>1 DEF Scan, Blocked, Idle, CallState
        <5>2. CASE Calls(w) \/ Arms(w) \/ SleepEnds(w) \/ GivesUp(w)
          BY <3>1, <5>2 DEF Calls, Arms, SleepEnds, GivesUp, Idle, CallState
        <5> QED BY <3>2, <5>1, <5>2
      <4> QED BY <1>2, <4>1, <4>2 DEF NobodyArms
    <3>3. ASSUME NEW m \in Msg, Records(m) PROVE NobodyArms'
      BY <1>2, <3>1, <3>3 DEF NobodyArms, Records, Wake
    <3>4. CASE FeedStarts \/ FeedStops \/ FeedScans \/ FeedArms \/ FeedTurns
      BY <1>2, <3>4 DEF NobodyArms, FeedStarts, FeedStops, FeedScans, FeedArms, FeedTurns, Blocked
    <3>5. CASE UNCHANGED <<call, feed>>
      BY <1>2, <3>5 DEF NobodyArms
    <3> QED BY <1>2, <3>2, <3>3, <3>4, <3>5
            DEF Next, Arrives, Ignores, Ages, Removes, Adds, Swaps, vars
  <2>2. \A w \in Waiter : ~Arms(w)
    BY <1>2 DEF NobodyArms, Arms
  <2>3. ~FeedArms
    BY <1>2 DEF NobodyArms, FeedArms
  <2> QED BY <1>2, <2>1, <2>2, <2>3, SleepStep DEF NoLostWakeup, Oversleeps, FeedOversleeps
<1>3. Inv => NoLostWakeup
  OBVIOUS
<1> QED BY <1>1, <1>2, <1>3, FeedInvariance, PTL DEF Spec

----------------------------------------------------------------------------
(* The ceiling. *)

(* Bursts are told apart by when they were last active.                    *)
Ordered(p) ==
  /\ IsFiniteSet(Bursts(p))
  /\ \A k \in Bursts(p) : p[k].latest \in Nat
  /\ \A j, k \in Bursts(p) : j # k => p[j].latest # p[k].latest

(* There are few of them, and none was active after the clock.             *)
CeilingInv ==
  /\ Ordered(pending) /\ PendingIsBounded
  /\ \A k \in Bursts(pending) : pending[k].latest < clock

(* Of some bursts, one is the least recently active.                       *)
LEMMA OneIsTheOldest ==
  ASSUME NEW p, Ordered(p), NEW K \in SUBSET Bursts(p), K # {}
  PROVE  \E k \in K : \A j \in K : j # k => p[j].latest > p[k].latest
<1> DEFINE Older(k) == {j \in K : p[j].latest < p[k].latest}
           Sets == {Older(k) : k \in K}
<1>1. IsWellFoundedOn(StrictSubsetOrdering(K), SUBSET K)
  <2>1. IsFiniteSet(K)
    BY FS_Subset DEF Ordered
  <2>2. FiniteSubsetsOf(K) = SUBSET K
    BY <2>1, FS_FiniteSubsetsOfFinite
  <2> QED BY <2>2, FS_StrictSubsetOrderingWellFounded
<1>2. PICK s \in Sets : \A t \in Sets : ~(<<t, s>> \in StrictSubsetOrdering(K))
  <2>1. Sets \subseteq SUBSET K /\ Sets # {}
    OBVIOUS
  <2> HIDE DEF Sets
  <2> QED BY <1>1, <2>1, WFMin
<1>3. PICK k \in K : s = Older(k)
  BY <1>2
<1>4. ASSUME NEW j \in K, j # k PROVE p[j].latest > p[k].latest
  <2>1. \A i \in K : p[i].latest \in Nat
    BY DEF Ordered
  <2>2. p[j].latest # p[k].latest
    BY <1>4 DEF Ordered
  <2>3. CASE p[j].latest < p[k].latest
    <3>1. Older(j) \subseteq Older(k) /\ j \in Older(k) /\ j \notin Older(j)
      BY <2>1, <2>3
    <3>2. <<Older(j), Older(k)>> \in StrictSubsetOrdering(K)
      BY <3>1 DEF StrictSubsetOrdering
    <3> QED BY <1>2, <1>3, <3>2
  <2> QED BY <2>1, <2>2, <2>3
<1> QED BY <1>4

(* What the ceiling lets stay: the oldest of them has fewer than           *)
(* PendingMax after it, and they are all after it.                         *)
LEMMA CeilingHolds ==
  ASSUME NEW p, Ordered(p)
  PROVE  Cardinality(Bursts(Without(p, Overflowing(p)))) <= PendingMax
<1> DEFINE K == Bursts(p) \ Overflowing(p)
           Later(k) == {j \in Bursts(p) : p[j].latest > p[k].latest}
<1>1. Bursts(Without(p, Overflowing(p))) = K
  BY DEF Bursts, Without
<1>2. CASE K = {}
  BY <1>1, <1>2, FS_EmptySet, EventFeedAssumption
<1>3. CASE K # {}
  <2>1. PICK k \in K : \A j \in K : j # k => p[j].latest > p[k].latest
    <3> HIDE DEF K
    <3>1. K \in SUBSET Bursts(p)
      BY DEF K
    <3> QED BY <1>3, <3>1, OneIsTheOldest
  <2>2. IsFiniteSet(Later(k)) /\ IsFiniteSet(K)
    BY FS_Subset DEF Ordered
  <2>3. Cardinality(Later(k)) \in Nat /\ ~(Cardinality(Later(k)) >= PendingMax)
    BY <2>1, <2>2, FS_CardinalityType DEF Overflowing
  <2>4. K \ {k} \subseteq Later(k)
    BY <2>1
  <2>5. Cardinality(K \ {k}) <= Cardinality(Later(k)) /\ Cardinality(K \ {k}) = Cardinality(K) - 1
    BY <2>1, <2>2, <2>4, FS_Subset, FS_RemoveElement
  <2>6. Cardinality(K) \in Nat
    BY <2>2, FS_CardinalityType
  <2> HIDE DEF K, Later
  <2> QED BY <1>1, <2>3, <2>5, <2>6, EventFeedAssumption
<1> QED BY <1>2, <1>3

LEMMA FewerAreOrdered ==
  ASSUME NEW p, Ordered(p), NEW ks
  PROVE  Ordered(Without(p, ks))
<1>1. Bursts(Without(p, ks)) \subseteq Bursts(p) /\ \A k \in Bursts(Without(p, ks)) : Without(p, ks)[k] = p[k]
  BY DEF Bursts, Without
<1>2. IsFiniteSet(Bursts(Without(p, ks)))
  BY <1>1, FS_Subset DEF Ordered
<1> QED BY <1>1, <1>2 DEF Ordered

(* Steps that add no burst and no activity.                                *)
LEMMA CeilingKept ==
  ASSUME CeilingInv, Bursts(pending)' \subseteq Bursts(pending), clock' = clock,
         \A k \in Bursts(pending)' : pending'[k].latest = pending[k].latest
  PROVE  CeilingInv'
<1>1. IsFiniteSet(Bursts(pending)') /\ Cardinality(Bursts(pending)') <= Cardinality(Bursts(pending))
  BY FS_Subset DEF CeilingInv, Ordered
<1>2. Cardinality(Bursts(pending)') \in Nat /\ Cardinality(Bursts(pending)) \in Nat
  BY <1>1, FS_CardinalityType DEF CeilingInv, Ordered
<1>3. PendingIsBounded'
  BY <1>1, <1>2, EventFeedAssumption DEF CeilingInv, PendingIsBounded
<1>4. Ordered(pending)'
  BY <1>1 DEF CeilingInv, Ordered
<1> QED BY <1>3, <1>4 DEF CeilingInv

LEMMA CeilingRecords == ASSUME FeedInv, CeilingInv, NEW m \in Msg, Records(m) PROVE CeilingInv'
<1> DEFINE k        == <<LabelOf[handler[m].client], handler[m].chat>>
           recorded == [pending EXCEPT ![k] = Extended(@, m)]
           swept    == Without(recorded, Expired(recorded))
           kept     == Without(swept, Overflowing(swept))
<1>1. pending' = kept /\ clock' = clock + 1 /\ handler[m].pc = "suspended"
  BY DEF Records
<1>2. k \in Key
  BY <1>1, EventFeedAssumption DEF FeedInv, SuspendedIsNamed, Key
<1>3. clock \in Nat /\ pending \in [Key -> Burst \cup {NoBurst}]
  BY DEF FeedInv, TypeOK
<1>4. \A j \in Key : recorded[j] = IF j = k THEN Extended(pending[k], m) ELSE pending[j]
  BY <1>2, <1>3
<1>5. Extended(pending[k], m).latest = clock
  <2>1. CASE pending[k] = NoBurst
    BY <2>1 DEF Extended, Started
  <2>2. CASE pending[k] # NoBurst
    BY <1>2, <1>3, <2>2 DEF Extended, Burst
  <2> QED BY <2>1, <2>2
<1> HIDE DEF recorded, k
<1>6. Bursts(recorded) \subseteq Bursts(pending) \cup {k}
  BY <1>4 DEF Bursts
<1>7. \A j \in Bursts(recorded) : recorded[j].latest = IF j = k THEN clock ELSE pending[j].latest
  BY <1>4, <1>5 DEF Bursts
<1>8. \A j \in Bursts(recorded) : j # k => pending[j].latest \in Nat /\ pending[j].latest < clock
  BY <1>6 DEF CeilingInv, Ordered
<1>9. Ordered(recorded) /\ \A j \in Bursts(recorded) : recorded[j].latest < clock + 1
  <2>1. IsFiniteSet(Bursts(recorded))
    BY <1>6, FS_AddElement, FS_Subset DEF CeilingInv, Ordered
  <2>2. \A j \in Bursts(recorded) : recorded[j].latest \in Nat /\ recorded[j].latest < clock + 1
    BY <1>3, <1>7, <1>8
  <2>3. ASSUME NEW i \in Bursts(recorded), NEW j \in Bursts(recorded), i # j
        PROVE  recorded[i].latest # recorded[j].latest
    <3>1. CASE i # k /\ j # k
      BY <1>6, <1>7, <2>3, <3>1 DEF CeilingInv, Ordered
    <3>2. CASE i = k \/ j = k
      BY <1>3, <1>7, <1>8, <2>3, <3>2
    <3> QED BY <3>1, <3>2
  <2> QED BY <2>1, <2>2, <2>3 DEF Ordered
<1>10. Ordered(swept) /\ Ordered(kept)
  BY <1>9, FewerAreOrdered
<1>11. Cardinality(Bursts(kept)) <= PendingMax
  BY <1>10, CeilingHolds
<1>12. \A j \in Bursts(kept) : j \in Bursts(recorded) /\ kept[j] = recorded[j]
  BY DEF Bursts, Without
<1>13. \A j \in Bursts(kept) : kept[j].latest < clock + 1
  BY <1>9, <1>12
<1> HIDE DEF kept
<1> QED BY <1>1, <1>10, <1>11, <1>13 DEF CeilingInv, PendingIsBounded, Ordered

LEMMA CeilingStep ==
  ASSUME FeedInv, CeilingInv, [Next]_vars
  PROVE  CeilingInv'
<1>1. ASSUME NEW m \in Msg, Records(m) PROVE CeilingInv'
  BY <1>1, CeilingRecords
<1>2. ASSUME NEW k \in Key, Ages(k) PROVE CeilingInv'
  <2>1. PICK older : pending' = [pending EXCEPT ![k].age = older]
    BY <1>2 DEF Ages
  <2>2. pending \in [Key -> Burst \cup {NoBurst}] /\ pending[k] \in Burst /\ clock' = clock
    BY <1>2 DEF Ages, Bursts, FeedInv, TypeOK
  <2>3. \A j \in Key : pending'[j] = IF j = k THEN [pending[k] EXCEPT !.age = older] ELSE pending[j]
    BY <2>1, <2>2
  <2>4. [pending[k] EXCEPT !.age = older].latest = pending[k].latest
    BY <2>2 DEF Burst
  <2>5. Bursts(pending)' \subseteq Bursts(pending)
    BY <1>2, <2>3 DEF Ages, Bursts
  <2> QED BY <2>2, <2>3, <2>4, <2>5, CeilingKept DEF Bursts
<1>3. ASSUME \/ \E w \in Waiter : Scan(w)
             \/ FeedScans
             \/ \E l \in Label : Removes(l)
             \/ \E c \in Client : Adds(c)
      PROVE  CeilingInv'
  <2>1. clock' = clock /\ \E ks : pending' = Without(pending, ks)
    <3>1. CASE (\E w \in Waiter : Scan(w)) \/ FeedScans
      <4> DEFINE gone == Expired(pending)
      <4>1. \/ pending' = Without(pending, gone)
            \/ \E js : pending' = Without(Without(pending, gone), js)
        BY <3>1 DEF Scan, FeedScans
      <4>2. clock' = clock
        BY <3>1 DEF Scan, FeedScans
      <4> HIDE DEF gone
      <4>3. \A js : Without(Without(pending, gone), js) = Without(pending, gone \cup js)
        BY WithoutTwice
      <4> QED BY <4>1, <4>2, <4>3
    <3>2. CASE (\E l \in Label : Removes(l)) \/ (\E c \in Client : Adds(c))
      BY <3>2 DEF Removes, Adds, Rewires
    <3> QED BY <1>3, <3>1, <3>2
  <2>2. PICK ks : pending' = Without(pending, ks)
    BY <2>1
  <2>3. Bursts(pending)' \subseteq Bursts(pending) /\ \A k \in Bursts(pending)' : pending'[k] = pending[k]
    BY <2>2 DEF Bursts, Without
  <2> QED BY <2>1, <2>3, CeilingKept
<1>4. ASSUME UNCHANGED <<pending, clock>> PROVE CeilingInv'
  BY <1>4, CeilingKept DEF Bursts
<1> QED
  BY <1>1, <1>2, <1>3, <1>4
     DEF Next, Arrives, Ignores, Calls, Arms, SleepEnds, GivesUp, FeedStarts, FeedStops, FeedArms, FeedTurns, Swaps, vars

(* However many chats write, and in whatever order handlers, waits, the    *)
(* consumer and reloads take their turns, the map of pending bursts never  *)
(* holds more than TELEGRAM_EVENT_PENDING_MAX (_enforce_pending_ceiling).  *)
THEOREM PendingStaysBounded == Spec => []PendingIsBounded
<1>1. Init => CeilingInv
  <2> SUFFICES ASSUME Init PROVE CeilingInv
    OBVIOUS
  <2>1. Bursts(pending) = {}
    BY DEF Init, Bursts
  <2> QED BY <2>1, FS_EmptySet, EventFeedAssumption DEF CeilingInv, Ordered, PendingIsBounded
<1>2. FeedInv /\ CeilingInv /\ [Next]_vars => CeilingInv'
  BY CeilingStep
<1>3. CeilingInv => PendingIsBounded
  BY DEF CeilingInv
<1> QED BY <1>1, <1>2, <1>3, FeedInvariance, PTL DEF Spec
=============================================================================

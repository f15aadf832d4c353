-------------------------------- MODULE MCChats --------------------------------
(* What the tools do in chats and what they tell of it, each on its own:   *)
(* the parts of ChatRecords; deletions, buttons, channel names, pages,     *)
(* sends and media that disappear; the gate every call passes and the two  *)
(* lookups calls share.  A behaviour is one of them, chosen at the start.  *)
(*                                                                         *)
(* The parts that are proved about take their bounds from the .cfg, so     *)
(* that what is checked of a few holds of any; pages and sends say theirs. *)
EXTENDS ChatRecords, FiniteSetTheorems, TLC

CONSTANTS
  a, b, g, k1, k2,
  GateChat, ChatOmitted, RateDelay, CallBudget, GateTime,                   \* the gate
  RawLabel, ButtonPayload, KeyboardEdits, ButtonRestarts,                   \* buttons
  MessageId, OtherChatId, ChunkSize, PassLimit,                             \* deletions
  NameWanted, NameClaims,                                                   \* channel names
  OpenedMedia, OpenedVoice, NameTries, TimerCeiling, TimerSends,            \* media that disappear
  EffectId, EffectHour, EffectUnknown, EffectTime, EffectChanges, EffectChecks,
  LookupChat, LookupDialogs, WarmWindow, LookupTime, WarmLimit              \* the dialog warm-up

VARIABLES
  part,
  kind, copies, removed, deleting,
  keyboard, keyboardEdits, process, listings, press,
  file, active, exposed, callNow, last, lock, waiting, calls, latest,
  lookupNow, cache, stamp, warms, registered, stopping, lookups,
  effectNow, server, changes, catalog, generation, epoch, catalogHolder, effectLookups, lacked, lastAbsent,
  names, exists, claims, naming,
  items, arrived, walk,
  destination, present, album, sending,
  media, saved, accepts, timed, opening

deletionVars   == <<kind, copies, removed, deleting>>
buttonVars     == <<keyboard, keyboardEdits, process, listings, press>>
callVars       == <<file, active, exposed, callNow, last, lock, waiting, calls, latest>>
lookupVars     == <<lookupNow, cache, stamp, warms, registered, stopping, lookups>>
catalogVars    == <<effectNow, server, changes, catalog, generation, epoch, catalogHolder, effectLookups, lacked,
                    lastAbsent>>
nameVars       == <<names, exists, claims, naming>>
pageVars       == <<items, arrived, walk>>
sendVars       == <<destination, present, album, sending>>
openedVars     == <<media, saved, accepts, timed, opening>>

Symmetry == Permutations(Callers)

(* The label b is shown for c as well. *)
ShownAs == [l \in RawLabel |-> IF l = g THEN b ELSE l]

Policy == [safe : {TRUE}, readOnly : BOOLEAN, paced : BOOLEAN, strict : {TRUE}, allowed : {GateChat}]

D == INSTANCE Deletion WITH
       Id <- MessageId, ElsewhereId <- OtherChatId, DeleteChunk <- ChunkSize, MaxPasses <- PassLimit
B == INSTANCE Buttons WITH
       Raw <- RawLabel, Cleaned <- ShownAs, Payload <- ButtonPayload, MaxEdits <- KeyboardEdits,
       MaxRestarts <- ButtonRestarts, edits <- keyboardEdits
C == INSTANCE ToolCalls WITH
       Call <- Callers, Chat <- GateChat, NoChat <- ChatOmitted, Delay <- RateDelay, Budget <- CallBudget,
       MaxTime <- GateTime, Prompt <- FALSE, Policies <- Policy, now <- callNow
L == INSTANCE PeerLookup WITH
       Caller <- Callers, Chat <- LookupChat, Dialogs <- LookupDialogs, Window <- WarmWindow, MaxTime <- LookupTime,
       MaxWarms <- WarmLimit, now <- lookupNow
E == INSTANCE EffectCatalog WITH
       Caller <- Callers, Id <- EffectId, Hour <- EffectHour, MaxUnknown <- EffectUnknown, MaxTime <- EffectTime,
       MaxChanges <- EffectChanges, MaxChecks <- EffectChecks,
       now <- effectNow, holder <- catalogHolder, lookups <- effectLookups
N == INSTANCE ChannelName WITH
       Call <- Callers, Name <- NameWanted, MaxClaims <- NameClaims, holder <- names
P == INSTANCE Pages WITH
       Ceiling <- 2, MaxOffset <- 3, Depth <- 3, Scan <- 3, MaxItems <- 3, MaxDay <- 2, MaxPages <- 2, Drifts <- FALSE
S == INSTANCE Sends WITH
       MaxFiles <- 3, Reach <- 2, MaxId <- 5, MaxOthers <- 1, Drops <- TRUE, chat <- destination
O == INSTANCE Disappearing WITH
       Caller <- Callers, Message <- OpenedMedia, Voice <- OpenedVoice, NameAttempts <- NameTries,
       Ceiling <- TimerCeiling, MaxSends <- TimerSends,
       files <- saved, chat <- timed, call <- opening

ASSUME ChatsAssumption ==
  /\ D!DeletionAssumption /\ B!ButtonsAssumption /\ C!ToolCallsAssumption /\ L!PeerLookupAssumption
  /\ E!EffectCatalogAssumption /\ N!ChannelNameAssumption /\ P!PagesAssumption /\ S!SendsAssumption
  /\ O!DisappearingAssumption

(* A part that was not chosen rests in one of its initial states.          *)
MCInit ==
  /\ part \in {"deletion", "queue", "folders", "buttons", "calls", "lookups", "effects", "names", "pages", "polls",
               "sends", "lists", "members", "rights", "opened"}
  /\ D!Init /\ (part # "deletion" => kind = "channel" /\ copies = MessageId \X D!Side)
  /\ Q!Init
  /\ F!Init
  /\ B!Init /\ keyboard[1].raw = b /\ (part # "buttons" => keyboard = [i \in 1..2 |-> [raw |-> b, payload |-> 1]])
  /\ C!Init /\ (part # "calls" => file = C!Missing /\ exposed = C!ExposedUnder("all", {}))
  /\ L!Init
  /\ E!Init /\ (part # "effects" => server = {})
  /\ N!Init /\ (part # "names" => names = [n \in NameWanted |-> N!None])
  /\ P!Init
  /\ V!Init /\ (poll.exists => Len(poll.options) = 2 /\ (poll.quiz \/ poll.multiple)) /\ (part # "polls" => poll = V!NoPoll)
  /\ S!Init /\ (part # "sends" => album = {1})
  /\ K!Init /\ (part # "lists" => shelf = "replies")
  /\ M!Init /\ primary = k1 /\ (replaces <=> guarded = {}) /\ (part # "members" => /\ chatKind = "group" /\ guarded = {} /\ members = {}
                                    /\ ~link[k1].asks /\ nameFree)
  /\ R!Init /\ (about = "admins" => means = AdminRight /\ k1 \in own) /\ (part # "rights" => about = "privacy")
  /\ O!Init /\ (part # "opened" => accepts = 0)

MCNext ==
  /\ UNCHANGED part
  /\ IF part = "deletion" THEN D!Next ELSE UNCHANGED deletionVars
  /\ IF part = "queue"    THEN Q!Next ELSE UNCHANGED queueVars
  /\ IF part = "folders"  THEN F!Next ELSE UNCHANGED folderVars
  /\ IF part = "buttons"  THEN B!Next ELSE UNCHANGED buttonVars
  /\ IF part = "calls"    THEN C!Next ELSE UNCHANGED callVars
  /\ IF part = "lookups"  THEN L!Next ELSE UNCHANGED lookupVars
  /\ IF part = "effects"  THEN E!Next ELSE UNCHANGED catalogVars
  /\ IF part = "names"    THEN N!Next ELSE UNCHANGED nameVars
  /\ IF part = "pages"    THEN P!Next ELSE UNCHANGED pageVars
  /\ IF part = "polls"    THEN V!Next ELSE UNCHANGED pollVars
  /\ IF part = "sends"    THEN S!Next ELSE UNCHANGED sendVars
  /\ IF part = "lists"    THEN K!Next ELSE UNCHANGED listVars
  /\ IF part = "members"  THEN M!Next ELSE UNCHANGED membershipVars
  /\ IF part = "rights"   THEN R!Next ELSE UNCHANGED rightsVars
  /\ IF part = "opened"   THEN O!Next ELSE UNCHANGED openedVars

chatsVars ==
  <<part, deletionVars, queueVars, folderVars, buttonVars, callVars, lookupVars, catalogVars, nameVars, pageVars,
    pollVars, sendVars, listVars, membershipVars, rightsVars, openedVars>>

MCSpec == MCInit /\ [][MCNext]_chatsVars

----------------------------------------------------------------------------
(* A reply is true when it is given, and tells of a change only what       *)
(* Telegram did.                                                           *)
RepliesAreTrue ==
  /\ D!DeletionIsToldAsItWas /\ N!CallsTellWhatTheyDid /\ M!EveryChatIsTold /\ O!TimersAreTold
  /\ E!AbsentWasAbsent /\ L!WindowMeansWarmed /\ L!WarmIsShared
RepliesAreTrueThen ==
  V!ReadingTellsTheVotes /\ K!RepliesTellTheList /\ M!RepliesAreSo

(* What happens is what the caller named: these messages and no others,    *)
(* once, at this time, by this button, into this folder.                   *)
WhatIsNamedIsMeant ==
  /\ D!OnlyTheNamedGo /\ B!PressIsWhatWasListed
  /\ Q!QueueHoldsWholeMessages /\ Q!PostponedIsNotSent /\ V!DeadlinesAreAccepted
  /\ F!AddedChatsStay /\ K!StickersAreAddedOnce /\ O!SavedFilesStay

(* A step changes nothing its caller did not name: not the rest of a       *)
(* message, a folder, a poll, a list, a link or an exception.              *)
OthersAreLeftAlone ==
  /\ Q!EditKeepsTheRest /\ F!FoldersKeepTheirIdentity /\ V!ClosingKeepsThePoll
  /\ K!OthersStay /\ M!OmittedConditionsStay
  /\ R!GrantedUnlessDeclined /\ R!WithheldUnlessNamed /\ R!ExceptionsHold

(* Nothing of what a caller asks for is skipped: who reads to the end has  *)
(* seen all there was, and an end is one; what is sent goes whole, in the  *)
(* order it was given, and is told.  The pages are asked of the part that  *)
(* turns them only: it takes TLC long, and the others have no list.        *)
NothingIsSkipped ==
  /\ part = "pages" => P!WalkSeesEverything /\ P!DaysAreServedWhole /\ P!EndsAreHonest
  /\ S!OrderIsTheCallers /\ S!CaptionIsWrittenOnce /\ S!WholeAlbumIsTaken /\ S!RepliesTellWhatWasSent

(* Requests to Telegram keep their distance, and a token ends with the     *)
(* process that signed it.                                                 *)
CallsAreGated == C!RequestsAreSpaced /\ B!TokensEndWithTheProcess
AllowedCallsAreServed == C!AllowedCallsAreServed
QuizzesCanBeClosed == V!QuizzesCanBeClosed

----------------------------------------------------------------------------
(* The proofs about MCSpec: each part has an inductive invariant of its    *)
(* own; a step of another part leaves it as it is.                         *)

(* The gate.  What its numbers and its places are.                         *)
LEMMA GateTypes ==
  /\ RateDelay \in Nat /\ GateTime \in Nat /\ CallBudget \in Nat /\ C!None \notin Callers
  /\ C!CallRecord = [pc : {"unasked", "waiting", "sleeping", "running"} \cup C!Ended, chat : GateChat \cup {ChatOmitted},
                     arrived : 0..GateTime, wake : 0..GateTime + RateDelay, due : 0..GateTime + CallBudget]
  BY ChatsAssumption DEF ChatsAssumption, C!ToolCallsAssumption, C!None, C!CallRecord

LEMMA GateInit == ASSUME C!Init PROVE C!Pacing
<1>1. C!Unasked \in C!CallRecord /\ C!Unasked.pc = "unasked"
  BY GateTypes DEF C!Unasked
<1> QED BY <1>1, GateTypes DEF C!Init, C!Pacing, C!SleeperHoldsTheLock

(* A call that moves, and the lock stays with whoever sleeps.              *)
LEMMA GateMoves ==
  ASSUME C!Pacing, NEW c \in Callers, NEW r \in C!CallRecord, r.pc # "sleeping", calls' = [calls EXCEPT ![c] = r],
         UNCHANGED <<callNow, last, latest>>, lock' = lock \/ lock = c
  PROVE  C!Pacing'
<1>1. calls' \in [Callers -> C!CallRecord] /\ calls'[c] = r /\ \A d \in Callers \ {c} : calls'[d] = calls[d]
  BY DEF C!Pacing
<1>2. C!SleeperHoldsTheLock'
  BY <1>1 DEF C!Pacing, C!SleeperHoldsTheLock
<1> QED BY <1>1, <1>2 DEF C!Pacing

LEMMA GateRuns ==
  ASSUME C!Pacing, NEW c \in Callers, NEW r \in C!CallRecord, C!Runs(c, r)
  PROVE  \E s \in C!CallRecord : s.pc = "running" /\ calls' = [calls EXCEPT ![c] = s]
<1> DEFINE s == [r EXCEPT !.pc = "running", !.due = callNow + CallBudget]
<1>1. callNow + CallBudget \in 0..GateTime + CallBudget
  BY GateTypes DEF C!Pacing
<1>2. s \in C!CallRecord /\ s.pc = "running"
  BY <1>1, GateTypes
<1> QED BY <1>2 DEF C!Runs

(* A paced body begins: no one sleeps once the last request has moved.     *)
LEMMA GateBegins ==
  ASSUME C!Pacing, NEW c \in Callers, C!Runs(c, calls[c]), last' = callNow, latest' = callNow, UNCHANGED callNow,
         lock' = C!None, lock \in {C!None, c}
  PROVE  C!Pacing'
<1>1. calls[c] \in C!CallRecord
  BY DEF C!Pacing
<1>2. PICK s \in C!CallRecord : s.pc = "running" /\ calls' = [calls EXCEPT ![c] = s]
  BY <1>1, GateRuns
<1>3. calls' \in [Callers -> C!CallRecord] /\ calls'[c] = s /\ \A d \in Callers \ {c} : calls'[d] = calls[d]
  BY <1>2 DEF C!Pacing
<1>4. \A d \in Callers : calls'[d].pc # "sleeping"
  BY <1>2, <1>3, GateTypes DEF C!Pacing, C!SleeperHoldsTheLock
<1>5. last' \in 0..callNow' /\ latest' \in -RateDelay..last' /\ callNow' \in 0..GateTime
  BY GateTypes DEF C!Pacing
<1> QED BY <1>3, <1>4, <1>5 DEF C!Pacing, C!SleeperHoldsTheLock

LEMMA GateTakesLock == ASSUME C!Pacing, C!TakeLock PROVE C!Pacing'
<1> DEFINE c == Head(waiting)
<1>1. lock = C!None /\ UNCHANGED callNow
  BY DEF C!TakeLock
<1>2. ASSUME c \notin Callers PROVE C!Pacing'
  <2>1. calls' = calls
    <3>1. calls' = [calls EXCEPT ![c].pc = "sleeping", ![c].wake = last + RateDelay] \/ C!Runs(c, calls[c])
      BY DEF C!TakeLock
    <3>2. \A d \in Callers : d # c
      BY <1>2
    <3> HIDE DEF c
    <3>3. calls \in [Callers -> C!CallRecord]
      BY DEF C!Pacing
    <3> QED BY <3>1, <3>2, <3>3 DEF C!Runs
  <2>2. \A d \in Callers : calls[d].pc # "sleeping"
    BY <1>1, GateTypes DEF C!Pacing, C!SleeperHoldsTheLock
  <2>3. (UNCHANGED <<last, latest>>) \/ (last' = callNow /\ latest' = callNow)
    BY DEF C!TakeLock
  <2>4. last' \in 0..callNow' /\ latest' \in -RateDelay..last' /\ callNow' \in 0..GateTime
    BY <2>3, <1>1, GateTypes DEF C!Pacing
  <2> QED BY <2>1, <2>2, <2>4 DEF C!Pacing, C!SleeperHoldsTheLock
<1>3. ASSUME c \in Callers, callNow - last < RateDelay PROVE C!Pacing'
  <2>1. /\ calls' = [calls EXCEPT ![c].pc = "sleeping", ![c].wake = last + RateDelay]
        /\ lock' = c /\ UNCHANGED <<last, latest>>
    BY <1>3 DEF C!TakeLock, C!KeepsTheLock
  <2>2. last + RateDelay \in 0..GateTime + RateDelay
    BY GateTypes DEF C!Pacing
  <2> HIDE DEF c
  <2>3. calls' \in [Callers -> C!CallRecord]
    BY <2>1, <2>2, <1>3, GateTypes DEF C!Pacing
  <2>4. /\ calls'[c].pc = "sleeping" /\ calls'[c].wake = last + RateDelay
        /\ \A d \in Callers \ {c} : calls'[d] = calls[d]
    BY <2>1, <1>3, GateTypes DEF C!Pacing
  <2>5. \A d \in Callers : calls[d].pc # "sleeping"
    BY <1>1, GateTypes DEF C!Pacing, C!SleeperHoldsTheLock
  <2>6. C!SleeperHoldsTheLock'
    BY <2>1, <2>4, <2>5 DEF C!SleeperHoldsTheLock
  <2> QED BY <2>1, <2>3, <2>6, <1>1 DEF C!Pacing
<1>4. ASSUME c \in Callers, ~(callNow - last < RateDelay) PROVE C!Pacing'
  <2>1. C!Runs(c, calls[c]) /\ last' = callNow /\ latest' = callNow /\ lock' = lock
    BY <1>4 DEF C!TakeLock
  <2> HIDE DEF c
  <2> QED BY <2>1, <1>1, <1>4, GateBegins
<1> QED BY <1>2, <1>3, <1>4

LEMMA GateStep == ASSUME C!Pacing, [C!Next]_C!callVars PROVE C!Pacing'
<1>0. calls \in [Callers -> C!CallRecord] /\ callNow \in 0..GateTime
  BY DEF C!Pacing
<1>1. ASSUME NEW c \in Callers, NEW tool \in exposed, NEW target \in GateChat \cup {ChatOmitted}, C!Arrive(c, tool, target)
      PROVE  C!Pacing'
  <2> DEFINE r == [C!Unasked EXCEPT !.chat = target, !.arrived = callNow]
  <2>1. r \in C!CallRecord
    <3>1. C!Unasked \in C!CallRecord
      BY GateTypes DEF C!Unasked
    <3> QED BY <3>1, <1>0, GateTypes
  <2>2. \/ \E pc \in {"refused", "failed", "waiting"} : calls' = [calls EXCEPT ![c] = [r EXCEPT !.pc = pc]]
        \/ C!Runs(c, r)
    BY <1>1 DEF C!Arrive
  <2>3. UNCHANGED <<callNow, last, lock, latest>>
    BY <1>1 DEF C!Arrive
  <2> HIDE DEF r
  <2>4. \A pc \in {"refused", "failed", "waiting"} : [r EXCEPT !.pc = pc] \in C!CallRecord /\ [r EXCEPT !.pc = pc].pc = pc
    BY <2>1, GateTypes DEF C!Ended
  <2>5. \E s \in C!CallRecord : s.pc # "sleeping" /\ calls' = [calls EXCEPT ![c] = s]
    <3>1. CASE \E pc \in {"refused", "failed", "waiting"} : calls' = [calls EXCEPT ![c] = [r EXCEPT !.pc = pc]]
      BY <3>1, <2>4
    <3>2. CASE C!Runs(c, r)
      BY <3>2, <2>1, GateRuns
    <3> QED BY <3>1, <3>2, <2>2
  <2> QED BY <2>3, <2>5, GateMoves
<1>2. ASSUME C!TakeLock PROVE C!Pacing'
  BY <1>2, GateTakesLock
<1>3. ASSUME NEW c \in Callers, C!Wake(c) PROVE C!Pacing'
  BY <1>3, GateBegins DEF C!Wake, C!Pacing, C!SleeperHoldsTheLock
<1>4. ASSUME NEW c \in Callers, NEW pc \in {"answered", "timed out", "cancelled"},
             calls' = [calls EXCEPT ![c].pc = pc], UNCHANGED <<callNow, last, latest>>, lock' = lock \/ lock = c
      PROVE  C!Pacing'
  <2> DEFINE r == [calls[c] EXCEPT !.pc = pc]
  <2>1. r \in C!CallRecord /\ r.pc = pc /\ calls' = [calls EXCEPT ![c] = r]
    BY <1>0, <1>4, GateTypes DEF C!Ended
  <2> HIDE DEF r
  <2> QED BY <2>1, <1>4, GateMoves
<1>5. ASSUME NEW c \in Callers, C!Answer(c) \/ C!TimesOut(c) \/ C!Cancel(c) PROVE C!Pacing'
  <2>1. /\ \E pc \in {"answered", "timed out", "cancelled"} : calls' = [calls EXCEPT ![c].pc = pc]
        /\ UNCHANGED <<callNow, last, latest>> /\ (lock' = lock \/ lock = c)
    BY <1>5 DEF C!Answer, C!TimesOut, C!Cancel
  <2> QED BY <2>1, <1>4
<1>6. ASSUME UNCHANGED <<last, latest, calls, lock>>, callNow' \in {callNow, callNow + 1}, callNow' \in 0..GateTime
      PROVE  C!Pacing'
  BY <1>6 DEF C!Pacing, C!SleeperHoldsTheLock
<1>7. ASSUME C!Tick PROVE C!Pacing'
  BY <1>0, <1>6, <1>7, GateTypes DEF C!Tick
<1>8. ASSUME NEW policy \in Policy, C!PanelSaves(policy) PROVE C!Pacing'
  BY <1>0, <1>6, <1>8 DEF C!PanelSaves
<1>9. ASSUME UNCHANGED C!callVars PROVE C!Pacing'
  BY <1>0, <1>6, <1>9 DEF C!callVars
<1> QED BY <1>1, <1>2, <1>3, <1>5, <1>7, <1>8, <1>9 DEF C!Next

LEMMA GateSpaces == ASSUME C!Pacing, [C!Next]_C!callVars, latest' # latest PROVE latest' - latest >= RateDelay
<1>1. C!TakeLock \/ \E c \in Callers : C!Wake(c)
  BY DEF C!Next, C!callVars, C!Tick, C!Answer, C!TimesOut, C!Cancel, C!Arrive, C!PanelSaves
<1>2. latest' = callNow /\ callNow - last >= RateDelay
  <2>1. CASE C!TakeLock
    <3>1. latest' = callNow /\ ~(callNow - last < RateDelay)
      BY <2>1 DEF C!TakeLock
    <3> QED BY <3>1, GateTypes DEF C!Pacing
  <2>2. ASSUME NEW c \in Callers, C!Wake(c) PROVE latest' = callNow /\ callNow - last >= RateDelay
    <3>1. latest' = callNow /\ callNow >= last + RateDelay
      BY <2>2 DEF C!Wake, C!Pacing, C!SleeperHoldsTheLock
    <3> QED BY <3>1, GateTypes DEF C!Pacing
  <2> QED BY <1>1, <2>1, <2>2
<1> QED BY <1>2, GateTypes DEF C!Pacing

(* The buttons.  A token is of the process that signed it, and a press on  *)
(* its way is of the process that checked it.                              *)
LEMMA ButtonsInit == ASSUME B!Init PROVE B!Inv
<1>1. ButtonRestarts \in Nat /\ KeyboardEdits \in Nat
  BY ChatsAssumption DEF ChatsAssumption, B!ButtonsAssumption
<1> QED BY <1>1 DEF B!Init, B!Inv, B!TypeOK, B!CheckedIsOfThisProcess, B!NoPress

LEMMA ButtonsStep ==
  ASSUME B!Inv, [B!Next]_B!buttonVars
  PROVE  B!Inv' /\ (press'.state = "sent" /\ press' # press => press.token.key = process)
<1>0. /\ ButtonRestarts \in Nat /\ KeyboardEdits \in Nat /\ ButtonPayload \subseteq Nat \ {0}
      /\ ShownAs \in [RawLabel -> RawLabel] /\ B!NoPress.state = "none"
  BY ChatsAssumption DEF ChatsAssumption, B!ButtonsAssumption, B!NoPress
<1>1. /\ keyboard \in [1..2 -> [raw : RawLabel, payload : ButtonPayload \cup {0}]]
      /\ keyboardEdits \in 0..KeyboardEdits /\ process \in 0..ButtonRestarts /\ listings \subseteq B!Token
      /\ press \in {B!NoPress} \cup [state : {"checked", "sent"}, index : 1..2, payload : ButtonPayload,
                                     expected : RawLabel, token : B!Token]
      /\ (press.state = "checked" => press.token.key = process)
  BY DEF B!Inv, B!TypeOK, B!Keyboards, B!CheckedIsOfThisProcess
<1> DEFINE Presses == [state : {"checked", "sent"}, index : 1..2, payload : ButtonPayload, expected : RawLabel,
                       token : B!Token]
<1>2. ASSUME keyboard' \in B!Keyboards, keyboardEdits' \in 0..KeyboardEdits, process' \in 0..ButtonRestarts,
             listings' \subseteq B!Token, press' \in {B!NoPress} \cup Presses,
             press'.state = "checked" => press'.token.key = process'
      PROVE  B!Inv'
  BY <1>2 DEF B!Inv, B!TypeOK, B!CheckedIsOfThisProcess
<1>3. CASE B!Inspect
  <2>1. \A i \in DOMAIN keyboard : B!Pressable(i) => B!TokenOf(i) \in B!Token
    BY <1>1 DEF B!Pressable, B!TokenOf, B!Token
  <2>2. listings' \subseteq B!Token
    BY <1>1, <1>3, <2>1 DEF B!Inspect
  <2>3. UNCHANGED <<keyboard, keyboardEdits, process, press>>
    BY <1>3 DEF B!Inspect
  <2> QED BY <2>2, <2>3, <1>1, <1>2 DEF B!Keyboards
<1>4. CASE B!Press
  <2>1. press.state = "checked" /\ press' = [press EXCEPT !.state = "sent"] /\ press \in Presses
    BY <1>0, <1>1, <1>4 DEF B!Press
  <2>2. press' \in Presses /\ press'.state = "sent"
    BY <2>1
  <2>3. UNCHANGED <<keyboard, keyboardEdits, process, listings>>
    BY <1>4 DEF B!Press
  <2> HIDE DEF Presses
  <2> QED BY <2>1, <2>2, <2>3, <1>1, <1>2 DEF B!Keyboards
<1>5. CASE B!PressFails
  BY <1>5, <1>0, <1>1, <1>2 DEF B!PressFails, B!Keyboards
<1>6. CASE B!Restart
  BY <1>6, <1>0, <1>1, <1>2 DEF B!Restart, B!Keyboards
<1>7. ASSUME NEW k \in B!Keyboards, B!EditKeyboard(k) PROVE B!Inv' /\ press' = press
  BY <1>7, <1>0, <1>1, <1>2 DEF B!EditKeyboard
<1>8. ASSUME NEW index \in 1..2, NEW seen \in listings, NEW token \in listings, B!Click(index, ShownAs[seen.raw], token)
      PROVE  B!Inv' /\ press'.state = "checked"
  <2>1. seen.raw \in RawLabel /\ token \in B!Token
    BY <1>1, <1>8 DEF B!Token
  <2>2. /\ press' = [state |-> "checked", index |-> index, payload |-> keyboard[index].payload,
                     expected |-> ShownAs[seen.raw], token |-> token]
        /\ keyboard[index].payload # 0 /\ token = B!TokenOf(index)
        /\ UNCHANGED <<keyboard, keyboardEdits, process, listings>>
    BY <1>8 DEF B!Click, B!Pressable, B!Authorizes
  <2>3. token.key = process
    BY <2>2 DEF B!TokenOf
  <2>4. keyboard[index].payload \in ButtonPayload /\ ShownAs[seen.raw] \in RawLabel
    BY <1>0, <1>1, <2>1, <2>2
  <2>5. press' \in Presses /\ press'.state = "checked" /\ press'.token = token
    BY <2>1, <2>2, <2>4
  <2> HIDE DEF Presses
  <2> QED BY <2>2, <2>3, <2>5, <1>1, <1>2 DEF B!Keyboards
<1>9. CASE UNCHANGED B!buttonVars
  BY <1>9, <1>1, <1>2 DEF B!buttonVars, B!Keyboards
<1>10. CASE B!Next
  <2>1. ASSUME press' = press \/ press'.state = "checked" \/ press' = B!NoPress
        PROVE  press'.state = "sent" /\ press' # press => press.token.key = process
    BY <2>1, <1>0
  <2>2. CASE B!Press
    <3>1. press.state = "checked"
      BY <2>2 DEF B!Press
    <3> QED BY <3>1, <2>2, <1>1, <1>4
  <2>3. CASE B!Inspect \/ B!PressFails \/ B!Restart
    BY <2>1, <2>3, <1>3, <1>5, <1>6 DEF B!Inspect, B!PressFails, B!Restart
  <2> QED BY <1>10, <2>1, <2>2, <2>3, <1>7, <1>8 DEF B!Next
<1> QED BY <1>9, <1>10 DEF B!buttonVars

(* A press that passed its checks is of a listing: its token is, and the   *)
(* keyboard it was checked against is the one the token was signed for.    *)
LEMMA ButtonsListed ==
  ASSUME B!CheckedIsListed, [B!Next]_B!buttonVars
  PROVE  B!CheckedIsListed'
<1>1. ASSUME press' = B!NoPress PROVE B!CheckedIsListed'
  BY <1>1 DEF B!CheckedIsListed, B!NoPress
<1>2. ASSUME listings \subseteq listings', press' = press PROVE B!CheckedIsListed'
  BY <1>2 DEF B!CheckedIsListed, B!IsOfAListing
<1>3. CASE B!Press
  <2>1. press' = [press EXCEPT !.state = "sent"] /\ listings' = listings /\ B!IsOfAListing
    BY <1>3 DEF B!Press, B!CheckedIsListed
  <2>2. press'.index = press.index /\ press'.payload = press.payload /\ press'.expected = press.expected /\ press'.token = press.token
    BY <2>1
  <2> QED BY <2>1, <2>2 DEF B!CheckedIsListed, B!IsOfAListing
<1>4. ASSUME NEW index \in 1..2, NEW expected, NEW token \in listings, B!Click(index, expected, token) PROVE B!CheckedIsListed'
  <2>1. /\ press' = [state |-> "checked", index |-> index, payload |-> keyboard[index].payload, expected |-> expected,
                     token |-> token]
        /\ ShownAs[keyboard[index].raw] = expected /\ listings' = listings
        /\ token = [index |-> index, raw |-> keyboard[index].raw, payload |-> keyboard[index].payload, key |-> process]
    BY <1>4 DEF B!Click, B!Shown, B!Authorizes, B!TokenOf
  <2>2. token.index = index /\ token.payload = keyboard[index].payload /\ token.raw = keyboard[index].raw
    BY <2>1
  <2>3. press'.index = index /\ press'.payload = keyboard[index].payload /\ press'.expected = expected /\ press'.token = token
    BY <2>1
  <2> HIDE DEF ShownAs
  <2> QED BY <2>1, <2>2, <2>3 DEF B!CheckedIsListed, B!IsOfAListing
<1>5. CASE B!Inspect \/ \E k \in B!Keyboards : B!EditKeyboard(k)
  BY <1>2, <1>5 DEF B!Inspect, B!EditKeyboard
<1>6. CASE B!PressFails \/ B!Restart
  BY <1>1, <1>6 DEF B!PressFails, B!Restart
<1>7. CASE UNCHANGED B!buttonVars
  BY <1>2, <1>7 DEF B!buttonVars
<1> QED BY <1>3, <1>4, <1>5, <1>6, <1>7 DEF B!Next

(* Deletions.  The ids of a request in some order, each once.              *)
LEMMA OrderedOnce ==
  ASSUME NEW ids \in SUBSET MessageId
  PROVE  D!SetToSeq(ids) \in Seq(ids) /\ D!IsInjective(D!SetToSeq(ids))
<1>1. IsFiniteSet(MessageId)
  BY ChatsAssumption DEF ChatsAssumption, D!DeletionAssumption, D!IsFiniteSet, IsFiniteSet
<1>2. IsFiniteSet(ids)
  BY <1>1, FS_Subset
<1>3. Cardinality(ids) \in Nat /\ ExistsBijection(1..Cardinality(ids), ids)
  BY <1>2, FS_CardinalityType
<1>4. PICK order \in [1..Cardinality(ids) -> ids] : \A i, j \in 1..Cardinality(ids) : order[i] = order[j] => i = j
  BY <1>3 DEF ExistsBijection, Bijection, Injection, IsInjective
<1>5. D!Cardinality(ids) = Cardinality(ids)
  BY DEF D!Cardinality, Cardinality
<1>6. \E turn \in [1..D!Cardinality(ids) -> ids] : D!IsInjective(turn)
  BY <1>4, <1>5 DEF D!IsInjective
<1>7. D!SetToSeq(ids) \in [1..D!Cardinality(ids) -> ids] /\ D!IsInjective(D!SetToSeq(ids))
  BY <1>6 DEF D!SetToSeq
<1> QED BY <1>3, <1>5, <1>7

LEMMA DeletionInit == ASSUME D!Init PROVE D!Inv
<1> DEFINE known == CHOOSE id \in D!Own : TRUE
<1>0. /\ D!Idle.pc = "idle" /\ D!Idle.op = "none" /\ D!Idle.ids = {} /\ D!Idle.report = D!Nothing
      /\ D!Idle.sent = 0
  BY DEF D!Idle
<1>1. known \in D!Own
  BY ChatsAssumption DEF ChatsAssumption, D!DeletionAssumption, D!Init, D!Own
<1>2. D!ElsewhereStays
  <2>1. copies \in {MessageId \X D!Side, (MessageId \X D!Side) \ {<<known, s>> : s \in D!Side}}
    BY DEF D!Init
  <2> HIDE DEF known
  <2>2. ASSUME NEW id \in MessageId \ D!Own PROVE <<id, "mine">> \in copies
    BY <1>1, <2>1, <2>2 DEF D!Side
  <2> QED BY <2>2 DEF D!ElsewhereStays, D!Present
<1> QED BY <1>0, <1>2 DEF D!Init, D!Inv, D!IsADeletion, D!IsAllowed, D!IsBatched, D!NothingIsRemovedYet, D!NothingIsToldYet, D!OnlyTheNamedGo,
     D!DeletionIsToldAsItWas

(* What a request for ids that live here takes away.                       *)
LEMMA DeletionPerforms ==
  ASSUME D!Inv, NEW ids \in SUBSET (deleting.ids \cap D!Own), deleting.pc = "deleting", D!MayPerform(ids), UNCHANGED kind
  PROVE  /\ D!ElsewhereStays' /\ D!Present' \subseteq D!Present /\ D!TakenIds' \subseteq D!TakenIds \cup ids
         /\ D!Performs(ids) => ids \cap D!Present' = {}
         /\ removed' \subseteq (deleting.ids \cap D!Own) \X D!Side
         /\ ~deleting.revoke => removed' \subseteq MessageId \X {"mine"}
         /\ D!Own' = D!Own
<1> DEFINE away == D!Affected(ids, deleting.revoke)
<1>0. D!Own' = D!Own /\ D!Own \subseteq MessageId
  BY DEF D!Own
<1>1. away \subseteq ids \X D!Side /\ (~deleting.revoke => away \subseteq ids \X {"mine"})
  BY DEF D!Affected, D!Inv, D!IsAllowed, D!Side
<1>2. /\ copies' \in {copies \ away, copies} /\ removed' \in {removed \cup away, removed}
      /\ D!Performs(ids) => copies' = copies \ away
  BY DEF D!MayPerform, D!Performs
<1>3. \A id \in ids : <<id, "mine">> \in copies => <<id, "mine">> \in away
  BY DEF D!Affected, D!Side
<1> HIDE DEF away
<1>4. \A id \in MessageId \ D!Own : <<id, "mine">> \notin away
  BY <1>1
<1>5. D!ElsewhereStays'
  BY <1>0, <1>2, <1>4 DEF D!Inv, D!ElsewhereStays, D!Present
<1>6. D!Present' \subseteq D!Present /\ (D!Performs(ids) => ids \cap D!Present' = {})
  BY <1>2, <1>3 DEF D!Present
<1>7. D!TakenIds' \subseteq D!TakenIds \cup ids
  <2>1. \A r \in away : r[1] \in ids
    BY <1>1
  <2> QED BY <1>2, <2>1 DEF D!TakenIds
<1>8. /\ removed' \subseteq (deleting.ids \cap D!Own) \X D!Side
      /\ ~deleting.revoke => removed' \subseteq MessageId \X {"mine"}
  <2>1. removed \subseteq (deleting.ids \cap D!Own) \X D!Side /\ (~deleting.revoke => removed \subseteq MessageId \X {"mine"})
    BY DEF D!Inv, D!OnlyTheNamedGo
  <2>2. away \subseteq (deleting.ids \cap D!Own) \X D!Side
    BY <1>1
  <2>3. ~deleting.revoke => away \subseteq MessageId \X {"mine"}
    BY <1>0, <1>1
  <2> QED BY <1>2, <2>1, <2>2, <2>3
<1> QED BY <1>0, <1>5, <1>6, <1>7, <1>8

(* A call ends with a request, or goes on to the next.                     *)
LEMMA DeletionTurns ==
  ASSUME D!Inv, NEW ids \in SUBSET (deleting.ids \cap D!Own), deleting.pc = "deleting", D!MayPerform(ids), UNCHANGED kind,
         D!IsADeletion(deleting)', deleting'.ids = deleting.ids, deleting'.revoke = deleting.revoke,
         deleting'.op = deleting.op, deleting'.pc \in {"deleting", "replied"},
         deleting'.pc = "deleting" => deleting'.report = deleting.report,
         D!IsBatched', D!DeletionIsToldAsItWas'
  PROVE  D!Inv'
<1>1. /\ D!ElsewhereStays' /\ removed' \subseteq (deleting.ids \cap D!Own) \X D!Side
      /\ ~deleting.revoke => removed' \subseteq MessageId \X {"mine"}
      /\ D!Own' = D!Own
  BY DeletionPerforms
<1>2. D!OnlyTheNamedGo'
  BY <1>1 DEF D!OnlyTheNamedGo
<1>3. D!IsAllowed' /\ D!NothingIsRemovedYet' /\ D!NothingIsToldYet'
  BY <1>1 DEF D!Inv, D!IsAllowed, D!NothingIsRemovedYet, D!NothingIsToldYet
<1> QED BY <1>1, <1>2, <1>3 DEF D!Inv

LEMMA DeletionAsks ==
  ASSUME D!Inv, NEW op \in {"single", "bulk"}, NEW ids \in SUBSET MessageId, NEW revoke \in BOOLEAN, D!Ask(op, ids, revoke)
  PROVE  D!Inv'
<1>0. /\ deleting.pc = "idle" /\ UNCHANGED <<kind, copies, removed>> /\ removed = {} /\ D!TakenIds = {}
      /\ kind \in {"channel", "private"}
  BY DEF D!Ask, D!Inv, D!NothingIsRemovedYet, D!NothingIsToldYet, D!TakenIds
<1>1. D!ElsewhereStays' /\ D!Own' = D!Own /\ removed' = {} /\ D!TakenIds' = {} /\ D!Present' = D!Present /\ kind' = kind
  BY <1>0 DEF D!Inv, D!ElsewhereStays, D!Own, D!Present, D!TakenIds
<1>2. CASE D!PrivateOnly(revoke)
  <2>1. deleting' = [D!Idle EXCEPT !.op = op, !.ids = ids, !.pc = "replied", !.says = "refused"]
    BY <1>2 DEF D!Ask
  <2>2. /\ DOMAIN deleting' = DOMAIN D!Idle /\ deleting'.op = op /\ deleting'.ids = ids /\ deleting'.pc = "replied"
        /\ deleting'.says = "refused" /\ deleting'.report = D!Nothing
    BY <2>1 DEF D!Idle
  <2>3. D!Nothing.gone = {} /\ D!Nothing.rejected = {} /\ D!Nothing.unsent = {}
    BY DEF D!Nothing
  <2>4. D!DeletionIsToldAsItWas' /\ D!OnlyTheNamedGo' /\ D!IsBatched' /\ D!NothingIsRemovedYet' /\ D!NothingIsToldYet' /\ D!IsAllowed'
    BY <1>1, <2>2, <2>3 DEF D!DeletionIsToldAsItWas, D!OnlyTheNamedGo, D!IsBatched, D!NothingIsRemovedYet, D!NothingIsToldYet, D!IsAllowed
  <2> QED BY <1>0, <1>1, <2>2, <2>4 DEF D!Inv, D!IsADeletion
<1>3. CASE ~D!PrivateOnly(revoke)
  <2>1. /\ deleting' = [D!Idle EXCEPT !.op = op, !.ids = ids, !.revoke = revoke,
                          !.pc = IF kind = "channel" THEN "deleting" ELSE "looking",
                          !.targets = IF kind = "channel" THEN D!SetToSeq(ids) ELSE <<>>]
        /\ (kind = "channel" => revoke)
    BY <1>3 DEF D!Ask, D!Asked, D!PrivateOnly
  <2>2. /\ DOMAIN deleting' = DOMAIN D!Idle /\ deleting'.op = op /\ deleting'.ids = ids /\ deleting'.revoke = revoke
        /\ deleting'.pc = (IF kind = "channel" THEN "deleting" ELSE "looking")
        /\ deleting'.sent = 0 /\ deleting'.report = D!Nothing
        /\ (kind = "channel" => deleting'.targets = D!SetToSeq(ids))
    BY <2>1 DEF D!Idle
  <2>3. kind = "channel" => D!Own = MessageId
    BY DEF D!Own
  <2>4. D!IsBatched'
    <3>1. ASSUME kind = "channel" PROVE deleting'.targets \in Seq(deleting'.ids \cap D!Own') /\ D!IsInjective(deleting'.targets)
      <4>1. ids \cap D!Own' = ids
        BY <1>1, <2>3, <3>1
      <4> QED BY <2>2, <3>1, <4>1, OrderedOnce
    <3>2. \A k \in 1..0 : FALSE
      OBVIOUS
    <3>3. D!Part(1, deleting.sent)' = {}
      BY <2>2, <3>2 DEF D!Part
    <3>4. kind = "channel" => deleting'.sent \in 0..Len(deleting'.targets)
      BY <2>2, <3>1
    <3> QED BY <1>1, <2>2, <3>1, <3>3, <3>4 DEF D!IsBatched, D!IsInjective
  <2>5. D!IsAllowed'
    BY <1>1, <2>1, <2>2, <2>3 DEF D!IsAllowed
  <2>6. D!DeletionIsToldAsItWas' /\ D!OnlyTheNamedGo' /\ D!NothingIsRemovedYet' /\ D!NothingIsToldYet'
    BY <1>1, <2>2 DEF D!DeletionIsToldAsItWas, D!OnlyTheNamedGo, D!NothingIsRemovedYet, D!NothingIsToldYet
  <2> QED BY <1>0, <1>1, <2>2, <2>4, <2>5, <2>6 DEF D!Inv, D!IsADeletion
<1> QED BY <1>2, <1>3

LEMMA DeletionOfHistory == ASSUME D!Inv, NEW revoke \in BOOLEAN, D!DeleteChatHistory(revoke) PROVE D!Inv'
<1>0. /\ deleting.pc = "idle" /\ UNCHANGED <<kind, copies, removed>> /\ removed = {} /\ kind = "private"
  BY DEF D!DeleteChatHistory, D!Inv, D!NothingIsRemovedYet, D!NothingIsToldYet
<1>1. D!ElsewhereStays' /\ D!Own' = D!Own /\ removed' = {} /\ D!Own \subseteq MessageId /\ kind' = "private"
  BY <1>0 DEF D!Inv, D!ElsewhereStays, D!Own, D!Present
<1>2. deleting' = [D!Idle EXCEPT !.op = "history", !.pc = "deleting", !.ids = D!Own, !.revoke = revoke]
  BY DEF D!DeleteChatHistory
<1>3. /\ DOMAIN deleting' = DOMAIN D!Idle /\ deleting'.op = "history" /\ deleting'.ids = D!Own /\ deleting'.pc = "deleting"
      /\ deleting'.report = D!Nothing
  BY <1>2 DEF D!Idle
<1>4. D!DeletionIsToldAsItWas' /\ D!OnlyTheNamedGo' /\ D!IsBatched' /\ D!NothingIsRemovedYet' /\ D!NothingIsToldYet' /\ D!IsAllowed'
  BY <1>1, <1>3 DEF D!DeletionIsToldAsItWas, D!OnlyTheNamedGo, D!IsBatched, D!NothingIsRemovedYet, D!NothingIsToldYet, D!IsAllowed
<1> QED BY <1>0, <1>1, <1>3, <1>4 DEF D!Inv, D!IsADeletion

(* The ids are looked up: of another chat, of no message, or of this one.  *)
LEMMA DeletionLooks == ASSUME D!Inv, D!Preflight PROVE D!Inv'
<1> DEFINE here == deleting.ids \cap D!Present \cap D!Own
<1>d. /\ DOMAIN D!Idle = {"op", "pc", "ids", "revoke", "targets", "sent", "passes", "offset", "says", "report"}
      /\ D!Nothing.gone = {} /\ D!Nothing.rejected = {} /\ D!Nothing.unsent = {}
  BY DEF D!Idle, D!Nothing
<1>0. /\ deleting.pc = "looking" /\ UNCHANGED <<kind, copies, removed>> /\ removed = {} /\ D!TakenIds = {}
      /\ kind = "private" /\ deleting.op \in {"single", "bulk"} /\ DOMAIN deleting = DOMAIN D!Idle
      /\ DOMAIN deleting.report = DOMAIN D!Nothing /\ deleting.ids \subseteq MessageId /\ deleting.sent = 0
      /\ deleting.report = D!Nothing
  BY DEF D!NothingIsToldYet, D!Preflight, D!Inv, D!NothingIsRemovedYet, D!NothingIsToldYet, D!TakenIds, D!IsADeletion, D!IsAllowed
<1>1. D!ElsewhereStays' /\ D!Own' = D!Own /\ removed' = {} /\ D!TakenIds' = {} /\ D!Present' = D!Present /\ kind' = kind
  BY <1>0 DEF D!Inv, D!ElsewhereStays, D!Own, D!Present, D!TakenIds
<1>2. ASSUME NEW says \in {"refused", "nothing"}, D!Replies(says, D!Nothing) PROVE D!Inv'
  <2>1. /\ DOMAIN deleting' = DOMAIN D!Idle /\ deleting'.op = deleting.op /\ deleting'.ids = deleting.ids
        /\ deleting'.pc = "replied" /\ deleting'.report = D!Nothing /\ deleting'.says = says
    BY <1>d, <1>0, <1>2 DEF D!Replies
  <2>4. D!DeletionIsToldAsItWas' /\ D!OnlyTheNamedGo' /\ D!IsBatched' /\ D!NothingIsRemovedYet' /\ D!NothingIsToldYet' /\ D!IsAllowed'
    <3>1. deleting'.says \notin {"cleared", "deleted", "partway"}
      BY <1>2, <2>1
    <3> QED BY <1>d, <1>0, <1>1, <2>1, <3>1 DEF D!DeletionIsToldAsItWas, D!OnlyTheNamedGo, D!IsBatched, D!NothingIsRemovedYet, D!NothingIsToldYet, D!IsAllowed
  <2> QED BY <1>0, <1>1, <2>1, <2>4 DEF D!Inv, D!IsADeletion
<1>3. CASE D!LookUp.elsewhere = {} /\ deleting' = [deleting EXCEPT !.pc = "deleting", !.targets = D!SetToSeq(here)]
  <2>1. /\ DOMAIN deleting' = DOMAIN D!Idle /\ deleting'.op = deleting.op /\ deleting'.ids = deleting.ids
        /\ deleting'.revoke = deleting.revoke /\ deleting'.sent = deleting.sent /\ deleting'.pc = "deleting" /\ deleting'.report = deleting.report
        /\ deleting'.targets = D!SetToSeq(here)
    BY <1>d, <1>0, <1>3
  <2>2. deleting.ids \subseteq D!Own
    <3>1. (deleting.ids \cap D!Present) \ D!Own = {}
      BY <1>3 DEF D!LookUp
    <3> QED BY <1>0, <3>1 DEF D!Inv, D!ElsewhereStays
  <2>3. D!IsBatched'
    <3>1. deleting'.targets \in Seq(here) /\ D!IsInjective(deleting'.targets)
      BY <1>0, <2>1, OrderedOnce
    <3>2. deleting'.targets \in Seq(deleting'.ids \cap D!Own')
      BY <1>1, <2>1, <3>1
    <3>3. D!Part(1, deleting.sent)' = {} /\ deleting'.sent \in 0..Len(deleting'.targets)
      <4>1. \A k \in 1..0 : FALSE
        OBVIOUS
      <4> QED BY <1>0, <2>1, <3>2, <4>1 DEF D!Part
    <3> QED BY <1>1, <3>1, <3>2, <3>3 DEF D!IsBatched, D!IsInjective
  <2>4. D!DeletionIsToldAsItWas' /\ D!OnlyTheNamedGo' /\ D!NothingIsRemovedYet' /\ D!NothingIsToldYet' /\ D!IsAllowed'
    BY <1>0, <1>1, <2>1, <2>2 DEF D!DeletionIsToldAsItWas, D!OnlyTheNamedGo, D!NothingIsRemovedYet, D!NothingIsToldYet, D!IsAllowed
  <2> QED BY <1>0, <1>1, <2>1, <2>3, <2>4 DEF D!Inv, D!IsADeletion
<1> QED BY <1>2, <1>3 DEF D!Preflight, D!LookUp

(* Another device deletes a message.                                       *)
LEMMA DeletionVanishes == ASSUME D!Inv, NEW id \in D!Own, D!Vanish(id) PROVE D!Inv'
<1>1. /\ deleting.pc \in {"looking", "deleting"} /\ UNCHANGED <<kind, removed, deleting>>
      /\ copies' = copies \ ({id} \X D!Side)
  BY DEF D!Vanish
<1>2. /\ D!Own' = D!Own /\ D!TakenIds' = D!TakenIds /\ D!Present' \subseteq D!Present
      /\ \A other \in D!Present : other # id => other \in D!Present'
  BY <1>1 DEF D!Own, D!TakenIds, D!Present, D!Side
<1>3. D!ElsewhereStays'
  BY <1>2 DEF D!Inv, D!ElsewhereStays, D!Own
<1>4. D!IsBatched'
  BY <1>1, <1>2 DEF D!Inv, D!IsBatched, D!Part, D!IsInjective
<1>5. D!DeletionIsToldAsItWas' /\ D!OnlyTheNamedGo' /\ D!NothingIsRemovedYet' /\ D!NothingIsToldYet' /\ D!IsAllowed'
  BY <1>1, <1>2 DEF D!Inv, D!DeletionIsToldAsItWas, D!OnlyTheNamedGo, D!NothingIsRemovedYet, D!NothingIsToldYet, D!IsAllowed
<1> QED BY <1>1, <1>3, <1>4, <1>5 DEF D!Inv, D!IsADeletion

(* A call of one message, or of a history, ends.                           *)
LEMMA DeletionOfOneAnswered == ASSUME D!Inv, D!SingleAnswered \/ D!SingleFails PROVE D!Inv'
<1>d. /\ DOMAIN D!Idle = {"op", "pc", "ids", "revoke", "targets", "sent", "passes", "offset", "says", "report"}
      /\ DOMAIN D!Nothing = {"gone", "unknown", "rejected", "unsent", "error"}
      /\ D!Nothing.gone = {} /\ D!Nothing.rejected = {} /\ D!Nothing.unsent = {}
  BY DEF D!Idle, D!Nothing
<1>0. /\ deleting.pc = "deleting" /\ deleting.op = "single" /\ UNCHANGED kind /\ D!MayPerform(deleting.ids)
      /\ DOMAIN deleting = DOMAIN D!Idle /\ deleting.ids \in SUBSET (deleting.ids \cap D!Own)
      /\ removed \subseteq (deleting.ids \cap D!Own) \X D!Side
  BY DEF D!SingleAnswered, D!SingleFails, D!AtRequest, D!MayPerform, D!Inv, D!IsAllowed, D!IsADeletion, D!OnlyTheNamedGo
<1>1. CASE D!SingleAnswered
  <2> DEFINE report == [D!Nothing EXCEPT !.gone = deleting.ids]
  <2>1. D!Performs(deleting.ids) /\ D!Replies("deleted", report)
    BY <1>1 DEF D!SingleAnswered
  <2>2. report.gone = deleting.ids /\ report.rejected = {} /\ report.unsent = {} /\ DOMAIN report = DOMAIN D!Nothing
    BY <1>d
  <2> HIDE DEF report
  <2>3. /\ DOMAIN deleting' = DOMAIN D!Idle /\ deleting'.op = deleting.op /\ deleting'.ids = deleting.ids
        /\ deleting'.revoke = deleting.revoke /\ deleting'.pc = "replied" /\ deleting'.says = "deleted" /\ deleting'.report = report
    BY <1>d, <1>0, <2>1 DEF D!Replies
  <2>4. deleting.ids \cap D!Present' = {} /\ removed' \subseteq (deleting.ids \cap D!Own) \X D!Side
    BY <1>0, <2>1, DeletionPerforms
  <2>5. D!TakenIds' \subseteq deleting.ids
    BY <2>4 DEF D!TakenIds
  <2>6. D!DeletionIsToldAsItWas'
    BY <2>2, <2>3, <2>4, <2>5 DEF D!DeletionIsToldAsItWas
  <2>7. D!IsADeletion(deleting)' /\ D!IsBatched'
    BY <2>2, <2>3 DEF D!IsADeletion, D!IsBatched
  <2> QED BY <1>0, <2>3, <2>6, <2>7, DeletionTurns
<1>2. CASE D!SingleFails
  <2>1. D!Replies("error", D!Nothing)
    BY <1>2 DEF D!SingleFails
  <2>3. /\ DOMAIN deleting' = DOMAIN D!Idle /\ deleting'.op = deleting.op /\ deleting'.ids = deleting.ids
        /\ deleting'.revoke = deleting.revoke /\ deleting'.pc = "replied" /\ deleting'.says = "error" /\ deleting'.report = D!Nothing
    BY <1>d, <1>0, <2>1 DEF D!Replies
  <2>6. D!DeletionIsToldAsItWas'
    BY <1>d, <2>3 DEF D!DeletionIsToldAsItWas
  <2>7. D!IsADeletion(deleting)' /\ D!IsBatched'
    BY <2>3 DEF D!IsADeletion, D!IsBatched
  <2> QED BY <1>0, <2>3, <2>6, <2>7, DeletionTurns
<1> QED BY <1>1, <1>2

LEMMA DeletionOfHistoryAnswered ==
  ASSUME D!Inv, NEW ids \in SUBSET (deleting.ids \cap D!Present), NEW remaining,
         D!PassTimesOut(ids) \/ D!PassAnswered(ids, remaining) \/ D!DeadlinePasses
  PROVE  D!Inv'
<1>d. /\ DOMAIN D!Idle = {"op", "pc", "ids", "revoke", "targets", "sent", "passes", "offset", "says", "report"}
      /\ D!Nothing.gone = {} /\ D!Nothing.rejected = {} /\ D!Nothing.unsent = {}
  BY DEF D!Idle, D!Nothing
<1>0. /\ deleting.pc = "deleting" /\ deleting.op = "history" /\ UNCHANGED kind /\ D!MayPerform(ids)
      /\ DOMAIN deleting = DOMAIN D!Idle /\ ids \in SUBSET (deleting.ids \cap D!Own)
      /\ deleting.report = D!Nothing
  BY DEF D!NothingIsToldYet, D!PassTimesOut, D!PassAnswered, D!DeadlinePasses, D!AtRequest, D!MayPerform, D!Inv, D!IsAllowed, D!IsADeletion
<1>1. ASSUME NEW says \in {"unknown", "some"}, D!Replies(says, D!Nothing) PROVE D!Inv'
  <2>3. /\ DOMAIN deleting' = DOMAIN D!Idle /\ deleting'.op = deleting.op /\ deleting'.ids = deleting.ids
        /\ deleting'.revoke = deleting.revoke /\ deleting'.pc = "replied" /\ deleting'.says = says /\ deleting'.report = D!Nothing
    BY <1>d, <1>0, <1>1 DEF D!Replies
  <2>6. D!DeletionIsToldAsItWas'
    BY <1>d, <1>1, <2>3 DEF D!DeletionIsToldAsItWas
  <2>7. D!IsADeletion(deleting)' /\ D!IsBatched'
    BY <2>3 DEF D!IsADeletion, D!IsBatched
  <2> QED BY <1>0, <2>3, <2>6, <2>7, DeletionTurns
<1>2. CASE D!PassTimesOut(ids) \/ D!DeadlinePasses
  BY <1>1, <1>2 DEF D!PassTimesOut, D!DeadlinePasses, D!NothingIsKnown
<1>3. CASE D!PassAnswered(ids, remaining)
  <2> DEFINE passes  == deleting.passes + 1
             outcome == D!AfterAPass(passes, remaining)
             counted == [deleting EXCEPT !.passes = passes, !.offset = remaining]
  <2>1. /\ deleting' = IF outcome = "again" THEN counted ELSE [counted EXCEPT !.pc = "replied", !.says = outcome]
        /\ D!Performs(ids) /\ ((remaining = 0) <=> (deleting.ids \cap D!Present \subseteq ids))
    BY <1>3 DEF D!PassAnswered
  <2>2. outcome \in {"cleared", "some", "again"} /\ (outcome = "cleared" => remaining = 0)
    BY DEF D!AfterAPass
  <2> HIDE DEF outcome, passes
  <2>3. /\ DOMAIN deleting' = DOMAIN D!Idle /\ deleting'.op = deleting.op /\ deleting'.ids = deleting.ids
        /\ deleting'.revoke = deleting.revoke /\ deleting'.report = deleting.report
        /\ deleting'.pc = (IF outcome = "again" THEN "deleting" ELSE "replied")
        /\ (outcome # "again" => deleting'.says = outcome)
    BY <1>d, <1>0, <2>1
  <2>4. ids \cap D!Present' = {} /\ D!Present' \subseteq D!Present
    BY <1>0, <2>1, DeletionPerforms
  <2>5. outcome = "cleared" => deleting.ids \cap D!Present' = {}
    BY <2>1, <2>2, <2>4
  <2>6. D!DeletionIsToldAsItWas'
    BY <1>d, <2>2, <2>3, <2>5, <1>0 DEF D!DeletionIsToldAsItWas
  <2>7. D!IsADeletion(deleting)' /\ D!IsBatched'
    BY <1>0, <2>3 DEF D!IsADeletion, D!IsBatched
  <2> QED BY <1>0, <2>3, <2>6, <2>7, DeletionTurns
<1> QED BY <1>2, <1>3

(* A slice of the targets holds none of another: each is a target once.    *)
LEMMA SlicesAreApart ==
  ASSUME D!Inv, deleting.pc = "deleting", deleting.op = "bulk"
  PROVE  /\ D!Batch \in SUBSET (deleting.ids \cap D!Own)
         /\ D!Part(1, deleting.sent) \cap D!Batch = {}
         /\ D!Part(1, deleting.sent) \cap D!Part(D!Through + 1, Len(deleting.targets)) = {}
         /\ D!Batch \cap D!Part(D!Through + 1, Len(deleting.targets)) = {}
         /\ D!Part(1, D!Through) = D!Part(1, deleting.sent) \cup D!Batch
         /\ deleting.sent \in 0..Len(deleting.targets) /\ D!Through \in 0..Len(deleting.targets)
         /\ (~D!Whole => D!Through = deleting.sent + ChunkSize)
         /\ (D!Whole => D!Through = Len(deleting.targets))
         /\ D!Part(1, Len(deleting.targets)) = D!ToSet(deleting.targets)
<1> DEFINE targets == deleting.targets
           sent    == deleting.sent
           through == D!Through
<1>0. /\ targets \in Seq(deleting.ids \cap D!Own) /\ sent \in 0..Len(targets) /\ ChunkSize \in Nat
      /\ \A i, j \in DOMAIN targets : targets[i] = targets[j] => i = j
  BY ChatsAssumption DEF ChatsAssumption, D!DeletionAssumption, D!Inv, D!IsBatched, D!IsInjective
<1>1. Len(targets) \in Nat /\ DOMAIN targets = 1..Len(targets) /\ \A k \in 1..Len(targets) : targets[k] \in deleting.ids \cap D!Own
  BY <1>0
<1>2. /\ through \in sent..Len(targets) /\ (~D!Whole => through = sent + ChunkSize)
      /\ (D!Whole => through = Len(targets))
  BY <1>0, <1>1 DEF D!Through, D!Whole
<1>3. \A i, j : D!Part(i, j) = {targets[k] : k \in i..j}
  BY DEF D!Part
<1>4. D!Batch = {targets[k] : k \in sent + 1..through}
  BY <1>3 DEF D!Batch
<1>6. D!ToSet(targets) = {targets[k] : k \in 1..Len(targets)}
  BY <1>1 DEF D!ToSet
<1> DEFINE many == Len(targets)
<1>12. /\ many \in Nat /\ sent \in Nat /\ through \in Nat /\ sent <= through /\ through <= many
  BY <1>0, <1>1, <1>2
<1> HIDE DEF targets, sent, through, many
<1>5. /\ \A k \in 1..sent : k \in 1..many /\ k \in 1..through /\ k \notin sent + 1..through
      /\ \A k \in sent + 1..through : k \in 1..many /\ k \in 1..through
      /\ \A k \in through + 1..many : k \in 1..many /\ k \notin 1..through
      /\ \A k \in 1..through : k \in 1..sent \/ k \in sent + 1..through
  <2>1. \A k \in 1..sent : k \in 1..many /\ k \in 1..through /\ k \notin sent + 1..through
    BY <1>12
  <2>2. \A k \in sent + 1..through : k \in 1..many /\ k \in 1..through
    BY <1>12
  <2>3. \A k \in through + 1..many : k \in 1..many /\ k \notin 1..through
    BY <1>12
  <2>4. \A k \in 1..through : k \in 1..sent \/ k \in sent + 1..through
    BY <1>12
  <2> QED BY <2>1, <2>2, <2>3, <2>4
<1>7. D!Part(1, sent) = {targets[k] : k \in 1..sent} /\ D!Part(1, through) = {targets[k] : k \in 1..through}
      /\ D!Part(through + 1, Len(targets)) = {targets[k] : k \in through + 1..Len(targets)}
      /\ D!Part(1, Len(targets)) = {targets[k] : k \in 1..Len(targets)}
  BY <1>3
<1>8. D!Batch \in SUBSET (deleting.ids \cap D!Own)
  BY <1>1, <1>4, <1>5 DEF many
<1>9. D!Part(1, sent) \cap D!Batch = {} /\ D!Part(1, through) = D!Part(1, sent) \cup D!Batch
  BY <1>0, <1>1, <1>4, <1>5, <1>7 DEF many
<1>10. D!Part(1, sent) \cap D!Part(through + 1, Len(targets)) = {} /\ D!Batch \cap D!Part(through + 1, Len(targets)) = {}
  BY <1>0, <1>1, <1>4, <1>5, <1>7 DEF many
<1>11. sent \in 0..Len(targets) /\ through \in 0..Len(targets)
  BY <1>12 DEF many
<1> QED BY <1>2, <1>6, <1>7, <1>8, <1>9, <1>10, <1>11 DEF targets, sent, through

(* A chunk of a list, answered, refused or lost, keeps the invariant.     *)
LEMMA DeletionOfAChunk ==
  ASSUME D!Inv, D!ChunkAnswered \/ D!ChunkRefused \/ D!ChunkTimesOut \/ D!ConnectionLost
  PROVE  D!Inv'
<1> DEFINE batch == D!Batch
           done  == D!Part(1, deleting.sent)
           left  == D!Part(D!Through + 1, Len(deleting.targets))
<1>d. /\ DOMAIN D!Idle = {"op", "pc", "ids", "revoke", "targets", "sent", "passes", "offset", "says", "report"}
      /\ DOMAIN D!Nothing = {"gone", "unknown", "rejected", "unsent", "error"}
      /\ D!Nothing.gone = {} /\ D!Nothing.rejected = {} /\ D!Nothing.unsent = {}
  BY DEF D!Idle, D!Nothing
<1>0. /\ deleting.pc = "deleting" /\ deleting.op = "bulk" /\ UNCHANGED kind /\ D!MayPerform(batch)
      /\ DOMAIN deleting = DOMAIN D!Idle
  BY DEF D!ChunkAnswered, D!ChunkRefused, D!ChunkTimesOut, D!ConnectionLost, D!ChunkStops, D!AtRequest, D!MayPerform, D!Inv, D!IsADeletion
<1>1. /\ deleting.targets \in Seq(deleting.ids \cap D!Own) /\ D!IsInjective(deleting.targets)
      /\ done \cap D!Present = {} /\ D!TakenIds \subseteq done /\ deleting.report = D!Nothing
  BY <1>0 DEF D!Inv, D!IsBatched, D!NothingIsToldYet
<1>2. /\ batch \in SUBSET (deleting.ids \cap D!Own) /\ done \cap batch = {} /\ done \cap left = {} /\ batch \cap left = {}
      /\ D!Part(1, D!Through) = done \cup batch /\ D!Through \in 0..Len(deleting.targets)
      /\ (~D!Whole => D!Through = deleting.sent + ChunkSize)
      /\ (D!Whole => D!ToSet(deleting.targets) = done \cup batch)
  BY <1>0, SlicesAreApart
<1> HIDE DEF batch, done, left
<1>3. /\ D!Present' \subseteq D!Present /\ D!TakenIds' \subseteq D!TakenIds \cup batch
      /\ D!Performs(batch) => batch \cap D!Present' = {}
      /\ D!Own' = D!Own
  BY <1>0, <1>2, DeletionPerforms
<1>4. ASSUME NEW says \in {"deleted", "partway"}, NEW report, D!Replies(says, report), DOMAIN report = DOMAIN D!Nothing,
             report.gone \cap D!Present' = {}, report.unsent \cap D!TakenIds' = {},
             report.error # "connection" => report.rejected \cap D!TakenIds' = {},
             D!TakenIds' \subseteq report.gone \cup report.unknown \cup report.rejected
      PROVE  D!Inv'
  <2>1. deleting' = [deleting EXCEPT !.pc = "replied", !.says = says, !.report = report]
    BY <1>4 DEF D!Replies
  <2>2. /\ DOMAIN deleting' = DOMAIN D!Idle /\ deleting'.op = deleting.op /\ deleting'.ids = deleting.ids
        /\ deleting'.revoke = deleting.revoke /\ deleting'.pc = "replied" /\ deleting'.says = says
        /\ deleting'.report = report
    BY <1>d, <1>0, <2>1
  <2>3. D!IsADeletion(deleting)' /\ D!IsBatched'
    BY <1>4, <2>2 DEF D!IsADeletion, D!IsBatched
  <2>4. D!DeletionIsToldAsItWas'
    BY <1>4, <2>2 DEF D!DeletionIsToldAsItWas
  <2> QED BY <1>0, <1>2, <2>2, <2>3, <2>4, DeletionTurns
<1>5. CASE D!ChunkAnswered
  <2>0. batch \cap D!Present' = {} /\ done \cap D!Present' = {}
    BY <1>1, <1>3, <1>5 DEF D!ChunkAnswered, batch
  <2>1. CASE D!Whole
    <3> DEFINE report == [D!Nothing EXCEPT !.gone = D!ToSet(deleting.targets)]
    <3>1. D!Replies("deleted", report)
      BY <1>5, <2>1 DEF D!ChunkAnswered
    <3>2. /\ DOMAIN report = DOMAIN D!Nothing /\ report.gone = done \cup batch
          /\ report.rejected = {} /\ report.unsent = {}
      BY <1>2, <1>d, <2>1
    <3> HIDE DEF report
    <3> QED BY <1>1, <1>3, <1>4, <2>0, <3>1, <3>2
  <2>2. CASE ~D!Whole
    <3>1. deleting' = [deleting EXCEPT !.sent = @ + ChunkSize]
      BY <1>5, <2>2 DEF D!ChunkAnswered
    <3>2. /\ DOMAIN deleting' = DOMAIN D!Idle /\ deleting'.op = deleting.op /\ deleting'.ids = deleting.ids
          /\ deleting'.revoke = deleting.revoke /\ deleting'.pc = "deleting" /\ deleting'.report = D!Nothing
          /\ deleting'.targets = deleting.targets /\ deleting'.sent = D!Through
      BY <1>d, <1>0, <1>1, <1>2, <2>2, <3>1
    <3>3. D!Part(1, deleting.sent)' = done \cup batch
      BY <1>2, <3>2 DEF D!Part
    <3>4. D!IsBatched'
      BY <1>1, <1>2, <1>3, <2>0, <3>2, <3>3 DEF D!IsBatched
    <3>5. D!IsADeletion(deleting)' /\ D!DeletionIsToldAsItWas'
      BY <3>2 DEF D!IsADeletion, D!DeletionIsToldAsItWas
    <3> QED BY <1>0, <1>1, <1>2, <3>2, <3>4, <3>5, DeletionTurns
  <2> QED BY <2>1, <2>2
<1>6. ASSUME NEW error \in {"refusal", "timeout", "connection"}, D!Replies("partway", D!PartWay(error)),
             error = "refusal" => UNCHANGED <<copies, removed>>
      PROVE  D!Inv'
  <2> DEFINE report == D!PartWay(error)
  <2>1. /\ DOMAIN report = DOMAIN D!Nothing /\ report.gone = done /\ report.unsent = left /\ report.error = error
        /\ report.unknown = (IF error = "timeout" THEN batch ELSE {})
        /\ report.rejected = (IF error = "timeout" THEN {} ELSE batch)
    BY <1>d DEF D!PartWay, D!IsLost, D!CountsAsLost, batch, done, left
  <2>2. error = "refusal" => D!TakenIds' = D!TakenIds
    BY <1>6 DEF D!TakenIds
  <2> HIDE DEF report
  <2>3. D!Replies("partway", report)
    BY <1>6 DEF report
  <2>4. report.gone \cap D!Present' = {}
    BY <1>1, <1>3, <2>1
  <2>5. report.unsent \cap D!TakenIds' = {} /\ D!TakenIds' \subseteq report.gone \cup report.unknown \cup report.rejected
    BY <1>1, <1>2, <1>3, <2>1
  <2>6. report.error # "connection" => report.rejected \cap D!TakenIds' = {}
    BY <1>1, <1>2, <1>6, <2>1, <2>2
  <2> QED BY <1>4, <2>1, <2>3, <2>4, <2>5, <2>6
<1>7. CASE D!ChunkRefused
  BY <1>6, <1>7 DEF D!ChunkRefused, D!ChunkStops
<1>8. CASE D!ChunkTimesOut
  BY <1>6, <1>8 DEF D!ChunkTimesOut, D!ChunkStops
<1>9. CASE D!ConnectionLost
  BY <1>6, <1>9 DEF D!ConnectionLost, D!ChunkStops
<1> QED BY <1>5, <1>7, <1>8, <1>9

(* No step of the deleting tools takes more than was named, nor tells it   *)
(* otherwise than it was.                                                  *)
LEMMA DeletionStep == ASSUME D!Inv, [D!Next]_D!deletionVars PROVE D!Inv'
<1>1. ASSUME NEW id \in MessageId, NEW revoke \in BOOLEAN, D!DeleteMessage(id, revoke) PROVE D!Inv'
  <2>1. D!Ask("single", {id}, revoke) /\ {id} \in SUBSET MessageId
    BY <1>1 DEF D!DeleteMessage
  <2> QED BY <1>1, <2>1, DeletionAsks
<1>2. ASSUME NEW ids \in (SUBSET MessageId) \ {{}}, NEW revoke \in BOOLEAN, D!DeleteMessagesBulk(ids, revoke) PROVE D!Inv'
  <2>1. D!Ask("bulk", ids, revoke)
    BY <1>2 DEF D!DeleteMessagesBulk
  <2> QED BY <1>2, <2>1, DeletionAsks
<1>3. ASSUME NEW ids \in SUBSET (deleting.ids \cap D!Present),
             D!PassTimesOut(ids) \/ \E remaining \in 0..D!Cardinality(MessageId) : D!PassAnswered(ids, remaining)
      PROVE  D!Inv'
  BY <1>3, DeletionOfHistoryAnswered
<1>4. CASE UNCHANGED D!deletionVars
  <2>1. D!DeletionIsToldAsItWas'
    BY <1>4 DEF D!deletionVars, D!Inv, D!DeletionIsToldAsItWas, D!Present, D!TakenIds
  <2>2. D!IsAllowed' /\ D!ElsewhereStays' /\ D!IsBatched'
    BY <1>4 DEF D!deletionVars, D!Inv, D!IsAllowed, D!ElsewhereStays, D!IsBatched, D!Own, D!Present, D!TakenIds, D!Part
  <2> QED BY <1>4, <2>1, <2>2 DEF D!deletionVars, D!Inv, D!IsADeletion, D!NothingIsRemovedYet, D!NothingIsToldYet,
                              D!OnlyTheNamedGo, D!Own
<1>5. CASE D!DeadlinePasses
  <2>1. {} \in SUBSET (deleting.ids \cap D!Present)
    OBVIOUS
  <2> QED BY <1>5, <2>1, DeletionOfHistoryAnswered
<1>6. CASE D!Next
  BY <1>1, <1>2, <1>3, <1>5, <1>6, DeletionOfHistory, DeletionLooks, DeletionVanishes, DeletionOfOneAnswered, DeletionOfAChunk
  DEF D!Next
<1> QED BY <1>4, <1>6

(* The public names.  A channel exists exactly if its call made it, and    *)
(* what a call tells is what it did.                                       *)
LEMMA NamesInit == ASSUME N!Init PROVE N!Inv
<1>1. /\ DOMAIN N!Idle = {"pc", "op", "want", "of", "before", "made", "named", "told", "lost"}
      /\ N!Idle.pc = "asked" /\ N!Idle.op = N!None /\ ~N!Idle.made /\ ~N!Idle.named /\ N!Idle.made \in BOOLEAN
  BY DEF N!Idle
<1>2. \A c \in Callers : naming[c] = N!Idle /\ c \notin exists
  BY ChatsAssumption DEF ChatsAssumption, N!ChannelNameAssumption, N!Init
<1>3. naming = [c \in Callers |-> naming[c]]
  BY DEF N!Init
<1>4. \A c \in Callers : N!HasDone(c)
  BY <1>1, <1>2 DEF N!HasDone
<1>5. N!CallsTellWhatTheyDid
  BY <1>1, <1>2 DEF N!CallsTellWhatTheyDid, N!ToldOfAChannel
<1> QED BY <1>2, <1>3, <1>4, <1>5 DEF N!Inv

LEMMA NamesMove ==
  ASSUME N!Inv, NEW c \in Callers, NEW r, N!Does(c, r), DOMAIN r = DOMAIN N!Idle, exists \ {c} = exists' \ {c},
         r.made <=> c \in exists', r.op \in {"create", "set"}, r.pc # "asked",
         r.pc \in {"checking", "creating"} => ~r.made,
         r.pc = "creating" => r.op = "create", r.pc = "renaming" => (r.made <=> r.op = "create"),
         r.pc # "done" => ~r.named,
         r.pc = "done" => /\ N!ToldOfAChannel(r) => r.made
                          /\ r.made => N!ToldOfAChannel(r) \/ r.lost = "creating"
                          /\ r.told = "named" => r.named
                          /\ r.named => r.told = "named" \/ r.lost = "renaming"
  PROVE  N!Inv'
<1>1. naming' = [d \in Callers |-> naming'[d]] /\ naming'[c] = r /\ \A d \in Callers \ {c} : naming'[d] = naming[d]
  BY DEF N!Inv, N!Does
<1>2. \A d \in Callers \ {c} : d \in exists' <=> d \in exists
  OBVIOUS
<1>3. N!HasDone(c)'
  BY <1>1 DEF N!HasDone
<1>4. ASSUME NEW d \in Callers \ {c} PROVE N!HasDone(d)'
  BY <1>1, <1>2, <1>4 DEF N!Inv, N!HasDone
<1>5. N!CallsTellWhatTheyDid'
  BY <1>1, <1>2 DEF N!Inv, N!CallsTellWhatTheyDid, N!ToldOfAChannel
<1> QED BY <1>1, <1>3, <1>4, <1>5 DEF N!Inv

LEMMA NamesStep == ASSUME N!Inv, [N!Next]_N!nameVars PROVE N!Inv'
<1>d. DOMAIN N!Idle = {"pc", "op", "want", "of", "before", "made", "named", "told", "lost"}
  BY DEF N!Idle
<1>0. ASSUME NEW c \in Callers PROVE DOMAIN naming[c] = DOMAIN N!Idle /\ N!HasDone(c)
  BY <1>0 DEF N!Inv
<1> DEFINE Ended(s, told) == [s EXCEPT !.pc = "done", !.told = told]
           Moved(s, pc) == [s EXCEPT !.pc = pc]
<1>e. ASSUME NEW s, DOMAIN s = DOMAIN N!Idle, NEW told
      PROVE  /\ DOMAIN Ended(s, told) = DOMAIN N!Idle /\ Ended(s, told).pc = "done" /\ Ended(s, told).told = told
             /\ Ended(s, told).op = s.op /\ Ended(s, told).made = s.made /\ Ended(s, told).named = s.named
  BY <1>d, <1>e
<1>m. ASSUME NEW s, DOMAIN s = DOMAIN N!Idle, NEW pc
      PROVE  /\ DOMAIN Moved(s, pc) = DOMAIN N!Idle /\ Moved(s, pc).pc = pc
             /\ Moved(s, pc).op = s.op /\ Moved(s, pc).made = s.made /\ Moved(s, pc).named = s.named
  BY <1>d, <1>m
<1>q. \A s, told, pc : N!Ends(s, told) = Ended(s, told) /\ N!Goes(s, pc) = Moved(s, pc)
  BY DEF N!Ends, N!Goes
<1>f. ASSUME NEW c \in Callers, NEW s, DOMAIN s = DOMAIN N!Idle, NEW told, N!Does(c, Ended(s, told)),
             exists \ {c} = exists' \ {c}, s.made <=> c \in exists', s.op \in {"create", "set"},
             s.made <=> told \in {"created", "created, unnamed"} \/ (told = "named" /\ s.op = "create"),
             s.named <=> told = "named"
      PROVE  N!Inv'
  <2> DEFINE r == Ended(s, told)
  <2>1. /\ DOMAIN r = DOMAIN N!Idle /\ r.pc = "done" /\ r.told = told
        /\ r.op = s.op /\ r.made = s.made /\ r.named = s.named /\ N!Does(c, r)
    BY <1>e, <1>f
  <2> HIDE DEF r
  <2>2. N!ToldOfAChannel(r) <=> r.made
    BY <1>f, <2>1 DEF N!ToldOfAChannel
  <2> QED BY <1>f, <2>1, <2>2, NamesMove
<1>l. ASSUME NEW c \in Callers, NEW s, DOMAIN s = DOMAIN N!Idle, NEW told \in {"error", "created, unnamed"}, N!Does(c, N!Loses(s, told)),
             exists \ {c} = exists' \ {c}, s.made <=> c \in exists', s.op \in {"create", "set"},
             told = "created, unnamed" => s.made,
             s.made => told = "created, unnamed" \/ s.pc = "creating", s.named => s.pc = "renaming"
      PROVE  N!Inv'
  <2> DEFINE r == N!Loses(s, told)
  <2>1. /\ DOMAIN r = DOMAIN N!Idle /\ r.pc = "done" /\ r.told = told /\ r.lost = s.pc
        /\ r.op = s.op /\ r.made = s.made /\ r.named = s.named /\ N!Does(c, r)
    BY <1>d, <1>l DEF N!Loses, N!Ends
  <2> HIDE DEF r
  <2>2. N!ToldOfAChannel(r) <=> told = "created, unnamed"
    BY <1>l, <2>1 DEF N!ToldOfAChannel
  <2> QED BY <1>l, <2>1, <2>2, NamesMove
<1> HIDE DEF Ended, Moved
<1>1. ASSUME NEW c \in Callers, NEW name, N!AskCreate(c, name) \/ N!AskSet(c, name) PROVE N!Inv'
  <2> DEFINE r == [N!Idle EXCEPT !.op = "create", !.of = c, !.want = name,
                                 !.pc = IF name = N!None THEN "creating" ELSE "checking"]
             s == [N!Idle EXCEPT !.op = "set", !.want = name, !.before = N!NameOf(N!Own),
                                 !.pc = IF name = N!None THEN "renaming" ELSE "checking"]
  <2>1. (N!Does(c, r) \/ N!Does(c, s)) /\ UNCHANGED exists /\ naming[c].pc = "asked"
    BY <1>1 DEF N!AskCreate, N!AskSet, N!Quiet
  <2>2. c \notin exists
    BY <1>0, <2>1 DEF N!HasDone
  <2>3. /\ DOMAIN r = DOMAIN N!Idle /\ r.op = "create" /\ r.pc \in {"creating", "checking"} /\ ~r.made /\ ~r.named /\ r.made \in BOOLEAN
        /\ DOMAIN s = DOMAIN N!Idle /\ s.op = "set" /\ s.pc \in {"renaming", "checking"} /\ ~s.made /\ ~s.named /\ s.made \in BOOLEAN
    BY DEF N!Idle
  <2> HIDE DEF r, s
  <2> QED BY <2>1, <2>2, <2>3, NamesMove
<1>2. ASSUME NEW c \in Callers, N!Check(c) PROVE N!Inv'
  <2>1. /\ naming[c].pc = "checking" /\ UNCHANGED exists
        /\ \/ \E told \in {"taken", "error"} : N!Does(c, Ended(naming[c], told))
           \/ N!Does(c, Moved(naming[c], IF naming[c].op = "create" THEN "creating" ELSE "renaming"))
    BY <1>2, <1>q DEF N!Check, N!Quiet
  <2> DEFINE r == Moved(naming[c], IF naming[c].op = "create" THEN "creating" ELSE "renaming")
  <2>2. DOMAIN r = DOMAIN N!Idle /\ r.pc = (IF naming[c].op = "create" THEN "creating" ELSE "renaming") /\ r.op = naming[c].op
        /\ r.made = naming[c].made /\ r.named = naming[c].named
    BY <1>0, <1>m
  <2> HIDE DEF r
  <2>3. CASE N!Does(c, r)
    BY <1>0, <2>1, <2>2, <2>3, NamesMove DEF N!HasDone
  <2>4. ASSUME NEW told \in {"taken", "error"}, N!Does(c, Ended(naming[c], told)) PROVE N!Inv'
    <3>1. ~naming[c].made /\ ~naming[c].named /\ naming[c].op \in {"create", "set"} /\ c \notin exists'
      BY <1>0, <2>1 DEF N!HasDone
    <3> QED BY <1>0, <1>f, <2>1, <2>4, <3>1
  <2> QED BY <2>1, <2>3, <2>4 DEF r
<1>3. ASSUME NEW c \in Callers, N!Create(c) PROVE N!Inv'
  <2> DEFINE s == [naming[c] EXCEPT !.made = TRUE]
  <2>1. /\ naming[c].pc = "creating"
        /\ \/ exists' = exists \cup {c} /\ (N!Does(c, Ended(s, "created")) \/ N!Does(c, Moved(s, "renaming")) \/ N!Does(c, N!Loses(s, "error")))
           \/ UNCHANGED exists /\ N!Does(c, Ended(naming[c], "error"))
    BY <1>3, <1>q DEF N!Create, N!Quiet
  <2>2. naming[c].op = "create" /\ ~naming[c].made /\ ~naming[c].named /\ (naming[c].made <=> c \in exists)
    BY <1>0, <2>1 DEF N!HasDone
  <2>3. DOMAIN s = DOMAIN N!Idle /\ s.op = "create" /\ s.made = TRUE /\ s.named = naming[c].named /\ s.pc = "creating"
    BY <1>0, <1>d, <2>1, <2>2
  <2> HIDE DEF s
  <2>4. CASE UNCHANGED exists /\ N!Does(c, Ended(naming[c], "error"))
    <3>1. exists \ {c} = exists' \ {c} /\ c \notin exists'
      BY <2>2, <2>4
    <3> QED BY <1>0, <1>f, <2>2, <2>4, <3>1
  <2>5. CASE exists' = exists \cup {c} /\ N!Does(c, Ended(s, "created"))
    <3>1. exists \ {c} = exists' \ {c} /\ c \in exists'
      BY <2>5
    <3> QED BY <1>f, <2>2, <2>3, <2>5, <3>1
  <2>6. CASE exists' = exists \cup {c} /\ N!Does(c, Moved(s, "renaming"))
    <3> DEFINE r == Moved(s, "renaming")
    <3>1. exists \ {c} = exists' \ {c} /\ c \in exists' /\ N!Does(c, r)
      BY <2>6
    <3>2. DOMAIN r = DOMAIN N!Idle /\ r.pc = "renaming" /\ r.op = s.op /\ r.made = s.made /\ r.named = s.named
      BY <1>m, <2>3
    <3> HIDE DEF r
    <3> QED BY <2>2, <2>3, <3>1, <3>2, NamesMove
  <2>7. CASE exists' = exists \cup {c} /\ N!Does(c, N!Loses(s, "error"))
    <3>1. exists \ {c} = exists' \ {c} /\ c \in exists'
      BY <2>7
    <3> QED BY <1>l, <2>2, <2>3, <2>7, <3>1
  <2> QED BY <2>1, <2>4, <2>5, <2>6, <2>7
<1>4. ASSUME NEW c \in Callers, N!Rename(c) PROVE N!Inv'
  <2> DEFINE s == [naming[c] EXCEPT !.named = TRUE]
  <2>1. /\ naming[c].pc = "renaming" /\ UNCHANGED exists
        /\ \/ N!Does(c, Ended(s, "named"))
           \/ N!Does(c, N!Loses(s, N!NotNamed(c)))
           \/ N!Does(c, Ended(naming[c], "unchanged")) /\ naming[c].op = "set"
           \/ N!Does(c, Ended(naming[c], N!NotNamed(c)))
    BY <1>4, <1>q DEF N!Rename, N!Quiet
  <2>2. naming[c].op \in {"create", "set"} /\ (naming[c].made <=> naming[c].op = "create") /\ ~naming[c].named /\ (naming[c].made <=> c \in exists)
    BY <1>0, <2>1 DEF N!HasDone
  <2>3. DOMAIN s = DOMAIN N!Idle /\ s.op = naming[c].op /\ s.made = naming[c].made /\ s.named = TRUE /\ s.pc = "renaming"
    BY <1>0, <1>d, <2>1
  <2> HIDE DEF s
  <2>0. exists \ {c} = exists' \ {c} /\ (naming[c].made <=> c \in exists')
    BY <2>1, <2>2
  <2>4. CASE N!Does(c, Ended(s, "named"))
    BY <1>f, <2>0, <2>2, <2>3, <2>4
  <2>5. CASE N!Does(c, Ended(naming[c], "unchanged")) /\ naming[c].op = "set"
    BY <1>0, <1>f, <2>0, <2>2, <2>5
  <2>6. CASE N!Does(c, Ended(naming[c], N!NotNamed(c)))
    <3>1. N!NotNamed(c) = IF naming[c].made THEN "created, unnamed" ELSE "error"
      BY DEF N!NotNamed
    <3> QED BY <1>0, <1>f, <2>0, <2>2, <2>6, <3>1
  <2>7. CASE N!Does(c, N!Loses(s, N!NotNamed(c)))
    <3>1. N!NotNamed(c) = (IF s.made THEN "created, unnamed" ELSE "error")
      BY <2>3 DEF N!NotNamed
    <3> QED BY <1>l, <2>0, <2>2, <2>3, <2>7, <3>1
  <2> QED BY <2>1, <2>4, <2>5, <2>6, <2>7
<1>5. ASSUME UNCHANGED <<exists, naming>> PROVE N!Inv'
  BY <1>5 DEF N!Inv, N!HasDone, N!CallsTellWhatTheyDid, N!ToldOfAChannel
<1>6. CASE UNCHANGED N!nameVars \/ \E name \in NameWanted : N!ClaimOrRelease(name)
  BY <1>5, <1>6 DEF N!nameVars, N!ClaimOrRelease
<1> QED BY <1>1, <1>2, <1>3, <1>4, <1>6 DEF N!Next

(* The effects.  What a catalogue newer than the one a call saw lacks,     *)
(* Telegram lacked during the call.                                        *)
LEMMA EffectsInit == ASSUME E!Init PROVE E!Inv
<1>1. /\ E!Idle.pc = "idle" /\ E!Idle.answer = "none" /\ E!Idle.at = 0 /\ E!Idle.step = "load"
      /\ E!Nothing.generation = 0 /\ E!Nothing.fetched = 0 /\ E!Nothing.checked = 0
  BY DEF E!Idle, E!Nothing
<1>2. /\ effectNow = 0 /\ catalog = E!Nothing /\ generation = 0 /\ epoch = 0
      /\ effectLookups = [c \in Callers |-> E!Idle] /\ lacked = [c \in Callers |-> {}]
      /\ \A id \in EffectId : lastAbsent[id] = 0
  BY DEF E!Init
<1>3. E!IsACatalogue
  BY <1>1, <1>2 DEF E!IsACatalogue
<1>4. \A c \in Callers : E!IsALookup(effectLookups[c]) /\ E!HasLacked(c)
  BY <1>1, <1>2 DEF E!IsALookup, E!HasLacked, E!HoldsSeen
<1>5. E!WasAbsent
  BY <1>1, <1>2 DEF E!WasAbsent, E!Present
<1>6. E!AbsentWasAbsent
  BY <1>1, <1>2 DEF E!AbsentWasAbsent
<1> QED BY <1>2, <1>3, <1>4, <1>5, <1>6 DEF E!Inv

(* One call moves; the catalogue stays what it was, or is what Telegram    *)
(* has now.                                                                *)
LEMMA EffectsMove ==
  ASSUME E!Inv, NEW c \in Callers, NEW r, effectLookups' = [effectLookups EXCEPT ![c] = r],
         UNCHANGED <<effectNow, server, lacked, lastAbsent>>, effectLookups[c].pc # "idle",
         E!IsALookup(r), r.pc # "idle", r.id = effectLookups[c].id, E!IsACatalogue',
         E!Present' => \A id \in EffectId \ catalog'.effects : lastAbsent[id] >= catalog'.fetched,
         \/ catalog'.effects = server
         \/ catalog'.effects = catalog.effects /\ catalog'.generation = catalog.generation /\ catalog'.checked = catalog.checked,
         E!HoldsSeen(c)' /\ E!IsNewer(catalog', r.seen) => EffectId \ catalog'.effects \subseteq lacked[c],
         r.answer = "absent" => r.id \in lacked[c],
         r.answer = "absent here" => lastAbsent[r.id] + EffectHour > r.at
  PROVE  E!Inv'
<1>1. effectLookups' = [d \in Callers |-> effectLookups'[d]] /\ effectLookups'[c] = r
      /\ \A d \in Callers \ {c} : effectLookups'[d] = effectLookups[d]
  BY DEF E!Inv
<1>2. E!HasLacked(c)'
  <2>1. EffectId \ server \subseteq lacked[c] /\ effectLookups[c].id \in EffectId
    BY DEF E!Inv, E!HasLacked
  <2> QED BY <1>1, <2>1 DEF E!HasLacked
<1>3. ASSUME NEW d \in Callers \ {c} PROVE E!HasLacked(d)'
  <2>1. E!HoldsSeen(d)' <=> E!HoldsSeen(d)
    BY <1>1, <1>3 DEF E!HoldsSeen
  <2>2. E!HoldsSeen(d) => EffectId \ server \subseteq lacked[d]
    BY DEF E!Inv, E!HasLacked, E!HoldsSeen
  <2>3. E!HasLacked(d)
    BY DEF E!Inv
  <2> QED BY <1>1, <1>3, <2>1, <2>2, <2>3 DEF E!HasLacked, E!IsNewer
<1>4. E!WasAbsent'
  BY DEF E!Inv, E!WasAbsent
<1>5. E!AbsentWasAbsent'
  BY <1>1 DEF E!Inv, E!AbsentWasAbsent
<1>6. \A d \in Callers : E!IsALookup(effectLookups'[d])
  BY <1>1 DEF E!Inv
<1> QED BY <1>1, <1>2, <1>3, <1>4, <1>5, <1>6 DEF E!Inv

(* What a call makes of the catalogue it was handed.                       *)
LEMMA EffectsHanded ==
  ASSUME E!Inv, NEW c \in Callers, NEW cat, NEW contacted \in BOOLEAN, E!Handed(c, cat, contacted),
         UNCHANGED <<effectNow, server, lacked, lastAbsent>>, effectLookups[c].pc \in {"locking", "asking"},
         DOMAIN cat = DOMAIN E!Nothing, {cat.generation, cat.fetched, cat.checked, generation', epoch'} \subseteq Nat,
         cat.generation > 0 => \A id \in EffectId \ cat.effects : lastAbsent[id] >= cat.fetched,
         IF contacted THEN cat.effects = server ELSE cat = catalog /\ E!LocallyKnown(effectLookups[c])
  PROVE  E!Inv'
<1> DEFINE call == effectLookups[c]
           id == call.id
           remembered == E!Remembering(cat, id)
           again == [call EXCEPT !.pc = "locking", !.step = "revalidate", !.seen = cat]
           Told(pc, answer) == [call EXCEPT !.pc = pc, !.answer = answer, !.at = effectNow, !.seen = catalog']
<1>d. /\ DOMAIN E!Idle = {"pc", "id", "step", "seen", "answer", "at"}
      /\ DOMAIN E!Nothing = {"generation", "effects", "fetched", "checked", "unknown", "issued"}
  BY DEF E!Idle, E!Nothing
<1>0. /\ E!IsALookup(call) /\ call.pc # "idle" /\ id \in EffectId /\ EffectId \ server \subseteq lacked[c] /\ effectNow \in Nat
      /\ DOMAIN call = DOMAIN E!Idle /\ call.at \in Nat /\ call.step \in {"load", "revalidate", "refresh"} /\ EffectHour \in Nat
      /\ E!HoldsSeen(c) /\ E!IsNewer(catalog, call.seen) => EffectId \ catalog.effects \subseteq lacked[c]
      /\ call.answer = "absent" => id \in lacked[c]
      /\ call.answer = "absent here" => lastAbsent[id] + EffectHour > call.at
  BY ChatsAssumption DEF ChatsAssumption, E!EffectCatalogAssumption, E!Inv, E!IsALookup, E!HasLacked, E!AbsentWasAbsent
<1>1. /\ DOMAIN remembered = DOMAIN cat /\ remembered.generation = cat.generation /\ remembered.effects = cat.effects
      /\ remembered.fetched = cat.fetched /\ remembered.checked = cat.checked
  BY <1>d DEF E!Remembering
<1>2. \/ catalog' = cat /\ id \in cat.effects /\ E!Becomes(c, Told("got", "found"))
      \/ catalog' = cat /\ call.step = "load" /\ ~contacted /\ E!Becomes(c, again)
      \/ catalog' = cat /\ call.step = "load" /\ ~contacted /\ id \notin cat.effects /\ E!Becomes(c, Told("over", "absent here"))
      \/ /\ catalog' \in {cat, remembered} /\ id \notin cat.effects /\ (call.step = "load" => contacted)
         /\ E!Becomes(c, Told("over", "absent"))
  BY DEF E!Handed, E!Answered
<1> HIDE DEF remembered
<1>3. /\ DOMAIN catalog' = DOMAIN E!Nothing /\ catalog'.generation = cat.generation /\ catalog'.effects = cat.effects
      /\ catalog'.fetched = cat.fetched /\ catalog'.checked = cat.checked
  BY <1>1, <1>2
<1>4. /\ E!IsACatalogue'
      /\ E!Present' => \A i \in EffectId \ catalog'.effects : lastAbsent[i] >= catalog'.fetched
      /\ catalog'.effects = server
         \/ (catalog'.effects = catalog.effects /\ catalog'.generation = catalog.generation /\ catalog'.checked = catalog.checked)
      /\ ~E!IsNewer(catalog', catalog') /\ (catalog' = cat => ~E!IsNewer(catalog', cat))
  BY <1>3 DEF E!IsACatalogue, E!Present, E!IsNewer
<1>t. ASSUME NEW pc, NEW answer
      PROVE  /\ DOMAIN Told(pc, answer) = DOMAIN E!Idle /\ Told(pc, answer).pc = pc /\ Told(pc, answer).answer = answer
             /\ Told(pc, answer).at = effectNow /\ Told(pc, answer).seen = catalog' /\ Told(pc, answer).id = id
             /\ Told(pc, answer).step = call.step
  BY <1>0, <1>d
<1>a. /\ DOMAIN again = DOMAIN E!Idle /\ again.pc = "locking" /\ again.step = "revalidate" /\ again.seen = cat /\ again.id = id
      /\ again.answer = call.answer /\ again.at = call.at
  BY <1>0, <1>d
<1> HIDE DEF Told, again
<1>5. ASSUME NEW pc \in {"got", "over"}, NEW answer, E!Becomes(c, Told(pc, answer)),
             answer = "absent" => id \in lacked[c], answer = "absent here" => lastAbsent[id] + EffectHour > effectNow
      PROVE  E!Inv'
  <2> DEFINE r == Told(pc, answer)
  <2>1. effectLookups' = [effectLookups EXCEPT ![c] = r]
    BY <1>5 DEF E!Becomes
  <2>2. /\ DOMAIN r = DOMAIN E!Idle /\ r.pc = pc /\ r.answer = answer /\ r.at = effectNow /\ r.seen = catalog' /\ r.id = id
        /\ r.step = call.step
    BY <1>t
  <2> HIDE DEF r
  <2>3. E!IsALookup(r) /\ ~E!IsNewer(catalog', r.seen)
    BY <1>0, <1>4, <2>2 DEF E!IsALookup
  <2> QED BY <1>0, <1>4, <1>5, <2>1, <2>2, <2>3, EffectsMove
<1>6. CASE catalog' = cat /\ id \in cat.effects /\ E!Becomes(c, Told("got", "found"))
  BY <1>5, <1>6
<1>7. CASE catalog' = cat /\ call.step = "load" /\ ~contacted /\ E!Becomes(c, again)
  <2>1. effectLookups' = [effectLookups EXCEPT ![c] = again]
    BY <1>7 DEF E!Becomes
  <2>2. E!IsALookup(again) /\ ~E!IsNewer(catalog', again.seen)
    BY <1>0, <1>4, <1>7, <1>a DEF E!IsALookup
  <2> QED BY <1>0, <1>4, <1>a, <2>1, <2>2, EffectsMove
<1>8. CASE catalog' = cat /\ call.step = "load" /\ ~contacted /\ id \notin cat.effects /\ E!Becomes(c, Told("over", "absent here"))
  <2>1. E!IsFresh /\ cat = catalog
    BY <1>8 DEF E!LocallyKnown
  <2>2. lastAbsent[id] >= cat.fetched /\ lastAbsent[id] \in 0..effectNow /\ effectNow - cat.fetched < EffectHour
    BY <1>0, <1>8, <2>1 DEF E!IsFresh, E!Present, E!Inv, E!WasAbsent
  <2>3. lastAbsent[id] + EffectHour > effectNow
    <3>1. /\ lastAbsent[id] \in Int /\ cat.fetched \in Int /\ effectNow \in Int /\ EffectHour \in Int
          /\ lastAbsent[id] >= cat.fetched /\ effectNow - cat.fetched < EffectHour
      <4>1. cat.fetched \in Nat
        OBVIOUS
      <4>2. effectNow \in Nat /\ EffectHour \in Nat
        BY <1>0
      <4> HIDE DEF id
      <4>3. lastAbsent[id] \in Nat
        BY <2>2, <4>2
      <4> QED BY <2>2, <4>1, <4>2, <4>3
    <3> HIDE DEF id
    <3> QED BY <3>1
  <2> QED BY <1>5, <1>8, <2>3
<1>9. CASE /\ catalog' \in {cat, remembered} /\ id \notin cat.effects /\ (call.step = "load" => contacted)
           /\ E!Becomes(c, Told("over", "absent"))
  <2>1. CASE contacted
    <3>1. id \in lacked[c]
      BY <1>0, <1>9, <2>1
    <3> QED BY <1>5, <1>9, <3>1
  <2>2. CASE ~contacted
    <3>1. cat = catalog /\ call.step \in {"revalidate", "refresh"} /\ E!LocallyKnown(call)
      BY <1>0, <1>9, <2>2
    <3>2. E!IsNewer(catalog, call.seen) /\ E!HoldsSeen(c)
      BY <3>1 DEF E!LocallyKnown, E!IsNewer, E!HoldsSeen
    <3>3. id \in lacked[c]
      BY <1>0, <1>9, <3>1, <3>2
    <3> QED BY <1>5, <1>9, <3>3
  <2> QED BY <2>1, <2>2
<1> QED BY <1>2, <1>6, <1>7, <1>8, <1>9

LEMMA EffectsStep == ASSUME E!Inv, [E!Next]_E!catalogVars PROVE E!Inv'
<1>d. /\ DOMAIN E!Idle = {"pc", "id", "step", "seen", "answer", "at"}
      /\ DOMAIN E!Nothing = {"generation", "effects", "fetched", "checked", "unknown", "issued"}
  BY DEF E!Idle, E!Nothing
<1>0. /\ effectNow \in Nat /\ DOMAIN catalog = DOMAIN E!Nothing
      /\ {catalog.generation, catalog.fetched, catalog.checked, generation, epoch} \subseteq Nat /\ EffectHour \in Nat
      /\ \A c \in Callers : DOMAIN effectLookups[c] = DOMAIN E!Idle
  BY ChatsAssumption DEF ChatsAssumption, E!EffectCatalogAssumption, E!Inv, E!IsACatalogue, E!IsALookup
<1>1. ASSUME NEW c \in Callers, E!Enter(c) PROVE E!Inv'
  <2>1. /\ effectLookups[c].pc = "locking" /\ UNCHANGED <<effectNow, server, lacked, lastAbsent, generation, epoch>>
    BY <1>1 DEF E!Enter
  <2>2. CASE E!LocallyKnown(effectLookups[c])
    <3>1. E!Handed(c, catalog, FALSE)
      BY <1>1, <2>2 DEF E!Enter
    <3>2. catalog.generation > 0 => \A id \in EffectId \ catalog.effects : lastAbsent[id] >= catalog.fetched
      BY DEF E!Inv, E!WasAbsent, E!Present
    <3> QED BY <1>0, <2>1, <2>2, <3>1, <3>2, EffectsHanded
  <2>3. CASE ~E!LocallyKnown(effectLookups[c])
    <3> DEFINE r == [effectLookups[c] EXCEPT !.pc = "asking"]
    <3>1. effectLookups' = [effectLookups EXCEPT ![c] = r] /\ UNCHANGED catalog
      BY <1>1, <2>3 DEF E!Enter, E!Becomes
    <3>2. /\ DOMAIN r = DOMAIN E!Idle /\ r.pc = "asking" /\ r.id = effectLookups[c].id /\ r.step = effectLookups[c].step
          /\ r.seen = effectLookups[c].seen /\ r.answer = effectLookups[c].answer /\ r.at = effectLookups[c].at
      BY <1>0, <1>d
    <3> HIDE DEF r
    <3>3. E!IsALookup(r) /\ E!IsACatalogue'
      BY <2>1, <3>1, <3>2 DEF E!Inv, E!IsALookup, E!IsACatalogue
    <3>4. E!HoldsSeen(c)' => E!HoldsSeen(c)
      BY <2>1, <3>1, <3>2 DEF E!HoldsSeen, E!Inv
    <3> QED BY <2>1, <3>1, <3>2, <3>3, <3>4, EffectsMove DEF E!Inv, E!HasLacked, E!WasAbsent, E!Present, E!AbsentWasAbsent
  <2> QED BY <2>2, <2>3
<1>2. ASSUME NEW c \in Callers, E!NotModified(c) PROVE E!Inv'
  <2> DEFINE cat == [catalog EXCEPT !.fetched = effectNow, !.checked = epoch + 1]
  <2>1. /\ effectLookups[c].pc = "asking" /\ server = catalog.effects /\ epoch' = epoch + 1 /\ E!Handed(c, cat, TRUE)
        /\ UNCHANGED <<effectNow, server, generation, lacked, lastAbsent>>
    BY <1>2 DEF E!NotModified
  <2>2. /\ DOMAIN cat = DOMAIN E!Nothing /\ cat.generation = catalog.generation /\ cat.effects = catalog.effects
        /\ cat.fetched = effectNow /\ cat.checked = epoch + 1
    BY <1>0, <1>d
  <2> HIDE DEF cat
  <2>3. \A id \in EffectId \ cat.effects : lastAbsent[id] >= cat.fetched
    BY <1>0, <2>1, <2>2 DEF E!Inv, E!WasAbsent
  <2>4. {cat.generation, cat.fetched, cat.checked, generation', epoch'} \subseteq Nat
    BY <1>0, <2>1, <2>2
  <2> QED BY <2>1, <2>2, <2>3, <2>4, EffectsHanded
<1>3. ASSUME NEW c \in Callers, E!Modified(c) PROVE E!Inv'
  <2> DEFINE cat == [E!Nothing EXCEPT !.generation = generation + 1, !.effects = server, !.fetched = effectNow,
                                      !.checked = epoch + 1, !.issued = changes]
  <2>1. /\ effectLookups[c].pc = "asking" /\ epoch' = epoch + 1 /\ generation' = generation + 1 /\ E!Handed(c, cat, TRUE)
        /\ UNCHANGED <<effectNow, server, lacked, lastAbsent>>
    BY <1>3 DEF E!Modified
  <2>2. /\ DOMAIN cat = DOMAIN E!Nothing /\ cat.generation = generation + 1 /\ cat.effects = server
        /\ cat.fetched = effectNow /\ cat.checked = epoch + 1
    BY <1>d
  <2> HIDE DEF cat
  <2>3. \A id \in EffectId \ cat.effects : lastAbsent[id] >= cat.fetched
    BY <1>0, <2>1, <2>2 DEF E!Inv, E!WasAbsent
  <2>4. {cat.generation, cat.fetched, cat.checked, generation', epoch'} \subseteq Nat
    BY <1>0, <2>1, <2>2
  <2> QED BY <2>1, <2>2, <2>3, <2>4, EffectsHanded
<1>4. ASSUME NEW c \in Callers, E!Fails(c) \/ E!Downloads(c) \/ E!StaleReference(c) PROVE E!Inv'
  <2> DEFINE over == [effectLookups[c] EXCEPT !.pc = "over"]
             again == [effectLookups[c] EXCEPT !.pc = "locking", !.step = "refresh"]
  <2>1. /\ UNCHANGED <<effectNow, server, catalog, generation, epoch, lacked, lastAbsent>> /\ effectLookups[c].pc # "idle"
        /\ \/ effectLookups' = [effectLookups EXCEPT ![c] = over]
           \/ effectLookups' = [effectLookups EXCEPT ![c] = again] /\ effectLookups[c].pc = "got"
    BY <1>4 DEF E!Fails, E!Downloads, E!StaleReference, E!Becomes
  <2>2. /\ DOMAIN over = DOMAIN E!Idle /\ over.pc = "over" /\ over.id = effectLookups[c].id /\ over.step = effectLookups[c].step
        /\ over.answer = effectLookups[c].answer /\ over.at = effectLookups[c].at
        /\ DOMAIN again = DOMAIN E!Idle /\ again.pc = "locking" /\ again.id = effectLookups[c].id /\ again.step = "refresh"
        /\ again.seen = effectLookups[c].seen
        /\ again.answer = effectLookups[c].answer /\ again.at = effectLookups[c].at
    BY <1>0, <1>d
  <2> HIDE DEF over, again
  <2>3. E!IsALookup(over) /\ E!IsALookup(again) /\ E!IsACatalogue'
    BY <2>1, <2>2 DEF E!Inv, E!IsALookup, E!IsACatalogue
  <2>4. /\ effectLookups[c].answer = "absent" => effectLookups[c].id \in lacked[c]
        /\ effectLookups[c].answer = "absent here" => lastAbsent[effectLookups[c].id] + EffectHour > effectLookups[c].at
        /\ E!Present => \A id \in EffectId \ catalog.effects : lastAbsent[id] >= catalog.fetched
        /\ effectLookups[c].pc = "got" /\ E!IsNewer(catalog, effectLookups[c].seen) => EffectId \ catalog.effects \subseteq lacked[c]
    BY DEF E!Inv, E!AbsentWasAbsent, E!WasAbsent, E!HasLacked, E!HoldsSeen
  <2>5. E!Present' <=> E!Present
    BY <2>1 DEF E!Present
  <2>6. CASE effectLookups' = [effectLookups EXCEPT ![c] = over]
    <3>1. ~E!HoldsSeen(c)'
      BY <2>2, <2>6 DEF E!HoldsSeen, E!Inv
    <3> QED BY <2>1, <2>2, <2>3, <2>4, <2>5, <2>6, <3>1, EffectsMove
  <2>7. CASE effectLookups' = [effectLookups EXCEPT ![c] = again] /\ effectLookups[c].pc = "got"
    BY <2>1, <2>2, <2>3, <2>4, <2>5, <2>7, EffectsMove
  <2> QED BY <2>1, <2>6, <2>7
<1>5. ASSUME NEW c \in Callers, NEW id \in EffectId, E!Ask(c, id) PROVE E!Inv'
  <2> DEFINE r == [E!Idle EXCEPT !.pc = "locking", !.id = id]
  <2>1. /\ effectLookups' = [effectLookups EXCEPT ![c] = r] /\ lacked' = [lacked EXCEPT ![c] = EffectId \ server]
        /\ UNCHANGED <<effectNow, server, catalog, generation, epoch, lastAbsent>>
    BY <1>5 DEF E!Ask
  <2>2. DOMAIN r = DOMAIN E!Idle /\ r.pc = "locking" /\ r.id = id /\ r.step = "load" /\ r.answer = "none" /\ r.at = 0
    BY DEF E!Idle
  <2> HIDE DEF r
  <2>3. /\ effectLookups' = [d \in Callers |-> effectLookups'[d]] /\ effectLookups'[c] = r
        /\ lacked' = [d \in Callers |-> lacked'[d]] /\ lacked'[c] = EffectId \ server
        /\ \A d \in Callers \ {c} : effectLookups'[d] = effectLookups[d] /\ lacked'[d] = lacked[d]
    BY <2>1 DEF E!Inv
  <2>4. E!IsALookup(r) /\ E!HasLacked(c)'
    BY <2>1, <2>2, <2>3 DEF E!IsALookup, E!HasLacked, E!HoldsSeen
  <2>5. ASSUME NEW d \in Callers \ {c} PROVE E!IsALookup(effectLookups'[d]) /\ E!HasLacked(d)'
    BY <2>1, <2>3, <2>5 DEF E!Inv, E!HasLacked, E!HoldsSeen
  <2>6. E!WasAbsent' /\ E!IsACatalogue'
    BY <2>1 DEF E!Inv, E!WasAbsent, E!Present, E!IsACatalogue
  <2>7. E!AbsentWasAbsent'
    BY <2>1, <2>2, <2>3 DEF E!Inv, E!AbsentWasAbsent
  <2> QED BY <1>0, <2>1, <2>3, <2>4, <2>5, <2>6, <2>7 DEF E!Inv
<1>6. ASSUME UNCHANGED <<catalog, generation, epoch, effectLookups>>, lacked' = [c \in Callers |-> lacked'[c]],
             \A c \in Callers : lacked[c] \subseteq lacked'[c] /\ (effectLookups[c].pc # "idle" => EffectId \ server' \subseteq lacked'[c]),
             effectNow' \in Nat, effectNow' >= effectNow, \A id \in EffectId : lastAbsent'[id] \in lastAbsent[id]..effectNow',
             \A id \in EffectId \ server' : lastAbsent'[id] = effectNow'
      PROVE  E!Inv'
  <2>0. \A id \in EffectId : lastAbsent[id] \in 0..effectNow
    BY DEF E!Inv, E!WasAbsent
  <2>1. ASSUME NEW c \in Callers PROVE E!HasLacked(c)'
    BY <1>6 DEF E!Inv, E!HasLacked, E!HoldsSeen
  <2>2. E!WasAbsent'
    BY <1>0, <1>6, <2>0 DEF E!Inv, E!WasAbsent, E!Present
  <2>3. ASSUME NEW c \in Callers
        PROVE  /\ effectLookups[c].answer = "absent" => effectLookups[c].id \in lacked'[c]
               /\ effectLookups[c].answer = "absent here" => lastAbsent'[effectLookups[c].id] + EffectHour > effectLookups[c].at
    <3>1. effectLookups[c].answer = "absent here" => effectLookups[c].id \in EffectId
      BY DEF E!Inv, E!HasLacked
    <3>2. effectLookups[c].at \in Nat
      BY DEF E!Inv, E!IsALookup
    <3>3. /\ effectLookups[c].answer = "absent" => effectLookups[c].id \in lacked[c]
          /\ effectLookups[c].answer = "absent here" => lastAbsent[effectLookups[c].id] + EffectHour > effectLookups[c].at
      BY DEF E!Inv, E!AbsentWasAbsent
    <3>4. CASE effectLookups[c].answer = "absent here"
      <4> DEFINE before == lastAbsent[effectLookups[c].id]
                 after == lastAbsent'[effectLookups[c].id]
      <4>1. before \in Nat /\ after \in before..effectNow' /\ effectNow' \in Nat /\ before + EffectHour > effectLookups[c].at
        <5> DEFINE id == effectLookups[c].id
        <5>1. id \in EffectId
          BY <3>1, <3>4
        <5> HIDE DEF id
        <5>2. lastAbsent[id] \in 0..effectNow /\ lastAbsent'[id] \in lastAbsent[id]..effectNow'
          BY <1>6, <2>0, <5>1
        <5>3. before \in Nat /\ after \in before..effectNow'
          BY <5>2 DEF id
        <5> QED BY <1>6, <3>3, <3>4, <5>3
      <4> HIDE DEF before, after
      <4>2. after + EffectHour > effectLookups[c].at
        BY <1>0, <3>2, <4>1
      <4> QED BY <3>4, <4>2 DEF after
    <3>5. lacked[c] \subseteq lacked'[c]
      BY <1>6
    <3> QED BY <3>3, <3>4, <3>5
  <2>4. E!AbsentWasAbsent' /\ E!IsACatalogue'
    BY <1>6, <2>3 DEF E!AbsentWasAbsent, E!Inv, E!IsACatalogue
  <2> QED BY <1>6, <2>1, <2>2, <2>4 DEF E!Inv
<1>7. ASSUME NEW effects, E!ServerChanges(effects) PROVE E!Inv'
  <2>1. \A id \in EffectId : lastAbsent[id] \in 0..effectNow
    BY DEF E!Inv, E!WasAbsent
  <2>2. /\ UNCHANGED <<effectNow, catalog, generation, epoch, effectLookups>> /\ server' = effects
        /\ lacked' = [c \in Callers |-> lacked[c] \cup (EffectId \ effects)]
        /\ lastAbsent' = [id \in EffectId |-> IF id \in effects THEN lastAbsent[id] ELSE effectNow]
    BY <1>7 DEF E!ServerChanges
  <2> QED BY <1>0, <1>6, <2>1, <2>2
<1>8. CASE E!Tick
  <2>1. \A id \in EffectId : lastAbsent[id] \in 0..effectNow
    BY DEF E!Inv, E!WasAbsent
  <2>2. /\ UNCHANGED <<server, lacked, catalog, generation, epoch, effectLookups>> /\ effectNow' = effectNow + 1
        /\ lastAbsent' = [id \in EffectId |-> IF id \in server THEN lastAbsent[id] ELSE effectNow + 1]
    BY <1>8 DEF E!Tick
  <2>3. \A id \in EffectId : lastAbsent'[id] \in lastAbsent[id]..effectNow'
    BY <1>0, <2>1, <2>2
  <2>4. /\ \A c \in Callers : effectLookups[c].pc # "idle" => EffectId \ server \subseteq lacked[c]
        /\ \A id \in EffectId \ server : lastAbsent[id] = effectNow
        /\ lacked = [c \in Callers |-> lacked[c]]
    BY DEF E!Inv, E!HasLacked, E!WasAbsent
  <2> QED BY <1>0, <1>6, <2>2, <2>3, <2>4
<1>9. CASE UNCHANGED E!catalogVars
  BY <1>9 DEF E!catalogVars, E!Inv, E!IsACatalogue, E!IsALookup, E!HasLacked, E!HoldsSeen, E!IsNewer, E!WasAbsent, E!Present,
    E!AbsentWasAbsent
<1> QED BY <1>1, <1>2, <1>3, <1>4, <1>5, <1>7, <1>8, <1>9 DEF E!Next

(* The warm.  The stamp says that the dialogs came, and one warm runs: the *)
(* registered one.                                                         *)
LEMMA WarmInit == ASSUME L!Init PROVE L!Inv
<1>1. L!Idle.pc = "idle"
  BY DEF L!Idle
<1>2. stamp = L!Never /\ warms = [w \in L!WarmId |-> "unborn"] /\ lookups = [c \in Callers |-> L!Idle]
  BY DEF L!Init
<1>3. L!OneWarmRuns
  BY <1>2 DEF L!OneWarmRuns, L!Running
<1>4. \A c \in Callers : L!IsWaiting(c)
  BY <1>1, <1>2 DEF L!IsWaiting
<1> QED BY <1>2, <1>3, <1>4 DEF L!Inv

(* A lookup moves, the warms as they are or one more.                      *)
LEMMA WarmIsAwaited ==
  ASSUME L!Inv, NEW c \in Callers, NEW r, lookups' = [lookups EXCEPT ![c] = r], UNCHANGED <<cache, stamp, stopping>>,
         DOMAIN r = DOMAIN L!Idle, r.pc = "warming" => r.warm \in L!WarmId, r.pc = "cancelled" => r.quit \/ stopping,
         L!OneWarmRuns'
  PROVE  L!Inv'
<1>1. lookups' = [d \in Callers |-> lookups'[d]] /\ lookups'[c] = r /\ \A d \in Callers \ {c} : lookups'[d] = lookups[d]
  BY DEF L!Inv
<1>2. \A d \in Callers : L!IsWaiting(d)'
  BY <1>1 DEF L!Inv, L!IsWaiting
<1>3. L!Never' = L!Never
  BY DEF L!Never
<1> QED BY <1>1, <1>2, <1>3 DEF L!Inv

LEMMA WarmStep == ASSUME L!Inv, [L!Next]_L!lookupVars PROVE L!Inv'
<1>d. DOMAIN L!Idle = {"pc", "chat", "bare", "warm", "quit", "second", "told"}
  BY DEF L!Idle
<1>0. /\ \A c \in Callers : DOMAIN lookups[c] = DOMAIN L!Idle /\ L!IsWaiting(c)
      /\ warms = [w \in L!WarmId |-> warms[w]] /\ L!Never' = L!Never
  BY DEF L!Inv, L!IsWaiting, L!OneWarmRuns, L!Never
<1>1. ASSUME UNCHANGED <<warms, registered, stopping>> PROVE L!OneWarmRuns'
  BY <1>1 DEF L!Inv, L!OneWarmRuns, L!Running
<1> DEFINE Fields(r, s) == DOMAIN r = DOMAIN L!Idle /\ r.warm = s.warm /\ r.quit = s.quit
<1>2. ASSUME NEW c \in Callers, NEW r, Fields(r, lookups[c]) \/ r.pc \notin {"warming", "cancelled"}, DOMAIN r = DOMAIN L!Idle,
             r.pc \in {"idle", "asking", "again", "found", "unknown"}, lookups' = [lookups EXCEPT ![c] = r],
             UNCHANGED <<cache, stamp, warms, registered, stopping>>
      PROVE  L!Inv'
  BY <1>1, <1>2, WarmIsAwaited
<1>3. ASSUME NEW c \in Callers, NEW chat, NEW bare, L!Lookup(c, chat, bare) PROVE L!Inv'
  <2> DEFINE call == [L!Idle EXCEPT !.chat = chat, !.bare = bare]
             r == [call EXCEPT !.pc = IF L!Known(call) THEN "found" ELSE "asking"]
  <2>1. lookups' = [lookups EXCEPT ![c] = r] /\ UNCHANGED <<cache, stamp, warms, registered, stopping>>
    BY <1>3 DEF L!Lookup
  <2>2. DOMAIN call = DOMAIN L!Idle
    OBVIOUS
  <2> HIDE DEF call
  <2>3. DOMAIN r = DOMAIN L!Idle /\ r.pc \in {"found", "asking"}
    BY <1>d, <2>2
  <2> HIDE DEF r
  <2> QED BY <1>2, <2>1, <2>3
<1>4. ASSUME NEW c \in Callers, NEW w \in L!WarmId, L!Join(c, w), UNCHANGED <<cache, stamp, stopping>>, L!OneWarmRuns' PROVE L!Inv'
  <2> DEFINE s == [lookups[c] EXCEPT !.pc = "warming"]
             r == [s EXCEPT !.warm = w]
  <2>1. lookups' = [lookups EXCEPT ![c] = r]
    BY <1>0, <1>4 DEF L!Join, L!Inv
  <2>2. DOMAIN s = DOMAIN L!Idle /\ s.pc = "warming"
    BY <1>0, <1>d
  <2> HIDE DEF s
  <2>3. DOMAIN r = DOMAIN L!Idle /\ r.pc = "warming" /\ r.warm = w
    BY <1>d, <2>2
  <2> HIDE DEF r
  <2> QED BY <1>4, <2>1, <2>3, WarmIsAwaited
<1>5. ASSUME NEW c \in Callers, L!Missed(c) PROVE L!Inv'
  <2>0. UNCHANGED <<cache, stamp, stopping>>
    BY <1>5 DEF L!Missed
  <2>1. ASSUME NEW pc \in {"found", "unknown"}, NEW told, UNCHANGED <<warms, registered>>,
               lookups' = [lookups EXCEPT ![c].pc = pc, ![c].told = told]
        PROVE  L!Inv'
    <3> DEFINE s == [lookups[c] EXCEPT !.pc = pc]
               r == [s EXCEPT !.told = told]
    <3>1. lookups' = [lookups EXCEPT ![c] = r]
      BY <1>0, <2>1 DEF L!Inv
    <3>2. DOMAIN s = DOMAIN L!Idle /\ s.pc = pc
      BY <1>0, <1>d
    <3> HIDE DEF s
    <3>3. DOMAIN r = DOMAIN L!Idle /\ r.pc = pc
      BY <1>d, <3>2
    <3> HIDE DEF r
    <3> QED BY <1>2, <2>0, <2>1, <3>1, <3>3
  <2>2. CASE registered \in L!Running /\ L!Join(c, registered) /\ UNCHANGED <<warms, registered>>
    <3>1. registered \in L!WarmId
      BY <2>2 DEF L!Running
    <3> QED BY <1>1, <1>4, <2>0, <2>2, <3>1
  <2>3. ASSUME NEW w \in L!Unborn, registered \notin L!Running, warms' = [warms EXCEPT ![w] = "running"], registered' = w, L!Join(c, w)
        PROVE  L!Inv'
    <3>1. w \in L!WarmId
      BY <2>3 DEF L!Unborn
    <3>2. warms' = [v \in L!WarmId |-> warms'[v]] /\ warms'[w] = "running" /\ \A v \in L!WarmId \ {w} : warms'[v] = warms[v]
      BY <1>0, <2>3, <3>1
    <3>3. L!OneWarmRuns'
      <4>1. ~stopping => L!Running = {} /\ \A v \in L!WarmId : warms[v] \notin {"cancelling", "cancelled"}
        BY <2>3 DEF L!Inv, L!OneWarmRuns
      <4>2. ~stopping => \A v \in L!WarmId : warms'[v] \in {"running", "cancelling"} => v = w
        BY <3>2, <4>1 DEF L!Running
      <4>3. L!WarmId' = L!WarmId
        BY DEF L!WarmId
      <4> QED BY <2>0, <2>3, <3>2, <4>1, <4>2, <4>3 DEF L!OneWarmRuns, L!Running
    <3> QED BY <1>4, <2>0, <2>3, <3>1, <3>3
  <2>4. \/ \E told : /\ UNCHANGED <<warms, registered>>
                     /\ lookups' = [lookups EXCEPT ![c].pc = L!AfterTheVariants(lookups[c]), ![c].told = told]
        \/ registered \in L!Running /\ L!Join(c, registered) /\ UNCHANGED <<warms, registered>>
        \/ \E w \in L!Unborn : registered \notin L!Running /\ warms' = [warms EXCEPT ![w] = "running"] /\ registered' = w /\ L!Join(c, w)
    BY <1>5 DEF L!Missed
  <2>5. L!AfterTheVariants(lookups[c]) \in {"found", "unknown"}
    BY DEF L!AfterTheVariants
  <2> QED BY <2>1, <2>2, <2>3, <2>4, <2>5
<1>6. ASSUME NEW c \in Callers, L!AsksOnceMore(c) PROVE L!Inv'
  <2> DEFINE s == [lookups[c] EXCEPT !.second = TRUE]
             r == [s EXCEPT !.pc = IF L!Known(lookups[c]) THEN "found" ELSE "asking"]
  <2>1. lookups' = [lookups EXCEPT ![c] = r] /\ UNCHANGED <<cache, stamp, warms, registered, stopping>>
    BY <1>0, <1>6 DEF L!AsksOnceMore, L!Inv
  <2>2. DOMAIN s = DOMAIN L!Idle
    BY <1>0, <1>d
  <2> HIDE DEF s
  <2>3. DOMAIN r = DOMAIN L!Idle /\ r.pc \in {"found", "asking"}
    BY <1>d, <2>2
  <2> HIDE DEF r
  <2> QED BY <1>2, <2>1, <2>3
<1>7. ASSUME NEW c \in Callers, L!Resumes(c) \/ L!MissedAgain(c) PROVE L!Inv'
  <2>0. UNCHANGED <<cache, stamp, warms, registered, stopping>>
    BY <1>7 DEF L!Resumes, L!MissedAgain
  <2>1. \E pc \in {"found", "again", "unknown", "cancelled"} :
          L!Goes(c, pc) /\ (pc = "cancelled" => lookups[c].pc = "warming" /\ warms[lookups[c].warm] = "cancelled")
    BY <1>7 DEF L!Resumes, L!MissedAgain, L!AfterTheVariants
  <2>2. PICK pc \in {"found", "again", "unknown", "cancelled"} :
          L!Goes(c, pc) /\ (pc = "cancelled" => lookups[c].pc = "warming" /\ warms[lookups[c].warm] = "cancelled")
    BY <2>1
  <2> DEFINE r == [lookups[c] EXCEPT !.pc = pc]
  <2>3. lookups' = [lookups EXCEPT ![c] = r] /\ DOMAIN r = DOMAIN L!Idle /\ r.pc = pc
    BY <1>0, <1>d, <2>2 DEF L!Goes, L!Inv
  <2> HIDE DEF r
  <2>4. pc = "cancelled" => stopping
    BY <1>0, <2>2 DEF L!Inv, L!IsWaiting, L!OneWarmRuns
  <2> QED BY <1>1, <2>0, <2>2, <2>3, <2>4, WarmIsAwaited
<1>8. ASSUME NEW c \in Callers, L!GiveUp(c) PROVE L!Inv'
  <2> DEFINE s == [lookups[c] EXCEPT !.pc = "cancelled"]
             r == [s EXCEPT !.quit = TRUE]
  <2>1. lookups' = [lookups EXCEPT ![c] = r] /\ UNCHANGED <<cache, stamp, warms, registered, stopping>>
    BY <1>0, <1>8 DEF L!GiveUp, L!Shield, L!Inv
  <2>2. DOMAIN s = DOMAIN L!Idle /\ s.pc = "cancelled"
    BY <1>0, <1>d
  <2> HIDE DEF s
  <2>3. DOMAIN r = DOMAIN L!Idle /\ r.pc = "cancelled" /\ r.quit = TRUE
    BY <1>d, <2>2
  <2> HIDE DEF r
  <2> QED BY <1>1, <2>1, <2>3, WarmIsAwaited
<1>9. ASSUME NEW w \in L!WarmId, NEW outcome, L!WarmEnds(w, outcome) PROVE L!Inv'
  <2>1. /\ warms' = [warms EXCEPT ![w] = outcome] /\ UNCHANGED <<registered, stopping, lookups>>
        /\ cache' = (IF outcome = "warmed" THEN cache \cup LookupDialogs ELSE cache)
        /\ stamp' = (IF outcome = "warmed" THEN lookupNow ELSE stamp)
    BY <1>9 DEF L!WarmEnds, L!Stamps
  <2>2. /\ outcome \in {"warmed", "failed", "cancelled"}
        /\ outcome = "cancelled" => warms[w] = "cancelling"
    BY <1>9 DEF L!WarmEnds
  <2>3. warms' = [v \in L!WarmId |-> warms'[v]] /\ warms'[w] = outcome /\ \A v \in L!WarmId \ {w} : warms'[v] = warms[v]
    BY <1>0, <2>1
  <2>4. L!WarmId' = L!WarmId
    BY DEF L!WarmId
  <2>5. L!OneWarmRuns'
    BY <2>1, <2>2, <2>3, <2>4 DEF L!Inv, L!OneWarmRuns, L!Running
  <2>6. stamp' # L!Never => LookupDialogs \subseteq cache'
    BY <2>1 DEF L!Inv
  <2>7. \A c \in Callers : L!IsWaiting(c)'
    BY <2>1 DEF L!Inv, L!IsWaiting
  <2> QED BY <1>0, <2>1, <2>5, <2>6, <2>7 DEF L!Inv
<1>10. ASSUME NEW w, L!Forget(w) PROVE L!Inv'
  <2>1. /\ UNCHANGED <<cache, stamp, warms, stopping, lookups>> /\ registered' = 0 /\ registered = w
        /\ warms[w] \notin {"running", "cancelling"}
    BY <1>10 DEF L!Forget
  <2>2. L!OneWarmRuns'
    BY <2>1 DEF L!Inv, L!OneWarmRuns, L!Running
  <2> QED BY <1>0, <2>1, <2>2 DEF L!Inv, L!IsWaiting
<1>11. CASE L!Stop
  <2>1. UNCHANGED <<cache, stamp, lookups>> /\ stopping' = TRUE
    BY <1>11 DEF L!Stop
  <2>2. L!OneWarmRuns'
    BY <1>11 DEF L!Stop, L!OneWarmRuns
  <2> QED BY <1>0, <2>1, <2>2 DEF L!Inv, L!IsWaiting
<1>12. CASE L!Tick \/ UNCHANGED L!lookupVars
  BY <1>0, <1>1, <1>12 DEF L!Tick, L!lookupVars, L!Inv, L!IsWaiting
<1> QED BY <1>3, <1>5, <1>6, <1>7, <1>8, <1>9, <1>10, <1>11, <1>12 DEF L!Next

LEMMA WarmIsOne == ASSUME L!Inv PROVE L!WindowMeansWarmed /\ L!WarmIsShared
<1>1. L!WindowMeansWarmed
  BY DEF L!Inv, L!WindowMeansWarmed, L!Fresh
<1>2. ASSUME ~stopping PROVE L!Cardinality(L!Running) <= 1
  <2>1. L!Running = {} \/ L!Running = {registered}
    BY <1>2 DEF L!Inv, L!OneWarmRuns
  <2>2. L!Cardinality(L!Running) = Cardinality(L!Running)
    BY DEF L!Cardinality, Cardinality
  <2>3. Cardinality(L!Running) \in {0, 1}
    BY <2>1, FS_EmptySet, FS_Singleton
  <2> QED BY <2>2, <2>3
<1>3. \A c \in Callers : lookups[c].pc = "cancelled" => lookups[c].quit \/ stopping
  BY DEF L!Inv, L!IsWaiting
<1> QED BY <1>1, <1>2, <1>3 DEF L!WarmIsShared

(* Media that disappears.  A name is reserved for one call, and what was   *)
(* saved under a name is no reservation.                                   *)
LEMMA OpenedInit == ASSUME O!Init PROVE O!Inv
BY DEF O!Init, O!Inv, O!IsAttempt, O!HasSaved, O!IsFetching, O!Idle, O!Names, O!Free, O!Reserved

(* A call moves, no file is touched and no reservation given up or taken.  *)
LEMMA OpenedMoves ==
  ASSUME O!Inv, NEW c \in Callers, NEW r, opening' = [opening EXCEPT ![c] = r], UNCHANGED saved,
         O!IsAttempt(r), r.at # "reserved", opening[c].at # "reserved",
         r.saved => opening[c].saved /\ r.msg = opening[c].msg /\ r.name = opening[c].name,
         r.at \in {"fetched", "named"} \/ (r.at = "asked" /\ r.op = "save") => r.msg \in OpenedMedia,
         r.at \in {"asked", "fetched", "named"} => ~r.saved
  PROVE  O!Inv'
<1>1. opening' = [d \in Callers |-> opening'[d]] /\ opening'[c] = r /\ \A d \in Callers \ {c} : opening'[d] = opening[d]
  BY DEF O!Inv
<1>2. O!IsAttempt(opening'[c]) /\ O!HasSaved(c)' /\ O!IsFetching(c)'
  BY <1>1 DEF O!Inv, O!HasSaved, O!IsFetching
<1>3. ASSUME NEW d \in Callers \ {c} PROVE O!IsAttempt(opening'[d]) /\ O!HasSaved(d)' /\ O!IsFetching(d)'
  BY <1>1, <1>3 DEF O!Inv, O!HasSaved, O!IsFetching
<1>4. \A d, e \in Callers : opening'[d].at = "reserved" /\ opening'[e].at = "reserved" /\ opening'[d].name = opening'[e].name
        => d = e
  BY <1>1 DEF O!Inv
<1>5. \A n \in O!Names : saved[n] \in {O!Reserved, "part"} =>
        \E d \in Callers : opening'[d].at = "reserved" /\ opening'[d].name = n
  BY <1>1 DEF O!Inv
<1> QED BY <1>1, <1>2, <1>3, <1>4, <1>5 DEF O!Inv

(* A name is taken, and a reservation becomes a file or nothing.           *)
LEMMA OpenedReserves == ASSUME O!Inv, NEW c \in Callers, O!Reserves(c) PROVE O!Inv'
<1>1. PICK n \in O!Names : /\ saved[n] = O!Free /\ saved' = [saved EXCEPT ![n] = O!Reserved]
                           /\ opening' = [opening EXCEPT ![c] = [opening[c] EXCEPT !.at = "reserved", !.name = n]]
  BY DEF O!Reserves, O!Reservable, O!FreeNames, O!Sets
<1>2. opening[c].at = "named" /\ DOMAIN opening[c] = DOMAIN O!Idle /\ opening[c].msg \in OpenedMedia /\ ~opening[c].saved
  BY DEF O!Reserves, O!Inv, O!IsAttempt, O!IsFetching
<1>3. /\ opening' = [d \in Callers |-> opening'[d]] /\ (\A d \in Callers \ {c} : opening'[d] = opening[d])
      /\ opening'[c] = [opening[c] EXCEPT !.at = "reserved", !.name = n]
      /\ saved' = [m \in O!Names |-> saved'[m]] /\ saved'[n] = O!Reserved /\ \A m \in O!Names \ {n} : saved'[m] = saved[m]
  BY <1>1 DEF O!Inv
<1>4. /\ opening'[c].at = "reserved" /\ opening'[c].name = n /\ opening'[c].msg = opening[c].msg
      /\ opening'[c].saved = opening[c].saved /\ DOMAIN opening'[c] = DOMAIN O!Idle
  BY <1>2, <1>3 DEF O!Idle
<1>5. O!Free \notin {O!Reserved, "part"} /\ O!Free \notin OpenedMedia /\ O!Reserved \notin OpenedMedia
  BY ChatsAssumption DEF ChatsAssumption, O!DisappearingAssumption, O!Free, O!Reserved
<1>6. O!IsAttempt(opening'[c]) /\ O!HasSaved(c)' /\ O!IsFetching(c)'
  BY <1>2, <1>3, <1>4 DEF O!IsAttempt, O!HasSaved, O!IsFetching
<1>7. ASSUME NEW d \in Callers \ {c} PROVE O!IsAttempt(opening'[d]) /\ O!HasSaved(d)' /\ O!IsFetching(d)'
  BY <1>1, <1>3, <1>5 DEF O!Inv, O!HasSaved, O!IsFetching
<1>8. \A d, e \in Callers : opening'[d].at = "reserved" /\ opening'[e].at = "reserved" /\ opening'[d].name = opening'[e].name
        => d = e
  <2>1. ASSUME NEW d \in Callers \ {c}, opening[d].at = "reserved" PROVE opening[d].name # n
    BY <1>1, <1>5, <2>1 DEF O!Inv, O!IsFetching
  <2>2. \A d, e \in Callers \ {c} : opening[d].at = "reserved" /\ opening[e].at = "reserved" /\ opening[d].name = opening[e].name
          => d = e
    BY DEF O!Inv
  <2>3. ASSUME NEW d \in Callers, NEW e \in Callers, opening'[d].at = "reserved", opening'[e].at = "reserved",
               opening'[d].name = opening'[e].name
        PROVE  d = e
    <3>1. ASSUME NEW x \in Callers \ {c}, opening'[x].at = "reserved" PROVE opening'[x].name # opening'[c].name
      BY <1>3, <1>4, <2>1, <3>1
    <3>2. CASE d # c /\ e # c
      BY <1>3, <2>2, <2>3, <3>2
    <3> QED BY <2>3, <3>1, <3>2
  <2> QED BY <2>3
<1>9. \A m \in O!Names : saved'[m] \in {O!Reserved, "part"} =>
        \E d \in Callers : opening'[d].at = "reserved" /\ opening'[d].name = m
  <2>1. ASSUME NEW m \in O!Names \ {n}, saved'[m] \in {O!Reserved, "part"}
        PROVE  \E d \in Callers \ {c} : opening[d].at = "reserved" /\ opening[d].name = m
    BY <1>2, <1>3, <2>1 DEF O!Inv
  <2>2. ASSUME NEW m \in O!Names \ {n}, saved'[m] \in {O!Reserved, "part"}
        PROVE  \E d \in Callers : opening'[d].at = "reserved" /\ opening'[d].name = m
    BY <1>3, <2>1, <2>2
  <2>3. \E d \in Callers : opening'[d].at = "reserved" /\ opening'[d].name = n
    BY <1>4
  <2> QED BY <2>2, <2>3
<1> QED BY <1>3, <1>6, <1>7, <1>8, <1>9 DEF O!Inv

LEMMA OpenedWrites ==
  ASSUME O!Inv, NEW c \in Callers, NEW r, NEW what, opening[c].at = "reserved", saved' = [saved EXCEPT ![opening[c].name] = what],
         opening' = [opening EXCEPT ![c] = r], O!IsAttempt(r), r.at \in {"previewed", "replied"},
         what \in OpenedMedia \cup {O!Free}, r.saved => r.msg = what /\ what \in OpenedMedia /\ r.name = opening[c].name
  PROVE  O!Inv'
<1> DEFINE n == opening[c].name
<1>1. n \in O!Names /\ saved[n] = O!Reserved
  BY DEF O!Inv, O!IsFetching
<1> HIDE DEF n
<1>2. /\ opening' = [d \in Callers |-> opening'[d]] /\ (\A d \in Callers \ {c} : opening'[d] = opening[d])
      /\ opening'[c] = r
      /\ saved' = [m \in O!Names |-> saved'[m]] /\ saved'[n] = what /\ \A m \in O!Names \ {n} : saved'[m] = saved[m]
  BY <1>1 DEF O!Inv, n
<1>3. O!Reserved \notin OpenedMedia /\ what \notin {O!Reserved, "part"}
  BY ChatsAssumption DEF ChatsAssumption, O!DisappearingAssumption, O!Free, O!Reserved
<1>4. O!IsAttempt(opening'[c]) /\ O!HasSaved(c)' /\ O!IsFetching(c)'
  BY <1>1, <1>2 DEF O!IsAttempt, O!HasSaved, O!IsFetching, n
<1>5. ASSUME NEW d \in Callers \ {c} PROVE O!IsAttempt(opening'[d]) /\ O!HasSaved(d)' /\ O!IsFetching(d)'
  <2>1. opening[d].at = "reserved" => opening[d].name # n
    BY <1>5 DEF O!Inv, n
  <2>2. opening[d].saved => opening[d].name # n
    BY <1>1, <1>3, <1>5 DEF O!Inv, O!HasSaved
  <2> QED BY <1>2, <2>1, <2>2 DEF O!Inv, O!HasSaved, O!IsFetching
<1>6. \A d, e \in Callers : opening'[d].at = "reserved" /\ opening'[e].at = "reserved" /\ opening'[d].name = opening'[e].name
        => d = e
  BY <1>2 DEF O!Inv
<1>7. \A m \in O!Names : saved'[m] \in {O!Reserved, "part"} =>
        \E d \in Callers : opening'[d].at = "reserved" /\ opening'[d].name = m
  <2>1. ASSUME NEW m \in O!Names \ {n}, saved'[m] \in {O!Reserved, "part"}
        PROVE  \E d \in Callers \ {c} : opening[d].at = "reserved" /\ opening[d].name = m
    BY <1>2, <2>1 DEF O!Inv, n
  <2> QED BY <1>2, <1>3, <2>1
<1> QED BY <1>2, <1>4, <1>5, <1>6, <1>7 DEF O!Inv

LEMMA OpenedStep == ASSUME O!Inv, [O!Next]_O!disappearingVars PROVE O!Inv'
<1>d. DOMAIN O!Idle = {"op", "at", "msg", "preview", "name", "whole", "saved", "shown", "broken", "seconds", "id", "applied", "says"}
  BY DEF O!Idle
<1> DEFINE Replied(s, what) == [s EXCEPT !.at = "replied", !.says = what]
<1>0. ASSUME NEW s, DOMAIN s = DOMAIN O!Idle, NEW what
      PROVE  /\ DOMAIN Replied(s, what) = DOMAIN O!Idle /\ Replied(s, what).at = "replied"
             /\ Replied(s, what).msg = s.msg /\ Replied(s, what).saved = s.saved /\ Replied(s, what).name = s.name
             /\ Replied(s, what).op = s.op
  BY <1>0, <1>d
<1>1. ASSUME NEW c \in Callers,
             \/ O!Fetches(c) \/ O!NothingToFetch(c) \/ O!FetchFails(c) \/ O!NoPath(c) \/ O!Path(c) \/ O!DirectoryRefused(c)
             \/ O!NamesTaken(c) \/ O!Previews(c) \/ O!Sends(c) \/ O!SendFails(c)
      PROVE  O!Inv'
  <2>1. DOMAIN opening[c] = DOMAIN O!Idle /\ O!IsFetching(c) /\ O!HasSaved(c)
    BY DEF O!Inv, O!IsAttempt
  <2>2. CASE O!Fetches(c) \/ O!NoPath(c) \/ O!Path(c)
    <3>1. \E r : /\ opening' = [opening EXCEPT ![c] = r] /\ DOMAIN r = DOMAIN O!Idle
                 /\ r.at \in {"fetched", "previewed", "named", "replied"} /\ r.msg = opening[c].msg /\ r.saved = opening[c].saved
                 /\ r.name = opening[c].name
      BY <2>1, <2>2, <1>d DEF O!Fetches, O!NoPath, O!Path, O!Sets, O!Says
    <3>2. /\ opening[c].at \in {"asked", "fetched"} /\ opening[c].msg \in OpenedMedia /\ ~opening[c].saved /\ UNCHANGED saved
      BY <2>1, <2>2 DEF O!Fetches, O!NoPath, O!Path, O!AtTelegram, O!IsFetching
    <3> QED BY <3>1, <3>2, OpenedMoves DEF O!IsAttempt
  <2>3. CASE O!NothingToFetch(c) \/ O!FetchFails(c) \/ O!DirectoryRefused(c) \/ O!NamesTaken(c) \/ O!SendFails(c)
    <3>0. \E what : opening' = [opening EXCEPT ![c] = Replied(opening[c], what)]
      BY <2>3 DEF O!NothingToFetch, O!FetchFails, O!DirectoryRefused, O!NamesTaken, O!SendFails, O!Sets, O!Says
    <3> HIDE DEF Replied
    <3>1. \E r : /\ opening' = [opening EXCEPT ![c] = r] /\ DOMAIN r = DOMAIN O!Idle
                 /\ r.at = "replied" /\ r.msg = opening[c].msg /\ r.saved = opening[c].saved /\ r.name = opening[c].name
      BY <1>0, <2>1, <3>0
    <3>2. opening[c].at \in {"asked", "named"} /\ UNCHANGED saved
      BY <2>3 DEF O!NothingToFetch, O!FetchFails, O!DirectoryRefused, O!NamesTaken, O!SendFails, O!AtTelegram
    <3> QED BY <3>1, <3>2, OpenedMoves DEF O!IsAttempt
  <2>4. CASE O!Previews(c)
    <3> DEFINE what == IF opening[c].saved THEN "saved" ELSE "not saved"
               shows(drawn) == drawn /\ opening[c].preview /\ opening[c].msg \notin OpenedVoice
    <3>p. PICK drawn \in BOOLEAN :
            opening' = [opening EXCEPT ![c] = Replied([opening[c] EXCEPT !.shown = shows(drawn), !.broken = ~drawn], what)]
      BY <2>4 DEF O!Previews, O!Sets, O!Says
    <3> HIDE DEF shows, what
    <3> DEFINE s == [opening[c] EXCEPT !.shown = shows(drawn), !.broken = ~drawn]
    <3>0. opening' = [opening EXCEPT ![c] = Replied(s, what)]
      BY <3>p
    <3>s. DOMAIN s = DOMAIN O!Idle /\ s.msg = opening[c].msg /\ s.saved = opening[c].saved /\ s.name = opening[c].name
      BY <2>1, <1>d
    <3> HIDE DEF s, Replied
    <3> DEFINE r == Replied(s, what)
    <3>1. opening' = [opening EXCEPT ![c] = r]
      BY <3>0
    <3>3. /\ DOMAIN r = DOMAIN O!Idle /\ r.at = "replied" /\ r.msg = opening[c].msg /\ r.saved = opening[c].saved
          /\ r.name = opening[c].name
      BY <1>0, <3>s
    <3> HIDE DEF r
    <3>2. opening[c].at = "previewed" /\ UNCHANGED saved
      BY <2>4 DEF O!Previews, O!AtTelegram
    <3> QED BY <3>1, <3>2, <3>3, OpenedMoves DEF O!IsAttempt
  <2>5. CASE O!Sends(c)
    <3>p. PICK id, applied :
            opening' = [opening EXCEPT ![c] = Replied([opening[c] EXCEPT !.id = id, !.applied = applied], "sent")]
      BY <2>5 DEF O!Sends, O!Sets, O!Says
    <3> DEFINE s == [opening[c] EXCEPT !.id = id, !.applied = applied]
    <3>0. opening' = [opening EXCEPT ![c] = Replied(s, "sent")]
      BY <3>p
    <3>s. DOMAIN s = DOMAIN O!Idle /\ s.msg = opening[c].msg /\ s.saved = opening[c].saved /\ s.name = opening[c].name
      BY <2>1, <1>d
    <3> HIDE DEF s, Replied
    <3> DEFINE r == Replied(s, "sent")
    <3>1. opening' = [opening EXCEPT ![c] = r]
      BY <3>0
    <3>3. /\ DOMAIN r = DOMAIN O!Idle /\ r.at = "replied" /\ r.msg = opening[c].msg /\ r.saved = opening[c].saved
          /\ r.name = opening[c].name
      BY <1>0, <3>s
    <3> HIDE DEF r
    <3>2. opening[c].at = "asked" /\ UNCHANGED saved
      BY <2>5 DEF O!Sends
    <3> QED BY <3>1, <3>2, <3>3, OpenedMoves DEF O!IsAttempt
  <2> QED BY <1>1, <2>2, <2>3, <2>4, <2>5
<1>2. ASSUME NEW c \in Callers, O!WritesWhole(c) \/ O!WriteFails(c) PROVE O!Inv'
  <2>1. /\ DOMAIN opening[c] = DOMAIN O!Idle /\ opening[c].at = "reserved" /\ opening[c].msg \in OpenedMedia /\ ~opening[c].saved
    BY <1>2 DEF O!Inv, O!IsAttempt, O!IsFetching, O!WritesWhole, O!WriteFails
  <2>2. CASE O!WritesWhole(c)
    <3> DEFINE r == [opening[c] EXCEPT !.at = "previewed", !.saved = TRUE]
    <3>1. opening' = [opening EXCEPT ![c] = r] /\ saved' = [saved EXCEPT ![opening[c].name] = opening[c].msg]
      BY <2>2 DEF O!WritesWhole, O!Sets
    <3>2. r.at = "previewed" /\ r.msg = opening[c].msg /\ r.name = opening[c].name /\ DOMAIN r = DOMAIN O!Idle
      BY <2>1, <1>d
    <3> HIDE DEF r
    <3> QED BY <2>1, <3>1, <3>2, OpenedWrites DEF O!IsAttempt
  <2>3. CASE O!WriteFails(c)
    <3> DEFINE on == [opening[c] EXCEPT !.at = "previewed"]
               no == Replied(opening[c], "failed")
    <3>1. /\ saved' = [saved EXCEPT ![opening[c].name] = O!Free]
          /\ opening' = [opening EXCEPT ![c] = on] \/ opening' = [opening EXCEPT ![c] = no]
      BY <2>3 DEF O!WriteFails, O!Sets, O!Says, O!NameAfterFailure, O!Discards
    <3>2. DOMAIN on = DOMAIN O!Idle /\ on.at = "previewed" /\ on.saved = opening[c].saved
      BY <2>1, <1>d
    <3>3. DOMAIN no = DOMAIN O!Idle /\ no.at = "replied" /\ no.saved = opening[c].saved
      BY <2>1, <1>0
    <3> HIDE DEF on, no
    <3> QED BY <2>1, <3>1, <3>2, <3>3, OpenedWrites DEF O!IsAttempt
  <2> QED BY <1>2, <2>2, <2>3
<1>3. ASSUME NEW c \in Callers, NEW r, O!Begins(c, r) \/ O!Says(c, r, "refused"), DOMAIN r = DOMAIN O!Idle, ~r.saved,
             r.op = "save" => r.msg \in OpenedMedia, opening[c].at \in {"idle", "replied"}, UNCHANGED saved
      PROVE  O!Inv'
  <2> DEFINE on == [r EXCEPT !.at = "asked"]
             no == Replied(r, "refused")
  <2>1. opening' = [opening EXCEPT ![c] = on] \/ opening' = [opening EXCEPT ![c] = no]
    BY <1>3 DEF O!Begins, O!Says, O!Sets
  <2>2. DOMAIN on = DOMAIN O!Idle /\ on.at = "asked" /\ on.msg = r.msg /\ on.saved = r.saved /\ on.op = r.op
    BY <1>3, <1>d
  <2>3. DOMAIN no = DOMAIN O!Idle /\ no.at = "replied" /\ no.saved = r.saved
    BY <1>0, <1>3
  <2> HIDE DEF on, no
  <2> QED BY <1>3, <2>1, <2>2, <2>3, OpenedMoves DEF O!IsAttempt
<1>4. ASSUME NEW c \in Callers, NEW m \in OpenedMedia, NEW preview, O!Save(c, m, preview) PROVE O!Inv'
  <2> DEFINE r == [O!Idle EXCEPT !.op = "save", !.msg = m, !.preview = preview]
  <2>1. O!Begins(c, r) /\ opening[c].at \in {"idle", "replied"} /\ UNCHANGED saved
    BY <1>4 DEF O!Save, O!Begins
  <2>2. DOMAIN r = DOMAIN O!Idle /\ ~r.saved /\ r.msg = m
    BY DEF O!Idle
  <2> HIDE DEF r
  <2> QED BY <1>3, <2>1, <2>2
<1>5. ASSUME NEW c \in Callers, NEW seconds, O!Send(c, seconds) PROVE O!Inv'
  <2> DEFINE r == [O!Idle EXCEPT !.op = "send", !.seconds = seconds]
  <2>1. (O!Begins(c, r) \/ O!Says(c, r, "refused")) /\ opening[c].at \in {"idle", "replied"} /\ UNCHANGED saved
    BY <1>5 DEF O!Send, O!Begins
  <2>2. DOMAIN r = DOMAIN O!Idle /\ ~r.saved /\ r.op = "send"
    BY DEF O!Idle
  <2> HIDE DEF r
  <2> QED BY <1>3, <2>1, <2>2
<1>6. ASSUME UNCHANGED <<saved, opening>> PROVE O!Inv'
  BY <1>6 DEF O!Inv, O!HasSaved, O!IsFetching
<1>7. CASE UNCHANGED O!disappearingVars \/ \E m \in OpenedMedia : O!Expires(m)
  BY <1>6, <1>7 DEF O!disappearingVars, O!Expires
<1>8. ASSUME NEW c \in Callers, O!Reserves(c) PROVE O!Inv'
  BY <1>8, OpenedReserves
<1> QED BY <1>1, <1>2, <1>4, <1>5, <1>7, <1>8 DEF O!Next

LEMMA OpenedStay == ASSUME O!Inv PROVE O!SavedFilesStay
BY DEF O!Inv, O!HasSaved, O!SavedFilesStay

(* Timers.  A message that was sent keeps its id and its timer, and a call *)
(* tells of it only once it replies.                                       *)
LEMMA TimersBegin == ASSUME O!Init PROVE O!Timed
<1>1. O!Cardinality({}) = 0
  <2>1. O!Cardinality({}) = Cardinality({})
    BY DEF O!Cardinality, Cardinality
  <2> QED BY <2>1, FS_EmptySet
<1>2. timed = <<>> /\ opening = [c \in Callers |-> O!Idle] /\ O!Idle.says = "nothing"
  BY DEF O!Init, O!Idle
<1>4. DOMAIN timed = {} /\ 1..0 = {}
  BY <1>2
<1>3. \A c \in Callers : O!HasSent(opening[c])
  BY <1>2 DEF O!HasSent
<1> QED BY <1>1, <1>2, <1>3, <1>4 DEF O!Timed, O!HasIds

LEMMA TimersStay ==
  ASSUME O!Inv, O!Timed, NEW c \in Callers, NEW r, opening' = [opening EXCEPT ![c] = r], UNCHANGED timed,
         r.says # "sent", r.at # "replied" => r.says = "nothing"
  PROVE  O!Timed'
<1>1. opening'[c] = r /\ \A d \in Callers \ {c} : opening'[d] = opening[d]
  BY DEF O!Inv
<1>2. O!HasSent(opening[c])'
  BY <1>1 DEF O!HasSent
<1>3. ASSUME NEW d \in Callers \ {c} PROVE O!HasSent(opening[d])'
  BY <1>1, <1>3 DEF O!Timed, O!HasSent
<1> QED BY <1>2, <1>3 DEF O!Timed, O!HasIds

LEMMA TimerIsSent == ASSUME O!Inv, O!Timed, NEW c \in Callers, O!Sends(c) PROVE O!Timed'
<1> DEFINE many == O!Cardinality(DOMAIN timed)
           id == many + 1
           asked == O!Timer(opening[c].seconds)
           confirmed == IF asked = O!ViewOnce \/ asked <= accepts THEN asked ELSE O!NoTimer
           applied == O!Applied(asked, confirmed)
           s == [opening[c] EXCEPT !.id = id, !.applied = applied]
           r == [s EXCEPT !.at = "replied", !.says = "sent"]
<1>1. /\ timed' = [i \in 1..id |-> IF i = id THEN confirmed ELSE timed[i]]
      /\ opening' = [opening EXCEPT ![c] = r]
  BY DEF O!Sends, O!Says, O!Sets
<1>2. applied <=> confirmed = O!Timer(opening[c].seconds)
  BY DEF O!Applied, O!ComparedWithTheReply
<1>3. many \in Nat /\ DOMAIN timed = 1..many
  BY DEF O!Timed, O!HasIds
<1>4. DOMAIN opening[c] = DOMAIN O!Idle
  BY DEF O!Inv, O!IsAttempt
<1> HIDE DEF many, confirmed, applied, asked
<1>5. /\ DOMAIN s = DOMAIN O!Idle /\ s.id = id /\ s.applied = applied /\ s.seconds = opening[c].seconds
  BY <1>4 DEF O!Idle
<1> HIDE DEF s
<1>6. r.at = "replied" /\ r.says = "sent" /\ r.id = id /\ r.applied = applied /\ r.seconds = opening[c].seconds
  BY <1>5 DEF O!Idle
<1> HIDE DEF r
<1>7. id \in Nat /\ id \notin 1..many /\ id \in 1..id /\ 1..many \subseteq 1..id
  BY <1>3
<1>8. O!Cardinality(1..id) = id
  <2>1. O!Cardinality(1..id) = Cardinality(1..id)
    BY DEF O!Cardinality, Cardinality
  <2>2. Cardinality(1..id) = IF 1 > id THEN 0 ELSE id - 1 + 1
    BY <1>7, FS_Interval
  <2> QED BY <1>3, <2>1, <2>2
<1> HIDE DEF id
<1>9. DOMAIN timed' = 1..id /\ timed'[id] = confirmed /\ \A i \in 1..many : timed'[i] = timed[i]
  BY <1>1, <1>7
<1>10. O!HasIds'
  BY <1>7, <1>8, <1>9 DEF O!HasIds
<1>11. opening'[c] = r /\ \A d \in Callers \ {c} : opening'[d] = opening[d]
  BY <1>1 DEF O!Inv
<1>12. O!HasSent(opening[c])'
  BY <1>2, <1>6, <1>7, <1>9, <1>11 DEF O!HasSent
<1>13. ASSUME NEW d \in Callers \ {c} PROVE O!HasSent(opening[d])'
  <2>1. O!HasSent(opening[d])
    BY DEF O!Timed
  <2> QED BY <1>3, <1>7, <1>9, <1>11, <1>13, <2>1 DEF O!HasSent
<1> QED BY <1>10, <1>12, <1>13 DEF O!Timed

LEMMA TimersStep == ASSUME O!Inv, O!Timed, [O!Next]_O!disappearingVars PROVE O!Timed'
<1>d. DOMAIN O!Idle = {"op", "at", "msg", "preview", "name", "whole", "saved", "shown", "broken", "seconds", "id", "applied", "says"}
  BY DEF O!Idle
<1>e. \A c \in Callers : DOMAIN opening[c] = DOMAIN O!Idle
  BY DEF O!Inv, O!IsAttempt
<1>1. ASSUME NEW c \in Callers, NEW s, NEW what, what # "sent", DOMAIN s = DOMAIN O!Idle, O!Says(c, s, what), UNCHANGED timed
      PROVE  O!Timed'
  <2> DEFINE r == [s EXCEPT !.at = "replied", !.says = what]
  <2>1. opening' = [opening EXCEPT ![c] = r] /\ r.at = "replied" /\ r.says = what
    BY <1>1, <1>d DEF O!Says, O!Sets
  <2> HIDE DEF r
  <2> QED BY <1>1, <2>1, TimersStay
<1>2. ASSUME NEW c \in Callers, NEW r, O!Sets(c, r), r.says = "nothing", UNCHANGED timed PROVE O!Timed'
  BY <1>2, TimersStay DEF O!Sets
<1>3. ASSUME NEW c \in Callers,
             \/ O!NothingToFetch(c) \/ O!FetchFails(c) \/ O!DirectoryRefused(c) \/ O!NamesTaken(c) \/ O!SendFails(c)
      PROVE  O!Timed'
  <2>1. /\ \E what \in {"gone", "nothing fetched", "directory refused", "names taken", "failed"} : O!Says(c, opening[c], what)
        /\ UNCHANGED timed
    BY <1>3 DEF O!NothingToFetch, O!FetchFails, O!DirectoryRefused, O!NamesTaken, O!SendFails, O!AtTelegram
  <2> QED BY <1>1, <1>e, <2>1
<1>4. ASSUME NEW c \in Callers,
             O!Fetches(c) \/ O!NoPath(c) \/ O!Path(c) \/ O!Reserves(c) \/ O!WritesWhole(c) \/ O!WriteFails(c)
      PROVE  O!Timed'
  <2>1. opening[c].at # "replied" /\ UNCHANGED timed
    BY <1>4 DEF O!Fetches, O!NoPath, O!Path, O!Reserves, O!WritesWhole, O!WriteFails, O!AtTelegram
  <2>2. opening[c].says = "nothing"
    BY <2>1 DEF O!Timed, O!HasSent
  <2> DEFINE move(r) == O!Sets(c, r) /\ r.says = "nothing"
             fetched == [opening[c] EXCEPT !.at = "fetched", !.whole = TRUE]
             moved(at) == [opening[c] EXCEPT !.at = at]
             named(n) == [opening[c] EXCEPT !.at = "reserved", !.name = n]
             done == [opening[c] EXCEPT !.at = "previewed", !.saved = TRUE]
  <2>3. /\ fetched.says = "nothing" /\ done.says = "nothing"
        /\ \A at : moved(at).says = "nothing" /\ \A n : named(n).says = "nothing"
    BY <1>d, <1>e, <2>2
  <2>4. \/ O!Says(c, opening[c], "too large") \/ O!Says(c, opening[c], "failed")
        \/ O!Sets(c, fetched) \/ O!Sets(c, done) \/ (\E at : O!Sets(c, moved(at))) \/ (\E n : O!Sets(c, named(n)))
    BY <1>4 DEF O!Fetches, O!NoPath, O!Path, O!Reserves, O!WritesWhole, O!WriteFails
  <2> HIDE DEF fetched, moved, named, done
  <2> QED BY <1>1, <1>2, <1>e, <2>1, <2>3, <2>4
<1>5. ASSUME NEW c \in Callers, O!Previews(c) PROVE O!Timed'
  <2>1. PICK drawn \in BOOLEAN :
          O!Says(c, [opening[c] EXCEPT !.shown = drawn /\ opening[c].preview /\ opening[c].msg \notin OpenedVoice,
                                       !.broken = ~drawn],
                 IF opening[c].saved THEN "saved" ELSE "not saved")
    BY <1>5 DEF O!Previews
  <2> DEFINE s == [opening[c] EXCEPT !.shown = drawn /\ opening[c].preview /\ opening[c].msg \notin OpenedVoice,
                                     !.broken = ~drawn]
             what == IF opening[c].saved THEN "saved" ELSE "not saved"
  <2>2. DOMAIN s = DOMAIN O!Idle /\ what # "sent" /\ O!Says(c, s, what)
    BY <1>e, <2>1
  <2>3. UNCHANGED timed
    BY <1>5 DEF O!Previews, O!AtTelegram
  <2> HIDE DEF s, what
  <2> QED BY <1>1, <2>2, <2>3
<1>6. ASSUME NEW c \in Callers, NEW s, DOMAIN s = DOMAIN O!Idle, s.says = "nothing", O!Begins(c, s) PROVE O!Timed'
  <2> DEFINE r == [s EXCEPT !.at = "asked"]
  <2>1. O!Sets(c, r) /\ r.says = "nothing" /\ UNCHANGED timed
    BY <1>6, <1>d DEF O!Begins, O!AtTelegram
  <2> HIDE DEF r
  <2> QED BY <1>2, <2>1
<1>7. ASSUME NEW c \in Callers, NEW m, NEW preview, O!Save(c, m, preview) PROVE O!Timed'
  <2> DEFINE s == [O!Idle EXCEPT !.op = "save", !.msg = m, !.preview = preview]
  <2>1. O!Begins(c, s) /\ DOMAIN s = DOMAIN O!Idle /\ s.says = "nothing"
    BY <1>7 DEF O!Save, O!Idle
  <2> HIDE DEF s
  <2> QED BY <1>6, <2>1
<1>8. ASSUME NEW c \in Callers, NEW seconds, O!Send(c, seconds) PROVE O!Timed'
  <2> DEFINE s == [O!Idle EXCEPT !.op = "send", !.seconds = seconds]
  <2>1. O!Begins(c, s) \/ (O!Says(c, s, "refused") /\ UNCHANGED timed)
    BY <1>8 DEF O!Send, O!AtTelegram
  <2>2. DOMAIN s = DOMAIN O!Idle /\ s.says = "nothing"
    BY DEF O!Idle
  <2> HIDE DEF s
  <2> QED BY <1>1, <1>6, <2>1, <2>2
<1>9. CASE UNCHANGED O!disappearingVars \/ \E m \in OpenedMedia : O!Expires(m)
  <2>1. UNCHANGED <<timed, opening>>
    BY <1>9 DEF O!disappearingVars, O!Expires
  <2> QED BY <2>1 DEF O!Timed, O!HasIds, O!HasSent
<1> QED BY <1>3, <1>4, <1>5, <1>7, <1>8, <1>9, TimerIsSent DEF O!Next

LEMMA TimersAreKept == ASSUME O!Timed PROVE O!TimersAreTold
BY DEF O!Timed, O!HasSent, O!TimersAreTold

(* For any callers, delay, budget and keyboard: two paced bodies begin at  *)
(* least the delay apart (enforce_rate_limit), and a press is sent only by *)
(* the process that signed its token (_sign).                              *)
THEOREM CallsStayGated == MCSpec => CallsAreGated
<1>1. MCInit => C!Pacing /\ B!Inv
  BY GateInit, ButtonsInit DEF MCInit
<1>2. C!Pacing /\ [MCNext]_chatsVars => C!Pacing' /\ [latest' # latest => latest' - latest >= RateDelay]_C!callVars
  <2>1. [MCNext]_chatsVars => [C!Next]_C!callVars
    BY DEF MCNext, chatsVars, callVars, C!callVars
  <2> QED BY <2>1, GateStep, GateSpaces
<1>3. B!Inv /\ [MCNext]_chatsVars =>
        B!Inv' /\ [(press'.state = "sent" /\ press' # press) => press.token.key = process]_B!buttonVars
  <2>1. [MCNext]_chatsVars => [B!Next]_B!buttonVars
    BY DEF MCNext, chatsVars, buttonVars, B!buttonVars
  <2> QED BY <2>1, ButtonsStep
<1> QED BY <1>1, <1>2, <1>3, PTL DEF MCSpec, CallsAreGated, C!RequestsAreSpaced, B!TokensEndWithTheProcess

(* What always holds of each part.  The folders, by the theorems about     *)
(* them: calls to one folder wait for each other, so what is written is    *)
(* what was read.                                                          *)
LEMMA FoldersStay == MCSpec => F!FoldersKeepTheirIdentity /\ []F!AddedChatsStay
<1>1. F!FoldersAssumption
  BY RecordsAssumption DEF RecordsAssumption
<1>2. MCInit => F!Init
  BY DEF MCInit
<1>3. [MCNext]_chatsVars => [F!Next]_F!folderVars
  BY DEF MCNext, chatsVars, folderVars, F!folderVars
<1>4. MCSpec => F!Spec
  BY <1>2, <1>3, PTL DEF MCSpec, F!Spec
<1> QED BY <1>1, <1>4, F!FoldersStayThemselves, F!AdditionsStay, PTL

LEMMA QueueStays == MCSpec => Q!EditKeepsTheRest /\ [](Q!QueueHoldsWholeMessages /\ Q!PostponedIsNotSent)
<1>1. MCInit => Q!Inv /\ Q!Meant
  BY QueueInit, QueueMeant DEF MCInit
<1>2. Q!Inv /\ Q!Meant /\ [MCNext]_chatsVars => Q!Inv' /\ Q!Meant' /\ [Q!OmittedStays]_Q!queueVars
  <2>1. [MCNext]_chatsVars => [Q!Next]_Q!queueVars
    BY DEF MCNext, chatsVars, queueVars, Q!queueVars
  <2>2. Q!Inv /\ [Q!Next]_Q!queueVars => Q!Inv' /\ Q!OmittedStays
    BY QueueStep, QueueEditsKeep DEF Q!OmittedStays
  <2> QED BY <2>1, <2>2, QueueMeans
<1>3. Q!Meant => Q!QueueHoldsWholeMessages /\ Q!PostponedIsNotSent
  BY DEF Q!Meant, Q!QueueHoldsWholeMessages, Q!PostponedIsNotSent, Q!IsWhole
<1> QED BY <1>1, <1>2, <1>3, PTL DEF MCSpec, Q!EditKeepsTheRest

LEMMA PollsStay == MCSpec => V!ClosingKeepsThePoll
<1>1. MCInit => V!Inv
  BY PollsInit DEF MCInit
<1>2. V!Inv /\ [MCNext]_chatsVars => V!Inv' /\ [V!OnlyCloses]_V!pollsVars
  <2>1. [MCNext]_chatsVars => [V!Next]_V!pollsVars
    BY DEF MCNext, chatsVars, pollVars, V!pollsVars
  <2>2. V!Inv /\ [V!Next]_V!pollsVars => V!Inv' /\ V!OnlyCloses
    BY PollsStep, PollsClose DEF V!OnlyCloses
  <2> QED BY <2>1, <2>2
<1> QED BY <1>1, <1>2, PTL DEF MCSpec, V!ClosingKeepsThePoll

(* The margin a call leaves for the way covers the way.                    *)
LEMMA PollsStayInTime ==
  ASSUME PollLag <= PollMargin
  PROVE  MCSpec => V!ReadingTellsTheVotes /\ []V!DeadlinesAreAccepted
<1>1. MCInit => V!Inv /\ V!InTime
  BY PollsInit, PollsBegin DEF MCInit
<1>2. V!Inv /\ V!InTime /\ [MCNext]_chatsVars => V!Inv' /\ V!InTime' /\ [V!ReadingIsOfTheVotes]_V!pollsVars
  <2>1. [MCNext]_chatsVars => [V!Next]_V!pollsVars
    BY DEF MCNext, chatsVars, pollVars, V!pollsVars
  <2>2. V!Inv /\ V!InTime /\ [V!Next]_V!pollsVars => V!Inv' /\ V!InTime' /\ V!ReadingIsOfTheVotes
    BY PollsStep, PollsKeepTime, PollsAreRead DEF V!ReadingIsOfTheVotes
  <2> QED BY <2>1, <2>2
<1>3. V!InTime => V!DeadlinesAreAccepted
  BY DEF V!InTime, V!IsInTime, V!DeadlinesAreAccepted
<1> QED BY <1>1, <1>2, <1>3, PTL DEF MCSpec, V!ReadingTellsTheVotes

LEMMA ListsStay == MCSpec => K!OthersStay
<1>1. MCInit => K!Inv
  BY ListsInit DEF MCInit
<1>2. K!Inv /\ [MCNext]_chatsVars => K!Inv' /\ [K!OnlyTheNamedGo]_K!listsVars
  <2>1. [MCNext]_chatsVars => [K!Next]_K!listsVars
    BY DEF MCNext, chatsVars, listVars, K!listsVars
  <2>2. K!Inv /\ [K!Next]_K!listsVars => K!Inv' /\ K!OnlyTheNamedGo
    BY ListsStep DEF K!OnlyTheNamedGo
  <2> QED BY <2>1, <2>2
<1> QED BY <1>1, <1>2, PTL DEF MCSpec, K!OthersStay

(* What lists are told to be, while one call at a time edits them.         *)
LEMMA ListsAreTold == ASSUME ~ListOverlap PROVE MCSpec => K!RepliesTellTheList /\ []K!StickersAreAddedOnce
<1>1. MCInit => K!Inv /\ K!Meant
  BY ListsInit, ListsMeant DEF MCInit
<1>2. K!Inv /\ K!Meant /\ [MCNext]_chatsVars => K!Inv' /\ K!Meant' /\ [K!RepliesAreOfTheList]_K!listsVars
  <2>1. [MCNext]_chatsVars => [K!Next]_K!listsVars
    BY DEF MCNext, chatsVars, listVars, K!listsVars
  <2>2. K!Inv /\ [K!Next]_K!listsVars => K!Inv'
    BY ListsStep
  <2> QED BY <2>1, <2>2, ListsMean
<1>3. K!Inv /\ K!Meant => K!StickersAreAddedOnce
  BY StickersAreMeant
<1> QED BY <1>1, <1>2, <1>3, PTL DEF MCSpec, K!RepliesTellTheList

LEMMA LinksStay == MCSpec => M!OmittedConditionsStay /\ M!RepliesAreSo /\ []M!EveryChatIsTold
<1> DEFINE Told == request.pc # "replied" /\ request'.pc = "replied" => M!HoldsOf(request)'
<1>1. MCInit => M!Inv /\ M!Meant
  BY LinksInit, ChatsMeant DEF MCInit
<1>2. M!Inv /\ M!Meant /\ [MCNext]_chatsVars =>
        M!Inv' /\ M!Meant' /\ [M!OnlyTheGivenLimitChanges]_M!membershipVars /\ [Told]_M!membershipVars
  <2>1. [MCNext]_chatsVars => [M!Next]_M!membershipVars
    BY DEF MCNext, chatsVars, membershipVars, M!membershipVars
  <2>2. M!Inv /\ [M!Next]_M!membershipVars => M!Inv' /\ M!OnlyTheGivenLimitChanges
    BY LinksStep DEF M!OnlyTheGivenLimitChanges
  <2>3. M!Inv /\ M!Meant /\ M!Next => M!Meant' /\ Told
    BY ChatsMean
  <2>4. M!Meant /\ UNCHANGED M!membershipVars => M!Meant'
    BY DEF M!Meant, M!HasTold, M!EveryChatIsTold, M!HasInvited, M!membershipVars
  <2> QED BY <2>1, <2>2, <2>3, <2>4
<1>3. M!Inv /\ M!Meant => M!EveryChatIsTold
  BY DEF M!Meant, M!HasTold, M!EveryChatIsTold
<1> QED BY <1>1, <1>2, <1>3, PTL DEF MCSpec, M!OmittedConditionsStay, M!RepliesAreSo

LEMMA RightsStay == MCSpec => R!GrantedUnlessDeclined /\ R!WithheldUnlessNamed /\ R!ExceptionsHold
<1>1. MCInit => R!Inv
  BY RightsInit DEF MCInit
<1>2. R!Inv /\ [MCNext]_chatsVars =>
        R!Inv' /\ [R!MissingIsDeclined /\ R!WithheldIsNamed /\ R!RulesSayWhatIsNamed]_R!rightsVars
  <2>1. [MCNext]_chatsVars => [R!Next]_R!rightsVars
    BY DEF MCNext, chatsVars, rightsVars, R!rightsVars
  <2>2. R!Inv /\ [R!Next]_R!rightsVars => R!MissingIsDeclined
    BY EditIsGranted DEF R!MissingIsDeclined
  <2>3. R!Inv /\ [R!Next]_R!rightsVars => R!WithheldIsNamed
    BY WithheldIsNamed DEF R!WithheldIsNamed
  <2>4. R!Inv /\ [R!Next]_R!rightsVars => R!RulesSayWhatIsNamed
    BY ExceptionsAreHeld DEF R!RulesSayWhatIsNamed
  <2> QED BY <2>1, <2>2, <2>3, <2>4, RightsStep
<1> QED BY <1>1, <1>2, PTL DEF MCSpec, R!GrantedUnlessDeclined, R!WithheldUnlessNamed, R!ExceptionsHold


LEMMA DeletionsStay == MCSpec => [](D!OnlyTheNamedGo /\ D!DeletionIsToldAsItWas)
<1>1. MCInit => D!Inv
  BY DeletionInit DEF MCInit
<1>2. D!Inv /\ [MCNext]_chatsVars => D!Inv'
  <2>1. [MCNext]_chatsVars => [D!Next]_D!deletionVars
    BY DEF MCNext, chatsVars, deletionVars, D!deletionVars
  <2> QED BY <2>1, DeletionStep
<1>3. D!Inv => D!OnlyTheNamedGo /\ D!DeletionIsToldAsItWas
  BY DEF D!Inv
<1> QED BY <1>1, <1>2, <1>3, PTL DEF MCSpec

LEMMA ButtonsStay == MCSpec => []B!PressIsWhatWasListed
<1>1. MCInit => B!CheckedIsListed
  BY DEF MCInit, B!Init, B!NoPress, B!CheckedIsListed
<1>2. B!CheckedIsListed /\ [MCNext]_chatsVars => B!CheckedIsListed'
  <2>1. [MCNext]_chatsVars => [B!Next]_B!buttonVars
    BY DEF MCNext, chatsVars, buttonVars, B!buttonVars
  <2> QED BY <2>1, ButtonsListed
<1>3. B!CheckedIsListed => B!PressIsWhatWasListed
  BY DEF B!CheckedIsListed, B!PressIsWhatWasListed
<1> QED BY <1>1, <1>2, <1>3, PTL DEF MCSpec

LEMMA NamesStay == MCSpec => []N!CallsTellWhatTheyDid
<1>1. MCInit => N!Inv
  BY NamesInit DEF MCInit
<1>2. N!Inv /\ [MCNext]_chatsVars => N!Inv'
  <2>1. [MCNext]_chatsVars => [N!Next]_N!nameVars
    BY DEF MCNext, chatsVars, nameVars, N!nameVars
  <2> QED BY <2>1, NamesStep
<1>3. N!Inv => N!CallsTellWhatTheyDid
  BY DEF N!Inv
<1> QED BY <1>1, <1>2, <1>3, PTL DEF MCSpec

LEMMA EffectsStay == MCSpec => []E!AbsentWasAbsent
<1>1. MCInit => E!Inv
  BY EffectsInit DEF MCInit
<1>2. E!Inv /\ [MCNext]_chatsVars => E!Inv'
  <2>1. [MCNext]_chatsVars => [E!Next]_E!catalogVars
    BY DEF MCNext, chatsVars, catalogVars, E!catalogVars
  <2> QED BY <2>1, EffectsStep
<1>3. E!Inv => E!AbsentWasAbsent
  BY DEF E!Inv
<1> QED BY <1>1, <1>2, <1>3, PTL DEF MCSpec

LEMMA WarmsStay == MCSpec => [](L!WindowMeansWarmed /\ L!WarmIsShared)
<1>1. MCInit => L!Inv
  BY WarmInit DEF MCInit
<1>2. L!Inv /\ [MCNext]_chatsVars => L!Inv'
  <2>1. [MCNext]_chatsVars => [L!Next]_L!lookupVars
    BY DEF MCNext, chatsVars, lookupVars, L!lookupVars
  <2> QED BY <2>1, WarmStep
<1> QED BY <1>1, <1>2, WarmIsOne, PTL DEF MCSpec

LEMMA OpenedMediaStay == MCSpec => [](O!SavedFilesStay /\ O!TimersAreTold)
<1>1. MCInit => O!Inv /\ O!Timed
  BY OpenedInit, TimersBegin DEF MCInit
<1>2. O!Inv /\ O!Timed /\ [MCNext]_chatsVars => O!Inv' /\ O!Timed'
  <2>1. [MCNext]_chatsVars => [O!Next]_O!disappearingVars
    BY DEF MCNext, chatsVars, openedVars, O!disappearingVars
  <2> QED BY <2>1, OpenedStep, TimersStep
<1> QED BY <1>1, <1>2, OpenedStay, TimersAreKept, PTL DEF MCSpec

(* For any editors, callers, polls, lists, links and rights, whoever else  *)
(* edits meanwhile: a step changes nothing its caller did not name, of     *)
(* what the call had read: an edit of a queued message no other touched    *)
(* since, a folder not deleted since, a person's rules as they were read   *)
(* (edit_scheduled_message, add_chat_to_folder, close_poll,                *)
(* delete_quick_reply, edit_invite_link, edit_admin_rights,                *)
(* set_privacy_settings).                                                  *)
THEOREM OthersStayAlone == MCSpec => OthersAreLeftAlone
  BY QueueStays, FoldersStay, PollsStay, ListsStay, LinksStay, RightsStay, PTL DEF OthersAreLeftAlone

(* For any chats, callers, messages and bounds, what a reply tells is so,  *)
(* but for the one request whose answer was lost and which ends in an      *)
(* error: what was deleted and what was not, the name a channel got, every *)
(* chat that was made, a timer as it was sent, an effect Telegram did lack *)
(* (delete_messages_bulk, create_channel, invite_to_group,                 *)
(* send_disappearing_media, get_message_effect, warm_dialogs_once).        *)
THEOREM RepliesStayTrue == MCSpec => []RepliesAreTrue
<1>1. /\ D!DeletionIsToldAsItWas /\ N!CallsTellWhatTheyDid /\ M!EveryChatIsTold /\ O!TimersAreTold
      /\ E!AbsentWasAbsent /\ L!WindowMeansWarmed /\ L!WarmIsShared
      => RepliesAreTrue
  BY DEF RepliesAreTrue
<1> QED BY <1>1, DeletionsStay, NamesStay, LinksStay, OpenedMediaStay, EffectsStay, WarmsStay, PTL

(* And in the moment it answers: a poll's votes as read, a kept list, a    *)
(* chat and its links as they are (get_poll_results, install_sticker_set,  *)
(* create_invite_link), while one call at a time edits a kept list, and a  *)
(* poll that is created reaches Telegram within its margin.                *)
THEOREM RepliesTellWhatIs ==
  ASSUME PollLag <= PollMargin, ~ListOverlap
  PROVE  MCSpec => RepliesAreTrueThen
  BY PollsStayInTime, ListsAreTold, LinksStay, PTL DEF RepliesAreTrueThen

(* For any bounds, what happens is what the caller named, with the same    *)
(* margin for a poll and one call at a time for a kept list                *)
(* (delete_message, click_button, schedule_message, create_poll,           *)
(* add_chat_to_folder, add_sticker_to_set, save_disappearing_media).       *)
THEOREM TheNamedIsMeant ==
  ASSUME PollLag <= PollMargin, ~ListOverlap
  PROVE  MCSpec => []WhatIsNamedIsMeant
<1>1. /\ D!OnlyTheNamedGo /\ B!PressIsWhatWasListed /\ Q!QueueHoldsWholeMessages /\ Q!PostponedIsNotSent
      /\ V!DeadlinesAreAccepted /\ F!AddedChatsStay /\ K!StickersAreAddedOnce /\ O!SavedFilesStay
      => WhatIsNamedIsMeant
  BY DEF WhatIsNamedIsMeant
<1> QED BY <1>1, DeletionsStay, ButtonsStay, QueueStays, PollsStayInTime, FoldersStay, ListsAreTold, OpenedMediaStay,
           PTL
================================================================================

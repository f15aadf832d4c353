------------------------------- MODULE MCFiles -------------------------------
(* What is kept in files, or held on the way to one, each on its own: the  *)
(* feed file; the aliases, the sessions and the accounts; the directories  *)
(* a tool may write to and the files it saves there; who may read them;    *)
(* the bytes a call may decode and the pictures it may take.  A behaviour  *)
(* is one of them, chosen at the start.  Below are the invariants TLC      *)
(* checks, and then their proofs for every value of the constants.         *)
EXTENDS FeedFile, Sequences, FiniteSetTheorems, WellFoundedInduction, TLAPS

(* What the parts have constants for, under the names they have in their   *)
(* own modules where those tell them apart.                                *)
CONSTANTS
  Saver, NameAttempts, MaxFiles,
  Requester, Directory, CommandLine, OptIn, RootEdits, RootChanges,
  QrLogin, PanelKey, PanelViewer, PanelAccount, PanelChat, PanelEdits, VerdictAge, PanelTime,
  EnvTool, EnvLabel, EnvSession, NoSession, EnvKeep, EnvTime, EnvEdits, PerSecond, SnapshotEdits,
  OwnedFile, OwnedDir, MaxGrants,
  AliasProcess, AliasThread, ThreadProcess, AliasName, Contact, Sole, MaxWrites,
  PoolProcess, Slots, MaxStarts,
  PictureDoc, PictureTotal, PictureMost, PictureWidth, PictureCount,
  WinHandle, WinSizes, WinRegions, WinFirst, WinSide, WinPixels, WinBytes,
  WinDimension, WinNative, WinFrames, WinEncoded, WinMoves, NoWin,
  c1, c2, l1, s1, s2  \* for the definitions below and MCInit

VARIABLES
  part,
  host, folder, files, saving, between, lost,
  named, legible, rootEdits, exists, changes, leads, detours, binds, roots, last, request,
  panelNow, panelEdits, panelEnv, meant, login, shown, verdicts, checking, chats, own,
  env, backups, keys, open, time, edits, hurry, edit,
  kind, envRows, process, accepted, envStamp, digests, serving, reading, envEdits,
  above, list, protected, born, hardening, answer, grants,
  preview, item, worker, spooled, ledger, late,
  rows, stamp, readable, aside, lock, cache, aliasing,
  holder, claimed, pooled,
  legacy, managed, private, origin, pc, next, starts,
  win, winChanges, capture, stage, window, size, gdi, leaked, shot, payload, metas, taken, told

installVars  == <<host, folder, files, saving, between, lost>>
rootVars     == <<named, legible, rootEdits, exists, changes, leads, detours, binds, roots, last, request>>
panelVars    == <<panelNow, panelEdits, panelEnv, meant, login, shown, verdicts, checking, chats, own>>
accountVars  == <<env, backups, keys, open, time, edits, hurry, edit>>
snapshotVars == <<kind, envRows, process, accepted, envStamp, digests, serving, reading, envEdits>>
ownerVars    == <<above, list, protected, born, hardening, answer, grants>>
previewVars  == <<preview, item, worker, spooled, ledger, late>>
aliasVars    == <<rows, stamp, readable, aside, lock, cache, aliasing>>
poolVars     == <<holder, claimed, pooled>>
adoptionVars == <<legacy, managed, private, origin, pc, next, starts>>
captureVars  ==
  <<win, winChanges, capture, stage, window, size, gdi, leaked, shot, payload, metas, taken, told>>

(* Two threads, of two processes; the manager keeps one backup and the     *)
(* generator two.                                                          *)
TwoProcesses == [t \in {c1, c2} |-> t]
TwoKeeps == [t \in {"manager", "generator"} |-> IF t = "manager" THEN 1 ELSE 2]

(* A window that fits, one with too many pixels whose client area fits,    *)
(* and one that is too long.  One of two windows is small, and both are    *)
(* there.                                                                  *)
ThreeSizes == {<<1, 2>>, <<2, 2>>, <<1, 3>>}
TwoRegions == {<<1, 2>>, <<2, 9>>}
TwoWindows ==
  {w \in [{s1, s2} -> [shown : {TRUE}, size : ThreeSizes, minimized : {FALSE}]] : w[s2].size = <<1, 2>>}

(* The parts with settings of the code or of its world are taken in one of *)
(* them: a login pasted by nobody, tools used one at a time under a clock  *)
(* that never goes back, file times that tell writes apart.                *)
I == INSTANCE Install WITH Call <- Saver, Host <- {"openat", "pins"}
R == INSTANCE FileRoots WITH
       Request <- Requester, Dir <- Directory, MaxEdits <- RootEdits, MaxChanges <- RootChanges, edits <- rootEdits
W == INSTANCE WebPanel WITH
       Login <- QrLogin, Key <- PanelKey, Viewer <- PanelViewer, Account <- PanelAccount, Chat <- PanelChat,
       Typed <- {}, MaxEdits <- PanelEdits, MaxAge <- VerdictAge, MaxTime <- PanelTime,
       now <- panelNow, edits <- panelEdits, env <- panelEnv
F == INSTANCE AccountFile WITH
       Tool <- EnvTool, Label <- EnvLabel, Session <- EnvSession, Keep <- EnvKeep,
       MaxTime <- EnvTime, MaxEdits <- EnvEdits, Overlap <- FALSE, Backwards <- FALSE
S == INSTANCE AccountSnapshot WITH
       Label <- EnvLabel, Session <- EnvSession, MaxEdits <- SnapshotEdits,
       rows <- envRows, stamp <- envStamp, edits <- envEdits
O == INSTANCE OwnerOnly WITH File <- OwnedFile, Dir <- OwnedDir, call <- hardening
P == INSTANCE Preview WITH
       Doc <- PictureDoc, Total <- PictureTotal, Most <- PictureMost, Width <- PictureWidth, Count <- PictureCount,
       Unwinds <- TRUE, call <- preview
A == INSTANCE AliasStore WITH
       Process <- AliasProcess, Thread <- AliasThread, ProcessOf <- ThreadProcess, Alias <- AliasName,
       CoarseClock <- FALSE, call <- aliasing
Q == INSTANCE SessionPool WITH Process <- PoolProcess, serving <- pooled
N == INSTANCE SessionAdoption
C == INSTANCE Capture WITH
       Hwnd <- WinHandle, Sizes <- WinSizes, Regions <- WinRegions,
       MaxSide <- WinSide, MaxPixels <- WinPixels, MaxBytes <- WinBytes, MaxDimension <- WinDimension,
       MaxNative <- WinNative, MaxFrames <- WinFrames, MaxEncoded <- WinEncoded, MaxChanges <- WinMoves, None <- NoWin,
       changes <- winChanges, request <- capture, at <- stage, answer <- told

(* The last bound is of the world: two edits of the account file in one    *)
(* second are all a person at the tools can make.  With a third, a backup  *)
(* could take the name of one that was pruned in that second.              *)
ASSUME FilesAssumption ==
  /\ I!InstallAssumption /\ R!FileRootsAssumption /\ W!WebPanelAssumption
  /\ F!AccountFileAssumption /\ S!AccountSnapshotAssumption /\ O!OwnerOnlyAssumption
  /\ P!PreviewAssumption /\ A!AliasStoreAssumption /\ Q!SessionPoolAssumption /\ N!SessionAdoptionAssumption
  /\ C!CaptureAssumption
  /\ PerSecond \in 1..2

(* One row that was never scoped, and one contact.                         *)
OneRow == [A!NoRows EXCEPT ![<<A!Unscoped, l1>>] = 1]

(* A part that was not chosen rests in one of its initial states.          *)
MCInit ==
  /\ part \in {"feed", "saves", "roots", "panel", "accounts", "snapshot",
               "permissions", "previews", "aliases", "pool", "adoption", "captures"}
  /\ Init
  /\ I!Init /\ (part # "saves" => host = "openat")
  /\ R!Init /\ (part # "roots" => named = {} /\ exists = CommandLine /\ binds)
  /\ W!Init /\ (part # "panel" => chats = {})
  /\ F!Init
  /\ S!Init /\ (part # "snapshot" => kind = "whole" /\ process = S!Empty /\ envRows = [S!Empty EXCEPT ![l1] = s1])
  /\ O!Init /\ (part # "permissions" => above)
  /\ P!Init
  /\ A!Init /\ rows = OneRow
  /\ Q!Init
  /\ N!Init /\ (part # "adoption" => legacy = {} /\ managed = {})
  /\ C!Init /\ win \in WinFirst /\ (part # "captures" => win = CHOOSE w \in WinFirst : TRUE)

MCNext ==
  /\ UNCHANGED part
  /\ IF part = "feed"        THEN Next   ELSE UNCHANGED vars
  /\ IF part = "saves"       THEN I!Next ELSE UNCHANGED installVars
  /\ IF part = "roots"       THEN R!Next ELSE UNCHANGED rootVars
  /\ IF part = "panel"       THEN W!Next ELSE UNCHANGED panelVars
  /\ IF part = "accounts"    THEN F!Next ELSE UNCHANGED accountVars
  /\ IF part = "snapshot"    THEN S!Next ELSE UNCHANGED snapshotVars
  /\ IF part = "permissions" THEN O!Next ELSE UNCHANGED ownerVars
  /\ IF part = "previews"    THEN P!Next ELSE UNCHANGED previewVars
  /\ IF part = "aliases"     THEN A!Next ELSE UNCHANGED aliasVars
  /\ IF part = "pool"        THEN Q!Next ELSE UNCHANGED poolVars
  /\ IF part = "adoption"    THEN N!Next ELSE UNCHANGED adoptionVars
  /\ IF part = "captures"    THEN C!Next ELSE UNCHANGED captureVars

filesVars ==
  <<part, vars, installVars, rootVars, panelVars, accountVars, snapshotVars, ownerVars,
    previewVars, aliasVars, poolVars, adoptionVars, captureVars>>

MCSpec == MCInit /\ [][MCNext]_filesVars

----------------------------------------------------------------------------
(* No update of the aliases is lost: their file is the map that the calls  *)
(* would have left one after the other.                                    *)
ImplementsAliasMap == A!ImplementsAliasMap

(* A file somebody else put into the folder stays what it was, unless it   *)
(* came between a call's test of its name and the act that follows; and a  *)
(* call that is over leaves no placeholder of its own.                     *)
FilesKeepTheirOwners == I!StrangersKeepTheirFiles /\ I!NoPlaceholderOutlivesItsCall

(* Only the owner reads what is owner-only, no session is served by two    *)
(* processes, and none from files others can read.                         *)
PrivateStaysPrivate == O!PrivateStaysPrivate /\ Q!NoSessionIsShared /\ N!ServesPrivateFiles

(* What a request holds lies inside the roots of its last question, though *)
(* its path is redirected and put back while it is judged, opened and      *)
(* compared; one moment is left, before the path is resolved again.        *)
RedirectionsAreNoticed == R!RedirectionsAreNoticed

(* An account is served as the file has it, under the name it was put,     *)
(* with the file's last state kept; a fresh copy of the aliases is true.   *)
AccountsAreAsWritten ==
  S!SeenIsServed /\ W!SessionsStayWhereTheyWerePut /\ F!PreviousIsKept /\ A!FreshCopyIsTrue

(* No step takes away what nobody asked to remove: a login, the account of *)
(* a line that is still there, a list of chats, a root that works, a       *)
(* session's database, or the protection a file is born with.              *)
NothingIsTakenAway ==
  /\ F!LoginsStay /\ S!AccountsGoWithTheirLine
  /\ W!FirstEditKeepsTheList /\ R!RootsThatWorkStay
  /\ N!DatabaseIsNeverReplaced /\ O!BornPrivate

(* A call that looks at pictures, of documents or of a window, stays within *)
(* its bounds and gives back what it holds; no document takes another's    *)
(* share, and a frame that is returned is whole.                           *)
PicturesAreWhole ==
  /\ P!PreviewsAreBounded /\ P!NoDocumentIsStarved /\ P!NothingIsLeftBehind
  /\ C!CaptureIsBounded /\ C!FramesAreWhole
----------------------------------------------------------------------------
(* The feed, for any ceiling, age budget and clock: the bound on disk use is *)
(* inductive once it is known what a pass leaves, no pass drops a          *)
(* generation that was still being written within the budget, and none     *)
(* leaves a record past it without saying so.                              *)

LEMMA FeedNothing == Nothing \in File /\ Nothing.size = 0
BY FeedFileAssumption DEF Nothing, File

(* What a pass leaves: files of the types they had, and room for a record  *)
(* unless the append that follows is refused.                              *)
LEMMA FeedPass ==
  ASSUME TypeOK, DiskIsBounded, NEW p \in Passes
  PROVE  /\ p.active \in {active, Nothing} /\ p.rotated \in {active, rotated, Nothing}
         /\ p.active \in File /\ p.rotated \in File /\ p.error \in BOOLEAN
         /\ p.active.size <= MaxSize /\ p.rotated.size <= MaxSize
         /\ ~Refused(p) => p.active.size < MaxSize
<1>1. Nothing \in File /\ Nothing.size = 0
  BY FeedNothing
<1>2. \A f \in File : Expiry(f) \subseteq {f, Nothing}
  BY DEF Expiry
<1>3. /\ active \in File /\ rotated \in File /\ error \in BOOLEAN
      /\ active.size \in Nat /\ active.size <= MaxSize /\ rotated.size <= MaxSize
      /\ MaxSize \in Nat /\ 0 < MaxSize
  BY FeedFileAssumption DEF TypeOK, File, DiskIsBounded
<1>4. CASE p \in Kept /\ ~Due(active)
  <2>1. p.active = active /\ p.rotated \in {rotated, Nothing} /\ p.error = error
    BY <1>2, <1>3, <1>4 DEF Kept
  <2>2. active.size < MaxSize
    BY <1>3, <1>4, FeedFileAssumption DEF Due
  <2> QED BY <1>1, <1>3, <2>1, <2>2
<1>5. CASE p \in Stuck
  <2>1. p.active = active /\ p.rotated \in {rotated, Nothing} /\ p.error = TRUE
    BY <1>2, <1>3, <1>5 DEF Stuck
  <2>2. ~Refused(p) => active.size < MaxSize
    BY <1>3, <2>1 DEF Refused
  <2>3. p.error \in BOOLEAN
    BY <2>1
  <2> QED BY <1>1, <1>3, <2>1, <2>2, <2>3
<1>6. CASE p \in Moved
  <2>1. p.active = Nothing /\ p.rotated \in {active, Nothing} /\ p.error = FALSE
    BY <1>2, <1>3, <1>6 DEF Moved
  <2>2. p.error \in BOOLEAN
    BY <2>1
  <2> QED BY <1>1, <1>3, <2>1, <2>2
<1> QED BY <1>4, <1>5, <1>6 DEF Passes

LEMMA FeedWith ==
  ASSUME now \in 0..MaxTime, NEW f \in File, NEW whole \in BOOLEAN
  PROVE  /\ With(f, whole) \in File
         /\ With(f, whole).size = f.size + 1
<1>1. CASE f.size = 0
  BY <1>1 DEF With, File
<1>2. CASE f.size # 0
  <2>1. With(f, whole) = [oldest |-> f.oldest, newest |-> now, size |-> f.size + 1,
                          readable |-> f.readable]
    BY <1>2 DEF With, File
  <2> QED BY <2>1 DEF File
<1> QED BY <1>1, <1>2

LEMMA FeedInit == Init => Inv
<1>1. Init => error \in BOOLEAN
  BY DEF Init
<1> QED BY <1>1, FeedNothing, FeedFileAssumption DEF Init, Inv, TypeOK, DiskIsBounded

LEMMA FeedStep == Inv /\ [Next]_vars => Inv'
<1> SUFFICES ASSUME Inv, [Next]_vars PROVE Inv'
  OBVIOUS
<1> USE DEF Inv
<1>1. CASE AppendRecord
  <2>1. PICK p \in Passes :
          /\ rotated' = p.rotated /\ error' = p.error /\ now' = now
          /\ \/ active' = p.active
             \/ ~Refused(p) /\ \E whole \in BOOLEAN : active' = With(p.active, whole)
    BY <1>1 DEF AppendRecord
  <2>2. active' \in File /\ active'.size <= MaxSize
    <3>1. CASE active' = p.active
      BY <3>1, FeedPass
    <3>2. CASE ~Refused(p) /\ \E whole \in BOOLEAN : active' = With(p.active, whole)
      <4>1. p.active \in File /\ p.active.size < MaxSize /\ p.active.size \in Nat
        BY <3>2, FeedPass DEF File
      <4>2. active' \in File /\ active'.size = p.active.size + 1
        BY <3>2, <4>1, FeedWith DEF TypeOK
      <4> QED BY <4>1, <4>2, FeedFileAssumption
    <3> QED BY <2>1, <3>1, <3>2
  <2> QED BY <2>1, <2>2, FeedPass DEF TypeOK, DiskIsBounded
<1>2. CASE Maintain
  BY <1>2, FeedPass DEF Maintain, TypeOK, DiskIsBounded
<1>3. CASE Restart
  BY <1>3 DEF Restart, TypeOK, DiskIsBounded
<1>4. CASE Tick
  BY <1>4, FeedFileAssumption DEF Tick, TypeOK, DiskIsBounded
<1>5. CASE UNCHANGED vars
  BY <1>5 DEF vars, TypeOK, DiskIsBounded
<1> QED BY <1>1, <1>2, <1>3, <1>4, <1>5 DEF Next

LEMMA FeedStays == Spec => []Inv
BY FeedInit, FeedStep, PTL DEF Spec

----------------------------------------------------------------------------
(* The roots.  What a request opened is what it judged, or a path that     *)
(* leads elsewhere says so at the second look, unless it was put back.     *)
(* Any reply a client may give grants directories that there are.          *)
LEMMA RootsGranted ==
  ASSUME R!TypeOK, NEW reply \in R!Answer
  PROVE  R!Granted(reply) \subseteq Directory /\ R!Rebuilt \subseteq Directory
<1>1. exists \subseteq Directory /\ roots \subseteq Directory
  BY DEF R!TypeOK
<1>2. \A wanted : R!Existing(wanted) \subseteq Directory
  BY <1>1 DEF R!Existing
<1>3. R!Rebuilt \subseteq Directory
  BY <1>1, <1>2 DEF R!Rebuilt
<1> QED BY <1>2, <1>3 DEF R!Granted

LEMMA RootsRefreshed ==
  ASSUME R!TypeOK, R!Refresh
  PROVE  roots' \subseteq Directory /\ last' \subseteq Directory
<1>1. exists \subseteq Directory /\ roots \subseteq Directory /\ last \subseteq Directory /\ named \subseteq Directory
  BY DEF R!TypeOK
<1> QED BY <1>1 DEF R!Refresh, R!Rebuilt, R!Existing

LEMMA RootsRequestStep ==
  ASSUME R!Inv, NEW r \in Requester, NEW q \in R!Asking, R!IsJudged(q), request' = [request EXCEPT ![r] = q],
         UNCHANGED <<named, legible, rootEdits, exists, changes, leads, detours, binds>>,
         roots' \subseteq Directory, last' \subseteq Directory
  PROVE  R!Inv'
<1>1. request' \in [Requester -> R!Asking] /\ request'[r] = q /\ \A p \in Requester \ {r} : request'[p] = request[p]
  BY DEF R!Inv, R!TypeOK
<1>2. R!TypeOK'
  BY <1>1 DEF R!Inv, R!TypeOK
<1>3. R!WaysEnd'
  BY DEF R!Inv, R!WaysEnd
<1>4. R!HandlesAreJudged'
  BY <1>1 DEF R!Inv, R!HandlesAreJudged, R!IsJudged
<1> QED BY <1>2, <1>3, <1>4 DEF R!Inv

LEMMA RootsWorldStep ==
  ASSUME R!Inv,
         \/ \E value \in SUBSET Directory, parses \in BOOLEAN : R!EditFile(value, parses)
         \/ \E dir \in Directory : R!MakeOrRemove(dir)
         \/ \E dir, other \in Directory, higher \in BOOLEAN : R!Redirect(dir, other, higher)
  PROVE  R!Inv'
<1>1. ASSUME NEW value \in SUBSET Directory, NEW parses \in BOOLEAN, R!EditFile(value, parses) PROVE R!Inv'
  BY <1>1, FilesAssumption
     DEF R!EditFile, R!FileRootsAssumption, R!Inv, R!TypeOK, R!WaysEnd, R!HandlesAreJudged, R!IsJudged
<1>2. ASSUME NEW dir \in Directory, R!MakeOrRemove(dir) PROVE R!Inv'
  BY <1>2, FilesAssumption
     DEF R!MakeOrRemove, R!FileRootsAssumption, R!Inv, R!TypeOK, R!WaysEnd, R!HandlesAreJudged, R!IsJudged
<1>3. ASSUME NEW dir \in Directory, NEW other \in Directory, NEW higher \in BOOLEAN, R!Redirect(dir, other, higher)
      PROVE  R!Inv'
  <2>1. /\ leads' = [leads EXCEPT ![dir] = other] /\ leads[other] = other /\ request' = request /\ binds' = binds
        /\ \A third \in Directory \ {dir} : leads[third] # dir
    BY <1>3 DEF R!Redirect
  <2>2. R!WaysEnd' /\ leads' \in [Directory -> Directory]
    BY <2>1 DEF R!Inv, R!TypeOK, R!WaysEnd
  <2>3. dir # other
    BY <1>3, <2>1 DEF R!Redirect
  <2>4. R!HandlesAreJudged'
    BY <2>1, <2>3 DEF R!Inv, R!TypeOK, R!HandlesAreJudged, R!IsJudged
  <2>5. R!TypeOK'
    BY <1>3, <2>2, FilesAssumption DEF R!Redirect, R!FileRootsAssumption, R!Inv, R!TypeOK
  <2> QED BY <2>2, <2>4, <2>5 DEF R!Inv
<1> QED BY <1>1, <1>2, <1>3

(* A path that is put back hides from the second look what was opened by   *)
(* it; the request that looks then is marked.                              *)
LEMMA RootsPutBackStep ==
  ASSUME R!Inv, NEW dir \in Directory, R!PutBack(dir)
  PROVE  R!Inv'
<1> DEFINE marked(p) == IF request[p].pc = "resolving" /\ request[p].resolved = dir
                        THEN [request[p] EXCEPT !.late = TRUE] ELSE request[p]
<1>1. /\ leads' = [leads EXCEPT ![dir] = dir] /\ binds' = binds
      /\ request' = [p \in Requester |-> marked(p)]
  BY DEF R!PutBack
<1>2. R!WaysEnd' /\ leads' \in [Directory -> Directory]
  BY <1>1 DEF R!Inv, R!TypeOK, R!WaysEnd
<1>3. ASSUME NEW p \in Requester
      PROVE  /\ marked(p) \in R!Asking /\ marked(p).pc = request[p].pc /\ marked(p).resolved = request[p].resolved
             /\ marked(p).held = request[p].held /\ marked(p).granted = request[p].granted
             /\ marked(p).path = request[p].path
             /\ (request[p].pc = "resolving" /\ request[p].resolved = dir => marked(p).late)
             /\ (~(request[p].pc = "resolving" /\ request[p].resolved = dir) => marked(p) = request[p])
  <2>1. request[p] \in R!Asking
    BY DEF R!Inv, R!TypeOK
  <2> QED BY <2>1 DEF R!Asking
<1> HIDE DEF marked
<1>6. request' \in [Requester -> R!Asking]
  BY <1>1, <1>3
<1>4. R!TypeOK'
  BY <1>2, <1>6, FilesAssumption DEF R!PutBack, R!FileRootsAssumption, R!Inv, R!TypeOK
<1>5. R!HandlesAreJudged'
  <2> SUFFICES ASSUME NEW p \in Requester PROVE R!IsJudged(request[p])'
    BY DEF R!HandlesAreJudged
  <2>1. request'[p] = marked(p) /\ R!IsJudged(request[p])
    BY <1>1 DEF R!Inv, R!HandlesAreJudged
  <2> QED BY <1>1, <1>3, <2>1 DEF R!IsJudged, R!Inv, R!TypeOK
<1> QED BY <1>2, <1>4, <1>5 DEF R!Inv

LEMMA RootsStep ==
  ASSUME R!Inv, [R!Next]_R!rootVars
  PROVE  R!Inv'
<1> USE DEF R!IsJudged
<1>0. R!Idle \in R!Asking /\ R!Idle.pc = "idle" /\ R!TypeOK
      /\ \A r \in Requester : request[r] \in R!Asking /\ R!IsJudged(request[r])
  BY DEF R!Idle, R!Asking, R!Inv, R!TypeOK, R!HandlesAreJudged
<1>1. roots \subseteq Directory /\ last \subseteq Directory /\ exists \subseteq Directory /\ leads \in [Directory -> Directory]
  BY DEF R!Inv, R!TypeOK
<1>2. ASSUME NEW r \in Requester, request' = [request EXCEPT ![r] = R!Idle], R!World' = R!World,
             roots' \subseteq Directory, last' \subseteq Directory
      PROVE  R!Inv'
  BY <1>0, <1>2, RootsRequestStep DEF R!World
<1>3. ASSUME UNCHANGED <<request, R!World>>, roots' \subseteq Directory, last' \subseteq Directory
      PROVE  R!Inv'
  BY <1>3 DEF R!World, R!Inv, R!TypeOK, R!WaysEnd, R!HandlesAreJudged
<1>5. ASSUME NEW r \in Requester, NEW path \in Directory, NEW reply \in R!Answer, R!Ask(r, path, reply) PROVE R!Inv'
  <2> DEFINE q == [request[r] EXCEPT !.pc = "named", !.path = path, !.granted = R!Granted(reply)]
  <2>1. q \in R!Asking /\ q.pc = "named" /\ q.path \in Directory
    BY <1>0, RootsGranted DEF R!Asking
  <2>2. request' = request \/ request' = [request EXCEPT ![r] = q]
    BY <1>0, <1>5 DEF R!Ask
  <2>3. R!World' = R!World /\ roots' \subseteq Directory /\ last' \subseteq Directory
    BY <1>0, <1>5, RootsRefreshed DEF R!Ask
  <2> HIDE DEF q
  <2> QED BY <1>3, <2>1, <2>2, <2>3, RootsRequestStep DEF R!World
<1>6. ASSUME NEW r \in Requester, NEW reply \in R!Answer, R!AskAgain(r, reply) PROVE R!Inv'
  <2> DEFINE q == [request[r] EXCEPT !.pc = "judging", !.granted = R!Granted(reply)]
  <2>1. q \in R!Asking /\ q.pc = "judging" /\ q.path \in Directory
    BY <1>0, <1>6, RootsGranted DEF R!Asking, R!AskAgain
  <2>2. request' = [request EXCEPT ![r] = R!Idle] \/ request' = [request EXCEPT ![r] = q]
    BY <1>0, <1>6 DEF R!AskAgain, R!Refuse
  <2>3. R!World' = R!World /\ roots' \subseteq Directory /\ last' \subseteq Directory
    BY <1>0, <1>6, RootsRefreshed DEF R!AskAgain
  <2> HIDE DEF q
  <2> QED BY <1>2, <2>1, <2>2, <2>3, RootsRequestStep DEF R!World
<1>7. ASSUME NEW r \in Requester, R!Resolve(r) PROVE R!Inv'
  <2> DEFINE q == [request[r] EXCEPT !.pc = "resolved", !.path = leads[request[r].path]]
  <2>1. request' = [request EXCEPT ![r] = R!Idle] \/ (request' = [request EXCEPT ![r] = q] /\ leads[request[r].path] \in Directory)
    BY <1>0, <1>1, <1>7 DEF R!Resolve, R!Refuse
  <2>2. q.pc = "resolved" /\ (leads[request[r].path] \in Directory => q \in R!Asking /\ q.path \in Directory)
    BY <1>0 DEF R!Asking
  <2>3. R!World' = R!World /\ roots' \subseteq Directory /\ last' \subseteq Directory
    BY <1>1, <1>7 DEF R!Resolve
  <2> HIDE DEF q
  <2> QED BY <1>2, <2>1, <2>2, <2>3, RootsRequestStep DEF R!World
<1>8. ASSUME NEW r \in Requester, R!Judge(r) PROVE R!Inv'
  <2> DEFINE real == leads[request[r].path]
             q == [request[r] EXCEPT !.pc = "opening", !.resolved = real]
  <2>0. request[r].granted \subseteq Directory
    BY <1>0 DEF R!Asking
  <2>1. request' = [request EXCEPT ![r] = R!Idle] \/ (request' = [request EXCEPT ![r] = q] /\ real \in request[r].granted)
    BY <1>0, <1>8 DEF R!Judge, R!Refuse, R!Within
  <2>2. real \in request[r].granted =>
          /\ q \in R!Asking /\ q.pc = "opening" /\ q.resolved \in q.granted /\ q.resolved \in Directory
          /\ q.path \in Directory
    BY <1>0, <1>8, <2>0 DEF R!Asking, R!Judge
  <2>3. R!World' = R!World /\ roots' \subseteq Directory /\ last' \subseteq Directory
    BY <1>1, <1>8 DEF R!Judge
  <2> HIDE DEF q
  <2> QED BY <1>2, <2>1, <2>2, <2>3, RootsRequestStep DEF R!World
<1>9. ASSUME NEW r \in Requester, R!OpenDirectory(r) PROVE R!Inv'
  <2>0. request[r].pc = "opening" /\ R!World' = R!World /\ roots' \subseteq Directory /\ last' \subseteq Directory
    BY <1>1, <1>9 DEF R!OpenDirectory
  <2>1. CASE request' = [request EXCEPT ![r] = R!Idle]
    BY <1>2, <2>0, <2>1
  <2>2. ASSUME NEW dir \in R!Found(request[r].resolved), NEW place \in {"comparing", "resolving"},
               place = (IF binds THEN "comparing" ELSE "resolving"),
               request' = [request EXCEPT ![r].held = dir, ![r].pc = place]
        PROVE  R!Inv'
    <3> DEFINE q == [request[r] EXCEPT !.held = dir, !.pc = place]
    <3>1. /\ request[r].resolved \in request[r].granted /\ request[r].resolved \in Directory
          /\ dir = leads[request[r].resolved] /\ dir \in Directory
      BY <1>0, <1>1, <2>0, <2>2 DEF R!Found
    <3>2. /\ q \in R!Asking /\ q.pc = place /\ q.held = dir /\ q.resolved = request[r].resolved
          /\ q.granted = request[r].granted /\ q.path \in Directory
      BY <1>0, <2>0, <2>2, <3>1 DEF R!Asking
    <3>3. request' = [request EXCEPT ![r] = q]
      BY <1>0, <2>2 DEF R!Inv, R!TypeOK
    <3> HIDE DEF q
    <3>4. R!IsJudged(q)
      BY <2>2, <3>1, <3>2
    <3> QED BY <2>0, <3>2, <3>3, <3>4, RootsRequestStep DEF R!World
  <2> QED BY <1>9, <2>1, <2>2 DEF R!OpenDirectory, R!Refuse
<1>10. ASSUME NEW r \in Requester, R!Compare(r) PROVE R!Inv'
  <2> DEFINE place == IF binds THEN "resolving" ELSE "holding"
             q == [request[r] EXCEPT !.pc = place]
  <2>0. request[r].pc = "comparing" /\ R!World' = R!World /\ roots' \subseteq Directory /\ last' \subseteq Directory
    BY <1>1, <1>10 DEF R!Compare
  <2>1. request' = [request EXCEPT ![r] = R!Idle] \/ (request' = [request EXCEPT ![r] = q] /\ R!SameObject(r))
    BY <1>0, <1>10 DEF R!Compare, R!Refuse, R!Inv, R!TypeOK
  <2>2. R!SameObject(r) => request[r].held = leads[request[r].resolved]
    BY DEF R!SameObject, R!Found
  <2>3. /\ q \in R!Asking /\ q.pc = place /\ q.held = request[r].held /\ q.resolved = request[r].resolved
        /\ q.granted = request[r].granted /\ q.late = request[r].late /\ q.path \in Directory /\ place \in {"resolving", "holding"}
    BY <1>0, <2>0 DEF R!Asking
  <2>4. (binds => place = "resolving") /\ (~binds => place = "holding")
    OBVIOUS
  <2> HIDE DEF q, place
  <2>5. R!SameObject(r) => R!IsJudged(q)
    BY <1>0, <2>0, <2>2, <2>3, <2>4
  <2> QED BY <1>2, <2>0, <2>1, <2>3, <2>5, RootsRequestStep DEF R!World
<1>11. ASSUME NEW r \in Requester, R!ResolveAgain(r) PROVE R!Inv'
  <2> DEFINE place == IF binds THEN "holding" ELSE "comparing"
             q == [request[r] EXCEPT !.pc = place]
  <2>0. request[r].pc = "resolving" /\ R!World' = R!World /\ roots' \subseteq Directory /\ last' \subseteq Directory
    BY <1>1, <1>11 DEF R!ResolveAgain
  <2>1. request' = [request EXCEPT ![r] = R!Idle] \/ (request' = [request EXCEPT ![r] = q] /\ R!StillInside(r))
    BY <1>0, <1>11 DEF R!ResolveAgain, R!Refuse, R!Inv, R!TypeOK
  <2>2. R!StillInside(r) => leads[request[r].resolved] = request[r].resolved
    <3>1. request[r].path \in Directory => leads[leads[request[r].path]] = leads[request[r].path]
      BY DEF R!Inv, R!WaysEnd
    <3>2. R!StillInside(r) => leads[request[r].path] = request[r].resolved
      BY DEF R!StillInside
    <3>3. request[r].path \in Directory
      BY <1>0, <2>0 DEF R!Inv
    <3> QED BY <3>1, <3>2, <3>3
  <2>3. /\ q \in R!Asking /\ q.pc = place /\ q.held = request[r].held /\ q.resolved = request[r].resolved
        /\ q.granted = request[r].granted /\ q.late = request[r].late /\ q.path \in Directory /\ place \in {"comparing", "holding"}
    BY <1>0, <2>0 DEF R!Asking
  <2> HIDE DEF q, place
  <2>5. R!StillInside(r) => R!IsJudged(q)
    BY <1>0, <2>0, <2>2, <2>3
  <2> QED BY <1>2, <2>0, <2>1, <2>3, <2>5, RootsRequestStep DEF R!World
<1>12. ASSUME NEW r \in Requester, R!Close(r) PROVE R!Inv'
  BY <1>1, <1>2, <1>12 DEF R!Close, R!Refuse
<1>13. CASE UNCHANGED R!rootVars
  BY <1>1, <1>3, <1>13 DEF R!rootVars, R!World
<1> QED BY RootsWorldStep, RootsPutBackStep, <1>5, <1>6, <1>7, <1>8, <1>9, <1>10, <1>11, <1>12, <1>13 DEF R!Next

LEMMA RootsInit == R!Init => R!Inv
BY FilesAssumption DEF R!FileRootsAssumption, R!Init, R!Inv, R!TypeOK, R!WaysEnd, R!HandlesAreJudged, R!IsJudged, R!Idle, R!Asking

(* No reading of the file loses a root that it still names and that is     *)
(* there (refresh_server_roots).                                           *)
LEMMA RootsKept ==
  ASSUME [R!Next]_R!rootVars, NEW dir \in roots \ roots'
  PROVE  dir \notin exists \/ dir \notin CommandLine \cup named
<1>1. R!Refresh
  BY DEF R!Next, R!rootVars, R!World, R!EditFile, R!MakeOrRemove, R!Redirect, R!PutBack, R!Ask, R!AskAgain, R!Resolve,
         R!Judge, R!OpenDirectory, R!Compare, R!ResolveAgain, R!Close
<1> QED BY <1>1 DEF R!Refresh, R!Rebuilt, R!Existing

----------------------------------------------------------------------------
(* The files a tool saves.  A placeholder belongs to one call, which holds *)
(* its name or is about to.                                                *)
LEMMA SavesObjects ==
  /\ \A c \in Saver : /\ I!Placeholder(c) \in I!Object /\ I!Media(c) \in I!Object
                      /\ I!Placeholder(c) # I!Nothing /\ I!Owners(I!Placeholder(c)) = {} /\ I!Owners(I!Nothing) = {}
  /\ \A c, d \in Saver : I!Placeholder(c) # I!Media(d) /\ (I!Placeholder(c) = I!Placeholder(d) => c = d)
  /\ \A n \in 1..MaxFiles : I!File(n) \in I!Object /\ \A c \in Saver : I!File(n) # I!Placeholder(c)
BY FilesAssumption DEF I!InstallAssumption, I!Object, I!Placeholder, I!Media, I!File, I!Nothing, I!Owners, I!None

LEMMA SavesInit == I!Init => I!Inv
<1> SUFFICES ASSUME I!Init PROVE I!Inv
  OBVIOUS
<1>1. \A c \in Saver : saving[c] = I!Asked
  BY DEF I!Init
<1>2. I!Asked \in I!Saving /\ I!Asked.pc = "asked"
  BY FilesAssumption DEF I!InstallAssumption, I!Asked, I!Saving, I!None, I!Nothing
<1>3. I!TypeOK
  BY <1>2, FilesAssumption DEF I!InstallAssumption, I!Init, I!TypeOK
<1>4. I!OneWorks /\ \A c \in Saver : I!HoldsItsOwn(c)
  BY <1>1, <1>2 DEF I!OneWorks, I!HoldsItsOwn, I!Tested, I!Working, I!Holding
<1>5. I!PlaceholdersAreHeld
  BY SavesObjects DEF I!Init, I!PlaceholdersAreHeld
<1> QED BY <1>3, <1>4, <1>5 DEF I!Inv, I!Init

(* A step of one call that changes entries only while it is at work leaves *)
(* the invariant, if what it holds then is its own.                        *)
LEMMA SavesRecordStep ==
  ASSUME I!Inv, NEW c \in Saver, NEW record \in I!Saving, I!Becomes(c, record),
         UNCHANGED <<host, files, between>>, lost' \subseteq between,
         folder' \in [I!Name -> I!Object \cup {I!Nothing}],
         record.pc \in I!Working => saving[c].pc \in I!Working \/ \A d \in Saver : saving[d].pc \in I!Idle,
         \A name \in I!Name : \/ folder'[name] = folder[name]
                              \/ saving[c].pc \in I!Working /\ folder'[name] \in {I!Nothing, I!Media(c), I!Placeholder(c)},
         \A name \in I!Name : folder'[name] = I!Placeholder(c) =>
           record.pc \in I!Holding /\ record.name = name /\ record.made = I!Placeholder(c),
         I!HoldsItsOwn(c)'
  PROVE  I!Inv'
<1>1. I!TypeOK /\ saving'[c] = record /\ \A d \in Saver \ {c} : saving'[d] = saving[d]
  BY DEF I!Inv, I!TypeOK, I!Becomes
<1>2. I!TypeOK'
  <2>1. between \subseteq I!Object /\ between' = between
    BY DEF I!Inv, I!TypeOK
  <2> QED BY <1>1, <2>1 DEF I!TypeOK, I!Becomes
<1>3. \A d \in Saver : saving[d].pc \in I!Idle => saving[d].pc \notin I!Working
  BY DEF I!Idle, I!Working
<1>4. I!OneWorks'
  BY <1>1, <1>3 DEF I!Inv, I!OneWorks
<1>5. ASSUME NEW d \in Saver \ {c} PROVE I!HoldsItsOwn(d)'
  <2>1. saving'[d] = saving[d] /\ I!HoldsItsOwn(d)
    BY <1>1 DEF I!Inv
  <2>2. CASE saving[d].pc \in I!Working
    <3>1. saving[c].pc \notin I!Working
      BY <2>2 DEF I!Inv, I!OneWorks
    <3>2. folder' = folder
      BY <1>1, <3>1 DEF I!TypeOK
    <3> QED BY <2>1, <3>2 DEF I!HoldsItsOwn, I!Tested
  <2>3. CASE saving[d].pc \notin I!Working
    BY <2>1, <2>3 DEF I!HoldsItsOwn, I!Tested, I!Working, I!Holding
  <2> QED BY <2>2, <2>3
<1>6. I!PlaceholdersAreHeld'
  <2> SUFFICES ASSUME NEW d \in Saver, NEW name \in I!Name, folder'[name] = I!Placeholder(d)
               PROVE  saving'[d].pc \in I!Holding /\ saving'[d].name = name /\ saving'[d].made = I!Placeholder(d)
    BY DEF I!PlaceholdersAreHeld
  <2>1. CASE d = c
    BY <1>1, <2>1
  <2>2. CASE d # c
    BY <1>1, <2>2, SavesObjects DEF I!Inv, I!PlaceholdersAreHeld
  <2> QED BY <2>1, <2>2
<1> QED BY <1>2, <1>4, <1>5, <1>6 DEF I!Inv

LEMMA SavesOwnerStep ==
  ASSUME I!Inv, NEW name \in I!Name, I!PutFile(name) \/ I!TakeEntry(name)
  PROVE  I!Inv'
<1>1. UNCHANGED <<host, saving, lost>> /\ between \subseteq between'
  BY DEF I!PutFile, I!TakeEntry
<1>2. /\ folder' \in [I!Name -> I!Object \cup {I!Nothing}] /\ files' \in 0..MaxFiles
      /\ folder'[name] \in {I!Nothing} \cup {I!File(n) : n \in 1..MaxFiles}
      /\ \A other \in I!Name \ {name} : folder'[other] = folder[other]
  <2>1. files \in 0..MaxFiles /\ MaxFiles \in Nat /\ folder \in [I!Name -> I!Object \cup {I!Nothing}]
    BY FilesAssumption DEF I!InstallAssumption, I!Inv, I!TypeOK
  <2>2. CASE I!PutFile(name)
    <3>1. files + 1 \in 1..MaxFiles /\ files' = files + 1 /\ folder' = [folder EXCEPT ![name] = I!File(files + 1)]
      BY <2>1, <2>2 DEF I!PutFile
    <3>2. I!File(files + 1) \in I!Object
      BY <3>1, SavesObjects
    <3> HIDE DEF I!Name, I!Object, I!File
    <3> QED BY <2>1, <3>1, <3>2
  <2>3. CASE I!TakeEntry(name)
    BY <2>1, <2>3 DEF I!TakeEntry
  <2> QED BY <2>2, <2>3
<1>6. between' \subseteq I!Object
  <2>1. between \subseteq I!Object /\ files \in 0..MaxFiles /\ MaxFiles \in Nat
    BY FilesAssumption DEF I!InstallAssumption, I!Inv, I!TypeOK
  <2>2. CASE I!PutFile(name)
    <3>1. files + 1 \in 1..MaxFiles /\ between' \subseteq between \cup {I!File(files + 1)}
      BY <2>1, <2>2 DEF I!PutFile
    <3>2. I!File(files + 1) \in I!Object
      BY <3>1, SavesObjects
    <3> QED BY <2>1, <3>1, <3>2
  <2>3. CASE I!TakeEntry(name)
    BY <2>1, <2>3 DEF I!TakeEntry
  <2> QED BY <2>2, <2>3
<1>3. I!TypeOK'
  BY <1>1, <1>2, <1>6 DEF I!Inv, I!TypeOK
<1>4. I!OneWorks'
  BY <1>1 DEF I!Inv, I!OneWorks
<1>7. ASSUME NEW c \in Saver PROVE I!HoldsItsOwn(c)'
  <2>1. I!HoldsItsOwn(c) /\ saving' = saving /\ host' = host
    BY <1>1 DEF I!Inv
  <2>2. I!Tested(c) => I!Owners(folder'[saving[c].name]) \subseteq between'
    <3> SUFFICES ASSUME I!Tested(c) PROVE I!Owners(folder'[saving[c].name]) \subseteq between'
      OBVIOUS
    <3>1. saving[c].name \in I!Name
      BY <2>1 DEF I!HoldsItsOwn, I!Tested, I!Holding, I!Working
    <3>2. CASE saving[c].name # name
      BY <1>1, <1>2, <2>1, <3>1, <3>2 DEF I!HoldsItsOwn
    <3>3. CASE saving[c].name = name /\ I!PutFile(name)
      <4>1. folder'[name] = I!File(files + 1) /\ between' = between \cup {I!File(files + 1)}
        BY <3>1, <3>3 DEF I!PutFile, I!Inv, I!TypeOK
      <4>2. I!Owners(I!File(files + 1)) \subseteq {I!File(files + 1)}
        BY DEF I!Owners
      <4> QED BY <3>3, <4>1, <4>2
    <3>4. CASE saving[c].name = name /\ I!TakeEntry(name)
      <4>1. folder'[name] = I!Nothing
        BY <3>1, <3>4 DEF I!TakeEntry, I!Inv, I!TypeOK
      <4> QED BY <3>4, <4>1, SavesObjects
    <3> QED BY <3>2, <3>3, <3>4
  <2> QED BY <2>1, <2>2 DEF I!HoldsItsOwn, I!Tested
<1>5. I!PlaceholdersAreHeld'
  BY <1>1, <1>2, SavesObjects DEF I!Inv, I!PlaceholdersAreHeld
<1> QED BY <1>1, <1>3, <1>4, <1>5, <1>7 DEF I!Inv

(* The steps that leave the folder as it is.                               *)
LEMMA SavesQuietStep ==
  ASSUME I!Inv, NEW c \in Saver,
         \/ \E op \in {"download", "disappearing"} : I!Open(c, op)
         \/ I!Fetch(c) \/ I!Verify(c) \/ I!FlushFails(c) \/ I!Clean(c)
  PROVE  I!Inv'
<1>0. /\ saving[c] \in I!Saving /\ saving[c].staged \in I!Object \cup {I!Nothing}
      /\ folder \in [I!Name -> I!Object \cup {I!Nothing}] /\ I!Media(c) \in I!Object
  BY SavesObjects DEF I!Inv, I!TypeOK, I!Saving
<1>1. PICK record \in I!Saving :
        /\ I!Quiet(c, record)
        /\ record.name = saving[c].name /\ record.made = saving[c].made
        /\ \/ /\ record.pc \in {"fetching", "cleaning", "done"}
              /\ saving[c].pc \in I!Idle \cup {"cleaning"}
           \/ record.pc = "verifying" /\ record.staged = I!Media(c) /\ saving[c].pc \in I!Idle
           \/ /\ record.pc = "reserving" /\ record.staged = saving[c].staged /\ saving[c].pc = "verifying"
              /\ \A other \in Saver : saving[other].pc \in I!Idle
           \/ record.pc = "discarding" /\ record.staged = saving[c].staged /\ saving[c].pc = "installing"
  <2>1. ASSUME NEW op \in {"download", "disappearing"}, I!Open(c, op)
        PROVE  \E record \in I!Saving : record = [saving[c] EXCEPT !.op = op, !.pc = "fetching"] /\ I!Quiet(c, record)
    BY <1>0, <2>1 DEF I!Open, I!Saving
  <2>2. ASSUME NEW place \in {"reserving", "discarding"}, I!Goes(c, place)
        PROVE  \E record \in I!Saving : record = [saving[c] EXCEPT !.pc = place] /\ I!Quiet(c, record)
    BY <1>0, <2>2 DEF I!Goes, I!Saving
  <2>3. ASSUME I!Fails(c)
        PROVE  \E record \in I!Saving : record = I!Failed(c) /\ I!Quiet(c, record)
    BY <1>0, <2>3 DEF I!Fails, I!Failed, I!Saving
  <2>4. ASSUME I!Quiet(c, [saving[c] EXCEPT !.pc = "verifying", !.staged = I!Media(c)])
        PROVE  \E record \in I!Saving :
                 record = [saving[c] EXCEPT !.pc = "verifying", !.staged = I!Media(c)] /\ I!Quiet(c, record)
    BY <1>0, <2>4 DEF I!Saving
  <2>5. ASSUME I!Clean(c)
        PROVE  \E record \in I!Saving :
                 record = [saving[c] EXCEPT !.pc = "done", !.staged = I!Nothing] /\ I!Quiet(c, record)
    BY <1>0, <2>5 DEF I!Clean, I!Saving
  <2> USE DEF I!Idle
  <2>6. CASE \E op \in {"download", "disappearing"} : I!Open(c, op)
    BY <1>0, <2>1, <2>6 DEF I!Saving, I!Open
  <2>7. CASE I!Fetch(c)
    BY <1>0, <2>3, <2>4, <2>7 DEF I!Saving, I!Fetch, I!Failed
  <2>8. CASE I!Verify(c)
    BY <1>0, <2>2, <2>3, <2>8 DEF I!Saving, I!Verify, I!Failed
  <2>9. CASE I!FlushFails(c)
    BY <1>0, <2>2, <2>9 DEF I!Saving, I!FlushFails
  <2>10. CASE I!Clean(c)
    BY <1>0, <2>5, <2>10 DEF I!Saving, I!Clean
  <2> QED BY <2>6, <2>7, <2>8, <2>9, <2>10
<1>2. I!HoldsItsOwn(c)
  BY DEF I!Inv
<1>3. saving'[c] = record /\ folder' = folder /\ host' = host /\ between' = between /\ lost' \subseteq between
  BY <1>1 DEF I!Quiet, I!Becomes, I!Inv, I!TypeOK
<1>7. saving[c].pc = "installing" => saving[c].made = I!Placeholder(c) /\ saving[c].made # I!Nothing
  BY <1>2, SavesObjects DEF I!HoldsItsOwn
<1>4. I!HoldsItsOwn(c)'
  BY <1>1, <1>2, <1>3, <1>7 DEF I!HoldsItsOwn, I!Tested, I!Holding, I!Working
<1>5. \A name \in I!Name : folder[name] = I!Placeholder(c) =>
        record.pc \in I!Holding /\ record.name = name /\ record.made = I!Placeholder(c)
  BY <1>1 DEF I!Inv, I!PlaceholdersAreHeld, I!Holding, I!Working, I!Idle
<1>6. record.pc \in I!Working => saving[c].pc \in I!Working \/ \A d \in Saver : saving[d].pc \in I!Idle
  BY <1>1 DEF I!Working
<1> QED BY <1>0, <1>1, <1>3, <1>4, <1>5, <1>6, SavesRecordStep DEF I!Quiet

(* Fails of a call at work: nothing is left under a name.                  *)
LEMMA SavesFailStep ==
  ASSUME I!Inv, NEW c \in Saver, I!Fails(c), saving[c].pc \in I!Working,
         \A name \in I!Name : folder[name] # I!Placeholder(c)
  PROVE  I!Inv'
<1>0. saving[c] \in I!Saving /\ folder \in [I!Name -> I!Object \cup {I!Nothing}]
  BY DEF I!Inv, I!TypeOK
<1>1. I!Failed(c) \in I!Saving /\ I!Failed(c).pc = "cleaning"
  BY <1>0 DEF I!Failed, I!Saving
<1>2. saving'[c] = I!Failed(c) /\ I!Becomes(c, I!Failed(c)) /\ UNCHANGED <<host, folder, files, between, lost>>
      /\ lost \subseteq between
  BY DEF I!Fails, I!Quiet, I!Becomes, I!Inv, I!TypeOK
<1>3. I!HoldsItsOwn(c)'
  BY <1>1, <1>2 DEF I!HoldsItsOwn, I!Tested, I!Working, I!Holding
<1> QED BY <1>0, <1>1, <1>2, <1>3, SavesRecordStep

(* Going on from one step of an operation to the next, with the folder as  *)
(* it is: what the call may do next, it has tested.                        *)
LEMMA SavesGoStep ==
  ASSUME I!Inv, NEW c \in Saver, NEW place \in {"discarding", "moving", "removing"}, I!Goes(c, place),
         saving[c].pc \in I!Holding,
         place = "discarding" => saving[c].made \in {I!Placeholder(c), I!Nothing},
         place # "discarding" => saving[c].made = I!Placeholder(c),
         place = "moving" => host = "openat",
         place # "discarding" \/ saving[c].made = I!Nothing => I!Owners(folder[saving[c].name]) \subseteq between
  PROVE  I!Inv'
<1>0. saving[c] \in I!Saving /\ folder \in [I!Name -> I!Object \cup {I!Nothing}]
  BY DEF I!Inv, I!TypeOK
<1> DEFINE record == [saving[c] EXCEPT !.pc = place]
<1>1. /\ record \in I!Saving /\ record.pc = place /\ record.name = saving[c].name
      /\ record.staged = saving[c].staged /\ record.made = saving[c].made
  BY <1>0 DEF I!Saving
<1>2. saving'[c] = record /\ I!Becomes(c, record) /\ UNCHANGED <<host, folder, files, between, lost>>
      /\ lost \subseteq between
  BY DEF I!Goes, I!Quiet, I!Becomes, I!Inv, I!TypeOK
<1> HIDE DEF record
<1>3. saving[c].pc \in I!Working /\ record.pc \in I!Holding /\ I!HoldsItsOwn(c)
  BY <1>1 DEF I!Working, I!Holding, I!Inv
<1>4. I!HoldsItsOwn(c)'
  BY <1>1, <1>2, <1>3 DEF I!HoldsItsOwn, I!Tested, I!Working, I!Holding
<1>5. \A name \in I!Name : folder[name] = I!Placeholder(c) =>
        record.pc \in I!Holding /\ record.name = name /\ record.made = I!Placeholder(c)
  BY <1>1, <1>3 DEF I!Inv, I!PlaceholdersAreHeld
<1> QED BY <1>0, <1>1, <1>2, <1>3, <1>4, <1>5, SavesRecordStep

LEMMA SavesReserveStep ==
  ASSUME I!Inv, NEW c \in Saver, I!Reserve(c)
  PROVE  I!Inv'
<1>0. /\ saving[c] \in I!Saving /\ folder \in [I!Name -> I!Object \cup {I!Nothing}] /\ saving[c].pc = "reserving"
      /\ NameAttempts \in Nat /\ saving[c].name \in 1..(NameAttempts + 1)
  BY FilesAssumption DEF I!Inv, I!TypeOK, I!Reserve, I!InstallAssumption, I!Saving
<1>1. saving[c].pc \in I!Working /\ \A name \in I!Name : folder[name] # I!Placeholder(c)
  BY <1>0 DEF I!Inv, I!PlaceholdersAreHeld, I!Working, I!Holding
<1>2. CASE I!Fails(c)
  BY <1>1, <1>2, SavesFailStep
<1>3. CASE saving[c].name \in I!Name /\ I!Quiet(c, [saving[c] EXCEPT !.name = saving[c].name + 1])
  <2> DEFINE record == [saving[c] EXCEPT !.name = saving[c].name + 1]
  <2>1. /\ record \in I!Saving /\ record.pc = "reserving" /\ record.staged = saving[c].staged
    BY <1>0, <1>3 DEF I!Saving, I!Name
  <2>2. saving'[c] = record /\ I!Becomes(c, record) /\ UNCHANGED <<host, folder, files, between, lost>>
    BY <1>3 DEF I!Quiet, I!Becomes, I!Inv, I!TypeOK
  <2> HIDE DEF record
  <2>3. I!HoldsItsOwn(c)'
    BY <1>0, <2>1, <2>2 DEF I!HoldsItsOwn, I!Tested, I!Working, I!Holding, I!Inv
  <2> QED BY <1>0, <1>1, <2>1, <2>2, <2>3, SavesRecordStep DEF I!Inv
<1>4. CASE /\ saving[c].name \in I!Name /\ folder' = [folder EXCEPT ![saving[c].name] = I!Placeholder(c)]
           /\ I!Becomes(c, [saving[c] EXCEPT !.pc = "installing", !.made = I!Placeholder(c)])
           /\ UNCHANGED <<host, files, between, lost>>
  <2> DEFINE record == [saving[c] EXCEPT !.pc = "installing", !.made = I!Placeholder(c)]
  <2>1. /\ record \in I!Saving /\ record.pc = "installing" /\ record.staged = saving[c].staged
        /\ record.name = saving[c].name /\ record.made = I!Placeholder(c)
    BY <1>0, SavesObjects DEF I!Saving
  <2>2. saving'[c] = record /\ I!Becomes(c, record)
    BY <1>4 DEF I!Becomes, I!Inv, I!TypeOK
  <2> HIDE DEF record
  <2>3. I!HoldsItsOwn(c)'
    BY <1>0, <1>4, <2>1, <2>2 DEF I!HoldsItsOwn, I!Tested, I!Working, I!Holding, I!Inv
  <2>4. folder' \in [I!Name -> I!Object \cup {I!Nothing}]
    BY <1>0, <1>4, SavesObjects
  <2>5. \A name \in I!Name : folder'[name] = folder[name] \/ (folder'[name] = I!Placeholder(c) /\ name = record.name)
    BY <1>0, <1>4, <2>1
  <2>6. record.pc \in I!Holding
    BY <2>1 DEF I!Holding, I!Working
  <2> QED BY <1>1, <1>4, <2>1, <2>2, <2>3, <2>4, <2>5, <2>6, SavesRecordStep DEF I!Inv
<1>5. saving[c].name > NameAttempts \/ saving[c].name \in I!Name
  BY <1>0 DEF I!Name
<1> QED BY <1>0, <1>2, <1>3, <1>4, <1>5 DEF I!Reserve, I!Name

(* The steps of install() and discard() at an entry.                       *)
LEMMA SavesTestStep ==
  ASSUME I!Inv, NEW c \in Saver, I!Test(c)
  PROVE  I!Inv'
<1>0. /\ saving[c] \in I!Saving /\ folder \in [I!Name -> I!Object \cup {I!Nothing}] /\ saving[c].pc = "installing"
      /\ saving[c].name \in I!Name /\ saving[c].made = I!Placeholder(c) /\ saving[c].staged = I!Media(c)
      /\ saving[c].pc \in I!Working /\ saving[c].pc \in I!Holding
  BY DEF I!Inv, I!TypeOK, I!Test, I!HoldsItsOwn, I!Working, I!Holding
<1>1. CASE I!Goes(c, "discarding")
  BY <1>0, <1>1, SavesObjects, SavesGoStep
<1>2. CASE I!StillItsOwn(c) /\ host = "openat" /\ I!Goes(c, "moving")
  <2>1. I!Owners(folder[saving[c].name]) \subseteq between
    BY <1>0, <1>2, SavesObjects DEF I!StillItsOwn
  <2> QED BY <1>0, <1>2, <2>1, SavesGoStep
<1>3. CASE /\ host # "openat" /\ I!StillItsOwn(c)
           /\ folder' = [folder EXCEPT ![saving[c].name] = I!Nothing]
           /\ I!Becomes(c, I!Forgets([saving[c] EXCEPT !.pc = "moving"]))
           /\ UNCHANGED <<host, files, between, lost>>
  <2> DEFINE record == I!Forgets([saving[c] EXCEPT !.pc = "moving"])
  <2>1. /\ record \in I!Saving /\ record.pc = "moving" /\ record.staged = I!Media(c)
        /\ record.name = saving[c].name /\ record.made = I!Nothing
    BY <1>0 DEF I!Saving, I!Forgets
  <2>2. saving'[c] = record /\ I!Becomes(c, record)
    BY <1>3 DEF I!Becomes, I!Inv, I!TypeOK
  <2> HIDE DEF record
  <2>3. /\ folder' \in [I!Name -> I!Object \cup {I!Nothing}] /\ folder'[saving[c].name] = I!Nothing
        /\ \A name \in I!Name : folder'[name] = folder[name] \/ folder'[name] = I!Nothing
    BY <1>0, <1>3
  <2>4. I!HoldsItsOwn(c)'
    <3>1. I!Owners(folder'[saving[c].name]) \subseteq between'
      BY <2>3, SavesObjects
    <3> QED BY <1>0, <1>3, <2>1, <2>2, <3>1 DEF I!HoldsItsOwn, I!Tested, I!Working, I!Holding
  <2>5. \A name \in I!Name : folder'[name] # I!Placeholder(c)
    BY <1>0, <2>3, SavesObjects DEF I!Inv, I!PlaceholdersAreHeld
  <2> QED BY <1>0, <1>3, <2>1, <2>2, <2>3, <2>4, <2>5, SavesRecordStep DEF I!Inv
<1> QED BY <1>0, <1>1, <1>2, <1>3 DEF I!Test

(* What a call found gives way to what it staged, or to nothing.           *)
LEMMA SavesPublishStep ==
  ASSUME I!Inv, NEW c \in Saver, NEW record \in I!Saving, I!Becomes(c, record), record.pc = "cleaning",
         UNCHANGED <<host, files, between>>, saving[c].pc \in I!Holding, NEW object \in {I!Nothing, I!Media(c)},
         folder' = [folder EXCEPT ![saving[c].name] = object],
         lost' = lost \cup I!Owners(folder[saving[c].name]),
         I!Owners(folder[saving[c].name]) \subseteq between
  PROVE  I!Inv'
<1>0. /\ folder \in [I!Name -> I!Object \cup {I!Nothing}] /\ saving[c].name \in I!Name
      /\ saving[c].pc \in I!Working /\ I!Media(c) \in I!Object
  BY SavesObjects DEF I!Inv, I!TypeOK, I!HoldsItsOwn, I!Working, I!Holding
<1>1. saving'[c] = record /\ lost' \subseteq between
  BY DEF I!Inv, I!TypeOK, I!Becomes
<1>2. /\ folder' \in [I!Name -> I!Object \cup {I!Nothing}] /\ folder'[saving[c].name] = object
      /\ \A name \in I!Name \ {saving[c].name} : folder'[name] = folder[name]
  BY <1>0
<1>3. \A name \in I!Name : folder'[name] # I!Placeholder(c)
  BY <1>2, SavesObjects DEF I!Inv, I!PlaceholdersAreHeld
<1>4. I!HoldsItsOwn(c)'
  BY <1>1 DEF I!HoldsItsOwn, I!Tested, I!Working, I!Holding
<1>5. \A name \in I!Name : folder'[name] = folder[name] \/ folder'[name] \in {I!Nothing, I!Media(c), I!Placeholder(c)}
  BY <1>2
<1> QED BY <1>0, <1>1, <1>2, <1>3, <1>4, <1>5, SavesRecordStep DEF I!Working

LEMMA SavesEntryStep ==
  ASSUME I!Inv, NEW c \in Saver, I!Move(c) \/ I!Discard(c) \/ I!Unlink(c)
  PROVE  I!Inv'
<1>0. /\ saving[c] \in I!Saving /\ folder \in [I!Name -> I!Object \cup {I!Nothing}]
      /\ saving[c].name \in I!Name /\ I!HoldsItsOwn(c) /\ saving[c].staged = I!Media(c)
      /\ saving[c].pc \in I!Working /\ saving[c].pc \in I!Holding
      /\ host \in {"openat", "pins"}
  BY FilesAssumption DEF I!Inv, I!TypeOK, I!Move, I!Discard, I!Unlink, I!HoldsItsOwn, I!Working, I!Holding, I!InstallAssumption
<1>1. ASSUME I!Remove(c), I!Owners(folder[saving[c].name]) \subseteq between PROVE I!Inv'
  <2>1. I!Forgets(I!Failed(c)) \in I!Saving /\ I!Forgets(I!Failed(c)).pc = "cleaning"
    BY <1>0 DEF I!Forgets, I!Failed, I!Saving
  <2> QED BY <1>0, <1>1, <2>1, SavesPublishStep DEF I!Remove
<1>2. CASE I!Move(c)
  <2>1. saving[c].pc = "moving" /\ I!Owners(folder[saving[c].name]) \subseteq between
    BY <1>0, <1>2 DEF I!Move, I!HoldsItsOwn, I!Tested
  <2>2. CASE host = "pins" /\ I!Goes(c, "discarding")
    <3>1. saving[c].made = I!Nothing
      BY <1>0, <2>1, <2>2 DEF I!HoldsItsOwn
    <3> QED BY <1>0, <2>1, <2>2, <3>1, SavesGoStep
  <2>3. CASE ~(host = "pins" /\ ~I!Free(saving[c].name))
    <3> DEFINE record == I!Forgets([saving[c] EXCEPT !.pc = "cleaning", !.staged = I!Nothing, !.told = "saved"])
    <3>2. record \in I!Saving /\ record.pc = "cleaning"
      BY <1>0 DEF I!Forgets, I!Saving
    <3>3. I!Becomes(c, record) /\ folder' = [folder EXCEPT ![saving[c].name] = I!Media(c)]
          /\ lost' = lost \cup I!Owners(folder[saving[c].name]) /\ UNCHANGED <<host, files, between>>
      BY <1>0, <1>2, <2>3 DEF I!Move
    <3> HIDE DEF record
    <3> QED BY <1>0, <2>1, <3>2, <3>3, SavesPublishStep
  <2> QED BY <1>2, <2>2, <2>3 DEF I!Move
<1>3. CASE I!Discard(c)
  <2>1. /\ saving[c].pc = "discarding" /\ saving[c].made \in {I!Placeholder(c), I!Nothing}
        /\ host = "openat" => saving[c].made = I!Placeholder(c)
    BY <1>0, <1>3 DEF I!Discard, I!HoldsItsOwn
  <2>2. I!Discardable(c) => I!Owners(folder[saving[c].name]) \subseteq between
    <3>1. CASE saving[c].made = I!Nothing
      BY <1>0, <2>1, <3>1 DEF I!HoldsItsOwn, I!Tested
    <3>2. CASE saving[c].made = I!Placeholder(c)
      BY <3>2, SavesObjects DEF I!Discardable
    <3> QED BY <2>1, <3>1, <3>2
  <2>3. CASE I!Fails(c) /\ ~I!Discardable(c)
    <3>1. \A name \in I!Name : folder[name] # I!Placeholder(c)
      BY <2>1, <2>3, SavesObjects DEF I!Inv, I!PlaceholdersAreHeld, I!Discardable, I!Free
    <3> QED BY <1>0, <2>3, <3>1, SavesFailStep
  <2>4. CASE host = "openat" /\ I!Goes(c, "removing") /\ I!Discardable(c)
    BY <1>0, <2>1, <2>2, <2>4, SavesGoStep
  <2> QED BY <1>1, <1>3, <2>2, <2>3, <2>4 DEF I!Discard
<1>4. CASE I!Unlink(c)
  <2>1. saving[c].pc = "removing" /\ I!Owners(folder[saving[c].name]) \subseteq between
    BY <1>0, <1>4 DEF I!Unlink, I!HoldsItsOwn, I!Tested
  <2>2. CASE I!Fails(c) /\ I!Free(saving[c].name)
    <3>1. \A name \in I!Name : folder[name] # I!Placeholder(c)
      BY <2>2, SavesObjects DEF I!Inv, I!PlaceholdersAreHeld, I!Free
    <3> QED BY <1>0, <2>2, <3>1, SavesFailStep
  <2> QED BY <1>1, <1>4, <2>1, <2>2 DEF I!Unlink
<1> QED BY <1>2, <1>3, <1>4

LEMMA SavesStep ==
  ASSUME I!Inv, [I!Next]_I!installVars
  PROVE  I!Inv'
<1>1. CASE UNCHANGED I!installVars
  BY <1>1 DEF I!installVars, I!Inv, I!TypeOK, I!OneWorks, I!PlaceholdersAreHeld, I!HoldsItsOwn, I!Tested
<1> QED
  BY <1>1, SavesOwnerStep, SavesQuietStep, SavesReserveStep, SavesTestStep, SavesEntryStep DEF I!Next

LEMMA SavesPromise == I!Inv => I!StrangersKeepTheirFiles /\ I!NoPlaceholderOutlivesItsCall
BY DEF I!Inv, I!StrangersKeepTheirFiles, I!NoPlaceholderOutlivesItsCall, I!PlaceholdersAreHeld, I!Holding, I!Working

----------------------------------------------------------------------------
(* Who may read them.  A directory that was answered for is sealed, and    *)
(* a file that was answered for and is protected has only own entries.     *)
LEMMA PermissionsCount == \A entries : O!Cardinality(entries) = Cardinality(entries)
BY DEF O!Cardinality, Cardinality

(* What goes down is what was to, marked; and it is never an own entry.    *)
LEMMA PermissionsPassedOn ==
  ASSUME NEW entries \in SUBSET O!Entry
  PROVE  /\ O!PassedOn(entries) \subseteq O!Entry /\ O!OwnOf(O!PassedOn(entries)) = {}
         /\ \A e \in O!PassedOn(entries) :
              \E d \in entries : d.down /\ e.who = d.who /\ e.allows = d.allows /\ e.full = d.full
         /\ \A d \in entries : d.down =>
              \E e \in O!PassedOn(entries) : e.who = d.who /\ e.allows = d.allows /\ e.full = d.full
<1>1. \A d \in entries : /\ [d EXCEPT !.own = FALSE] \in O!Entry /\ ~[d EXCEPT !.own = FALSE].own
                         /\ [d EXCEPT !.own = FALSE].who = d.who
                         /\ [d EXCEPT !.own = FALSE].allows = d.allows
                         /\ [d EXCEPT !.own = FALSE].full = d.full
  <2> TAKE d \in entries
  <2>1. d \in O!Entry
    OBVIOUS
  <2> HIDE DEF O!PassedOn
  <2> QED BY <2>1 DEF O!Entry
<1>2. \A e \in O!PassedOn(entries) : \E d \in entries : d.down /\ e = [d EXCEPT !.own = FALSE]
  BY DEF O!PassedOn
<1>3. \A d \in entries : d.down => [d EXCEPT !.own = FALSE] \in O!PassedOn(entries)
  BY DEF O!PassedOn
<1>4. O!PassedOn(entries) \subseteq O!Entry /\ \A e \in O!PassedOn(entries) : ~e.own
  BY <1>1, <1>2
<1>5. O!OwnOf(O!PassedOn(entries)) = {}
  BY <1>4 DEF O!OwnOf
<1>6. \A e \in O!PassedOn(entries) :
              \E d \in entries : d.down /\ e.who = d.who /\ e.allows = d.allows /\ e.full = d.full
  BY <1>1, <1>2
<1>7. \A d \in entries : d.down =>
              \E e \in O!PassedOn(entries) : e.who = d.who /\ e.allows = d.allows /\ e.full = d.full
  BY <1>1, <1>3
<1> QED BY <1>4, <1>5, <1>6, <1>7

LEMMA PermissionsEntries ==
  /\ O!Mine \in O!Entry /\ O!Mine.who = "me" /\ O!Mine.allows /\ O!Mine.full /\ O!Mine.own
  /\ O!Others \in O!Entry /\ O!Others.own
  /\ \A d \in BOOLEAN : /\ [O!Others EXCEPT !.down = d] \in O!Entry /\ [O!Others EXCEPT !.down = d].own
                        /\ [O!Mine EXCEPT !.down = d] \in O!Entry
  /\ O!Anybody \subseteq O!Entry /\ \A e \in O!Anybody : e.who = "anybody" /\ e.own
  /\ O!Anybody # {}
BY DEF O!Entry, O!Mine, O!Others, O!Anybody

LEMMA PermissionsRestrict ==
  ASSUME NEW o \in O!Object
  PROVE  /\ O!TheWholeList(o) \in SUBSET O!Entry /\ O!TheWholeList(o) # {}
         /\ \A e \in O!TheWholeList(o) : e.who = "me" /\ e.allows /\ e.full /\ (o = OwnedDir => e.down)
<1>1. \A d \in BOOLEAN : /\ [O!Mine EXCEPT !.down = d] \in O!Entry /\ [O!Mine EXCEPT !.down = d].down = d
                         /\ [O!Mine EXCEPT !.down = d].who = "me" /\ [O!Mine EXCEPT !.down = d].allows
                         /\ [O!Mine EXCEPT !.down = d].full
  BY DEF O!Mine, O!Entry
<1>2. (o = OwnedDir) \in BOOLEAN
  OBVIOUS
<1>3. PICK d \in BOOLEAN : d = (o = OwnedDir)
  BY <1>2
<1>4. O!TheWholeList(o) = {[O!Mine EXCEPT !.down = d]}
  BY <1>3 DEF O!TheWholeList
<1> QED BY <1>1, <1>3, <1>4

(* What an object takes leaves its own entries, and one that is protected  *)
(* takes nothing.                                                          *)
LEMMA PermissionsTakes ==
  ASSUME NEW o \in O!Object, list[o] \in SUBSET O!Entry, NEW from \in SUBSET O!Entry
  PROVE  /\ O!Takes(o, from) \in SUBSET O!Entry
         /\ o \in protected => O!Takes(o, from) = list[o]
         /\ O!OwnOf(O!Takes(o, from)) \subseteq O!OwnOf(list[o])
         /\ o \notin protected =>
              /\ O!OwnOf(O!Takes(o, from)) = O!OwnOf(list[o])
              /\ O!Takes(o, from) \ O!OwnOf(O!Takes(o, from)) \in {{}, O!PassedOn(from)}
              /\ list[o] # O!Anybody => O!PassedOn(from) \subseteq O!Takes(o, from)
<1>1. O!PassedOn(from) \subseteq O!Entry /\ O!OwnOf(O!PassedOn(from)) = {}
  BY PermissionsPassedOn
<1>2. CASE o \in protected
  BY <1>2 DEF O!Takes
<1>3. CASE o \notin protected /\ list[o] = O!Anybody
  <2>1. O!OwnOf(O!Anybody) = O!Anybody
    BY PermissionsEntries DEF O!OwnOf
  <2> QED BY <1>3, <2>1 DEF O!Takes
<1>4. CASE o \notin protected /\ list[o] # O!Anybody
  <2>1. O!Takes(o, from) = O!OwnOf(list[o]) \cup O!PassedOn(from)
    BY <1>4 DEF O!Takes
  <2>2. O!OwnOf(O!OwnOf(list[o]) \cup O!PassedOn(from)) = O!OwnOf(list[o])
    BY <1>1 DEF O!OwnOf
  <2>3. O!OwnOf(list[o]) \subseteq list[o]
    BY DEF O!OwnOf
  <2>4. (O!OwnOf(list[o]) \cup O!PassedOn(from)) \ O!OwnOf(list[o]) = O!PassedOn(from)
    BY <1>1 DEF O!OwnOf
  <2> QED BY <1>1, <1>4, <2>1, <2>2, <2>3, <2>4
<1> QED BY <1>2, <1>3, <1>4

(* A change of the directory's list, which reaches the files in it.        *)
LEMMA PermissionsBecomes ==
  ASSUME O!Inv, NEW entries \in SUBSET O!Entry, NEW guarded, guarded \cup {OwnedDir} = protected \cup {OwnedDir},
         O!Becomes(entries, guarded), born' = born, \A g \in OwnedFile : answer'[g] = "yes" => answer[g] = "yes"
  PROVE  /\ list' \in [O!Object -> SUBSET O!Entry] /\ protected' \subseteq O!Object /\ list'[OwnedDir] = entries
         /\ O!FilesFollowTheirDir' /\ O!AnsweredFilesKeepTheirOwn'
<1> USE DEF O!Inv
<1>1. OwnedDir \in O!Object /\ OwnedFile \subseteq O!Object /\ OwnedDir \notin OwnedFile /\ born \subseteq OwnedFile
  BY FilesAssumption DEF O!OwnerOnlyAssumption, O!Object, O!TypeOK
<1>2. \A o \in O!Object : O!Takes(o, entries) \in SUBSET O!Entry
  BY PermissionsTakes DEF O!TypeOK
<1>3. list' \in [O!Object -> SUBSET O!Entry] /\ list'[OwnedDir] = entries
  BY <1>1, <1>2 DEF O!Becomes, O!TypeOK
<1>4. \A g \in born : list'[g] = O!Takes(g, entries) /\ (g \in protected' <=> g \in protected)
  BY <1>1 DEF O!Becomes
<1>5. protected' \subseteq O!Object
  BY <1>1 DEF O!Becomes, O!TypeOK
<1>6. O!FilesFollowTheirDir'
  <2> SUFFICES ASSUME NEW g \in born, g \notin protected
               PROVE  list'[g] \ O!OwnOf(list'[g]) \in {{}, O!PassedOn(list'[OwnedDir])}
    BY <1>4 DEF O!FilesFollowTheirDir, O!OwnOf, O!PassedOn
  <2> QED BY <1>1, <1>3, <1>4, PermissionsTakes DEF O!TypeOK
<1>7. O!AnsweredFilesKeepTheirOwn'
  <2> SUFFICES ASSUME NEW g \in born, answer[g] = "yes"
               PROVE  /\ g \in protected => O!Private(g)'
                      /\ g \notin protected =>
                           /\ \A e \in O!OwnOf(list'[g]) : e.who = "me" /\ e.allows
                           /\ \/ \E e \in O!OwnOf(list'[g]) : e.full
                              \/ O!PassedOn(list'[OwnedDir]) \subseteq list'[g]
    BY <1>1, <1>4 DEF O!AnsweredFilesKeepTheirOwn, O!OwnOf, O!PassedOn
  <2>1. g \in O!Object /\ list[g] \in SUBSET O!Entry
    BY <1>1 DEF O!TypeOK
  <2>2. CASE g \in protected
    BY <1>4, <2>1, <2>2, PermissionsTakes DEF O!AnsweredFilesKeepTheirOwn, O!Private
  <2>3. CASE g \notin protected
    <3>1. \A e \in O!OwnOf(list[g]) : e.who = "me" /\ e.allows
      BY <2>3 DEF O!AnsweredFilesKeepTheirOwn
    <3>2. list[g] # O!Anybody
      <4>1. ~ \E e \in O!OwnOf(list[g]) : e.who = "anybody"
        BY <3>1
      <4> QED BY <4>1, PermissionsEntries DEF O!OwnOf
    <3>3. O!OwnOf(list'[g]) = O!OwnOf(list[g]) /\ O!PassedOn(entries) \subseteq list'[g]
      BY <1>4, <2>1, <2>3, <3>2, PermissionsTakes
    <3> QED BY <1>3, <2>3, <3>1, <3>3
  <2> QED BY <2>2, <2>3
<1> QED BY <1>3, <1>5, <1>6, <1>7

LEMMA PermissionsInit == O!Init => O!Inv
<1> SUFFICES ASSUME O!Init PROVE O!Inv
  OBVIOUS
<1>1. OwnedDir \in O!Object /\ 0 \in 0..MaxGrants
  BY FilesAssumption DEF O!OwnerOnlyAssumption, O!Object
<1>2. [O!Mine EXCEPT !.down = TRUE] \in O!Entry
  BY PermissionsEntries
<1>3. O!TypeOK
  BY <1>1, <1>2 DEF O!Init, O!TypeOK, O!Idle
<1>4. \A o \in O!Object : answer[o] = "unasked"
  BY DEF O!Init
<1> QED BY <1>1, <1>3, <1>4
        DEF O!Inv, O!Init, O!OnlyWhatIsThereIsAnsweredFor, O!DirIsSealed, O!FilesFollowTheirDir,
            O!AnsweredFilesKeepTheirOwn, O!Idle, O!Object

(* The directory above changes what it passes on.                          *)
LEMMA PermissionsAboveStep ==
  ASSUME O!Inv, O!ParentChanges
  PROVE  O!Inv'
<1> DEFINE from == IF above THEN {} ELSE {[O!Others EXCEPT !.down = TRUE]}
<1>1. from \in SUBSET O!Entry /\ OwnedDir \in O!Object /\ list[OwnedDir] \in SUBSET O!Entry
  BY PermissionsEntries DEF O!Inv, O!TypeOK, O!Object
<1> HIDE DEF from
<1>2. O!Becomes(O!Takes(OwnedDir, from), protected) /\ UNCHANGED <<born, hardening, answer>>
  BY DEF O!ParentChanges, from
<1>3. O!Takes(OwnedDir, from) \in SUBSET O!Entry /\ (OwnedDir \in protected => O!Takes(OwnedDir, from) = list[OwnedDir])
  BY <1>1, PermissionsTakes
<1>4. /\ list' \in [O!Object -> SUBSET O!Entry] /\ protected' \subseteq O!Object /\ list'[OwnedDir] = O!Takes(OwnedDir, from)
      /\ O!FilesFollowTheirDir' /\ O!AnsweredFilesKeepTheirOwn'
  BY <1>2, <1>3, PermissionsBecomes
<1>5. protected' = protected
  BY <1>2 DEF O!Becomes
<1>6. O!DirIsSealed'
  BY <1>2, <1>3, <1>4, <1>5 DEF O!Inv, O!DirIsSealed
<1>7. above' \in BOOLEAN /\ grants' \in 0..MaxGrants
  BY FilesAssumption DEF O!OwnerOnlyAssumption, O!ParentChanges, O!Inv, O!TypeOK
<1>8. O!TypeOK'
  BY <1>2, <1>4, <1>7 DEF O!Inv, O!TypeOK
<1>9. O!OnlyWhatIsThereIsAnsweredFor'
  BY <1>2 DEF O!Inv, O!OnlyWhatIsThereIsAnsweredFor
<1> QED BY <1>4, <1>6, <1>8, <1>9 DEF O!Inv

(* Somebody edits an object: what is then answered about it is void.       *)
LEMMA PermissionsEditStep ==
  ASSUME O!Inv, NEW o \in O!Object, O!EditByHand(o)
  PROVE  O!Inv'
<1>1. PICK entries \in O!Edited(o) :
        IF o = OwnedDir THEN O!Becomes(entries, protected)
                        ELSE list' = [list EXCEPT ![o] = entries] /\ UNCHANGED protected
  BY DEF O!EditByHand
<1>2. /\ \A d \in BOOLEAN : [O!Others EXCEPT !.down = d] \in O!Entry /\ [O!Others EXCEPT !.down = d].own
      /\ O!Mine \in O!Entry /\ O!Mine.own
      /\ [O!Mine EXCEPT !.allows = FALSE] \in O!Entry /\ [O!Mine EXCEPT !.allows = FALSE].own
      /\ [O!Mine EXCEPT !.full = FALSE] \in O!Entry /\ [O!Mine EXCEPT !.full = FALSE].own
  <2>1. /\ [O!Mine EXCEPT !.allows = FALSE] \in O!Entry /\ [O!Mine EXCEPT !.allows = FALSE].own
        /\ [O!Mine EXCEPT !.full = FALSE] \in O!Entry /\ [O!Mine EXCEPT !.full = FALSE].own
    BY DEF O!Mine, O!Entry
  <2> QED BY <2>1, PermissionsEntries
<1>3. list[o] \in SUBSET O!Entry
  BY DEF O!Inv, O!TypeOK
<1>4. entries \in SUBSET O!Entry /\ \A e \in entries : e \in list[o] \/ e.own
  <2>1. CASE \E d \in BOOLEAN : entries = list[o] \cup {[O!Others EXCEPT !.down = d]}
    BY <1>2, <1>3, <2>1
  <2>2. CASE entries = O!Anybody
    BY <2>2, PermissionsEntries
  <2>3. CASE entries \in {{O!Mine}, {[O!Mine EXCEPT !.allows = FALSE]}, {[O!Mine EXCEPT !.full = FALSE]}}
    BY <1>2, <2>3
  <2> QED BY <1>1, <2>1, <2>2, <2>3 DEF O!Edited
<1>5. born' = born /\ hardening' = hardening /\ above' = above /\ grants' \in 0..MaxGrants /\ (o = OwnedDir \/ o \in born)
  BY FilesAssumption DEF O!OwnerOnlyAssumption, O!EditByHand, O!Inv, O!TypeOK
<1>6. /\ answer' \in [O!Object -> {"unasked", "no", "yes"}] /\ answer'[o] = "unasked"
      /\ \A p \in O!Object : answer'[p] = "yes" => answer[p] = "yes" /\ o # OwnedDir
  BY DEF O!EditByHand, O!Voids, O!Inv, O!TypeOK
<1>7. OwnedDir \in O!Object /\ OwnedFile \subseteq O!Object /\ OwnedDir \notin OwnedFile /\ born \subseteq OwnedFile
  BY FilesAssumption DEF O!OwnerOnlyAssumption, O!Object, O!Inv, O!TypeOK
<1>8. O!OnlyWhatIsThereIsAnsweredFor'
  BY <1>5, <1>6, <1>7 DEF O!Inv, O!OnlyWhatIsThereIsAnsweredFor
<1>9. CASE o = OwnedDir
  <2>1. O!Becomes(entries, protected)
    BY <1>1, <1>9
  <2>2. /\ list' \in [O!Object -> SUBSET O!Entry] /\ protected' \subseteq O!Object
        /\ O!FilesFollowTheirDir' /\ O!AnsweredFilesKeepTheirOwn'
    BY <1>4, <1>5, <1>6, <1>7, <2>1, PermissionsBecomes
  <2>3. O!DirIsSealed'
    BY <1>6, <1>7, <1>9 DEF O!DirIsSealed
  <2>4. O!TypeOK'
    BY <1>5, <1>6, <2>2 DEF O!Inv, O!TypeOK
  <2> QED BY <1>8, <2>2, <2>3, <2>4 DEF O!Inv
<1>10. CASE o # OwnedDir
  <2>1. list' = [list EXCEPT ![o] = entries] /\ protected' = protected /\ o \in born
    BY <1>1, <1>5, <1>10
  <2>2. /\ list' \in [O!Object -> SUBSET O!Entry] /\ list'[o] = entries /\ list'[OwnedDir] = list[OwnedDir]
        /\ \A g \in O!Object : g # o => list'[g] = list[g]
    BY <1>4, <1>7, <1>10, <2>1 DEF O!Inv, O!TypeOK
  <2>3. O!TypeOK'
    BY <1>5, <1>6, <2>1, <2>2 DEF O!Inv, O!TypeOK
  <2>4. O!DirIsSealed'
    BY <1>6, <1>7, <2>1, <2>2 DEF O!Inv, O!DirIsSealed
  <2>5. O!FilesFollowTheirDir'
    <3> SUFFICES ASSUME NEW g \in born, g \notin protected
                 PROVE  list'[g] \ O!OwnOf(list'[g]) \in {{}, O!PassedOn(list'[OwnedDir])}
      BY <1>5, <2>1 DEF O!FilesFollowTheirDir, O!OwnOf, O!PassedOn
    <3>1. list[g] \ O!OwnOf(list[g]) \in {{}, O!PassedOn(list[OwnedDir])}
      BY DEF O!Inv, O!FilesFollowTheirDir
    <3>2. CASE g # o
      BY <1>7, <2>2, <3>1, <3>2
    <3>3. CASE g = o
      <4>1. entries \in O!Edited(g) /\ list'[g] = entries
        BY <2>2, <3>3
      <4>2. CASE \E d \in BOOLEAN : entries = list[g] \cup {[O!Others EXCEPT !.down = d]}
        <5>1. PICK d \in BOOLEAN : entries = list[g] \cup {[O!Others EXCEPT !.down = d]}
          BY <4>2
        <5>2. [O!Others EXCEPT !.down = d].own
          BY <1>2
        <5>3. entries \ O!OwnOf(entries) = list[g] \ O!OwnOf(list[g])
          BY <5>1, <5>2 DEF O!OwnOf
        <5> QED BY <2>2, <3>1, <4>1, <5>3
      <4>3. CASE \A e \in entries : e.own
        BY <4>1, <4>3 DEF O!OwnOf
      <4>4. \/ \E d \in BOOLEAN : entries = list[g] \cup {[O!Others EXCEPT !.down = d]}
            \/ \A e \in entries : e.own
        BY <1>2, <4>1, PermissionsEntries DEF O!Edited
      <4> QED BY <4>2, <4>3, <4>4
    <3> QED BY <3>2, <3>3
  <2>6. O!AnsweredFilesKeepTheirOwn'
    <3>1. \A g \in born : answer'[g] = "yes" => g # o /\ answer[g] = "yes"
      BY <1>6, <1>7
    <3>2. \A g \in born : g # o => list'[g] = list[g]
      BY <1>7, <2>2
    <3> QED BY <1>5, <2>1, <2>2, <3>1, <3>2 DEF O!Inv, O!AnsweredFilesKeepTheirOwn, O!Private
  <2> QED BY <1>8, <2>3, <2>4, <2>5, <2>6 DEF O!Inv
<1> QED BY <1>9, <1>10

(* A file is born.                                                         *)
LEMMA PermissionsBornStep ==
  ASSUME O!Inv, NEW g \in OwnedFile, O!Born(g)
  PROVE  O!Inv' /\ (answer[OwnedDir] = "yes" => O!Private(g)')
<1> DEFINE passed == O!PassedOn(list[OwnedDir])
<1>1. OwnedDir \in O!Object /\ OwnedFile \subseteq O!Object /\ OwnedDir \notin OwnedFile /\ born \subseteq OwnedFile /\ g # OwnedDir
  BY FilesAssumption DEF O!OwnerOnlyAssumption, O!Object, O!Inv, O!TypeOK
<1>2. list[OwnedDir] \in SUBSET O!Entry
  BY <1>1 DEF O!Inv, O!TypeOK
<1>3. passed \subseteq O!Entry /\ O!OwnOf(passed) = {}
  BY <1>2, PermissionsPassedOn
<1>4. answer[OwnedDir] = "yes" => passed # {} /\ \A e \in passed : e.who = "me" /\ e.allows /\ e.full
  BY <1>2, PermissionsPassedOn DEF O!Inv, O!DirIsSealed
<1>5. O!Token \subseteq O!Entry /\ \A e \in O!Token : e.own
  BY PermissionsEntries DEF O!Token
<1> HIDE DEF passed
<1>6. /\ list' = [list EXCEPT ![g] = IF passed = {} THEN O!Token ELSE passed]
      /\ g \notin born /\ born' = born \cup {g} /\ UNCHANGED <<above, protected, hardening, answer, grants>>
  BY DEF O!Born, passed
<1>7. /\ list' \in [O!Object -> SUBSET O!Entry] /\ list'[g] = (IF passed = {} THEN O!Token ELSE passed)
      /\ list'[OwnedDir] = list[OwnedDir] /\ \A p \in born : list'[p] = list[p]
  BY <1>1, <1>3, <1>5, <1>6 DEF O!Inv, O!TypeOK
<1>8. O!TypeOK'
  BY <1>1, <1>6, <1>7 DEF O!Inv, O!TypeOK
<1>9. O!DirIsSealed'
  BY <1>6, <1>7 DEF O!Inv, O!DirIsSealed
<1>10. O!FilesFollowTheirDir'
  <2>1. list'[g] \ O!OwnOf(list'[g]) \in {{}, passed}
    BY <1>3, <1>5, <1>7 DEF O!OwnOf
  <2>2. \A p \in born \ protected : list'[p] \ O!OwnOf(list'[p]) \in {{}, O!PassedOn(list'[OwnedDir])}
    BY <1>7 DEF O!Inv, O!FilesFollowTheirDir
  <2>3. O!PassedOn(list'[OwnedDir]) = passed
    BY <1>7 DEF passed
  <2>4. \A p \in born' \ protected' : list'[p] \ O!OwnOf(list'[p]) \in {{}, O!PassedOn(list'[OwnedDir])}
    BY <1>6, <2>1, <2>2, <2>3
  <2> QED BY <2>4 DEF O!FilesFollowTheirDir, O!OwnOf, O!PassedOn
<1>11. O!AnsweredFilesKeepTheirOwn'
  <2>1. \A p \in born' : answer'[p] = "yes" => p \in born /\ answer[p] = "yes"
    BY <1>6 DEF O!Inv, O!OnlyWhatIsThereIsAnsweredFor
  <2> QED BY <1>6, <1>7, <2>1 DEF O!Inv, O!AnsweredFilesKeepTheirOwn, O!Private
<1>12. O!OnlyWhatIsThereIsAnsweredFor'
  BY <1>6 DEF O!Inv, O!OnlyWhatIsThereIsAnsweredFor
<1>13. answer[OwnedDir] = "yes" => O!Private(g)'
  BY <1>4, <1>7 DEF O!Private
<1> QED BY <1>8, <1>9, <1>10, <1>11, <1>12, <1>13 DEF O!Inv

(* A hardening, or a look, begins.                                         *)
LEMMA PermissionsAskStep ==
  ASSUME O!Inv, NEW o \in O!Object, O!Restrict(o) \/ O!Verify(o)
  PROVE  O!Inv'
<1>1. /\ hardening' \in [at : {"none", "write", "read"}, of : O!Object] /\ hardening'.of = o /\ (o = OwnedDir \/ o \in born)
      /\ UNCHANGED <<above, list, protected, born, answer, grants>>
  BY DEF O!Restrict, O!Verify, O!Asks
<1> QED BY <1>1
        DEF O!Inv, O!TypeOK, O!OnlyWhatIsThereIsAnsweredFor, O!DirIsSealed, O!FilesFollowTheirDir,
            O!AnsweredFilesKeepTheirOwn, O!Private

(* The whole list is written.                                              *)
LEMMA PermissionsWriteStep ==
  ASSUME O!Inv, O!Write
  PROVE  O!Inv'
<1>1. OwnedDir \in O!Object /\ OwnedFile \subseteq O!Object /\ OwnedDir \notin OwnedFile /\ born \subseteq OwnedFile
  BY FilesAssumption DEF O!OwnerOnlyAssumption, O!Object, O!Inv, O!TypeOK
<1>2. hardening.of \in O!Object /\ hardening.of \in born \cup {OwnedDir}
  BY DEF O!Inv, O!TypeOK, O!OnlyWhatIsThereIsAnsweredFor
<1>3. hardening' \in [at : {"none", "write", "read"}, of : O!Object] /\ hardening'.of = hardening.of
  BY DEF O!Write, O!Inv, O!TypeOK
<1>4. UNCHANGED <<above, born, answer, grants>>
  BY DEF O!Write
<1>5. /\ O!Written(hardening.of) \in SUBSET O!Entry /\ O!Written(hardening.of) # {}
      /\ \A e \in O!Written(hardening.of) : e.who = "me" /\ e.allows /\ e.full /\ (hardening.of = OwnedDir => e.down)
  BY <1>2, PermissionsRestrict DEF O!Written
<1>6. O!OnlyWhatIsThereIsAnsweredFor'
  BY <1>3, <1>4 DEF O!Inv, O!OnlyWhatIsThereIsAnsweredFor
<1>7. CASE hardening.of = OwnedDir
  <2>1. O!Becomes(O!Written(OwnedDir), protected \cup {OwnedDir})
    BY <1>7 DEF O!Write
  <2>2. /\ list' \in [O!Object -> SUBSET O!Entry] /\ protected' \subseteq O!Object /\ list'[OwnedDir] = O!Written(OwnedDir)
        /\ O!FilesFollowTheirDir' /\ O!AnsweredFilesKeepTheirOwn'
    BY <1>4, <1>5, <1>7, <2>1, PermissionsBecomes
  <2>3. O!DirIsSealed'
    BY <1>5, <1>7, <2>1, <2>2 DEF O!DirIsSealed, O!Becomes
  <2>4. O!TypeOK'
    BY <1>3, <1>4, <2>2 DEF O!Inv, O!TypeOK
  <2> QED BY <1>6, <2>2, <2>3, <2>4 DEF O!Inv
<1>8. CASE hardening.of # OwnedDir
  <2> DEFINE g == hardening.of
  <2>1. /\ g \in born /\ list' = [list EXCEPT ![g] = O!Written(g)] /\ protected' = protected \cup {g}
    BY <1>2, <1>8 DEF O!Write
  <2> HIDE DEF g
  <2>2. O!Written(g) \in SUBSET O!Entry /\ O!Written(g) # {} /\ \A e \in O!Written(g) : e.who = "me" /\ e.allows /\ e.full
    BY <1>5 DEF g
  <2>3. /\ list' \in [O!Object -> SUBSET O!Entry] /\ list'[g] = O!Written(g) /\ list'[OwnedDir] = list[OwnedDir]
        /\ \A p \in born : p # g => list'[p] = list[p]
    BY <1>1, <2>1, <2>2 DEF O!Inv, O!TypeOK
  <2>4. O!TypeOK'
    BY <1>1, <1>3, <1>4, <2>1, <2>3 DEF O!Inv, O!TypeOK
  <2>5. O!DirIsSealed'
    BY <1>4, <2>1, <2>3 DEF O!Inv, O!DirIsSealed
  <2>6. O!FilesFollowTheirDir'
    <3>1. \A p \in born \ protected' : list'[p] \ O!OwnOf(list'[p]) \in {{}, O!PassedOn(list'[OwnedDir])}
      BY <2>1, <2>3 DEF O!Inv, O!FilesFollowTheirDir
    <3> QED BY <1>4, <3>1 DEF O!FilesFollowTheirDir, O!OwnOf, O!PassedOn
  <2>7. O!AnsweredFilesKeepTheirOwn'
    <3>1. (\A e \in list'[g] : e.who = "me" /\ e.allows) /\ \E e \in list'[g] : e.full
      BY <2>2, <2>3
    <3>2. \A p \in born : p # g => list'[p] = list[p] /\ (p \in protected' <=> p \in protected)
      BY <2>1, <2>3
    <3>3. g \in protected'
      BY <2>1
    <3>4. ASSUME NEW p \in born, answer[p] = "yes"
          PROVE  /\ p \in protected' => O!Private(p)'
                 /\ p \notin protected' =>
                      /\ \A e \in O!OwnOf(list'[p]) : e.who = "me" /\ e.allows
                      /\ \/ \E e \in O!OwnOf(list'[p]) : e.full
                         \/ O!PassedOn(list'[OwnedDir]) \subseteq list'[p]
      <4>1. CASE p = g
        BY <3>1, <3>3, <4>1 DEF O!Private
      <4>2. CASE p # g
        BY <2>3, <3>2, <3>4, <4>2 DEF O!Inv, O!AnsweredFilesKeepTheirOwn, O!Private
      <4> QED BY <4>1, <4>2
    <3> QED BY <1>4, <3>4 DEF O!AnsweredFilesKeepTheirOwn, O!OwnOf, O!PassedOn
  <2> QED BY <1>6, <2>4, <2>5, <2>6, <2>7 DEF O!Inv
<1> QED BY <1>7, <1>8

(* An answer is given; "yes" only about one entry, of the owner's.         *)
LEMMA PermissionsAnswerStep ==
  ASSUME O!Inv, O!WriteFails \/ O!ReadFails \/ O!ReadBack
  PROVE  O!Inv'
<1>1. OwnedDir \in O!Object /\ OwnedFile \subseteq O!Object /\ OwnedDir \notin OwnedFile /\ born \subseteq OwnedFile
  BY FilesAssumption DEF O!OwnerOnlyAssumption, O!Object, O!Inv, O!TypeOK
<1>2. hardening.of \in O!Object /\ hardening.of \in born \cup {OwnedDir} /\ list[hardening.of] \in SUBSET O!Entry
  BY DEF O!Inv, O!TypeOK, O!OnlyWhatIsThereIsAnsweredFor
<1>3. PICK what \in {"no", "yes"} : O!Says(what) /\ (what = "yes" => O!Judged(hardening.of))
  BY DEF O!WriteFails, O!ReadFails, O!ReadBack
<1>4. UNCHANGED <<above, list, protected, born, grants>> /\ hardening' = O!Idle
  BY <1>3 DEF O!Says
<1>5. /\ answer' \in [O!Object -> {"unasked", "no", "yes"}]
      /\ \A p \in O!Object : answer'[p] = "yes" => answer[p] = "yes" \/ (p = hardening.of /\ O!Judged(p))
  BY <1>2, <1>3 DEF O!Says, O!Inv, O!TypeOK
<1>6. \A p \in O!Object : O!Judged(p) =>
        list[p] # {} /\ (\A e \in list[p] : e.who = "me" /\ e.allows /\ e.full)
          /\ (p = OwnedDir => p \in protected /\ \A e \in list[p] : e.down)
  <2> SUFFICES ASSUME NEW p \in O!Object, O!Judged(p)
               PROVE  list[p] # {}
    BY DEF O!Judged, O!OwnerOnly, O!OnlyTheOwner, O!PassesItOn
  <2>1. Cardinality(list[p]) = 1
    BY PermissionsCount DEF O!Judged, O!OwnerOnly, O!OnlyTheOwner
  <2> QED BY <2>1, FS_EmptySet
<1>7. O!TypeOK'
  BY <1>1, <1>4, <1>5 DEF O!Inv, O!TypeOK, O!Idle
<1>8. O!DirIsSealed'
  BY <1>1, <1>4, <1>5, <1>6 DEF O!Inv, O!DirIsSealed
<1>9. O!FilesFollowTheirDir'
  BY <1>4 DEF O!Inv, O!FilesFollowTheirDir
<1>10. O!OnlyWhatIsThereIsAnsweredFor'
  BY <1>1, <1>2, <1>4, <1>5 DEF O!Inv, O!OnlyWhatIsThereIsAnsweredFor, O!Idle
<1>11. O!AnsweredFilesKeepTheirOwn'
  <2> SUFFICES ASSUME NEW g \in born, answer[g] = "yes" \/ O!Judged(g)
               PROVE  /\ g \in protected => O!Private(g)
                      /\ g \notin protected =>
                           /\ \A e \in O!OwnOf(list[g]) : e.who = "me" /\ e.allows
                           /\ (\E e \in O!OwnOf(list[g]) : e.full) \/ O!PassedOn(list[OwnedDir]) \subseteq list[g]
    BY <1>1, <1>4, <1>5 DEF O!AnsweredFilesKeepTheirOwn, O!Private
  <2>1. CASE answer[g] = "yes"
    BY <2>1 DEF O!Inv, O!AnsweredFilesKeepTheirOwn
  <2>2. CASE O!Judged(g)
    <3>1. list[g] # {} /\ \A e \in list[g] : e.who = "me" /\ e.allows /\ e.full
      BY <1>1, <1>6, <2>2
    <3>2. O!OwnOf(list[g]) \subseteq list[g]
      BY DEF O!OwnOf
    <3>3. g \notin protected => list[g] \ O!OwnOf(list[g]) \in {{}, O!PassedOn(list[OwnedDir])}
      BY DEF O!Inv, O!FilesFollowTheirDir
    <3>4. O!OwnOf(list[g]) # {} \/ list[g] \ O!OwnOf(list[g]) # {}
      BY <3>1, <3>2
    <3> QED BY <3>1, <3>2, <3>3, <3>4 DEF O!Private
  <2> QED BY <2>1, <2>2
<1> QED BY <1>7, <1>8, <1>9, <1>10, <1>11 DEF O!Inv

LEMMA PermissionsStep ==
  ASSUME O!Inv, [O!Next]_O!ownerOnlyVars
  PROVE  O!Inv'
<1>1. CASE UNCHANGED O!ownerOnlyVars
  BY <1>1 DEF O!ownerOnlyVars, O!Inv, O!TypeOK, O!OnlyWhatIsThereIsAnsweredFor, O!DirIsSealed, O!FilesFollowTheirDir,
              O!AnsweredFilesKeepTheirOwn, O!Private
<1>2. CASE O!Next
  BY <1>2, PermissionsAboveStep, PermissionsEditStep, PermissionsBornStep, PermissionsAskStep,
     PermissionsWriteStep, PermissionsAnswerStep DEF O!Next
<1> QED BY <1>1, <1>2

(* A file that takes what goes down is the owner's as its directory is.    *)
LEMMA PermissionsPromise == O!Inv => O!PrivateStaysPrivate
<1> SUFFICES ASSUME O!Inv PROVE O!PrivateStaysPrivate
  OBVIOUS
<1>1. answer[OwnedDir] = "yes" => O!Private(OwnedDir)
  BY DEF O!Inv, O!DirIsSealed, O!Private
<1>2. ASSUME NEW g \in born, answer[g] = "yes", g \in protected
      PROVE  O!Private(g)
  BY <1>2 DEF O!Inv, O!AnsweredFilesKeepTheirOwn
<1>3. ASSUME NEW g \in born, answer[g] = "yes", g \notin protected, answer[OwnedDir] = "yes"
      PROVE  O!Private(g)
  <2>1. list[OwnedDir] \in SUBSET O!Entry /\ list[OwnedDir] # {}
    BY <1>3 DEF O!Inv, O!TypeOK, O!DirIsSealed, O!Object
  <2>2. \A e \in list[OwnedDir] : e.who = "me" /\ e.allows /\ e.full /\ e.down
    BY <1>3 DEF O!Inv, O!DirIsSealed
  <2>3. O!PassedOn(list[OwnedDir]) # {} /\ \A e \in O!PassedOn(list[OwnedDir]) : e.who = "me" /\ e.allows /\ e.full
    BY <2>1, <2>2, PermissionsPassedOn
  <2>4. list[g] \ O!OwnOf(list[g]) \subseteq O!PassedOn(list[OwnedDir])
    BY <1>3 DEF O!Inv, O!FilesFollowTheirDir
  <2>5. O!OwnOf(list[g]) \subseteq list[g]
    BY DEF O!OwnOf
  <2> QED BY <1>3, <2>3, <2>4, <2>5 DEF O!Inv, O!AnsweredFilesKeepTheirOwn, O!Private
<1> QED BY <1>1, <1>2, <1>3 DEF O!PrivateStaysPrivate

(* Only a birth brings a file.                                             *)
LEMMA PermissionsBirths ==
  ASSUME O!Inv, [O!Next]_O!ownerOnlyVars
  PROVE  \A g \in born' \ born : answer[OwnedDir] = "yes" => O!Private(g)'
<1>1. ASSUME NEW g \in OwnedFile, O!Born(g)
      PROVE  born' \ born \subseteq {g} /\ (answer[OwnedDir] = "yes" => O!Private(g)')
  BY <1>1, PermissionsBornStep DEF O!Born
<1>2. CASE O!ParentChanges \/ O!Write \/ O!WriteFails \/ O!ReadFails \/ O!ReadBack \/ UNCHANGED O!ownerOnlyVars
  BY <1>2 DEF O!ParentChanges, O!Write, O!WriteFails, O!ReadFails, O!ReadBack, O!Says, O!ownerOnlyVars
<1>3. CASE \E o \in O!Object : O!EditByHand(o) \/ O!Restrict(o) \/ O!Verify(o)
  BY <1>3 DEF O!EditByHand, O!Restrict, O!Verify, O!Asks
<1> QED BY <1>1, <1>2, <1>3 DEF O!Next

----------------------------------------------------------------------------
(* The pool of sessions: a process serves what it claimed and has locked.  *)
LEMMA PoolInit == Q!Init => Q!Inv
BY FilesAssumption DEF Q!SessionPoolAssumption, Q!Init, Q!Inv, Q!TypeOK, Q!ClaimsAreHeld, Q!Session

LEMMA PoolStep ==
  ASSUME Q!Inv, [Q!Next]_Q!poolVars
  PROVE  Q!Inv'
<1> USE DEF Q!Inv, Q!TypeOK, Q!ClaimsAreHeld
<1>0. 0 \notin PoolProcess /\ 0 \notin Q!Session
  BY FilesAssumption DEF Q!SessionPoolAssumption, Q!Session
<1>1. ASSUME NEW p \in PoolProcess, NEW pool \in (SUBSET Q!Session) \ {{}}, Q!Keep(p, pool)
      PROVE  Q!Inv'
  BY <1>0, <1>1 DEF Q!Keep
<1>2. ASSUME NEW p \in PoolProcess, NEW pool \in (SUBSET Q!Session) \ {{}}, Q!Claim(p, pool)
      PROVE  Q!Inv'
  <2>1. PICK s \in Q!Foremost(pool) : /\ holder' = [holder EXCEPT ![s] = p]
                                      /\ claimed' = [claimed EXCEPT ![p] = s]
                                      /\ pooled' = [pooled EXCEPT ![p] = s]
    BY <1>2 DEF Q!Claim
  <2>2. s \in Q!Session /\ holder[s] = 0
    BY <2>1 DEF Q!Foremost, Q!Free
  <2> QED BY <1>0, <2>1, <2>2
<1>3. ASSUME NEW p \in PoolProcess, Q!Exit(p) PROVE Q!Inv'
  BY <1>0, <1>3 DEF Q!Exit
<1>4. CASE UNCHANGED Q!poolVars
  BY <1>4 DEF Q!poolVars
<1> QED BY <1>1, <1>2, <1>3, <1>4 DEF Q!Next, Q!Refuse

LEMMA PoolPromise == Q!Inv => Q!NoSessionIsShared
BY FilesAssumption DEF Q!SessionPoolAssumption, Q!Inv, Q!TypeOK, Q!ClaimsAreHeld, Q!NoSessionIsShared

----------------------------------------------------------------------------
(* The adoption of a session file.                                         *)
LEMMA AdoptionFiles ==
  /\ N!Len(N!Files) = 4 /\ N!Files[1] = "database" /\ N!Name = {"database", "journal", "wal", "shm"}
  /\ \A i \in 1..4 : N!Files[i] \in N!Name /\ (N!Files[i] = "database" <=> i = 1)
<1>1. N!Len(N!Files) = 4
  BY DEF N!Files
<1>2. \A i \in 1..4 : N!Files[i] = IF i = 1 THEN "database" ELSE IF i = 2 THEN "journal" ELSE IF i = 3 THEN "wal" ELSE "shm"
  BY DEF N!Files
<1>3. N!Name = {N!Files[1], N!Files[2], N!Files[3], N!Files[4]}
  BY <1>1 DEF N!Name
<1> QED BY <1>1, <1>2, <1>3

LEMMA AdoptionInit == N!Init => N!Inv
BY FilesAssumption, AdoptionFiles DEF N!SessionAdoptionAssumption, N!Init, N!Inv, N!TypeOK, N!ServesPrivateFiles

LEMMA AdoptionStep ==
  ASSUME N!Inv, [N!Next]_N!adoptionVars
  PROVE  N!Inv' /\ (origin # "none" => origin' = origin)
<1> USE DEF N!Inv, N!TypeOK, N!ServesPrivateFiles
<1>0. MaxStarts \in Nat
  BY FilesAssumption DEF N!SessionAdoptionAssumption
<1>1. CASE N!Start
  BY <1>0, <1>1, AdoptionFiles DEF N!Start
<1>2. CASE N!Harden
  BY <1>2 DEF N!Harden, N!After
<1>3. CASE N!HardenFails \/ N!SkipAdoption \/ N!MoveFails \/ N!Adopted \/ N!Die
  BY <1>3 DEF N!HardenFails, N!Unverified, N!SkipAdoption, N!MoveFails, N!Adopted, N!Die
<1>4. CASE N!Move
  <2>1. next \in 1..4 /\ next' = next + 1 /\ pc' = "adopting" /\ starts' = starts
    BY <1>4, AdoptionFiles DEF N!Move
  <2>2. CASE N!Files[next] \in legacy
    <3>1. /\ legacy' = legacy \ {N!Files[next]} /\ managed' = managed \cup {N!Files[next]}
          /\ private' = private \ {N!Files[next]}
          /\ origin' = IF N!Files[next] = "database" THEN "legacy" ELSE origin
          /\ N!Files[next] = "database" => "database" \notin managed
      BY <1>4, <2>1, <2>2, AdoptionFiles DEF N!Move, N!Adoptable
    <3>2. N!Files[next] \in N!Name /\ (N!Files[next] = "database" <=> next = 1)
      BY <2>1, AdoptionFiles
    <3>3. origin # "none" => origin' = origin
      BY <3>1
    <3>4. (origin' = "none" <=> "database" \notin managed') /\ origin' \in {"none", "legacy", "new", "operator"}
      BY <3>1
    <3>5. legacy' \subseteq N!Name /\ managed' \subseteq N!Name /\ private' \subseteq managed'
      BY <3>1, <3>2
    <3>6. next' \in 1..N!Len(N!Files) + 1
      BY <2>1, AdoptionFiles
    <3> QED BY <2>1, <3>3, <3>4, <3>5, <3>6
  <2>3. CASE N!Files[next] \notin legacy
    <3>1. next' \in 1..N!Len(N!Files) + 1
      BY <2>1, AdoptionFiles
    <3>2. UNCHANGED <<legacy, managed, private, origin>>
      BY <1>4, <2>3 DEF N!Move
    <3> QED BY <2>1, <3>1, <3>2
  <2> QED BY <2>2, <2>3
<1>5. CASE N!Open
  BY <1>5, AdoptionFiles DEF N!Open
<1>6. CASE UNCHANGED N!adoptionVars
  BY <1>6 DEF N!adoptionVars
<1> QED BY <1>1, <1>2, <1>3, <1>4, <1>5, <1>6 DEF N!Next

LEMMA AdoptionPromise == N!Inv => N!ServesPrivateFiles
BY DEF N!Inv

----------------------------------------------------------------------------
(* The reading of the account file.                                        *)
LEMMA SnapshotInit == S!Init => S!Inv
BY DEF S!Init, S!Inv, S!SeenIsServed, S!Resting, S!Served

LEMMA SnapshotStep == ASSUME S!Inv, [S!Next]_S!accountSnapshotVars PROVE S!Inv'
<1> USE DEF S!Inv, S!Served
<1>1. ASSUME UNCHANGED <<process, envStamp, digests, serving>> PROVE S!SeenIsServed' /\ serving' = digests'
  BY <1>1 DEF S!SeenIsServed, S!Usable, S!Merged
<1>2. CASE S!Replace \/ S!Spoil \/ S!Lock \/ S!Vanish
  BY <1>1, <1>2 DEF S!Replace, S!Spoil, S!Lock, S!Vanish, S!Changes
<1>3. CASE S!Finds
  BY <1>1, <1>3 DEF S!Finds, S!Resting
<1>4. CASE S!Refuses
  BY <1>1, <1>4 DEF S!Refuses, S!Resting
<1>5. CASE S!Reads
  <2>1. kind \in S!Understood => kind = "whole"
    BY DEF S!Understood, S!OnlyWhole
  <2>2. reading' = [reading EXCEPT !.at = "read", !.held = ~S!Absent, !.of = IF S!Absent THEN "gone" ELSE kind,
                                   !.found = IF S!Absent THEN S!Empty ELSE envRows]
    BY <1>5 DEF S!Reads
  <2> QED BY <1>1, <1>5, <2>1, <2>2 DEF S!Reads
<1>6. CASE S!Decides
  <2>1. reading'.at = "none" /\ process' = process /\ envStamp' = S!FromThe(reading.found)
    BY <1>6 DEF S!Decides, S!Resting
  <2>2. \/ envStamp' = envStamp /\ UNCHANGED <<digests, serving>>
        \/ (S!Values = digests \/ ~S!Usable(S!Values)) /\ UNCHANGED <<digests, serving>>
        \/ digests' = S!Values /\ serving' = S!Values
    BY <1>6 DEF S!Decides
  <2>3. envStamp' # <<>> => S!Merged(envStamp)' = S!Values
    BY <2>1 DEF S!FromThe, S!Merged, S!Values, S!TheBytesThatWereRead
  <2>4. CASE envStamp' = envStamp /\ UNCHANGED <<digests, serving>>
    BY <1>1, <2>1, <2>4
  <2>5. CASE (S!Values = digests \/ ~S!Usable(S!Values)) /\ UNCHANGED <<digests, serving>>
    <3>1. S!SeenIsServed'
      BY <2>3, <2>5 DEF S!SeenIsServed, S!Usable
    <3> QED BY <2>1, <2>5, <3>1
  <2>6. CASE digests' = S!Values /\ serving' = S!Values
    <3>1. S!SeenIsServed'
      BY <2>3, <2>6 DEF S!SeenIsServed
    <3> QED BY <2>1, <2>6, <3>1
  <2> QED BY <2>2, <2>4, <2>5, <2>6
<1>7. CASE UNCHANGED S!accountSnapshotVars
  BY <1>1, <1>7 DEF S!accountSnapshotVars
<1> QED BY <1>2, <1>3, <1>4, <1>5, <1>6, <1>7 DEF S!Next

LEMMA SnapshotLosses ==
  ASSUME S!Inv, [S!Next]_S!accountSnapshotVars, NEW l \in EnvLabel, S!Lost(l)
  PROVE  reading.of \in {"whole", "gone"} /\ reading.found[l] = NoSession
<1>1. S!Decides /\ serving' = S!Values
  BY DEF S!Lost, S!Next, S!Replace, S!Spoil, S!Lock, S!Vanish, S!Changes, S!Served, S!Finds, S!Refuses, S!Reads, S!Decides, S!accountSnapshotVars
<1>2. reading.at = "read" /\ S!Values[l] = NoSession
  BY <1>1 DEF S!Lost, S!Decides
<1> QED BY <1>1, <1>2 DEF S!Inv, S!Values, S!TheBytesThatWereRead, S!Merged

----------------------------------------------------------------------------
(* The web panel: a row has the key its login was meant for.               *)
LEMMA PanelInit == W!Init => W!Inv
<1> SUFFICES ASSUME W!Init PROVE W!Inv
  OBVIOUS
<1>1. W!Session = QrLogin
  BY DEF W!Session
<1>2. \A l \in QrLogin : login[l] = [key |-> W!None, pc |-> "new"]
  BY DEF W!Init
<1>3. login \in [QrLogin -> [key : PanelKey \cup {W!None}, pc : {"new", "waiting", "saved", "expired"}]]
  BY DEF W!Init
<1>4. \A l \in QrLogin : login[l].pc = "new"
  BY <1>2
<1> QED BY <1>1, <1>3, <1>4 DEF W!Init, W!Inv, W!Stored, W!KeysAreMeant

LEMMA PanelPolicyStep ==
  ASSUME W!Inv, UNCHANGED W!Accounts, chats' \subseteq PanelChat, own' \in [PanelAccount -> {[is |-> W!None, of |-> {}]} \cup [is : {"own"}, of : SUBSET PanelChat]]
  PROVE  W!Inv'
BY DEF W!Inv, W!Stored, W!KeysAreMeant, W!Accounts

LEMMA PanelLoginStep ==
  ASSUME W!Inv, NEW l \in QrLogin, (\E key \in PanelKey : W!QrStart(l, key)) \/ W!Scanned(l) \/ W!Expires(l)
  PROVE  W!Inv'
<1> USE DEF W!Inv, W!Stored, W!KeysAreMeant
<1>0. W!None \notin PanelKey /\ W!None \notin QrLogin
  BY FilesAssumption DEF W!WebPanelAssumption
<1>9. W!Session = QrLogin
  BY DEF W!Session
<1> USE <1>9
<1>1. ASSUME NEW key \in PanelKey, W!QrStart(l, key) PROVE W!Inv'
  <2>1. /\ login[l].pc = "new" /\ login' = [login EXCEPT ![l] = [key |-> key, pc |-> "waiting"]]
        /\ meant' = [meant EXCEPT ![l] = key] /\ UNCHANGED <<panelEnv, chats, own>>
    BY <1>1 DEF W!QrStart, W!Policy
  <2>2. login'[l].key = key /\ login'[l].pc = "waiting" /\ meant'[l] = key
    BY <2>1
  <2>3. \A m \in QrLogin \ {l} : login'[m] = login[m] /\ meant'[m] = meant[m]
    BY <2>1
  <2>4. login[l].pc = "new"
    BY <1>1 DEF W!QrStart
  <2>5. \A k \in PanelKey : panelEnv[k] # l
    BY <1>0, <2>4
  <2> QED BY <1>0, <2>1, <2>2, <2>3, <2>5
<1>2. CASE W!Scanned(l)
  <2>1. /\ login[l].pc = "waiting" /\ panelEnv' = [panelEnv EXCEPT ![login[l].key] = l] /\ login' = [login EXCEPT ![l].pc = "saved"]
        /\ UNCHANGED <<meant, chats, own>>
    BY <1>2 DEF W!Scanned, W!SavedUnder, W!Policy
  <2>0. login[l].pc = "waiting"
    BY <1>2 DEF W!Scanned
  <2>2. login[l].key \in PanelKey /\ meant[l] = login[l].key
    BY <2>0
  <2>3. login'[l].pc = "saved" /\ \A m \in QrLogin \ {l} : login'[m] = login[m]
    BY <2>1
  <2>4. login' \in [QrLogin -> [key : PanelKey \cup {W!None}, pc : {"new", "waiting", "saved", "expired"}]]
    BY <2>1
  <2>5. panelEnv' \in [PanelKey -> W!Session \cup {W!None}] /\ \A k \in PanelKey : panelEnv'[k] = IF k = login[l].key THEN l ELSE panelEnv[k]
    BY <2>1, <2>2
  <2>6. \A k \in PanelKey : panelEnv'[k] # W!None => panelEnv'[k] \in QrLogin /\ login'[panelEnv'[k]].pc = "saved" /\ meant[panelEnv'[k]] = k
    BY <1>0, <2>2, <2>3, <2>5
  <2> QED BY <2>1, <2>3, <2>4, <2>5, <2>6
<1>3. CASE W!Expires(l)
  <2>1. login[l].pc = "waiting" /\ login' = [login EXCEPT ![l].pc = "expired"] /\ UNCHANGED <<panelEnv, meant, chats, own>>
    BY <1>3 DEF W!Expires, W!Policy
  <2>2. login'[l].pc = "expired" /\ \A m \in QrLogin \ {l} : login'[m] = login[m]
    BY <2>1
  <2>3. login' \in [QrLogin -> [key : PanelKey \cup {W!None}, pc : {"new", "waiting", "saved", "expired"}]]
    BY <2>1
  <2>4. \A k \in PanelKey : panelEnv[k] # l
    BY <1>0, <2>1
  <2> QED BY <2>1, <2>2, <2>3, <2>4
<1> QED BY <1>1, <1>2, <1>3

LEMMA PanelEditStep ==
  ASSUME W!Inv, NEW old \in PanelKey, NEW new \in PanelKey, NEW given \in {} \cup {W!None}, W!Edit(old, new, given)
  PROVE  W!Inv'
<1> USE DEF W!Inv, W!Stored, W!KeysAreMeant
<1> DEFINE session == panelEnv[old]
<1>0. W!None \notin PanelKey /\ W!None \notin QrLogin
  BY FilesAssumption DEF W!WebPanelAssumption
<1>9. W!Session = QrLogin
  BY DEF W!Session
<1> USE <1>9
<1>1. /\ session # W!None /\ meant' = [meant EXCEPT ![session] = new] /\ UNCHANGED <<login, chats, own>>
      /\ panelEnv' = [panelEnv EXCEPT ![old] = IF new = old THEN @ ELSE W!None, ![new] = session]
  BY DEF W!Edit, W!Policy
<1>2. session \in QrLogin /\ login[session].pc = "saved" /\ meant[session] = old
  BY <1>1
<1> HIDE DEF session
<1>3. /\ panelEnv' \in [PanelKey -> W!Session \cup {W!None}] /\ panelEnv'[new] = session
      /\ \A k \in PanelKey \ {new} : panelEnv'[k] = IF k = old THEN W!None ELSE panelEnv[k]
  BY <1>1, <1>2
<1>4. /\ meant' \in [W!Session -> PanelKey \cup {W!None}] /\ meant'[session] = new
      /\ \A m \in QrLogin \ {session} : meant'[m] = meant[m]
  BY <1>1, <1>2
<1>5. \A k \in PanelKey \ {old} : panelEnv[k] # session
  BY <1>2, <1>0
<1>6. \A k \in PanelKey : panelEnv'[k] # W!None =>
        panelEnv'[k] \in QrLogin /\ login[panelEnv'[k]].pc = "saved" /\ meant'[panelEnv'[k]] = k
  BY <1>2, <1>3, <1>4, <1>5
<1>7. \A l \in QrLogin : login[l].pc = "waiting" => l # session
  BY <1>2
<1> QED BY <1>1, <1>3, <1>4, <1>6, <1>7

LEMMA PanelRemoveStep ==
  ASSUME W!Inv, NEW key \in PanelKey, W!Remove(key)
  PROVE  W!Inv'
<1>1. panelEnv' = [panelEnv EXCEPT ![key] = W!None] /\ UNCHANGED <<login, chats, own, meant>>
  BY DEF W!Remove, W!Policy
<1>2. panelEnv' \in [PanelKey -> W!Session \cup {W!None}] /\ \A k \in PanelKey : panelEnv'[k] # W!None => panelEnv'[k] = panelEnv[k]
  BY <1>1 DEF W!Inv, W!Stored
<1> QED BY <1>1, <1>2 DEF W!Inv, W!Stored, W!KeysAreMeant

(* A list of an account's own is of chats.                                 *)
LEMMA PanelLists ==
  ASSUME W!Inv, NEW a \in PanelAccount
  PROVE  W!List(a) \subseteq PanelChat
BY DEF W!Inv, W!Stored, W!List

LEMMA PanelStep ==
  ASSUME W!Inv, [W!Next]_W!panelVars
  PROVE  W!Inv'
<1>0. chats \subseteq PanelChat /\ own \in [PanelAccount -> {[is |-> W!None, of |-> {}]} \cup [is : {"own"}, of : SUBSET PanelChat]]
  BY DEF W!Inv, W!Stored
<1>1. ASSUME NEW chat \in PanelChat, W!WhitelistAdd(chat) \/ W!WhitelistRemove(chat)
      PROVE  W!Inv'
  BY <1>0, <1>1, PanelPolicyStep DEF W!WhitelistAdd, W!WhitelistRemove, W!EditList
<1>2. ASSUME NEW a \in PanelAccount, NEW names \in SUBSET PanelChat, W!EditOwnList(a, names)
      PROVE  W!Inv'
  BY <1>0, <1>2, PanelPolicyStep DEF W!EditOwnList
<1>3. ASSUME NEW a \in PanelAccount, NEW some \in SUBSET PanelChat, W!AccountAdd(a, some)
      PROVE  W!Inv'
  BY <1>2, <1>3, PanelLists DEF W!AccountAdd, W!Started
<1>4. ASSUME NEW a \in PanelAccount, NEW chat \in PanelChat, W!AccountRemove(a, chat)
      PROVE  W!Inv'
  BY <1>2, <1>4, PanelLists DEF W!AccountRemove, W!Started
<1>5. ASSUME NEW l \in QrLogin, (\E key \in PanelKey : W!QrStart(l, key)) \/ W!Scanned(l) \/ W!Expires(l)
      PROVE  W!Inv'
  BY <1>5, PanelLoginStep DEF W!QrStart, W!Scanned, W!Expires, W!Policy
<1>6. ASSUME NEW old \in PanelKey, NEW new \in PanelKey, NEW given \in {} \cup {W!None}, W!Edit(old, new, given)
      PROVE  W!Inv'
  BY <1>6, PanelEditStep DEF W!Edit, W!Policy
<1>7. ASSUME NEW key \in PanelKey, W!Remove(key)
      PROVE  W!Inv'
  BY <1>7, PanelRemoveStep DEF W!Remove, W!Policy
<1>8. ASSUME NEW v \in PanelViewer, (\E force \in BOOLEAN : W!Verify(v, force)) \/ W!Answered(v)
      PROVE  W!Inv'
  BY <1>8 DEF W!Verify, W!Answered, W!Policy, W!Inv, W!Stored, W!KeysAreMeant
<1>9. CASE W!Tick \/ UNCHANGED W!panelVars
  BY <1>9 DEF W!Tick, W!panelVars, W!Policy, W!Inv, W!Stored, W!KeysAreMeant
<1> QED BY <1>1, <1>3, <1>4, <1>5, <1>6, <1>7, <1>8, <1>9 DEF W!Next

LEMMA PanelPromise == W!Inv => W!SessionsStayWhereTheyWerePut
BY DEF W!Inv, W!KeysAreMeant, W!SessionsStayWhereTheyWerePut

(* Only an edit of an account's own list changes it, and it starts from    *)
(* what applied.                                                           *)
LEMMA PanelEditsLists ==
  ASSUME W!Inv, [W!Next]_W!panelVars
  PROVE  \A a \in PanelAccount : own'[a] # own[a] =>
           W!Effective(a) \subseteq own'[a].of \/ \E chat \in PanelChat : own'[a].of = W!Effective(a) \ {chat}
<1>1. ASSUME NEW b \in PanelAccount, NEW names, W!EditOwnList(b, names)
      PROVE  own'[b].of = names /\ \A a \in PanelAccount : own'[a] # own[a] => a = b
  BY <1>1 DEF W!EditOwnList, W!Inv, W!Stored
<1>2. ASSUME NEW b \in PanelAccount, NEW some \in SUBSET PanelChat, W!AccountAdd(b, some)
      PROVE  \A a \in PanelAccount : own'[a] # own[a] => W!Effective(a) \subseteq own'[a].of
  BY <1>1, <1>2 DEF W!AccountAdd, W!Started, W!Effective
<1>3. ASSUME NEW b \in PanelAccount, NEW chat \in PanelChat, W!AccountRemove(b, chat)
      PROVE  \A a \in PanelAccount : own'[a] # own[a] => own'[a].of = W!Effective(a) \ {chat}
  BY <1>1, <1>3 DEF W!AccountRemove, W!Started, W!Effective
<1>4. \/ own' = own
      \/ \E b \in PanelAccount : \/ \E some \in SUBSET PanelChat : W!AccountAdd(b, some)
                                 \/ \E chat \in PanelChat : W!AccountRemove(b, chat)
  BY DEF W!Next, W!panelVars, W!WhitelistAdd, W!WhitelistRemove, W!EditList, W!QrStart, W!Scanned, W!Expires, W!Edit, W!Remove,
         W!Verify, W!Answered, W!Tick, W!Policy
<1> QED BY <1>2, <1>3, <1>4

----------------------------------------------------------------------------
(* The edits of the account file, one tool at a time.  The backup an edit  *)
(* names is the newest there is, so pruning keeps it.                      *)
(* The parts count with the operators of the standard module.              *)
LEMMA EditsCount == \A all : (F!IsFiniteSet(all) <=> IsFiniteSet(all)) /\ F!Cardinality(all) = Cardinality(all)
<1>1. \A all : F!IsFiniteSet(all) <=> IsFiniteSet(all)
  BY DEF F!IsFiniteSet, IsFiniteSet
<1>2. \A all : F!Cardinality(all) = Cardinality(all)
  BY DEF F!Cardinality, Cardinality
<1> QED BY <1>1, <1>2

(* The newest of the backups is kept, whatever the retention.              *)
LEMMA EditsKeepTheNewest ==
  ASSUME NEW all, NEW n \in Nat \ {0}, NEW b \in all, \A c \in all : ~F!Earlier(b, c)
  PROVE  b \in F!Kept(all, n) /\ F!Kept(all, n) \subseteq all
<1>1. {c \in all : F!Earlier(b, c)} = {}
  OBVIOUS
<1>2. Cardinality({c \in all : F!Earlier(b, c)}) = 0
  BY <1>1, FS_EmptySet
<1> QED BY <1>2, EditsCount DEF F!Kept, F!NewestOf

(* The name a backup takes is free, and the next of its second.            *)
LEMMA EditsTurn ==
  ASSUME F!Inv, hurry < PerSecond
  PROVE  /\ F!FreeTurn \in Nat /\ F!FreeTurn <= hurry
         /\ \A b \in backups : ~F!Earlier([second |-> time, turn |-> F!FreeTurn], b)
<1> DEFINE free == {n \in 0..Cardinality(backups) : \A b \in backups : b.second = time => b.turn # n}
<1>1. hurry \in {0, 1} /\ Cardinality(backups) \in Nat /\ time \in Nat
  BY FilesAssumption, FS_CardinalityType, EditsCount DEF F!Inv, F!TypeOK, F!AccountFileAssumption
<1>2. \A b \in backups : b.second \in Nat /\ b.turn \in Nat
  BY FilesAssumption DEF F!Inv, F!TypeOK, F!Backup, F!AccountFileAssumption
<1>3. CASE \E b \in backups : b.second = time
  <2>1. hurry = 1 /\ \A b \in backups : b.second = time => b.turn = 0
    BY <1>1, <1>2, <1>3 DEF F!Inv, F!TakenInTime
  <2>2. 1 \in free /\ 0 \notin free
    <3>1. PICK b \in backups : b.second = time
      BY <1>3
    <3>2. IsFiniteSet(backups) /\ {b} \subseteq backups
      BY EditsCount DEF F!Inv, F!TypeOK
    <3>3. Cardinality({b}) = 1 /\ Cardinality({b}) <= Cardinality(backups)
      BY <3>2, FS_Subset, FS_Singleton
    <3>4. 1 <= Cardinality(backups)
      BY <3>3
    <3> QED BY <1>1, <2>1, <3>1, <3>4
  <2>3. \A n \in free : n \in Nat /\ 1 <= n
    BY <1>1, <2>2
  <2>4. F!Min(free) = 1
    <3> HIDE DEF free
    <3> QED BY <2>2, <2>3 DEF F!Min
  <2>5. F!FreeTurn = 1
    BY <2>4, EditsCount DEF F!FreeTurn
  <2> QED BY <1>1, <1>2, <2>1, <2>5 DEF F!Earlier, F!Inv, F!TakenInTime
<1>4. CASE \A b \in backups : b.second # time
  <2>1. 0 \in free /\ \A n \in free : n \in Nat
    BY <1>1, <1>4
  <2>2. F!Min(free) = 0
    <3> HIDE DEF free
    <3> QED BY <2>1 DEF F!Min
  <2>3. F!FreeTurn = 0
    BY <2>2, EditsCount DEF F!FreeTurn
  <2> QED BY <1>1, <1>2, <1>4, <2>3 DEF F!Earlier, F!Inv, F!TakenInTime
<1> QED BY <1>3, <1>4

LEMMA EditsInit == F!Init => F!Inv
<1> SUFFICES ASSUME F!Init PROVE F!Inv
  OBVIOUS
<1>1. F!Idle \in F!Edit
  BY FilesAssumption DEF F!AccountFileAssumption, F!Idle, F!Edit, F!Kinds, F!Resting, F!NoBackup
<1>2. \A t \in EnvTool : edit[t] = F!Idle
  BY DEF F!Init
<1>3. env \in F!File /\ keys \in F!File /\ open \in F!File
  BY DEF F!Init, F!File
<1>4. F!TypeOK
  BY FilesAssumption, FS_EmptySet, EditsCount, <1>1, <1>3 DEF F!AccountFileAssumption, F!Init, F!TypeOK
<1>5. F!OneEdits
  <2>1. F!Idle.number = 0 /\ F!Idle.at = "idle" /\ edits = 0
    BY DEF F!Idle, F!Init
  <2> QED BY <1>2, <2>1 DEF F!OneEdits, F!Working
<1> QED BY <1>2, <1>4, <1>5 DEF F!Inv, F!Init, F!TakenInTime, F!Idle, F!Working

(* A tool at work goes on; the others rest, after earlier edits.           *)
LEMMA EditsGoStep ==
  ASSUME F!Inv, NEW t \in EnvTool, NEW e \in F!Edit, F!Goes(t, e), edits' = edits, F!TakenInTime',
         edit[t].at \in F!Working, e.number = edit[t].number, e.at # "idle",
         env' \in F!File, keys' \in F!File, open' \in F!File, time' = time, hurry' \in 0..PerSecond,
         IsFiniteSet(backups'), backups' \subseteq F!Backup,
         e.at \in F!Working => F!StillAsAsked(e, env'),
         e.at \in {"backed", "read", "cleared", "done"} => F!IsKept(e, env', backups')
  PROVE  F!Inv'
<1>1. edit' \in [EnvTool -> F!Edit] /\ edit'[t] = e /\ \A u \in EnvTool \ {t} : edit'[u] = edit[u]
  BY DEF F!Goes, F!Inv, F!TypeOK
<1>2. edit[t].number = edits /\ \A u \in EnvTool \ {t} : edit[u].number # edits \/ edits = 0
  BY DEF F!Inv, F!OneEdits
<1>3. edits \in Nat /\ edits > 0
  BY <1>2, FilesAssumption DEF F!Inv, F!OneEdits, F!TypeOK, F!Working, F!AccountFileAssumption
<1>4. \A u \in EnvTool \ {t} : edit[u].at \notin F!Working /\ edit[u].number # edits
  BY <1>2, <1>3 DEF F!Inv, F!OneEdits
<1>5. F!OneEdits'
  <2>1. \A u \in EnvTool : edit'[u].number = edit[u].number /\ (edit'[u].at \in F!Working => edit[u].at \in F!Working)
    BY <1>1
  <2>2. \A u \in EnvTool : edit[u].at # "idle" \/ u = t => edit[u].number > 0
    BY <1>2, <1>3 DEF F!Inv, F!OneEdits
  <2>3. \A u \in EnvTool : edit'[u].at # "idle" => edit[u].at # "idle" \/ u = t
    BY <1>1
  <2> QED BY <2>1, <2>2, <2>3 DEF F!Inv, F!OneEdits
<1>6. F!TypeOK'
  BY <1>1, EditsCount DEF F!Inv, F!TypeOK
<1>7. ASSUME NEW u \in EnvTool, edit'[u].at \in F!Working
      PROVE  F!StillAsAsked(edit'[u], env')
  BY <1>1, <1>4, <1>7
<1>8. ASSUME NEW u \in EnvTool, edit'[u].at \in {"backed", "read", "cleared", "done"}, edit'[u].number = edits
      PROVE  F!IsKept(edit'[u], env', backups')
  BY <1>1, <1>4, <1>8
<1> QED BY <1>5, <1>6, <1>7, <1>8 DEF F!Inv

(* An edit begins while both tools rest.                                   *)
LEMMA EditsBeginStep ==
  ASSUME F!Inv, NEW t \in EnvTool, NEW e \in F!Edit, F!Begins(t, e), F!StillAsAsked([e EXCEPT !.at = "asked", !.number = edits + 1], env)
  PROVE  F!Inv'
<1> DEFINE begun == [e EXCEPT !.at = "asked", !.number = edits + 1]
<1>1. edits \in Nat /\ edits' = edits + 1 /\ edits' \in 0..EnvEdits /\ EnvEdits \in Nat
  BY FilesAssumption DEF F!AccountFileAssumption, F!Begins, F!Inv, F!TypeOK
<1>2. begun \in F!Edit /\ begun.at = "asked" /\ begun.number = edits'
  BY <1>1 DEF F!Edit, F!Working
<1>3. F!Goes(t, begun) /\ UNCHANGED <<env, backups, keys, open, time, hurry>>
  BY DEF F!Begins, F!Disk, F!Server
<1>4. \A u \in EnvTool : edit[u].at \in F!Resting /\ edit[u].number \in Nat /\ edit[u].number <= edits
  <2>1. \A u \in EnvTool : edit[u].at \in F!Resting
    BY FilesAssumption DEF F!Begins
  <2>2. \A u \in EnvTool : edit[u] \in F!Edit
    BY DEF F!Inv, F!TypeOK
  <2>3. \A u \in EnvTool : edit[u].number \in 0..EnvEdits
    BY <2>2 DEF F!Edit
  <2> QED BY <1>1, <2>1, <2>3 DEF F!Inv, F!OneEdits
<1>5. \A u \in EnvTool : edit[u].at \notin F!Working
  BY <1>4 DEF F!Resting, F!Working
<1> HIDE DEF begun
<1>6. edit' \in [EnvTool -> F!Edit] /\ edit'[t] = begun /\ \A u \in EnvTool \ {t} : edit'[u] = edit[u]
  BY <1>2, <1>3 DEF F!Goes, F!Inv, F!TypeOK
<1>7. F!OneEdits'
  <2>1. \A u \in EnvTool \ {t} : edit'[u].number <= edits /\ edit'[u].number \in Nat
    BY <1>4, <1>6
  <2>2. edit'[t].number = edits + 1
    BY <1>1, <1>2, <1>6
  <2>3. \A u \in EnvTool \ {t} : edit'[u].at \notin F!Working /\ (edit'[u].at # "idle" => edit'[u].number > 0)
    BY <1>5, <1>6 DEF F!Inv, F!OneEdits
  <2>4. \A u, v \in EnvTool : u # v /\ edit'[u].number = edit'[v].number => u # t /\ v # t
    BY <1>1, <2>1, <2>2
  <2>5. \A u, v \in EnvTool \ {t} : u # v /\ edit'[u].number = edit'[v].number => edit'[u].number = 0
    BY <1>6 DEF F!Inv, F!OneEdits
  <2>6. \A u \in EnvTool : edit'[u].number <= edits' /\ (edit'[u].at # "idle" => edit'[u].number > 0)
    BY <1>1, <2>1, <2>2, <2>3
  <2>7. \A u \in EnvTool : edit'[u].at \in F!Working => edit'[u].number = edits'
    BY <1>1, <2>2, <2>3
  <2> QED BY <2>4, <2>5, <2>6, <2>7 DEF F!OneEdits
<1>8. F!TypeOK'
  BY <1>1, <1>3, <1>6 DEF F!Inv, F!TypeOK
<1>9. F!TakenInTime'
  BY <1>3 DEF F!Inv, F!TakenInTime
<1>10. \A u \in EnvTool \ {t} : edit'[u].number # edits'
  BY <1>1, <1>4, <1>6
<1>11. F!StillAsAsked(begun, env')
  BY <1>3 DEF begun, F!StillAsAsked
<1> QED BY <1>2, <1>5, <1>6, <1>7, <1>8, <1>9, <1>10, <1>11 DEF F!Inv, F!Working, F!Resting

LEMMA EditsBegin ==
  ASSUME F!Inv, NEW t \in EnvTool, NEW l \in EnvLabel
  PROVE  /\ \A s \in EnvSession : F!Add(t, l, s) => F!Inv'
         /\ F!Remove(l) => F!Inv'
         /\ \A to \in EnvLabel \ {l} : F!Rename(l, to) => F!Inv'
<1>0. F!Idle \in F!Edit
  BY FilesAssumption DEF F!AccountFileAssumption, F!Idle, F!Edit, F!Kinds, F!Resting, F!NoBackup
<1>1. ASSUME NEW s \in EnvSession, F!Add(t, l, s) PROVE F!Inv'
  <2> DEFINE e == [F!Idle EXCEPT !.kind = "add", !.label = l, !.session = s]
  <2>1. e \in F!Edit /\ e.kind = "add" /\ e.label = l
    BY <1>0 DEF F!Edit, F!Kinds
  <2>2. F!Begins(t, e)
    BY <1>1 DEF F!Add
  <2> HIDE DEF e
  <2>3. F!StillAsAsked([e EXCEPT !.at = "asked", !.number = edits + 1], env)
    BY <2>1 DEF F!StillAsAsked, F!Edit
  <2> QED BY <2>1, <2>2, <2>3, EditsBeginStep
<1>2. ASSUME F!Remove(l) PROVE F!Inv'
  <2> DEFINE e == [F!Idle EXCEPT !.kind = "remove", !.label = l]
  <2>1. e \in F!Edit /\ e.kind = "remove" /\ e.label = l
    BY <1>0 DEF F!Edit, F!Kinds
  <2>2. F!Begins("manager", e) /\ "manager" \in EnvTool
    BY <1>2 DEF F!Remove
  <2> HIDE DEF e
  <2>3. F!StillAsAsked([e EXCEPT !.at = "asked", !.number = edits + 1], env)
    BY <2>1 DEF F!StillAsAsked, F!Edit
  <2> QED BY <2>1, <2>2, <2>3, EditsBeginStep
<1>3. ASSUME NEW to \in EnvLabel \ {l}, F!Rename(l, to) PROVE F!Inv'
  <2> DEFINE e == [F!Idle EXCEPT !.kind = "rename", !.label = l, !.to = to]
  <2>1. e \in F!Edit /\ e.kind = "rename" /\ e.label = l /\ e.to = to
    BY <1>0 DEF F!Edit, F!Kinds
  <2>2. F!Begins("manager", e) /\ "manager" \in EnvTool /\ env[to] = NoSession
    BY <1>3 DEF F!Rename
  <2> HIDE DEF e
  <2>3. F!StillAsAsked([e EXCEPT !.at = "asked", !.number = edits + 1], env)
    BY <2>1, <2>2 DEF F!StillAsAsked, F!Edit
  <2> QED BY <2>1, <2>2, <2>3, EditsBeginStep
<1> QED BY <1>1, <1>2, <1>3

(* A backup is fresh, and is the newest.                                   *)
LEMMA EditsBackUpStep ==
  ASSUME F!Inv, NEW t \in EnvTool, F!BackUp(t)
  PROVE  F!Inv'
<1> DEFINE fresh == [second |-> time, turn |-> F!FreeTurn, copy |-> env]
           e == [edit[t] EXCEPT !.at = "backed", !.backup = [second |-> time, turn |-> F!FreeTurn]]
<1>1. /\ edit[t] \in F!Edit /\ edit[t].at = "asked" /\ hurry < PerSecond /\ hurry' = hurry + 1
      /\ UNCHANGED <<env, keys, open, time, edits>>
  BY DEF F!BackUp, F!Server, F!Inv, F!TypeOK
<1>2. /\ F!FreeTurn \in Nat /\ F!FreeTurn <= hurry
      /\ \A b \in backups : ~F!Earlier([second |-> time, turn |-> F!FreeTurn], b)
  BY <1>1, EditsTurn
<1>3. /\ F!Goes(t, e)
      /\ backups' = IF t = "manager" THEN F!Kept(backups \cup {fresh}, EnvKeep[t]) ELSE backups \cup {fresh}
  BY DEF F!BackUp
<1>4. e \in F!Edit /\ e.number = edit[t].number /\ e.at = "backed" /\ F!StillAsAsked(e, env)
  <2>1. edit[t].at \in F!Working /\ F!StillAsAsked(edit[t], env)
    BY <1>1 DEF F!Inv, F!Working
  <2>2. time \in 0..EnvTime
    BY DEF F!Inv, F!TypeOK
  <2>3. [second |-> time, turn |-> F!FreeTurn] \in [second : 0..EnvTime, turn : Nat] \cup {F!NoBackup}
    BY <1>2, <2>2
  <2>4. e \in F!Edit /\ e.number = edit[t].number /\ e.at = "backed" /\ e.kind = edit[t].kind
        /\ e.label = edit[t].label /\ e.to = edit[t].to
    BY <1>1, <2>3 DEF F!Edit, F!Working
  <2> QED BY <1>1, <2>1, <2>4 DEF F!StillAsAsked
<1>5. e.backup.second = time /\ e.backup.turn = F!FreeTurn
  BY <1>1 DEF F!Edit
<1> HIDE DEF e
<1>6. fresh \in F!Backup /\ fresh.second = time /\ fresh.turn = F!FreeTurn /\ fresh.copy = env
  BY <1>2 DEF F!Backup, F!Inv, F!TypeOK
<1>7. \A b \in backups \cup {fresh} : ~F!Earlier(fresh, b)
  <2>1. ~F!Earlier(fresh, fresh)
    BY <1>2, <1>6, FilesAssumption DEF F!Earlier, F!Inv, F!TypeOK, F!AccountFileAssumption
  <2>2. \A b \in backups : ~F!Earlier(fresh, b)
    BY <1>2, <1>6 DEF F!Earlier
  <2> QED BY <2>1, <2>2
<1> HIDE DEF fresh
<1>8. fresh \in backups' /\ backups' \subseteq backups \cup {fresh}
  <2>1. CASE t = "manager"
    <3>1. EnvKeep[t] \in Nat \ {0}
      BY FilesAssumption DEF F!AccountFileAssumption
    <3>2. backups' = F!Kept(backups \cup {fresh}, EnvKeep[t])
      BY <1>3, <2>1
    <3>3. fresh \in backups \cup {fresh}
      OBVIOUS
    <3> QED BY <1>7, <3>1, <3>2, <3>3, EditsKeepTheNewest
  <2>2. CASE t # "manager"
    BY <1>3, <2>2
  <2> QED BY <2>1, <2>2
<1>9. IsFiniteSet(backups') /\ backups' \subseteq F!Backup
  <2>1. IsFiniteSet(backups) /\ backups \subseteq F!Backup
    BY EditsCount DEF F!Inv, F!TypeOK
  <2>2. IsFiniteSet(backups \cup {fresh})
    BY <2>1, FS_AddElement
  <2>3. IsFiniteSet(backups')
    BY <1>8, <2>2, FS_Subset
  <2> QED BY <1>6, <1>8, <2>1, <2>3
<1>10. F!IsKept(e, env', backups')
  <2>1. \A b \in backups' : ~F!Earlier(fresh, b)
    BY <1>7, <1>8
  <2> QED BY <1>1, <1>4, <1>5, <1>6, <1>8, <2>1 DEF F!IsKept, F!IsNewest
<1>11. F!TakenInTime'
  <2>1. hurry \in Nat /\ \A b \in backups : b.turn \in Nat
    BY FilesAssumption DEF F!Inv, F!TypeOK, F!Backup, F!AccountFileAssumption
  <2>2. \A b \in backups : b.second < time \/ (b.second = time /\ b.turn < hurry)
    BY DEF F!Inv, F!TakenInTime
  <2>3. \A b \in backups \cup {fresh} : b.second < time \/ (b.second = time /\ b.turn < hurry + 1)
    BY <1>2, <1>6, <2>1, <2>2
  <2> QED BY <1>1, <1>8, <2>3 DEF F!TakenInTime
<1>12. F!StillAsAsked(e, env')
  BY <1>1, <1>4 DEF F!StillAsAsked
<1>13. hurry' \in 0..PerSecond /\ edit[t].at \in F!Working
  BY <1>1, FilesAssumption DEF F!Inv, F!TypeOK, F!Working
<1>14. env' \in F!File /\ keys' \in F!File /\ open' \in F!File
  BY <1>1 DEF F!Inv, F!TypeOK
<1> QED BY <1>1, <1>3, <1>4, <1>9, <1>10, <1>11, <1>12, <1>13, <1>14, EditsGoStep

(* A working tool whose step touches neither the file nor its backups.     *)
LEMMA EditsQuietStep ==
  ASSUME F!Inv, NEW t \in EnvTool, NEW e \in F!Edit, F!Goes(t, e), UNCHANGED <<env, backups, open, time, edits, hurry>>,
         edit[t].at \in F!Working, e.number = edit[t].number, e.at # "idle", keys' \in F!File,
         e.at \in F!Working => F!StillAsAsked(e, env),
         e.at \in {"backed", "read", "cleared", "done"} => F!IsKept(e, env, backups)
  PROVE  F!Inv'
<1>1. e.at \in F!Working => F!StillAsAsked(e, env')
  BY DEF F!StillAsAsked
<1>2. e.at \in {"backed", "read", "cleared", "done"} => F!IsKept(e, env', backups')
  BY DEF F!IsKept, F!IsNewest
<1>3. F!TakenInTime'
  BY DEF F!Inv, F!TakenInTime
<1>4. env' \in F!File /\ open' \in F!File /\ hurry' \in 0..PerSecond /\ IsFiniteSet(backups') /\ backups' \subseteq F!Backup
  BY EditsCount DEF F!Inv, F!TypeOK
<1> QED BY <1>1, <1>2, <1>3, <1>4, EditsGoStep

LEMMA EditsReadStep ==
  ASSUME F!Inv, NEW t \in EnvTool, F!ReadLines(t)
  PROVE  F!Inv'
<1> DEFINE e == [edit[t] EXCEPT !.at = "read", !.lines = env]
<1>1. /\ edit[t] \in F!Edit /\ edit[t].at = "backed" /\ F!Goes(t, e) /\ UNCHANGED <<env, backups, keys, open, time, edits, hurry>>
  BY DEF F!ReadLines, F!Disk, F!Server, F!Inv, F!TypeOK
<1>2. env \in F!File
  BY DEF F!Inv, F!TypeOK
<1>3. /\ e \in F!Edit /\ e.number = edit[t].number /\ e.at = "read" /\ e.lines = env /\ e.backup = edit[t].backup
      /\ e.kind = edit[t].kind /\ e.label = edit[t].label /\ e.to = edit[t].to
  BY <1>1, <1>2 DEF F!Edit, F!Working
<1> HIDE DEF e
<1>4. edit[t].at \in F!Working /\ edit[t].number = edits
  BY <1>1 DEF F!Inv, F!OneEdits, F!Working
<1>5. F!StillAsAsked(edit[t], env) /\ F!IsKept(edit[t], env, backups)
  BY <1>1, <1>4 DEF F!Inv
<1>6. F!StillAsAsked(e, env) /\ F!IsKept(e, env, backups)
  BY <1>1, <1>3, <1>5 DEF F!StillAsAsked, F!IsKept
<1>7. keys' \in F!File
  BY <1>1 DEF F!Inv, F!TypeOK
<1> QED BY <1>1, <1>3, <1>4, <1>6, <1>7, EditsQuietStep

LEMMA EditsFailStep ==
  ASSUME F!Inv, NEW t \in EnvTool, F!WriteFails(t) \/ F!Crash(t)
  PROVE  F!Inv'
<1> DEFINE e == [edit[t] EXCEPT !.at = "failed"]
<1>1. /\ edit[t] \in F!Edit /\ edit[t].at \in F!Working /\ F!Goes(t, e)
      /\ UNCHANGED <<env, backups, keys, open, time, edits, hurry>>
  <2>1. edit[t] \in F!Edit /\ F!Goes(t, e) /\ UNCHANGED <<env, backups, keys, open, time, edits, hurry>>
    BY DEF F!WriteFails, F!Crash, F!Disk, F!Server, F!Inv, F!TypeOK
  <2>2. edit[t].at \in F!Resting \cup F!Working
    BY <2>1 DEF F!Edit
  <2>3. edit[t].at \in F!Working
    BY <2>2 DEF F!WriteFails, F!Crash, F!Working
  <2> QED BY <2>1, <2>3
<1>2. e \in F!Edit /\ e.number = edit[t].number /\ e.at = "failed"
  BY <1>1 DEF F!Edit, F!Resting
<1> HIDE DEF e
<1>3. keys' \in F!File
  BY <1>1 DEF F!Inv, F!TypeOK
<1> QED BY <1>1, <1>2, <1>3, EditsQuietStep DEF F!Working

(* What a write makes of the lines, and which login it takes away.         *)
LEMMA EditsWriteStep ==
  ASSUME F!Inv, NEW t \in EnvTool, F!Write(t)
  PROVE  /\ F!Inv'
         /\ \A s \in F!Logins \ F!LoginsNext : edit[t].kind \in {"add", "remove"} /\ env[edit[t].label] = s
<1> DEFINE e == [edit[t] EXCEPT !.at = "cleared", !.before = env]
<1>1. /\ edit[t] \in F!Edit /\ edit[t].at = "read" /\ env' = F!Written(edit[t]) /\ F!Goes(t, e)
      /\ UNCHANGED <<backups, keys, open, time, edits, hurry>>
  BY DEF F!Write, F!Server, F!Inv, F!TypeOK
<1>2. env \in F!File
  BY DEF F!Inv, F!TypeOK
<1>3. edit[t].at \in F!Working /\ edit[t].number = edits
  BY <1>1 DEF F!Inv, F!OneEdits, F!Working
<1>4. F!StillAsAsked(edit[t], env) /\ F!IsKept(edit[t], env, backups)
  BY <1>1, <1>3 DEF F!Inv
<1>5. /\ edit[t].lines = env /\ edit[t].label \in EnvLabel /\ edit[t].session \in EnvSession \cup {NoSession}
      /\ edit[t].kind \in {"add", "remove", "rename"}
      /\ edit[t].kind = "rename" => edit[t].to \in EnvLabel \ {edit[t].label} /\ env[edit[t].to] = NoSession
  BY <1>1, <1>4 DEF F!StillAsAsked, F!Edit, F!Kinds
<1>6. /\ env' \in F!File
      /\ \A s \in F!Logins \ F!LoginsNext : edit[t].kind \in {"add", "remove"} /\ env[edit[t].label] = s
  <2> DEFINE l == edit[t].label
             to == edit[t].to
  <2>1. CASE edit[t].kind \in {"add", "remove"}
    <3>1. PICK s \in EnvSession \cup {NoSession} : env' = [env EXCEPT ![l] = s]
      BY <1>1, <1>5, <2>1 DEF F!Written, F!InOnePass
    <3>2. env' \in F!File /\ \A k \in EnvLabel \ {l} : env'[k] = env[k]
      BY <1>2, <1>5, <3>1 DEF F!File
    <3>3. \A s0 \in F!Logins \ F!LoginsNext : env[l] = s0
      BY <3>2 DEF F!Logins, F!LoginsNext
    <3> QED BY <2>1, <3>2, <3>3
  <2>2. CASE edit[t].kind = "rename"
    <3>1. env' = [env EXCEPT ![l] = NoSession, ![to] = env[l]]
      BY <1>1, <1>5, <2>2 DEF F!Written, F!InOnePass
    <3>2. l \in EnvLabel /\ to \in EnvLabel /\ l # to /\ env[to] = NoSession
      BY <1>5, <2>2
    <3>3. env' \in F!File /\ env'[to] = env[l] /\ \A k \in EnvLabel \ {l, to} : env'[k] = env[k]
      BY <1>2, <3>1, <3>2 DEF F!File
    <3>4. \A k \in EnvLabel : env[k] # NoSession => \E m \in EnvLabel : env'[m] = env[k]
      BY <3>2, <3>3
    <3>5. F!Logins \subseteq F!LoginsNext
      BY <3>4 DEF F!Logins, F!LoginsNext
    <3> QED BY <3>3, <3>5
  <2> QED BY <1>5, <2>1, <2>2
<1>7. e \in F!Edit /\ e.number = edit[t].number /\ e.at = "cleared" /\ e.before = env /\ e.backup = edit[t].backup
      /\ e.kind = edit[t].kind /\ e.label = edit[t].label /\ e.to = edit[t].to
  BY <1>1, <1>2 DEF F!Edit, F!Working
<1> HIDE DEF e
<1>8. F!StillAsAsked(e, env')
  BY <1>4, <1>7 DEF F!StillAsAsked
<1>9. F!IsKept(e, env', backups')
  <2>1. PICK b \in backups : /\ b.second = edit[t].backup.second /\ b.turn = edit[t].backup.turn /\ F!IsNewest(b, backups)
                             /\ b.copy = env
    BY <1>1, <1>4 DEF F!IsKept
  <2> QED BY <1>1, <1>7, <2>1 DEF F!IsKept, F!IsNewest
<1>10. F!TakenInTime'
  BY <1>1 DEF F!Inv, F!TakenInTime
<1>11. keys' \in F!File /\ open' \in F!File /\ hurry' \in 0..PerSecond /\ IsFiniteSet(backups') /\ backups' \subseteq F!Backup
  BY <1>1, EditsCount DEF F!Inv, F!TypeOK
<1> QED BY <1>1, <1>3, <1>6, <1>7, <1>8, <1>9, <1>10, <1>11, EditsGoStep

(* The edit ends; the generator prunes then, and keeps the newest.         *)
LEMMA EditsEndStep ==
  ASSUME F!Inv, NEW t \in EnvTool, F!Told(t) \/ (F!ClearKeys /\ t = "manager")
  PROVE  F!Inv'
<1> DEFINE e == [edit[t] EXCEPT !.at = "done"]
<1>1. edit[t] \in F!Edit /\ edit[t].at = "cleared" /\ F!Goes(t, e) /\ UNCHANGED <<env, open, time, edits, hurry>>
  BY DEF F!Told, F!ClearKeys, F!Disk, F!Server, F!Inv, F!TypeOK
<1>2. edit[t].at \in F!Working /\ edit[t].number = edits
  BY <1>1 DEF F!Inv, F!OneEdits, F!Working
<1>3. e \in F!Edit /\ e.number = edit[t].number /\ e.at = "done" /\ e.before = edit[t].before /\ e.backup = edit[t].backup
  BY <1>1 DEF F!Edit, F!Resting
<1> HIDE DEF e
<1>4. F!IsKept(edit[t], env, backups)
  BY <1>1, <1>2 DEF F!Inv
<1>5. PICK b \in backups : /\ b.second = e.backup.second /\ b.turn = e.backup.turn /\ F!IsNewest(b, backups)
                           /\ b.copy = e.before
  BY <1>1, <1>3, <1>4 DEF F!IsKept
<1>6. keys' \in F!File
  <2>1. keys \in F!File
    BY DEF F!Inv, F!TypeOK
  <2>2. keys' = keys \/ \E l \in EnvLabel : keys' = [keys EXCEPT ![l] = NoSession]
    <3>1. F!StillAsAsked(edit[t], env)
      BY <1>2 DEF F!Inv
    <3> QED BY <3>1 DEF F!Told, F!ClearKeys, F!Server, F!StillAsAsked
  <2> QED BY <2>1, <2>2 DEF F!File
<1>7. b \in backups' /\ backups' \subseteq backups
  <2>1. CASE backups' = backups
    BY <2>1
  <2>2. CASE backups' = F!Kept(backups, EnvKeep[t])
    <3>1. EnvKeep[t] \in Nat \ {0}
      BY FilesAssumption DEF F!AccountFileAssumption
    <3> QED BY <1>5, <2>2, <3>1, EditsKeepTheNewest DEF F!IsNewest
  <2> QED BY <2>1, <2>2 DEF F!Told, F!ClearKeys, F!Disk
<1>8. IsFiniteSet(backups') /\ backups' \subseteq F!Backup
  BY <1>7, FS_Subset, EditsCount DEF F!Inv, F!TypeOK
<1>9. F!IsKept(e, env', backups')
  BY <1>3, <1>5, <1>7 DEF F!IsKept, F!IsNewest
<1>10. F!TakenInTime'
  BY <1>1, <1>7 DEF F!Inv, F!TakenInTime
<1>11. env' \in F!File /\ open' \in F!File /\ hurry' \in 0..PerSecond
  BY <1>1 DEF F!Inv, F!TypeOK
<1>12. e.at \notin F!Working
  BY <1>3 DEF F!Working
<1> QED BY <1>1, <1>2, <1>3, <1>6, <1>8, <1>9, <1>10, <1>11, <1>12, EditsGoStep

(* The server, which only its own keys tell of.                            *)
LEMMA EditsServerStep ==
  ASSUME F!Inv, NEW l \in EnvLabel, F!Opens(l) \/ F!Retires(l)
  PROVE  F!Inv'
<1>1. UNCHANGED <<env, backups, time, edits, hurry, edit>>
  BY DEF F!Opens, F!Retires, F!Disk
<1>2. keys' \in F!File /\ open' \in F!File
  <2>1. env \in F!File /\ keys \in F!File /\ open \in F!File
    BY DEF F!Inv, F!TypeOK
  <2> QED BY <2>1 DEF F!Opens, F!Retires, F!File
<1> QED BY <1>1, <1>2 DEF F!Inv, F!TypeOK, F!OneEdits, F!TakenInTime, F!StillAsAsked, F!IsKept, F!IsNewest

LEMMA EditsTickStep ==
  ASSUME F!Inv, F!Tick
  PROVE  F!Inv'
<1>1. UNCHANGED <<env, backups, keys, open, edits, edit>> /\ hurry' = 0 /\ time' = time + 1 /\ time < EnvTime
  BY FilesAssumption DEF F!Tick, F!Disk, F!Server
<1>2. time \in Nat /\ time' \in 0..EnvTime /\ hurry' \in 0..PerSecond
  BY <1>1, FilesAssumption DEF F!AccountFileAssumption, F!Inv, F!TypeOK
<1>3. \A b \in backups : b.second \in Nat
  BY FilesAssumption DEF F!Inv, F!TypeOK, F!Backup, F!AccountFileAssumption
<1>4. F!TakenInTime'
  BY <1>1, <1>2, <1>3 DEF F!Inv, F!TakenInTime
<1>5. F!TypeOK'
  BY <1>1, <1>2 DEF F!Inv, F!TypeOK
<1> QED BY <1>1, <1>4, <1>5 DEF F!Inv, F!OneEdits, F!StillAsAsked, F!IsKept, F!IsNewest

LEMMA EditsStep ==
  ASSUME F!Inv, [F!Next]_F!accountFileVars
  PROVE  F!Inv'
<1>1. CASE UNCHANGED F!accountFileVars
  BY <1>1 DEF F!accountFileVars, F!Inv, F!TypeOK, F!OneEdits, F!TakenInTime, F!StillAsAsked, F!IsKept, F!IsNewest
<1>2. CASE F!ClearKeys
  <2>1. "manager" \in EnvTool
    BY <1>2 DEF F!ClearKeys
  <2> QED BY <1>2, <2>1, EditsEndStep
<1>3. ASSUME NEW l \in EnvLabel, F!Remove(l) \/ \E to \in EnvLabel \ {l} : F!Rename(l, to)
      PROVE  F!Inv'
  <2>1. "manager" \in EnvTool
    BY <1>3 DEF F!Remove, F!Rename
  <2> QED BY <1>3, <2>1, EditsBegin
<1>4. ASSUME NEW t \in EnvTool, F!BackUp(t) \/ F!ReadLines(t) \/ F!Write(t) \/ F!WriteFails(t) \/ F!Told(t) \/ F!Crash(t)
      PROVE  F!Inv'
  BY <1>4, EditsBackUpStep, EditsReadStep, EditsWriteStep, EditsFailStep, EditsEndStep
<1>5. ASSUME NEW t \in EnvTool, NEW l \in EnvLabel, NEW s \in EnvSession, F!Add(t, l, s)
      PROVE  F!Inv'
  BY <1>5, EditsBegin
<1> QED BY <1>1, <1>2, <1>3, <1>4, <1>5, EditsTickStep, EditsServerStep DEF F!Next

LEMMA EditsPromise == F!Inv => F!PreviousIsKept
BY DEF F!Inv, F!IsKept, F!PreviousIsKept

(* Only a write takes a login out of the file.                             *)
LEMMA EditsKeepLogins ==
  ASSUME F!Inv, [F!Next]_F!accountFileVars
  PROVE  \A s \in F!Logins \ F!LoginsNext :
           \E t \in EnvTool : edit[t].at = "read" /\ edit[t].kind \in {"add", "remove"} /\ env[edit[t].label] = s
<1>1. ASSUME NEW t \in EnvTool, F!Write(t)
      PROVE  \A s \in F!Logins \ F!LoginsNext :
               \E u \in EnvTool : edit[u].at = "read" /\ edit[u].kind \in {"add", "remove"} /\ env[edit[u].label] = s
  BY <1>1, EditsWriteStep DEF F!Write
<1>2. CASE env' = env
  BY <1>2 DEF F!Logins, F!LoginsNext
<1>3. env' = env \/ \E t \in EnvTool : F!Write(t)
  BY DEF F!Next, F!accountFileVars, F!ClearKeys, F!Tick, F!BackUp, F!ReadLines, F!WriteFails, F!Told, F!Crash, F!Add, F!Remove, F!Rename,
         F!Begins, F!Opens, F!Retires, F!Disk
<1> QED BY <1>1, <1>2, <1>3

----------------------------------------------------------------------------
(* The aliases.  A call that writes holds the lock from its first look to  *)
(* its save, and a stamp tells one content from another.                   *)
LEMMA AliasesMoveRows ==
  ASSUME NEW all \in A!Rows
  PROVE  /\ A!Migrated(all) \in A!Rows /\ A!Migrated(all) = A!Map!Migrated(all)
         /\ \A ask \in A!Ask : ask.op # "read" =>
              /\ A!Mutated(A!Migrated(all), ask) \in A!Rows
              /\ \/ A!Mutated(A!Migrated(all), ask) = A!Migrated(all)
                 \/ \E alias \in AliasName, contact \in Contact \cup {0} :
                      A!Mutated(A!Migrated(all), ask) = [A!Migrated(all) EXCEPT ![<<Sole, alias>>] = contact]
<1>1. A!Unscoped \in A!Scope /\ Sole \in A!Scope /\ Sole # A!Unscoped /\ A!Unscoped = A!Map!Unscoped
  BY FilesAssumption DEF A!Scope, A!AliasStoreAssumption, A!Unscoped, A!Map!Unscoped
<1>2. \A key \in A!Scope \X AliasName : key[1] \in {A!Unscoped, Sole} /\ <<A!Unscoped, key[2]>> \in A!Scope \X AliasName
  BY DEF A!Scope
<1>3. A!Migrated(all) = A!Map!Migrated(all)
  BY <1>1, <1>2 DEF A!Migrated, A!Map!Migrated
<1>4. A!Migrated(all) \in A!Rows
  BY <1>1, <1>2 DEF A!Migrated, A!Rows
<1>5. ASSUME NEW ask \in A!Ask, ask.op # "read"
      PROVE  /\ A!Mutated(A!Migrated(all), ask) \in A!Rows
             /\ \/ A!Mutated(A!Migrated(all), ask) = A!Migrated(all)
                \/ \E alias \in AliasName, contact \in Contact \cup {0} :
                     A!Mutated(A!Migrated(all), ask) = [A!Migrated(all) EXCEPT ![<<Sole, alias>>] = contact]
  <2>1. /\ ask.alias \in AliasName /\ ask.op \in {"set", "replace", "delete"}
        /\ ask.op # "delete" => ask.contact \in Contact
    BY <1>5 DEF A!Ask
  <2>2. \/ A!Mutated(A!Migrated(all), ask) = A!Migrated(all)
        \/ \E contact \in Contact \cup {0} :
             A!Mutated(A!Migrated(all), ask) = [A!Migrated(all) EXCEPT ![<<Sole, ask.alias>>] = contact]
    BY <2>1 DEF A!Mutated
  <2>3. \A contact \in Contact \cup {0} : [A!Migrated(all) EXCEPT ![<<Sole, ask.alias>>] = contact] \in A!Rows
    BY <1>4 DEF A!Rows
  <2> QED BY <1>4, <2>1, <2>2, <2>3
<1> QED BY <1>3, <1>4, <1>5

LEMMA AliasesInit == A!Init => A!Inv
<1> SUFFICES ASSUME A!Init PROVE A!Inv
  OBVIOUS
<1>1. A!NoRows \in A!Rows
  BY DEF A!NoRows, A!Rows
<1>2. A!Idle \in A!Call /\ A!Idle.ask.op = "read" /\ A!Idle.stamp = 0 /\ A!Idle.pc = "idle"
  <2>1. [op |-> "read"] \in A!Ask
    BY DEF A!Ask
  <2> QED BY <1>1, <2>1 DEF A!Idle, A!Call
<1>5. readable = TRUE /\ aside = FALSE
  BY DEF A!Init
<1>6. readable \in BOOLEAN /\ aside \in BOOLEAN
  BY <1>5
<1>3. A!TypeOK
  BY <1>1, <1>2, <1>6 DEF A!Init, A!TypeOK, A!None
<1>4. \A t \in AliasThread : aliasing[t] = A!Idle
  BY DEF A!Init
<1> QED BY <1>2, <1>3, <1>4 DEF A!Inv, A!Init, A!FreshCopyIsTrue, A!StampsAreOfTheirTime, A!WritersHoldTheLock, A!Writes,
     A!OnlyWritersSave, A!AsideIsOfAWriter

LEMMA AliasesIdle == A!Idle \in A!Call /\ A!Idle.ask.op = "read" /\ A!Idle.stamp = 0 /\ A!Idle.pc = "idle"
<1>1. A!NoRows \in A!Rows
  BY DEF A!NoRows, A!Rows
<1>2. [op |-> "read"] \in A!Ask
  BY DEF A!Ask
<1> QED BY <1>1, <1>2 DEF A!Idle, A!Call

(* A step of one call that leaves the file's rows and the copies.          *)
LEMMA AliasesCallStep ==
  ASSUME A!Inv, NEW t \in AliasThread, NEW c \in A!Call, aliasing' = [aliasing EXCEPT ![t] = c],
         UNCHANGED <<rows, stamp, readable, cache>>, c.stamp <= stamp,
         lock' \in AliasThread \cup {A!None}, \A u \in AliasThread \ {t} : lock = u => lock' = u,
         c.ask.op # "read" => (c.pc \in {"stat", "reading", "loaded", "saving"} => lock' = t)
                              /\ (c.pc \in {"loaded", "saving"} => c.rows = rows),
         c.pc = "saving" => c.ask.op # "read",
         aside' \in BOOLEAN,
         aside' => ~readable /\ lock' # A!None /\ (lock' = t => c.pc = "saving")
                   /\ (lock' # t => aliasing[lock'].pc = "saving")
  PROVE  A!Inv'
<1>1. aliasing' \in [AliasThread -> A!Call] /\ aliasing'[t] = c /\ \A u \in AliasThread \ {t} : aliasing'[u] = aliasing[u]
  BY DEF A!Inv, A!TypeOK
<1>2. A!TypeOK'
  BY <1>1 DEF A!Inv, A!TypeOK
<1>3. A!FreshCopyIsTrue'
  BY DEF A!Inv, A!FreshCopyIsTrue
<1>4. A!StampsAreOfTheirTime'
  BY <1>1 DEF A!Inv, A!StampsAreOfTheirTime
<1>5. A!WritersHoldTheLock'
  BY <1>1 DEF A!Inv, A!WritersHoldTheLock, A!Writes
<1>6. A!OnlyWritersSave'
  BY <1>1 DEF A!Inv, A!OnlyWritersSave, A!Writes
<1>7. A!AsideIsOfAWriter'
  BY <1>1 DEF A!AsideIsOfAWriter
<1> QED BY <1>2, <1>3, <1>4, <1>5, <1>6, <1>7 DEF A!Inv

(* A call that moved the file aside gives it up: then there is none.       *)
LEMMA AliasesGiveUp ==
  ASSUME A!Inv, aside, rows' = A!NoRows, readable' = TRUE, aside' = FALSE, stamp' = stamp + 1, lock' = A!None,
         aliasing' \in [AliasThread -> A!Call],
         \A u \in AliasThread : aliasing'[u] = A!Idle \/ (aliasing'[u] = aliasing[u] /\ u # lock),
         cache' \in [AliasProcess -> [stamp : Nat, rows : A!Rows]],
         \A p \in AliasProcess : cache'[p].stamp \in {0, cache[p].stamp}
  PROVE  A!Inv' /\ A!Map!Next
<1>1. /\ stamp \in Nat \ {0} /\ A!NoRows \in A!Rows /\ ~readable /\ readable \in BOOLEAN
      /\ \A p \in AliasProcess : cache[p].stamp \in Nat /\ cache[p].stamp <= stamp
      /\ \A u \in AliasThread : aliasing[u].stamp \in Nat /\ aliasing[u].stamp <= stamp
  BY DEF A!Inv, A!TypeOK, A!StampsAreOfTheirTime, A!AsideIsOfAWriter, A!Call, A!NoRows, A!Rows
<1>7. readable' \in BOOLEAN /\ aside' \in BOOLEAN
  OBVIOUS
<1>2. A!TypeOK'
  BY <1>1, <1>7 DEF A!Inv, A!TypeOK
<1>3. A!FreshCopyIsTrue'
  <2>1. \A p \in AliasProcess : cache'[p].stamp # stamp'
    BY <1>1
  <2> QED BY <2>1 DEF A!FreshCopyIsTrue
<1>4. A!StampsAreOfTheirTime'
  <2>1. \A p \in AliasProcess : cache'[p].stamp <= stamp'
    BY <1>1
  <2>2. \A u \in AliasThread : aliasing'[u].stamp <= stamp'
    BY <1>1, AliasesIdle
  <2> QED BY <2>1, <2>2 DEF A!StampsAreOfTheirTime
<1>5. A!WritersHoldTheLock' /\ A!OnlyWritersSave' /\ A!AsideIsOfAWriter'
  <2>1. ASSUME NEW u \in AliasThread, aliasing'[u] # A!Idle, aliasing'[u].ask.op # "read"
        PROVE  aliasing'[u].pc \notin {"stat", "reading", "loaded", "saving"}
    BY <2>1 DEF A!Inv, A!WritersHoldTheLock, A!Writes
  <2>2. ASSUME NEW u \in AliasThread, aliasing'[u].pc = "saving"
        PROVE  aliasing'[u].ask.op # "read"
    BY <2>2, AliasesIdle DEF A!Inv, A!OnlyWritersSave, A!Writes
  <2> QED BY <2>1, <2>2, AliasesIdle DEF A!WritersHoldTheLock, A!OnlyWritersSave, A!AsideIsOfAWriter, A!Writes
<1>6. A!Map!GiveUp
  BY <1>1 DEF A!Map!GiveUp, A!NoRows
<1> QED BY <1>2, <1>3, <1>4, <1>5, <1>6 DEF A!Inv, A!Map!Next

LEMMA AliasesTurnStep ==
  ASSUME A!Inv, NEW t \in AliasThread,
         (\E ask \in A!Ask : A!Begin(t, ask)) \/ A!TakeLock(t) \/ A!LockTimesOut(t) \/ A!Stat(t) \/ A!ReadFails(t)
           \/ A!ReadReturns(t) \/ A!LookAgain(t) \/ (A!SaveFails(t) /\ ~aside)
  PROVE  A!Inv' /\ UNCHANGED <<rows, readable>>
<1>0. /\ aliasing[t] \in A!Call /\ aliasing[t].stamp <= stamp /\ stamp \in Nat /\ A!None \notin AliasThread
      /\ lock \in AliasThread \cup {A!None} /\ aliasing \in [AliasThread -> A!Call]
      /\ aside \in BOOLEAN /\ readable \in BOOLEAN
  BY FilesAssumption DEF A!Inv, A!TypeOK, A!StampsAreOfTheirTime, A!AliasStoreAssumption
<1>7. aside => ~readable /\ lock # A!None /\ aliasing[lock].pc = "saving"
  BY DEF A!Inv, A!AsideIsOfAWriter
<1>1. ASSUME NEW ask \in A!Ask, A!Begin(t, ask) PROVE A!Inv' /\ UNCHANGED <<rows, readable>>
  <2> DEFINE c == [aliasing[t] EXCEPT !.pc = IF ask.op = "read" THEN "stat" ELSE "waiting", !.ask = ask]
  <2>1. /\ aliasing' = [aliasing EXCEPT ![t] = c] /\ UNCHANGED <<rows, stamp, readable, aside, lock, cache>>
        /\ aliasing[t].pc = "idle"
    BY <1>0, <1>1 DEF A!Begin
  <2>2. c \in A!Call /\ c.stamp = aliasing[t].stamp /\ c.ask = ask /\ c.pc \in {"stat", "waiting"} /\ (ask.op # "read" => c.pc = "waiting")
    BY <1>0 DEF A!Call
  <2> HIDE DEF c
  <2> QED BY <1>0, <1>7, <2>1, <2>2, AliasesCallStep
<1>2. CASE A!TakeLock(t)
  <2> DEFINE c == [aliasing[t] EXCEPT !.pc = "stat"]
  <2>1. /\ aliasing' = [aliasing EXCEPT ![t] = c] /\ UNCHANGED <<rows, stamp, readable, aside, cache>>
        /\ lock = A!None /\ lock' = t
    BY <1>0, <1>2 DEF A!TakeLock, A!Goes, A!LockIsFree
  <2>2. c \in A!Call /\ c.stamp = aliasing[t].stamp /\ c.pc = "stat"
    BY <1>0 DEF A!Call
  <2> HIDE DEF c
  <2> QED BY <1>0, <1>7, <2>1, <2>2, AliasesCallStep
<1>3. CASE A!LockTimesOut(t) \/ A!ReadReturns(t)
  <2>1. /\ aliasing' = [aliasing EXCEPT ![t] = A!Idle] /\ UNCHANGED <<rows, stamp, readable, aside, lock, cache>>
        /\ aliasing[t].pc \in {"waiting", "loaded"}
    BY <1>3 DEF A!LockTimesOut, A!ReadReturns, A!Ends
  <2>2. A!Idle \in A!Call /\ A!Idle.stamp <= stamp /\ A!Idle.ask.op = "read" /\ A!Idle.pc = "idle"
    BY <1>0, AliasesIdle
  <2>3. lock' \in AliasThread \cup {A!None} /\ \A u \in AliasThread \ {t} : lock = u => lock' = u
    BY <1>0, <2>1
  <2>4. A!Inv'
    BY <1>0, <1>7, <2>1, <2>2, <2>3, AliasesCallStep
  <2> QED BY <2>1, <2>4
<1>4. CASE (A!SaveFails(t) /\ ~aside) \/ (A!ReadFails(t) /\ A!Writes(t))
  <2>1. /\ aliasing' = [aliasing EXCEPT ![t] = A!Idle] /\ UNCHANGED <<rows, stamp, readable, aside, cache>>
        /\ lock' = A!None
    BY <1>4 DEF A!SaveFails, A!ReadFails, A!Ends, A!Abandoned
  <2>2. lock = t
    BY <1>4 DEF A!SaveFails, A!ReadFails, A!Inv, A!WritersHoldTheLock
  <2>5. ~aside
    BY <1>4, <1>7, <2>2 DEF A!ReadFails
  <2>3. A!Idle \in A!Call /\ A!Idle.stamp <= stamp /\ A!Idle.ask.op = "read" /\ A!Idle.pc = "idle"
    BY <1>0, AliasesIdle
  <2>4. lock' \in AliasThread \cup {A!None} /\ \A u \in AliasThread \ {t} : lock = u => lock' = u
    BY <1>0, <2>1, <2>2
  <2>6. A!Inv'
    BY <1>0, <2>1, <2>3, <2>4, <2>5, AliasesCallStep
  <2> QED BY <2>1, <2>6
<1>5. CASE A!ReadFails(t) /\ ~A!Writes(t)
  <2> DEFINE c == [aliasing[t] EXCEPT !.pc = "loaded", !.rows = A!NoRows]
  <2>1. aliasing' = [aliasing EXCEPT ![t] = c] /\ UNCHANGED <<rows, stamp, readable, aside, lock, cache>>
    BY <1>0, <1>5 DEF A!ReadFails
  <2>2. /\ c \in A!Call /\ c.stamp = aliasing[t].stamp /\ c.ask = aliasing[t].ask /\ aliasing[t].ask.op = "read"
        /\ c.pc = "loaded" /\ aliasing[t].pc = "reading"
    <3>1. A!NoRows \in A!Rows
      BY DEF A!NoRows, A!Rows
    <3> QED BY <1>0, <1>5, <3>1 DEF A!Call, A!Writes, A!ReadFails
  <2> HIDE DEF c
  <2> QED BY <1>0, <1>7, <2>1, <2>2, AliasesCallStep
<1>6. CASE A!Stat(t)
  <2> DEFINE c == [aliasing[t] EXCEPT !.stamp = IF aside THEN 0 ELSE stamp, !.pc = IF A!CacheIsFresh(t) THEN "loaded" ELSE "reading",
                                      !.rows = IF A!CacheIsFresh(t) THEN A!Cached(t).rows ELSE aliasing[t].rows]
  <2>0. ThreadProcess[t] \in AliasProcess /\ A!Cached(t).rows \in A!Rows
    BY FilesAssumption DEF A!AliasStoreAssumption, A!Cached, A!Inv, A!TypeOK
  <2>6. UNCHANGED <<rows, stamp, readable, aside, lock, cache>> /\ aliasing[t].pc = "stat"
    BY <1>6 DEF A!Stat
  <2>7. aliasing' = [aliasing EXCEPT ![t] = c]
    BY <1>6 DEF A!Stat
  <2>2. c \in A!Call /\ c.stamp \in {0, stamp} /\ c.ask = aliasing[t].ask /\ c.pc \in {"loaded", "reading"}
    BY <1>0, <2>0 DEF A!Call
  <2>3. c.pc = "loaded" => c.rows = rows
    <3>1. c.pc = "loaded" => A!CacheIsFresh(t) /\ c.rows = A!Cached(t).rows
      BY <1>0 DEF A!Call
    <3>2. A!CacheIsFresh(t) => A!Cached(t).rows = rows
      BY <2>0 DEF A!CacheIsFresh, A!Cached, A!Inv, A!FreshCopyIsTrue
    <3> QED BY <3>1, <3>2
  <2>4. c.ask.op # "read" => lock = t
    BY <2>2, <2>6 DEF A!Inv, A!WritersHoldTheLock, A!Writes
  <2> HIDE DEF c
  <2>5. c.stamp <= stamp
    BY <1>0, <2>2
  <2>8. A!Inv'
    BY <1>0, <1>7, <2>2, <2>3, <2>4, <2>5, <2>6, <2>7, AliasesCallStep
  <2> QED BY <2>6, <2>8
<1>8. CASE A!LookAgain(t)
  <2> DEFINE c == [aliasing[t] EXCEPT !.pc = "saving"]
  <2>1. /\ aliasing' = [aliasing EXCEPT ![t] = c] /\ UNCHANGED <<rows, stamp, readable, lock, cache>>
        /\ aliasing[t].pc = "loaded" /\ A!Writes(t)
    BY <1>0, <1>8 DEF A!LookAgain, A!Goes
  <2>4. aside' = ~readable
    BY <1>8 DEF A!LookAgain
  <2>2. c \in A!Call /\ c.stamp = aliasing[t].stamp /\ c.ask = aliasing[t].ask /\ c.pc = "saving" /\ c.rows = aliasing[t].rows
    BY <1>0 DEF A!Call
  <2>3. lock = t /\ aliasing[t].rows = rows /\ c.ask.op # "read"
    BY <2>1, <2>2 DEF A!Inv, A!WritersHoldTheLock, A!Writes
  <2> HIDE DEF c
  <2>5. aside' \in BOOLEAN /\ (aside' => ~readable)
    BY <1>0, <2>4
  <2>6. A!Inv'
    BY <1>0, <2>1, <2>2, <2>3, <2>5, AliasesCallStep
  <2> QED BY <2>1, <2>6
<1> QED BY <1>1, <1>2, <1>3, <1>4, <1>5, <1>6, <1>8

LEMMA AliasesFailStep ==
  ASSUME A!Inv, NEW t \in AliasThread, A!SaveFails(t), aside
  PROVE  A!Inv' /\ A!Map!Next
<1>1. /\ aliasing \in [AliasThread -> A!Call] /\ lock = t /\ cache \in [AliasProcess -> [stamp : Nat, rows : A!Rows]]
  BY DEF A!Inv, A!TypeOK, A!WritersHoldTheLock, A!SaveFails
<1>2. /\ rows' = A!NoRows /\ readable' = TRUE /\ aside' = FALSE /\ stamp' = stamp + 1 /\ lock' = A!None /\ cache' = cache
      /\ aliasing' = [aliasing EXCEPT ![t] = A!Idle]
  BY DEF A!SaveFails, A!Abandoned, A!Ends
<1>3. aliasing' \in [AliasThread -> A!Call] /\ \A u \in AliasThread : aliasing'[u] = A!Idle \/ (aliasing'[u] = aliasing[u] /\ u # lock)
  BY <1>1, <1>2, AliasesIdle
<1> QED BY <1>1, <1>2, <1>3, AliasesGiveUp

LEMMA AliasesReadStep ==
  ASSUME A!Inv, NEW t \in AliasThread, A!Read(t)
  PROVE  A!Inv' /\ UNCHANGED <<rows, readable>>
<1> DEFINE c == [aliasing[t] EXCEPT !.rows = rows, !.pc = "loaded"]
           p == ThreadProcess[t]
<1>0. /\ aliasing[t] \in A!Call /\ aliasing[t].stamp \in Nat /\ aliasing[t].stamp <= stamp /\ stamp \in Nat
      /\ rows \in A!Rows /\ p \in AliasProcess
      /\ aliasing \in [AliasThread -> A!Call] /\ cache \in [AliasProcess -> [stamp : Nat, rows : A!Rows]]
  BY FilesAssumption DEF A!Inv, A!TypeOK, A!StampsAreOfTheirTime, A!AliasStoreAssumption, A!Call
<1>1. /\ aliasing' = [aliasing EXCEPT ![t] = c] /\ UNCHANGED <<rows, stamp, readable, aside, lock>> /\ readable
      /\ cache' \in {cache, [cache EXCEPT ![p] = [stamp |-> aliasing[t].stamp, rows |-> rows]]} /\ aliasing[t].pc = "reading"
  BY <1>0 DEF A!Read
<1>2. c \in A!Call /\ c.stamp = aliasing[t].stamp /\ c.ask = aliasing[t].ask /\ c.rows = rows /\ c.pc = "loaded"
  BY <1>0 DEF A!Call
<1> HIDE DEF c, p
<1>3. aliasing' \in [AliasThread -> A!Call] /\ aliasing'[t] = c /\ \A u \in AliasThread \ {t} : aliasing'[u] = aliasing[u]
  BY <1>0, <1>1, <1>2
<1>4. /\ cache' \in [AliasProcess -> [stamp : Nat, rows : A!Rows]]
      /\ cache'[p] = cache[p] \/ (cache'[p].stamp = aliasing[t].stamp /\ cache'[p].rows = rows)
      /\ \A q \in AliasProcess \ {p} : cache'[q] = cache[q]
  BY <1>0, <1>1
<1>5. A!TypeOK'
  BY <1>1, <1>3, <1>4 DEF A!Inv, A!TypeOK
<1>6. A!FreshCopyIsTrue'
  BY <1>1, <1>4 DEF A!Inv, A!FreshCopyIsTrue
<1>7. A!StampsAreOfTheirTime'
  BY <1>0, <1>1, <1>2, <1>3, <1>4 DEF A!Inv, A!StampsAreOfTheirTime
<1>8. A!WritersHoldTheLock'
  BY <1>1, <1>2, <1>3 DEF A!Inv, A!WritersHoldTheLock, A!Writes
<1>9. A!OnlyWritersSave' /\ A!AsideIsOfAWriter'
  BY <1>1, <1>2, <1>3 DEF A!Inv, A!OnlyWritersSave, A!AsideIsOfAWriter, A!Writes
<1> QED BY <1>1, <1>5, <1>6, <1>7, <1>8, <1>9 DEF A!Inv

(* What is saved is the map with one entry changed, or only migrated.      *)
LEMMA AliasesSaveStep ==
  ASSUME A!Inv, NEW t \in AliasThread, A!Save(t)
  PROVE  A!Inv' /\ A!Map!Next
<1> DEFINE p == ThreadProcess[t]
<1>0. /\ aliasing[t] \in A!Call /\ aliasing[t].ask \in A!Ask /\ stamp \in Nat /\ rows \in A!Rows /\ p \in AliasProcess
      /\ aliasing \in [AliasThread -> A!Call] /\ cache \in [AliasProcess -> [stamp : Nat, rows : A!Rows]]
  BY FilesAssumption DEF A!Inv, A!TypeOK, A!StampsAreOfTheirTime, A!AliasStoreAssumption, A!Call
<1>1. /\ aliasing' = [aliasing EXCEPT ![t] = A!Idle] /\ stamp' = stamp + 1 /\ readable' = TRUE /\ aside' = FALSE /\ lock' = A!None
      /\ cache' = [cache EXCEPT ![p].stamp = 0]
  BY DEF A!Save, A!Ends
<1>2. aliasing[t].ask.op # "read" /\ lock = t /\ aliasing[t].rows = rows
  BY DEF A!Save, A!Writes, A!Inv, A!WritersHoldTheLock, A!OnlyWritersSave
<1>3. rows' = A!Mutated(A!Migrated(rows), aliasing[t].ask)
  BY <1>2 DEF A!Save
<1>4. rows' \in A!Rows /\ A!Map!Next
  <2>1. A!Migrated(rows) = A!Map!Migrated(rows) /\ rows' \in A!Rows
    BY <1>0, <1>2, <1>3, AliasesMoveRows
  <2>3. \/ A!Mutated(A!Migrated(rows), aliasing[t].ask) = A!Migrated(rows)
        \/ \E alias \in AliasName, contact \in Contact \cup {0} :
             A!Mutated(A!Migrated(rows), aliasing[t].ask) = [A!Migrated(rows) EXCEPT ![<<Sole, alias>>] = contact]
    BY <1>0, <1>2, AliasesMoveRows
  <2>2. \/ rows' = A!Migrated(rows)
        \/ \E alias \in AliasName, contact \in Contact \cup {0} :
             rows' = [A!Migrated(rows) EXCEPT ![<<Sole, alias>>] = contact]
    BY <1>3, <2>3
  <2>4. (~readable)' = FALSE
    BY <1>1
  <2> QED BY <2>1, <2>2, <2>4 DEF A!Map!Next, A!Map!Update, A!Map!Change
<1> HIDE DEF p
<1>5. aliasing' \in [AliasThread -> A!Call] /\ aliasing'[t] = A!Idle /\ \A u \in AliasThread \ {t} : aliasing'[u] = aliasing[u]
  BY <1>0, <1>1, AliasesIdle
<1>6. /\ cache' \in [AliasProcess -> [stamp : Nat, rows : A!Rows]]
      /\ \A q \in AliasProcess : cache'[q].stamp \in {0, cache[q].stamp}
  BY <1>0, <1>1
<1>11. readable' \in BOOLEAN /\ aside' \in BOOLEAN
  BY <1>1
<1>7. A!TypeOK'
  BY <1>0, <1>1, <1>4, <1>5, <1>6, <1>11 DEF A!Inv, A!TypeOK
<1>8. A!FreshCopyIsTrue' /\ A!StampsAreOfTheirTime'
  <2>1. \A q \in AliasProcess : cache[q].stamp \in Nat /\ cache[q].stamp <= stamp
    BY <1>0 DEF A!Inv, A!StampsAreOfTheirTime
  <2>2. \A q \in AliasProcess : cache'[q].stamp < stamp'
    BY <1>0, <1>1, <1>6, <2>1
  <2>3. \A u \in AliasThread : aliasing[u].stamp \in Nat /\ aliasing[u].stamp <= stamp
    BY <1>0 DEF A!Inv, A!StampsAreOfTheirTime, A!Call
  <2>4. \A u \in AliasThread : aliasing'[u].stamp <= stamp'
    BY <1>0, <1>1, <1>5, <2>3, AliasesIdle
  <2>5. \A q \in AliasProcess : cache'[q].stamp <= stamp' /\ cache'[q].stamp # stamp'
    BY <1>0, <1>1, <1>6, <2>2
  <2> QED BY <2>4, <2>5 DEF A!FreshCopyIsTrue, A!StampsAreOfTheirTime
<1>9. A!WritersHoldTheLock'
  <2>1. \A u \in AliasThread \ {t} : A!Writes(u) => aliasing[u].pc \notin {"stat", "reading", "loaded", "saving"}
    BY <1>2 DEF A!Inv, A!WritersHoldTheLock
  <2> QED BY <1>5, <2>1, AliasesIdle DEF A!WritersHoldTheLock, A!Writes
<1>10. A!OnlyWritersSave' /\ A!AsideIsOfAWriter'
  BY <1>1, <1>5, AliasesIdle DEF A!Inv, A!OnlyWritersSave, A!AsideIsOfAWriter, A!Writes
<1> QED BY <1>4, <1>7, <1>8, <1>9, <1>10 DEF A!Inv

LEMMA AliasesCrashStep ==
  ASSUME A!Inv, NEW p \in AliasProcess, A!Crash(p)
  PROVE  A!Inv' /\ (UNCHANGED <<rows, readable>> \/ A!Map!Next)
<1> DEFINE holds == lock # A!None /\ ThreadProcess[lock] = p
<1>0. /\ stamp \in Nat \ {0} /\ aliasing \in [AliasThread -> A!Call] /\ cache \in [AliasProcess -> [stamp : Nat, rows : A!Rows]]
      /\ lock \in AliasThread \cup {A!None} /\ A!None \notin AliasThread
  BY FilesAssumption DEF A!Inv, A!TypeOK, A!AliasStoreAssumption
<1>1. /\ aliasing' = [t \in AliasThread |-> IF ThreadProcess[t] = p THEN A!Idle ELSE aliasing[t]]
      /\ lock' = (IF holds THEN A!None ELSE lock)
      /\ cache' = [cache EXCEPT ![p].stamp = 0] /\ A!Abandoned(holds)
  BY DEF A!Crash
<1>2. aliasing' \in [AliasThread -> A!Call] /\ \A t \in AliasThread : aliasing'[t] = A!Idle \/ (aliasing'[t] = aliasing[t] /\ ThreadProcess[t] # p)
  BY <1>0, <1>1, AliasesIdle
<1>3. /\ cache' \in [AliasProcess -> [stamp : Nat, rows : A!Rows]]
      /\ \A q \in AliasProcess : cache'[q].rows = cache[q].rows /\ cache'[q].stamp \in {0, cache[q].stamp}
  BY <1>0, <1>1
<1>4. lock' \in AliasThread \cup {A!None}
  BY <1>0, <1>1
<1>5. CASE aside /\ holds
  <2>1. rows' = A!NoRows /\ readable' = TRUE /\ aside' = FALSE /\ stamp' = stamp + 1 /\ lock' = A!None
    BY <1>1, <1>5 DEF A!Abandoned
  <2>2. \A t \in AliasThread : aliasing'[t] = A!Idle \/ (aliasing'[t] = aliasing[t] /\ t # lock)
    BY <1>2, <1>5
  <2> QED BY <1>2, <1>3, <1>5, <2>1, <2>2, AliasesGiveUp
<1>6. CASE ~(aside /\ holds)
  <2>1. UNCHANGED <<rows, stamp, readable, aside>>
    BY <1>1, <1>6 DEF A!Abandoned
  <2>2. A!TypeOK'
    BY <1>1, <1>2, <1>3, <1>4, <2>1 DEF A!Inv, A!TypeOK
  <2>3. A!FreshCopyIsTrue'
    BY <1>0, <1>1, <1>3, <2>1 DEF A!Inv, A!FreshCopyIsTrue
  <2>4. A!StampsAreOfTheirTime'
    BY <1>0, <1>1, <1>2, <1>3, <2>1, AliasesIdle DEF A!Inv, A!StampsAreOfTheirTime
  <2>5. A!WritersHoldTheLock'
    BY <1>0, <1>1, <1>2, <2>1, AliasesIdle DEF A!Inv, A!WritersHoldTheLock, A!Writes
  <2>6. A!OnlyWritersSave'
    BY <1>2, AliasesIdle DEF A!Inv, A!OnlyWritersSave, A!Writes
  <2>7. A!AsideIsOfAWriter'
    BY <1>0, <1>1, <1>6, <2>1 DEF A!Inv, A!AsideIsOfAWriter
  <2> QED BY <2>1, <2>2, <2>3, <2>4, <2>5, <2>6, <2>7 DEF A!Inv
<1> QED BY <1>5, <1>6

LEMMA AliasesDamageStep ==
  ASSUME A!Inv, A!Damage
  PROVE  A!Inv' /\ A!Map!Next
<1>1. /\ stamp \in Nat \ {0} /\ stamp' = stamp + 1 /\ readable' = FALSE /\ readable = TRUE
      /\ UNCHANGED <<rows, aside, lock, cache, aliasing>>
  BY DEF A!Damage, A!Inv, A!TypeOK
<1>2. /\ \A q \in AliasProcess : cache[q].stamp \in Nat /\ cache[q].stamp <= stamp
      /\ \A u \in AliasThread : aliasing[u].stamp \in Nat /\ aliasing[u].stamp <= stamp
  BY DEF A!Inv, A!StampsAreOfTheirTime, A!TypeOK, A!Call
<1>3. \A q \in AliasProcess : cache'[q].stamp <= stamp' /\ cache'[q].stamp # stamp'
  BY <1>1, <1>2
<1>4. \A u \in AliasThread : aliasing'[u].stamp <= stamp'
  BY <1>1, <1>2
<1>5. A!TypeOK'
  <2>1. stamp' \in Nat \ {0}
    BY <1>1
  <2>2. readable' \in BOOLEAN
    BY <1>1
  <2> QED BY <1>1, <2>1, <2>2 DEF A!Inv, A!TypeOK
<1>6. A!Map!Damage
  <2>1. ~(~readable) /\ (~readable)' = TRUE
    BY <1>1
  <2> QED BY <1>1, <2>1 DEF A!Map!Damage
<1>7. A!WritersHoldTheLock' /\ A!OnlyWritersSave' /\ A!AsideIsOfAWriter'
  BY <1>1 DEF A!Inv, A!WritersHoldTheLock, A!Writes, A!OnlyWritersSave, A!AsideIsOfAWriter
<1> QED BY <1>1, <1>3, <1>4, <1>5, <1>6, <1>7 DEF A!Inv, A!FreshCopyIsTrue, A!StampsAreOfTheirTime, A!Map!Next

LEMMA AliasesStep ==
  ASSUME A!Inv, [A!Next]_A!aliasVars
  PROVE  A!Inv' /\ [A!Map!Next]_<<rows, ~readable>>
<1>1. CASE UNCHANGED A!aliasVars
  BY <1>1 DEF A!aliasVars, A!Inv, A!TypeOK, A!FreshCopyIsTrue, A!StampsAreOfTheirTime, A!WritersHoldTheLock, A!Writes,
              A!OnlyWritersSave, A!AsideIsOfAWriter
<1>2. CASE A!Next
  <2>1. A!Inv' /\ (UNCHANGED <<rows, readable>> \/ A!Map!Next)
    BY <1>2, AliasesTurnStep, AliasesFailStep, AliasesReadStep, AliasesSaveStep, AliasesCrashStep, AliasesDamageStep DEF A!Next
  <2> QED BY <2>1
<1> QED BY <1>1, <1>2

LEMMA AliasesMapInit == A!Init => A!Map!Init
BY DEF A!Init, A!Rows, A!Map!Init

----------------------------------------------------------------------------
(* The theorems: a step of one part leaves the others as they are.         *)

----------------------------------------------------------------------------
(* Sums over finite sets.  The sets of terms a step could disagree on are  *)
(* well-founded under inclusion, so that what a recursive definition       *)
(* yields is known by its least counterexample.                            *)

(* What a sum over a set takes next, and what it takes it to.              *)
First(s) == CHOOSE x \in s : TRUE
Adds(f, g, s) == IF s = {} THEN 0 ELSE f[First(s)] + g[s \ {First(s)}]
IsTable(f, T, g) == g \in [SUBSET T -> Nat] /\ \A s \in SUBSET T : g[s] = Adds(f, g, s)

LEMMA Least == ASSUME NEW terms, IsFiniteSet(terms), NEW wrong, wrong \subseteq SUBSET terms, wrong # {}
               PROVE \E T \in wrong : \A U \in SUBSET T : U \in wrong => U = T
<1>1. IsWellFoundedOn(StrictSubsetOrdering(terms), SUBSET terms)
  BY FS_StrictSubsetOrderingWellFounded, FS_FiniteSubsetsOfFinite
<1>2. PICK T \in wrong : \A U \in wrong : ~(<<U, T>> \in StrictSubsetOrdering(terms))
  BY <1>1, WFMin
<1> QED BY <1>2 DEF StrictSubsetOrdering

LEMMA FirstIs == ASSUME NEW s, s # {} PROVE First(s) \in s
  BY DEF First

LEMMA TablesAgree ==
  ASSUME NEW T, IsFiniteSet(T), NEW f, NEW g, IsTable(f, T, g),
         NEW V, T \subseteq V, NEW h, IsTable(f, V, h)
  PROVE  \A s \in SUBSET T : g[s] = h[s]
<1> DEFINE wrong == {s \in SUBSET T : g[s] # h[s]}
<1> SUFFICES ASSUME wrong # {} PROVE FALSE
  OBVIOUS
<1>1. PICK s \in wrong : \A u \in SUBSET s : u \in wrong => u = s
  <2>1. wrong \subseteq SUBSET T
    OBVIOUS
  <2> HIDE DEF wrong
  <2> QED BY <2>1, Least
<1>2. s # {}
  BY <1>1 DEF IsTable, Adds
<1> DEFINE x == First(s)
<1>3. x \in s
  BY <1>2, FirstIs
<1> HIDE DEF x
<1>4. g[s \ {x}] = h[s \ {x}]
  BY <1>1, <1>3
<1>5. g[s] = f[x] + g[s \ {x}] /\ h[s] = f[x] + h[s \ {x}]
  BY <1>1, <1>2 DEF IsTable, Adds, x
<1> QED BY <1>1, <1>4, <1>5

LEMMA TableIsThere ==
  ASSUME NEW terms, IsFiniteSet(terms), NEW f \in [terms -> Nat]
  PROVE  \E g : IsTable(f, terms, g)
<1> DEFINE wrong == {T \in SUBSET terms : ~ \E g : IsTable(f, T, g)}
<1> SUFFICES ASSUME wrong # {} PROVE FALSE
  BY DEF wrong
<1>1. PICK T \in wrong : \A U \in SUBSET T : U \in wrong => U = T
  <2> HIDE DEF wrong
  <2>1. wrong \subseteq SUBSET terms
    BY DEF wrong
  <2> QED BY <2>1, Least
<1>2. \A U \in SUBSET T : U # T => \E g : IsTable(f, U, g)
  BY <1>1
<1> DEFINE G(U) == CHOOSE g : IsTable(f, U, g)
<1>3. ASSUME NEW U \in SUBSET T, U # T PROVE IsTable(f, U, G(U))
  <2>1. \E g : IsTable(f, U, g)
    BY <1>2, <1>3
  <2> QED BY <2>1
<1>4. T \in SUBSET terms
  BY <1>1
<1>5. ASSUME NEW U \in SUBSET T, U # T, NEW s \in SUBSET U PROVE G(U)[s] = G(s)[s]
  <2>1. s \in SUBSET T /\ s # T
    BY <1>5
  <2> HIDE DEF G
  <2>2. IsTable(f, s, G(s)) /\ IsTable(f, U, G(U))
    BY <1>3, <1>5, <2>1
  <2>3. s \subseteq terms /\ s \subseteq U /\ s \in SUBSET s
    BY <1>4, <1>5
  <2>4. \A r \in SUBSET s : G(s)[r] = G(U)[r]
    <3> DEFINE p == G(s)
               q == G(U)
    <3>1. IsTable(f, s, p) /\ IsTable(f, U, q)
      BY <2>2
    <3> HIDE DEF p, q
    <3>2. IsFiniteSet(s) /\ s \subseteq U
      BY <2>3, FS_Subset
    <3>4. \A r \in SUBSET s : p[r] = q[r]
      BY <3>1, <3>2, TablesAgree
    <3> QED BY <3>4 DEF p, q
  <2> QED BY <2>3, <2>4
<1> HIDE DEF G, wrong
<1> DEFINE x == First(T)
           g == [s \in SUBSET T |-> IF s # T THEN G(s)[s] ELSE IF T = {} THEN 0 ELSE f[x] + G(T \ {x})[T \ {x}]]
<1>6. T # {} => x \in T /\ T \ {x} # T /\ T \ {x} \in SUBSET T
  BY FirstIs
<1>7. ASSUME NEW s \in SUBSET T PROVE g[s] \in Nat
  <2>1. CASE s # T
    BY <1>3, <2>1 DEF IsTable
  <2>2. CASE s = T /\ T # {}
    <3>1. G(T \ {x})[T \ {x}] \in Nat
      <4> DEFINE U == T \ {x}
      <4>1. U \in SUBSET T /\ U # T
        BY <1>6, <2>2
      <4> HIDE DEF U
      <4>2. IsTable(f, U, G(U))
        BY <1>3, <4>1
      <4>3. G(U)[U] \in Nat
        BY <4>2 DEF IsTable
      <4> QED BY <4>3 DEF U
    <3>2. f[x] \in Nat
      BY <1>4, <1>6, <2>2
    <3> QED BY <2>2, <3>1, <3>2
  <2>3. CASE s = T /\ T = {}
    BY <2>3
  <2> QED BY <2>1, <2>2, <2>3
<1>8. ASSUME NEW s \in SUBSET T PROVE g[s] = Adds(f, g, s)
  <2>1. CASE s # T
    <3>1. IsTable(f, s, G(s)) /\ s \in SUBSET s
      BY <1>3, <2>1
    <3>2. G(s)[s] = Adds(f, G(s), s)
      BY <3>1 DEF IsTable
    <3>3. CASE s = {}
      BY <2>1, <3>2, <3>3 DEF Adds
    <3>4. CASE s # {}
      <4> DEFINE y == First(s)
      <4>1. y \in s
        BY <3>4, FirstIs
      <4> HIDE DEF y
      <4>2. s \ {y} \in SUBSET s /\ s \ {y} \in SUBSET T /\ s \ {y} # T
        BY <2>1, <4>1
      <4>3. G(s)[s \ {y}] = G(s \ {y})[s \ {y}]
        BY <1>5, <2>1, <4>2
      <4>4. g[s] = f[y] + G(s)[s \ {y}]
        BY <2>1, <3>2, <3>4 DEF Adds, y
      <4>5. Adds(f, g, s) = f[y] + g[s \ {y}]
        BY <3>4 DEF Adds, y
      <4> QED BY <4>2, <4>3, <4>4, <4>5
    <3> QED BY <3>3, <3>4
  <2>2. CASE s = T
    <3>1. CASE T = {}
      BY <2>2, <3>1 DEF Adds
    <3>2. CASE T # {}
      <4>1. g[T \ {x}] = G(T \ {x})[T \ {x}]
        BY <1>6, <3>2
      <4>2. g[T] = f[x] + G(T \ {x})[T \ {x}]
        BY <3>2
      <4>3. Adds(f, g, T) = f[x] + g[T \ {x}]
        BY <3>2 DEF Adds
      <4> QED BY <2>2, <4>1, <4>2, <4>3
    <3> QED BY <3>1, <3>2
  <2> QED BY <2>1, <2>2
<1>9. IsTable(f, T, g)
  <2>1. g \in [SUBSET T -> Nat]
    <3> HIDE DEF g
    <3>1. g = [s \in SUBSET T |-> g[s]]
      BY DEF g
    <3> QED BY <1>7, <3>1
  <2> HIDE DEF g
  <2> QED BY <1>8, <2>1 DEF IsTable
<1> QED BY <1>1, <1>9 DEF wrong

(* A sum, as MapThenSumSet() takes it.                                     *)
SumOf(f, terms) == (CHOOSE g : g = [s \in SUBSET terms |-> Adds(f, g, s)])[terms]

LEMMA SumIs ==
  ASSUME NEW terms, IsFiniteSet(terms), NEW f \in [terms -> Nat]
  PROVE  \E g : IsTable(f, terms, g) /\ SumOf(f, terms) = g[terms]
<1>1. PICK h : IsTable(f, terms, h)
  BY TableIsThere
<1>2. h = [s \in SUBSET terms |-> Adds(f, h, s)]
  <2>1. h = [s \in SUBSET terms |-> h[s]]
    BY <1>1 DEF IsTable
  <2> QED BY <1>1, <2>1 DEF IsTable
<1> DEFINE g == CHOOSE g : g = [s \in SUBSET terms |-> Adds(f, g, s)]
<1>3. g = [s \in SUBSET terms |-> Adds(f, g, s)]
  BY <1>2
<1>4. SumOf(f, terms) = g[terms]
  BY DEF SumOf
<1> HIDE DEF g
<1>5. \A s \in SUBSET terms : g[s] = Adds(f, g, s)
  BY <1>3
<1>6. \A s \in SUBSET terms : g[s] = h[s]
  <2> DEFINE wrong == {s \in SUBSET terms : g[s] # h[s]}
  <2> SUFFICES ASSUME wrong # {} PROVE FALSE
    OBVIOUS
  <2>1. PICK s \in wrong : \A u \in SUBSET s : u \in wrong => u = s
    <3>1. wrong \subseteq SUBSET terms
      OBVIOUS
    <3> HIDE DEF wrong
    <3> QED BY <3>1, Least
  <2>2. s # {}
    BY <1>1, <1>5, <2>1 DEF IsTable, Adds
  <2> DEFINE x == First(s)
  <2>3. x \in s
    BY <2>2, FirstIs
  <2> HIDE DEF x
  <2>4. g[s \ {x}] = h[s \ {x}]
    BY <2>1, <2>3
  <2>5. g[s] = f[x] + g[s \ {x}] /\ h[s] = f[x] + h[s \ {x}]
    BY <1>1, <1>5, <2>1, <2>2 DEF IsTable, Adds, x
  <2> QED BY <2>1, <2>4, <2>5
<1> QED BY <1>1, <1>4, <1>6

LEMMA SumChanges ==
  ASSUME NEW terms, IsFiniteSet(terms), NEW f \in [terms -> Nat], NEW h \in [terms -> Nat],
         NEW d \in terms, \A e \in terms : e # d => f[e] = h[e]
  PROVE  SumOf(f, terms) \in Nat /\ SumOf(h, terms) \in Nat /\ SumOf(h, terms) + f[d] = SumOf(f, terms) + h[d]
<1>1. PICK p : IsTable(f, terms, p) /\ SumOf(f, terms) = p[terms]
  BY SumIs
<1>2. PICK q : IsTable(h, terms, q) /\ SumOf(h, terms) = q[terms]
  BY SumIs
<1>3. \A s \in SUBSET terms : p[s] \in Nat /\ q[s] \in Nat
  BY <1>1, <1>2 DEF IsTable
<1>4. \A s \in SUBSET terms : d \notin s => p[s] = q[s]
  <2> DEFINE wrong == {s \in SUBSET terms : d \notin s /\ p[s] # q[s]}
  <2> SUFFICES ASSUME wrong # {} PROVE FALSE
    OBVIOUS
  <2>1. PICK s \in wrong : \A u \in SUBSET s : u \in wrong => u = s
    <3>1. wrong \subseteq SUBSET terms
      OBVIOUS
    <3> HIDE DEF wrong
    <3> QED BY <3>1, Least
  <2>2. s # {}
    BY <1>1, <1>2, <2>1 DEF IsTable, Adds
  <2> DEFINE x == First(s)
  <2>3. x \in s
    BY <2>2, FirstIs
  <2> HIDE DEF x
  <2>4. p[s \ {x}] = q[s \ {x}] /\ f[x] = h[x]
    BY <2>1, <2>3
  <2>5. p[s] = f[x] + p[s \ {x}] /\ q[s] = h[x] + q[s \ {x}]
    BY <1>1, <1>2, <2>1, <2>2 DEF IsTable, Adds, x
  <2> QED BY <2>1, <2>4, <2>5
<1>5. \A s \in SUBSET terms : d \in s => q[s] + f[d] = p[s] + h[d]
  <2> DEFINE wrong == {s \in SUBSET terms : d \in s /\ q[s] + f[d] # p[s] + h[d]}
  <2> SUFFICES ASSUME wrong # {} PROVE FALSE
    OBVIOUS
  <2>1. PICK s \in wrong : \A u \in SUBSET s : u \in wrong => u = s
    <3>1. wrong \subseteq SUBSET terms
      OBVIOUS
    <3> HIDE DEF wrong
    <3> QED BY <3>1, Least
  <2>2. s # {} /\ s \in SUBSET terms
    BY <2>1
  <2> DEFINE x == First(s)
  <2>3. x \in s
    BY <2>2, FirstIs
  <2> HIDE DEF x
  <2>4. p[s] = f[x] + p[s \ {x}] /\ q[s] = h[x] + q[s \ {x}]
    BY <1>1, <1>2, <2>2 DEF IsTable, Adds, x
  <2>5. f[x] \in Nat /\ h[x] \in Nat /\ s \ {x} \in SUBSET terms /\ f[d] \in Nat /\ h[d] \in Nat
    BY <2>2, <2>3
  <2>6. CASE x = d
    <3>1. p[s \ {x}] = q[s \ {x}]
      BY <1>4, <2>5, <2>6
    <3>2. q[s] + f[d] = p[s] + h[d]
      BY <1>3, <2>4, <2>5, <2>6, <3>1
    <3> QED BY <2>1, <3>2
  <2>7. CASE x # d
    <3>1. q[s \ {x}] + f[d] = p[s \ {x}] + h[d] /\ f[x] = h[x]
      BY <2>1, <2>3, <2>7
    <3>2. q[s] + f[d] = p[s] + h[d]
      BY <1>3, <2>4, <2>5, <3>1
    <3> QED BY <2>1, <3>2
  <2> QED BY <2>6, <2>7
<1> QED BY <1>1, <1>2, <1>3, <1>5

LEMMA SumOfNothing ==
  ASSUME NEW terms, IsFiniteSet(terms), NEW f \in [terms -> Nat], \A e \in terms : f[e] = 0
  PROVE  SumOf(f, terms) = 0
<1>1. PICK p : IsTable(f, terms, p) /\ SumOf(f, terms) = p[terms]
  BY SumIs
<1> DEFINE wrong == {s \in SUBSET terms : p[s] # 0}
<1> SUFFICES ASSUME wrong # {} PROVE FALSE
  BY <1>1
<1>2. PICK s \in wrong : \A u \in SUBSET s : u \in wrong => u = s
  <2>1. wrong \subseteq SUBSET terms
    OBVIOUS
  <2> HIDE DEF wrong
  <2> QED BY <2>1, Least
<1>3. s # {}
  BY <1>1, <1>2 DEF IsTable, Adds
<1> DEFINE x == First(s)
<1>4. x \in s
  BY <1>3, FirstIs
<1> HIDE DEF x
<1>5. p[s \ {x}] = 0 /\ f[x] = 0
  BY <1>2, <1>4
<1>6. p[s] = f[x] + p[s \ {x}]
  BY <1>1, <1>2, <1>3 DEF IsTable, Adds, x
<1> QED BY <1>2, <1>5, <1>6

(* A sum can be taken in any order, and one more term is one more to add.  *)
LEMMA SumTakesAny ==
  ASSUME NEW terms, IsFiniteSet(terms), NEW f \in [terms -> Nat], NEW g, IsTable(f, terms, g)
  PROVE  \A s \in SUBSET terms : \A x \in s : g[s] = f[x] + g[s \ {x}]
<1> DEFINE wrong == {s \in SUBSET terms : \E x \in s : g[s] # f[x] + g[s \ {x}]}
<1> SUFFICES ASSUME wrong # {} PROVE FALSE
  OBVIOUS
<1>1. PICK s \in wrong : \A u \in SUBSET s : u \in wrong => u = s
  <2>1. wrong \subseteq SUBSET terms
    OBVIOUS
  <2> HIDE DEF wrong
  <2> QED BY <2>1, Least
<1>2. PICK x \in s : g[s] # f[x] + g[s \ {x}]
  BY <1>1
<1> DEFINE y == First(s)
<1>3. y \in s /\ s \in SUBSET terms
  BY <1>1, <1>2, FirstIs
<1>4. g[s] = f[y] + g[s \ {y}]
  BY <1>2, <1>3 DEF IsTable, Adds
<1> HIDE DEF y
<1>5. x # y
  BY <1>2, <1>4
<1>6. s \ {x} \in SUBSET s /\ s \ {x} # s /\ s \ {y} \in SUBSET s /\ s \ {y} # s
  BY <1>2, <1>3
<1>7. s \ {x} \notin wrong /\ s \ {y} \notin wrong
  BY <1>1, <1>6
<1>8. s \ {x} \in SUBSET terms /\ s \ {y} \in SUBSET terms /\ y \in s \ {x} /\ x \in s \ {y}
  BY <1>2, <1>3, <1>5
<1>9. g[s \ {x}] = f[y] + g[(s \ {x}) \ {y}] /\ g[s \ {y}] = f[x] + g[(s \ {y}) \ {x}]
  BY <1>7, <1>8
<1>10. (s \ {x}) \ {y} = (s \ {y}) \ {x}
  OBVIOUS
<1>11. f[x] \in Nat /\ f[y] \in Nat /\ g[(s \ {x}) \ {y}] \in Nat
  BY <1>3, <1>8 DEF IsTable
<1> HIDE DEF wrong
<1>12. f[y] + (f[x] + g[(s \ {y}) \ {x}]) = f[x] + (f[y] + g[(s \ {x}) \ {y}])
  <2> DEFINE rest == g[(s \ {x}) \ {y}]
             a == f[x]
             b == f[y]
  <2>1. a \in Nat /\ b \in Nat /\ rest \in Nat /\ g[(s \ {y}) \ {x}] = rest
    BY <1>10, <1>11
  <2> HIDE DEF rest, a, b
  <2>2. b + (a + rest) = a + (b + rest)
    BY <2>1
  <2> QED BY <2>1, <2>2 DEF a, b, rest
<1>13. g[s] = f[x] + g[s \ {x}]
  BY <1>4, <1>9, <1>12
<1> QED BY <1>2, <1>13

LEMMA SumAdds ==
  ASSUME NEW terms, IsFiniteSet(terms), NEW d, d \notin terms, NEW f \in [terms \cup {d} -> Nat], NEW h \in [terms -> Nat],
         \A e \in terms : f[e] = h[e]
  PROVE  SumOf(h, terms) \in Nat /\ SumOf(f, terms \cup {d}) = SumOf(h, terms) + f[d]
<1> DEFINE T == terms \cup {d}
<1>1. IsFiniteSet(T) /\ T \in SUBSET T /\ d \in T /\ T \ {d} = terms /\ terms \in SUBSET terms /\ terms \subseteq T
  BY FS_AddElement
<1>2. PICK p : IsTable(f, T, p) /\ SumOf(f, T) = p[T]
  BY <1>1, SumIs
<1>3. PICK q : IsTable(h, terms, q) /\ SumOf(h, terms) = q[terms]
  BY SumIs
<1>4. p[T] = f[d] + p[terms]
  BY <1>1, <1>2, SumTakesAny
<1>5. \A s \in SUBSET terms : p[s] = q[s]
  <2> DEFINE wrong == {s \in SUBSET terms : p[s] # q[s]}
  <2> SUFFICES ASSUME wrong # {} PROVE FALSE
    OBVIOUS
  <2>1. PICK s \in wrong : \A u \in SUBSET s : u \in wrong => u = s
    <3>1. wrong \subseteq SUBSET terms
      OBVIOUS
    <3> HIDE DEF wrong
    <3> QED BY <3>1, Least
  <2>2. s # {} /\ s \in SUBSET T
    BY <1>1, <1>2, <1>3, <2>1 DEF IsTable, Adds
  <2> DEFINE x == First(s)
  <2>3. x \in s
    BY <2>2, FirstIs
  <2> HIDE DEF x
  <2>4. p[s \ {x}] = q[s \ {x}] /\ f[x] = h[x]
    BY <2>1, <2>3
  <2>5. p[s] = f[x] + p[s \ {x}] /\ q[s] = h[x] + q[s \ {x}]
    BY <1>2, <1>3, <2>1, <2>2 DEF IsTable, Adds, x
  <2> QED BY <2>1, <2>4, <2>5
<1>6. p[terms] = q[terms] /\ q[terms] \in Nat /\ f[d] \in Nat
  BY <1>1, <1>3, <1>5 DEF IsTable
<1> QED BY <1>2, <1>3, <1>4, <1>6

LEMMA MoreShares == ASSUME NEW k \in Nat, NEW m \in Nat, NEW s \in Nat, k <= m PROVE k * s \in Nat /\ m * s \in Nat /\ k * s <= m * s
<1>1. m - k \in Nat
  OBVIOUS
<1>2. m * s = k * s + (m - k) * s
  OBVIOUS
<1>3. (m - k) * s \in Nat /\ k * s \in Nat
  BY <1>1
<1> QED BY <1>2, <1>3

(* The previews of a call: what was promised to its documents and what     *)
(* they handed over are sums, and a step changes one term of each.         *)
LEMMA PicturesCount == \A all : (P!IsFiniteSet(all) <=> IsFiniteSet(all)) /\ P!Cardinality(all) = Cardinality(all)
<1>1. \A all : P!IsFiniteSet(all) <=> IsFiniteSet(all)
  BY DEF P!IsFiniteSet, IsFiniteSet
<1>2. \A all : P!Cardinality(all) = Cardinality(all)
  BY DEF P!Cardinality, Cardinality
<1> QED BY <1>1, <1>2

LEMMA PicturesAreBoundedByNumbers ==
  /\ IsFiniteSet(PictureDoc) /\ PictureDoc # {}
  /\ PictureTotal \in Nat \ {0} /\ PictureMost \in Nat \ {0} /\ PictureWidth \in Nat \ {0} /\ PictureCount \in Nat \ {0}
  /\ PictureTotal >= Cardinality(PictureDoc)
  BY FilesAssumption, PicturesCount DEF FilesAssumption, P!PreviewAssumption

HandedOver(docs, of) == [d \in docs |-> of[d].bytes]
PromisedTo(docs, of) == [d \in docs |-> IF of[d].pc = "decoding" THEN of[d].allowance ELSE 0]

LEMMA HandedIsASum ==
  /\ P!Handed = SumOf(HandedOver(preview.docs, item), preview.docs)
  /\ P!Handed' = SumOf(HandedOver(preview'.docs, item'), preview'.docs)
<1>1. ASSUME NEW terms, NEW f, f = [d \in terms |-> item[d].bytes]
      PROVE  P!MapThenSumSet(LAMBDA d : item[d].bytes, terms) = SumOf(f, terms)
  BY <1>1 DEF P!MapThenSumSet, P!MapThenFoldSet, SumOf, Adds, First
<1>3. P!Handed = SumOf(HandedOver(preview.docs, item), preview.docs)
  BY <1>1 DEF P!Handed, HandedOver
<1>4. P!Handed' = SumOf(HandedOver(preview'.docs, item'), preview'.docs)
  BY DEF P!Handed, P!MapThenSumSet, P!MapThenFoldSet, HandedOver, SumOf, Adds, First
<1> QED BY <1>3, <1>4

(* One document moves, and the others stay as they are.                    *)
LEMMA PromisedIsASum ==
  /\ P!Promised = SumOf(PromisedTo(preview.docs, item), preview.docs)
  /\ P!Promised' = SumOf(PromisedTo(preview'.docs, item'), preview'.docs)
<1>1. ASSUME NEW terms, NEW f, f = [d \in terms |-> IF item[d].pc = "decoding" THEN item[d].allowance ELSE 0]
      PROVE  P!MapThenSumSet(LAMBDA d : IF item[d].pc = "decoding" THEN item[d].allowance ELSE 0, terms) = SumOf(f, terms)
  BY <1>1 DEF P!MapThenSumSet, P!MapThenFoldSet, SumOf, Adds, First
<1>2. P!Promised = SumOf(PromisedTo(preview.docs, item), preview.docs)
  BY <1>1 DEF P!Promised, PromisedTo
<1>3. P!Promised' = SumOf(PromisedTo(preview'.docs, item'), preview'.docs)
  BY DEF P!Promised, P!MapThenSumSet, P!MapThenFoldSet, PromisedTo, SumOf, Adds, First
<1> QED BY <1>2, <1>3

LEMMA DocsAreFinite ==
  ASSUME P!TypeOK
  PROVE  /\ IsFiniteSet(preview.docs) /\ preview.docs \subseteq PictureDoc
         /\ HandedOver(preview.docs, item) \in [preview.docs -> Nat]
         /\ PromisedTo(preview.docs, item) \in [preview.docs -> Nat]
<1>1. preview.docs \subseteq PictureDoc
  BY DEF P!TypeOK
<1>2. \A d \in preview.docs : item[d].bytes \in Nat /\ item[d].allowance \in Nat
  BY <1>1 DEF P!TypeOK, P!Item
<1> QED BY <1>1, <1>2, PicturesAreBoundedByNumbers, FS_Subset DEF HandedOver, PromisedTo

LEMMA AccountsMove ==
  ASSUME P!TypeOK, NEW d \in preview.docs, preview'.docs = preview.docs,
         item'[d].bytes \in Nat, item'[d].allowance \in Nat,
         \A e \in preview.docs : e # d => item'[e] = item[e]
  PROVE  /\ P!Handed \in Nat /\ P!Handed' \in Nat /\ P!Promised \in Nat /\ P!Promised' \in Nat
         /\ P!Handed' + item[d].bytes = P!Handed + item'[d].bytes
         /\ P!Promised' + (IF item[d].pc = "decoding" THEN item[d].allowance ELSE 0)
              = P!Promised + (IF item'[d].pc = "decoding" THEN item'[d].allowance ELSE 0)
<1> DEFINE docs == preview.docs
           f == HandedOver(docs, item)
           h == HandedOver(docs, item')
           p == PromisedTo(docs, item)
           q == PromisedTo(docs, item')
<1>1. IsFiniteSet(docs) /\ f \in [docs -> Nat] /\ p \in [docs -> Nat]
  BY DocsAreFinite
<1>2. h \in [docs -> Nat] /\ q \in [docs -> Nat]
  <2>1. \A e \in docs : item[e].bytes \in Nat /\ item[e].allowance \in Nat
    BY DEF P!TypeOK, P!Item
  <2>2. \A e \in docs : item'[e].bytes \in Nat /\ item'[e].allowance \in Nat
    BY <2>1
  <2> QED BY <2>2 DEF HandedOver, PromisedTo
<1>3. \A e \in docs : e # d => f[e] = h[e] /\ p[e] = q[e]
  BY DEF HandedOver, PromisedTo
<1>4. /\ f[d] = item[d].bytes /\ h[d] = item'[d].bytes
      /\ p[d] = (IF item[d].pc = "decoding" THEN item[d].allowance ELSE 0)
      /\ q[d] = (IF item'[d].pc = "decoding" THEN item'[d].allowance ELSE 0)
  BY DEF HandedOver, PromisedTo
<1>5. d \in docs
  OBVIOUS
<1>6. /\ P!Handed = SumOf(f, docs) /\ P!Handed' = SumOf(h, docs)
      /\ P!Promised = SumOf(p, docs) /\ P!Promised' = SumOf(q, docs)
  BY HandedIsASum, PromisedIsASum
<1> HIDE DEF f, h, p, q, docs
<1>7. SumOf(f, docs) \in Nat /\ SumOf(h, docs) \in Nat /\ SumOf(h, docs) + f[d] = SumOf(f, docs) + h[d]
  <2>1. IsFiniteSet(docs) /\ f \in [docs -> Nat] /\ h \in [docs -> Nat]
    BY <1>1, <1>2
  <2>2. \A e \in docs : e # d => f[e] = h[e]
    BY <1>3
  <2> QED BY <1>5, <2>1, <2>2, SumChanges
<1>8. SumOf(p, docs) \in Nat /\ SumOf(q, docs) \in Nat /\ SumOf(q, docs) + p[d] = SumOf(p, docs) + q[d]
  <2>1. IsFiniteSet(docs) /\ p \in [docs -> Nat] /\ q \in [docs -> Nat]
    BY <1>1, <1>2
  <2>2. \A e \in docs : e # d => p[e] = q[e]
    BY <1>3
  <2> QED BY <1>5, <2>1, <2>2, SumChanges
<1> QED BY <1>4, <1>6, <1>7, <1>8

(* A share is at least one, and there is one for each document.            *)
LEMMA SharesAreThere ==
  ASSUME P!TypeOK, preview.docs # {}
  PROVE  /\ Cardinality(preview.docs) \in Nat \ {0} /\ P!Share \in Nat /\ P!Share >= 1
         /\ Cardinality(preview.docs) * P!Share <= PictureTotal
         /\ P!Share = PictureTotal \div Cardinality(preview.docs)
<1> DEFINE n == Cardinality(preview.docs)
<1>1. preview.docs \subseteq PictureDoc /\ IsFiniteSet(preview.docs)
  BY DocsAreFinite
<1>2. n \in Nat /\ n # 0 /\ n <= Cardinality(PictureDoc) /\ Cardinality(PictureDoc) \in Nat
  BY <1>1, PicturesAreBoundedByNumbers, FS_CardinalityType, FS_Subset, FS_EmptySet
<1>3. n \in Nat \ {0} /\ n <= PictureTotal /\ PictureTotal \in Nat
  BY <1>2, PicturesAreBoundedByNumbers
<1>4. P!Share = PictureTotal \div n
  BY PicturesCount DEF P!Share
<1> HIDE DEF n
<1>5. PictureTotal \div n \in Nat /\ PictureTotal \div n >= 1 /\ n * (PictureTotal \div n) <= PictureTotal
  BY <1>3
<1> QED BY <1>3, <1>4, <1>5 DEF n

LEMMA OneMoreShare == ASSUME NEW k \in Nat, NEW n \in Nat, NEW s \in Nat, k < n
                      PROVE k * s \in Nat /\ (k + 1) * s = k * s + s /\ k * s + s <= n * s
<1>1. n - (k + 1) \in Nat
  OBVIOUS
<1>2. n * s = k * s + s + (n - (k + 1)) * s
  OBVIOUS
<1>3. (n - (k + 1)) * s \in Nat /\ k * s \in Nat
  BY <1>1
<1> QED BY <1>2, <1>3

LEMMA WaitingHasAShare ==
  ASSUME P!Inv, preview.ledger, NEW d \in preview.docs, item[d].pc \notin {"decoding", "done"}
  PROVE  P!Available \in Nat /\ P!Available >= P!Share /\ P!Allowance = P!Share
<1> DEFINE n == Cardinality(preview.docs)
           k == Cardinality(P!HadTheirTurn)
<1>1. IsFiniteSet(preview.docs) /\ preview.docs # {}
  BY DocsAreFinite DEF P!Inv
<1>2. n \in Nat \ {0} /\ P!Share \in Nat /\ P!Share >= 1 /\ n * P!Share <= PictureTotal /\ P!Share = PictureTotal \div n
  BY <1>1, SharesAreThere DEF P!Inv
<1>3. P!HadTheirTurn \subseteq preview.docs \ {d}
  BY DEF P!HadTheirTurn
<1>4. IsFiniteSet(preview.docs \ {d}) /\ Cardinality(preview.docs \ {d}) = n - 1
  BY <1>1, FS_RemoveElement
<1>5. k \in Nat /\ k <= n - 1
  BY <1>3, <1>4, FS_Subset, FS_CardinalityType
<1>6. ledger.spent \in Nat /\ ledger.reserved \in Nat /\ ledger.spent + ledger.reserved <= k * P!Share
  BY PicturesCount DEF P!Inv, P!TypeOK, P!LedgerIsOfTheItems
<1> HIDE DEF n, k
<1>7. k < n /\ n \in Nat
  BY <1>2, <1>5
<1>8. k * P!Share \in Nat /\ k * P!Share + P!Share <= n * P!Share
  BY <1>2, <1>5, <1>7, OneMoreShare
<1>9. n * P!Share \in Nat /\ PictureTotal \in Nat
  BY <1>2, PicturesAreBoundedByNumbers
<1>10. P!Available = PictureTotal - ledger.spent - ledger.reserved
  BY DEF P!Available
<1>11. P!Available \in Nat /\ P!Available >= P!Share
  BY <1>2, <1>6, <1>8, <1>9, <1>10
<1>12. P!Allowance = (IF P!Share < P!Available THEN P!Share ELSE P!Available)
  BY <1>2, PicturesCount DEF P!Allowance, P!Least, n
<1> QED BY <1>2, <1>11, <1>12

LEMMA PreviewInit == ASSUME P!Init PROVE P!Inv
<1>1. P!TypeOK
  BY DEF P!Init, P!TypeOK, P!Fresh, P!NoWorker, P!Item, P!Worker
<1>2. P!WorkersKeepToTheirItems
  BY PicturesAreBoundedByNumbers DEF P!Init, P!WorkersKeepToTheirItems, P!Fresh, P!NoWorker, P!Ceiling, P!Least
<1>3. P!LedgerIsOfTheItems
  BY DEF P!Init, P!LedgerIsOfTheItems
<1>4. P!InFlight = {}
  BY DEF P!Init, P!InFlight
<1>5. P!Cardinality(P!InFlight) <= PictureWidth
  BY <1>4, PicturesCount, FS_EmptySet, PicturesAreBoundedByNumbers
<1> QED BY <1>1, <1>2, <1>3, <1>5 DEF P!Inv, P!Init

(* A step of the workers: the accounts stay.                               *)
LEMMA WorkersMove ==
  ASSUME P!Inv, UNCHANGED <<preview, item, ledger>>, P!TypeOK', P!WorkersKeepToTheirItems'
  PROVE  P!Inv'
<1>1. P!Handed' = P!Handed /\ P!Promised' = P!Promised
  BY HandedIsASum, PromisedIsASum
<1>2. P!LedgerIsOfTheItems'
  BY <1>1 DEF P!Inv, P!LedgerIsOfTheItems, P!HadTheirTurn, P!Share
<1>3. P!InFlight' = P!InFlight
  BY DEF P!InFlight
<1> QED BY <1>2, <1>3 DEF P!Inv

LEMMA WorkerMoves ==
  ASSUME P!Inv, NEW d \in PictureDoc, NEW w \in P!Worker, worker' = [worker EXCEPT ![d] = w],
         UNCHANGED <<preview, item, ledger, late>>, spooled' = (IF w.pc = "decoding" THEN spooled \cup {d} ELSE spooled \ {d}),
         w.emitted <= P!Ceiling(d), w.pc \in {"queued", "decoding"} => worker[d].pc \in {"queued", "decoding"}
  PROVE  P!Inv'
<1>1. P!TypeOK'
  BY DEF P!Inv, P!TypeOK
<1>2. P!WorkersKeepToTheirItems'
  <2> SUFFICES ASSUME NEW e \in PictureDoc
               PROVE  /\ worker'[e].emitted <= P!Ceiling(e)'
                      /\ worker'[e].pc \in {"queued", "decoding"} => item'[e].pc = "decoding"
                      /\ worker'[e].pc = "decoding" <=> e \in spooled'
                      /\ item'[e].pc = "none" <=> e \notin preview'.docs
                      /\ item'[e].pc # "done" => item'[e].bytes = 0
    BY DEF P!WorkersKeepToTheirItems
  <2>1. P!Ceiling(e)' = P!Ceiling(e)
    BY DEF P!Ceiling, P!Least
  <2>2. worker'[e] = (IF e = d THEN w ELSE worker[e])
    BY DEF P!Inv, P!TypeOK
  <2> QED BY <2>1, <2>2 DEF P!Inv, P!WorkersKeepToTheirItems
<1> QED BY <1>1, <1>2, WorkersMove

(* A step of one document's item.                                          *)
LEMMA ItemMoves ==
  ASSUME P!Inv, NEW d \in preview.docs, NEW r \in P!Item, item' = [item EXCEPT ![d] = r],
         UNCHANGED <<preview, spooled, late>>, P!TypeOK',
         \A e \in PictureDoc : e # d => worker'[e] = worker[e],
         preview.pc # "ended",
         worker'[d].emitted <= P!Least(r.allowance, PictureMost),
         worker'[d].pc \in {"queued", "decoding"} => r.pc = "decoding",
         worker'[d].pc = "decoding" <=> worker[d].pc = "decoding",
         r.pc # "none", r.pc # "done" => r.bytes = 0,
         P!LedgerIsOfTheItems',
         P!Cardinality(P!InFlight)' <= PictureWidth
  PROVE  P!Inv'
<1>1. P!WorkersKeepToTheirItems'
  <2> SUFFICES ASSUME NEW e \in PictureDoc
               PROVE  /\ worker'[e].emitted <= P!Ceiling(e)'
                      /\ worker'[e].pc \in {"queued", "decoding"} => item'[e].pc = "decoding"
                      /\ worker'[e].pc = "decoding" <=> e \in spooled'
                      /\ item'[e].pc = "none" <=> e \notin preview'.docs
                      /\ item'[e].pc # "done" => item'[e].bytes = 0
    BY DEF P!WorkersKeepToTheirItems
  <2>1. item'[e] = (IF e = d THEN r ELSE item[e])
    BY DEF P!Inv, P!TypeOK
  <2>2. P!Ceiling(e)' = (IF e = d THEN P!Least(r.allowance, PictureMost) ELSE P!Ceiling(e))
    BY <2>1 DEF P!Ceiling, P!Least
  <2> QED BY <2>1, <2>2 DEF P!Inv, P!WorkersKeepToTheirItems
<1> QED BY <1>1 DEF P!Inv

(* The document had its turn before or has it now, and what the call holds *)
(* is not more than it was, but for a document that enters.                *)
LEMMA TurnsAreCounted ==
  ASSUME P!Inv, NEW d \in preview.docs, NEW r \in P!Item, item' = [item EXCEPT ![d] = r], UNCHANGED preview
  PROVE  /\ IsFiniteSet(P!HadTheirTurn) /\ Cardinality(P!HadTheirTurn) \in Nat
         /\ item[d].pc \in {"decoding", "done"} /\ r.pc \in {"decoding", "done"}
              => P!HadTheirTurn' = P!HadTheirTurn
         /\ item[d].pc \notin {"decoding", "done"} /\ r.pc \notin {"decoding", "done"}
              => P!HadTheirTurn' = P!HadTheirTurn
         /\ item[d].pc \notin {"decoding", "done"} /\ r.pc \in {"decoding", "done"}
              => Cardinality(P!HadTheirTurn') = Cardinality(P!HadTheirTurn) + 1
         /\ item[d].pc \notin {"none", "gated", "done"} => Cardinality(P!InFlight') <= Cardinality(P!InFlight)
         /\ Cardinality(P!InFlight') <= Cardinality(P!InFlight) + 1 /\ Cardinality(P!InFlight) \in Nat
         /\ Cardinality(P!InFlight') \in Nat
<1>1. IsFiniteSet(preview.docs) /\ preview.docs \subseteq PictureDoc
  BY DocsAreFinite DEF P!Inv
<1>2. \A e \in preview.docs : item'[e] = IF e = d THEN r ELSE item[e]
  BY <1>1 DEF P!Inv, P!TypeOK
<1>3. IsFiniteSet(P!HadTheirTurn) /\ IsFiniteSet(P!InFlight) /\ IsFiniteSet(P!InFlight')
  <2>1. P!HadTheirTurn \subseteq preview.docs /\ P!InFlight \subseteq preview.docs /\ P!InFlight' \subseteq preview.docs
    BY DEF P!HadTheirTurn, P!InFlight
  <2> QED BY <1>1, <2>1, FS_Subset
<1>4. ASSUME item[d].pc \notin {"decoding", "done"}, r.pc \in {"decoding", "done"}
      PROVE  Cardinality(P!HadTheirTurn') = Cardinality(P!HadTheirTurn) + 1
  <2>1. P!HadTheirTurn' = P!HadTheirTurn \cup {d} /\ d \notin P!HadTheirTurn
    BY <1>2, <1>4 DEF P!HadTheirTurn
  <2> QED BY <1>3, <2>1, FS_AddElement
<1>5. P!InFlight' \subseteq P!InFlight \cup {d}
  BY <1>2 DEF P!InFlight
<1>6. Cardinality(P!InFlight') <= Cardinality(P!InFlight \cup {d}) /\ Cardinality(P!InFlight \cup {d}) <= Cardinality(P!InFlight) + 1
  BY <1>3, <1>5, FS_AddElement, FS_Subset, FS_CardinalityType
<1>7. ASSUME item[d].pc \notin {"none", "gated", "done"} PROVE Cardinality(P!InFlight') <= Cardinality(P!InFlight)
  <2>1. P!InFlight' \subseteq P!InFlight
    BY <1>2, <1>7 DEF P!InFlight
  <2> QED BY <1>3, <2>1, FS_Subset
<1>8. (item[d].pc \in {"decoding", "done"} <=> r.pc \in {"decoding", "done"}) => P!HadTheirTurn' = P!HadTheirTurn
  BY <1>2 DEF P!HadTheirTurn
<1>9. Cardinality(P!HadTheirTurn) \in Nat /\ Cardinality(P!InFlight) \in Nat /\ Cardinality(P!InFlight') \in Nat
        /\ Cardinality(P!InFlight \cup {d}) \in Nat
  BY <1>3, FS_CardinalityType, FS_AddElement
<1> QED BY <1>3, <1>4, <1>6, <1>7, <1>8, <1>9

LEMMA AccountsOf ==
  ASSUME P!Inv, NEW d \in preview.docs, NEW r \in P!Item, item' = [item EXCEPT ![d] = r], UNCHANGED preview
  PROVE  /\ P!Handed \in Nat /\ P!Handed' \in Nat /\ P!Promised \in Nat /\ P!Promised' \in Nat
         /\ P!Handed' + item[d].bytes = P!Handed + r.bytes
         /\ P!Promised' + (IF item[d].pc = "decoding" THEN item[d].allowance ELSE 0)
              = P!Promised + (IF r.pc = "decoding" THEN r.allowance ELSE 0)
         /\ P!Share' = P!Share
<1>1. d \in PictureDoc /\ P!TypeOK
  BY DEF P!Inv, P!TypeOK
<1>2. item'[d] = r /\ \A e \in preview.docs : e # d => item'[e] = item[e]
  BY <1>1 DEF P!TypeOK
<1>3. r.bytes \in Nat /\ r.allowance \in Nat
  BY DEF P!Item
<1>4. P!Share' = P!Share
  BY DEF P!Share
<1>5. preview'.docs = preview.docs
  OBVIOUS
<1>6. /\ P!Handed \in Nat /\ P!Handed' \in Nat /\ P!Promised \in Nat /\ P!Promised' \in Nat
      /\ P!Handed' + item[d].bytes = P!Handed + item'[d].bytes
      /\ P!Promised' + (IF item[d].pc = "decoding" THEN item[d].allowance ELSE 0)
              = P!Promised + (IF item'[d].pc = "decoding" THEN item'[d].allowance ELSE 0)
  BY <1>1, <1>2, <1>3, <1>5, AccountsMove
<1> QED BY <1>2, <1>4, <1>6

LEMMA SameSum == ASSUME NEW a \in Nat, NEW b \in Nat, NEW x, NEW y, x = 0, y = 0, a + x = b + y PROVE a = b
  OBVIOUS

LEMMA LedgerStays ==
  ASSUME P!Inv, NEW d \in preview.docs, NEW r \in P!Item, item' = [item EXCEPT ![d] = r], UNCHANGED <<preview, ledger>>,
         item[d].pc \notin {"decoding", "done"}, r.pc # "decoding", r.bytes = 0
  PROVE  P!LedgerIsOfTheItems'
<1>1. CASE ~preview.ledger
  BY <1>1 DEF P!Inv, P!LedgerIsOfTheItems
<1>2. CASE preview.ledger
  <2>1. item[d].bytes = 0
    BY DEF P!Inv, P!TypeOK, P!WorkersKeepToTheirItems
  <2>2. P!Handed' = P!Handed /\ P!Promised' = P!Promised /\ P!Share' = P!Share
    <3>1. /\ P!Handed \in Nat /\ P!Handed' \in Nat /\ P!Promised \in Nat /\ P!Promised' \in Nat
          /\ P!Handed' + item[d].bytes = P!Handed + r.bytes
          /\ P!Promised' + (IF item[d].pc = "decoding" THEN item[d].allowance ELSE 0)
               = P!Promised + (IF r.pc = "decoding" THEN r.allowance ELSE 0)
          /\ P!Share' = P!Share
      BY AccountsOf
    <3>2. P!Handed' = P!Handed
      BY <2>1, <3>1, SameSum
    <3>3. (IF item[d].pc = "decoding" THEN item[d].allowance ELSE 0) = 0 /\ (IF r.pc = "decoding" THEN r.allowance ELSE 0) = 0
      OBVIOUS
    <3>4. P!Promised' = P!Promised
      BY <3>1, <3>3, SameSum
    <3> QED BY <3>1, <3>2, <3>4
  <2>3. Cardinality(P!HadTheirTurn) \in Nat /\ Cardinality(P!HadTheirTurn') \in {Cardinality(P!HadTheirTurn), Cardinality(P!HadTheirTurn) + 1}
    BY TurnsAreCounted
  <2>4. P!Share \in Nat
    BY SharesAreThere DEF P!Inv
  <2> DEFINE k == Cardinality(P!HadTheirTurn)
             m == Cardinality(P!HadTheirTurn')
  <2>5. k * P!Share <= m * P!Share
    <3> HIDE DEF k, m
    <3>1. k \in Nat /\ m \in {k, k + 1}
      BY <2>3 DEF k, m
    <3>2. k * P!Share \in Nat /\ (k + 1) * P!Share = k * P!Share + P!Share
      BY <2>4, <3>1, OneMoreShare
    <3> QED BY <2>4, <3>1, <3>2
  <2>6. ledger.spent \in Nat /\ ledger.reserved \in Nat /\ k * P!Share \in Nat /\ m * P!Share \in Nat
    <3> HIDE DEF k, m
    <3>1. k \in Nat /\ m \in Nat
      BY <2>3 DEF k, m
    <3>2. ledger.spent \in Nat /\ ledger.reserved \in Nat
      BY DEF P!Inv, P!TypeOK
    <3> QED BY <2>4, <3>1, <3>2
  <2>7. ledger.spent = P!Handed /\ ledger.reserved = P!Promised /\ ledger.spent + ledger.reserved <= k * P!Share
    BY <1>2, PicturesCount DEF P!Inv, P!LedgerIsOfTheItems
  <2>8. ledger.spent + ledger.reserved <= m * P!Share
    <3> HIDE DEF k, m
    <3> QED BY <2>5, <2>6, <2>7
  <2>9. preview'.ledger /\ ledger' = ledger
    BY <1>2
  <2> QED BY <2>2, <2>7, <2>8, <2>9, PicturesCount DEF P!LedgerIsOfTheItems
<1> QED BY <1>1, <1>2

(* A document comes in, asks again, or has nothing to show.                *)
LEMMA DocumentWaits ==
  ASSUME P!Inv, NEW d \in preview.docs, NEW goes \in {"fetching", "refreshing", "refetching"}, P!Moves(d, goes),
         item[d].pc \notin {"decoding", "done", "none"}, preview.pc = "running",
         Cardinality(P!InFlight') <= PictureWidth
  PROVE  P!Inv'
<1> DEFINE r == [item[d] EXCEPT !.pc = goes]
<1>1. d \in PictureDoc /\ item[d] \in P!Item /\ worker[d] \in P!Worker
  BY DEF P!Inv, P!TypeOK
<1>2. r \in P!Item /\ r.pc = goes /\ r.bytes = item[d].bytes /\ r.allowance = item[d].allowance
  BY <1>1 DEF P!Item
<1>3. item' = [item EXCEPT ![d] = r] /\ UNCHANGED <<preview, worker, spooled, ledger, late>>
  BY DEF P!Moves
<1> HIDE DEF r
<1>4. P!TypeOK'
  BY <1>1, <1>2, <1>3 DEF P!Inv, P!TypeOK
<1>5. item[d].bytes = 0 /\ worker[d].emitted <= P!Least(r.allowance, PictureMost) /\ worker[d].pc \notin {"queued", "decoding"}
  BY <1>1, <1>2 DEF P!Inv, P!WorkersKeepToTheirItems, P!Ceiling
<1>6. P!LedgerIsOfTheItems'
  BY <1>2, <1>3, <1>5, LedgerStays
<1>7. P!Cardinality(P!InFlight)' <= PictureWidth
  BY PicturesCount
<1> QED BY <1>2, <1>3, <1>4, <1>5, <1>6, <1>7, ItemMoves

LEMMA DocumentIsRefused ==
  ASSUME P!Inv, NEW d \in preview.docs, preview.pc = "running", item[d].pc \in {"fetching", "refreshing", "refetching"},
         P!Ends(d, "error", 0), UNCHANGED <<preview, worker, spooled, ledger, late>>
  PROVE  P!Inv'
<1> DEFINE r == [item[d] EXCEPT !.pc = "done", !.says = "error", !.bytes = 0]
<1>1. d \in PictureDoc /\ item[d] \in P!Item /\ worker[d] \in P!Worker
  BY DEF P!Inv, P!TypeOK
<1>2. r \in P!Item /\ r.pc = "done" /\ r.bytes = 0 /\ r.allowance = item[d].allowance
  BY <1>1 DEF P!Item
<1>3. item' = [item EXCEPT ![d] = r]
  BY DEF P!Ends
<1> HIDE DEF r
<1>4. P!TypeOK'
  BY <1>1, <1>2, <1>3 DEF P!Inv, P!TypeOK
<1>5. worker[d].emitted <= P!Least(r.allowance, PictureMost) /\ worker[d].pc \notin {"queued", "decoding"}
  BY <1>1, <1>2 DEF P!Inv, P!WorkersKeepToTheirItems, P!Ceiling
<1>6. P!LedgerIsOfTheItems'
  BY <1>2, <1>3, LedgerStays
<1>7. P!Cardinality(P!InFlight)' <= PictureWidth
  <2>1. Cardinality(P!InFlight') <= Cardinality(P!InFlight) /\ Cardinality(P!InFlight) \in Nat /\ Cardinality(P!InFlight') \in Nat
    BY <1>2, <1>3, TurnsAreCounted
  <2>2. Cardinality(P!InFlight) <= PictureWidth
    BY PicturesCount DEF P!Inv
  <2> QED BY <2>1, <2>2, PicturesCount, PicturesAreBoundedByNumbers
<1> QED BY <1>2, <1>3, <1>4, <1>5, <1>6, <1>7, ItemMoves

(* What was downloaded is decoded under a share, or under the ceiling of a *)
(* call that previews one document.                                        *)
LEMMA DocumentIsDecoded ==
  ASSUME P!Inv, NEW d \in preview.docs, preview.pc = "running", item[d].pc \in {"fetching", "refetching"},
         NEW share \in Nat, share = (IF preview.ledger THEN P!Allowance ELSE PictureMost),
         item' = [item EXCEPT ![d].pc = "decoding", ![d].allowance = share],
         worker' = [worker EXCEPT ![d] = [P!NoWorker EXCEPT !.pc = "queued"]],
         ledger' = (IF preview.ledger THEN [ledger EXCEPT !.reserved = @ + share] ELSE ledger),
         UNCHANGED <<preview, spooled, late>>
  PROVE  P!Inv'
<1> DEFINE r == [item[d] EXCEPT !.pc = "decoding", !.allowance = share]
           w == [P!NoWorker EXCEPT !.pc = "queued"]
<1>1. d \in PictureDoc /\ item[d] \in P!Item /\ P!TypeOK
  BY DEF P!Inv, P!TypeOK
<1>2. r \in P!Item /\ r.pc = "decoding" /\ r.bytes = item[d].bytes /\ r.allowance = share
  BY <1>1 DEF P!Item
<1>3. item' = [item EXCEPT ![d] = r]
  OBVIOUS
<1>4. w \in P!Worker /\ w.pc = "queued" /\ w.emitted = 0
  BY DEF P!NoWorker, P!Worker
<1>5. worker' = [worker EXCEPT ![d] = w]
  OBVIOUS
<1> HIDE DEF r, w
<1>6. ledger' \in [spent : Nat, reserved : Nat] /\ ledger'.spent = ledger.spent
      /\ ledger'.reserved = ledger.reserved + (IF preview.ledger THEN share ELSE 0)
      /\ ledger.spent \in Nat /\ ledger.reserved \in Nat
  BY <1>1 DEF P!TypeOK
<1>7. P!TypeOK'
  <2>1. item' \in [PictureDoc -> P!Item] /\ worker' \in [PictureDoc -> P!Worker]
    BY <1>1, <1>2, <1>3, <1>4, <1>5 DEF P!TypeOK
  <2>2. UNCHANGED <<preview, spooled, late>>
    OBVIOUS
  <2> QED BY <1>1, <1>6, <2>1, <2>2 DEF P!TypeOK
<1>8. item[d].bytes = 0 /\ w.emitted <= P!Least(share, PictureMost)
  BY <1>1, <1>4, PicturesAreBoundedByNumbers DEF P!Inv, P!WorkersKeepToTheirItems, P!Least
<1>9. worker'[d] = w /\ worker[d].pc # "decoding"
  BY <1>1, <1>5 DEF P!Inv, P!TypeOK, P!WorkersKeepToTheirItems
<1>10. P!LedgerIsOfTheItems'
  <2>1. CASE ~preview.ledger
    BY <1>6, <2>1 DEF P!Inv, P!LedgerIsOfTheItems
  <2>2. CASE preview.ledger
    <3>1. share = P!Share
      BY <2>2, WaitingHasAShare
    <3>2. /\ P!Handed \in Nat /\ P!Handed' \in Nat /\ P!Promised \in Nat /\ P!Promised' \in Nat
          /\ P!Handed' + item[d].bytes = P!Handed + r.bytes
          /\ P!Promised' + (IF item[d].pc = "decoding" THEN item[d].allowance ELSE 0)
               = P!Promised + (IF r.pc = "decoding" THEN r.allowance ELSE 0)
          /\ P!Share' = P!Share
      BY <1>2, <1>3, AccountsOf
    <3>3. P!Handed' + 0 = P!Handed + 0 /\ P!Promised' + 0 = P!Promised + share
      BY <1>2, <1>8, <3>2
    <3>4. P!Handed' = P!Handed /\ P!Promised' = P!Promised + share
      BY <3>2, <3>3
    <3> DEFINE k == Cardinality(P!HadTheirTurn)
               m == Cardinality(P!HadTheirTurn')
    <3>5. k \in Nat /\ m = k + 1
      BY <1>2, <1>3, TurnsAreCounted
    <3>6. ledger.spent = P!Handed /\ ledger.reserved = P!Promised /\ ledger.spent + ledger.reserved <= k * P!Share
      BY <2>2, PicturesCount DEF P!Inv, P!LedgerIsOfTheItems
    <3>7. ledger'.spent + ledger'.reserved <= m * P!Share'
      <4> HIDE DEF k, m
      <4>1. k * P!Share \in Nat /\ m * P!Share = k * P!Share + P!Share
        BY <3>1, <3>5, OneMoreShare
      <4> QED BY <1>6, <2>2, <3>1, <3>2, <3>6, <4>1
    <3>8. preview'.ledger
      BY <2>2
    <3> QED BY <1>6, <2>2, <3>4, <3>6, <3>7, <3>8, PicturesCount DEF P!LedgerIsOfTheItems
  <2> QED BY <2>1, <2>2
<1>11. P!Cardinality(P!InFlight)' <= PictureWidth
  <2>1. Cardinality(P!InFlight') <= Cardinality(P!InFlight) /\ Cardinality(P!InFlight) \in Nat /\ Cardinality(P!InFlight') \in Nat
    BY <1>2, <1>3, TurnsAreCounted
  <2>2. Cardinality(P!InFlight) <= PictureWidth
    BY PicturesCount DEF P!Inv
  <2> QED BY <2>1, <2>2, PicturesCount, PicturesAreBoundedByNumbers
<1>12. \A e \in PictureDoc : e # d => worker'[e] = worker[e]
  BY <1>1, <1>5 DEF P!TypeOK
<1> QED BY <1>2, <1>3, <1>4, <1>7, <1>8, <1>9, <1>10, <1>11, <1>12, ItemMoves

(* A decode is over: its share is given back, and what it made is spent.   *)
LEMMA DocumentIsDone ==
  ASSUME P!Inv, NEW d \in preview.docs, preview.pc # "ended", item[d].pc = "decoding", worker[d].pc \in {"made", "failed"},
         NEW says \in {"images", "error", "cancelled"}, NEW bytes \in Nat, bytes <= worker[d].emitted,
         P!Ends(d, says, bytes), P!Settles(d, bytes), UNCHANGED <<preview, worker, spooled, late>>
  PROVE  P!Inv'
<1> DEFINE r == [item[d] EXCEPT !.pc = "done", !.says = says, !.bytes = bytes]
<1>1. d \in PictureDoc /\ item[d] \in P!Item /\ worker[d] \in P!Worker /\ P!TypeOK
  BY DEF P!Inv, P!TypeOK
<1>2. r \in P!Item /\ r.pc = "done" /\ r.bytes = bytes /\ r.allowance = item[d].allowance
  BY <1>1 DEF P!Item
<1>3. item' = [item EXCEPT ![d] = r]
  BY DEF P!Ends
<1> HIDE DEF r
<1>4. /\ item[d].bytes = 0 /\ worker[d].emitted <= P!Least(r.allowance, PictureMost)
      /\ item[d].allowance \in Nat /\ worker[d].emitted \in Nat
  BY <1>1, <1>2 DEF P!Inv, P!WorkersKeepToTheirItems, P!Ceiling, P!Item, P!Worker
<1>5. bytes <= item[d].allowance
  BY <1>2, <1>4, PicturesAreBoundedByNumbers DEF P!Least
<1>8. P!LedgerIsOfTheItems' /\ ledger' \in [spent : Nat, reserved : Nat]
  <2>1. CASE preview.ledger
    <3>1. /\ P!Handed \in Nat /\ P!Handed' \in Nat /\ P!Promised \in Nat /\ P!Promised' \in Nat
          /\ P!Handed' + item[d].bytes = P!Handed + r.bytes
          /\ P!Promised' + (IF item[d].pc = "decoding" THEN item[d].allowance ELSE 0)
               = P!Promised + (IF r.pc = "decoding" THEN r.allowance ELSE 0)
          /\ P!Share' = P!Share
      BY <1>2, <1>3, AccountsOf
    <3>2. P!Handed' + 0 = P!Handed + bytes /\ P!Promised' + item[d].allowance = P!Promised + 0
      BY <1>2, <1>4, <3>1
    <3>3. P!Handed' = P!Handed + bytes /\ P!Promised' = P!Promised - item[d].allowance
      <4>1. \A h1, h2, b \in Nat : h2 + 0 = h1 + b => h2 = h1 + b
        OBVIOUS
      <4>2. \A p1, p2, b \in Nat : p2 + b = p1 + 0 => p2 = p1 - b
        OBVIOUS
      <4>3. P!Handed \in Nat /\ P!Handed' \in Nat /\ P!Promised \in Nat /\ P!Promised' \in Nat
        BY <3>1
      <4>4. item[d].allowance \in Nat
        BY <1>4
      <4>5. P!Handed' = P!Handed + bytes
        BY <3>2, <4>1, <4>3
      <4>6. P!Promised' = P!Promised - item[d].allowance
        BY <3>2, <4>2, <4>3, <4>4
      <4> QED BY <4>5, <4>6
    <3>4. P!HadTheirTurn' = P!HadTheirTurn
      BY <1>2, <1>3, TurnsAreCounted
    <3>5. ledger' = [spent |-> ledger.spent + bytes, reserved |-> ledger.reserved - item[d].allowance]
      BY <1>4, <1>5, <2>1 DEF P!Settles, P!Settled, P!Least
    <3>6. /\ ledger.spent = P!Handed /\ ledger.reserved = P!Promised
          /\ ledger.spent + ledger.reserved <= Cardinality(P!HadTheirTurn) * P!Share
      BY <2>1, PicturesCount DEF P!Inv, P!LedgerIsOfTheItems
    <3>7. ledger'.spent = P!Handed' /\ ledger'.reserved = P!Promised'
      BY <3>3, <3>5, <3>6
    <3>8. ledger'.spent + ledger'.reserved <= ledger.spent + ledger.reserved
      BY <1>4, <1>5, <3>1, <3>3, <3>6, <3>7
    <3>9. Cardinality(P!HadTheirTurn) \in Nat /\ P!Share \in Nat
      BY <1>1, <1>2, <1>3, TurnsAreCounted, SharesAreThere
    <3>10. Cardinality(P!HadTheirTurn) * P!Share \in Nat
      <4> DEFINE k == Cardinality(P!HadTheirTurn)
      <4>1. k \in Nat
        BY <3>9
      <4> HIDE DEF k
      <4>2. k * P!Share \in Nat
        BY <3>9, <4>1
      <4> QED BY <4>2 DEF k
    <3>11. ledger'.spent + ledger'.reserved <= Cardinality(P!HadTheirTurn') * P!Share'
      <4> DEFINE most == Cardinality(P!HadTheirTurn) * P!Share
      <4>1. most \in Nat /\ ledger.spent + ledger.reserved <= most
        BY <3>6, <3>10
      <4>2. most = Cardinality(P!HadTheirTurn') * P!Share'
        BY <3>1, <3>4
      <4> HIDE DEF most
      <4>3. ledger'.spent + ledger'.reserved <= most
        <5>1. /\ ledger.spent \in Nat /\ ledger.reserved \in Nat
              /\ ledger'.spent \in Nat /\ ledger'.reserved \in Nat
          BY <3>1, <3>6, <3>7
        <5> QED BY <3>8, <4>1, <5>1
      <4> QED BY <4>2, <4>3
    <3>12. preview'.ledger
      BY <2>1
    <3>13. P!LedgerIsOfTheItems' /\ ledger' \in [spent : Nat, reserved : Nat]
      BY <3>1, <3>5, <3>7, <3>11, <3>12, PicturesCount DEF P!LedgerIsOfTheItems
    <3> QED BY <3>13
  <2>2. CASE ~preview.ledger
    BY <1>1, <2>2 DEF P!Inv, P!LedgerIsOfTheItems, P!Settles, P!TypeOK
  <2> QED BY <2>1, <2>2
<1>9. P!TypeOK'
  BY <1>1, <1>2, <1>3, <1>8 DEF P!TypeOK
<1>10. P!Cardinality(P!InFlight)' <= PictureWidth
  <2>1. Cardinality(P!InFlight') <= Cardinality(P!InFlight) /\ Cardinality(P!InFlight) \in Nat /\ Cardinality(P!InFlight') \in Nat
    BY <1>2, <1>3, TurnsAreCounted
  <2>2. Cardinality(P!InFlight) <= PictureWidth
    BY PicturesCount DEF P!Inv
  <2> QED BY <2>1, <2>2, PicturesCount, PicturesAreBoundedByNumbers
<1> QED BY <1>2, <1>3, <1>4, <1>8, <1>9, <1>10, ItemMoves

(* A worker's step, by the worker it leaves behind.                        *)
LEMMA PictureWorkerSteps ==
  ASSUME P!Inv, NEW d \in PictureDoc,
         \/ \E decoder \in {"pillow", "lottie", "ffmpeg"} : P!Spool(d, decoder)
         \/ \E bytes \in {1, 2} : P!Emit(d, bytes)
         \/ P!Skip(d) \/ P!Mismatch(d) \/ P!DecodeEnds(d) \/ P!DecodeFails(d) \/ P!Stops(d)
  PROVE  P!Inv'
<1>1. worker[d] \in P!Worker /\ worker[d].emitted \in Nat /\ worker[d].emitted <= P!Ceiling(d)
      /\ (worker[d].pc = "decoding" <=> d \in spooled)
  BY DEF P!Inv, P!TypeOK, P!Worker, P!WorkersKeepToTheirItems
<1>2. ASSUME NEW w, w = [worker[d] EXCEPT !.pc = w.pc, !.emitted = w.emitted, !.tries = w.tries, !.decoder = w.decoder],
             w.pc \in {"decoding", "made", "failed"}, w.emitted \in Nat, w.tries \in Nat,
             w.decoder \in {"none", "pillow", "lottie", "ffmpeg"},
             worker' = [worker EXCEPT ![d] = w], UNCHANGED <<preview, item, ledger, late>>,
             spooled' = (IF w.pc = "decoding" THEN spooled \cup {d} ELSE spooled \ {d}),
             w.emitted <= P!Ceiling(d), worker[d].pc \in {"queued", "decoding"}
      PROVE  P!Inv'
  <2>1. w \in P!Worker
    BY <1>1, <1>2 DEF P!Worker
  <2>2. w.pc \in {"queued", "decoding"} => worker[d].pc \in {"queued", "decoding"}
    BY <1>2
  <2> QED BY <1>2, <2>1, <2>2, WorkerMoves
<1>3. ASSUME NEW goes \in {"made", "failed"}, worker[d].pc = "decoding", P!Leaves(d, goes) PROVE P!Inv'
  <2> DEFINE w == [worker[d] EXCEPT !.pc = goes]
  <2>1. /\ w.pc = goes /\ w.emitted = worker[d].emitted /\ w.tries = worker[d].tries /\ w.decoder = worker[d].decoder
        /\ w.tries \in Nat /\ w.decoder \in {"none", "pillow", "lottie", "ffmpeg"}
        /\ w = [worker[d] EXCEPT !.pc = w.pc, !.emitted = w.emitted, !.tries = w.tries, !.decoder = w.decoder]
    BY <1>1 DEF P!Worker
  <2>2. worker' = [worker EXCEPT ![d] = w] /\ spooled' = spooled \ {d} /\ UNCHANGED <<preview, item, ledger, late>>
    BY <1>3 DEF P!Leaves
  <2> HIDE DEF w
  <2> QED BY <1>1, <1>2, <1>3, <2>1, <2>2
<1>4. ASSUME NEW decoder \in {"pillow", "lottie", "ffmpeg"}, P!Spool(d, decoder) PROVE P!Inv'
  <2> DEFINE w == [worker[d] EXCEPT !.pc = "decoding", !.decoder = decoder]
  <2>1. /\ w.pc = "decoding" /\ w.emitted = worker[d].emitted /\ w.tries = worker[d].tries /\ w.decoder = decoder
        /\ w.tries \in Nat
        /\ w = [worker[d] EXCEPT !.pc = w.pc, !.emitted = w.emitted, !.tries = w.tries, !.decoder = w.decoder]
    BY <1>1 DEF P!Worker
  <2>2. /\ worker' = [worker EXCEPT ![d] = w] /\ spooled' = spooled \cup {d} /\ UNCHANGED <<preview, item, ledger, late>>
        /\ worker[d].pc = "queued"
    BY <1>4 DEF P!Spool
  <2> HIDE DEF w
  <2> QED BY <1>1, <1>2, <2>1, <2>2
<1>5. ASSUME NEW w, w = [worker[d] EXCEPT !.emitted = w.emitted, !.tries = w.tries, !.decoder = w.decoder],
             w.emitted \in Nat, w.tries \in Nat, w.emitted <= P!Ceiling(d),
             w.decoder \in {"none", "pillow", "lottie", "ffmpeg"}, worker[d].pc = "decoding",
             worker' = [worker EXCEPT ![d] = w], UNCHANGED <<preview, item, spooled, ledger, late>>
      PROVE  P!Inv'
  <2>1. w.pc = "decoding" /\ w = [worker[d] EXCEPT !.pc = w.pc, !.emitted = w.emitted, !.tries = w.tries, !.decoder = w.decoder]
    BY <1>1, <1>5 DEF P!Worker
  <2>2. spooled' = spooled \cup {d}
    BY <1>1, <1>5
  <2> QED BY <1>2, <1>5, <2>1, <2>2
<1>6. ASSUME NEW bytes \in {1, 2}, P!Emit(d, bytes) PROVE P!Inv'
  <2>1. worker[d].pc = "decoding"
    BY <1>6 DEF P!Emit, P!Decodes
  <2>2. CASE worker[d].emitted + bytes > P!Ceiling(d)
    <3>1. P!Leaves(d, "failed")
      BY <1>6, <2>2 DEF P!Emit
    <3> QED BY <1>3, <2>1, <3>1
  <2>3. CASE ~(worker[d].emitted + bytes > P!Ceiling(d))
    <3> DEFINE w == [worker[d] EXCEPT !.emitted = @ + bytes, !.tries = @ + 1]
    <3>1. /\ w.emitted = worker[d].emitted + bytes /\ w.tries = worker[d].tries + 1 /\ w.decoder = worker[d].decoder
          /\ worker[d].tries \in Nat /\ w.decoder \in {"none", "pillow", "lottie", "ffmpeg"}
          /\ w = [worker[d] EXCEPT !.emitted = w.emitted, !.tries = w.tries, !.decoder = w.decoder]
      BY <1>1 DEF P!Worker
    <3>2. worker' = [worker EXCEPT ![d] = w] /\ UNCHANGED <<preview, item, spooled, ledger, late>>
      BY <1>6, <2>3 DEF P!Emit
    <3>3. P!Ceiling(d) \in Nat
      BY PicturesAreBoundedByNumbers DEF P!Inv, P!TypeOK, P!Item, P!Ceiling, P!Least
    <3> HIDE DEF w
    <3>4. w.emitted \in Nat /\ w.tries \in Nat /\ w.emitted <= P!Ceiling(d)
      BY <1>1, <2>3, <3>1, <3>3
    <3> QED BY <1>5, <2>1, <3>1, <3>2, <3>4
  <2> QED BY <2>2, <2>3
<1>7. ASSUME P!Skip(d) PROVE P!Inv'
  <2> DEFINE w == [worker[d] EXCEPT !.tries = @ + 1]
  <2>1. /\ w.emitted = worker[d].emitted /\ w.tries = worker[d].tries + 1 /\ w.decoder = worker[d].decoder
        /\ worker[d].tries \in Nat /\ w.decoder \in {"none", "pillow", "lottie", "ffmpeg"}
        /\ w = [worker[d] EXCEPT !.emitted = w.emitted, !.tries = w.tries, !.decoder = w.decoder]
    BY <1>1 DEF P!Worker
  <2>2. worker' = [worker EXCEPT ![d] = w] /\ UNCHANGED <<preview, item, spooled, ledger, late>> /\ worker[d].pc = "decoding"
    BY <1>7 DEF P!Skip, P!Decodes
  <2> HIDE DEF w
  <2>3. w.tries \in Nat
    BY <2>1
  <2> QED BY <1>1, <1>5, <2>1, <2>2, <2>3
<1>8. ASSUME P!Mismatch(d) PROVE P!Inv'
  <2> DEFINE w == [worker[d] EXCEPT !.decoder = "ffmpeg"]
  <2>1. /\ w.emitted = worker[d].emitted /\ w.tries = worker[d].tries /\ w.decoder = "ffmpeg" /\ w.tries \in Nat
        /\ w = [worker[d] EXCEPT !.emitted = w.emitted, !.tries = w.tries, !.decoder = w.decoder]
    BY <1>1 DEF P!Worker
  <2>2. worker' = [worker EXCEPT ![d] = w] /\ UNCHANGED <<preview, item, spooled, ledger, late>> /\ worker[d].pc = "decoding"
    BY <1>8 DEF P!Mismatch, P!Decodes
  <2> HIDE DEF w
  <2> QED BY <1>1, <1>5, <2>1, <2>2
<1>9. ASSUME P!DecodeEnds(d) \/ P!DecodeFails(d) \/ P!Stops(d) PROVE P!Inv'
  <2>1. worker[d].pc = "decoding" /\ \E goes \in {"made", "failed"} : P!Leaves(d, goes)
    BY <1>9 DEF P!DecodeEnds, P!DecodeFails, P!Stops
  <2> QED BY <1>3, <2>1
<1> QED BY <1>4, <1>6, <1>7, <1>8, <1>9

(* One document's step, by what it means for the call.                     *)
LEMMA PictureItemSteps ==
  ASSUME P!Inv, NEW d \in PictureDoc,
         P!Enter(d) \/ P!Refused(d) \/ P!IsStale(d) \/ P!Refreshed(d) \/ P!Downloaded(d) \/ P!Decoded(d) \/ P!Drained(d)
  PROVE  P!Inv'
<1>1. ASSUME P!Enter(d) PROVE P!Inv'
  <2>1. d \in preview.docs /\ preview.pc = "running" /\ item[d].pc = "gated" /\ P!Moves(d, "fetching")
    BY <1>1 DEF P!Enter, P!Running
  <2>2. Cardinality(P!InFlight) < PictureWidth
    BY <1>1, PicturesCount DEF P!Enter
  <2> DEFINE r == [item[d] EXCEPT !.pc = "fetching"]
  <2>3. r \in P!Item
    BY DEF P!Inv, P!TypeOK, P!Item
  <2>4. item' = [item EXCEPT ![d] = r] /\ UNCHANGED preview
    BY <2>1 DEF P!Moves
  <2> HIDE DEF r
  <2>5. Cardinality(P!InFlight') <= Cardinality(P!InFlight) + 1 /\ Cardinality(P!InFlight) \in Nat /\ Cardinality(P!InFlight') \in Nat
    BY <2>1, <2>3, <2>4, TurnsAreCounted
  <2>6. Cardinality(P!InFlight') <= PictureWidth
    BY <2>2, <2>5, PicturesAreBoundedByNumbers
  <2> QED BY <2>1, <2>6, DocumentWaits
<1>2. ASSUME P!IsStale(d) \/ P!Refreshed(d) PROVE P!Inv'
  <2>1. PICK goes \in {"refreshing", "refetching"} : d \in preview.docs /\ preview.pc = "running" /\ item[d].pc \in {"fetching", "refreshing"} /\ P!Moves(d, goes)
    BY <1>2 DEF P!IsStale, P!Refreshed, P!Running
  <2> DEFINE r == [item[d] EXCEPT !.pc = goes]
  <2>3. r \in P!Item
    BY <2>1 DEF P!Inv, P!TypeOK, P!Item
  <2>4. item' = [item EXCEPT ![d] = r] /\ UNCHANGED preview
    BY <2>1 DEF P!Moves
  <2> HIDE DEF r
  <2>5. Cardinality(P!InFlight') <= Cardinality(P!InFlight) /\ Cardinality(P!InFlight) \in Nat /\ Cardinality(P!InFlight') \in Nat
    BY <2>1, <2>3, <2>4, TurnsAreCounted
  <2>6. Cardinality(P!InFlight') <= PictureWidth
    BY <2>5, PicturesCount, PicturesAreBoundedByNumbers DEF P!Inv
  <2> QED BY <2>1, <2>6, DocumentWaits
<1>3. ASSUME P!Refused(d) PROVE P!Inv'
  BY <1>3, DocumentIsRefused DEF P!Refused, P!Running
<1>4. ASSUME P!Downloaded(d) PROVE P!Inv'
  <2>1. d \in preview.docs /\ preview.pc = "running" /\ item[d].pc \in {"fetching", "refetching"} /\ UNCHANGED <<preview, spooled, late>>
    BY <1>4 DEF P!Downloaded, P!Running
  <2>2. CASE preview.ledger /\ (late \/ P!Allowance <= 0)
    <3>1. P!Ends(d, "error", 0) /\ UNCHANGED <<worker, ledger>>
      BY <1>4, <2>2 DEF P!Downloaded
    <3> QED BY <2>1, <3>1, DocumentIsRefused
  <2>3. CASE ~(preview.ledger /\ (late \/ P!Allowance <= 0))
    <3> DEFINE share == IF preview.ledger THEN P!Allowance ELSE PictureMost
    <3>1. /\ item' = [item EXCEPT ![d].pc = "decoding", ![d].allowance = share]
          /\ worker' = [worker EXCEPT ![d] = [P!NoWorker EXCEPT !.pc = "queued"]]
          /\ ledger' = IF preview.ledger THEN [ledger EXCEPT !.reserved = @ + share] ELSE ledger
      BY <1>4, <2>3 DEF P!Downloaded
    <3>2. share \in Nat
      <4>1. preview.ledger => P!Allowance = P!Share /\ P!Share \in Nat
        BY <2>1, WaitingHasAShare, SharesAreThere DEF P!Inv
      <4> QED BY <4>1, PicturesAreBoundedByNumbers
    <3> QED BY <2>1, <3>1, <3>2, DocumentIsDecoded
  <2> QED BY <2>2, <2>3
<1>5. ASSUME P!Decoded(d) PROVE P!Inv'
  <2>1. /\ d \in preview.docs /\ preview.pc # "ended" /\ item[d].pc = "decoding" /\ worker[d].pc \in {"made", "failed"}
        /\ UNCHANGED <<preview, worker, spooled, late>>
    BY <1>5 DEF P!Decoded, P!Running
  <2>2. worker[d].emitted \in Nat
    BY DEF P!Inv, P!TypeOK, P!Worker
  <2> DEFINE bytes == IF worker[d].pc = "made" THEN worker[d].emitted ELSE 0
             says == IF worker[d].pc = "made" THEN "images" ELSE "error"
  <2>3. P!Ends(d, says, bytes) /\ P!Settles(d, bytes)
    BY <1>5 DEF P!Decoded
  <2>4. bytes \in Nat /\ bytes <= worker[d].emitted /\ says \in {"images", "error", "cancelled"}
    BY <2>2
  <2> HIDE DEF bytes, says
  <2> QED BY <2>1, <2>3, <2>4, DocumentIsDone
<1>6. ASSUME P!Drained(d) PROVE P!Inv'
  <2>1. /\ preview.pc # "ended" /\ item[d].pc = "decoding" /\ worker[d].pc \in {"made", "failed"}
        /\ P!Ends(d, "cancelled", 0) /\ P!Settles(d, 0) /\ UNCHANGED <<preview, worker, spooled, late>>
    BY <1>6 DEF P!Drained
  <2>2. d \in preview.docs
    BY <2>1 DEF P!Inv, P!WorkersKeepToTheirItems
  <2>3. worker[d].emitted \in Nat /\ 0 <= worker[d].emitted
    BY DEF P!Inv, P!TypeOK, P!Worker
  <2> QED BY <2>1, <2>2, <2>3, DocumentIsDone
<1> QED BY <1>1, <1>2, <1>3, <1>4, <1>5, <1>6

(* Steps of the call as a whole.                                           *)
LEMMA PicturesAreAsked ==
  ASSUME P!Inv, NEW docs \in SUBSET PictureDoc, NEW batched \in BOOLEAN, P!Call(docs, batched)
  PROVE  P!Inv'
<1>1. /\ preview' = [pc |-> "running", docs |-> docs, ledger |-> batched] /\ docs # {}
      /\ item' = [d \in PictureDoc |-> IF d \in docs THEN [P!Fresh EXCEPT !.pc = "gated"] ELSE P!Fresh]
      /\ worker' = [d \in PictureDoc |-> P!NoWorker] /\ ledger' = [spent |-> 0, reserved |-> 0] /\ late' = FALSE
      /\ UNCHANGED spooled /\ preview.pc = "idle"
  BY DEF P!Call
<1>2. preview.docs = {} /\ spooled = {}
  <2>1. \A d \in PictureDoc : item[d].pc = "none"
    BY <1>1 DEF P!Inv, P!WorkersKeepToTheirItems
  <2> QED BY <1>1, <2>1 DEF P!Inv, P!WorkersKeepToTheirItems, P!TypeOK
<1>3. P!TypeOK'
  BY <1>1, <1>2 DEF P!TypeOK, P!Fresh, P!NoWorker, P!Item, P!Worker
<1>4. P!WorkersKeepToTheirItems'
  BY <1>1, <1>2, PicturesAreBoundedByNumbers DEF P!WorkersKeepToTheirItems, P!Fresh, P!NoWorker, P!Ceiling, P!Least
<1>5. IsFiniteSet(docs) /\ \A d \in docs : item'[d].pc = "gated" /\ item'[d].bytes = 0
  BY <1>1, PicturesAreBoundedByNumbers, FS_Subset DEF P!Fresh
<1>6. P!Handed' = 0
  <2>1. HandedOver(docs, item') \in [docs -> Nat] /\ \A d \in docs : HandedOver(docs, item')[d] = 0
    BY <1>5 DEF HandedOver
  <2>2. SumOf(HandedOver(docs, item'), docs) = 0
    BY <1>5, <2>1, SumOfNothing
  <2> QED BY <1>1, <2>2, HandedIsASum
<1>7. P!Promised' = 0
  <2>1. PromisedTo(docs, item') \in [docs -> Nat] /\ \A d \in docs : PromisedTo(docs, item')[d] = 0
    BY <1>5 DEF PromisedTo
  <2>2. SumOf(PromisedTo(docs, item'), docs) = 0
    BY <1>5, <2>1, SumOfNothing
  <2> QED BY <1>1, <2>2, PromisedIsASum
<1>8. P!HadTheirTurn' = {} /\ P!InFlight' = {}
  BY <1>1, <1>5 DEF P!HadTheirTurn, P!InFlight
<1>9. P!Cardinality(P!HadTheirTurn') = 0 /\ P!Cardinality(P!InFlight') = 0
  BY <1>8, PicturesCount, FS_EmptySet
<1>10. P!Share' \in Nat
  <2>1. preview'.docs = docs /\ Cardinality(docs) \in Nat \ {0}
    BY <1>1, <1>5, FS_CardinalityType, FS_EmptySet
  <2> DEFINE n == Cardinality(docs)
  <2>2. P!Share' = PictureTotal \div n
    BY <2>1, PicturesCount DEF P!Share
  <2> HIDE DEF n
  <2>3. PictureTotal \div n \in Nat
    BY <2>1, PicturesAreBoundedByNumbers DEF n
  <2> QED BY <2>2, <2>3
<1>11. P!LedgerIsOfTheItems'
  <2>1. ledger'.spent = 0 /\ ledger'.reserved = 0
    BY <1>1
  <2>2. 0 + 0 <= 0 * P!Share'
    <3> DEFINE s == P!Share'
    <3>1. s \in Nat
      BY <1>10
    <3> HIDE DEF s
    <3>2. 0 + 0 <= 0 * s
      BY <3>1
    <3> QED BY <3>2 DEF s
  <2> QED BY <1>6, <1>7, <1>9, <2>1, <2>2 DEF P!LedgerIsOfTheItems
<1>12. P!Cardinality(P!InFlight)' <= PictureWidth
  BY <1>9, PicturesAreBoundedByNumbers
<1>13. preview'.pc = "running" /\ preview'.docs # {}
  BY <1>1
<1> QED BY <1>3, <1>4, <1>11, <1>12, <1>13 DEF P!Inv

LEMMA PicturesAreLate == ASSUME P!Inv, P!Late PROVE P!Inv'
<1>1. UNCHANGED <<preview, item, worker, spooled, ledger>> /\ late' = TRUE
  BY DEF P!Late
<1>2. P!TypeOK' /\ P!WorkersKeepToTheirItems'
  BY <1>1 DEF P!Inv, P!TypeOK, P!WorkersKeepToTheirItems, P!Ceiling
<1> QED BY <1>1, <1>2, WorkersMove

LEMMA PicturesAreAnswered == ASSUME P!Inv, P!Reply PROVE P!Inv'
<1>1. /\ UNCHANGED <<item, worker, spooled, ledger, late>> /\ preview' = [preview EXCEPT !.pc = "ended"]
      /\ \A d \in preview.docs : item[d].pc = "done"
      /\ preview.pc \in {"running", "cancelling"}
  BY DEF P!Reply
<1>2. preview'.docs = preview.docs /\ preview'.ledger = preview.ledger /\ preview'.pc = "ended"
  BY <1>1 DEF P!Inv, P!TypeOK
<1>3. P!TypeOK'
  BY <1>1 DEF P!Inv, P!TypeOK
<1>4. P!WorkersKeepToTheirItems'
  BY <1>1, <1>2 DEF P!Inv, P!WorkersKeepToTheirItems, P!Ceiling
<1>5. P!Handed' = P!Handed /\ P!Promised' = P!Promised
  BY <1>1, <1>2, HandedIsASum, PromisedIsASum
<1>6. P!HadTheirTurn' = P!HadTheirTurn /\ P!InFlight' = P!InFlight /\ P!Share' = P!Share
  BY <1>1, <1>2 DEF P!HadTheirTurn, P!InFlight, P!Share
<1>7. P!LedgerIsOfTheItems'
  BY <1>1, <1>2, <1>5, <1>6 DEF P!Inv, P!LedgerIsOfTheItems
<1> QED BY <1>1, <1>2, <1>3, <1>4, <1>6, <1>7 DEF P!Inv

LEMMA PicturesAreCancelled == ASSUME P!Inv, P!Cancel PROVE P!Inv'
<1>1. /\ preview' = [preview EXCEPT !.pc = "cancelling"] /\ UNCHANGED <<spooled, ledger, late>>
      /\ item' = [d \in PictureDoc |-> IF d \in preview.docs /\ item[d].pc # "done" /\ ~P!Waits(d)
                                       THEN [item[d] EXCEPT !.pc = "done", !.says = "cancelled"] ELSE item[d]]
      /\ worker' = [d \in PictureDoc |-> [worker[d] EXCEPT !.flagged = TRUE]]
      /\ preview.pc = "running"
  BY DEF P!Cancel
<1>2. preview'.docs = preview.docs /\ preview'.ledger = preview.ledger /\ preview'.pc = "cancelling"
  BY <1>1 DEF P!Inv, P!TypeOK
<1>3. ASSUME NEW d \in PictureDoc
      PROVE  /\ item'[d] \in P!Item /\ worker'[d] \in P!Worker
             /\ item'[d].bytes = item[d].bytes /\ item'[d].allowance = item[d].allowance
             /\ d \in preview.docs /\ item[d].pc # "decoding" => item'[d].pc = "done"
             /\ ~(d \in preview.docs /\ item[d].pc # "decoding") => item'[d].pc = item[d].pc
             /\ worker'[d].pc = worker[d].pc /\ worker'[d].emitted = worker[d].emitted
  <2>1. item[d] \in P!Item /\ worker[d] \in P!Worker
    BY DEF P!Inv, P!TypeOK
  <2>2. item'[d] = IF d \in preview.docs /\ item[d].pc # "done" /\ item[d].pc # "decoding"
                   THEN [item[d] EXCEPT !.pc = "done", !.says = "cancelled"] ELSE item[d]
    BY <1>1 DEF P!Waits
  <2>3. worker'[d] = [worker[d] EXCEPT !.flagged = TRUE]
    BY <1>1
  <2>4. worker'[d] \in P!Worker /\ worker'[d].pc = worker[d].pc /\ worker'[d].emitted = worker[d].emitted
    BY <2>1, <2>3 DEF P!Worker
  <2>5. CASE d \in preview.docs /\ item[d].pc # "done" /\ item[d].pc # "decoding"
    <3>1. item'[d] = [item[d] EXCEPT !.pc = "done", !.says = "cancelled"]
      BY <2>2, <2>5
    <3>2. /\ item'[d] \in P!Item /\ item'[d].pc = "done"
          /\ item'[d].bytes = item[d].bytes /\ item'[d].allowance = item[d].allowance
      BY <2>1, <3>1 DEF P!Item
    <3> QED BY <2>4, <2>5, <3>2
  <2>6. CASE ~(d \in preview.docs /\ item[d].pc # "done" /\ item[d].pc # "decoding")
    <3>1. item'[d] = item[d]
      BY <2>2, <2>6
    <3> QED BY <2>1, <2>4, <2>6, <3>1
  <2> QED BY <2>5, <2>6
<1>4. P!TypeOK'
  <2>1. item' \in [PictureDoc -> P!Item] /\ worker' \in [PictureDoc -> P!Worker]
    <3>1. item' = [d \in PictureDoc |-> item'[d]] /\ worker' = [d \in PictureDoc |-> worker'[d]]
      BY <1>1
    <3> QED BY <1>3, <3>1
  <2> QED BY <1>1, <2>1 DEF P!Inv, P!TypeOK
<1>5. P!WorkersKeepToTheirItems'
  <2> SUFFICES ASSUME NEW e \in PictureDoc
               PROVE  /\ worker'[e].emitted <= P!Ceiling(e)'
                      /\ worker'[e].pc \in {"queued", "decoding"} => item'[e].pc = "decoding"
                      /\ worker'[e].pc = "decoding" <=> e \in spooled'
                      /\ item'[e].pc = "none" <=> e \notin preview'.docs
                      /\ item'[e].pc # "done" => item'[e].bytes = 0
    BY DEF P!WorkersKeepToTheirItems
  <2>1. P!Ceiling(e)' = P!Ceiling(e)
    BY <1>3 DEF P!Ceiling, P!Least
  <2>2. /\ worker[e].emitted <= P!Ceiling(e)
        /\ worker[e].pc \in {"queued", "decoding"} => item[e].pc = "decoding"
        /\ worker[e].pc = "decoding" <=> e \in spooled
        /\ item[e].pc = "none" <=> e \notin preview.docs
        /\ item[e].pc # "done" => item[e].bytes = 0
    BY DEF P!Inv, P!WorkersKeepToTheirItems
  <2>3. worker'[e].emitted <= P!Ceiling(e)'
    BY <1>3, <2>1, <2>2
  <2>4. worker'[e].pc \in {"queued", "decoding"} => item'[e].pc = "decoding"
    BY <1>3, <2>2
  <2>5. /\ worker'[e].pc = "decoding" <=> e \in spooled'
        /\ item'[e].pc = "none" <=> e \notin preview'.docs
        /\ item'[e].pc # "done" => item'[e].bytes = 0
    BY <1>1, <1>2, <1>3, <2>2
  <2> QED BY <2>3, <2>4, <2>5
<1>6. preview.docs \subseteq PictureDoc /\ IsFiniteSet(preview.docs)
  BY DocsAreFinite DEF P!Inv
<1>7. P!Handed' = P!Handed /\ P!Promised' = P!Promised
  <2>1. HandedOver(preview.docs, item') = HandedOver(preview.docs, item)
    BY <1>3, <1>6 DEF HandedOver
  <2>2. PromisedTo(preview.docs, item') = PromisedTo(preview.docs, item)
    BY <1>3, <1>6 DEF PromisedTo
  <2> QED BY <1>2, <2>1, <2>2, HandedIsASum, PromisedIsASum
<1>8. P!HadTheirTurn \subseteq P!HadTheirTurn' /\ P!HadTheirTurn' \subseteq preview.docs
      /\ P!InFlight' \subseteq P!InFlight /\ P!InFlight \subseteq preview.docs
  BY <1>2, <1>3, <1>6 DEF P!HadTheirTurn, P!InFlight
<1>9. /\ Cardinality(P!HadTheirTurn) \in Nat /\ Cardinality(P!HadTheirTurn') \in Nat
      /\ Cardinality(P!HadTheirTurn) <= Cardinality(P!HadTheirTurn')
      /\ Cardinality(P!InFlight) \in Nat /\ Cardinality(P!InFlight') \in Nat
      /\ Cardinality(P!InFlight') <= Cardinality(P!InFlight)
  BY <1>6, <1>8, FS_Subset, FS_CardinalityType
<1>10. P!Share' = P!Share
  BY <1>2 DEF P!Share
<1>11. P!LedgerIsOfTheItems'
  <2>1. CASE ~preview.ledger
    BY <1>1, <1>2, <2>1 DEF P!Inv, P!LedgerIsOfTheItems
  <2>2. CASE preview.ledger
    <3> DEFINE k == Cardinality(P!HadTheirTurn)
               m == Cardinality(P!HadTheirTurn')
    <3>1. P!Share \in Nat
      BY SharesAreThere, <1>1 DEF P!Inv
    <3>2. ledger.spent = P!Handed /\ ledger.reserved = P!Promised /\ ledger.spent + ledger.reserved <= k * P!Share
      BY <2>2, PicturesCount DEF P!Inv, P!LedgerIsOfTheItems
    <3>3. k \in Nat /\ m \in Nat /\ k <= m
      BY <1>9
    <3> HIDE DEF k, m
    <3>4. k * P!Share \in Nat /\ m * P!Share \in Nat /\ k * P!Share <= m * P!Share
      BY <3>1, <3>3, MoreShares
    <3>5. ledger.spent \in Nat /\ ledger.reserved \in Nat
      BY DEF P!Inv, P!TypeOK
    <3>6. ledger.spent + ledger.reserved <= m * P!Share
      BY <3>2, <3>4, <3>5
    <3> QED BY <1>1, <1>2, <1>7, <1>10, <2>2, <3>2, <3>6, PicturesCount DEF P!LedgerIsOfTheItems, m
  <2> QED BY <2>1, <2>2
<1>12. P!Cardinality(P!InFlight)' <= PictureWidth
  BY <1>9, PicturesCount, PicturesAreBoundedByNumbers DEF P!Inv
<1> QED BY <1>1, <1>2, <1>4, <1>5, <1>11, <1>12 DEF P!Inv

LEMMA PreviewStep == ASSUME P!Inv, [P!Next]_previewVars PROVE P!Inv'
<1>1. CASE UNCHANGED previewVars
  <2>1. UNCHANGED <<preview, item, worker, spooled, ledger, late>>
    BY <1>1 DEF previewVars
  <2>2. P!TypeOK' /\ P!WorkersKeepToTheirItems'
    BY <2>1 DEF P!Inv, P!TypeOK, P!WorkersKeepToTheirItems, P!Ceiling
  <2> QED BY <2>1, <2>2, WorkersMove
<1>2. CASE P!Next
  BY <1>2, PicturesAreAsked, PictureItemSteps, PictureWorkerSteps, PicturesAreLate, PicturesAreAnswered, PicturesAreCancelled
     DEF P!Next
<1> QED BY <1>1, <1>2

LEMMA SomeSums ==
  ASSUME NEW a \in Nat, NEW b \in Nat, NEW k \in Nat, NEW n \in Nat, NEW s \in Nat, NEW t \in Nat,
         a + b <= k * s, k <= n, n * s <= t
  PROVE  a + b <= t /\ a <= t
<1>1. k * s \in Nat /\ n * s \in Nat /\ k * s <= n * s
  BY MoreShares
<1> QED BY <1>1

LEMMA PreviewsHold == ASSUME P!Inv PROVE P!PreviewsAreBounded /\ P!NoDocumentIsStarved /\ P!NothingIsLeftBehind
<1>1. P!PreviewsAreBounded
  <2>1. ASSUME preview.ledger PROVE P!Handed <= PictureTotal /\ ledger.spent + ledger.reserved <= PictureTotal
    <3>1. IsFiniteSet(preview.docs) /\ preview.docs # {}
      BY <2>1, DocsAreFinite DEF P!Inv
    <3> DEFINE n == Cardinality(preview.docs)
               k == Cardinality(P!HadTheirTurn)
    <3>2. n \in Nat /\ P!Share \in Nat /\ n * P!Share <= PictureTotal
      BY <3>1, SharesAreThere DEF P!Inv
    <3>3. P!HadTheirTurn \subseteq preview.docs
      BY DEF P!HadTheirTurn
    <3>4. k \in Nat /\ k <= n
      BY <3>1, <3>3, FS_Subset, FS_CardinalityType
    <3>5. ledger.spent \in Nat /\ ledger.reserved \in Nat /\ ledger.spent = P!Handed /\ ledger.spent + ledger.reserved <= k * P!Share
      BY <2>1, PicturesCount DEF P!Inv, P!TypeOK, P!LedgerIsOfTheItems
    <3> HIDE DEF n, k
    <3>6. ledger.spent + ledger.reserved <= PictureTotal /\ ledger.spent <= PictureTotal
      BY <3>2, <3>4, <3>5, PicturesAreBoundedByNumbers, SomeSums
    <3> QED BY <3>5, <3>6
  <2>2. ASSUME NEW d \in preview.docs PROVE worker[d].emitted <= PictureMost
    <3>1. d \in PictureDoc /\ worker[d].emitted <= P!Ceiling(d) /\ worker[d].emitted \in Nat /\ item[d].allowance \in Nat
      BY DEF P!Inv, P!TypeOK, P!WorkersKeepToTheirItems, P!Item, P!Worker
    <3> QED BY <3>1, PicturesAreBoundedByNumbers DEF P!Ceiling, P!Least
  <2> QED BY <2>1, <2>2 DEF P!PreviewsAreBounded, P!Inv
<1>2. P!NoDocumentIsStarved
  <2> SUFFICES ASSUME preview.ledger, NEW d \in preview.docs, item[d].pc \notin {"none", "done", "decoding"}
               PROVE  P!Available > 0
    BY DEF P!NoDocumentIsStarved
  <2>1. P!Available \in Nat /\ P!Available >= P!Share
    BY WaitingHasAShare
  <2>2. P!Share \in Nat /\ P!Share >= 1
    BY SharesAreThere DEF P!Inv
  <2> QED BY <2>1, <2>2
<1>3. P!NothingIsLeftBehind
  <2> SUFFICES ASSUME preview.pc = "ended"
               PROVE  /\ \A d \in PictureDoc : worker[d].pc \notin {"queued", "decoding"}
                      /\ spooled = {} /\ ledger.reserved = 0
    BY DEF P!NothingIsLeftBehind
  <2>1. \A d \in preview.docs : item[d].pc = "done"
    BY DEF P!Inv
  <2>2. \A d \in PictureDoc : item[d].pc # "decoding"
    BY <2>1 DEF P!Inv, P!WorkersKeepToTheirItems
  <2>3. \A d \in PictureDoc : worker[d].pc \notin {"queued", "decoding"}
    BY <2>2 DEF P!Inv, P!WorkersKeepToTheirItems
  <2>4. spooled = {}
    BY <2>3 DEF P!Inv, P!TypeOK, P!WorkersKeepToTheirItems
  <2>5. P!Promised = 0
    <3>1. IsFiniteSet(preview.docs) /\ PromisedTo(preview.docs, item) \in [preview.docs -> Nat]
      BY DocsAreFinite DEF P!Inv
    <3>2. \A d \in preview.docs : PromisedTo(preview.docs, item)[d] = 0
      BY <2>1 DEF PromisedTo
    <3> QED BY <3>1, <3>2, SumOfNothing, PromisedIsASum
  <2>6. ledger.reserved = 0
    BY <2>5 DEF P!Inv, P!LedgerIsOfTheItems
  <2> QED BY <2>3, <2>4, <2>6
<1> QED BY <1>1, <1>2, <1>3

(* The sizes of a capture: the longer side, a quotient that is rounded,    *)
(* and a picture that is made smaller.                                     *)
LEMMA CapturesAreBoundedByNumbers ==
  /\ WinSizes \subseteq Nat \X Nat /\ WinRegions \subseteq Int \X Int
  /\ WinSide \in Nat /\ WinPixels \in Nat /\ WinBytes \in Nat /\ WinMoves \in Nat
  /\ WinDimension \in Nat \ {0} /\ WinNative \in Nat \ {0} /\ WinFrames \in Nat \ {0} /\ WinEncoded \in Nat \ {0}
  BY FilesAssumption DEF FilesAssumption, C!CaptureAssumption

LEMMA MaxIs == ASSUME NEW a \in Int, NEW b \in Int
               PROVE C!Max({a, b}) = (IF a < b THEN b ELSE a)
<1>1. CASE a < b
  <2>1. b \in {a, b} /\ \A y \in {a, b} : b >= y
    BY <1>1
  <2>2. \A x \in {a, b} : (\A y \in {a, b} : x >= y) => x = b
    BY <1>1
  <2> QED BY <1>1, <2>1, <2>2 DEF C!Max
<1>2. CASE ~(a < b)
  <2>1. a \in {a, b} /\ \A y \in {a, b} : a >= y
    BY <1>2
  <2>2. \A x \in {a, b} : (\A y \in {a, b} : x >= y) => x = a
    BY <1>2
  <2> QED BY <1>2, <2>1, <2>2 DEF C!Max
<1> QED BY <1>1, <1>2

LEMMA MinIs == ASSUME NEW a \in Int, NEW b \in Int
               PROVE C!Min({a, b}) = (IF a < b THEN a ELSE b)
<1>1. CASE a < b
  <2>1. a \in {a, b} /\ \A y \in {a, b} : a =< y
    BY <1>1
  <2>2. \A x \in {a, b} : (\A y \in {a, b} : x =< y) => x = a
    BY <1>1
  <2> QED BY <1>1, <2>1, <2>2 DEF C!Min
<1>2. CASE ~(a < b)
  <2>1. b \in {a, b} /\ \A y \in {a, b} : b =< y
    BY <1>2
  <2>2. \A x \in {a, b} : (\A y \in {a, b} : x =< y) => x = b
    BY <1>2
  <2> QED BY <1>2, <2>1, <2>2 DEF C!Min
<1> QED BY <1>1, <1>2

LEMMA LongestIs == ASSUME NEW s \in Nat \X Nat
                   PROVE /\ C!Longest(s) \in Nat /\ s[1] <= C!Longest(s) /\ s[2] <= C!Longest(s)
                         /\ C!Longest(s) \in {s[1], s[2]}
<1>1. s[1] \in Nat /\ s[2] \in Nat
  OBVIOUS
<1>2. C!Longest(s) = IF s[1] < s[2] THEN s[2] ELSE s[1]
  BY <1>1, MaxIs DEF C!Longest
<1> QED BY <1>1, <1>2

LEMMA QuotientIsSmall ==
  ASSUME NEW a \in Nat, NEW b \in Nat, NEW side \in Nat, b > 0, a <= b * side
  PROVE  a \div b \in Nat /\ a % b \in Nat /\ (a \div b < side \/ (a \div b = side /\ a % b = 0))
<1> DEFINE q == a \div b
           r == a % b
<1>1. q \in Nat /\ r \in Nat /\ r < b /\ a = b * q + r
  OBVIOUS
<1> HIDE DEF q, r
<1>2. CASE q < side
  BY <1>1, <1>2 DEF q, r
<1>3. CASE q = side
  <2>1. b * side + r <= b * side /\ b * side \in Nat
    BY <1>1, <1>3
  <2>2. r = 0
    BY <1>1, <2>1
  <2> QED BY <1>1, <1>3, <2>2 DEF q, r
<1>4. CASE q > side
  <2>1. PICK n \in Nat : q = side + 1 + n
    <3>1. q - side - 1 \in Nat /\ q = side + 1 + (q - side - 1)
      BY <1>1, <1>4
    <3> QED BY <3>1
  <2>2. b * q = b * side + b + b * n
    BY <1>1, <2>1
  <2>3. b * side \in Nat /\ b * n \in Nat
    BY <2>1
  <2> QED BY <1>1, <2>2, <2>3
<1> QED BY <1>1, <1>2, <1>3, <1>4

LEMMA RoundedIsSmall ==
  ASSUME NEW a \in Nat, NEW b \in Nat, NEW side \in Nat \ {0}, b > 0, a <= b * side
  PROVE  C!Max({1, C!Rounded(a, b)}) \in 1..side
<1> DEFINE q == a \div b
           r == a % b
<1>1. q \in Nat /\ r \in Nat /\ (q < side \/ (q = side /\ r = 0))
  BY QuotientIsSmall
<1>2. C!Rounded(a, b) = q + IF 2 * r > b \/ (2 * r = b /\ q % 2 = 1) THEN 1 ELSE 0
  BY DEF C!Rounded
<1> HIDE DEF q, r
<1>3. C!Rounded(a, b) \in {q, q + 1} /\ (r = 0 => C!Rounded(a, b) = q)
  BY <1>1, <1>2
<1>4. C!Rounded(a, b) \in Nat /\ C!Rounded(a, b) <= side
  BY <1>1, <1>3
<1> QED BY <1>4, MaxIs

LEMMA FittedIsSmall ==
  ASSUME NEW s \in Nat \X Nat, s[1] * s[2] > 0, NEW side \in Nat \ {0}
  PROVE  C!Fitted(s, side) \in Nat \X Nat /\ C!Fitted(s, side)[1] \in 1..side /\ C!Fitted(s, side)[2] \in 1..side
<1> DEFINE long == C!Longest(s)
<1>1. s[1] \in Nat /\ s[2] \in Nat
  OBVIOUS
<1>2. s[1] > 0 /\ s[2] > 0
  <2>1. s[1] # 0 /\ s[2] # 0
    BY <1>1
  <2> QED BY <1>1, <2>1
<1>3. long \in Nat /\ s[1] <= long /\ s[2] <= long
  BY LongestIs
<1>4. C!Fitted(s, side) = IF long <= side THEN s
                          ELSE <<C!Max({1, C!Rounded(s[1] * side, long)}), C!Max({1, C!Rounded(s[2] * side, long)})>>
  BY DEF C!Fitted
<1> HIDE DEF long
<1>5. CASE long <= side
  BY <1>1, <1>2, <1>3, <1>4, <1>5
<1>6. CASE ~(long <= side)
  <2>1. ASSUME NEW n \in Nat, n <= long PROVE C!Max({1, C!Rounded(n * side, long)}) \in 1..side
    <3>1. n * side \in Nat /\ n * side <= long * side
      BY <1>3, <2>1, MoreShares
    <3>2. long > 0
      BY <1>1, <1>2, <1>3
    <3> QED BY <1>3, <3>1, <3>2, RoundedIsSmall
  <2> QED BY <1>1, <1>3, <1>4, <1>6, <2>1
<1> QED BY <1>5, <1>6

(* A part of a picture is no larger than the picture.                      *)
LEMMA CropIsSmall ==
  ASSUME NEW s \in Nat \X Nat, ~C!TooBig(s), NEW n \in Nat, n <= s[2]
  PROVE  ~C!TooBig(<<s[1], n>>)
<1>1. s[1] \in Nat /\ s[2] \in Nat
  OBVIOUS
<1>2. C!Longest(s) \in Nat /\ s[1] <= C!Longest(s) /\ s[2] <= C!Longest(s)
  BY LongestIs
<1>3. C!Longest(<<s[1], n>>) \in {s[1], n} /\ C!Longest(<<s[1], n>>) \in Nat
  BY <1>1, LongestIs
<1>4. C!Longest(<<s[1], n>>) <= WinSide
  BY <1>1, <1>2, <1>3, CapturesAreBoundedByNumbers DEF C!TooBig, C!TooLong
<1>5. n * s[1] \in Nat /\ s[2] * s[1] \in Nat /\ n * s[1] <= s[2] * s[1]
  BY <1>1, MoreShares
<1>6. s[1] * n = n * s[1] /\ s[1] * s[2] = s[2] * s[1]
  BY <1>1
<1>7. s[1] * s[2] <= WinPixels
  BY <1>1, <1>5, <1>6, CapturesAreBoundedByNumbers DEF C!TooBig
<1>8. s[1] * n <= WinPixels
  BY <1>5, <1>6, <1>7, CapturesAreBoundedByNumbers
<1>9. ~(s[1] * n > WinPixels) /\ ~(C!Longest(<<s[1], n>>) > WinSide)
  BY <1>3, <1>4, <1>5, <1>6, <1>8, CapturesAreBoundedByNumbers
<1> QED BY <1>9 DEF C!TooBig, C!TooLong

(* What is asked for is one picture or more, and each of them is bounded.  *)
Asked == C!Screens \cup C!Cuts \cup C!Films

LEMMA AskedIsWhole ==
  ASSUME NEW r \in Asked
  PROVE  /\ r.count \in Nat \ {0} /\ r.native \in BOOLEAN /\ r.method \in {"window", "screen"}
         /\ r.hwnd \in WinHandle \cup {NoWin} /\ (r.region = NoWin \/ r.region \in WinRegions)
         /\ r.client_only \in BOOLEAN
<1>1. \A n \in 0..WinFrames + 1 : C!Max({1, C!Min({WinFrames, n})}) \in Nat \ {0}
  <2> TAKE n \in 0..WinFrames + 1
  <2>1. C!Min({WinFrames, n}) \in Nat
    BY MinIs, CapturesAreBoundedByNumbers
  <2> DEFINE m == C!Min({WinFrames, n})
  <2>2. m \in Nat
    BY <2>1
  <2> HIDE DEF m
  <2>3. C!Max({1, m}) \in Nat \ {0}
    BY <2>2, MaxIs
  <2> QED BY <2>3 DEF m
<1>2. ASSUME r \in C!Films PROVE r.count \in Nat \ {0}
  BY <1>1, <1>2 DEF C!Films
<1>3. ASSUME r \in C!Screens \cup C!Cuts PROVE r.count \in Nat \ {0}
  <2>1. r.count \in {1}
    BY <1>3 DEF C!Screens, C!Cuts
  <2> QED BY <2>1
<1>4. r.count \in Nat \ {0}
  BY <1>2, <1>3 DEF Asked
<1>5. /\ r.native \in BOOLEAN /\ r.method \in {"window", "screen"}
      /\ r.hwnd \in WinHandle \cup {NoWin} /\ (r.region = NoWin \/ r.region \in WinRegions)
      /\ r.client_only \in BOOLEAN
  BY DEF Asked, C!Screens, C!Cuts, C!Films
<1> QED BY <1>4, <1>5

LEMMA SideIs == ASSUME capture \in Asked PROVE C!Side \in Nat \ {0}
  BY AskedIsWhole, CapturesAreBoundedByNumbers DEF C!Side

(* What of a window is looked at.                                          *)
LEMMA ExtentIs ==
  ASSUME C!TypeOK, window \in [hwnd : WinHandle, size : WinSizes, minimized : BOOLEAN]
  PROVE  C!Extent \in Nat \X Nat
<1>1. window.size \in Nat \X Nat /\ window.hwnd \in WinHandle
  BY CapturesAreBoundedByNumbers
<1>2. win[window.hwnd].size \in Nat \X Nat
  BY <1>1, CapturesAreBoundedByNumbers DEF C!TypeOK, C!Window
<1>3. C!Client(window.hwnd) \in Nat \X Nat
  <2> DEFINE s == win[window.hwnd].size
  <2>1. s[1] \in Nat /\ s[2] \in Nat
    BY <1>2
  <2>2. C!Client(window.hwnd) = IF win[window.hwnd].minimized \/ s[2] = 0 THEN <<0, 0>> ELSE <<s[1], s[2] - 1>>
    BY DEF C!Client
  <2> HIDE DEF s
  <2> QED BY <2>1, <2>2
<1> QED BY <1>1, <1>3 DEF C!Extent

(* The bytes before a frame.                                               *)
BytesOf(all, n) == [j \in 1..n |-> all[j].bytes]

LEMMA BeforeIsASum ==
  ASSUME NEW i \in Nat \ {0}
  PROVE  /\ C!Before(i) = SumOf(BytesOf(metas, i - 1), 1..(i - 1))
         /\ C!Before(i)' = SumOf(BytesOf(metas', i - 1), 1..(i - 1))
<1>1. C!Before(i) = SumOf(BytesOf(metas, i - 1), 1..(i - 1))
  BY DEF C!Before, C!MapThenSumSet, C!MapThenFoldSet, BytesOf, SumOf, Adds, First
<1>2. C!Before(i)' = SumOf(BytesOf(metas', i - 1), 1..(i - 1))
  BY DEF C!Before, C!MapThenSumSet, C!MapThenFoldSet, BytesOf, SumOf, Adds, First
<1> QED BY <1>1, <1>2

LEMMA FrameIsAppended ==
  ASSUME metas \in Seq(C!Meta), NEW m \in C!Meta, metas' = Append(metas, m), NEW n \in Nat, n = Len(metas)
  PROVE  /\ \A i \in 1..n + 1 : C!Before(i)' = C!Before(i)
         /\ C!Before(n + 1) \in Nat
         /\ C!Before(n + 2)' = C!Before(n + 1) + m.bytes
<1>1. Len(metas') = n + 1 /\ metas'[n + 1] = m /\ \A j \in 1..n : metas'[j] = metas[j]
  OBVIOUS
<1>2. (\A j \in 1..n : metas[j].bytes \in Nat) /\ m.bytes \in Nat
  <2>1. \A j \in 1..n : metas[j] \in C!Meta
    OBVIOUS
  <2> QED BY <2>1 DEF C!Meta
<1>3. ASSUME NEW i \in 1..n + 1 PROVE C!Before(i)' = C!Before(i)
  <2>1. BytesOf(metas', i - 1) = BytesOf(metas, i - 1)
    BY <1>1 DEF BytesOf
  <2>2. i \in Nat \ {0}
    OBVIOUS
  <2> QED BY <2>1, <2>2, BeforeIsASum
<1>4. C!Before(n + 1) \in Nat /\ C!Before(n + 2)' = C!Before(n + 1) + m.bytes
  <2> DEFINE h == BytesOf(metas, n)
             f == BytesOf(metas', n + 1)
             terms == 1..n
  <2>1. n + 1 \in Nat \ {0} /\ n + 2 \in Nat \ {0} /\ (n + 1) - 1 = n /\ (n + 2) - 1 = n + 1
    OBVIOUS
  <2>2. C!Before(n + 1) = SumOf(h, terms) /\ C!Before(n + 2)' = SumOf(f, 1..n + 1)
    <3>1. C!Before(n + 1) = SumOf(BytesOf(metas, (n + 1) - 1), 1..((n + 1) - 1))
      BY <2>1, BeforeIsASum
    <3>2. C!Before(n + 2)' = SumOf(BytesOf(metas', (n + 2) - 1), 1..((n + 2) - 1))
      BY <2>1, BeforeIsASum
    <3> QED BY <2>1, <3>1, <3>2
  <2>3. 1..n + 1 = terms \cup {n + 1} /\ n + 1 \notin terms
    OBVIOUS
  <2>4. IsFiniteSet(terms)
    BY FS_Interval
  <2>5. h \in [terms -> Nat] /\ f \in [terms \cup {n + 1} -> Nat] /\ f[n + 1] = m.bytes /\ \A e \in terms : f[e] = h[e]
    <3>1. h \in [terms -> Nat]
      BY <1>2 DEF BytesOf
    <3>2. f = [j \in terms \cup {n + 1} |-> metas'[j].bytes]
      BY <2>3 DEF BytesOf
    <3>3. \A j \in terms \cup {n + 1} : metas'[j].bytes \in Nat
      BY <1>1, <1>2
    <3>4. \A e \in terms : f[e] = h[e]
      BY <1>1, <3>2 DEF BytesOf
    <3> HIDE DEF f, h
    <3>5. f \in [terms \cup {n + 1} -> Nat]
      BY <3>2, <3>3
    <3>6. f[n + 1] = m.bytes
      BY <1>1, <3>2
    <3> QED BY <3>1, <3>4, <3>5, <3>6
  <2> HIDE DEF h, f, terms
  <2>6. SumOf(h, terms) \in Nat /\ SumOf(f, terms \cup {n + 1}) = SumOf(h, terms) + f[n + 1]
    <3> DEFINE more == n + 1
    <3>1. /\ IsFiniteSet(terms) /\ more \notin terms /\ h \in [terms -> Nat] /\ f \in [terms \cup {more} -> Nat]
          /\ \A e \in terms : f[e] = h[e]
      BY <2>3, <2>4, <2>5
    <3> HIDE DEF more
    <3>2. SumOf(h, terms) \in Nat /\ SumOf(f, terms \cup {more}) = SumOf(h, terms) + f[more]
      BY <3>1, SumAdds
    <3> QED BY <3>2 DEF more
  <2> QED BY <2>2, <2>3, <2>5, <2>6
<1> QED BY <1>3, <1>4

(* What lies in the reply stays there while nothing is added.              *)
LEMMA StillLies ==
  ASSUME C!FramesLieInTheReply, UNCHANGED <<capture, payload, metas, taken>>,
         stage' \in C!Running => stage \in C!Running, stage' = "replied" => stage = "replied"
  PROVE  C!FramesLieInTheReply'
<1>2. \A i \in Nat \ {0} : C!Before(i)' = C!Before(i)
  BY BeforeIsASum
<1>3. C!Side' = C!Side
  BY DEF C!Side
<1>4. /\ metas' \in Seq(C!Meta)' /\ taken' \in Seq(C!Taken)' /\ payload' \in Seq(Nat \X Nat)
      /\ (stage' \in C!Running => Len(metas') < capture'.count)
      /\ (stage' = "replied" => Len(metas') = capture'.count)
  BY DEF C!FramesLieInTheReply, C!Meta, C!Taken
<1>5. Len(metas) \in Nat
  BY DEF C!FramesLieInTheReply
<1>6. Len(payload') = C!Before(Len(metas) + 1)' /\ Len(payload') <= WinBytes
  BY <1>2, <1>5 DEF C!FramesLieInTheReply
<1>7. ASSUME NEW i \in 1..Len(metas)
      PROVE  /\ C!Before(i)' \in Nat /\ C!Before(i)' + metas'[i].bytes <= Len(payload')
             /\ \A k \in 1..metas'[i].bytes : payload'[C!Before(i)' + k] = <<i, k>>
             /\ metas'[i].method = taken'[i].how /\ taken'[i].read
             /\ taken'[i].how = "window" => ~taken'[i].blank
             /\ metas'[i].image[1] \in 1..C!Side' /\ metas'[i].image[2] \in 1..C!Side'
  <2>1. C!Before(i)' = C!Before(i)
    BY <1>2, <1>5
  <2> QED BY <1>3, <2>1 DEF C!FramesLieInTheReply
<1> QED BY <1>4, <1>6, <1>7 DEF C!FramesLieInTheReply, C!Running, C!Printing

LEMMA SameQuestions ==
  ASSUME capture \in C!Screens \cup C!Cuts \cup C!Films, UNCHANGED capture
  PROVE  (capture \in C!Screens \cup C!Cuts \cup C!Films)'
  BY DEF C!Screens, C!Cuts, C!Films

(* A step of the helper that neither adds a frame nor answers.             *)
LEMMA CaptureGoesOn ==
  ASSUME C!Inv, UNCHANGED <<capture, told, payload, metas, taken>>,
         stage \in C!Running, stage' \in C!Running \cup {"refused"}, C!TypeOK', C!PicturesAreFit'
  PROVE  C!Inv'
<1>1. stage # "idle" /\ stage' # "idle" /\ stage' # "replied" /\ stage # "answered"
  BY DEF C!Running, C!Printing
<1>2. (capture \in C!Screens \cup C!Cuts \cup C!Films)'
  BY <1>1, SameQuestions DEF C!Inv
<1>3. C!FramesLieInTheReply'
  <2>1. C!FramesLieInTheReply
    BY <1>1 DEF C!Inv
  <2> QED BY <1>1, <2>1, StillLies
<1>4. told'.kind # "frames"
  BY <1>1 DEF C!Inv
<1> QED BY <1>1, <1>2, <1>3, <1>4 DEF C!Inv

LEMMA PictureIsFit ==
  ASSUME NEW how \in {"window", "screen"}, NEW s \in Nat \X Nat, ~C!TooBig(s), NEW blank \in BOOLEAN
  PROVE  /\ C!Picture(how, s, blank) \in C!Fitting
         /\ C!Picture(how, s, blank).how = how /\ C!Picture(how, s, blank).blank = blank
         /\ C!Picture(how, s, blank).read = (how = "screen")
<1>1. C!Picture(how, s, blank) \in C!Pictures
  BY DEF C!Picture, C!Pictures
<1> QED BY <1>1 DEF C!Picture, C!Fitting

LEMMA PicturesStayTheSame == C!Fitting' = C!Fitting /\ C!Whole' = C!Whole /\ \A s \in Nat \X Nat : C!TooBig(s)' = C!TooBig(s)
  BY DEF C!Fitting, C!Whole, C!Pictures, C!TooBig, C!TooLong, C!Longest, C!Max

LEMMA WindowIsFound == ASSUME C!Inv, C!Find PROVE C!Inv'
<1>1. /\ stage = "find" /\ shot' = NoWin /\ UNCHANGED <<win, winChanges, capture, told, payload, metas, taken, size, gdi, leaked>>
      /\ stage' \in {"refused", "measure", "grab"}
      /\ stage' # "refused" => window' \in [hwnd : WinHandle, size : WinSizes, minimized : BOOLEAN]
  <2>1. /\ stage = "find" /\ shot' = NoWin
        /\ UNCHANGED <<win, winChanges, capture, told, payload, metas, taken, size, gdi, leaked>>
    BY DEF C!Find, C!Outside, C!Reply
  <2>2. CASE C!Target = {} /\ stage' = "refused"
    BY <2>1, <2>2
  <2>3. ASSUME NEW h \in C!Target, window' = [hwnd |-> h, size |-> win[h].size, minimized |-> win[h].minimized],
               stage' = IF capture.method = "window" THEN "measure" ELSE "grab"
        PROVE  stage' \in {"refused", "measure", "grab"} /\ window' \in [hwnd : WinHandle, size : WinSizes, minimized : BOOLEAN]
    <3>1. h \in WinHandle
      BY DEF C!Target, C!Visible
    <3>2. win[h].size \in WinSizes /\ win[h].minimized \in BOOLEAN
      BY <3>1 DEF C!Inv, C!TypeOK, C!Window
    <3> QED BY <2>3, <3>1, <3>2
  <2> QED BY <2>1, <2>2, <2>3 DEF C!Find
<1>2. stage \in C!Running /\ stage' \in C!Running \cup {"refused"}
  BY <1>1 DEF C!Running
<1>3. C!TypeOK'
  BY <1>1, <1>2 DEF C!Inv, C!TypeOK
<1>4. gdi' = {} /\ ~leaked'
  BY <1>1 DEF C!Inv, C!PicturesAreFit, C!Printing
<1>5. C!PicturesAreFit'
  BY <1>1, <1>4 DEF C!PicturesAreFit, C!Running, C!Printing
<1> QED BY <1>1, <1>2, <1>3, <1>5, CaptureGoesOn

LEMMA WindowIsMeasured == ASSUME C!Inv, C!Measure PROVE C!Inv'
<1>1. /\ stage = "measure" /\ UNCHANGED <<win, winChanges, capture, told, payload, metas, taken, window, gdi, leaked, shot>>
      /\ stage' \in {"open", "refused"} /\ (stage' = "open" => size' = C!Extent /\ ~C!TooBig(C!Extent))
  BY DEF C!Measure, C!Outside, C!Reply, C!Refusable
<1>2. stage \in C!Running /\ stage' \in C!Running \cup {"refused"}
  BY <1>1 DEF C!Running
<1>3. C!TypeOK'
  BY <1>1, <1>2 DEF C!Inv, C!TypeOK
<1>4. gdi' = {} /\ ~leaked' /\ shot' = NoWin /\ window \in [hwnd : WinHandle, size : WinSizes, minimized : BOOLEAN]
  BY <1>1 DEF C!Inv, C!PicturesAreFit, C!Printing, C!Running
<1>5. stage' = "open" => size' \in Nat \X Nat /\ ~C!TooBig(size')
  <2>1. C!Extent \in Nat \X Nat
    BY <1>4, ExtentIs DEF C!Inv
  <2> QED BY <1>1, <2>1
<1>6. C!PicturesAreFit'
  BY <1>1, <1>4, <1>5, PicturesStayTheSame DEF C!PicturesAreFit, C!Running, C!Printing
<1> QED BY <1>1, <1>2, <1>3, <1>6, CaptureGoesOn

LEMMA BitmapIsMade == ASSUME C!Inv, C!GetWindowDC \/ C!Allocate \/ C!SelectBitmap PROVE C!Inv'
<1>1. /\ stage \in {"open", "allocate", "select"} /\ stage' \in {"allocate", "select", "release", "print", "refused"}
      /\ UNCHANGED <<win, winChanges, capture, told, payload, metas, taken, window, size, leaked, shot>>
      /\ stage' = "refused" => stage = "open" /\ gdi' = gdi
  BY DEF C!GetWindowDC, C!Allocate, C!SelectBitmap, C!Outside, C!Reply
<1>2. stage \in C!Running /\ stage' \in C!Running \cup {"refused"}
  BY <1>1 DEF C!Running, C!Printing
<1>3. gdi' \subseteq C!Handles
  <2>1. gdi \subseteq C!Handles
    BY DEF C!Inv, C!TypeOK
  <2> QED BY <2>1 DEF C!GetWindowDC, C!Allocate, C!SelectBitmap, C!Handles
<1>4. C!TypeOK'
  BY <1>1, <1>2, <1>3 DEF C!Inv, C!TypeOK, C!Handles
<1>5. /\ ~leaked' /\ shot' = NoWin /\ window \in [hwnd : WinHandle, size : WinSizes, minimized : BOOLEAN]
      /\ size \in Nat \X Nat /\ ~C!TooBig(size) /\ (stage = "open" => gdi = {})
  BY <1>1 DEF C!Inv, C!PicturesAreFit, C!Printing, C!Running
<1>6. C!PicturesAreFit'
  BY <1>1, <1>5, PicturesStayTheSame DEF C!PicturesAreFit, C!Running, C!Printing
<1> QED BY <1>1, <1>2, <1>4, <1>6, CaptureGoesOn

LEMMA WindowIsPrinted == ASSUME C!Inv, C!PrintWindow PROVE C!Inv'
<1>1. /\ stage = "print" /\ stage' \in {"hung", "release", "read"}
      /\ UNCHANGED <<win, winChanges, capture, told, payload, metas, taken, window, size, gdi, leaked>>
      /\ stage' # "read" => shot' = shot
      /\ stage' = "read" => \E blank \in {win[window.hwnd].minimized, TRUE} : shot' = C!Picture("window", size, blank)
  BY DEF C!PrintWindow, C!Outside, C!Reply
<1>2. stage \in C!Running /\ stage' \in C!Running \cup {"refused"}
  BY <1>1 DEF C!Running, C!Printing
<1>3. C!TypeOK'
  BY <1>1, <1>2 DEF C!Inv, C!TypeOK
<1>4. /\ ~leaked' /\ shot = NoWin /\ window \in [hwnd : WinHandle, size : WinSizes, minimized : BOOLEAN]
      /\ size \in Nat \X Nat /\ ~C!TooBig(size)
  BY <1>1 DEF C!Inv, C!PicturesAreFit, C!Printing, C!Running
<1>5. stage' = "read" => shot' \in C!Fitting
  <2>1. win[window.hwnd].minimized \in BOOLEAN
    BY <1>4 DEF C!Inv, C!TypeOK, C!Window
  <2> SUFFICES ASSUME stage' = "read" PROVE shot' \in C!Fitting
    OBVIOUS
  <2>2. PICK blank \in BOOLEAN : shot' = C!Picture("window", size, blank)
    BY <1>1, <2>1
  <2> QED BY <1>4, <2>2, PictureIsFit
<1>6. C!PicturesAreFit'
  BY <1>1, <1>4, <1>5, PicturesStayTheSame DEF C!PicturesAreFit, C!Running, C!Printing
<1> QED BY <1>1, <1>2, <1>3, <1>6, CaptureGoesOn

LEMMA BitmapIsRead == ASSUME C!Inv, C!ReadBitmap PROVE C!Inv'
<1>1. /\ stage = "read" /\ stage' = "release" /\ gdi' = gdi \ {"selected"}
      /\ UNCHANGED <<win, winChanges, capture, told, payload, metas, taken, window, size, leaked>>
      /\ shot' = [shot EXCEPT !.read = TRUE] \/ shot' = NoWin
  BY DEF C!ReadBitmap, C!Outside, C!Reply
<1>2. stage \in C!Running /\ stage' \in C!Running \cup {"refused"}
  BY <1>1 DEF C!Running, C!Printing
<1>3. C!TypeOK'
  BY <1>1, <1>2 DEF C!Inv, C!TypeOK
<1>4. /\ ~leaked' /\ shot \in C!Fitting /\ window \in [hwnd : WinHandle, size : WinSizes, minimized : BOOLEAN]
      /\ size \in Nat \X Nat /\ ~C!TooBig(size)
  BY <1>1 DEF C!Inv, C!PicturesAreFit, C!Printing, C!Running
<1>5. shot' = NoWin \/ (shot' \in C!Whole /\ shot' \in C!Fitting)
  BY <1>1, <1>4 DEF C!Whole, C!Fitting, C!Pictures
<1>6. C!PicturesAreFit'
  BY <1>1, <1>4, <1>5, PicturesStayTheSame DEF C!PicturesAreFit, C!Running, C!Printing
<1> QED BY <1>1, <1>2, <1>3, <1>6, CaptureGoesOn

LEMMA WindowIsReleased == ASSUME C!Inv, C!Release PROVE C!Inv'
<1>1. /\ stage = "release" /\ stage' = (IF shot # NoWin THEN "judge" ELSE "refused") /\ gdi' = {}
      /\ UNCHANGED <<win, winChanges, capture, told, payload, metas, taken, window, size, shot>>
      /\ leaked' = (leaked \/ {"bitmap", "selected"} \subseteq gdi \ {"selected"})
  BY DEF C!Release, C!Outside, C!Reply, C!Unselected, C!PutsItBack
<1>2. stage \in C!Running /\ stage' \in C!Running \cup {"refused"}
  BY <1>1 DEF C!Running, C!Printing
<1>3. C!TypeOK'
  BY <1>1, <1>2 DEF C!Inv, C!TypeOK
<1>4. /\ ~leaked' /\ (shot = NoWin \/ shot \in C!Whole) /\ (shot = NoWin \/ shot \in C!Fitting)
      /\ window \in [hwnd : WinHandle, size : WinSizes, minimized : BOOLEAN]
  BY <1>1 DEF C!Inv, C!PicturesAreFit, C!Printing, C!Running
<1>6. C!PicturesAreFit'
  BY <1>1, <1>4, PicturesStayTheSame DEF C!PicturesAreFit, C!Running, C!Printing
<1> QED BY <1>1, <1>2, <1>3, <1>6, CaptureGoesOn

LEMMA PictureIsJudged == ASSUME C!Inv, C!Judge PROVE C!Inv'
<1>1. /\ stage = "judge" /\ stage' \in {"describe", "refused", "grab"} /\ (stage' = "describe" => ~shot.blank)
      /\ UNCHANGED <<win, winChanges, capture, told, payload, metas, taken, window, size, gdi, leaked, shot>>
  BY DEF C!Judge, C!Outside, C!Reply, C!LooksBlank, C!FlatIsBlank
<1>2. stage \in C!Running /\ stage' \in C!Running \cup {"refused"}
  BY <1>1 DEF C!Running, C!Printing
<1>3. C!TypeOK'
  BY <1>1, <1>2 DEF C!Inv, C!TypeOK
<1>4. /\ ~leaked' /\ shot \in C!Whole /\ (shot = NoWin \/ shot \in C!Fitting) /\ gdi = {}
      /\ window \in [hwnd : WinHandle, size : WinSizes, minimized : BOOLEAN]
  BY <1>1 DEF C!Inv, C!PicturesAreFit, C!Printing, C!Running
<1>6. C!PicturesAreFit'
  BY <1>1, <1>4, PicturesStayTheSame DEF C!PicturesAreFit, C!Running, C!Printing
<1> QED BY <1>1, <1>2, <1>3, <1>6, CaptureGoesOn

LEMMA ScreenIsGrabbed == ASSUME C!Inv, C!Grab PROVE C!Inv'
<1>1. /\ stage = "grab" /\ stage' \in {"describe", "refused"}
      /\ UNCHANGED <<win, winChanges, capture, told, payload, metas, taken, window, size, gdi, leaked>>
      /\ stage' = "refused" => shot' = shot
      /\ stage' = "describe" => ~C!TooBig(C!Extent) /\ \E blank \in BOOLEAN : shot' = C!Picture("screen", C!Extent, blank)
  BY DEF C!Grab, C!Outside, C!Reply, C!Refusable
<1>2. stage \in C!Running /\ stage' \in C!Running \cup {"refused"}
  BY <1>1 DEF C!Running, C!Printing
<1>3. C!TypeOK'
  BY <1>1, <1>2 DEF C!Inv, C!TypeOK
<1>4. /\ ~leaked' /\ (shot = NoWin \/ shot \in C!Fitting) /\ gdi = {}
      /\ window \in [hwnd : WinHandle, size : WinSizes, minimized : BOOLEAN]
  BY <1>1 DEF C!Inv, C!PicturesAreFit, C!Printing, C!Running
<1>5. stage' = "describe" => shot' \in C!Fitting /\ shot' \in C!Whole /\ shot'.how = "screen"
  <2>1. C!Extent \in Nat \X Nat
    BY <1>4, ExtentIs DEF C!Inv
  <2> QED BY <1>1, <2>1, PictureIsFit DEF C!Whole
<1>6. C!PicturesAreFit'
  BY <1>1, <1>4, <1>5, PicturesStayTheSame DEF C!PicturesAreFit, C!Running, C!Printing
<1> QED BY <1>1, <1>2, <1>3, <1>6, CaptureGoesOn

LEMMA CropIs == ASSUME shot \in C!Fitting, capture \in Asked, capture.region # NoWin => C!Crop[1] < C!Crop[2]
                PROVE  C!Crop[2] - C!Crop[1] \in Nat /\ C!Crop[2] - C!Crop[1] <= shot.size[2]
<1>1. shot.size[2] \in Nat
  BY DEF C!Fitting, C!Pictures
<1>2. CASE capture.region = NoWin
  BY <1>1, <1>2 DEF C!Crop
<1>3. CASE capture.region # NoWin
  <2>1. capture.region[1] \in Int /\ capture.region[2] \in Int
    BY <1>3, AskedIsWhole, CapturesAreBoundedByNumbers
  <2>2. ASSUME NEW n \in Int PROVE C!Row(n) \in Nat /\ C!Row(n) <= shot.size[2]
    <3> DEFINE m == C!Min({n, shot.size[2]})
    <3>1. m \in Int /\ m <= shot.size[2]
      BY <1>1, MinIs
    <3>2. C!Row(n) = C!Max({0, m})
      BY DEF C!Row
    <3> HIDE DEF m
    <3> QED BY <1>1, <3>1, <3>2, MaxIs
  <2>3. C!Crop = <<C!Row(capture.region[1]), C!Row(capture.region[2])>>
    BY <1>3 DEF C!Crop
  <2> QED BY <1>1, <1>3, <2>1, <2>2, <2>3
<1> QED BY <1>2, <1>3

LEMMA PictureIsDescribed == ASSUME C!Inv, C!Describe PROVE C!Inv'
<1> DEFINE band == C!Crop[2] - C!Crop[1]
           client == IF capture.client_only THEN C!Extent ELSE shot.size
<1>1. /\ stage = "describe" /\ stage' \in {"append", "refused"}
      /\ UNCHANGED <<win, winChanges, capture, told, payload, metas, taken, window, size, gdi, leaked>>
      /\ stage' = "refused" => shot' = shot
      /\ stage' = "append" => /\ shot' = [shot EXCEPT !.size[2] = band, !.client = client]
                              /\ (capture.region # NoWin => C!Crop[1] < C!Crop[2])
  BY DEF C!Describe, C!Outside, C!Reply
<1>2. stage \in C!Running /\ stage' \in C!Running \cup {"refused"} /\ stage # "idle"
  BY <1>1 DEF C!Running, C!Printing
<1>3. C!TypeOK'
  BY <1>1, <1>2 DEF C!Inv, C!TypeOK
<1>4. /\ ~leaked' /\ shot \in C!Whole /\ (shot.how = "window" => ~shot.blank) /\ gdi = {}
      /\ window \in [hwnd : WinHandle, size : WinSizes, minimized : BOOLEAN] /\ capture \in Asked
  BY <1>1, <1>2 DEF C!Inv, C!PicturesAreFit, C!Printing, C!Running, Asked
<1>5. stage' = "append" => shot' \in C!Fitting /\ shot' \in C!Whole /\ (shot'.how = "window" => ~shot'.blank)
  <2> SUFFICES ASSUME stage' = "append" PROVE shot' \in C!Fitting /\ shot' \in C!Whole /\ (shot'.how = "window" => ~shot'.blank)
    OBVIOUS
  <2>1. shot \in C!Pictures /\ ~C!TooBig(shot.size) /\ shot.read /\ shot.size \in Nat \X Nat
    BY <1>4 DEF C!Whole, C!Fitting, C!Pictures
  <2>2. band \in Nat /\ band <= shot.size[2]
    BY <1>1, <1>4, CropIs DEF C!Whole
  <2>3. client \in Nat \X Nat
    <3>1. C!Extent \in Nat \X Nat
      BY <1>4, ExtentIs DEF C!Inv
    <3> QED BY <2>1, <3>1
  <2> HIDE DEF band, client
  <2>4. [shot.size EXCEPT ![2] = band] = <<shot.size[1], band>>
    BY <2>1
  <2>5. shot' = [shot EXCEPT !.size = <<shot.size[1], band>>, !.client = client]
    BY <1>1, <2>1, <2>4
  <2>6. ~C!TooBig(<<shot.size[1], band>>)
    BY <2>1, <2>2, CropIsSmall
  <2>7. /\ shot' \in C!Pictures /\ shot'.size = <<shot.size[1], band>> /\ shot'.read
        /\ shot'.how = shot.how /\ shot'.blank = shot.blank
    BY <2>1, <2>2, <2>3, <2>5 DEF C!Pictures
  <2> QED BY <1>4, <2>6, <2>7 DEF C!Whole, C!Fitting
<1>6. shot \in C!Fitting
  BY <1>4 DEF C!Whole
<1>7. C!PicturesAreFit'
  BY <1>1, <1>4, <1>5, <1>6, PicturesStayTheSame DEF C!PicturesAreFit, C!Running, C!Printing
<1> QED BY <1>1, <1>2, <1>3, <1>7, CaptureGoesOn

(* A frame goes behind the others, after its bytes were counted.           *)
LEMMA FrameIsTaken == ASSUME C!Inv, C!AppendFrame PROVE C!Inv'
<1>1. /\ stage = "append" /\ UNCHANGED <<win, winChanges, capture, told, window, size, gdi, leaked, shot>>
  BY DEF C!AppendFrame, C!Outside
<1>2. stage \in C!Running /\ stage # "idle"
  BY <1>1 DEF C!Running, C!Printing
<1>3. C!PicturesAreFit /\ C!FramesLieInTheReply /\ capture \in Asked /\ C!TypeOK
  BY <1>2 DEF C!Inv, Asked
<1>4. /\ ~leaked /\ shot \in C!Whole /\ (shot.how = "window" => ~shot.blank) /\ gdi = {} /\ (shot = NoWin \/ shot \in C!Fitting)
      /\ window \in [hwnd : WinHandle, size : WinSizes, minimized : BOOLEAN]
  BY <1>1, <1>3 DEF C!PicturesAreFit, C!Printing, C!Running
<1>5. CASE stage' = "refused" /\ UNCHANGED <<payload, metas, taken>>
  <2>1. C!TypeOK'
    BY <1>1, <1>3, <1>5 DEF C!TypeOK
  <2>2. C!PicturesAreFit'
    BY <1>1, <1>4, <1>5, PicturesStayTheSame DEF C!PicturesAreFit, C!Running, C!Printing
  <2> QED BY <1>1, <1>2, <1>5, <2>1, <2>2, CaptureGoesOn
<1>6. ASSUME NEW bytes \in 1..WinEncoded, shot.size[1] * shot.size[2] > 0, ~(Len(payload) + bytes > WinBytes), C!Append1(bytes),
             stage' \in {"refused", IF Len(metas') < capture.count THEN "find" ELSE "replied"}
      PROVE  C!Inv'
  <2> DEFINE n == Len(metas)
             m == [method |-> shot.how, full |-> shot.full, client |-> shot.client,
                   image |-> C!Fitted(shot.size, C!Side), bytes |-> bytes]
             t == [of |-> window.hwnd, how |-> shot.how, blank |-> shot.blank, read |-> shot.read]
             data == [k \in 1..bytes |-> <<n + 1, k>>]
  <2>1. metas' = Append(metas, m) /\ taken' = Append(taken, t) /\ payload' = payload \o data
    BY <1>6 DEF C!Append1, C!Appended, C!AtTheEnd
  <2>2. shot \in C!Pictures /\ shot.read /\ shot.size \in Nat \X Nat
    BY <1>4 DEF C!Whole, C!Fitting, C!Pictures
  <2>3. C!Side \in Nat \ {0} /\ bytes \in Nat
    BY <1>3, SideIs
  <2>4. m.image \in Nat \X Nat /\ m.image[1] \in 1..C!Side /\ m.image[2] \in 1..C!Side
    <3> DEFINE side == C!Side
               s == shot.size
    <3>1. side \in Nat \ {0} /\ s \in Nat \X Nat /\ s[1] * s[2] > 0
      BY <1>6, <2>2, <2>3
    <3> HIDE DEF side, s
    <3>2. C!Fitted(s, side) \in Nat \X Nat /\ C!Fitted(s, side)[1] \in 1..side /\ C!Fitted(s, side)[2] \in 1..side
      BY <3>1, FittedIsSmall
    <3> QED BY <3>2 DEF side, s
  <2>5. m \in C!Meta /\ m.bytes = bytes /\ m.method = t.how
    BY <2>2, <2>3, <2>4 DEF C!Meta, C!Pictures
  <2>6. t \in C!Taken /\ t.read /\ (t.how = "window" => ~t.blank)
    BY <1>4, <2>2 DEF C!Taken, C!Pictures
  <2>7. n \in Nat /\ metas \in Seq(C!Meta) /\ taken \in Seq(C!Taken) /\ payload \in Seq(Nat \X Nat) /\ Len(taken) = n
    BY <1>3 DEF C!FramesLieInTheReply, C!TypeOK
  <2>8. data \in Seq(Nat \X Nat) /\ Len(data) = bytes /\ \A k \in 1..bytes : data[k] = <<n + 1, k>>
    BY <2>3, <2>7
  <2> HIDE DEF m, t, data
  <2>9. /\ metas' \in Seq(C!Meta) /\ Len(metas') = n + 1 /\ metas'[n + 1] = m /\ \A i \in 1..n : metas'[i] = metas[i]
    BY <2>1, <2>5, <2>7
  <2>10. /\ taken' \in Seq(C!Taken) /\ Len(taken') = n + 1 /\ taken'[n + 1] = t /\ \A i \in 1..n : taken'[i] = taken[i]
    BY <2>1, <2>6, <2>7
  <2>11. /\ payload' \in Seq(Nat \X Nat) /\ Len(payload') = Len(payload) + bytes /\ Len(payload) \in Nat
         /\ \A j \in 1..Len(payload) : payload'[j] = payload[j]
         /\ \A k \in 1..bytes : payload'[Len(payload) + k] = <<n + 1, k>>
    <3>1. payload \o data \in Seq(Nat \X Nat) /\ Len(payload \o data) = Len(payload) + bytes /\ Len(payload) \in Nat
      <4> DEFINE Bytes == Nat \X Nat
      <4>1. payload \in Seq(Bytes) /\ data \in Seq(Bytes) /\ Len(data) = bytes
        BY <2>7, <2>8
      <4> HIDE DEF Bytes
      <4>2. payload \o data \in Seq(Bytes)
        BY <4>1
      <4>3. Len(payload \o data) = Len(payload) + Len(data) /\ Len(payload) \in Nat
        BY <4>1
      <4> QED BY <4>1, <4>2, <4>3 DEF Bytes
    <3>2. \A j \in 1..Len(payload) : (payload \o data)[j] = payload[j]
      BY <2>3, <2>7, <2>8, <3>1
    <3>3. ASSUME NEW k \in 1..bytes PROVE (payload \o data)[Len(payload) + k] = <<n + 1, k>>
      <4>1. Len(payload) + k \in 1..Len(payload) + Len(data) /\ ~(Len(payload) + k <= Len(payload))
            /\ (Len(payload) + k) - Len(payload) = k
        BY <2>3, <2>8, <3>1
      <4>2. (payload \o data)[Len(payload) + k] = data[(Len(payload) + k) - Len(payload)]
        BY <2>7, <2>8, <4>1
      <4> QED BY <2>8, <4>1, <4>2
    <3> QED BY <2>1, <3>1, <3>2, <3>3
  <2>12. PICK len \in Nat : len = n
    BY <2>7
  <2>13. /\ \A i \in 1..len + 1 : C!Before(i)' = C!Before(i)
         /\ C!Before(len + 1) \in Nat /\ C!Before(len + 2)' = C!Before(len + 1) + bytes
    BY <2>1, <2>5, <2>7, <2>12, FrameIsAppended
  <2>14. Len(payload) = C!Before(len + 1) /\ Len(payload) <= WinBytes
    BY <1>3, <2>12 DEF C!FramesLieInTheReply
  <2> HIDE DEF n
  <2>15. Len(payload') = C!Before(len + 2)' /\ Len(payload') <= WinBytes
    BY <1>6, <2>11, <2>13, <2>14, CapturesAreBoundedByNumbers
  <2>16. ASSUME NEW i \in 1..len + 1
         PROVE  /\ C!Before(i)' \in Nat /\ C!Before(i)' + metas'[i].bytes <= Len(payload')
                /\ \A k \in 1..metas'[i].bytes : payload'[C!Before(i)' + k] = <<i, k>>
                /\ metas'[i].method = taken'[i].how /\ taken'[i].read
                /\ taken'[i].how = "window" => ~taken'[i].blank
                /\ metas'[i].image[1] \in 1..C!Side /\ metas'[i].image[2] \in 1..C!Side
    <3>1. CASE i = len + 1
      <4>1. metas'[i] = m /\ taken'[i] = t /\ C!Before(i)' = Len(payload)
        BY <2>9, <2>10, <2>12, <2>13, <2>14, <3>1
      <4>2. \A k \in 1..bytes : payload'[Len(payload) + k] = <<i, k>>
        BY <2>11, <2>12, <3>1
      <4>3. Len(payload) \in Nat /\ Len(payload) + bytes <= Len(payload')
        BY <2>3, <2>11
      <4>4. m.bytes = bytes /\ m.method = t.how /\ t.read /\ (t.how = "window" => ~t.blank)
            /\ m.image[1] \in 1..C!Side /\ m.image[2] \in 1..C!Side
        BY <2>4, <2>5, <2>6
      <4>5. \A k \in 1..m.bytes : payload'[Len(payload) + k] = <<i, k>>
        BY <4>2, <4>4
      <4> QED BY <4>1, <4>3, <4>4, <4>5
    <3>2. CASE i \in 1..len
      <4> DEFINE b == C!Before(i)
                 size0 == metas[i].bytes
      <4>1. metas'[i] = metas[i] /\ taken'[i] = taken[i] /\ C!Before(i)' = b
        BY <2>9, <2>10, <2>12, <2>13, <3>2
      <4>2. /\ b \in Nat /\ b + size0 <= Len(payload)
            /\ \A k \in 1..size0 : payload[b + k] = <<i, k>>
            /\ metas[i].method = taken[i].how /\ taken[i].read
            /\ taken[i].how = "window" => ~taken[i].blank
            /\ metas[i].image[1] \in 1..C!Side /\ metas[i].image[2] \in 1..C!Side
        BY <1>3, <2>12, <3>2 DEF C!FramesLieInTheReply, n
      <4>3. size0 \in Nat
        <5>1. metas[i] \in C!Meta
          BY <2>7, <2>12, <3>2 DEF n
        <5> QED BY <5>1 DEF C!Meta
      <4> HIDE DEF b, size0
      <4>4. \A k \in 1..size0 : payload'[b + k] = <<i, k>>
        <5> TAKE k \in 1..size0
        <5>1. b + k \in 1..Len(payload)
          BY <2>11, <4>2, <4>3
        <5>2. payload[b + k] = <<i, k>>
          BY <4>2
        <5> QED BY <2>11, <5>1, <5>2
      <4>5. b + size0 <= Len(payload')
        BY <2>3, <2>11, <4>2, <4>3
      <4> QED BY <4>1, <4>2, <4>4, <4>5 DEF size0
    <3> QED BY <3>1, <3>2
  <2>17. stage' \in C!Running => len + 1 < capture.count
    BY <1>6, <2>9, <2>12 DEF C!Running, C!Printing
  <2>18. stage' = "replied" => len + 1 = capture.count
    <3>1. len < capture.count /\ capture.count \in Nat
      BY <1>2, <1>3, <2>12, AskedIsWhole DEF C!FramesLieInTheReply, n
    <3> QED BY <1>6, <2>9, <2>12, <3>1
  <2>19. C!Side' = C!Side
    BY <1>1 DEF C!Side
  <2>20. C!FramesLieInTheReply'
    <3>1. Len(metas') = len + 1
      BY <2>9, <2>12
    <3>2. Len(payload') = C!Before(Len(metas) + 1)'
      <4>1. (len + 1) + 1 = len + 2
        BY <2>12
      <4> QED BY <2>15, <3>1, <4>1 DEF C!Before
    <3>3. metas' \in Seq(C!Meta)' /\ taken' \in Seq(C!Taken)' /\ payload' \in Seq(Nat \X Nat)
      BY <2>9, <2>10, <2>11 DEF C!Meta, C!Taken
    <3> QED BY <1>1, <2>15, <2>16, <2>17, <2>18, <2>19, <3>1, <3>2, <3>3 DEF C!FramesLieInTheReply
  <2>21. stage' \in {"refused", "find", "replied"}
    BY <1>6
  <2>22. C!TypeOK'
    BY <1>1, <1>3, <2>9, <2>10, <2>21 DEF C!TypeOK, C!Running
  <2>23. C!PicturesAreFit'
    BY <1>1, <1>4, <2>21, PicturesStayTheSame DEF C!PicturesAreFit, C!Running, C!Printing
  <2>24. (capture \in C!Screens \cup C!Cuts \cup C!Films)'
    BY <1>1, <1>3 DEF Asked, C!Screens, C!Cuts, C!Films
  <2>25. told'.kind # "frames" /\ stage' # "idle"
    BY <1>1, <2>21 DEF C!Inv
  <2> QED BY <2>20, <2>22, <2>23, <2>24, <2>25 DEF C!Inv
<1>7. \/ stage' = "refused" /\ UNCHANGED <<payload, metas, taken>>
      \/ /\ shot.size[1] * shot.size[2] > 0
         /\ \E bytes \in 1..WinEncoded :
              /\ ~(Len(payload) + bytes > WinBytes) /\ C!Append1(bytes)
              /\ stage' \in {"refused", IF Len(metas') < capture.count THEN "find" ELSE "replied"}
  BY DEF C!AppendFrame, C!Reply
<1> QED BY <1>5, <1>6, <1>7

LEMMA NothingComesBefore == ASSUME NEW n, n = 1 PROVE C!Before(n)' = (IF metas' = <<>> THEN 0 ELSE C!Before(n)')
<1>1. C!Before(1)' = SumOf(BytesOf(metas', 0), 1..0)
  BY BeforeIsASum
<1>2. 1..0 = {} /\ BytesOf(metas', 0) \in [1..0 -> Nat]
  BY DEF BytesOf
<1>3. SumOf(BytesOf(metas', 0), 1..0) = 0
  BY <1>2, FS_EmptySet, SumOfNothing
<1> QED BY <1>1, <1>3

LEMMA CaptureIsAsked == ASSUME C!Inv, NEW r \in Asked, C!Ask(r) PROVE C!Inv'
<1>1. /\ stage = "idle" /\ capture' = r /\ stage' = "find"
      /\ UNCHANGED <<win, winChanges, window, size, gdi, leaked, shot, payload, metas, taken, told>>
  BY DEF C!Ask
<1>2. C!TypeOK'
  BY <1>1 DEF C!Inv, C!TypeOK, C!Running
<1>3. C!PicturesAreFit /\ metas = <<>> /\ payload = <<>> /\ taken = <<>>
  BY <1>1 DEF C!Inv
<1>4. gdi = {} /\ ~leaked /\ (shot = NoWin \/ shot \in C!Fitting)
  BY <1>1, <1>3 DEF C!PicturesAreFit, C!Printing
<1>5. C!PicturesAreFit'
  BY <1>1, <1>4, PicturesStayTheSame DEF C!PicturesAreFit, C!Running, C!Printing
<1>6. C!FramesLieInTheReply'
  <2>1. metas' = <<>> /\ payload' = <<>> /\ taken' = <<>> /\ capture'.count \in Nat \ {0}
    BY <1>1, <1>3, AskedIsWhole
  <2>2. C!Before(1)' = 0
    BY <2>1, NothingComesBefore
  <2>3. Len(metas') = 0 /\ Len(payload') = 0
    BY <2>1
  <2>4. C!Before(Len(metas) + 1)' = 0
    <3>1. Len(metas') + 1 = 1
      BY <2>3
    <3> QED BY <2>2, <3>1 DEF C!Before
  <2>5. metas' \in Seq(C!Meta)' /\ taken' \in Seq(C!Taken)' /\ payload' \in Seq(Nat \X Nat)
    BY <2>1
  <2> QED BY <1>1, <2>1, <2>3, <2>4, <2>5, CapturesAreBoundedByNumbers DEF C!FramesLieInTheReply
<1>7. (capture \in C!Screens \cup C!Cuts \cup C!Films)'
  BY <1>1 DEF Asked, C!Screens, C!Cuts, C!Films
<1>8. told'.kind # "frames"
  BY <1>1 DEF C!Inv
<1> QED BY <1>1, <1>2, <1>5, <1>6, <1>7, <1>8 DEF C!Inv

LEMMA WindowsChange == ASSUME C!Inv, NEW h \in WinHandle, NEW w \in C!Window, C!Changes(h, w) PROVE C!Inv'
<1>1. /\ stage \in C!Running /\ winChanges < WinMoves /\ win' = [win EXCEPT ![h] = w] /\ winChanges' = winChanges + 1
      /\ UNCHANGED <<capture, stage, window, size, gdi, leaked, shot, payload, metas, taken, told>>
  BY DEF C!Changes
<1>2. C!TypeOK'
  BY <1>1, CapturesAreBoundedByNumbers DEF C!Inv, C!TypeOK, C!Window
<1>3. C!PicturesAreFit'
  BY <1>1, PicturesStayTheSame DEF C!Inv, C!PicturesAreFit
<1> QED BY <1>1, <1>2, <1>3, CaptureGoesOn

LEMMA SubSeqIs ==
  ASSUME NEW terms, NEW p \in Seq(terms), NEW i \in Nat, NEW j \in Nat, i >= 1, j <= Len(p), i <= j + 1
  PROVE  SubSeq(p, i, j) = [k \in 1..(j - i + 1) |-> p[i + k - 1]]
  OBVIOUS

(* A frame is cut out of the payload where its bytes lie.                  *)
LEMMA ChunkIsTheFrame ==
  ASSUME C!FramesLieInTheReply, NEW i \in 1..Len(metas)
  PROVE  C!Chunk(i) = [k \in 1..metas[i].bytes |-> <<i, k>>]
<1> DEFINE b == C!Before(i)
           m == metas[i].bytes
<1>1. b \in Nat /\ b + m <= Len(payload) /\ (\A k \in 1..m : payload[b + k] = <<i, k>>) /\ payload \in Seq(Nat \X Nat)
  BY DEF C!FramesLieInTheReply
<1>2. m \in Nat
  <2>1. metas[i] \in C!Meta
    BY DEF C!FramesLieInTheReply
  <2> QED BY <2>1 DEF C!Meta
<1>3. C!Chunk(i) = SubSeq(payload, b + 1, b + m)
  BY DEF C!Chunk
<1> HIDE DEF b, m
<1>4. SubSeq(payload, b + 1, b + m) = [k \in 1..m |-> payload[b + k]]
  <2> DEFINE i0 == b + 1
             j0 == b + m
  <2>1. i0 \in Nat /\ j0 \in Nat /\ i0 >= 1 /\ j0 <= Len(payload) /\ i0 <= j0 + 1
        /\ j0 - i0 + 1 = m /\ \A k \in 1..m : i0 + k - 1 = b + k
    BY <1>1, <1>2
  <2> HIDE DEF i0, j0
  <2>2. SubSeq(payload, i0, j0) = [k \in 1..(j0 - i0 + 1) |-> payload[i0 + k - 1]]
    BY <1>1, <2>1, SubSeqIs
  <2>3. SubSeq(payload, i0, j0) = [k \in 1..m |-> payload[b + k]]
    BY <2>1, <2>2
  <2> QED BY <2>3 DEF i0, j0
<1> QED BY <1>1, <1>3, <1>4 DEF m

LEMMA FramesAreAnswered == ASSUME C!Inv, C!Answers PROVE C!Inv'
<1>1. /\ stage = "replied" /\ stage' = "answered"
      /\ told' = [kind |-> "frames", window |-> window.hwnd,
                  frames |-> [i \in 1..Len(metas) |-> [data |-> C!Chunk(i), meta |-> metas[i]]]]
      /\ UNCHANGED <<win, winChanges, capture, window, size, gdi, leaked, shot, payload, metas, taken>>
  BY DEF C!Answers, C!Reply
<1>2. C!TypeOK'
  BY <1>1 DEF C!Inv, C!TypeOK
<1>3. C!PicturesAreFit /\ C!FramesLieInTheReply /\ capture \in Asked
  BY <1>1 DEF C!Inv, Asked
<1>4. gdi = {} /\ ~leaked /\ (shot = NoWin \/ shot \in C!Fitting)
  BY <1>1, <1>3 DEF C!PicturesAreFit, C!Printing
<1>5. C!PicturesAreFit'
  BY <1>1, <1>4, PicturesStayTheSame DEF C!PicturesAreFit, C!Running, C!Printing
<1>6. C!FramesLieInTheReply' /\ (capture \in C!Screens \cup C!Cuts \cup C!Films)'
  <2>1. stage' \notin C!Running /\ stage' # "replied"
    BY <1>1 DEF C!Running, C!Printing
  <2>2. C!FramesLieInTheReply'
    BY <1>1, <1>3, <2>1, StillLies
  <2> QED BY <1>1, <1>3, <2>2, SameQuestions DEF Asked
<1>7. C!FramesAreWhole'
  <2> DEFINE n == Len(metas)
             frames == [i \in 1..n |-> [data |-> C!Chunk(i), meta |-> metas[i]]]
  <2>1. n \in Nat /\ n = capture.count
    BY <1>1, <1>3 DEF C!FramesLieInTheReply
  <2>2. told'.frames = frames
    BY <1>1
  <2>3. Len(frames) = n
    BY <2>1
  <2>4. ASSUME NEW i \in 1..n
        PROVE  /\ frames[i].data = [k \in 1..frames[i].meta.bytes |-> <<i, k>>]
               /\ frames[i].meta.method = taken[i].how /\ taken[i].read
               /\ (taken[i].how = "window" => ~taken[i].blank)
               /\ frames[i].meta.image[1] \in 1..C!Side /\ frames[i].meta.image[2] \in 1..C!Side
    <3>1. frames[i].data = C!Chunk(i) /\ frames[i].meta = metas[i]
      OBVIOUS
    <3>2. C!Chunk(i) = [k \in 1..metas[i].bytes |-> <<i, k>>]
      BY <1>3, ChunkIsTheFrame
    <3> HIDE DEF frames
    <3> QED BY <1>3, <3>1, <3>2 DEF C!FramesLieInTheReply
  <2>5. C!Side' = C!Side
    BY <1>1 DEF C!Side
  <2> HIDE DEF frames, n
  <2>6. Len(told'.frames) = capture'.count /\ Len(told'.frames) = n
    BY <1>1, <2>1, <2>2, <2>3
  <2>7. ASSUME NEW i \in 1..Len(told'.frames)
        PROVE  /\ told'.frames[i].data = [k \in 1..told'.frames[i].meta.bytes |-> <<i, k>>]
               /\ told'.frames[i].meta.method = taken'[i].how /\ taken'[i].read
               /\ (taken'[i].how = "window" => ~taken'[i].blank)
               /\ told'.frames[i].meta.image[1] \in 1..C!Side' /\ told'.frames[i].meta.image[2] \in 1..C!Side'
    <3>1. i \in 1..n /\ told'.frames[i] = frames[i] /\ taken'[i] = taken[i]
      BY <1>1, <2>2, <2>6
    <3> QED BY <2>4, <2>5, <3>1
  <2> QED BY <2>6, <2>7 DEF C!FramesAreWhole
<1> QED BY <1>1, <1>2, <1>5, <1>6, <1>7 DEF C!Inv

LEMMA CaptureEnds == ASSUME C!Inv, C!Refuses \/ C!Stops PROVE C!Inv'
<1>1. /\ stage \in C!Running \cup {"refused"} /\ stage' = "answered"
      /\ \E kind0 \in {"refused", "stopped"} : told' = [told EXCEPT !.kind = kind0]
      /\ UNCHANGED <<win, winChanges, capture, window, size, leaked, shot, payload, metas, taken>>
      /\ gdi' = {} \/ (stage = "refused" /\ gdi' = gdi)
  BY DEF C!Refuses, C!Stops, C!Reply
<1>2. stage # "idle" /\ stage # "replied" /\ (stage = "refused" => stage \notin C!Printing)
  BY <1>1 DEF C!Running, C!Printing
<1>3. C!PicturesAreFit /\ C!FramesLieInTheReply /\ capture \in Asked /\ C!TypeOK
  BY <1>2 DEF C!Inv, Asked
<1>4. gdi' = {} /\ ~leaked /\ (shot = NoWin \/ shot \in C!Fitting)
  BY <1>1, <1>2, <1>3 DEF C!PicturesAreFit
<1>5. told'.kind \in {"refused", "stopped"} /\ DOMAIN told' = {"kind", "window", "frames"}
  <2>1. DOMAIN told = {"kind", "window", "frames"}
    BY <1>3 DEF C!TypeOK
  <2>2. PICK kind0 \in {"refused", "stopped"} : told' = [told EXCEPT !.kind = kind0]
    BY <1>1
  <2>3. told'.kind = kind0 /\ DOMAIN told' = DOMAIN told
    BY <2>1, <2>2
  <2> QED BY <2>1, <2>3
<1>6. C!TypeOK'
  BY <1>1, <1>3, <1>4, <1>5 DEF C!TypeOK
<1>7. C!PicturesAreFit'
  BY <1>1, <1>4, PicturesStayTheSame DEF C!PicturesAreFit, C!Running, C!Printing
<1>8. C!FramesLieInTheReply' /\ (capture \in C!Screens \cup C!Cuts \cup C!Films)'
  <2>1. stage' \notin C!Running /\ stage' # "replied"
    BY <1>1 DEF C!Running, C!Printing
  <2>2. C!FramesLieInTheReply'
    BY <1>1, <1>3, <2>1, StillLies
  <2> QED BY <1>1, <1>3, <2>2, SameQuestions DEF Asked
<1> QED BY <1>1, <1>5, <1>6, <1>7, <1>8 DEF C!Inv

LEMMA CaptureInit == ASSUME C!Init PROVE C!Inv
<1>1. C!TypeOK
  <2>1. told = [kind |-> "none", window |-> NoWin, frames |-> <<>>]
    BY DEF C!Init
  <2>2. DOMAIN told = {"kind", "window", "frames"} /\ told.kind = "none"
    BY <2>1
  <2>3. winChanges \in 0..WinMoves /\ Len(metas) = Len(taken)
    BY CapturesAreBoundedByNumbers DEF C!Init
  <2> QED BY <2>2, <2>3 DEF C!Init, C!TypeOK
<1>2. C!PicturesAreFit
  BY DEF C!Init, C!PicturesAreFit, C!Running, C!Printing
<1> QED BY <1>1, <1>2 DEF C!Init, C!Inv

LEMMA CaptureStep == ASSUME C!Inv, [C!Next]_captureVars PROVE C!Inv'
<1>1. CASE UNCHANGED captureVars
  <2>1. UNCHANGED <<win, winChanges, capture, stage, window, size, gdi, leaked, shot, payload, metas, taken, told>>
    BY <1>1 DEF captureVars
  <2>2. C!TypeOK' /\ C!PicturesAreFit'
    BY <2>1, PicturesStayTheSame DEF C!Inv, C!TypeOK, C!PicturesAreFit
  <2>3. stage # "idle" => C!FramesLieInTheReply' /\ (capture \in C!Screens \cup C!Cuts \cup C!Films)'
    BY <2>1, StillLies, SameQuestions DEF C!Inv, Asked
  <2>4. (told.kind = "frames" => stage = "answered" /\ C!FramesAreWhole)'
    BY <2>1 DEF C!Inv, C!FramesAreWhole, C!Side
  <2> QED BY <2>1, <2>2, <2>3, <2>4 DEF C!Inv
<1>2. CASE C!Next
  <2>1. ASSUME C!Helper PROVE C!Inv'
    BY <2>1, WindowIsFound, WindowIsMeasured, BitmapIsMade, WindowIsPrinted, BitmapIsRead, WindowIsReleased, PictureIsJudged,
       ScreenIsGrabbed, PictureIsDescribed, FrameIsTaken DEF C!Helper
  <2> QED BY <1>2, <2>1, CaptureIsAsked, WindowsChange, FramesAreAnswered, CaptureEnds DEF C!Next, Asked
<1> QED BY <1>1, <1>2

LEMMA CapturesHold == ASSUME C!Inv PROVE C!CaptureIsBounded /\ C!FramesAreWhole
<1>1. C!FramesAreWhole
  BY DEF C!Inv, C!FramesAreWhole
<1>2. Len(payload) <= WinBytes
  <2>1. CASE stage = "idle"
    BY <2>1, CapturesAreBoundedByNumbers DEF C!Inv
  <2>2. CASE stage # "idle"
    BY <2>2 DEF C!Inv, C!FramesLieInTheReply
  <2> QED BY <2>1, <2>2
<1>3. "bitmap" \in gdi => ~C!TooBig(size)
  BY DEF C!Inv, C!PicturesAreFit
<1>4. shot # NoWin => ~C!TooBig(shot.size)
  BY DEF C!Inv, C!PicturesAreFit, C!Fitting
<1>5. (stage \notin C!Printing => gdi = {}) /\ ~leaked
  BY DEF C!Inv, C!PicturesAreFit
<1> QED BY <1>1, <1>2, <1>3, <1>4, <1>5 DEF C!CaptureIsBounded

----------------------------------------------------------------------------
(* What a pass and an append of _open_feed_append() leave are again files  *)
(* stamped by the clock, whatever was renamed, unlinked or cut short.      *)
THEOREM FeedTypes == Spec => []TypeOK
<1>1. Inv => TypeOK
  BY DEF Inv
<1> QED BY <1>1, FeedStays, PTL

(* Each generation of the feed stays within max_bytes and the record that  *)
(* took it there, whatever renames fail and whenever the process restarts. *)
THEOREM DiskUse == Spec => []DiskIsBounded
<1>1. Inv => DiskIsBounded
  BY DEF Inv
<1> QED BY <1>1, FeedStays, PTL

(* A pass moves the active file aside or, past the age budget to its last  *)
(* record, drops it; nothing else shortens it.                             *)
THEOREM RecentRecordsAreKept == Spec => NothingRecentIsDropped
<1>1. ASSUME TypeOK, [Next]_vars, active.size > 0, active' # active, active'.size <= active.size
      PROVE  rotated' = active \/ now - active.newest > MaxAge
  <2>1. active \in File /\ active.size \in Nat
    BY <1>1 DEF TypeOK, File
  <2>2. CASE UNCHANGED active
    BY <1>1, <2>2
  <2>3. ASSUME NEW p \in Passes, rotated' = p.rotated, p.active # active
        PROVE  rotated' = active \/ now - active.newest > MaxAge
    <3>1. p \in Moved
      BY <2>3 DEF Passes, Kept, Stuck
    <3>2. p.rotated \in Expiry(active)
      BY <3>1 DEF Moved
    <3> QED BY <2>3, <3>2 DEF Expiry
  <2>4. CASE AppendRecord
    <3>1. PICK p \in Passes :
            /\ rotated' = p.rotated
            /\ active' = p.active \/ \E whole \in BOOLEAN : active' = With(p.active, whole)
      BY <2>4 DEF AppendRecord
    <3>2. p.active # active
      BY <1>1, <2>1, <3>1, FeedWith DEF TypeOK
    <3> QED BY <2>3, <3>1, <3>2
  <2>5. CASE Maintain
    BY <1>1, <2>3, <2>5 DEF Maintain
  <2> QED BY <1>1, <2>2, <2>4, <2>5 DEF Next, Restart, Tick, vars
<1>2. Inv => TypeOK
  BY DEF Inv
<1> QED BY <1>1, <1>2, FeedStays, PTL DEF NothingRecentIsDropped, Spec

(* A pass that is not due finds no record past max_age; one that is due    *)
(* empties the active file or records that it could not.                   *)
THEOREM OldRecordsGo == Spec => PassLeavesNothingOld
<1>1. ASSUME TypeOK, Maintain, active'.size > 0, active'.readable
      PROVE  now - active'.oldest <= MaxAge \/ error'
  <2>1. PICK p \in Passes : active' = p.active /\ error' = p.error
    BY <1>1 DEF Maintain
  <2>2. CASE p \in Kept /\ ~Due(active)
    <3>1. active' = active
      BY <2>1, <2>2 DEF Kept
    <3>2. ~TooOld(active)
      BY <1>1, <2>2, <3>1 DEF Due
    <3>3. active.oldest \in Int /\ now \in Int /\ MaxAge \in Int
      BY <1>1, FeedFileAssumption DEF TypeOK, File
    <3> QED BY <1>1, <3>1, <3>2, <3>3 DEF TooOld
  <2>3. CASE p \in Stuck
    BY <2>1, <2>3 DEF Stuck
  <2>4. CASE p \in Moved
    <3>1. active'.size = 0
      BY <2>1, <2>4, FeedNothing DEF Moved
    <3> QED BY <1>1, <3>1
  <2> QED BY <2>2, <2>3, <2>4 DEF Passes
<1>2. Inv => TypeOK
  BY DEF Inv
<1> QED BY <1>1, <1>2, FeedStays, PTL DEF PassLeavesNothingOld, Spec

(* However many directories there are and however they are redirected and  *)
(* put back while requests are judged, what one holds is inside its roots, *)
(* but for a path put back between the two looks (_open_judged).           *)
THEOREM HeldStaysInside == MCSpec => []RedirectionsAreNoticed
<1>1. MCInit => R!Inv
  BY RootsInit DEF MCInit
<1>2. R!Inv /\ [MCNext]_filesVars => R!Inv'
  BY RootsStep DEF MCNext, filesVars, rootVars, R!rootVars
<1>3. R!Inv => RedirectionsAreNoticed
  BY DEF R!Inv, R!HandlesAreJudged, R!IsJudged, RedirectionsAreNoticed, R!RedirectionsAreNoticed
<1> QED BY <1>1, <1>2, <1>3, PTL DEF MCSpec

(* However many calls save under one name, and whatever others put there   *)
(* and take away at any time, a save loses no file of theirs but one put   *)
(* there between its test and its act, and none leaves its placeholder     *)
(* (install(), discard()).                                                 *)
THEOREM SavedFilesKeepTheirOwners == MCSpec => []FilesKeepTheirOwners
<1>1. MCInit => I!Inv
  BY SavesInit DEF MCInit
<1>2. I!Inv /\ [MCNext]_filesVars => I!Inv'
  BY SavesStep DEF MCNext, filesVars, installVars, I!installVars
<1>3. I!Inv => FilesKeepTheirOwners
  BY SavesPromise DEF FilesKeepTheirOwners
<1> QED BY <1>1, <1>2, <1>3, PTL DEF MCSpec

(* Whatever is granted on the files, for any number of them, of processes, *)
(* of slots and of starts: only the owner reads what was answered for, no  *)
(* session is served by two processes, none from files others can read     *)
(* (restrict_to_owner_strict, _acquire_session, adopt_legacy_session).     *)
THEOREM PrivateIsKeptPrivate == MCSpec => []PrivateStaysPrivate
<1>1. MCInit => O!Inv /\ Q!Inv /\ N!Inv
  BY PermissionsInit, PoolInit, AdoptionInit DEF MCInit
<1>2. O!Inv /\ [MCNext]_filesVars => O!Inv'
  BY PermissionsStep DEF MCNext, filesVars, ownerVars, O!ownerOnlyVars
<1>3. Q!Inv /\ [MCNext]_filesVars => Q!Inv'
  BY PoolStep DEF MCNext, filesVars, poolVars, Q!poolVars
<1>4. N!Inv /\ [MCNext]_filesVars => N!Inv'
  BY AdoptionStep DEF MCNext, filesVars, adoptionVars, N!adoptionVars
<1>5. O!Inv /\ Q!Inv /\ N!Inv => PrivateStaysPrivate
  BY PermissionsPromise, PoolPromise, AdoptionPromise DEF PrivateStaysPrivate
<1> QED BY <1>1, <1>2, <1>3, <1>4, <1>5, PTL DEF MCSpec

(* However the account file is edited, spoiled, locked and read, by the    *)
(* panel, by the tools in turn and by the server: what serves is what was  *)
(* seen, a session is under the name it was put, the last edit's backup is *)
(* there, and a fresh copy of the aliases is the file's.                   *)
THEOREM AccountsStayAsWritten == MCSpec => []AccountsAreAsWritten
<1>1. MCInit => S!Inv /\ W!Inv /\ F!Inv /\ A!Inv
  BY SnapshotInit, PanelInit, EditsInit, AliasesInit DEF MCInit
<1>2. S!Inv /\ [MCNext]_filesVars => S!Inv'
  BY SnapshotStep DEF MCNext, filesVars, snapshotVars, S!accountSnapshotVars
<1>3. W!Inv /\ [MCNext]_filesVars => W!Inv'
  BY PanelStep DEF MCNext, filesVars, panelVars, W!panelVars
<1>4. F!Inv /\ [MCNext]_filesVars => F!Inv'
  BY EditsStep DEF MCNext, filesVars, accountVars, F!accountFileVars
<1>5. A!Inv /\ [MCNext]_filesVars => A!Inv'
  BY AliasesStep DEF MCNext, filesVars, aliasVars, A!aliasVars
<1>6. S!Inv /\ W!Inv /\ F!Inv /\ A!Inv => AccountsAreAsWritten
  BY PanelPromise, EditsPromise DEF S!Inv, A!Inv, AccountsAreAsWritten
<1> QED BY <1>1, <1>2, <1>3, <1>4, <1>5, <1>6, PTL DEF MCSpec

(* No step of any part takes away what nobody asked to remove: a login, an *)
(* account whose line is there, a list, a root, a database, a protection.  *)
THEOREM NothingAskedForIsLost == MCSpec => NothingIsTakenAway
<1>1. MCInit => S!Inv /\ W!Inv /\ F!Inv /\ N!Inv /\ O!Inv
  BY SnapshotInit, PanelInit, EditsInit, AdoptionInit, PermissionsInit DEF MCInit
<1>2. S!Inv /\ [MCNext]_filesVars =>
        /\ S!Inv'
        /\ [\A l \in EnvLabel : S!Lost(l) => reading.of \in {"whole", "gone"} /\ reading.found[l] = NoSession]_S!accountSnapshotVars
  BY SnapshotStep, SnapshotLosses DEF MCNext, filesVars, snapshotVars, S!accountSnapshotVars
<1>3. W!Inv /\ [MCNext]_filesVars =>
        /\ W!Inv'
        /\ [\A a \in PanelAccount : own'[a] # own[a] =>
              W!Effective(a) \subseteq own'[a].of \/ \E chat \in PanelChat : own'[a].of = W!Effective(a) \ {chat}]_W!panelVars
  BY PanelStep, PanelEditsLists DEF MCNext, filesVars, panelVars, W!panelVars
<1>4. F!Inv /\ [MCNext]_filesVars =>
        /\ F!Inv'
        /\ [\A s \in F!Logins \ F!LoginsNext :
              \E t \in EnvTool : edit[t].at = "read" /\ edit[t].kind \in {"add", "remove"} /\ env[edit[t].label] = s]_F!accountFileVars
  BY EditsStep, EditsKeepLogins DEF MCNext, filesVars, accountVars, F!accountFileVars
<1>5. N!Inv /\ [MCNext]_filesVars => N!Inv' /\ [origin # "none" => origin' = origin]_origin
  BY AdoptionStep DEF MCNext, filesVars, adoptionVars, N!adoptionVars
<1>6. O!Inv /\ [MCNext]_filesVars =>
        O!Inv' /\ [\A f \in born' \ born : answer[OwnedDir] = "yes" => O!Private(f)']_O!ownerOnlyVars
  BY PermissionsStep, PermissionsBirths DEF MCNext, filesVars, ownerVars, O!ownerOnlyVars
<1>7. [MCNext]_filesVars =>
        [\A dir \in roots \ roots' : dir \notin exists \/ dir \notin CommandLine \cup named]_R!rootVars
  BY RootsKept DEF MCNext, filesVars, rootVars, R!rootVars
<1>8. MCSpec => S!AccountsGoWithTheirLine
  BY <1>1, <1>2, PTL DEF MCSpec, S!AccountsGoWithTheirLine
<1>9. MCSpec => W!FirstEditKeepsTheList
  BY <1>1, <1>3, PTL DEF MCSpec, W!FirstEditKeepsTheList
<1>10. MCSpec => F!LoginsStay
  BY <1>1, <1>4, PTL DEF MCSpec, F!LoginsStay
<1>11. MCSpec => N!DatabaseIsNeverReplaced
  BY <1>1, <1>5, PTL DEF MCSpec, N!DatabaseIsNeverReplaced
<1>12. MCSpec => O!BornPrivate
  BY <1>1, <1>6, PTL DEF MCSpec, O!BornPrivate, O!Private
<1>13. MCSpec => R!RootsThatWorkStay
  BY <1>7, PTL DEF MCSpec, R!RootsThatWorkStay
<1> QED BY <1>8, <1>9, <1>10, <1>11, <1>12, <1>13 DEF NothingIsTakenAway

(* However many threads of however many processes read, change and crash,  *)
(* the alias file is a map each call changed in one step (_alias_lock);    *)
(* only one that others damaged may be given up, moved aside.              *)
THEOREM AliasFileIsAMap == MCSpec => ImplementsAliasMap
<1>1. MCInit => A!Inv /\ A!Map!Init
  BY AliasesInit, AliasesMapInit DEF MCInit
<1>2. A!Inv /\ [MCNext]_filesVars => A!Inv' /\ [A!Map!Next]_<<rows, ~readable>>
  BY AliasesStep DEF MCNext, filesVars, aliasVars, A!aliasVars
<1> QED BY <1>1, <1>2, PTL DEF MCSpec, ImplementsAliasMap, A!ImplementsAliasMap, A!Map!Spec

(* For any documents and sizes: however the items of a call interleave,    *)
(* end, fail and are cancelled, it stays within its allowance, starves     *)
(* none and leaves nothing; however the windows change and the calls of    *)
(* the helper fail, a capture is bounded and its frames are whole          *)
(* (PreviewLedger, extract_frames, capture_frames, capture_window).        *)
THEOREM PicturesStayWhole == MCSpec => []PicturesAreWhole
<1>1. MCInit => P!Inv /\ C!Inv
  BY PreviewInit, CaptureInit DEF MCInit
<1>2. P!Inv /\ [MCNext]_filesVars => P!Inv'
  BY PreviewStep DEF MCNext, filesVars, previewVars
<1>3. C!Inv /\ [MCNext]_filesVars => C!Inv'
  BY CaptureStep DEF MCNext, filesVars, captureVars
<1>4. P!Inv /\ C!Inv => PicturesAreWhole
  BY PreviewsHold, CapturesHold DEF PicturesAreWhole
<1> QED BY <1>1, <1>2, <1>3, <1>4, PTL DEF MCSpec
=============================================================================

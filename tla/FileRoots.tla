------------------------------ MODULE FileRoots ------------------------------
(* The folders the file tools may use (file_roots.py, handles.py).  The       *)
(* server's own list is rebuilt when the configuration file names other       *)
(* roots; a client that states roots of its own is asked on every request,    *)
(* twice by a tool that reads a file.  A request then opens the directory it  *)
(* judged, by its path, and proves in two more looks that it has the one the  *)
(* path means, while other programs make, remove and redirect directories.    *)
EXTENDS Naturals, FiniteSets

CONSTANTS Request, Dir,
          CommandLine, \* the roots named by argv
          OptIn,       \* TELEGRAM_ALLOW_SERVER_ROOTS_FALLBACK
          MaxEdits,    \* bound: edits of the file
          MaxChanges   \* bound: directories made, removed or redirected

FileRootsAssumption ==
  /\ CommandLine \subseteq Dir /\ OptIn \in BOOLEAN
  /\ MaxEdits \in Nat /\ MaxChanges \in Nat

VARIABLES named,    \* the roots TELEGRAM_FILE_ROOTS names in the file
          legible,  \* whether the file can be read and parsed
          edits, exists, changes,
          leads,    \* directory -> the directory its path leads to
          detours,  \* those whose path is redirected in a folder above them
          binds,    \* whether a directory can be opened at all, or pinned
          roots,    \* SERVER_ALLOWED_ROOTS
          last,     \* _last_named_roots
          request   \* request -> its progress

rootVars == <<named, legible, edits, exists, changes, leads, detours, binds, roots, last, request>>

None == "none"

\* `late` is for the property: the path of the directory that was opened was put
\* back between the two looks at it.
Idle == [pc |-> "idle", path |-> None, granted |-> {}, resolved |-> None, held |-> None, late |-> FALSE]

Asking == [pc : {"idle", "named", "resolved", "judging", "opening", "comparing", "resolving", "holding"},
           path : Dir \cup {None}, granted : SUBSET Dir,
           resolved : Dir \cup {None}, held : Dir \cup {None}, late : BOOLEAN]

TypeOK ==
  /\ named \subseteq Dir /\ last \subseteq Dir /\ roots \subseteq Dir /\ exists \subseteq Dir
  /\ legible \in BOOLEAN /\ edits \in 0..MaxEdits /\ changes \in 0..MaxChanges
  /\ leads \in [Dir -> Dir] /\ detours \subseteq Dir /\ binds \in BOOLEAN
  /\ request \in [Request -> Asking]

\* _configure_allowed_roots_from_cli(): a root that does not exist ends the start.
Init ==
  /\ named \in SUBSET Dir /\ legible = TRUE /\ edits = 0 /\ changes = 0
  /\ exists \in SUBSET Dir /\ CommandLine \cup named \subseteq exists
  /\ leads = [dir \in Dir |-> dir] /\ detours = {} /\ binds \in BOOLEAN
  /\ roots = CommandLine \cup named
  /\ last = named
  /\ request = [r \in Request |-> Idle]

--------------------------------------------------------------------------------
\* The operator and other programs.

EditFile(value, readable) ==
  /\ edits < MaxEdits /\ edits' = edits + 1
  /\ named' = value /\ legible' = readable
  /\ UNCHANGED <<exists, changes, leads, detours, binds, roots, last, request>>

MakeOrRemove(dir) ==
  /\ changes < MaxChanges /\ changes' = changes + 1
  /\ exists' = IF dir \in exists THEN exists \ {dir} ELSE exists \cup {dir}
  /\ UNCHANGED <<named, legible, edits, leads, detours, binds, roots, last, request>>

\* A link takes the place of the directory, or of a folder above it.
Redirect(dir, other, higher) ==
  /\ changes < MaxChanges /\ changes' = changes + 1
  /\ leads[dir] # other /\ leads[other] = other
  /\ \A third \in Dir \ {dir} : leads[third] # dir
  /\ leads' = [leads EXCEPT ![dir] = other]
  /\ detours' = IF higher THEN detours \cup {dir} ELSE detours \ {dir}
  /\ UNCHANGED <<named, legible, edits, exists, binds, roots, last, request>>

PutBack(dir) ==
  /\ changes < MaxChanges /\ changes' = changes + 1
  /\ leads[dir] # dir
  /\ leads' = [leads EXCEPT ![dir] = dir]
  /\ detours' = detours \ {dir}
  /\ request' = [r \in Request |->
       IF request[r].pc = "resolving" /\ request[r].resolved = dir
       THEN [request[r] EXCEPT !.late = TRUE] ELSE request[r]]
  /\ UNCHANGED <<named, legible, edits, exists, binds, roots, last>>

--------------------------------------------------------------------------------
\* The roots of one question.

DropsThemAll(wanted) == IF wanted \subseteq exists THEN wanted ELSE {}
Existing(wanted) == wanted \cap exists

\* refresh_server_roots()
Refreshes == legible /\ named # last
Rebuilt == IF Refreshes THEN Existing(CommandLine \cup named) ELSE roots
Refresh ==
  /\ last' = IF Refreshes THEN named ELSE last
  /\ roots' = Rebuilt

\* What list_roots() may bring: a list, of which only directories that resolve
\* count; a client without the method; or an error, or silence for ten seconds.
Answer == [is : {"list"}, of : SUBSET Dir] \cup [is : {"unsupported", "failed"}, of : {{}}]
Granted(answer) ==
  LET stated == Existing(answer.of) IN
  IF answer.is = "list" /\ stated # {} THEN stated
  ELSE IF answer.is = "unsupported" \/ OptIn THEN Rebuilt
  ELSE {}

--------------------------------------------------------------------------------
\* A tool that reads a file of a directory, or writes one there.

World == <<named, legible, edits, exists, changes, leads, detours, binds>>
Refuse(r) == request' = [request EXCEPT ![r] = Idle]

IsOnTheServersList(r, dir) == dir \in roots
Within(r, dir) == dir \in request[r].granted

Ask(r, path, answer) ==
  /\ request[r].pc = "idle"
  /\ Refresh
  /\ IF Granted(answer) = {} THEN UNCHANGED request
     ELSE request' = [request EXCEPT ![r].pc = "named", ![r].path = path, ![r].granted = Granted(answer)]
  /\ UNCHANGED World

Resolve(r) ==
  LET real == leads[request[r].path] IN
  /\ request[r].pc = "named"
  /\ IF ~Within(r, real) \/ real \notin exists THEN Refuse(r)
     ELSE request' = [request EXCEPT ![r].pc = "resolved", ![r].path = real]
  /\ UNCHANGED <<World, roots, last>>

\* _open_verified_source() and _open_verified_directory() ask once more.
AskAgain(r, answer) ==
  /\ request[r].pc = "resolved"
  /\ Refresh
  /\ IF Granted(answer) = {} THEN Refuse(r)
     ELSE request' = [request EXCEPT ![r].pc = "judging", ![r].granted = Granted(answer)]
  /\ UNCHANGED World

\* _open_judged(): the verdict on the path, the open of it, which follows links
\* in every component but the last, and two proofs that what was opened is what
\* was judged.
Judge(r) ==
  LET real == leads[request[r].path] IN
  /\ request[r].pc = "judging"
  /\ IF Within(r, real) THEN request' = [request EXCEPT ![r].pc = "opening", ![r].resolved = real] ELSE Refuse(r)
  /\ UNCHANGED <<World, roots, last>>

\* What is found under a path when its last component is not followed.
Found(dir) == IF (leads[dir] = dir \/ dir \in detours) /\ leads[dir] \in exists THEN {leads[dir]} ELSE {}

\* Where a directory can be neither opened nor pinned, a look takes the place of
\* the open, and it is compared last.
OpenDirectory(r) ==
  LET found == Found(request[r].resolved) IN
  /\ request[r].pc = "opening"
  /\ \/ \E dir \in found :
          request' = [request EXCEPT ![r].held = dir, ![r].pc = IF binds THEN "comparing" ELSE "resolving"]
     \/ found = {} /\ Refuse(r)
  /\ UNCHANGED <<World, roots, last>>

\* same_object() of the handle and of an lstat() of the path.
AnyDirectory(r) == Found(request[r].resolved) # {}
SameObject(r) == Found(request[r].resolved) = {request[r].held}

Compare(r) ==
  /\ request[r].pc = "comparing"
  /\ IF SameObject(r) THEN request' = [request EXCEPT ![r].pc = IF binds THEN "resolving" ELSE "holding"] ELSE Refuse(r)
  /\ UNCHANGED <<World, roots, last>>

\* _still_inside()
StillInside(r) == leads[request[r].path] = request[r].resolved /\ Within(r, request[r].resolved)

ResolveAgain(r) ==
  /\ request[r].pc = "resolving"
  /\ IF StillInside(r) THEN request' = [request EXCEPT ![r].pc = IF binds THEN "holding" ELSE "comparing"] ELSE Refuse(r)
  /\ UNCHANGED <<World, roots, last>>

\* The file is read, or written, through the handle, which is then closed.
Close(r) ==
  /\ request[r].pc = "holding"
  /\ Refuse(r)
  /\ UNCHANGED <<World, roots, last>>

Next ==
  \/ \E value \in SUBSET Dir, readable \in BOOLEAN : EditFile(value, readable)
  \/ \E dir \in Dir : MakeOrRemove(dir)
  \/ \E dir, other \in Dir, higher \in BOOLEAN : Redirect(dir, other, higher)
  \/ \E dir \in Dir : PutBack(dir)
  \/ \E r \in Request, path \in Dir, answer \in Answer : Ask(r, path, answer)
  \/ \E r \in Request, answer \in Answer : AskAgain(r, answer)
  \/ \E r \in Request : Resolve(r) \/ Judge(r) \/ OpenDirectory(r) \/ Compare(r) \/ ResolveAgain(r) \/ Close(r)

Spec == Init /\ [][Next]_rootVars

--------------------------------------------------------------------------------
\* The directory a tool holds is one that the roots of its own last question
\* cover, however its path was redirected and put back between the verdict, the
\* open and the two proofs - but for one moment: a path put back after the handle
\* was compared and before the path was resolved again.
RedirectionsAreNoticed ==
  \A r \in Request : request[r].pc = "holding" /\ ~request[r].late => request[r].held \in request[r].granted

\* "A swap before the verdict is caught by the verdict, a swap after it by the
\* reconciliation" (handles.py:632): in that moment neither catches it.
HeldIsInside == \A r \in Request : request[r].pc = "holding" => request[r].held \in request[r].granted

\* A root that was allowed, that the file still names and that still exists is
\* not lost to an edit, whatever else the edit misspells.
RootsThatWorkStay ==
  [][\A dir \in roots \ roots' : dir \notin exists \/ dir \notin CommandLine \cup named]_rootVars

\* Once the file has been read, a directory that it or argv names is allowed.
RootsFollowTheFile == named = last => Existing(CommandLine \cup named) \subseteq roots

--------------------------------------------------------------------------------
\* A path leads to a directory whose own path leads to it.
WaysEnd == \A dir \in Dir : leads[leads[dir]] = leads[dir]

\* What is held is what was judged, or a path that leads elsewhere says so at
\* the second look; the verdict itself was of the last answer.
IsJudged(q) ==
  /\ q.pc # "idle" => q.path \in Dir
  /\ q.pc \in {"opening", "comparing", "resolving", "holding"} => q.resolved \in q.granted /\ q.resolved \in Dir
  /\ q.pc = "resolving" /\ ~q.late => q.held = q.resolved \/ leads[q.resolved] # q.resolved
  /\ q.pc = "holding" /\ ~q.late => q.held = q.resolved
  /\ q.pc = "comparing" /\ ~binds /\ ~q.late => q.held = q.resolved

HandlesAreJudged == \A r \in Request : IsJudged(request[r])

Inv == TypeOK /\ WaysEnd /\ HandlesAreJudged
=============================================================================

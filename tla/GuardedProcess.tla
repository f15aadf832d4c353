--------------------------- MODULE GuardedProcess ----------------------------
(***************************************************************************)
(* A test run under guard (scripts/run_tests_guarded.py) and the process   *)
(* tree it owns (scripts/guarded_process.py): a session of its own on      *)
(* POSIX; on Windows a job that the child is put in before it runs, and a  *)
(* handle on every descendant a poll happened to see.                      *)
(*                                                                         *)
(* Abstractions.  A signal that cannot be ignored has ended its process    *)
(* when the step is over.  The clocks are "it has passed" marks.  What the *)
(* run prints is left out except that it resets the idle clock.            *)
(***************************************************************************)
EXTENDS Naturals

CONSTANTS
  Root,       \* pytest
  Child,      \* what it may start, directly or not
  Stranger,   \* other processes whose dead parent had the number Root has now
  Hosts,      \* among "posix" and "windows"
  Readable    \* whether the start of a stranger can be read

GuardedAssumption ==
  /\ Root \notin Child \cup Stranger /\ Child \cap Stranger = {}
  /\ Hosts \subseteq {"posix", "windows"} /\ Readable \in BOOLEAN

VARIABLES
  host,
  at,       \* where the runner is
  alive,    \* processes that exist
  used,     \* those that ever did
  parent,   \* the parent each process names, dead or not
  ran,      \* whether pytest was let run
  group,    \* the process group on POSIX, the job on Windows
  tree,     \* whether there is something to ask for the tree
  handles,  \* _WindowsTree._handles
  seen,     \* whether pytest was running when it was last asked
  passed,   \* clocks that have run out
  code      \* the exit code

guardedVars == <<host, at, alive, used, parent, ran, group, tree, handles, seen, passed, code>>

Run == {Root} \cup Child
Clock == {"wall", "idle", "orphan", "grace"}
Codes == {"none", "pytest's", "timeout", "containment", "interrupted"}

TypeOK ==
  /\ host \in Hosts /\ alive \subseteq used /\ used \subseteq Run \cup Stranger /\ group \subseteq Run
  /\ at \in {"unstarted", "suspended", "contained", "open", "sample", "poll", "judge", "terminate", "taskkill", "grace", "close", "done"}
  /\ handles \subseteq used /\ {ran, tree, seen} \subseteq BOOLEAN /\ passed \subseteq Clock /\ code \in Codes

Init ==
  /\ host \in Hosts /\ at = "unstarted"
  /\ alive = Stranger /\ used = Stranger
  /\ parent = [p \in Child \cup Stranger |-> Root]
  /\ ran = FALSE /\ group = {} /\ tree = FALSE /\ handles = {} /\ seen = TRUE /\ passed = {} /\ code = "none"

----------------------------------------------------------------------------
(* Definitions whose name says what they get wrong are defects the checks  *)
(* must notice; no action uses them.                                       *)

Processes == <<alive, used, parent, ran, group>>
Knowledge == <<tree, handles, seen>>

(* start_new_session on POSIX; on Windows CREATE_SUSPENDED: into the job   *)
(* first, and only then let go.                                            *)
Launch ==
  /\ at = "unstarted" /\ alive' = alive \cup {Root} /\ used' = used \cup {Root}
  /\ IF host = "windows" THEN at' = "suspended" /\ UNCHANGED <<ran, group>>
                         ELSE at' = "open" /\ ran' = TRUE /\ group' = {Root}
  /\ UNCHANGED <<host, parent, Knowledge, passed, code>>

Contains ==
  /\ at = "suspended" /\ at' = "contained" /\ group' = {Root}
  /\ UNCHANGED <<host, alive, used, parent, ran, Knowledge, passed, code>>
Resumes ==
  /\ at = "contained" /\ at' = "open" /\ ran' = TRUE
  /\ UNCHANGED <<host, alive, used, parent, group, Knowledge, passed, code>>
ContainmentFailed ==
  /\ at \in {"suspended", "contained"} /\ at' = "done" /\ code' = "containment"
  /\ alive' = alive \ {Root}
  /\ UNCHANGED <<host, used, parent, ran, group, Knowledge, passed>>

(* One snapshot, walked down from the root: every process whose named      *)
(* parent was found, unless it is older than that parent; what every walk  *)
(* that left nothing out has found.                                        *)
NotOlder(p) == p \notin Stranger \/ ~Readable
AnyAge(p) == TRUE
Adopted(p) == NotOlder(p)

Walked(found) ==
  Root \in found /\ \A p \in alive \ {Root} : parent[p] \in found /\ Adopted(p) => p \in found
Descendants ==
  {p \in alive \ {Root} : \A found \in SUBSET (alive \cup {Root}) : Walked(found) => p \in found}

OpenTree ==
  /\ at = "open" /\ at' = "sample"
  /\ handles' = IF host = "windows" THEN Descendants ELSE {}
  /\ tree' \in IF host = "posix" THEN BOOLEAN ELSE {TRUE}
  /\ UNCHANGED <<host, Processes, seen, passed, code>>

Sample ==
  /\ at = "sample" /\ at' = "poll"
  /\ handles' = IF host = "windows" THEN (handles \cap alive) \cup Descendants ELSE handles
  /\ UNCHANGED <<host, Processes, tree, seen, passed, code>>
Poll ==
  /\ at = "poll" /\ at' = "judge" /\ seen' = (Root \in alive)
  /\ UNCHANGED <<host, Processes, tree, handles, passed, code>>

TreeAlive == tree /\ (IF host = "posix" THEN group ELSE handles) \cap alive # {}

(* _run_is_over(): pytest and everything it started.                       *)
BothGone(parentAlive, treeAlive) == ~parentAlive /\ ~treeAlive
ParentGone(parentAlive, treeAlive) == ~parentAlive
RunIsOver(parentAlive, treeAlive) == BothGone(parentAlive, treeAlive)

OutOfPatience == IF seen THEN "idle" \in passed ELSE "orphan" \in passed
OutOfTime ==
  \/ "wall" \in passed
  \/ seen /\ "idle" \in passed
  \/ ~seen /\ "orphan" \in passed

Judge ==
  /\ at = "judge"
  /\ \/ RunIsOver(seen, TreeAlive) /\ at' = "close" /\ code' = "pytest's"
     \/ ~RunIsOver(seen, TreeAlive) /\ OutOfTime /\ at' = "terminate" /\ code' = "timeout"
     \/ ~RunIsOver(seen, TreeAlive) /\ ~OutOfTime /\ at' = "sample" /\ UNCHANGED code
  /\ UNCHANGED <<host, Processes, Knowledge, passed>>

(* _terminate_tree(): the job cannot refuse; what taskkill then walks, by  *)
(* number and whatever the age, starts at pytest, if it is there to start  *)
(* at.  A group is asked first.                                            *)
TerminateJob ==
  /\ at = "terminate" /\ host = "windows" /\ at' = "taskkill"
  /\ alive' = alive \ (handles \cup group)
  /\ UNCHANGED <<host, used, parent, ran, group, Knowledge, passed, code>>

ClosedByNumber(found) == Root \in found /\ \A p \in alive \ {Root} : parent[p] \in found => p \in found
ByNumber == {p \in alive : \A found \in SUBSET (alive \cup {Root}) : ClosedByNumber(found) => p \in found}

Taskkill ==
  /\ at = "taskkill" /\ at' = "close"
  /\ alive' = IF Root \in alive THEN alive \ ByNumber ELSE alive
  /\ UNCHANGED <<host, used, parent, ran, group, Knowledge, passed, code>>
KillChild ==
  /\ at = "terminate" /\ host = "posix" /\ ~tree /\ at' = "close"
  /\ alive' = alive \ {Root}
  /\ UNCHANGED <<host, used, parent, ran, group, Knowledge, passed, code>>
AskGroup ==
  /\ at = "terminate" /\ host = "posix" /\ tree /\ at' = "grace"
  /\ \E heeds \in SUBSET (group \cap alive) : alive' = alive \ heeds
  /\ UNCHANGED <<host, used, parent, ran, group, Knowledge, passed, code>>

KillGroup == group
GivesUp == {}
Killed == KillGroup

GraceEnds ==
  /\ at = "grace" /\ (~TreeAlive \/ "grace" \in passed) /\ at' = "close"
  /\ alive' = IF TreeAlive THEN alive \ Killed ELSE alive
  /\ UNCHANGED <<host, used, parent, ran, group, Knowledge, passed, code>>

(* _close_tree(): closing the job ends what is left in it.                 *)
CloseTree ==
  /\ at = "close" /\ at' = "done" /\ handles' = {}
  /\ alive' = IF host = "windows" THEN alive \ group ELSE alive
  /\ UNCHANGED <<host, used, parent, ran, group, tree, seen, passed, code>>

Interrupted ==
  /\ at \in {"sample", "poll", "judge"} /\ at' = "close" /\ code' = "interrupted"
  /\ UNCHANGED <<host, Processes, Knowledge, passed>>

(* The run itself.  Output is progress, whichever process prints.          *)
Spawn(p, c) ==
  /\ ran /\ at # "done" /\ p \in alive \cap Run /\ c \in Child \ used
  /\ alive' = alive \cup {c} /\ used' = used \cup {c} /\ parent' = [parent EXCEPT ![c] = p]
  /\ \/ group' = IF p \in group THEN group \cup {c} ELSE group
     \/ host = "posix" /\ group' = group
  /\ UNCHANGED <<host, at, ran, Knowledge, passed, code>>
Exit(p) ==
  /\ ran /\ p \in alive /\ alive' = alive \ {p}
  /\ p \in Run /\ at # "done"
  /\ UNCHANGED <<host, at, used, parent, ran, group, Knowledge, passed, code>>
Output ==
  /\ ran /\ at # "done" /\ alive \cap Run # {} /\ "idle" \in passed /\ passed' = passed \ {"idle"}
  /\ UNCHANGED <<host, at, Processes, Knowledge, code>>

(* The orphan clock starts at the first look that misses pytest.           *)
Passes(clock) ==
  /\ clock \notin passed /\ passed' = passed \cup {clock}
  /\ CASE clock = "orphan" -> at = "sample" /\ ~seen
       [] clock = "grace"  -> at = "grace"
       [] OTHER            -> at \in {"sample", "poll", "judge"}
  /\ UNCHANGED <<host, at, Processes, Knowledge, code>>

Runner ==
  \/ Contains \/ Resumes \/ OpenTree \/ Sample \/ Poll \/ Judge
  \/ TerminateJob \/ Taskkill \/ KillChild \/ AskGroup \/ GraceEnds \/ CloseTree

Next ==
  \/ Launch \/ Runner \/ ContainmentFailed \/ Interrupted \/ Output
  \/ \E p \in Run : Exit(p) \/ \E c \in Child : Spawn(p, c)
  \/ \E clock \in Clock : Passes(clock)

(* The loop goes on whatever the run does, and time passes.                *)
Fairness == WF_guardedVars(Runner) /\ WF_guardedVars(Passes("wall")) /\ WF_guardedVars(Passes("grace"))

Spec == Init /\ [][Next]_guardedVars /\ Fairness

----------------------------------------------------------------------------
(* When the runner has returned nothing of the job or of the group is      *)
(* left, whatever it ignored, and pytest was never run outside its job.    *)
(* Left out: a POSIX run whose group could not be learnt, or that somebody *)
(* interrupted; nothing ends those.                                        *)
NothingIsLeft ==
  /\ at = "done" /\ (host = "posix" => tree /\ code # "interrupted") => alive \cap group = {}
  /\ ran => Root \in group \/ Root \notin alive

(* A process that only seems to be a descendant is not ended.              *)
StrangersLive == Stranger \subseteq alive

(* pytest's own code is given only when everything it started was gone     *)
(* (the docstring of run_tests_guarded.py).                                *)
OwnCodeMeansGone == at = "close" /\ code = "pytest's" => alive \cap Run = {}

(* Every guarded run ends, also with children that never do.               *)
EveryRunEnds == at # "unstarted" ~> at = "done"

----------------------------------------------------------------------------
(* The invariant behind the first two.  The group is of the run; pytest is *)
(* in it before it runs, and nothing else is until then.                   *)
GroupIsOfTheRun ==
  /\ host \in Hosts /\ group \subseteq Run \cap used /\ (ran => Root \in group)
  /\ at \in {"unstarted", "suspended", "contained"} => ~ran /\ group \subseteq {Root}
  /\ at \in {"suspended", "contained"} => host = "windows" /\ Root \in used
  /\ at = "contained" => Root \in group
  /\ at = "taskkill" => host = "windows" /\ ran
  /\ at \notin {"unstarted", "suspended", "contained", "done"} => ran

StrangersAreLeftAlone == Stranger \subseteq alive /\ handles \cap Stranger = {}

(* A group that was ended stays ended: what lives on outside of it starts  *)
(* nothing inside.                                                         *)
GroupIsEnded ==
  at = "close" /\ host = "posix" /\ tree /\ code # "interrupted" => alive \cap group = {}

(* Pytest was in the job that was ended: taskkill walks from nowhere.      *)
PytestIsGone == at = "taskkill" => Root \notin alive

Inv == GroupIsOfTheRun /\ StrangersAreLeftAlone /\ GroupIsEnded /\ PytestIsGone /\ NothingIsLeft
=============================================================================

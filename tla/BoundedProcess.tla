--------------------------- MODULE BoundedProcess ---------------------------
(***************************************************************************)
(* One helper in a bounded child process                                   *)
(* (telegram_mcp/visual/bounded_process.py): the poll loop of              *)
(* run_bounded(), the two reader threads, the end of the tree and the      *)
(* cancelled caller of run_cancellable().  The child and a helper that it   *)
(* started are external: they write, exit and hold the pipes open as they  *)
(* like.                                                                   *)
(*                                                                         *)
(* Abstractions.  Output is counted in chunks.  That the timeout or the    *)
(* request's deadline has passed is a flag that may be set at any time.    *)
(***************************************************************************)
EXTENDS Naturals

CONSTANTS
  Limit,        \* the ceilings of both sinks
  PipeSize,     \* what a pipe buffers
  MaxWrites     \* bound on what is written to a pipe

BoundedProcessAssumption ==
  /\ {Limit, PipeSize, MaxWrites} \subseteq Nat /\ PipeSize > 0

VARIABLES
  pc, outcome,          \* run_bounded()
  child, helper,
  contained,            \* the job or session holds the helper too
  reader,               \* per stream, the thread of _pump()
  pipe, written,        \* per stream, chunks in the pipe and written in all
  kept, overflowed,     \* per stream, the _Sink
  expired, cancelled,   \* the bounds
  caller                \* run_cancellable()

processVars == <<pc, outcome, child, helper, contained, reader, pipe, written,
                 kept, overflowed, expired, cancelled, caller>>

Stream == {"out", "err"}
Tree == <<child, helper>>
Sinks == <<kept, overflowed>>
Bounds == <<expired, cancelled, caller>>

Flags ==
  /\ {contained, expired, cancelled} \subseteq BOOLEAN
  /\ overflowed \in [Stream -> BOOLEAN]

TypeOK ==
  /\ Flags
  /\ pc \in {"idle", "polling", "polled", "finishing", "over"}
  /\ outcome \in {"none", "completed", "exhausted", "not found", "too large", "cancelled",
                  "timed out", "failed"}
  /\ child \in {"none", "running", "exited", "reaped"}
  /\ helper \in {"none", "running", "silent", "gone"} \* silent: it closed the pipes
  /\ reader \in [Stream -> {"none", "reading", "ended"}]
  /\ pipe \in [Stream -> 0..PipeSize] /\ written \in [Stream -> 0..MaxWrites]
  /\ kept \in [Stream -> 0..Limit]
  /\ caller \in {"waiting", "draining", "cancelled", "outlived", "answered"}

Init ==
  /\ pc = "idle" /\ outcome = "none"
  /\ child = "none" /\ helper = "none"
  /\ contained \in BOOLEAN
  /\ reader = [s \in Stream |-> "none"]
  /\ pipe = [s \in Stream |-> 0] /\ written = [s \in Stream |-> 0]
  /\ kept = [s \in Stream |-> 0] /\ overflowed = [s \in Stream |-> FALSE]
  /\ expired \in BOOLEAN /\ cancelled = FALSE
  /\ caller = "waiting"

----------------------------------------------------------------------------
(* Definitions whose name says what they get wrong are defects the checks  *)
(* must notice; no action uses them.                                       *)

(* run_bounded() up to its loop.  The threads are started outside of the   *)
(* try: what they raise leaves the child as it is.                         *)
Start ==
  /\ pc = "idle"
  /\ \/ /\ expired
        /\ pc' = "over" /\ outcome' = "exhausted"
        /\ UNCHANGED <<child, reader>>
     \/ /\ ~expired
        /\ pc' = "over" /\ outcome' = "not found"
        /\ UNCHANGED <<child, reader>>
     \/ /\ ~expired
        /\ child' = "running"
        /\ \E started \in BOOLEAN :
             /\ reader' = [s \in Stream |-> IF started THEN "reading" ELSE "none"]
             /\ pc' = IF started THEN "polling" ELSE "over"
             /\ outcome' = IF started THEN "none" ELSE "failed"
  /\ UNCHANGED <<helper, contained, pipe, written, Sinks, Bounds>>

(* _end_tree(): the child, and what the job or the group holds.            *)
EndsOnlyTheChild(result) ==
  child' = "reaped" /\ UNCHANGED helper
EndTree(result) ==
  /\ child' = "reaped"
  /\ helper' = IF contained /\ helper # "none" THEN "gone" ELSE helper

Stops(result) ==
  /\ outcome' = result /\ pc' = "finishing"
  /\ EndTree(result)

(* The loop: the ceiling and the flag, then the child and the time.        *)
Poll ==
  /\ pc = "polling"
  /\ CASE overflowed["out"] -> Stops("too large")
       [] ~overflowed["out"] /\ cancelled -> Stops("cancelled")
       [] OTHER -> pc' = "polled" /\ UNCHANGED <<outcome, child, helper>>
  /\ UNCHANGED <<contained, reader, pipe, written, Sinks, Bounds>>

WaitsForTheChild == FALSE
TimeIsUp == expired

PollExit ==
  /\ pc = "polled"
  /\ CASE child = "exited" -> Stops("none")
       [] child # "exited" /\ TimeIsUp -> Stops("timed out")
       [] OTHER -> pc' = "polling" /\ UNCHANGED <<outcome, child, helper>>
  /\ UNCHANGED <<contained, reader, pipe, written, Sinks, Bounds>>

(* _finish(): the readers end before the pipes are closed; then the        *)
(* ceiling is looked at once more.                                         *)
TrustsTheLoop == IF outcome = "none" THEN "completed" ELSE outcome
Verdict ==
  CASE outcome # "none" -> outcome
    [] outcome = "none" /\ overflowed["out"] -> "too large"
    [] OTHER -> "completed"

Finish ==
  /\ pc = "finishing"
  /\ \A s \in Stream : reader[s] = "ended"
  /\ pc' = "over"
  /\ outcome' = Verdict
  /\ UNCHANGED <<Tree, contained, reader, pipe, written, Sinks, Bounds>>

(* _pump() and _Sink.feed(): a chunk is kept while there is room; past the *)
(* ceiling stdout is left alone and stderr is drained.                     *)
Pump(s) ==
  /\ reader[s] = "reading" /\ pipe[s] > 0
  /\ pipe' = [pipe EXCEPT ![s] = @ - 1]
  /\ IF kept[s] < Limit
       THEN kept' = [kept EXCEPT ![s] = @ + 1] /\ UNCHANGED <<overflowed, reader>>
       ELSE /\ overflowed' = [overflowed EXCEPT ![s] = TRUE]
            /\ reader' = IF s = "out" THEN [reader EXCEPT ![s] = "ended"] ELSE reader
            /\ UNCHANGED kept
  /\ UNCHANGED <<pc, outcome, Tree, contained, written, Bounds>>

Alive(process) == process = "running"
Eof(s) ==
  /\ reader[s] = "reading" /\ pipe[s] = 0
  /\ ~Alive(child) /\ ~Alive(helper)
  /\ reader' = [reader EXCEPT ![s] = "ended"]
  /\ UNCHANGED <<pc, outcome, Tree, contained, pipe, written, Sinks, Bounds>>

----------------------------------------------------------------------------
(* The processes.                                                          *)

Write(s) ==
  /\ Alive(child) \/ Alive(helper)
  /\ pipe[s] < PipeSize /\ written[s] < MaxWrites
  /\ pipe' = [pipe EXCEPT ![s] = @ + 1]
  /\ written' = [written EXCEPT ![s] = @ + 1]
  /\ UNCHANGED <<pc, outcome, Tree, contained, reader, Sinks, Bounds>>

Fork ==
  /\ Alive(child) /\ helper = "none"
  /\ helper' = "running"
  /\ UNCHANGED <<pc, outcome, child, contained, reader, pipe, written, Sinks, Bounds>>

HelperLeaves ==
  /\ helper \in {"running", "silent"}
  /\ helper' \in {"silent", "gone"}
  /\ UNCHANGED <<pc, outcome, child, contained, reader, pipe, written, Sinks, Bounds>>

Exit ==
  /\ Alive(child)
  /\ child' = "exited"
  /\ UNCHANGED <<pc, outcome, helper, contained, reader, pipe, written, Sinks, Bounds>>

Expire ==
  /\ ~expired /\ pc \notin {"idle", "over"}
  /\ expired' = TRUE
  /\ UNCHANGED <<pc, outcome, Tree, contained, reader, pipe, written, Sinks, cancelled, caller>>

----------------------------------------------------------------------------
(* run_cancellable() and drain() around the worker thread.                 *)

Cancel ==
  /\ caller = "waiting"
  /\ cancelled' = TRUE
  /\ caller' = "draining"
  /\ UNCHANGED <<pc, outcome, Tree, contained, reader, pipe, written, Sinks, expired>>

CallerReturns ==
  /\ \/ caller = "waiting" /\ pc = "over" /\ caller' = "answered"
     \/ caller = "draining" /\ pc = "over" /\ caller' = "cancelled"
     \/ caller = "draining" /\ pc # "over" /\ caller' = "outlived"
  /\ UNCHANGED <<pc, outcome, Tree, contained, reader, pipe, written, Sinks, expired, cancelled>>

Next ==
  \/ Start \/ Poll \/ PollExit \/ Finish
  \/ \E s \in Stream : Pump(s) \/ Eof(s) \/ Write(s)
  \/ Fork \/ HelperLeaves \/ Exit \/ Expire
  \/ Cancel \/ CallerReturns

(* The loop and the readers run, and time passes; the processes owe        *)
(* nothing.                                                                *)
Fairness ==
  /\ WF_processVars(Poll) /\ WF_processVars(PollExit)
  /\ WF_processVars(Finish) /\ WF_processVars(Expire)
  /\ \A s \in Stream : WF_processVars(Pump(s)) /\ WF_processVars(Eof(s))

Spec == Init /\ [][Next]_processVars /\ Fairness

----------------------------------------------------------------------------
(* A result that is reported complete holds everything that was written to *)
(* stdout, also what was still in the pipe when the child exited.          *)
CompletedIsWhole ==
  outcome = "completed" => kept["out"] = written["out"]

(* "Nothing survives the call": when run_bounded() is over the child is    *)
(* reaped, what it started in its group is gone and no reader runs; unless *)
(* a reader could not be started, which leaves the child as it is.         *)
NothingSurvives ==
  pc = "over" /\ outcome # "failed" =>
    /\ child \in {"none", "reaped"}
    /\ contained => helper \in {"none", "gone"}
    /\ \A s \in Stream : reader[s] # "reading"

(* The bounds end every call that was begun, whatever the child does, as   *)
(* long as nothing of it left the group with the pipes in its hands.       *)
EveryCallEnds == contained /\ pc # "idle" ~> pc = "over"

----------------------------------------------------------------------------
(* The invariant behind the first two.  Before the call there is nothing.  *)
NothingBeforeTheCall ==
  pc = "idle" => child = "none" /\ helper = "none" /\ \A s \in Stream : reader[s] = "none"

(* Until a chunk was left out what was written is kept or in the pipe, and *)
(* the reader that ended then left nothing there and nobody to write.      *)
OutputIsAccountedFor ==
  ~overflowed["out"] =>
    /\ written["out"] = kept["out"] + pipe["out"]
    /\ reader["out"] = "ended" => pipe["out"] = 0 /\ ~Alive(child) /\ ~Alive(helper)

(* The tree is ended before the readers are waited for, those are waited   *)
(* for before the call is over, and a result is complete then only.        *)
TreeIsEnded == child \in {"none", "reaped"} /\ (contained => helper \in {"none", "gone"})
EndsAreInOrder ==
  /\ pc = "finishing" \/ (pc = "over" /\ outcome # "failed") => TreeIsEnded
  /\ pc = "over" /\ outcome # "failed" => \A s \in Stream : reader[s] # "reading"
  /\ outcome = "completed" => pc = "over" /\ reader["out"] = "ended" /\ ~overflowed["out"]

Inv == TypeOK /\ NothingBeforeTheCall /\ OutputIsAccountedFor /\ EndsAreInOrder
=============================================================================

------------------------------- MODULE Preview ------------------------------
(***************************************************************************)
(* The picture tools of telegram_mcp/tools/media_inspection.py: documents  *)
(* downloaded under a cap (media_transfer.py), decoded on worker threads   *)
(* by bounded children (visual/frames.py, visual/decode_budget.py) and     *)
(* handed back under the one allowance of the call (media_preview.py).     *)
(* get_custom_emoji() previews several documents at once through a ledger; *)
(* get_media_thumbnail() and get_media_frames() preview one without it.    *)
(*                                                                         *)
(* Abstractions.  Bytes are small numbers.  A decoder is the frames it     *)
(* emits, each of one or two bytes; its process is BoundedProcess.  What a *)
(* record says of a picture is left out; that it is an error is not.       *)
(***************************************************************************)
EXTENDS FiniteSets, FiniteSetsExt, Integers

CONSTANTS
  Doc,
  Total,  \* MAX_CALL_PREVIEW_BYTES
  Most,   \* MAX_TOTAL_FRAME_BYTES, of one decode
  Width,  \* batch_width(): documents downloaded and decoded at once
  Count,  \* frames asked for
  Unwinds \* whether a cancelled worker is always done within CANCEL_DRAIN_SECONDS

PreviewAssumption ==
  /\ IsFiniteSet(Doc) /\ Doc # {}
  /\ {Total, Most, Width, Count} \subseteq Nat \ {0} /\ Total >= Cardinality(Doc)
  /\ Unwinds \in BOOLEAN

VARIABLES
  call,    \* which tool runs, over which documents
  item,    \* how far each document is
  worker,  \* the thread decoding it, and what it has emitted
  spooled, \* documents whose bytes lie in a temporary file
  ledger,  \* PreviewLedger: spent and reserved
  late     \* the call's deadline has passed

previewVars == <<call, item, worker, spooled, ledger, late>>

NoWorker == [pc |-> "none", emitted |-> 0, tries |-> 0, flagged |-> FALSE, decoder |-> "none"]
Fresh == [pc |-> "none", allowance |-> 0, bytes |-> 0, says |-> "nothing"]

Item ==
  [pc : {"none", "gated", "fetching", "refreshing", "refetching", "decoding", "done"},
   allowance : Nat, bytes : Nat, says : {"nothing", "images", "error", "cancelled"}]
Worker ==
  [pc : {"none", "queued", "decoding", "made", "failed"}, emitted : Nat, tries : Nat, flagged : BOOLEAN,
   decoder : {"none", "pillow", "lottie", "ffmpeg"}]

TypeOK ==
  /\ call \in [pc : {"idle", "running", "cancelling", "ended"}, docs : SUBSET Doc, ledger : BOOLEAN]
  /\ item \in [Doc -> Item] /\ worker \in [Doc -> Worker]
  /\ spooled \subseteq Doc /\ late \in BOOLEAN
  /\ ledger \in [spent : Nat, reserved : Nat]

Init ==
  /\ call = [pc |-> "idle", docs |-> {}, ledger |-> FALSE]
  /\ item = [d \in Doc |-> Fresh] /\ worker = [d \in Doc |-> NoWorker]
  /\ spooled = {} /\ late = FALSE
  /\ ledger = [spent |-> 0, reserved |-> 0]

----------------------------------------------------------------------------
(* Definitions whose name says what they get wrong are defects the checks  *)
(* must notice; no action uses them.                                       *)

Running(d) == call.pc = "running" /\ d \in call.docs
InFlight == {d \in call.docs : item[d].pc \notin {"none", "gated", "done"}}
Call(docs, batched) ==
  /\ call.pc = "idle" /\ docs # {} /\ (batched \/ Cardinality(docs) = 1)
  /\ call' = [pc |-> "running", docs |-> docs, ledger |-> batched]
  /\ item' = [d \in Doc |-> IF d \in docs THEN [Fresh EXCEPT !.pc = "gated"] ELSE Fresh]
  /\ worker' = [d \in Doc |-> NoWorker]
  /\ ledger' = [spent |-> 0, reserved |-> 0] /\ late' = FALSE
  /\ UNCHANGED spooled

(* What became of an item, and the bytes of the images it hands over.      *)
Ends(d, says, bytes) ==
  item' = [item EXCEPT ![d].pc = "done", ![d].says = says, ![d].bytes = bytes]

Moves(d, pc) ==
  /\ item' = [item EXCEPT ![d].pc = pc]
  /\ UNCHANGED <<call, worker, spooled, ledger, late>>

Refused(d) ==
  /\ Running(d) /\ item[d].pc \in {"fetching", "refreshing", "refetching"}
  /\ Ends(d, "error", 0)
  /\ UNCHANGED <<call, worker, spooled, ledger, late>>

(* The semaphore, then the size the document claims.                       *)
Enter(d) == Running(d) /\ item[d].pc = "gated" /\ Cardinality(InFlight) < Width /\ Moves(d, "fetching")

(* with_reference_retry(): a stale reference is refetched, once.           *)
IsStale(d) == Running(d) /\ item[d].pc = "fetching" /\ Moves(d, "refreshing")
Refreshed(d) == Running(d) /\ item[d].pc = "refreshing" /\ Moves(d, "refetching")

(* PreviewLedger.reserve(): a share of the pool, and never more than is    *)
(* left of it.                                                             *)
Least(a, b) == IF a < b THEN a ELSE b
Available == Total - ledger.spent - ledger.reserved
ChargedAfterwards == Total
TakesWhatIsLeft == Available
Allowance == Least(Total \div Cardinality(call.docs), Available)

(* _off_loop(): the deadline, the reservation, the worker.                 *)
Downloaded(d) ==
  /\ Running(d) /\ item[d].pc \in {"fetching", "refetching"}
  /\ IF call.ledger /\ (late \/ Allowance <= 0)
     THEN Ends(d, "error", 0) /\ UNCHANGED <<worker, ledger>>
     ELSE LET share == IF call.ledger THEN Allowance ELSE Most IN
          /\ item' = [item EXCEPT ![d].pc = "decoding", ![d].allowance = share]
          /\ worker' = [worker EXCEPT ![d] = [NoWorker EXCEPT !.pc = "queued"]]
          /\ ledger' = IF call.ledger THEN [ledger EXCEPT !.reserved = @ + share] ELSE ledger
  /\ UNCHANGED <<call, spooled, late>>

(* extract_frames(), extract_still(): the bytes are spooled and a decoder  *)
(* chosen by their suffix.                                                 *)
Spool(d, decoder) ==
  /\ worker[d].pc = "queued"
  /\ worker' = [worker EXCEPT ![d].pc = "decoding", ![d].decoder = decoder]
  /\ spooled' = spooled \cup {d}
  /\ UNCHANGED <<call, item, ledger, late>>

(* The worker leaves extract_frames(): the file goes with it.              *)
Leaves(d, pc) ==
  /\ worker' = [worker EXCEPT ![d].pc = pc]
  /\ spooled' = spooled \ {d}
  /\ UNCHANGED <<call, item, ledger, late>>

DecodeFails(d) == worker[d].pc = "decoding" /\ Leaves(d, "failed")

(* _Budget.charge(): a frame over the allowance fails the decode.          *)
Ceiling(d) == Least(item[d].allowance, Most)
Decodes(d) == worker[d].pc = "decoding" /\ ~late /\ ~worker[d].flagged /\ worker[d].tries < Count

Emit(d, size) ==
  /\ Decodes(d)
  /\ IF worker[d].emitted + size > Ceiling(d)
     THEN Leaves(d, "failed")
     ELSE /\ worker' = [worker EXCEPT ![d].emitted = @ + size, ![d].tries = @ + 1]
          /\ UNCHANGED <<call, item, spooled, ledger, late>>

(* _frames_with_ffmpeg(): a frame that cannot be had is left out.          *)
Skip(d) ==
  /\ Decodes(d) /\ worker[d].decoder = "ffmpeg"
  /\ worker' = [worker EXCEPT ![d].tries = @ + 1]
  /\ UNCHANGED <<call, item, spooled, ledger, late>>

(* DecoderMismatch: ffmpeg tries the same file within the same budget.     *)
Mismatch(d) ==
  /\ Decodes(d) /\ worker[d].decoder = "pillow" /\ worker[d].emitted = 0
  /\ worker' = [worker EXCEPT ![d].decoder = "ffmpeg"]
  /\ UNCHANGED <<call, item, spooled, ledger, late>>

DecodeEnds(d) ==
  /\ worker[d].pc = "decoding" /\ worker[d].tries = Count
  /\ Leaves(d, IF worker[d].emitted = 0 THEN "failed" ELSE "made")

(* run_bounded() polls the deadline and the flag; a worker between two     *)
(* children fails at the next.                                             *)
Stops(d) == worker[d].pc = "decoding" /\ (late \/ worker[d].flagged) /\ Leaves(d, "failed")

Late == call.pc = "running" /\ ~late /\ late' = TRUE /\ UNCHANGED <<call, item, worker, spooled, ledger>>

(* Reservation.settle(), on every way out.                                 *)
KeepsTheShare(d, produced) == [ledger EXCEPT !.spent = @ + produced]
Settled(d, produced) ==
  [spent    |-> ledger.spent + Least(produced, item[d].allowance),
   reserved |-> ledger.reserved - item[d].allowance]

Settles(d, produced) == ledger' = IF call.ledger THEN Settled(d, produced) ELSE ledger

Decoded(d) ==
  /\ Running(d) /\ item[d].pc = "decoding" /\ worker[d].pc \in {"made", "failed"}
  /\ LET made == worker[d].pc = "made" IN
     /\ Ends(d, IF made THEN "images" ELSE "error", IF made THEN worker[d].emitted ELSE 0)
     /\ Settles(d, IF made THEN worker[d].emitted ELSE 0)
  /\ UNCHANGED <<call, worker, spooled, late>>

Reply ==
  /\ call.pc \in {"running", "cancelling"} /\ \A d \in call.docs : item[d].pc = "done"
  /\ call' = [call EXCEPT !.pc = "ended"]
  /\ UNCHANGED <<item, worker, spooled, ledger, late>>

(* The tool's budget, or its client, cancels the call: every decode is     *)
(* told and its coroutine waits for it; the other items are dropped.       *)
LeavesTheWorker(d) == FALSE
Waits(d) == item[d].pc = "decoding"
Cancel ==
  /\ call.pc = "running"
  /\ call' = [call EXCEPT !.pc = "cancelling"]
  /\ item' = [d \in Doc |-> IF d \in call.docs /\ item[d].pc # "done" /\ ~Waits(d)
                           THEN [item[d] EXCEPT !.pc = "done", !.says = "cancelled"]
                           ELSE item[d]]
  /\ worker' = [d \in Doc |-> [worker[d] EXCEPT !.flagged = TRUE]]
  /\ UNCHANGED <<spooled, ledger, late>>

Drained(d) ==
  /\ call.pc = "cancelling" /\ item[d].pc = "decoding"
  /\ Unwinds => worker[d].pc \in {"made", "failed"}
  /\ Ends(d, "cancelled", 0) /\ Settles(d, 0)
  /\ UNCHANGED <<call, worker, spooled, late>>

Next ==
  \/ \E docs \in SUBSET Doc, batched \in BOOLEAN : Call(docs, batched)
  \/ \E d \in Doc :
       \/ Enter(d) \/ Refused(d) \/ IsStale(d) \/ Refreshed(d) \/ Downloaded(d)
       \/ \E decoder \in {"pillow", "lottie", "ffmpeg"} : Spool(d, decoder)
       \/ \E size \in {1, 2} : Emit(d, size)
       \/ Skip(d) \/ Mismatch(d) \/ DecodeEnds(d) \/ DecodeFails(d) \/ Stops(d)
       \/ Decoded(d) \/ Drained(d)
  \/ Late \/ Reply \/ Cancel

Spec == Init /\ [][Next]_previewVars

----------------------------------------------------------------------------
Handed == MapThenSumSet(LAMBDA d : item[d].bytes, call.docs)

(* However the items of a call interleave, what they hand over and what    *)
(* they still may stays within the allowance of the call, no decode passes *)
(* its own, and no more documents are held than the width.                 *)
PreviewsAreBounded ==
  /\ call.ledger => Handed <= Total /\ ledger.spent + ledger.reserved <= Total
  /\ \A d \in call.docs : worker[d].emitted <= Most
  /\ Cardinality(InFlight) <= Width

(* While a document waits for its turn there is a share left for it: no    *)
(* document is refused for what the others took.                           *)
NoDocumentIsStarved ==
  call.ledger /\ call.pc = "running" =>
    \A d \in call.docs : item[d].pc \notin {"none", "done", "decoding"} => Available > 0

(* When the call has ended, also by a cancellation in the middle of its    *)
(* decodes, no worker runs, no file of it is left and the whole pool is    *)
(* free or spent.                                                          *)
NothingIsLeftBehind ==
  call.pc = "ended" =>
    /\ \A d \in Doc : worker[d].pc \notin {"queued", "decoding"}
    /\ spooled = {} /\ ledger.reserved = 0

(* The invariant behind them.  What is reserved is what the decodes under  *)
(* way were promised, what is spent is what was handed over, and together  *)
(* they are never more than a share for each document that had its turn.   *)
Share == Total \div Cardinality(call.docs)
HadTheirTurn == {d \in call.docs : item[d].pc \in {"decoding", "done"}}
Promised == MapThenSumSet(LAMBDA d : IF item[d].pc = "decoding" THEN item[d].allowance ELSE 0, call.docs)

LedgerIsOfTheItems ==
  IF call.ledger
  THEN /\ ledger.spent = Handed /\ ledger.reserved = Promised
       /\ ledger.spent + ledger.reserved <= Cardinality(HadTheirTurn) * Share
  ELSE ledger.spent = 0 /\ ledger.reserved = 0

(* A worker keeps to what its document was promised, and while a call      *)
(* waits for it, its document is not done.                                 *)
WorkersKeepToTheirItems ==
  \A d \in Doc :
    /\ worker[d].emitted <= Ceiling(d)
    /\ Unwinds /\ worker[d].pc \in {"queued", "decoding"} => item[d].pc = "decoding"
    /\ worker[d].pc = "decoding" <=> d \in spooled
    /\ item[d].pc = "none" <=> d \notin call.docs
    /\ item[d].pc # "done" => item[d].bytes = 0

Inv ==
  /\ TypeOK /\ WorkersKeepToTheirItems /\ LedgerIsOfTheItems
  /\ Cardinality(InFlight) <= Width
  /\ call.pc = "idle" <=> call.docs = {}
  /\ call.pc = "idle" => ~call.ledger
  /\ call.pc = "ended" => \A d \in call.docs : item[d].pc = "done"
=============================================================================

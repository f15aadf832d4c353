---------------------------- MODULE Disappearing -----------------------------
(***************************************************************************)
(* Media that destroys itself (tools/ephemeral.py): found before it is     *)
(* opened, saved by the one fetch there is, sent with a timer.  Telegram   *)
(* is external: a fetch opens the media, opened media goes away, and a     *)
(* timer longer than it accepts is dropped in silence.                     *)
(*                                                                         *)
(* Abstractions.  Every save is given the same name to begin with.  What a *)
(* fetch brings is the message it is of, whole.  Suffixes, sizes of the    *)
(* preview and the sender's intent are left out.                           *)
(***************************************************************************)
EXTENDS FiniteSets, Integers

CONSTANTS
  Caller, Message,
  Voice,        \* messages that are audio: nothing of them can be shown
  NameAttempts, \* NAME_ATTEMPTS of the directory
  Ceiling,      \* MAX_TTL_SECONDS; the seconds asked for go to one past it
  MaxSends

DisappearingAssumption ==
  /\ Voice \subseteq Message /\ NameAttempts \in Nat \ {0} /\ {Ceiling, MaxSends} \subseteq Nat
  /\ Message \cap {"free", "reserved", "part"} = {}

VARIABLES
  media,   \* of each message: unopened, opened, gone
  files,   \* what each name of the directory has
  accepts, \* the longest timer Telegram applies
  chat,    \* timers of the messages that were sent, in order of their ids
  call

disappearingVars == <<media, files, accepts, chat, call>>

ViewOnce == -1
NoTimer == -2
Names == 1..NameAttempts
Free == "free"
Reserved == "reserved"
Idle == [op |-> "none", at |-> "idle", msg |-> "", preview |-> FALSE, name |-> 0, whole |-> FALSE,
         saved |-> FALSE, shown |-> FALSE, broken |-> FALSE, seconds |-> 0, id |-> 0, applied |-> FALSE, says |-> "nothing"]

TypeOK ==
  /\ media \in [Message -> {"unopened", "opened", "gone"}]
  /\ \A n \in Names : files[n] \in Message \cup {Free, Reserved, "part"}
  /\ accepts \in 0..Ceiling /\ \A id \in DOMAIN chat : chat[id] \in {ViewOnce, NoTimer} \cup 1..Ceiling
  /\ \A c \in Caller : call[c].at \in {"idle", "asked", "fetched", "named", "reserved", "previewed", "replied"}

Init ==
  /\ media = [m \in Message |-> "unopened"] /\ files = [n \in Names |-> Free]
  /\ accepts \in 0..Ceiling /\ chat = <<>> /\ call = [c \in Caller |-> Idle]

----------------------------------------------------------------------------
(* Definitions whose name says what they get wrong are defects the checks  *)
(* must notice; no action uses them.                                       *)

AtTelegram == <<media, accepts, chat>>
Sets(c, record) == call' = [call EXCEPT ![c] = record]
Says(c, record, what) == Sets(c, [record EXCEPT !.at = "replied", !.says = what])
Begins(c, record) ==
  /\ call[c].at \in {"idle", "replied"} /\ Sets(c, [record EXCEPT !.at = "asked"])
  /\ UNCHANGED <<AtTelegram, files>>

Save(c, m, preview) == Begins(c, [Idle EXCEPT !.op = "save", !.msg = m, !.preview = preview])

(* One fetch: whole, or past max_bytes and aborted, which opens it too.    *)
Fetches(c) ==
  /\ call[c].at = "asked" /\ call[c].op = "save" /\ media[call[c].msg] # "gone"
  /\ media' = [media EXCEPT ![call[c].msg] = "opened"]
  /\ \/ Sets(c, [call[c] EXCEPT !.at = "fetched", !.whole = TRUE])
     \/ Says(c, call[c], "too large")
  /\ UNCHANGED <<files, accepts, chat>>
NothingToFetch(c) ==
  /\ call[c].at = "asked" /\ call[c].op = "save" /\ media[call[c].msg] = "gone"
  /\ Says(c, call[c], "gone")
  /\ UNCHANGED <<AtTelegram, files>>
(* AUTH_BYTES_INVALID, and whatever else fails before a byte was fetched.  *)
FetchFails(c) ==
  /\ call[c].at = "asked" /\ call[c].op = "save" /\ Says(c, call[c], "nothing fetched")
  /\ UNCHANGED <<AtTelegram, files>>

(* No path is allowed: the preview is all that survives.                   *)
NoPath(c) ==
  /\ call[c].at = "fetched" /\ Sets(c, [call[c] EXCEPT !.at = "previewed"])
  /\ UNCHANGED <<AtTelegram, files>>
Path(c) ==
  /\ call[c].at = "fetched" /\ Sets(c, [call[c] EXCEPT !.at = "named"])
  /\ UNCHANGED <<AtTelegram, files>>

(* The directory is opened and judged; a name in it is reserved by an      *)
(* empty file of its own.                                                  *)
DirectoryRefused(c) ==
  /\ call[c].at = "named" /\ Says(c, call[c], "directory refused")
  /\ UNCHANGED <<AtTelegram, files>>
FreeNames == {n \in Names : files[n] = Free}
AnyName == Names
Reservable == FreeNames

Reserves(c) ==
  /\ call[c].at = "named"
  /\ \E n \in Reservable :
       /\ \A other \in Reservable : n <= other
       /\ files' = [files EXCEPT ![n] = Reserved]
       /\ Sets(c, [call[c] EXCEPT !.at = "reserved", !.name = n])
  /\ UNCHANGED AtTelegram
NamesTaken(c) ==
  /\ call[c].at = "named" /\ Reservable = {} /\ Says(c, call[c], "names taken")
  /\ UNCHANGED <<AtTelegram, files>>

WritesWhole(c) ==
  /\ call[c].at = "reserved"
  /\ files' = [files EXCEPT ![call[c].name] = call[c].msg]
  /\ Sets(c, [call[c] EXCEPT !.at = "previewed", !.saved = TRUE])
  /\ UNCHANGED AtTelegram

(* A full disk fails at the flush; the name goes with the failure, also    *)
(* when the call is cancelled.                                             *)
Discards == Free
LeavesAPart == "part"
NameAfterFailure == Discards

WriteFails(c) ==
  /\ call[c].at = "reserved"
  /\ files' = [files EXCEPT ![call[c].name] = NameAfterFailure]
  /\ \/ Sets(c, [call[c] EXCEPT !.at = "previewed"])
     \/ Says(c, call[c], "failed")
  /\ UNCHANGED AtTelegram

Previews(c) ==
  /\ call[c].at = "previewed"
  /\ \E drawn \in BOOLEAN :
       Says(c, [call[c] EXCEPT !.shown = drawn /\ call[c].preview /\ call[c].msg \notin Voice,
                               !.broken = ~drawn],
            IF call[c].saved THEN "saved" ELSE "not saved")
  /\ UNCHANGED <<AtTelegram, files>>

(* A timer past the ceiling is refused here: Telegram would drop it.       *)
TooLong(seconds) == seconds > Ceiling
Send(c, seconds) ==
  IF TooLong(seconds)
  THEN /\ call[c].at \in {"idle", "replied"} /\ Says(c, [Idle EXCEPT !.op = "send", !.seconds = seconds], "refused")
       /\ UNCHANGED <<AtTelegram, files>>
  ELSE Begins(c, [Idle EXCEPT !.op = "send", !.seconds = seconds])

Timer(seconds) == IF seconds <= 0 THEN ViewOnce ELSE seconds
ComparedWithTheReply(asked, confirmed) == asked = confirmed
AnAcceptedRequest(asked, confirmed) == TRUE
Applied(asked, confirmed) == ComparedWithTheReply(asked, confirmed)

Sends(c) ==
  /\ call[c].at = "asked" /\ call[c].op = "send" /\ Cardinality(DOMAIN chat) < MaxSends
  /\ LET asked == Timer(call[c].seconds)
         confirmed == IF asked = ViewOnce \/ asked <= accepts THEN asked ELSE NoTimer
         id == Cardinality(DOMAIN chat) + 1 IN
       /\ chat' = [i \in 1..id |-> IF i = id THEN confirmed ELSE chat[i]]
       /\ Says(c, [call[c] EXCEPT !.id = id, !.applied = Applied(asked, confirmed)], "sent")
  /\ UNCHANGED <<media, accepts, files>>
SendFails(c) ==
  /\ call[c].at = "asked" /\ call[c].op = "send" /\ Says(c, call[c], "failed")
  /\ UNCHANGED <<AtTelegram, files>>

Expires(m) ==
  /\ media[m] = "opened" /\ media' = [media EXCEPT ![m] = "gone"]
  /\ UNCHANGED <<files, accepts, chat, call>>

Next ==
  \/ \E c \in Caller :
       \/ Fetches(c) \/ NothingToFetch(c) \/ FetchFails(c) \/ NoPath(c) \/ Path(c) \/ DirectoryRefused(c)
       \/ Reserves(c) \/ NamesTaken(c) \/ WritesWhole(c) \/ WriteFails(c) \/ Previews(c) \/ Sends(c) \/ SendFails(c)
       \/ \E m \in Message, preview \in BOOLEAN : Save(c, m, preview)
       \/ \E seconds \in 0..Ceiling + 1 : Send(c, seconds)
  \/ \E m \in Message : Expires(m)

Spec == Init /\ [][Next]_disappearingVars

----------------------------------------------------------------------------
(* A file that a reply named keeps what was saved in it, and a name that   *)
(* nobody is writing has a whole file or none.                             *)
SavedFilesStay ==
  /\ \A c \in Caller : call[c].saved => files[call[c].name] = call[c].msg
  /\ \A n \in Names : files[n] \in {Reserved, "part"} =>
       \E c \in Caller : call[c].at = "reserved" /\ call[c].name = n

(* Why, as an inductive invariant: a name is reserved for one call, which  *)
(* has saved nothing yet, and what was saved is no reservation.            *)
IsAttempt(record) == DOMAIN record = DOMAIN Idle
HasSaved(c) == call[c].saved => call[c].msg \in Message /\ call[c].name \in Names /\ files[call[c].name] = call[c].msg
IsFetching(c) ==
  /\ call[c].at \in {"fetched", "named", "reserved"} \/ (call[c].at = "asked" /\ call[c].op = "save") => call[c].msg \in Message
  /\ call[c].at \in {"asked", "fetched", "named", "reserved"} => ~call[c].saved
  /\ call[c].at = "reserved" => call[c].name \in Names /\ files[call[c].name] = Reserved
Inv ==
  /\ files = [n \in Names |-> files[n]] /\ call = [c \in Caller |-> call[c]]
  /\ \A c \in Caller : IsAttempt(call[c]) /\ HasSaved(c) /\ IsFetching(c)
  /\ \A c, d \in Caller : call[c].at = "reserved" /\ call[d].at = "reserved" /\ call[c].name = call[d].name => c = d
  /\ \A n \in Names : files[n] \in {Reserved, "part"} =>
       \E c \in Caller : call[c].at = "reserved" /\ call[c].name = n

(* A timer is told as applied exactly when the message has the one that    *)
(* was asked for, "view once" being what none stands for.                  *)
TimersAreTold ==
  \A c \in Caller : call[c].says = "sent" =>
    (call[c].applied <=> chat[call[c].id] = Timer(call[c].seconds))

(* Why: ids only grow, a sent message keeps its timer, and a call says     *)
(* nothing before it replies.                                              *)
HasIds == Cardinality(DOMAIN chat) \in Nat /\ DOMAIN chat = 1..Cardinality(DOMAIN chat)
HasSent(record) ==
  /\ record.at # "replied" => record.says = "nothing"
  /\ record.says = "sent" => /\ record.id \in DOMAIN chat
                             /\ record.applied <=> chat[record.id] = Timer(record.seconds)
Timed == HasIds /\ \A c \in Caller : HasSent(call[c])

(* What was fetched, which nobody can fetch again, is in a file or shown   *)
(* where it can be (the docstring of save_disappearing_media).             *)
FetchedIsNotLost ==
  \A c \in Caller :
    /\ call[c].at = "replied" /\ call[c].whole /\ call[c].preview /\ call[c].msg \notin Voice /\ ~call[c].broken
    /\ call[c].says # "failed"
    => call[c].saved \/ call[c].shown
=============================================================================

------------------------------ MODULE Capture -------------------------------
(***************************************************************************)
(* One capture of Telegram Desktop: the tool (tools/visual.py), its half   *)
(* in this process (visual/capture_runner.py) and the helper that talks to *)
(* Windows (visual/capture_worker.py, visual/capture.py).  Between any two *)
(* calls of the helper the user may resize, minimise, open or close the    *)
(* windows, and any call may fail or never come back.                      *)
(*                                                                         *)
(* Abstractions.  A size is a pair of small numbers, a crop a band of      *)
(* rows, an encoded frame its numbered bytes, a clock a "too slow" choice. *)
(* Bounding and reaping the helper is BoundedProcess: here it is one step. *)
(***************************************************************************)
EXTENDS FiniteSetsExt, Integers, Sequences

CONSTANTS
  Hwnd,          \* handles of Telegram's windows
  Sizes,         \* sizes a window may have
  Regions,       \* crops <<top, bottom>> a caller may ask for
  MaxSide,       \* MAX_CAPTURE_SIDE
  MaxPixels,     \* MAX_CAPTURE_PIXELS
  MaxBytes,      \* MAX_CAPTURE_RESPONSE_BYTES
  MaxDimension,  \* MAX_IMAGE_DIMENSION
  MaxNative,     \* MAX_NATIVE_DIMENSION
  MaxFrames,     \* MAX_FRAMES
  MaxEncoded,    \* bound: bytes of one encoded frame
  MaxChanges,    \* bound: changes of the windows during one call
  None

CaptureAssumption ==
  /\ Sizes \subseteq (Nat \X Nat) /\ Regions \subseteq (Int \X Int) /\ None \notin Hwnd
  /\ {MaxSide, MaxPixels, MaxBytes, MaxChanges} \subseteq Nat
  /\ {MaxDimension, MaxNative, MaxFrames, MaxEncoded} \subseteq Nat \ {0}

VARIABLES
  win,      \* the windows as they are
  changes,
  request,  \* what was asked for, as it is handed to the helper
  at,       \* where the call is
  window,   \* WindowInfo: the window as it was when it was enumerated
  size,     \* the width and height a bitmap is made with
  gdi,      \* what the helper holds of Windows
  leaked,   \* whether Windows refused to free a bitmap
  shot,     \* the picture taken
  payload, metas,
  taken,    \* history: how each frame was really taken
  answer

captureVars ==
  <<win, changes, request, at, window, size, gdi, leaked, shot, payload, metas, taken, answer>>

Window == [shown : BOOLEAN, size : Sizes, minimized : BOOLEAN]
Handles == {"dc", "memory", "bitmap", "selected"}
Printing == {"allocate", "select", "print", "hung", "read", "release"}
Running == Printing \cup {"find", "measure", "open", "judge", "grab", "describe", "append"}

TypeOK ==
  /\ win \in [Hwnd -> Window] /\ changes \in 0..MaxChanges
  /\ at \in Running \cup {"idle", "replied", "refused", "answered"}
  /\ gdi \subseteq Handles /\ leaked \in BOOLEAN
  /\ Len(metas) = Len(taken)
  /\ DOMAIN answer = {"kind", "window", "frames"} /\ answer.kind \in {"none", "frames", "refused", "stopped"}

Init ==
  /\ win \in [Hwnd -> Window] /\ changes = 0
  /\ request = None /\ at = "idle" /\ window = None /\ size = <<0, 0>>
  /\ gdi = {} /\ leaked = FALSE /\ shot = None
  /\ payload = <<>> /\ metas = <<>> /\ taken = <<>>
  /\ answer = [kind |-> "none", window |-> None, frames |-> <<>>]

----------------------------------------------------------------------------
(* Definitions whose name says what they get wrong are defects the checks  *)
(* must notice; no action uses them.                                       *)

Longest(s) == Max({s[1], s[2]})

(* _within_capture_limits()                                                *)
TooLong(s) == Longest(s) > MaxSide
TooBig(s) == TooLong(s) \/ s[1] * s[2] > MaxPixels
Refusable(s) == TooBig(s)

(* The client area: less a title bar, and nothing while minimised.         *)
Client(h) == IF win[h].minimized \/ win[h].size[2] = 0 THEN <<0, 0>> ELSE <<win[h].size[1], win[h].size[2] - 1>>

(* What is read of the window before a picture is taken: its client area   *)
(* as it is now, or its rectangle as it was enumerated.                    *)
Readable == ~request.client_only \/ win[window.hwnd].shown
Extent == IF request.client_only THEN Client(window.hwnd) ELSE window.size

(* round() of a quotient, which goes to the even one at a half.            *)
Rounded(a, b) ==
  LET up == 2 * (a % b) > b \/ (2 * (a % b) = b /\ (a \div b) % 2 = 1)
  IN (a \div b) + IF up THEN 1 ELSE 0

(* _fit_to()                                                               *)
Fitted(s, side) ==
  IF Longest(s) <= side THEN s
  ELSE <<Max({1, Rounded(s[1] * side, Longest(s))}), Max({1, Rounded(s[2] * side, Longest(s))})>>
Side == IF request.native THEN MaxNative ELSE MaxDimension

----------------------------------------------------------------------------
(* The tools: one screen, one region of it, several frames in a row.       *)
Screens ==
  [hwnd : Hwnd \cup {None}, method : {"window", "screen"}, client_only : BOOLEAN,
   region : {None}, native : BOOLEAN, count : {1}]
Cuts ==
  [hwnd : Hwnd \cup {None}, method : {"window", "screen"}, client_only : {FALSE},
   region : Regions, native : BOOLEAN, count : {1}]
Films ==
  [hwnd : Hwnd \cup {None}, method : {"window", "screen"}, client_only : {FALSE},
   region : {None}, native : BOOLEAN, count : {Max({1, Min({MaxFrames, n})}) : n \in 0..MaxFrames + 1}]

Ask(r) ==
  /\ at = "idle" /\ request' = r /\ at' = "find"
  /\ UNCHANGED <<win, changes, window, size, gdi, leaked, shot, payload, metas, taken, answer>>

(* The user, or Telegram itself.                                           *)
Changes(h, w) ==
  /\ at \in Running /\ changes < MaxChanges /\ w # win[h]
  /\ win' = [win EXCEPT ![h] = w] /\ changes' = changes + 1
  /\ UNCHANGED <<request, at, window, size, gdi, leaked, shot, payload, metas, taken, answer>>

----------------------------------------------------------------------------
(* The helper.                                                             *)
Outside == <<win, changes, request, answer>>
Reply == <<payload, metas, taken>>

(* find_target_window(): the handle that was named, or the largest window. *)
(* A window that goes during the enumeration is not listed.                *)
Visible == {h \in Hwnd : win[h].shown}
Area(h) == win[h].size[1] * win[h].size[2]
Target ==
  IF request.hwnd = None THEN {h \in Visible : \A o \in Visible : Area(o) <= Area(h)}
                         ELSE Visible \cap {request.hwnd}

Find ==
  /\ at = "find"
  /\ \/ Target = {} /\ at' = "refused" /\ UNCHANGED window
     \/ \E h \in Target :
          /\ window' = [hwnd |-> h, size |-> win[h].size, minimized |-> win[h].minimized]
          /\ at' = IF request.method = "window" THEN "measure" ELSE "grab"
  /\ shot' = None
  /\ UNCHANGED <<Outside, Reply, size, gdi, leaked>>

(* _capture_print_window(), call by call.  Both sides and their product    *)
(* are looked at before anything is made of them.                          *)
Measure ==
  /\ at = "measure"
  /\ IF Readable /\ Extent[1] > 0 /\ Extent[2] > 0 /\ ~Refusable(Extent)
     THEN at' = "open" /\ size' = Extent
     ELSE at' = "refused" /\ UNCHANGED size
  /\ UNCHANGED <<Outside, Reply, window, gdi, leaked, shot>>

GetWindowDC ==
  /\ at = "open"
  /\ \/ win[window.hwnd].shown /\ at' = "allocate" /\ gdi' = {"dc"}
     \/ at' = "refused" /\ UNCHANGED gdi
  /\ UNCHANGED <<Outside, Reply, window, size, leaked, shot>>

Allocate ==
  /\ at = "allocate"
  /\ \E made \in SUBSET {"memory", "bitmap"} :
       /\ gdi' = gdi \cup made
       /\ at' = IF made = {"memory", "bitmap"} THEN "select" ELSE "release"
  /\ UNCHANGED <<Outside, Reply, window, size, leaked, shot>>

SelectBitmap ==
  /\ at = "select"
  /\ \/ at' = "print" /\ gdi' = gdi \cup {"selected"}
     \/ at' = "release" /\ UNCHANGED gdi
  /\ UNCHANGED <<Outside, Reply, window, size, leaked, shot>>

(* What is known of a picture: how it was taken and whether it was read.   *)
Picture(how, s, blank) ==
  [how |-> how, size |-> s, full |-> s, client |-> s, blank |-> blank, read |-> how = "screen"]

(* PrintWindow runs on the other program's message loop: it draws, refuses *)
(* or does not come back.  A minimised window draws nothing.               *)
PrintWindow ==
  /\ at = "print"
  /\ \/ at' = "hung" /\ UNCHANGED shot
     \/ at' = "release" /\ UNCHANGED shot
     \/ /\ win[window.hwnd].shown /\ at' = "read"
        /\ \E blank \in {win[window.hwnd].minimized, TRUE} :
             shot' = Picture("window", size, blank)
  /\ UNCHANGED <<Outside, Reply, window, size, gdi, leaked>>

(* The bitmap is taken out of its context before it is read.               *)
ReadBitmap ==
  /\ at = "read" /\ at' = "release" /\ gdi' = gdi \ {"selected"}
  /\ \E ok \in BOOLEAN : shot' = IF ok THEN [shot EXCEPT !.read = TRUE] ELSE None
  /\ UNCHANGED <<Outside, Reply, window, size, leaked>>

(* finally: a bitmap that is still selected cannot be freed.               *)
PutsItBack == gdi \ {"selected"}
LeavesItSelected == gdi
Unselected == PutsItBack

Release ==
  /\ at = "release" /\ gdi' = {}
  /\ leaked' = (leaked \/ {"bitmap", "selected"} \subseteq Unselected)
  /\ at' = IF shot # None THEN "judge" ELSE "refused"
  /\ UNCHANGED <<Outside, Reply, window, size, shot>>

(* A flat picture of a minimised window is refused, another is taken again *)
(* from the screen.  Minimised is what it was when it was enumerated.      *)
FlatIsBlank == shot.blank
NothingIsBlank == FALSE
LooksBlank == FlatIsBlank

Judge ==
  /\ at = "judge"
  /\ at' = IF ~LooksBlank THEN "describe" ELSE IF window.minimized THEN "refused" ELSE "grab"
  /\ UNCHANGED <<Outside, Reply, window, size, gdi, leaked, shot>>

(* _capture_screen_region() does not ask whether the rectangle is empty.   *)
Grab ==
  /\ at = "grab"
  /\ \/ at' = "refused" /\ UNCHANGED shot
     \/ /\ ~window.minimized /\ Readable /\ ~Refusable(Extent) /\ at' = "describe"
        /\ \E blank \in BOOLEAN :
             shot' = Picture("screen", Extent, blank)
  /\ UNCHANGED <<Outside, Reply, window, size, gdi, leaked>>

(* The rest of capture_window(): the client rectangle is read once more    *)
(* for the caller, and the crop is clamped to the picture.                 *)
Row(n) == Max({0, Min({n, shot.size[2]})})
Crop ==
  IF request.region = None THEN <<0, shot.size[2]>> ELSE <<Row(request.region[1]), Row(request.region[2])>>

Describe ==
  /\ at = "describe"
  /\ IF Readable /\ (request.region # None => Crop[1] < Crop[2])
     THEN /\ at' = "append"
          /\ shot' = [shot EXCEPT !.size[2] = Crop[2] - Crop[1],
                                  !.client = IF request.client_only THEN Extent ELSE shot.size]
     ELSE at' = "refused" /\ UNCHANGED shot
  /\ UNCHANGED <<Outside, Reply, window, size, gdi, leaked>>

(* run() of the helper: a frame may fail to be encoded, an empty one       *)
(* always does; bytes are counted before they are appended; and a slow     *)
(* frame is the last.                                                      *)
AtTheEnd(data) == payload \o data
InFront(data) == data \o payload
Appended(data) == AtTheEnd(data)

Append1(n) ==
  LET index == Len(metas) + 1
      image == Fitted(shot.size, Side)
  IN /\ payload' = Appended([k \in 1..n |-> <<index, k>>])
     /\ metas' = Append(metas, [method |-> shot.how, full |-> shot.full, client |-> shot.client,
                               image |-> image, bytes |-> n])
     /\ taken' = Append(taken, [of |-> window.hwnd, how |-> shot.how, blank |-> shot.blank,
                                read |-> shot.read])

AppendFrame ==
  /\ at = "append"
  /\ \/ at' = "refused" /\ UNCHANGED Reply
     \/ /\ shot.size[1] * shot.size[2] > 0
        /\ \E n \in 1..MaxEncoded :
             IF Len(payload) + n > MaxBytes THEN at' = "refused" /\ UNCHANGED Reply
             ELSE /\ Append1(n)
                  /\ \E slow \in BOOLEAN :
                       at' = IF slow THEN "refused" ELSE IF Len(metas') < request.count THEN "find" ELSE "replied"
  /\ UNCHANGED <<Outside, window, size, gdi, leaked, shot>>

----------------------------------------------------------------------------
(* capture_frames(), once the helper has gone: the header's lengths cut    *)
(* the payload, and the window told is that of the last frame.             *)
Before(i) == MapThenSumSet(LAMBDA j : metas[j].bytes, 1..(i - 1))
Chunk(i) == SubSeq(payload, Before(i) + 1, Before(i) + metas[i].bytes)

Answers ==
  /\ at = "replied" /\ at' = "answered"
  /\ answer' = [kind |-> "frames", window |-> window.hwnd,
                frames |-> [i \in 1..Len(metas) |-> [data |-> Chunk(i), meta |-> metas[i]]]]
  /\ UNCHANGED <<win, changes, request, window, size, gdi, leaked, shot, Reply>>

Refuses ==
  /\ at = "refused" /\ at' = "answered" /\ answer' = [answer EXCEPT !.kind = "refused"]
  /\ UNCHANGED <<win, changes, request, window, size, gdi, leaked, shot, Reply>>

(* The one deadline of the call, or a caller that left: the helper is      *)
(* killed, and Windows takes back what it held.                            *)
Stops ==
  /\ at \in Running /\ at' = "answered" /\ answer' = [answer EXCEPT !.kind = "stopped"]
  /\ gdi' = {} /\ UNCHANGED <<win, changes, request, window, size, leaked, shot, Reply>>

Helper ==
  \/ Find \/ Measure \/ GetWindowDC \/ Allocate \/ SelectBitmap \/ PrintWindow \/ ReadBitmap
  \/ Release \/ Judge \/ Grab \/ Describe \/ AppendFrame

Next ==
  \/ \E r \in Screens \cup Cuts \cup Films : Ask(r)
  \/ \E h \in Hwnd, w \in Window : Changes(h, w)
  \/ Helper \/ Answers \/ Refuses \/ Stops

----------------------------------------------------------------------------
(* Nothing is made larger than a capture may be, however the window grows  *)
(* between the looks at it; the helper gives every handle back on every    *)
(* way out; and the reply never passes its ceiling, not even in the helper. *)
CaptureIsBounded ==
  /\ "bitmap" \in gdi => ~TooBig(size)
  /\ shot # None => ~TooBig(shot.size)
  /\ at \notin Printing => gdi = {}
  /\ ~leaked
  /\ Len(payload) <= MaxBytes

(* Frames that are returned are all that was asked for, each with its own  *)
(* bytes and the way it was taken, small enough, and never the flat        *)
(* picture of a window that would not draw itself.                         *)
FramesAreWhole ==
  answer.kind = "frames" =>
    /\ Len(answer.frames) = request.count
    /\ \A i \in 1..Len(answer.frames) :
         LET frame == answer.frames[i]
         IN /\ frame.data = [k \in 1..frame.meta.bytes |-> <<i, k>>]
            /\ frame.meta.method = taken[i].how /\ taken[i].read
            /\ taken[i].how = "window" => ~taken[i].blank
            /\ frame.meta.image[1] \in 1..Side /\ frame.meta.image[2] \in 1..Side

(* The frames returned together are of the window that is named beside     *)
(* them.                                                                   *)
FramesAreOfOneWindow ==
  answer.kind = "frames" => \A i \in 1..Len(taken) : taken[i].of = answer.window

(* "Report what was actually captured" (capture.py:532): the rectangle that *)
(* is told is of the size of the picture.                                  *)
RectangleIsOfThePicture ==
  answer.kind = "frames" => \A i \in 1..Len(metas) : metas[i].client = metas[i].full
(* The invariant behind them.  A picture that is worked on was small       *)
(* enough when it was made, is still, was read, and is flat only if it is  *)
(* going to be refused or taken again.                                     *)
Pictures ==
  [how : {"window", "screen"}, size : Nat \X Nat, full : Nat \X Nat, client : Nat \X Nat,
   blank : BOOLEAN, read : BOOLEAN]
Fitting == {picture \in Pictures : ~TooBig(picture.size)}
Whole == {picture \in Fitting : picture.read}

PicturesAreFit ==
  /\ at \in Running \ {"find"} => window \in [hwnd : Hwnd, size : Sizes, minimized : BOOLEAN]
  /\ at \in Printing \cup {"open"} => size \in Nat \X Nat /\ ~TooBig(size)
  /\ at \in {"measure", "open", "allocate", "select", "print"} => shot = None
  /\ at = "read" => shot \in Fitting
  /\ at = "release" => shot = None \/ shot \in Whole
  /\ at = "judge" => shot \in Whole
  /\ at \in {"describe", "append"} => shot \in Whole /\ (shot.how = "window" => ~shot.blank)
  /\ shot = None \/ shot \in Fitting
  /\ at \notin Printing => gdi = {}
  /\ ~leaked

(* The frames so far lie in the payload one behind the other, and there    *)
(* are fewer of them than were asked for until the last is in.             *)
Meta == [method : {"window", "screen"}, full : Nat \X Nat, client : Nat \X Nat, image : Nat \X Nat, bytes : Nat]
Taken == [of : Hwnd, how : {"window", "screen"}, blank : BOOLEAN, read : BOOLEAN]

FramesLieInTheReply ==
  /\ metas \in Seq(Meta) /\ taken \in Seq(Taken) /\ payload \in Seq(Nat \X Nat)
  /\ at \in Running => Len(metas) < request.count
  /\ at = "replied" => Len(metas) = request.count
  /\ Len(payload) = Before(Len(metas) + 1) /\ Len(payload) <= MaxBytes
  /\ \A i \in 1..Len(metas) :
       /\ Before(i) \in Nat /\ Before(i) + metas[i].bytes <= Len(payload)
       /\ \A k \in 1..metas[i].bytes : payload[Before(i) + k] = <<i, k>>
       /\ metas[i].method = taken[i].how /\ taken[i].read
       /\ taken[i].how = "window" => ~taken[i].blank
       /\ metas[i].image[1] \in 1..Side /\ metas[i].image[2] \in 1..Side

Inv ==
  /\ TypeOK /\ PicturesAreFit
  /\ IF at = "idle" THEN metas = <<>> /\ payload = <<>> /\ taken = <<>>
     ELSE request \in Screens \cup Cuts \cup Films /\ FramesLieInTheReply
  /\ answer.kind = "frames" => at = "answered" /\ FramesAreWhole
=============================================================================

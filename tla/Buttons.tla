------------------------------ MODULE Buttons ------------------------------
(***************************************************************************)
(* The glass buttons of one message under telegram_mcp/tools/buttons.py:   *)
(* inspect_buttons() lists them and signs a token for each that may be     *)
(* pressed; click_button() reads the keyboard again and presses by index,  *)
(* the label that is expected, and the token.  The bot (external) may      *)
(* edit its keyboard at any time.                                          *)
(*                                                                         *)
(* Abstractions.  A label is what is shown and the raw text it comes from; *)
(* a payload is a number, 0 for a button that is no callback.  A token is  *)
(* the facts it signs and the process whose key signed them.  A caller may *)
(* combine what it saw in any listing.                                     *)
(***************************************************************************)
EXTENDS Naturals, Sequences

CONSTANTS
  Raw,      \* raw labels
  Cleaned,  \* the label that is shown for each
  Payload,
  MaxEdits, MaxRestarts \* bounds: edits of the keyboard, restarts of the server

ButtonsAssumption ==
  /\ Cleaned \in [Raw -> Raw]
  /\ Payload \subseteq Nat \ {0}
  /\ {MaxEdits, MaxRestarts} \subseteq Nat

VARIABLES
  keyboard,  \* the buttons as they are
  edits,
  process,   \* which process serves, and so which key signs
  listings,  \* what inspect_buttons() returned, with its tokens
  press      \* the press that passed its checks, and whether it is sent

buttonVars == <<keyboard, edits, process, listings, press>>

Keyboards == [1..2 -> [raw : Raw, payload : Payload \cup {0}]]
Token == [index : 1..2, raw : Raw, payload : Payload, key : 0..MaxRestarts]
NoPress == [state |-> "none"]

TypeOK ==
  /\ keyboard \in Keyboards
  /\ edits \in 0..MaxEdits /\ process \in 0..MaxRestarts
  /\ listings \subseteq Token
  /\ press \in {NoPress} \cup
       [state : {"checked", "sent"}, index : 1..2, payload : Payload,
        expected : Raw, token : Token]

Init ==
  /\ keyboard \in Keyboards
  /\ edits = 0 /\ process = 0
  /\ listings = {}
  /\ press = NoPress

----------------------------------------------------------------------------
(* Definitions whose name says what they get wrong are defects the checks  *)
(* must notice; no action uses them.                                       *)

Shown(i) == Cleaned[keyboard[i].raw]

(* _mark_text_collisions(): one label shown for different raw texts.       *)
Collides(i) ==
  \E j \in DOMAIN keyboard : Shown(j) = Shown(i) /\ keyboard[j].raw # keyboard[i].raw

Pressable(i) == keyboard[i].payload # 0 /\ ~Collides(i)

(* _binding_facts() and _sign(): what a token is of.                       *)
TokenOf(i) == [index |-> i, raw |-> keyboard[i].raw, payload |-> keyboard[i].payload, key |-> process]
SignsTheLabel(i, token) == token = [TokenOf(i) EXCEPT !.payload = token.payload]
OutlivesItsProcess(i, token) == token = [TokenOf(i) EXCEPT !.key = token.key]
Authorizes(i, token) == token = TokenOf(i)

(* inspect_buttons(), _bind_tokens()                                       *)
Inspect ==
  /\ listings' = listings \cup {TokenOf(i) : i \in {j \in DOMAIN keyboard : Pressable(j)}}
  /\ UNCHANGED <<keyboard, edits, process, press>>

(* click_button() and press_inline_button(): the checks, against the       *)
(* keyboard as it stands.                                                  *)
Click(index, expected, token) ==
  /\ press.state # "checked"
  /\ Shown(index) = expected
  /\ Pressable(index)
  /\ Authorizes(index, token)
  /\ press' = [state |-> "checked", index |-> index, payload |-> keyboard[index].payload,
               expected |-> expected, token |-> token]
  /\ UNCHANGED <<keyboard, edits, process, listings>>

(* GetBotCallbackAnswerRequest carries the payload that was read.          *)
Press ==
  /\ press.state = "checked"
  /\ press' = [press EXCEPT !.state = "sent"]
  /\ UNCHANGED <<keyboard, edits, process, listings>>

PressFails ==
  /\ press.state = "checked"
  /\ press' = NoPress
  /\ UNCHANGED <<keyboard, edits, process, listings>>

EditKeyboard(k) ==
  /\ edits < MaxEdits
  /\ edits' = edits + 1
  /\ keyboard' = k
  /\ UNCHANGED <<process, listings, press>>

Restart ==
  /\ process < MaxRestarts
  /\ process' = process + 1
  /\ press' = NoPress
  /\ UNCHANGED <<keyboard, edits, listings>>

Next ==
  \/ Inspect \/ Press \/ PressFails \/ Restart
  \/ \E k \in Keyboards : EditKeyboard(k)
  \/ \E index \in 1..2, seen, token \in listings : Click(index, Cleaned[seen.raw], token)

Spec == Init /\ [][Next]_buttonVars

----------------------------------------------------------------------------
(* What is pressed is what was listed: the callback that is sent carries   *)
(* the payload that some listing showed at this index under the expected   *)
(* label, whatever the bot edited between the listing and the press and    *)
(* however the caller mixed its listings.                                  *)
IsOfAListing ==
  \E l \in listings : /\ l.index = press.index /\ l.payload = press.payload
                      /\ Cleaned[l.raw] = press.expected
                      /\ press.token = l
PressIsWhatWasListed == press.state = "sent" => IsOfAListing

(* A listing does not outlive the process that made it.                    *)
TokensEndWithTheProcess ==
  [][(press'.state = "sent" /\ press' # press) => press.token.key = process]_buttonVars

(* Why, as inductive invariants: a restart drops the press on its way, and *)
(* a press that is checked is of a listing, which nothing takes back.      *)
CheckedIsOfThisProcess == press.state = "checked" => press.token.key = process
CheckedIsListed == press.state # "none" => IsOfAListing
Inv == TypeOK /\ CheckedIsOfThisProcess
=============================================================================

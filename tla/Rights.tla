-------------------------------- MODULE Rights -------------------------------
(***************************************************************************)
(* What people may do and see: the rights of a chat's administrators       *)
(* (tools/admin_rights.py, tools/moderation.py, tools/channel_settings.py),*)
(* and the rules of one privacy setting (tools/profile_privacy.py).        *)
(* Telegram is external: of the rights it is sent it applies those that    *)
(* mean something in the chat and that the account itself holds, and of a  *)
(* list of privacy rules the first that matches a person.                  *)
(*                                                                         *)
(* Abstractions.  One chat and one setting, a behaviour being about either.*)
(* Ranks, expiries, names and the other toggles of a chat are left out: a  *)
(* toggle is one request that says what it was told to set.                *)
(***************************************************************************)
EXTENDS FiniteSets, Sequences, SequencesExt, Integers

CONSTANTS
  Person,
  Right,      \* of an administrator
  Withheld,   \* those nobody gets unless they are named
  Parameters, \* those edit_admin_rights() has a parameter for
  Close,      \* close friends: people a rule of another kind is about
  MaxRules,   \* rules of the setting; Telegram has its own limit
  MaxEdits    \* by administrators and devices that are not this server

RightsAssumption ==
  /\ {Withheld, Parameters} \subseteq SUBSET Right /\ Close \subseteq Person
  /\ {MaxRules, MaxEdits} \subseteq Nat

VARIABLES
  about,   \* what this behaviour is about
  means,   \* the rights that mean something in this chat
  own,     \* the rights the account holds
  rights,  \* the rights of each person
  barred,  \* who is banned
  rules,   \* of the setting, in order
  edits,   \* how many edits others made
  call

rightsVars == <<about, means, own, rights, barred, rules, edits, call>>

Base == {"everyone", "contacts", "nobody"}
Rule(kind, people) == [kind |-> kind, people |-> people]
Kinds == {"allow", "disallow", "close"} \cup Base
Idle == [op |-> "none", pc |-> "idle", who |-> {}, yes |-> {}, no |-> {}, base |-> "nobody", seen |-> <<>>, rules |-> <<>>,
         sends |-> {}, declined |-> {}, looked |-> FALSE, says |-> "nothing"]

TypeOK ==
  /\ about \in {"admins", "privacy"} /\ means \subseteq Right /\ own \subseteq Right
  /\ rights \in [Person -> SUBSET Right] /\ barred \subseteq Person /\ edits \in 0..MaxEdits
  /\ \A i \in DOMAIN rules : rules[i].kind \in Kinds /\ rules[i].people \subseteq Person
  /\ call.pc \in {"idle", "asked", "sent", "replied"} /\ call.sends \subseteq Right

Init ==
  /\ about \in {"admins", "privacy"}
  /\ means \in SUBSET Right /\ own \in SUBSET Right
  /\ about = "privacy" => means = {} /\ own = {}
  /\ rights = [p \in Person |-> {}] /\ barred = {} /\ edits = 0 /\ call = Idle
  /\ rules = <<Rule("close", Close), Rule("contacts", {})>>

----------------------------------------------------------------------------
(* Definitions whose name says what they get wrong are defects the checks  *)
(* must notice; no action uses them.                                       *)

World == <<about, means, own>>
AtTelegram == <<rights, barred, rules, edits>>
Sets(record) == call' = record
Says(what) == Sets([call EXCEPT !.pc = "replied", !.says = what])
Begins(theme, record) ==
  /\ about = theme /\ call.pc \in {"idle", "replied"}
  /\ Sets([record EXCEPT !.pc = "asked"])
  /\ UNCHANGED <<World, AtTelegram>>

(* _build_admin_rights(): a right that is named is what the caller said,   *)
(* any other is the default; demote_admin() has a default of nothing.      *)
Generous == Right \ Withheld
GenerousWithoutException == Right
Defaults == Generous
Built(yes, no, default) == yes \cup (default \ no)

NoDefault == {}
NoDefaultIsTheUsualOne == Defaults
Nothing == NoDefault

PromoteAdmin(p, yes, no) ==
  Begins("admins", [Idle EXCEPT !.op = "promote", !.who = {p}, !.yes = yes, !.no = no,
                                !.sends = Built(yes, no, Defaults)])
EditAdminRights(p, yes) ==
  Begins("admins", [Idle EXCEPT !.op = "edit", !.who = {p}, !.yes = yes, !.no = Parameters \ yes,
                                !.sends = Built(yes, Parameters \ yes, Defaults)])
DemoteAdmin(p) ==
  Begins("admins", [Idle EXCEPT !.op = "demote", !.who = {p}, !.sends = Built({}, {}, Nothing)])
BanUser(p)   == Begins("admins", [Idle EXCEPT !.op = "ban", !.who = {p}])
UnbanUser(p) == Begins("admins", [Idle EXCEPT !.op = "unban", !.who = {p}])

AppliesRights ==
  /\ call.pc = "asked" /\ call.op \in {"promote", "edit", "demote"}
  /\ rights' = [p \in Person |-> IF p \in call.who THEN call.sends \cap means \cap own ELSE rights[p]]
  /\ IF call.op = "edit" THEN Sets([call EXCEPT !.pc = "sent"]) ELSE Says("granted")
  /\ UNCHANGED <<World, barred, rules, edits>>

AppliesBan ==
  /\ call.pc = "asked" /\ call.op \in {"ban", "unban"}
  /\ barred' = IF call.op = "ban" THEN barred \cup call.who ELSE barred \ call.who
  /\ rights' = [p \in Person |-> IF call.op = "ban" /\ p \in call.who THEN {} ELSE rights[p]]
  /\ Says("granted")
  /\ UNCHANGED <<World, rules, edits>>

(* _rights_telegram_declined(): what was asked for and is not there when   *)
(* the person is looked at again; a look that fails declines nothing, and  *)
(* neither does the look at a person who is no administrator at all.       *)
HeldNow(p) == rights[p]
AskedFor(p) == call.sends
Actual(p) == HeldNow(p)

LooksAgain ==
  /\ call.pc = "sent"
  /\ Sets([call EXCEPT !.pc = "replied", !.says = "granted", !.looked = TRUE,
                       !.declined = {r \in call.sends : \E p \in call.who : HeldNow(p) # {} /\ r \notin Actual(p)}])
  /\ UNCHANGED <<World, AtTelegram>>
LookFails ==
  /\ call.pc = "sent" /\ Says("granted")
  /\ UNCHANGED <<World, AtTelegram>>

RequestFails ==
  /\ call.pc = "asked" /\ Says("failed")
  /\ UNCHANGED <<World, AtTelegram>>

(* Another administrator, with rights this account may not have.           *)
OtherEdits(p, held) ==
  /\ about = "admins" /\ edits < MaxEdits /\ edits' = edits + 1
  /\ rights' = [rights EXCEPT ![p] = held]
  /\ UNCHANGED <<World, barred, rules, call>>

----------------------------------------------------------------------------
(* set_privacy_settings(): the rules are replaced as a whole.  The people  *)
(* who are named go before the policy that is for everybody else; rules    *)
(* that were read are sent back as they were.                              *)
ExceptionsFirst(allow, disallow, base) ==
  (IF allow = {} THEN <<>> ELSE <<Rule("allow", allow)>>)
    \o (IF disallow = {} THEN <<>> ELSE <<Rule("disallow", disallow)>>) \o <<Rule(base, {})>>
PolicyFirst(allow, disallow, base) ==
  <<Rule(base, {})>> \o (IF allow = {} THEN <<>> ELSE <<Rule("allow", allow)>>)
    \o (IF disallow = {} THEN <<>> ELSE <<Rule("disallow", disallow)>>)
InOrder(allow, disallow, base) == ExceptionsFirst(allow, disallow, base)

SetPrivacy(allow, disallow, base) ==
  IF allow \cap disallow # {}
  THEN /\ about = "privacy" /\ call.pc \in {"idle", "replied"}
       /\ Sets([Idle EXCEPT !.op = "policy", !.pc = "replied", !.says = "refused"])
       /\ UNCHANGED <<World, AtTelegram>>
  ELSE Begins("privacy", [Idle EXCEPT !.op = "policy", !.yes = allow, !.no = disallow, !.base = base,
                                      !.rules = InOrder(allow, disallow, base)])

(* Back from get_privacy_settings(): whoever cannot be resolved any more   *)
(* refuses the whole list; none of it is sent without them.  The rules may *)
(* change after the caller has seen them.                                  *)
EveryKind(all) == all
KnownKinds(all) == SelectSeq(all, LAMBDA rule : rule.kind # "close")
Described(all) == EveryKind(all)

SetRules(extra) ==
  Len(rules) < MaxRules /\ Begins("privacy", [Idle EXCEPT !.op = "rules", !.yes = extra, !.seen = rules,
                                 !.rules = (IF extra = {} THEN <<>> ELSE <<Rule("allow", extra)>>)
                                             \o Described(rules)])
Unresolved ==
  /\ call.pc = "asked" /\ about = "privacy" /\ (call.yes \cup call.no # {} \/ call.op = "rules") /\ Says("refused")
  /\ UNCHANGED <<World, AtTelegram>>

Replaces ==
  /\ call.pc = "asked" /\ about = "privacy"
  /\ rules' = call.rules
  /\ Says("replaced")
  /\ UNCHANGED <<World, rights, barred, edits>>

OtherDevice(base) ==
  /\ about = "privacy" /\ edits < MaxEdits /\ edits' = edits + 1
  /\ Len(rules) < MaxRules
  /\ rules' = Append(rules, Rule(base, {}))
  /\ UNCHANGED <<World, rights, barred, call>>

Next ==
  \/ AppliesRights \/ AppliesBan \/ LooksAgain \/ LookFails \/ RequestFails \/ Unresolved \/ Replaces
  \/ \E p \in Person :
       \/ \E yes, no \in SUBSET Right : yes \cap no = {} /\ PromoteAdmin(p, yes, no)
       \/ \E yes \in SUBSET Parameters : EditAdminRights(p, yes)
       \/ DemoteAdmin(p) \/ BanUser(p) \/ UnbanUser(p)
       \/ \E held \in SUBSET Right : OtherEdits(p, held)
  \/ \E allow, disallow \in SUBSET Person, base \in Base : SetPrivacy(allow, disallow, base)
  \/ \E extra \in SUBSET Person : SetRules(extra)
  \/ \E base \in Base : OtherDevice(base)

Spec == Init /\ [][Next]_rightsVars

----------------------------------------------------------------------------
(* Telegram's reading of the rules: the first that matches decides; where  *)
(* none does nobody is allowed.  Nobody here is a contact.                 *)
Matches(rule, p) ==
  CASE rule.kind \in {"allow", "disallow", "close"} -> p \in rule.people
    [] rule.kind = "contacts"                       -> FALSE
    [] OTHER                                        -> TRUE
Allowed(all, p) ==
  \E i \in DOMAIN all : /\ Matches(all[i], p) /\ \A j \in 1..i - 1 : ~Matches(all[j], p)
                        /\ all[i].kind \in {"allow", "close", "everyone"}

Answered(op) == call.op = op /\ call.pc # "replied" /\ call'.pc = "replied" /\ call'.says \notin {"failed", "refused"}

(* A right that was asked for somebody who is an administrator now is held *)
(* or the reply names it as declined, unless the look that would have told *)
(* failed.                                                                 *)
MissingIsDeclined ==
  Answered("edit") /\ call'.looked =>
    \A p \in call.who : rights[p] = {} \/ call.yes \subseteq rights[p] \cup call'.declined
GrantedUnlessDeclined == [][MissingIsDeclined]_rightsVars

(* The rights that would let somebody make administrators, or act unseen,  *)
(* come only from a call that named them; a demotion leaves nothing.       *)
WithheldIsNamed ==
  /\ \A p \in Person : edits' = edits => (rights'[p] \ rights[p]) \cap Withheld \subseteq call.yes
  /\ Answered("demote") => \A p \in call.who : rights'[p] = {}
WithheldUnlessNamed == [][WithheldIsNamed]_rightsVars

(* Whom a call names is allowed or not as it says, everybody else as the   *)
(* policy says; adding somebody to the rules leaves everybody else as they *)
(* were by the rules the caller had seen.                                  *)
RulesSayWhatIsNamed ==
  /\ Answered("policy") => \A p \in Person :
       Allowed(rules', p) <=> p \in call.yes \/ (p \notin call.no /\ call.base = "everyone")
  /\ Answered("rules") => \A p \in Person : Allowed(rules', p) <=> p \in call.yes \/ Allowed(call.seen, p)
ExceptionsHold == [][RulesSayWhatIsNamed]_rightsVars

(* "Supplying this sends those rules verbatim" (profile_privacy.py:205-208)*)
(* and so takes back what another device changed meanwhile.                *)
OthersRulesStay ==
  [][Answered("rules") => \A p \in Person : Allowed(rules', p) <=> p \in call.yes \/ Allowed(rules, p)]_rightsVars

(* Why, as an inductive invariant: what a call is about to send is what    *)
(* its caller named, over the rules it has seen.                           *)
RuleSet == [kind : Kinds, people : SUBSET Person]
Exception(kind, people) == IF people = {} THEN <<>> ELSE <<Rule(kind, people)>>
SendsWhatIsNamed ==
  /\ call.op \in {"promote", "edit", "demote", "ban", "unban", "policy", "rules"} /\ call.who \subseteq Person
  /\ call.op \in {"promote", "edit", "demote"} => call.sends \subseteq call.yes \cup Generous
  /\ call.op = "edit" => call.yes \subseteq call.sends
  /\ call.op = "demote" => call.sends = {}
  /\ call.op = "policy" =>
       /\ call.yes \cap call.no = {} /\ call.yes \cup call.no \subseteq Person /\ call.base \in Base
       /\ call.rules = InOrder(call.yes, call.no, call.base)
  /\ call.op = "rules" =>
       call.yes \subseteq Person /\ call.seen \in Seq(RuleSet) /\ call.rules = Exception("allow", call.yes) \o call.seen
Inv ==
  /\ rights = [p \in Person |-> rights[p]] /\ rules \in Seq(RuleSet) /\ DOMAIN call = DOMAIN Idle
  /\ call.op \in {"promote", "edit", "demote", "ban", "unban"} => about = "admins"
  /\ call.pc = "sent" => call.op = "edit"
  /\ call.looked => call.pc = "replied"
  /\ call.pc \in {"asked", "sent"} => SendsWhatIsNamed
=============================================================================

----------------------------- MODULE ChannelName -----------------------------
(* The public name of a channel.  create_channel() (tools/groups.py) asks     *)
(* whether a name is free, creates the channel, and names it: three requests. *)
(* set_channel_username() (tools/channel_admin.py) asks and then renames.     *)
(* Other people and other calls claim and give up names in between; a request *)
(* may fail, and its answer may be lost after it took effect.                 *)
EXTENDS Naturals, FiniteSets

CONSTANTS Call, Name,
          MaxClaims  \* bound: names that other people claim or give up

None == "none"
Others == "others"
Own == "own" \* a channel the account had before

ChannelNameAssumption == MaxClaims \in Nat /\ {None, Others, Own} \cap (Call \cup Name) = {}

VARIABLES holder, \* name -> the channel that has it; a channel is known by the call that may create it
          exists, \* the channels there are
          claims,
          naming  \* call -> what it wants, how far it is, what it did and what it told

nameVars == <<holder, exists, claims, naming>>

Channel == Call \cup {Own}

Idle == [pc |-> "asked", op |-> None, want |-> None, of |-> Own, before |-> None,
         made |-> FALSE, named |-> FALSE, told |-> None, lost |-> None]

Told == {None, "error", "taken", "created", "created, unnamed", "named", "unchanged"}

TypeOK ==
  /\ holder \in [Name -> Channel \cup {Others, None}]
  /\ exists \subseteq Channel /\ claims \in 0..MaxClaims
  /\ naming \in [Call -> [pc : {"asked", "checking", "creating", "renaming", "done"},
                          op : {None, "create", "set"}, want : Name \cup {None}, of : Channel,
                          before : Name \cup {None}, made : BOOLEAN, named : BOOLEAN, told : Told,
                          lost : {None, "creating", "renaming"}]]

Init ==
  /\ holder \in {f \in [Name -> {Own, None}] : Cardinality({name \in Name : f[name] = Own}) <= 1}
  /\ exists = {Own} /\ claims = 0
  /\ naming = [c \in Call |-> Idle]

NameOf(channel) ==
  IF \E name \in Name : holder[name] = channel THEN CHOOSE name \in Name : holder[name] = channel ELSE None

ClaimOrRelease(name) ==
  /\ claims < MaxClaims /\ claims' = claims + 1
  /\ holder[name] \in {None, Others}
  /\ holder' = [holder EXCEPT ![name] = IF @ = None THEN Others ELSE None]
  /\ UNCHANGED <<exists, naming>>

Does(c, call) == naming' = [naming EXCEPT ![c] = call]
Quiet(c, call) == Does(c, call) /\ UNCHANGED <<holder, exists, claims>>
Goes(call, pc) == [call EXCEPT !.pc = pc]
Ends(call, told) == [call EXCEPT !.pc = "done", !.told = told]

\* A request took effect, and its answer did not come.
Loses(call, told) == [Ends(call, told) EXCEPT !.lost = call.pc]

AskCreate(c, name) ==
  /\ naming[c].pc = "asked"
  /\ Quiet(c, [Idle EXCEPT !.op = "create", !.of = c, !.want = name,
                           !.pc = IF name = None THEN "creating" ELSE "checking"])

\* set_channel_username(): no name means that the channel becomes private.
AskSet(c, name) ==
  /\ naming[c].pc = "asked"
  /\ Quiet(c, [Idle EXCEPT !.op = "set", !.want = name, !.before = NameOf(Own),
                           !.pc = IF name = None THEN "renaming" ELSE "checking"])

\* channels.checkUsername
Check(c) ==
  LET call == naming[c] IN
  /\ call.pc = "checking"
  /\ \/ Quiet(c, IF holder[call.want] # None THEN Ends(call, "taken")
                 ELSE Goes(call, IF call.op = "create" THEN "creating" ELSE "renaming"))
     \/ Quiet(c, Ends(call, "error"))

\* channels.createChannel
Create(c) ==
  LET made == [naming[c] EXCEPT !.made = TRUE] IN
  /\ naming[c].pc = "creating"
  /\ \/ /\ exists' = exists \cup {c}
        /\ \/ Does(c, IF naming[c].want = None THEN Ends(made, "created") ELSE Goes(made, "renaming"))
           \/ Does(c, Loses(made, "error"))
        /\ UNCHANGED <<holder, claims>>
     \/ Quiet(c, Ends(naming[c], "error"))

\* channels.updateUsername: a name that was taken since the check is refused,
\* and so is the name the channel has already.
Renamed(c) ==
  [name \in Name |-> IF name = naming[c].want THEN naming[c].of
                     ELSE IF holder[name] = naming[c].of THEN None ELSE holder[name]]

FailureToldAsFailure(c) == "error"
NotNamed(c) == IF naming[c].made THEN "created, unnamed" ELSE "error"

Rename(c) ==
  LET call == naming[c]
      named == [call EXCEPT !.named = TRUE]
      free == call.want \in {None} \cup {name \in Name : holder[name] = None}
      same == NameOf(call.of) = call.want IN
  /\ call.pc = "renaming"
  /\ \/ /\ free /\ ~same
        /\ holder' = Renamed(c)
        /\ \/ Does(c, Ends(named, "named"))
           \/ Does(c, Loses(named, NotNamed(c)))
        /\ UNCHANGED <<exists, claims>>
     \/ Quiet(c, Ends(call, IF call.op = "set" /\ (same \/ ~free) THEN "unchanged" ELSE NotNamed(c)))

Next ==
  \/ \E name \in Name : ClaimOrRelease(name)
  \/ \E c \in Call, name \in Name \cup {None} : AskCreate(c, name) \/ AskSet(c, name)
  \/ \E c \in Call : Check(c) \/ Create(c) \/ Rename(c)

Spec == Init /\ [][Next]_nameVars

--------------------------------------------------------------------------------
\* What a finished call told is what it did, but for the request whose answer
\* was lost: a caller that is told of an error, or of a name that was taken, owns
\* a new channel only if it was creating it that went unanswered; one whose
\* channel could not be named, or may have been, learns that the channel exists.
ToldOfAChannel(call) ==
  call.told \in {"created", "created, unnamed"} \/ (call.told = "named" /\ call.op = "create")
CallsTellWhatTheyDid ==
  \A c \in Call : LET call == naming[c] IN call.pc = "done" =>
    /\ call.made <=> c \in exists
    /\ ToldOfAChannel(call) => call.made
    /\ call.made => ToldOfAChannel(call) \/ call.lost = "creating"
    /\ call.told = "named" => call.named
    /\ call.named => call.told = "named" \/ call.lost = "renaming"

\* "so it is private" (groups.py:186-188).  It does not hold: the name whose answer
\* was lost is the channel's.
UnnamedIsPrivate ==
  \A c \in Call : naming[c].pc = "done" /\ naming[c].told = "created, unnamed" => ~naming[c].named

\* Why, as an inductive invariant: a channel exists exactly if its call made it,
\* and a call about to rename made it if it was one to create.
HasDone(c) ==
  /\ naming[c].made <=> c \in exists
  /\ naming[c].pc = "asked" => naming[c].op = None
  /\ naming[c].pc # "asked" => naming[c].op \in {"create", "set"}
  /\ naming[c].pc \in {"asked", "checking", "creating"} => ~naming[c].made
  /\ naming[c].pc = "creating" => naming[c].op = "create"
  /\ naming[c].pc = "renaming" => (naming[c].made <=> naming[c].op = "create")
  /\ naming[c].pc # "done" => ~naming[c].named
Inv ==
  /\ naming = [c \in Call |-> naming[c]]
  /\ \A c \in Call : DOMAIN naming[c] = DOMAIN Idle /\ HasDone(c)
  /\ CallsTellWhatTheyDid
=============================================================================

------------------------------ MODULE WebPanel ------------------------------
(* The local panel (web_panel.py).  Its handlers run on one event loop: the   *)
(* edits of the policy are whole, a QR login waits for its scan in a task of  *)
(* its own, and a verdict on the accounts is awaited from Telegram.  They     *)
(* share the .env file, the state the page shows of the last login, and the   *)
(* verdicts kept for ninety seconds.                                          *)
EXTENDS Naturals, FiniteSets, TLC

CONSTANTS Login, Key, Viewer, Account, Chat,
          Typed,     \* sessions an operator may paste
          MaxEdits,  \* bound: edits and removals of accounts
          MaxAge,    \* the ninety seconds a verdict is kept
          MaxTime    \* bound: the clock

None == "none"

WebPanelAssumption ==
  /\ MaxEdits \in Nat /\ MaxAge \in Nat /\ MaxTime \in Nat
  /\ None \notin Login \cup Key \cup Typed \cup Account

VARIABLES now, edits,
          env,      \* key -> the session the file holds under it
          meant,    \* ghost: session -> the key its operator meant for it
          login,    \* QR login -> its key and where it stands
          shown,    \* _QR_STATE: the login it was last set for, and its status
          verdicts, \* _ACCOUNT_INFO_CACHE
          checking, \* viewer -> the sessions it awaits verdicts for
          chats,    \* the allow list of every account, and of the account that has its own
          own

panelVars == <<now, edits, env, meant, login, shown, verdicts, checking, chats, own>>

Session == Login \cup Typed
NoVerdict == [of |-> None, at |-> 0]
Nothing == [pc |-> "idle", at |-> 0, asked |-> [key \in Key |-> None]]

Stored ==
  /\ env \in [Key -> Session \cup {None}]
  /\ meant \in [Session -> Key \cup {None}]
  /\ login \in [Login -> [key : Key \cup {None}, pc : {"new", "waiting", "saved", "expired"}]]
  /\ chats \subseteq Chat /\ own \in [Account -> {[is |-> None, of |-> {}]} \cup [is : {"own"}, of : SUBSET Chat]]

TypeOK ==
  /\ Stored /\ now \in 0..MaxTime /\ edits \in 0..MaxEdits
  /\ shown \in [of : Login \cup {None}, is : {"idle", "waiting", "saved", "expired"}]
  /\ verdicts \in [Key -> [of : Session \cup {None}, at : 0..MaxTime]]
  /\ checking \in [Viewer -> [pc : {"idle", "asking"}, at : 0..MaxTime,
                              asked : [Key -> Session \cup {None}]]]

Init ==
  /\ now = 0 /\ edits = 0
  /\ env = [key \in Key |-> None]
  /\ meant = [session \in Session |-> None]
  /\ login = [l \in Login |-> [key |-> None, pc |-> "new"]]
  /\ shown = [of |-> None, is |-> "idle"]
  /\ verdicts = [key \in Key |-> NoVerdict]
  /\ checking = [v \in Viewer |-> Nothing]
  /\ chats \in SUBSET Chat
  /\ own = [a \in Account |-> [is |-> None, of |-> {}]]

Policy == <<chats, own>>
Accounts == <<now, edits, env, meant, login, shown, verdicts, checking>>

--------------------------------------------------------------------------------
\* The policy: api_whitelist_add(), _remove() and _import().

List(a) == IF own[a].is = "own" THEN own[a].of ELSE chats
Effective(a) == List(a)

StartsEmpty(a) == own[a].of
Started(a) == List(a) \* an account's own list begins as a copy of everybody's

EditList(list) == chats' = list /\ UNCHANGED <<Accounts, own>>
EditOwnList(a, list) ==
  /\ own' = [own EXCEPT ![a] = [is |-> "own", of |-> list]]
  /\ UNCHANGED <<Accounts, chats>>

WhitelistAdd(chat) == EditList(chats \cup {chat})
WhitelistRemove(chat) == EditList(chats \ {chat})
AccountAdd(a, some) == EditOwnList(a, Started(a) \cup some)
AccountRemove(a, chat) == EditOwnList(a, Started(a) \ {chat})

--------------------------------------------------------------------------------
\* A login: api_auth_qr_start() and the task that waits for the scan.

QrStart(l, key) ==
  /\ login[l].pc = "new"
  /\ login' = [login EXCEPT ![l] = [key |-> key, pc |-> "waiting"]]
  /\ meant' = [meant EXCEPT ![l] = key]
  /\ shown' = [of |-> l, is |-> "waiting"]
  /\ UNCHANGED <<Policy, now, edits, env, verdicts, checking>>

\* _safe_write_env_key(), under the key the task was given.
KeyOfThePage(l) == login[shown.of].key
SavedUnder(l) == login[l].key

Scanned(l) ==
  /\ login[l].pc = "waiting"
  /\ env' = [env EXCEPT ![SavedUnder(l)] = l]
  /\ login' = [login EXCEPT ![l].pc = "saved"]
  /\ shown' = [of |-> l, is |-> "saved"]
  /\ UNCHANGED <<Policy, now, edits, meant, verdicts, checking>>

\* A code nobody scanned, and a login that failed, tell the page so.
Expires(l) ==
  /\ login[l].pc = "waiting"
  /\ login' = [login EXCEPT ![l].pc = "expired"]
  /\ shown' = [shown EXCEPT !.is = "expired"]
  /\ UNCHANGED <<Policy, now, edits, env, meant, verdicts, checking>>

--------------------------------------------------------------------------------
\* The accounts: api_account_edit() and api_account_remove().

Change == edits < MaxEdits /\ edits' = edits + 1
Forgets(keys) == [key \in Key |-> IF key \in keys THEN NoVerdict ELSE verdicts[key]]

Edit(old, new, given) ==
  LET session == IF given = None THEN env[old] ELSE given IN
  /\ Change /\ env[old] # None
  /\ env' = [env EXCEPT ![old] = IF new = old THEN @ ELSE None, ![new] = session]
  /\ meant' = [meant EXCEPT ![session] = new]
  /\ verdicts' = Forgets({old, new})
  /\ UNCHANGED <<Policy, now, login, shown, checking>>

Remove(key) ==
  /\ Change
  /\ env' = [env EXCEPT ![key] = None]
  /\ UNCHANGED <<Policy, now, meant, login, shown, verdicts, checking>>

\* _verify_all_accounts(): asks for what has no fresh verdict, and stamps the
\* answers with the time it began.
Fresh(key) == verdicts[key].of # None /\ now - verdicts[key].at < MaxAge

Verify(v, force) ==
  /\ checking[v].pc = "idle"
  /\ checking' = [checking EXCEPT ![v] =
       [pc |-> "asking", at |-> now,
        asked |-> [key \in Key |-> IF force \/ ~Fresh(key) THEN env[key] ELSE None]]]
  /\ UNCHANGED <<Policy, now, edits, env, meant, login, shown, verdicts>>

Answered(v) ==
  LET asked == checking[v].asked IN
  /\ checking[v].pc = "asking"
  /\ verdicts' = [key \in Key |-> IF asked[key] = None THEN verdicts[key]
                                  ELSE [of |-> asked[key], at |-> checking[v].at]]
  /\ checking' = [checking EXCEPT ![v] = Nothing]
  /\ UNCHANGED <<Policy, now, edits, env, meant, login, shown>>

Tick ==
  /\ now < MaxTime /\ now' = now + 1
  /\ UNCHANGED <<Policy, edits, env, meant, login, shown, verdicts, checking>>

Next ==
  \/ \E chat \in Chat : WhitelistAdd(chat) \/ WhitelistRemove(chat)
  \/ \E a \in Account : \/ \E some \in SUBSET Chat : AccountAdd(a, some)
                        \/ \E chat \in Chat : AccountRemove(a, chat)
  \/ \E l \in Login : (\E key \in Key : QrStart(l, key)) \/ Scanned(l) \/ Expires(l)
  \/ \E old, new \in Key, given \in Typed \cup {None} : Edit(old, new, given)
  \/ \E key \in Key : Remove(key)
  \/ \E v \in Viewer : (\E force \in BOOLEAN : Verify(v, force)) \/ Answered(v)
  \/ Tick

Spec == Init /\ [][Next]_panelVars

--------------------------------------------------------------------------------
\* A session is under the key its operator meant, however logins overlap.
SessionsStayWhereTheyWerePut == \A key \in Key : env[key] # None => meant[env[key]] = key

\* An edit of one account's list keeps what applied to the account before it:
\* it only adds, or it takes one chat away.
FirstEditKeepsTheList ==
  [][\A a \in Account : own'[a] # own[a] =>
       Effective(a) \subseteq own'[a].of \/ \E chat \in Chat : own'[a].of = Effective(a) \ {chat}]_panelVars

\* What the page says of the last login is the state of that login.
PageShowsTheLastLogin == shown.of # None => shown.is = login[shown.of].pc

\* A verdict the page would show is about the session the file holds.
VerdictIsOfTheSession == \A key \in Key : env[key] # None /\ Fresh(key) => verdicts[key].of = env[key]

--------------------------------------------------------------------------------
\* The invariant behind the first, while nothing is pasted: a session comes
\* into the file after its scan, under the key its task was started with.
KeysAreMeant ==
  /\ \A key \in Key : env[key] # None =>
       env[key] \in Login /\ login[env[key]].pc = "saved" /\ meant[env[key]] = key
  /\ \A l \in Login : login[l].pc = "waiting" => login[l].key \in Key /\ meant[l] = login[l].key

Inv == Stored /\ KeysAreMeant
=============================================================================

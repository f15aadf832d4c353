--------------------------- MODULE AccountReload ---------------------------
(***************************************************************************)
(* The life of an account: startup and shutdown (runner._main), hot reload *)
(* (connection.refresh_accounts), the transaction that brings a staged     *)
(* client into service (account_lifecycle.admit), the retirement of the    *)
(* clients it replaces (retirement.retire) and the tool calls that connect *)
(* a client on demand (reconnect.ensure_connected), over the lease store   *)
(* of Admission.                                                           *)
(*                                                                         *)
(* One action is one run of the event loop between two awaits.             *)
(*                                                                         *)
(* Abstractions.  The configuration file maps labels to sessions; the      *)
(* digest of a label is its session.  A client is built at most once, so   *)
(* the pool of clients bounds how many rebuilds a behaviour has.  Timeouts *)
(* have no clock: a wait that is bounded may end badly at any moment.  A   *)
(* disconnect that raises at once is one that never finishes, and `disc`   *)
(* follows the latest disconnect of a client.  The incoming-event listener *)
(* is on.  get_client() is called from the event loop.                     *)
(***************************************************************************)
EXTENDS Admission

CONSTANTS
  Call,              \* tool calls in flight at once
  Boot,              \* SUBSET Client: built from the file the process starts with
  MaxEdits,          \* bound: edits of the configuration file
  OverlappingReloads \* whether the file may change while a transaction runs

(* The file the process starts with passed reject_duplicate_sessions().    *)
ASSUME ReloadAssumption ==
  /\ Boot \subseteq Client
  /\ Boot # {}
  /\ \A c, d \in Boot :
       c # d => LabelOf[c] # LabelOf[d] /\ SessionOf[c] # SessionOf[d]
  /\ MaxEdits \in Nat
  /\ OverlappingReloads \in BOOLEAN
  /\ None \notin Session

VARIABLES
  phase,     \* of the process: starting, serving, stopping, stopped
  file,      \* [Label -> Session \cup {None}]: the configuration on disk
  edits,     \* number of edits so far
  seen,      \* the file's stamp is _env_stamp
  digests,   \* [Label -> Session \cup {None}]: _env_digests
  clients,   \* [Label -> Client \cup {None}]: the registry
  handler,   \* [Label -> Client \cup {None}]: events._incoming_handlers
  built,     \* SUBSET Client: clients constructed so far
  tx,        \* [Client -> TxState]: where the admission of a client is
  previous,  \* [Client -> Client \cup {None}]: Staged.previous
  batches,   \* reload transactions that have not settled
  activated, \* SUBSET Label: account_lifecycle._activated
  socket,    \* SUBSET Client: clients with a live connection
  disc,      \* [Client -> DiscState]: the latest disconnect of a client
  retired,   \* SUBSET Client: clients retire() was called for
  call,      \* [Call -> CallState]: ensure_connected() of a tool call
  overlapped \* a revision was applied over a transaction in flight

reloadVars == <<phase, file, edits, seen, digests, clients, handler, built, tx, previous,
                batches, activated, socket, disc, retired, call, overlapped>>
vars == <<admissionVars, reloadVars>>

TxState   == {"none", "claiming", "connecting", "authorizing", "active", "rejected"}
DiscState == {"none", "running", "done"}
CallState == [pc : {"idle", "called", "admitting", "reconnecting", "opening"},
              client : Client \cup {None}]
Idle      == [pc |-> "idle", client |-> None]
Config    == [Label -> Session \cup {None}]
Settled(c) == tx[c] \in {"active", "rejected"}

TypeOK ==
  /\ AdmissionTypeOK
  /\ phase \in {"starting", "serving", "stopping", "stopped"}
  /\ file \in Config /\ digests \in Config
  /\ edits \in 0..MaxEdits
  /\ seen \in BOOLEAN
  /\ clients \in [Label -> Client \cup {None}]
  /\ handler \in [Label -> Client \cup {None}]
  /\ built \in SUBSET Client
  /\ tx \in [Client -> TxState]
  /\ previous \in [Client -> Client \cup {None}]
  /\ batches \in SUBSET [members : SUBSET Client, digests : Config]
  /\ activated \in SUBSET Label
  /\ socket \in SUBSET Client
  /\ disc \in [Client -> DiscState]
  /\ retired \in SUBSET Client
  /\ call \in [Call -> CallState]
  /\ overlapped \in BOOLEAN

(* retire(): start the disconnect of each of cs and hand it back.          *)
Retire(cs) ==
  /\ disc' = [c \in Client |-> IF c \in cs THEN "running" ELSE disc[c]]
  /\ retired' = retired \cup cs

----------------------------------------------------------------------------
(* Reload. *)

(* The operator, or the account manager, rewrites the file.                *)
EditFile ==
  /\ phase = "serving"
  /\ edits < MaxEdits
  /\ OverlappingReloads \/ (seen /\ batches = {})
  /\ \E wanted \in Config : wanted # file /\ file' = wanted
  /\ seen' = FALSE
  /\ edits' = edits + 1
  /\ UNCHANGED <<admissionVars, phase, digests, clients, handler, built, tx, previous, batches,
                 activated, socket, disc, retired, call, overlapped>>

(* Definitions whose name says what they get wrong (RecordsDesired and the *)
(* like) are defects the checks must notice; no action uses them.          *)

(* record_activated(): the digest of the given labels moves to what this   *)
(* revision wants, and a label that is gone takes its digest with it.      *)
RecordsDesired(wanted, labels, registry) == wanted

Recorded(wanted, labels, registry) ==
  [l \in Label |->
     IF l \in labels /\ wanted[l] # None THEN wanted[l]
     ELSE IF registry[l] = None /\ wanted[l] = None THEN None
     ELSE digests[l]]

(* _replaced() *)
Replaced(l) == digests[l] # file[l]

Removed == {l \in Label : clients[l] # None /\ file[l] = None}
Staged  == {l \in Label : file[l] # None /\ (clients[l] = None \/ Replaced(l))}

(* What the rebuilt registry would connect: kept clients as they are.      *)
RebuiltSession(l) ==
  IF l \in Staged \/ file[l] = None THEN file[l] ELSE SessionOf[clients[l]]

(* NoAccountsConfigured, or reject_duplicate_sessions().                   *)
Unacceptable ==
  \/ \A l \in Label : file[l] = None
  \/ \E l, m \in Label : l # m /\ RebuiltSession(l) # None /\ RebuiltSession(l) = RebuiltSession(m)

(* One fresh client per staged label, built from the file's session.       *)
Builds ==
  {b \in [Staged -> Client \ built] :
     \A l \in Staged : LabelOf[b[l]] = l /\ SessionOf[b[l]] = file[l]}

(* The registry b leaves: removed labels go, a new label is published at   *)
(* once, a replacement is only staged.                                     *)
Registry(b) ==
  [l \in Label |-> IF l \in Removed THEN None
                   ELSE IF l \in Staged /\ clients[l] = None THEN b[l]
                   ELSE clients[l]]

(* New labels without a lease wait for admission, removed ones no longer.  *)
ServesUnadmitted(b) == [l \in Label |-> IF l \in Removed THEN None ELSE pending[l]]

AwaitingAfter(b) ==
  [l \in Label |-> IF l \in Removed THEN None
                   ELSE IF Registry(b)[l] # clients[l] /\ active[l] = None THEN b[l]
                   ELSE pending[l]]

(* refresh_accounts() applies the new revision b: removed clients retire   *)
(* and their leases follow the close, staged clients begin their           *)
(* transaction, and the listeners learn which labels changed.              *)
Apply(b) ==
  LET removed   == {clients[l] : l \in Removed}
      staged    == {b[l] : l \in Staged}
      replacing == {l \in Staged : clients[l] # None}
      serving   == {l \in Label : Registry(b)[l] # None}
  IN  /\ clients' = Registry(b)
      /\ RetireLeases(removed, removed)
      /\ Retire(removed)
      /\ digests' = Recorded(file, serving \ replacing, clients')
      /\ pending' = AwaitingAfter(b)
      /\ acq' = [h \in Handle |-> IF h[1] = "claim" /\ h[2] \in staged THEN "acquiring" ELSE acq[h]]
      /\ built' = built \cup staged
      /\ tx' = [c \in Client |-> IF c \in staged THEN "claiming" ELSE tx[c]]
      /\ previous' = [c \in Client |-> IF c \in staged THEN clients[LabelOf[c]] ELSE previous[c]]
      /\ activated' = activated \ Staged
      /\ batches' = IF staged = {} THEN batches
                    ELSE batches \cup {[members |-> staged, digests |-> file]}
      /\ handler' = [l \in Label |-> IF clients'[l] # clients[l] THEN clients'[l] ELSE handler[l]]

Reload ==
  /\ phase = "serving"
  /\ ~seen
  /\ seen' = TRUE
  /\ \/ /\ digests = file \/ Unacceptable
        /\ UNCHANGED <<admissionVars, digests, clients, handler, built, tx, previous, batches,
                       activated, disc, retired, overlapped>>
     \/ /\ digests # file /\ ~Unacceptable
        /\ \E b \in Builds : Apply(b)
        /\ overlapped' = (overlapped \/ batches # {})
        /\ UNCHANGED stopped
  /\ UNCHANGED <<phase, file, edits, socket, call>>

(* The done callback of the transaction: what REACHED the registry.        *)
SettleBatch(t) ==
  /\ \A c \in t.members : Settled(c)
  /\ batches' = batches \ {t}
  /\ digests' = Recorded(t.digests, activated, clients)
  /\ UNCHANGED <<admissionVars, phase, file, edits, seen, clients, handler, built, tx, previous,
                 activated, socket, disc, retired, call, overlapped>>

----------------------------------------------------------------------------
(* admit(): lease, connect, authorize, publish.  A client of the boot file *)
(* goes the same way under runner._connect_authorized_client().            *)

Advance(c, from, to) == tx[c] = from /\ tx' = [tx EXCEPT ![c] = to]

registryVars == <<phase, file, edits, seen, digests, built, previous, batches, call, overlapped>>

(* claim_session() returns.                                                *)
ClaimDone(c) ==
  /\ acq[<<"claim", c>>] = "published"
  /\ Advance(c, "claiming", "connecting")
  /\ ClaimReturns(c) \/ (pending[LabelOf[c]] # c /\ UNCHANGED admissionVars)
  /\ UNCHANGED <<registryVars, clients, handler, activated, socket, disc, retired>>

(* client.connect() returns.                                               *)
Connects(c) ==
  /\ Advance(c, "connecting", "authorizing")
  /\ socket' = socket \cup {c}
  /\ UNCHANGED <<admissionVars, registryVars, clients, handler, activated, disc, retired>>

(* The client an activation retires, if there is one.                      *)
ForgetsPredecessor(c) == {}

Predecessor(c) == {previous[c]} \ {None}

(* The session is authorized: the staged client becomes what its label     *)
(* means, and only then the previous one retires.                          *)
Activate(c) ==
  LET l    == LabelOf[c]
      gone == Predecessor(c)
  IN  /\ c \notin Boot
      /\ Advance(c, "authorizing", "active")
      /\ clients' = [clients EXCEPT ![l] = c]
      /\ activated' = activated \cup {l}
      /\ Retire(gone)
      /\ RetireLeases(gone, gone)
      /\ pending' = IF gone = {} THEN pending ELSE [pending EXCEPT ![l] = None]
      /\ UNCHANGED <<acq, stopped, registryVars, handler, socket>>

(* Every failure of admit() - the claim, the connect, the authorization or *)
(* the 60 s over them - retires the staged client, then its lease.         *)
Reject(c) ==
  /\ c \notin Boot
  /\ \/ tx[c] = "claiming" /\ acq[<<"claim", c>>] = "failed"
     \/ tx[c] \in {"connecting", "authorizing"}
  /\ tx' = [tx EXCEPT ![c] = "rejected"]
  /\ Retire({c})
  /\ Forget(c, TRUE)
  /\ UNCHANGED <<registryVars, clients, handler, activated, socket>>

(* The boot client is authorized: it is in the registry already.           *)
BootActivate(c) ==
  /\ c \in Boot
  /\ Advance(c, "authorizing", "active")
  /\ UNCHANGED <<admissionVars, registryVars, clients, handler, activated, socket, disc, retired>>

(* A boot client fails: no lease; a connect that timed out; an auth key    *)
(* burned by a second connection, closed before the lease is given back;   *)
(* or a session that is not authorized, which keeps its lease to the end.  *)
BootReject(c) ==
  /\ c \in Boot
  /\ tx' = [tx EXCEPT ![c] = "rejected"]
  /\ \/ /\ tx[c] = "claiming" /\ acq[<<"claim", c>>] = "failed"
        /\ UNCHANGED <<admissionVars, socket, disc, retired>>
     \/ /\ tx[c] \in {"connecting", "authorizing"}
        /\ Retire({c}) /\ Forget(c, TRUE) /\ UNCHANGED socket
     \/ /\ tx[c] = "connecting"
        /\ Forget(c, FALSE)
        /\ UNCHANGED <<socket, disc, retired>>
     \/ /\ tx[c] = "authorizing"
        /\ UNCHANGED <<admissionVars, socket, disc, retired>>
  /\ UNCHANGED <<registryVars, clients, handler, activated>>

(* gather() returned for every boot client: serve, or leave.               *)
BootDone ==
  /\ phase = "starting"
  /\ \A c \in Boot : Settled(c)
  /\ phase' = IF \A c \in Boot : tx[c] = "active" THEN "serving" ELSE "stopping"
  /\ UNCHANGED <<admissionVars, file, edits, seen, digests, clients, handler, built, tx, previous,
                 batches, activated, socket, disc, retired, call, overlapped>>

----------------------------------------------------------------------------
(* Closing sockets. *)

(* A disconnect completes.                                                 *)
Disconnects(c) ==
  /\ disc[c] = "running"
  /\ disc' = [disc EXCEPT ![c] = "done"]
  /\ socket' = socket \ {c}
  /\ UNCHANGED <<admissionVars, registryVars, tx, clients, handler, activated, retired>>

(* _release_when_closed() of a lease: the close it waits for finished, or  *)
(* its ten seconds did.                                                    *)
ReleaseConfirmed(h) ==
  /\ disc[ClientOf(h)] = "done"
  /\ CloseConfirmed(h)
  /\ UNCHANGED reloadVars

WaitsForTheClose(h) == FALSE /\ CloseUnconfirmed(h) /\ UNCHANGED reloadVars

ReleaseGivesUp(h) ==
  /\ disc[ClientOf(h)] = "running"
  /\ CloseUnconfirmed(h)
  /\ UNCHANGED reloadVars

----------------------------------------------------------------------------
(* A tool call. *)

(* get_client(): the registry is up to date with the file.                 *)
CallBegins(k) ==
  /\ phase = "serving" /\ seen
  /\ call[k] = Idle
  /\ \E l \in Label : /\ clients[l] # None
                       /\ call' = [call EXCEPT ![k] = [pc |-> "called", client |-> clients[l]]]
  /\ UNCHANGED <<admissionVars, phase, file, edits, seen, digests, clients, handler, built, tx,
                 previous, batches, activated, socket, disc, retired, overlapped>>

callUnchanged == <<phase, file, edits, seen, digests, clients, handler, built, tx, previous,
                   batches, activated, disc, retired, overlapped>>

(* ensure_connected() up to its first await: join or start the admission   *)
(* of a pending client, otherwise look at the connection; the probe may    *)
(* find it dead.                                                           *)
EnsureConnected(k) ==
  LET c == call[k].client IN
  /\ call[k].pc = "called"
  /\ IF pending[LabelOf[c]] = c
     THEN /\ call' = [call EXCEPT ![k].pc = "admitting"]
          /\ IF acq[<<"admit", c>>] \in {"acquiring", "acquired"}
             THEN UNCHANGED admissionVars ELSE StartAdmit(c)
     ELSE /\ \/ call' = [call EXCEPT ![k].pc = "reconnecting"]
             \/ c \in socket /\ call' = [call EXCEPT ![k] = Idle]
          /\ UNCHANGED admissionVars
  /\ UNCHANGED <<callUnchanged, socket>>

(* The admission the call waited for settled; a failure is the call's.     *)
AdmissionSettled(k) ==
  LET h == <<"admit", call[k].client>> IN
  /\ call[k].pc = "admitting"
  /\ \/ acq[h] = "published" /\ call' = [call EXCEPT ![k].pc = "reconnecting"]
     \/ acq[h] = "published" /\ call[k].client \in socket /\ call' = [call EXCEPT ![k] = Idle]
     \/ acq[h] = "failed" /\ call' = [call EXCEPT ![k] = Idle]
  /\ UNCHANGED <<callUnchanged, admissionVars, socket>>

(* _force_reconnect() under the lock that makes it one at a time for a     *)
(* client: another caller may have fixed the connection, or hold the lock  *)
(* past the deadline; otherwise the old connection goes.                   *)
ReconnectCloses(k) ==
  LET c == call[k].client IN
  /\ call[k].pc = "reconnecting"
  /\ \/ /\ c \in socket \/ \E k2 \in Call : call[k2] = [pc |-> "opening", client |-> c]
        /\ call' = [call EXCEPT ![k] = Idle]
        /\ UNCHANGED socket
     \/ /\ \A k2 \in Call : call[k2] # [pc |-> "opening", client |-> c]
        /\ call' = [call EXCEPT ![k].pc = "opening"]
        /\ socket' = socket \ {c}
  /\ UNCHANGED <<callUnchanged, admissionVars>>

(* ... and a new one comes up, or the deadline passes.                     *)
ReconnectOpens(k) ==
  /\ call[k].pc = "opening"
  /\ socket' \in {socket, socket \cup {call[k].client}}
  /\ call' = [call EXCEPT ![k] = Idle]
  /\ UNCHANGED <<callUnchanged, admissionVars>>

----------------------------------------------------------------------------
(* Shutdown. *)

(* The transport returned, and with it every tool call, or startup failed: *)
(* the finally block of _main asks every registered client to disconnect.  *)
Stop ==
  /\ phase \in {"serving", "stopping"}
  /\ phase' = "stopped"
  /\ disc' = [c \in Client |-> IF \E l \in Label : clients[l] = c THEN "running" ELSE disc[c]]
  /\ call' = [k \in Call |-> Idle]
  /\ UNCHANGED <<admissionVars, file, edits, seen, digests, clients, handler, built, tx, previous,
                 batches, activated, socket, retired, overlapped>>

(* Every drain before it is bounded, so release_all() runs whatever they   *)
(* found.                                                                  *)
StopReleases ==
  /\ phase = "stopped" /\ ~stopped
  /\ ReleaseAll
  /\ UNCHANGED reloadVars

----------------------------------------------------------------------------
BootClient(l) ==
  IF \E c \in Boot : LabelOf[c] = l THEN CHOOSE c \in Boot : LabelOf[c] = l ELSE None

Init ==
  /\ AdmissionInit
  /\ phase = "starting"
  /\ clients = [l \in Label |-> BootClient(l)]
  /\ handler = clients
  /\ file = [l \in Label |-> IF clients[l] = None THEN None ELSE SessionOf[clients[l]]]
  /\ digests = file
  /\ seen = TRUE
  /\ edits = 0
  /\ built = Boot
  /\ tx = [c \in Client |-> "none"]
  /\ previous = [c \in Client |-> None]
  /\ batches = {}
  /\ activated = {}
  /\ socket = {}
  /\ disc = [c \in Client |-> "none"]
  /\ retired = {}
  /\ call = [k \in Call |-> Idle]
  /\ overlapped = FALSE

(* The runner starts claiming the session of a boot client.                *)
BootClaims(c) ==
  /\ phase = "starting" /\ c \in Boot
  /\ Advance(c, "none", "claiming")
  /\ StartClaim(c)
  /\ UNCHANGED <<registryVars, clients, handler, activated, socket, disc, retired>>

(* Steps of the lease store that change nothing else.                      *)
LeaseStep ==
  /\ \/ \E h \in Handle : ThreadAcquires(h) \/ ThreadGivesUp(h)
     \/ \E c \in Client : ClaimResumes(c) \/ AdmitResumes(c)
     \/ \E s \in Session : OtherTakes(s) \/ OtherExits(s)
  /\ UNCHANGED reloadVars

Next ==
  \/ EditFile
  \/ Reload
  \/ \E t \in batches : SettleBatch(t)
  \/ \E c \in Client :
       \/ BootClaims(c)
       \/ BootActivate(c)
       \/ BootReject(c)
       \/ ClaimDone(c)
       \/ Connects(c)
       \/ Activate(c)
       \/ Reject(c)
       \/ Disconnects(c)
  \/ \E h \in Handle : ReleaseConfirmed(h) \/ ReleaseGivesUp(h)
  \/ \E k \in Call :
       \/ CallBegins(k)
       \/ EnsureConnected(k)
       \/ AdmissionSettled(k)
       \/ ReconnectCloses(k)
       \/ ReconnectOpens(k)
  \/ LeaseStep
  \/ BootDone
  \/ Stop
  \/ StopReleases

(* Threads and coroutines that can run do run, and every wait of a         *)
(* transaction, of a release and of the shutdown is bounded by a timeout.  *)
(* A disconnect is not: it may never return.                               *)
Fairness ==
  /\ \A h \in Handle :
       /\ WF_vars((ThreadAcquires(h) \/ ThreadGivesUp(h)) /\ UNCHANGED reloadVars)
       /\ WF_vars(ReleaseConfirmed(h) \/ ReleaseGivesUp(h))
  /\ \A c \in Client :
       /\ WF_vars((ClaimResumes(c) \/ AdmitResumes(c)) /\ UNCHANGED reloadVars)
       /\ WF_vars(ClaimDone(c) \/ Connects(c) \/ Activate(c) \/ Reject(c)
                  \/ BootClaims(c) \/ BootActivate(c) \/ BootReject(c))
  /\ WF_vars(BootDone)
  /\ WF_vars(\E t \in batches : SettleBatch(t))
  /\ WF_vars(StopReleases)

(* Tool calls keep coming, and each begins by looking at the file.         *)
CallsKeepComing == WF_vars(Reload)

Spec == Init /\ [][Next]_vars
FairSpec == Spec /\ Fairness
BusySpec == FairSpec /\ CallsKeepComing

----------------------------------------------------------------------------
(* Properties. *)

InFlight(c) == tx[c] \in {"claiming", "connecting", "authorizing"}
Leased(c)   == \E op \in Op : holder[SessionOf[c]] = <<op, c>>

(* A session belongs to one client of one process at a time, only that     *)
(* client connects it, and it changes hands only while nothing is          *)
(* connected: the whole of claim_session, admit, retire and forget against *)
(* ExclusiveSession.  The promise ends with the process: its connections   *)
(* are gone once shutdown begins.                                          *)
Exclusive == INSTANCE ExclusiveSession WITH
  Owner <- Client \cup {Other},
  owner <- [s \in Session |-> IF holder[s] \in Handle THEN ClientOf(holder[s]) ELSE holder[s]],
  live  <- IF phase = "stopped" THEN {} ELSE socket
SessionsAreExclusive == Exclusive!ExclusiveSpec

(* ... and, whatever revisions overlap and calls reconnect, of the part of *)
(* it that needs no order between them: the clients in service, which went *)
(* through their admission and were not retired since.                     *)
InService == {c \in socket \ retired : tx[c] \in {"authorizing", "active"}}
Serving == INSTANCE ExclusiveSession WITH
  Owner <- Client \cup {Other},
  owner <- [s \in Session |-> IF holder[s] \in Handle THEN ClientOf(holder[s]) ELSE holder[s]],
  live  <- IF phase = "stopped" THEN {} ELSE InService
ServiceIsExclusive == Serving!ExclusiveSpec

(* A client whose claim was granted keeps its session until it is retired  *)
(* or its admission fails: no forget() of another label, revision or call  *)
(* takes it away.                                                          *)
AdmittedClientsKeepTheirLeases ==
  phase # "stopped" => \A c \in Client \ retired :
    tx[c] \in {"connecting", "authorizing", "active"} => Leased(c)

(* What a label means while its replacement is admitted, and after one     *)
(* failed: the client that was serving, still in the registry, not retired *)
(* and still the owner of its session (account_lifecycle.admit, "Lease,    *)
(* connect, authorize, then publish - or leave everything as it was").     *)
ServingClientKeepsItsLease ==
  phase = "serving" =>
    \A l \in Label : LET c == clients[l] IN
      c # None /\ tx[c] = "active" => Leased(c) /\ c \notin retired

(* record_activated(): once no transaction is in flight, the digest a      *)
(* label is recorded with is the session it is served from, so the next    *)
(* reload compares the file with the truth.                                *)
DigestsAreServing ==
  batches = {} => \A l \in Label :
    clients[l] # None => digests[l] = SessionOf[clients[l]]

(* Nothing is left out of service with nobody to close it: a lease that    *)
(* retired and that no forget() has reached belongs to the client that     *)
(* still serves its label.                                                 *)
NoLeaseIsStranded ==
  \A h \in retiring : forgotten[h] = 0 => clients[LabelOfLease(h)] = ClientOf(h)

(* A client that was never retired is connected only while it holds its    *)
(* session, tool calls that reconnect it included, as long as no revision  *)
(* was applied over a transaction in flight.                               *)
ConnectedClientsAreLeased ==
  phase # "stopped" /\ ~overlapped => \A c \in socket \ retired : Leased(c)

(* Every staged account is admitted or rejected: no two admissions wait    *)
(* for each other for ever, whatever locks the labels swap.                *)
StagedAccountsSettle ==
  \A c \in Client : tx[c] = "claiming" ~> Settled(c)

(* The lease of a retired client is given back, or its release gave up on  *)
(* a disconnect that never returned, or the process stops.                 *)
RetiredLeasesSettle ==
  \A c \in Client :
    c \in retired ~> \/ ~Leased(c)
                     \/ \E op \in Op : GaveUp(<<op, c>>)
                     \/ phase = "stopped"

----------------------------------------------------------------------------
(* What the repository says and the code does not do.                      *)

(* A new account is published into the registry before it is admitted:     *)
(* "until then nothing has been served from an unlocked session"           *)
(* (admission.py:374).                                                     *)
NothingServedUnlocked ==
  phase = "serving" => \A l \in Label : clients[l] \in socket => Leased(clients[l])

(* "The client failed against its own lease" (admission.py:21) is over: no *)
(* acquire waits for a lock taken for the same client.                     *)
NeverAgainstItsOwnLease ==
  \A c \in Client : \A op, taken \in Op :
    acq[<<op, c>>] = "acquiring" => holder[SessionOf[c]] # <<taken, c>>

(* "Releasing first is the window another process needs to claim a session *)
(* this one is still connected to" (connection.py:452): a retired client   *)
(* is not connected without its lease.                                     *)
RetiredClientsStayDown ==
  phase = "serving" => \A c \in retired \cap socket : Leased(c)

(* Leases still waiting on a socket at shutdown "are being kept rather     *)
(* than released, because a socket that never confirmed it closed may      *)
(* still be connected" (runner.py:691), until this process has exited.     *)
UnconfirmedLeasesAreKept ==
  \A c \in socket \cap retired : Leased(c)

(* "previous is whatever that label currently means" (account_lifecycle.py:50),*)
(* until the staged client retires it.  A second revision applied meanwhile *)
(* stages another client over the same one, and removes or replaces it.     *)
PreviousIsCurrent ==
  \A c \in Client : InFlight(c) /\ previous[c] # None => clients[LabelOf[c]] = previous[c]

(* "A lock was published for a removed account" is what no admission may    *)
(* do: a label that names no client has no lease.                          *)
NoLeaseForARemovedAccount ==
  phase = "serving" => \A l \in Label : clients[l] = None => active[l] = None

(* Listeners are "told after every change to clients" (connection.py:332). *)
ListenersFollowTheRegistry ==
  \A l \in Label : handler[l] = clients[l]

(* "The failed account is never retried" is the defect that keeping the    *)
(* old digest was to remove (tests/test_config_transaction.py:78): a       *)
(* replacement that failed while the file still wants it is staged again.  *)
Wanted(c) == clients[LabelOf[c]] # c /\ file[LabelOf[c]] = SessionOf[c]
FailedReplacementIsRetried ==
  \A c \in Client :
    tx[c] = "rejected" /\ previous[c] # None
      ~> ~Wanted(c) \/ phase # "serving" \/ \E d \in Client \ {c} :
           LabelOf[d] = LabelOf[c] /\ SessionOf[d] = SessionOf[c] /\ d \in built
============================================================================

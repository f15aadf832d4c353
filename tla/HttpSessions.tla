----------------------------- MODULE HttpSessions ----------------------------
(***************************************************************************)
(* The sessions of the HTTP transport (runner._serve, _stateless_http,     *)
(* _recoverable_sessions): the 404 that tells a client the server was      *)
(* restarted and its list of tools is stale, and the way back from it.     *)
(* The library's session manager and the client are external: it makes a   *)
(* session for an initialize without an id, up to a number of sessions,    *)
(* serves an id it has and answers 404 to any other; the client keeps its  *)
(* id until it is given a new one.                                         *)
(*                                                                         *)
(* Abstractions.  A body has arrived or was cut; of what it says only the  *)
(* method is kept.                                                         *)
(***************************************************************************)
EXTENDS Integers, FiniteSets

CONSTANTS Client,
  MaxSessions, \* max_sessions of the library
  MaxIds,      \* sessions that are made
  MaxRuns      \* times the server is started

HttpSessionsAssumption == {MaxSessions, MaxIds, MaxRuns} \subseteq Nat

VARIABLES
  run,     \* which start of the server this is
  alive,   \* the sessions it has
  made,    \* how many ids were ever given, and in which run each
  client   \* the id each client has, the run whose tools it lists, and its request

httpVars == <<run, alive, made, client>>

NoId == 0
Fresh == [id |-> NoId, tools |-> 0, at |-> "none", method |-> "none", carries |-> NoId, reply |-> "none"]

TypeOK ==
  /\ run \in 1..MaxRuns /\ made \in 0..MaxIds /\ alive \subseteq 1..made
  /\ \A c \in Client :
       /\ client[c].id \in 0..made /\ client[c].tools \in 0..run
       /\ client[c].at \in {"none", "sent", "read"} /\ client[c].method \in {"none", "initialize", "call"}
       /\ client[c].reply \in {"none", "served", "404", "503", "lost"}

Init == run = 1 /\ alive = {} /\ made = 0 /\ client = [c \in Client |-> Fresh]

----------------------------------------------------------------------------
(* Definitions whose name says what they get wrong are defects the checks  *)
(* must notice; no action uses them.                                       *)

Becomes(c, record) == client' = [client EXCEPT ![c] = record]
Server == <<run, alive, made>>

Asks(c, method) ==
  /\ client[c].at = "none"
  /\ Becomes(c, [client[c] EXCEPT !.at = "sent", !.method = method, !.carries = client[c].id])
  /\ UNCHANGED Server
Begin(c) == client[c].id = NoId /\ Asks(c, "initialize")
Call(c) == client[c].id # NoId /\ client[c].reply # "404" /\ Asks(c, "call")

(* Who is told 404 initialises again, with the id it has.                  *)
ComeBack(c) == client[c].reply = "404" /\ Asks(c, "initialize")

(* An id on an initialize is dropped; every other request keeps its own.   *)
DropsIt(c) == NoId
KeepsIt(c) == client[c].carries
IdOfAnInitialize(c) == DropsIt(c)

Reads(c) ==
  /\ client[c].at = "sent"
  /\ Becomes(c, [client[c] EXCEPT !.at = "read",
                   !.carries = IF client[c].method = "initialize" THEN IdOfAnInitialize(c) ELSE @])
  /\ UNCHANGED Server

(* The client is gone before its body was whole: what came parses to       *)
(* nothing, and nobody hears the answer.                                   *)
Cut(c) ==
  /\ client[c].at = "sent" /\ Becomes(c, [client[c] EXCEPT !.at = "none", !.reply = "lost"])
  /\ UNCHANGED Server

AsTheEnvironmentSays == FALSE
ByDefault == TRUE
Stateless == AsTheEnvironmentSays

Answers(c, how) == Becomes(c, [client[c] EXCEPT !.at = "none", !.reply = how])
Creates(c) ==
  /\ client[c].at = "read" /\ client[c].method = "initialize" /\ client[c].carries = NoId
  /\ Cardinality(alive) < MaxSessions /\ made < MaxIds
  /\ made' = made + 1 /\ alive' = alive \cup {made + 1} /\ UNCHANGED run
  /\ Becomes(c, [client[c] EXCEPT !.at = "none", !.reply = "served", !.id = made + 1, !.tools = run])
Full(c) ==
  /\ client[c].at = "read" /\ client[c].method = "initialize" /\ client[c].carries = NoId
  /\ Cardinality(alive) >= MaxSessions /\ Answers(c, "503")
  /\ UNCHANGED Server
Serves(c) ==
  /\ client[c].at = "read" /\ (client[c].carries \in alive \/ (Stateless /\ client[c].carries # NoId))
  /\ Answers(c, "served")
  /\ UNCHANGED Server
NotFound(c) ==
  /\ client[c].at = "read" /\ client[c].carries \notin alive \cup {NoId} /\ ~Stateless
  /\ Answers(c, "404")
  /\ UNCHANGED Server

(* A client ends its session, or is started anew and leaves it.            *)
Delete(c) ==
  /\ client[c].at = "none" /\ client[c].id \in alive
  /\ alive' = alive \ {client[c].id} /\ Becomes(c, Fresh) /\ UNCHANGED <<run, made>>
Abandon(c) ==
  /\ client[c].at = "none" /\ client[c].id # NoId /\ Becomes(c, Fresh) /\ UNCHANGED Server

(* Requests in flight are lost with the server.                            *)
Restart ==
  /\ run < MaxRuns /\ run' = run + 1 /\ alive' = {} /\ UNCHANGED made
  /\ client' = [c \in Client |-> IF client[c].at = "none" THEN client[c]
                                 ELSE [client[c] EXCEPT !.at = "none", !.reply = "lost"]]

Next ==
  \/ Restart
  \/ \E c \in Client :
       \/ Begin(c) \/ Call(c) \/ ComeBack(c) \/ Reads(c) \/ Cut(c) \/ Creates(c)
       \/ Full(c) \/ Serves(c) \/ NotFound(c) \/ Delete(c) \/ Abandon(c)

(* The server goes on with what it was sent, and a client that was told    *)
(* 404 does what the protocol says.                                        *)
Fairness ==
  \A c \in Client :
    /\ WF_httpVars(Reads(c)) /\ WF_httpVars(Creates(c)) /\ WF_httpVars(Full(c)) /\ WF_httpVars(Serves(c))
    /\ WF_httpVars(NotFound(c)) /\ WF_httpVars(ComeBack(c))

Spec == Init /\ [][Next]_httpVars /\ Fairness

----------------------------------------------------------------------------
(* A call is served only to a client whose list of tools is of this run:   *)
(* the 404 of a lost session survives (_stateless_http).                   *)
ServedIsCurrent ==
  [][\A c \in Client : Serves(c) => client[c].tools = run]_httpVars

(* A client whose session was lost is in the end given a new one, or told  *)
(* that there are too many, unless it goes away itself or the connection   *)
(* or the server does (_recoverable_sessions); MaxIds bounds the model.    *)
LostSessionsComeBack ==
  \A c \in Client : client[c].reply = "404" ~> client[c].reply \in {"served", "503", "lost", "none"} \/ made = MaxIds

----------------------------------------------------------------------------
(* The types the proof needs, those of TypeOK and the fields it leaves to  *)
(* the actions.                                                            *)
Record ==
  [id : Nat, tools : Nat, at : {"none", "sent", "read"}, method : {"none", "initialize", "call"},
   carries : Nat, reply : {"none", "served", "404", "503", "lost"}]

(* Who has an id of this run's sessions, or carries one, listed this run's *)
(* tools: ids are given once, and a restart forgets them all.              *)
IdsAreOfThisRun ==
  \A c \in Client :
    /\ client[c].id \in alive => client[c].tools = run
    /\ client[c].at # "none" /\ client[c].carries \in alive => client[c].tools = run

IdsWereGiven ==
  /\ alive \subseteq 1..made
  /\ \A c \in Client : client[c].id <= made /\ client[c].carries <= made

Inv ==
  /\ run \in Nat /\ made \in Nat /\ client \in [Client -> Record]
  /\ IdsWereGiven /\ IdsAreOfThisRun
=============================================================================

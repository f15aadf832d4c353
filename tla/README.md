# A TLA+ verification of Safe-Telegram-MCP

Safe-Telegram-MCP is an MCP server over Telethon: an AI client calls tools, and
the tools act on one or several Telegram accounts.  Three things can go wrong
in it in ways a test hardly reaches.  The server holds what other actors want
too: sessions, accounts, consumers, child processes.  It keeps things in files
that other processes, tools and people write.  And it acts in chats in several
requests, each of which may fail or be overtaken, and then says what it did.
This project models these three, checks them with TLC and proves part with
TLAPS.

Paths below are under `src/telegram_mcp/` unless they start with `src/`.

## 1. The system

### Components, their state and what makes them right

| component | state | operations | correct when | module |
|---|---|---|---|---|
| session lease store, `admission.py`, `singleton.py` | dictionaries of leases; a flock per session | `claim_session`, `admit_if_pending`, `forget`, `release_all` | a lock held has an owner that gives it back; shutdown is final | `Admission` |
| registry and hot reload, `connection.py`, `account_lifecycle.py`; `retirement.py`, `reconnect.py`, `runner.py` | `clients`, `_env_digests`, `_activated`, listeners; retiring tasks | `refresh_accounts`, `admit`, `retire`, `ensure_connected`, startup, shutdown | a failed replacement changes nothing; one client per session; every retired lease goes | `AccountReload`, `ExclusiveSession` |
| reading of the account file, `account_snapshot.py`, `account_config.py` | stamp, digests, whether a file was ever read | `read_snapshot`, `_env_file` | what was seen is what is served | `AccountSnapshot` |
| HTTP sessions, `runner.py` | ids of the library's sessions | initialize, call, 404, 503 | a client of an earlier run is told to begin again | `HttpSessions` |
| feed consumer, `tools/feed_lifecycle.py` | `_task`, `_stopping`, `_settle_ms` | `enable`, `disable`, `start_now` | one consumer, always owned | `FeedLifecycle` |
| bursts and waiters, `tools/events.py`, `tools/events_store.py` | pending bursts, drop ledger, activity event | the handler, two waiting tools, the consumer loop | nothing lost silently, taken twice or slept through | `EventFeed` |
| feed file, `tools/events_store.py` | the file, one retained generation | append, `apply_retention` | bounded in size and age | `FeedFile` |
| dialog warm-up and peers, `dialog_warm.py`, `runtime.py` | one task per client, stamps | `warm_dialogs_once`, resolution, `cancel_warm` | one warm, owned by nobody who waits | `PeerLookup` |
| secret-chat managers, `secret_backend.py` | `_by_account`, `_verified_against`, `_closing` | `secret_manager`, `close_all` | one key store per account, flushed or named | `SecretManager` |
| secret chats, `tools/secret_*.py`, `secret_history.py` | the chat's timer; history in memory and on disk | timed send, delete, clear, copy | the owner's timer is put back; what was deleted stays deleted | `SecretChat` |
| gate of a call, `security.py`, `tool_budget.py`, `runtime.py` | policy, last request, lock | middleware, `enforce_rate_limit`, budget | requests are spaced; allowed calls are served | `ToolCalls` |
| session pool, `session_pool.py` | the claimed slot and its lock | `_acquire_session` | one process per slot | `SessionPool` |
| session files, `session_files.py` | legacy and managed files | adoption of a database with its sidecars | served only from private files | `SessionAdoption` |
| aliases, `alias_store.py`, `tools/contact_aliases.py` | one JSON file, a lock, a cache per process | read, set, delete | no update is lost | `AliasStore`, `AliasMap` |
| effects, `effect_catalog.py`, `tools/effects.py` | cache with generation and epoch | lookup, revalidation, full fetch | "not found" says how it knows | `EffectCatalog` |
| child processes, `visual/bounded_process.py` | process, two readers, three bounds | `run_bounded`, `run_cancellable` | every bound ends the process and its readers | `BoundedProcess` |
| previews, `media_preview.py`, `visual/*` | ledger of bytes, jobs, spooled files | share, decode, drain | bounded, shared, cleaned up | `Preview` |
| screen capture, `tools/visual.py`, `visual/capture*.py`, `visual/images.py` | a helper with handles of Windows, frames and their bytes | `get_telegram_screen`, `_region`, `_frames` | bounded, given back, each frame whole | `Capture` |
| roots and handles, `file_roots.py`, `handles.py`, `win_handles.py`, `tools/media.py` | allowed roots, held directories, reserved names | ask, judge, open, reserve, install, discard | what is held was judged; strangers keep their files | `FileRoots`, `Install` |
| owner-only files, `owner_only.py` | access lists | restrict, verify | "yes" means only the owner | `OwnerOnly` |
| deletions, `tools/messages_delete.py` | the chat | one, many, history | only the named go; told as it was | `Deletion` |
| scheduled messages, `tools/scheduled.py` | Telegram's queue | queue, edit, send, cancel | an edit keeps the rest of what it read; a passed date is refused | `ScheduledQueue` |
| folders, `tools/folders.py` | Telegram's folders, a lock per folder | create, add, remove, delete | no write drops another's, or brings back what was not deleted under it | `Folders` |
| buttons, `tools/buttons.py` | the keyboard, tokens | inspect, click | what was listed is pressed | `Buttons` |
| channel names, `tools/groups.py`, `tools/channel_admin.py` | public names | create, rename | every channel made is told of | `ChannelName` |
| memberships, `tools/groups.py`, `tools/invites.py`, `tools/invite_links.py` | members, links | invite, join, leave, links | replies are true | `Membership` |
| pages, `paging.py`, `tools/messages_read.py`, `tools/chats.py` | a list that changes | paged and one-shot reads | an end is an end | `Pages` |
| polls, `tools/polls.py`, `tools/messages_state.py` | the poll, votes | create, read, vote, close | closing changes nothing else | `Polls` |
| sends, `tools/messages.py`, `tools/media.py`, `media_send.py`, `media_album.py`, `tools/messages_relay.py` | the chat, an album | send, forward, copy | the caller's order, each file once | `Sends` |
| kept lists, `tools/quick_replies.py`, `tools/saved_gifs.py`, `tools/stickers.py` | replies, GIFs, packs, picker | add, edit, move, remove | others stay; replies tell the list | `KeptLists` |
| rights and privacy, `tools/admin_rights.py`, `tools/moderation.py`, `tools/profile_privacy.py` | rights, rules | promote, edit, demote, set, allow | granted or told as declined | `Rights` |
| disappearing media, `tools/ephemeral.py` | media that opens once | save, send with a timer | a saved file stays | `Disappearing` |
| web panel, `web_panel.py` | policy, `.env`, QR state, verdicts | edits, logins, checks | a session is under the key it was meant for | `WebPanel` |
| login and account manager, `src/session_string_generator.py`, `src/Manage-Accounts.ps1`, `src/account-manager/*` | `.env`, backups, keys | add, rename, remove, restore | no login is lost | `AccountFile` |
| guarded test run, `src/scripts/guarded_process.py` | job or group, known descendants | start, poll, terminate | nothing is left, no stranger is ended | `GuardedProcess` |

Which operations of each are modelled is under `components` in `PROJECT.json`;
section 6 says what is not modelled at all.

### How they interact

`refresh_accounts()` runs synchronously inside any tool call (`get_client`).  It
reads the account file, retires removed clients, passes their close to the lease
store (`forget`), publishes new accounts at once, and starts one `admit()` per
staged client.  `admit()` claims the lease, connects, authorizes and only then
puts the client into the registry and retires its predecessor.  Meanwhile tool
calls go on: they pass the gate, resolve their peer (which may warm the
dialogs), and `ensure_connected()` admits or reconnects the client they use.
Listeners of the registry move the incoming handlers to the accounts' clients.
The handlers record bursts, which waiting calls and the feed consumer take; the
consumer appends lines to the feed file.  A tool then acts in a chat, often in a
read, a check and a request with awaits between them.  `runner._main` undoes the
process in order, each step with a timeout.

Everything but locks, file writes and decodes runs on one event loop, so the
unit of interleaving is what happens between two awaits; a flock is taken in a
thread, and other processes take it too.

### What is hard

Work that comes back late (a lock from its thread, a handler from `get_sender`,
a close that times out), two coroutines that do one job, what was read before an
await and is used after it (`Staged.previous`, a folder, a keyboard, a queue), a
request whose answer is lost after it took effect, a file another process
replaces between the look and the read, and a shutdown that must go on whatever
hangs.  `PROJECT.json` lists each hazard at its line with the properties that
cover it.

## 2. The modules

Every module of section 1's table is a component with its state, `Init`, one
action per operation or step, and its properties.  Three of them compose with
others: `AccountReload` EXTENDS `Admission` and shares its leases, and is shown to
implement `ExclusiveSession` (one owner per session, connected by its owner only,
handed over only when nothing is connected); `AliasStore` implements `AliasMap`,
one map that every call changes at once.  `AccountReload` takes the reading of
the file as one step; `AccountSnapshot` opens that step.

An action is one run of the event loop between two awaits, one system call where
another process may come between, or one request to Telegram.  Telegram, the
child processes, the owner of a folder and the operator are external: their
actions do whatever they may do, within the named bounds.

Some modules hold definitions whose name says what they get wrong
(`ForgetsPredecessor`, `TrustsTheIds`): no action uses them.  They are plausible
bugs the properties are tested against; `mutants` in `PROJECT.json` names the
ones that are run, and the others were tried by hand in the same way, by putting
them in the place of the definition after them.

### How the modules are run

`MCAccountReload`, `MCEventFeed` and `FeedLifecycle` are run by themselves,
because their interleavings need the whole state space.  The other components do
not share state, so three modules gather them: `MCProcesses` (what one process
holds and must let go of), `MCFiles` (what is kept in files, decoded
or captured) and `MCChats` (what
the tools do in chats).  `part` is chosen at the start and only that component
moves; the others rest in one of their initial states.  This is a sum and not a
product: it checks every component completely within its bounds, and says
nothing of two of them together.  The properties of these modules are
conjunctions of the components' properties, named for what they have in common.

`MCProcesses`, `MCFiles` and `MCChats` are where these components are proved,
too: an instance there takes its bounds from the configuration, so that a
theorem about the instance is about every value of them.  Sends and pages, which
are only model-checked, are given theirs in the module, except for the names the
configuration already has.  `MCChats` extends `ChatRecords`, which
holds the instances, the inductive invariants and the lemmas of what Telegram
keeps as a record (the queue, folders, polls, kept lists, memberships and links,
rights); `MCChats` itself has the other parts, the specification, the properties
and the theorems.

### Admission and AccountReload

A `Handle`, the pair of the coroutine's kind (`claim` or `admit`) and its client,
stands for the task, for the `SessionLock` it takes and for the `_Lease` that
owns it.  `acq` is where the task is; `holder` who has each flock; `active`,
`retiring`, `pending` and `unreleased` are the module's dictionaries; `waiting`
counts the `_release_when_closed` tasks of a lease and `forgotten` the calls of
`forget()` that reached it, which only the properties and a bound use.

| action | code |
|---|---|
| `StartClaim`, `ThreadAcquires`, `ThreadGivesUp`, `ClaimResumes`, `ClaimReturns` | `claim_session` with its shielded owner task |
| `StartAdmit`, `AdmitResumes` | `_start_admission`, `_admit` |
| `Publish`, `Refuse` | `_publish`, `_drop` |
| `Forget`, `RetireLeases` | `forget`, for one client or for several at once |
| `CloseConfirmed`, `CloseUnconfirmed` | `_release_when_closed` |
| `ReleaseAll` | `release_all` |

`file`, `seen`, `digests` are the configuration, `_env_stamp` and `_env_digests`;
`tx` is where the admission of each client is; `disc` the latest disconnect of a
client, which may never end; `call` the tool calls.  `Reload` is
`refresh_accounts()` whole: unchanged digests, a refused revision, or `Apply`.
`Activate` and `Reject` are the two ends of `admit()`; `overlapped` records that a
revision was applied while a transaction was in flight; `SettleBatch` is the done
callback that records digests; `EnsureConnected`, `AdmissionSettled`,
`ReconnectCloses` and `ReconnectOpens` a tool call; `Stop` and `StopReleases` the
`finally` block.

### FeedLifecycle, EventFeed, FeedFile

`FeedLifecycle` has one action per await of `enable`, `disable` and
`_stop_current`, plus `StartNow` (the autostart from the handler) and the two
steps of the shutdown; neither takes the transition lock.  `EventFeed` has the
handler before and after `get_sender` (`Arrives`, `Records`, `Ignores`), one
action per turn of each loop (`Scan`, `FeedScans`), and the account changes with
what the listeners do about them (`Removes`, `Adds`) or are not told (`Swaps`,
which is what the code does when it replaces a client); `wired` is the login the
label's handler is attached to, which may lag behind `clients`.
`InnerTask` says whether `asyncio.wait_for` runs what it waits for in a task of
its own, as Python 3.11 does, the oldest version `src/pyproject.toml` allows.
`FeedFile` computes from the two files what a retention pass may leave
(`Passes`) and appends to that.

`Capture` follows one call through three programs: the tool, its half in this
process, and the helper, one action per call of Windows.  `Changes` is the user:
a window may be resized, minimised, opened or closed between any two of them.
`window` is what the enumeration saw (`WindowInfo`), which the later steps mix
with what they read anew; `taken` is how a frame was really taken, against what
its `meta` tells.  A `PrintWindow` that never returns leaves only `Stops`.

### Handles, saves, aliases and guarded runs

`FileRoots` separates the steps of `_open_judged()`: the verdict on the path, the
open of it by path, which follows links in every component but the last (`Found`),
the comparison of what was opened with what the path reaches (`Compare`), and the
second resolution (`ResolveAgain`), in the order the host has them (`binds`).
Between any two, a folder above may be redirected (`Redirect`) and put back
(`PutBack`).  `Install` has one action per system call of a save; the owner of the
folder puts files there and takes entries away between any two, and `between` says
what was put there in the moment between a test of a name and the act on it.
`AliasStore` moves an unreadable file aside (`LookAgain`) before it writes, so a
write that fails then leaves no file, which `AliasMap` calls giving up.  In
`GuardedProcess` the end of a run on Windows is the handles and the job
(`TerminateJob`) and then `taskkill /T` by number (`Taskkill`).

### The tools

A tool's module keeps a record per call: `pc` says which await it is at, what it
read is a field, and `says` or `told` is the reply.  The chat, list, queue or
link beside it is Telegram's, changed by the request of the call and by others.
A reply is checked against it (`RepliesTellTheList`, `DeletionIsToldAsItWas`), or
against ghost variables that only properties read (`removed`, `added`,
`early`, `cast`, `request.was`, `lacked`, `sent`, `meant`, `gone`).  A request may
take effect and its answer be lost: `lost` names the request of a call whose reply
has to tell of that.

## 3. The runs

Passing runs.

| run | question | bounds |
|---|---|---|
| `reload` | does a reload implement `ExclusiveSession`, leave a serving account alone, settle every staged account and let every retired lease go? | 2 labels, 4 clients on 2 sessions, 2 edits, each applied after the last transaction settled |
| `calls` | whatever overlaps, are the clients in service exclusive, and is nothing connected without a lease while no revision overlapped? | 3 clients on 2 labels and 2 sessions, 2 calls, 2 edits, the second also over the transaction of the first |
| `feed` | one owned consumer, reported as it is, no endless transition? | 2 calls, 2 settle periods, 3 tasks, reused |
| `bursts` | is anything lost, taken twice, mixed with another login's, kept for a removed account or slept through? | 2 labels and 3 clients, with and without hot replacement, 2 messages in 2 chats, a map of one burst, a call and the consumer |
| `bursts_heard` | are people heard while the feed is on? | hot replacement, Python 3.11's `wait_for`, a waiting call |
| `processes` | is what a process holds owned, ended and let go of at shutdown? | leases: 2 clients of one label on 2 sessions, a second process; managers: 2 accounts, 2 calls, 2 generations; a child with pipes of one chunk and two writes; a guarded run with 2 children and a stranger on both hosts, `taskkill` included; 2 HTTP clients, 2 sessions, 2 runs, 4 ids; a secret chat with one sender, one timer, two messages, a history of one and a restart |
| `files` | is what is kept in files complete, private, bounded and nobody else's loss? | feed file: ceiling 3, age 2, clock 8; 2 saves over 2 names and 2 files of the owner; 2 directories, 2 edits and 2 redirections, put back or not; 2 logins over 2 keys; 2 tools, 3 edits of the account file, and 3 changes of it under a reading; one directory with a file and 2 grants; 2 documents over 4 bytes; 2 processes, 2 aliases, 2 writes; 3 slots; 3 starts; 2 windows of which one changes once, 2 frames, a ceiling of 3 bytes |
| `chats` | do the tools do what the caller named, to nothing else, and say so? | 2 callers; see below |

Runs that find a disagreement between the code and what the repository says of
it; `findings` quotes the line for each.

| run | what TLC shows |
|---|---|
| `unlocked` | a hot-added client whose claim failed is connected without a lease by the next call |
| `gone` | a `.env` that is removed is read as one that never was, when another account comes from the environment |
| `quiz` | a quiz whose answers this account may see cannot be closed |
| `allowed` | in safe mode every call that names a chat raises, also for an allowed chat |

### Why these bounds

A lease story has a client, the one that replaces it and one on another label,
so two labels, two sessions and three or four clients contain each pair of
actors that share a session, a label or both.  Two edits let a removal or a
second replacement follow the first.  Two messages make a burst that grows, or
two bursts of which a map of one evicts the first; two logins of one label, used
in turn, let a handler come back for an account that is gone or belongs to
another client.  The feed file's ceiling of three records and an age of two leave
room for a file that is young but full, old but small, and both.

In `files` and `chats` two callers are every race of a pair: no operation looks
at more than one other.  A component gets a second element wherever a property
is about the difference (an account with another, a named message with an
unnamed one, a right that is withheld with one that is not), and a third where
order matters (slots, list items, files of an album, pages).  `chats` symmetrises
its two callers; no property of the run depends on which is which, and it has no
liveness property.

Some initial states are left out of `chats` to keep it within minutes, where
they differ from one that is kept by a name only: rights begin with every right
meaningful and `k1` held; polls have two options and are a quiz or of several
choices; the primary link is `k1`, and exports replace it exactly when nobody is
guarded; the first button is `b`.  The peer's window is one tick and its clock
two.  The queue of `chats` has two editors, one message and a clock of one, and no
recurring period: a period is one more field that an edit keeps or is given, and
the theorems of section 4 are about any periods and editors.  In `processes` a secret chat begins without a timer and has one call and two
messages with a history of one.  In `files` nobody pastes a session into the
panel (`Typed = {}`), so edits there move and remove sessions only.

`CHECK_DEADLOCK FALSE` is set where the program really stops: after
`release_all()`, after the shutdown of the consumer, when every message of the
bounded supply was handled, or when every call of a part was answered.

### What the environment may not do in the runs

These switches are constants of the modules.  A run leaves one off when the code
makes no promise there or the promise does not hold with it on; that something
is lost with it on is a fact about the code a reader should know, not an
assumption to forget.

| switch | off means | on, TLC shows |
|---|---|---|
| `AccountReload.OverlappingReloads` (on in `calls`) | an edit waits for the last transaction | in `reload`, where it is off: a staged client's predecessor is no longer what the label means (`PreviousIsCurrent`), a serving client loses its lease, the wrong digest is recorded, a claim outlives its account.  What holds with it on is proved (section 4) |
| `AccountFile.Overlap`, `.Backwards` | one tool edits at a time; the clock is not set back | a login overwritten by the other tool's lines; a backup that is pruned as the oldest |
| `AliasStore.CoarseClock` | two writes of one size have different stamps | a cached copy that is trusted though it is stale |
| `FileRoots.OptIn` | `TELEGRAM_ALLOW_SERVER_ROOTS_FALLBACK` is not set | nothing is lost: a client that lists no roots gets the server's, and both properties hold of those |
| `Preview.Unwinds` | (on) a cancelled worker ends within `CANCEL_DRAIN_SECONDS` | when off, a worker that outlives its call |
| `GuardedProcess.Readable` | (on) the start time of a stranger can be read | when off, a stranger with a reused parent id is ended |
| `KeptLists.Overlap` (`ListOverlap`) | one call at a time edits a kept list, and others do not while it is unsure | two callers both add a quick reply under one name and a reply tells of the other's message (`RepliesTellTheList`); that others' entries stay (`OthersStay`) needs no such thing |
| `Pages.Drifts` | nothing comes back or goes away under a walk | an item that moves across a page boundary is not seen |
| `SecretChat.Overlap`, `.LateTimer`, `.SameSecond` | one call moves the timer; a failed `set_ttl()` did nothing; copies begin in different seconds | with two calls, a timer restored to the other's and a copy with the other's bytes; with the second, a chat left armed and not told of; `DeletedStaysDeleted` and `ReportedSendIsRemembered` hold with all three on |
| `ToolCalls.Prompt` | (off) the loop may serve a timer late | the pacing holds either way |

### Disagreements found by hand

Each of these is a definition of its module.  It is in no run, because it does
not hold; to see the trace, put its name under `INVARIANTS` or `PROPERTIES` of a
configuration that gives the module the constants its composing module gives it,
or those the table names.

| definition | where | what happens |
|---|---|---|
| `Pages!NoMoreMeansAll` | `tools/messages_read.py:478,518` against `:513-515` | a page cut at its limit, of a search by sender and medium, says that nothing follows |
| `GuardedProcess!OwnCodeMeansGone` | `src/scripts/run_tests_guarded.py:236-242` against its docstring, `:16-19` | pytest's own code is returned though a child of it lives, where the group could not be learnt |
| `AccountFile!NewAccountStartsClean` | `src/Manage-Accounts.ps1:326-330` | keys that could not be removed wait for the next account of that label |
| `Membership!ExportsAreAsDescribed` | `tools/invite_links.py:123-125` against `tools/invites.py:141-146` | two tools describe one request differently, and one of them is wrong |
| `Disappearing!FetchedIsNotLost` | `tools/ephemeral.py:411-425` against `:303-316` | media is fetched, opened and then not saved |
| `PeerLookup!FalseMeansUnchanged` | `dialog_warm.py:105-106` | `False` while another call filled the cache |
| `ToolCalls!BudgetCoversTheCall` | `tool_budget.py:91-96` against `runtime.py:306-307` | with a budget below the delay (`Budget = 1`), a call waits in the guard longer than its budget |
| `ToolCalls!PolicyIsCurrent` | `src/README.md:50` | the panel saves, the server goes on with what it read once |
| `SessionAdoption!SidecarsFollowTheirDatabase` | `session_files.py:109-126` | a start that follows a half-way adoption serves the database without its sidecars |
| `SessionPool!RefusalMeansOthers` | `session_pool.py:128-137` | a process refuses because of its own lock on a slot it left |
| `FileRoots!RootsFollowTheFile` | `file_roots.py` | a root that was made after the file was read is not allowed until the file is touched |
| `WebPanel!PageShowsTheLastLogin`, `!VerdictIsOfTheSession` | `web_panel.py` | two logins share one state; a verdict outlives the session it was about |
| `SecretManager!HandedManagerIsCurrent` | `secret_backend.py:141` | a client replaced during the start is handed its predecessor's manager |
| `SecretChat!ArmedChatIsReported`, `!CopyCarriesItsSource`, `!ClearedStaysCleared`, `!HistoryIsInOrder` | `tools/secret_*.py`, `secret_history.py` | a restart between arming a timer and putting it back leaves the chat armed; two calls in one second (`SameSecond`) share a copy's name; a message arrives during the clearing; with two calls and `HistoryMax = 2`, sends are recorded in the order they return |
| `Capture!FramesAreOfOneWindow` | `visual/capture.py:507`, `tools/visual.py:420` | each frame of `get_telegram_frames` looks for its window anew; without a handle, the frames of two windows are returned under the name of the last one's |
| `Capture!RectangleIsOfThePicture` | `visual/capture.py:537` against `:532` | the client rectangle that is told was read after the picture was taken, and differs from it in size when the window was resized between |
| `Sends!FailuresSendNothing` | `media_album.py:45-62`, `tools/media.py` | a call that fails in the middle has sent some of its files; the exception drops their receipts, and the reply is the general error, which names none of them |
| `Install!NothingOfOthersIsLost` | `handles.py:496` against `:529-546` and `:557-562` | with `openat` a file put under the name between the test and the `renameat` is replaced; where directories are pinned the rename fails, and what is under the freed name is discarded |
| `FileRoots!HeldIsInside` | `handles.py:632` against `:649-657` | a folder above is redirected between the verdict and the open, and put back between the comparison and the second resolution: neither notices |
| `Admission!UnreleasedLeaseIsReported` | `admission.py` | a lease that outlives the shutdown may go unnamed |
| `AccountReload!NeverAgainstItsOwnLease`, `!RetiredClientsStayDown`, `!UnconfirmedLeasesAreKept`, `!ListenersFollowTheRegistry`, `!FailedReplacementIsRetried` | `admission.py`, `reconnect.py`, `connection.py` | both sides of one client lock its session; a call in flight reconnects a retired client; the shutdown releases what was kept on purpose; nobody is told of a replacement; it is not retried |
| `AccountReload!PreviousIsCurrent`, `!NoLeaseForARemovedAccount`, `!ServingClientKeepsItsLease`, `!DigestsAreServing` with `OverlappingReloads` | `account_lifecycle.py:50`, `admission.py`, `connection.py:567` | an account that is removed, or replaced twice, while its admission is in flight activates after all: it retires what is no longer its predecessor, its lease outlives it, its digest is recorded for the wrong one |
| `FeedLifecycle!NoConsumerBehindTheShutdown` | `tools/feed_lifecycle.py:144` | a message during the shutdown starts a consumer |
| `FeedFile!AgeRotationKeepsNothing` | `tools/events_store.py:294` | an age rotation keeps the generation it rotated |
| `EventFeed!PendingIsCurrent` with `HotSwap` | `tools/events.py:303-312` | a replaced login's bursts are handed to its successor, since nobody tells the listeners |
| `EventFeed!NoLostWakeup` with `InnerTask` | `tools/events.py:465` | on Python 3.11 a wake-up is lost between `clear()` and the inner task of `wait_for` |
| `Deletion!RejectedIsStillThere` | `tools/messages_delete.py:392` against `:387-391` | only a timeout counts as a lost answer; a connection that is lost after the deletion took effect is told as a rejection |
| `ChannelName!UnnamedIsPrivate` | `tools/groups.py:179-192` | a name whose answer was lost is the channel's, and the reply says it is private |
| `Membership!FailuresMakeNoChat` | `tools/groups.py:75-85` against `:120-124` | the group exists, the look at the dialogs fails, and the reply is that the creation failed |
| `Membership!InvitesAreCounted` | `tools/groups.py:587-595`, `:600-617` | N users are said to be invited from an answer that lists nobody by name, also with people whose settings kept them out |
| `Membership!AlreadyIsAMember` | `tools/invites.py:180-186` | a chat that is shown to whoever asks is told as one that was joined |
| `Polls!ReadingsAreFull` | `tools/polls.py:119-124` against `:57-63`, `:136` | a second answer without results leaves the minimal copy, and the reply has no votes of this account |
| `ScheduledQueue!OnlyTheGivenChanges`, `!DatesAreKept` | `tools/scheduled.py:267-279`, `:62-63` | between its read and its request an edit is overtaken by another, which it takes back; a date that passes between its check and the request delivers |
| `Rights!OthersRulesStay` | `tools/profile_privacy.py:205-208` | an exception another device added between the read and the write is dropped |
| `Folders!DeletedFoldersStayGone` | `tools/folders.py:7-13` against `:569-612` | deletion takes no lock: the write of a call that had read the folder brings it back, or replaces what got its id |

Smaller things of the same kind, met while modelling and not stated as
properties: `set_channel_username` reports a "previous" name read before its
check; the panel renames a key in two writes; the runner's truncated HTTP body is
answered to nobody; `get_pinned_messages` has no limit and `list_chats` filters
after its limit; repeated sends use a fresh `random_id`, so a retry after a lost
answer doubles; a read-back that is lost is told as a failure of the change;
privacy rules name one person by several spellings; two logs of one second
share a name; `forget(label, client=...)` drops the label's mark of a client that
waits for its claim whichever client it was called for (`admission.py:418`).

### Fairness

Threads and coroutines that can run do run, and every wait with a timeout ends:
`asyncio.timeout`, `asyncio.wait_for`, the grace of `SessionLock.acquire`, the
deadline of a child and of a guarded run, the bound of `close_all()`.  No
fairness is assumed of a disconnect, of a consumer that was cancelled, of a child
or a test that may hang, of another process or of the operator.  `_transition`
is an `asyncio.Lock`, first in, first out, which gives strong fairness to the
callers queuing for it.  An HTTP client that is told 404 initialises again, as
the protocol asks.  A chat gets quiet in the end (`EventFeed`), and a line that
is tried again and again is written in the end.

## 4. The proofs

All hold for every value of the constants under the named assumptions, which say
that model values are distinct, that bounds are numbers, and which switches of
section 3 a composing module leaves off.  In a module that is instantiated the
assumption is a definition (`BoundedProcessAssumption`); the composing module
assumes it of its instance, under a name (`FilesAssumption`,
`ProcessesAssumption`, `RecordsAssumption`, `ChatsAssumption`), so TLC
evaluates it.  In `Folders`, which is proved by itself, it is the hypothesis of
the two theorems.

**Leases** (`AccountReload_proofs`, part 1): `TypeCorrect`, `LocksHaveOwners`,
`ServingLeasesAreHeld`, `RetiringLeasesAreHeld`, `StopIsFinal`.  The safety
properties are not inductive: nothing in them says that the release left behind
by an earlier retirement belongs to a lease that no longer serves.
`AdmissionInv` adds it: a lease with a release in flight was forgotten, a
forgotten lease is not active, a lease belongs to a published coroutine, and an
acquired one holds its flock.  There is one lemma per action that moves a lease,
and one each for the actions that move only `acq` or only `pending`.

**Reload** (part 2): `ReloadTypeCorrect`, `AdmittedClientsAreLeased` and
`ConnectedMeansLeased`, for any edits at any time, overlapping ones included, and
any number of tool calls.  `OwnInv` is what overlap does not break, because it is
about a client and what it did itself: its claim is where its own transaction is
(`ClaimsFollowTx`), and its lease is forgotten only with a client that was retired
or rejected (`ForgottenIsRetired`).  Hence the first two.  `ReloadInv` adds what
holds of a label until a revision is applied over a transaction in flight: a
client on its way into service is the only one of its label and belongs to the
one transaction (`OneAtATime`), and whatever the registry, a call or a connection
holds is retired, or has its lease, or will be admitted by its first call
(`Covered`).  The third theorem says so of a behaviour, not of an environment:
`overlapped \/ ReloadInv` is inductive, and `ConnectedClientsAreLeased` is about
the time before the first overlap.  Nothing is claimed of what a label means, of
its digest or of its serving client once revisions overlap: `ServingClientKeepsItsLease`,
`DigestsAreServing`, `PreviousIsCurrent` and `NoLeaseForARemovedAccount` are
violated then, and the first two are model-checked without overlap only.

**Exclusive sessions** (part 3): `LifecycleIsExclusive`, a refinement of
`ExclusiveSession` for every value of the constants, overlapping edits and tool
calls included.  What implements it are the clients in service (`InService`:
admitted, and not retired since), because a call in flight may reconnect a client
after it was retired, when another owns its session; the stronger
`SessionsAreExclusive`, of everything that is connected, is model-checked without
calls and overlap.  The initial states map to initial states, and each action to a
claim, a connection, a disconnect, a release or a stutter (`StepTakes`,
`StepConnects`, `StepCloses`, `StepReleases`, `StepGivesBack`); on top of `OwnInv`
the argument needs only that a client in service holds the flock of its own
session (`LiveHolds`).

**Bursts** (`EventFeed_proofs`): `NoMessageIsLost`, `BurstsAreTruthful`,
`BurstsAreNotMixed`, `WakeupsAreLostInOnePlace`, `PendingStaysBounded`,
`FeedTypeCorrect`, for any number of accounts, chats, messages and waits, with
replacements the listeners are not told of and on every Python.  That every
message is accounted for is a partition (`Accounted`), and every step either moves
whole bursts out of the map (`LeavingIsAccounted`) or adds one message to one burst
(`RecordingIsAccounted`); the two lemmas carry the proof, and cardinalities come in
only at its end.
A burst is of the login its label's handler is attached to: a suspended handler
that is still current is the attached one (`LoginsAreInOrder`), also where the
registry was rewritten without telling the listeners.  What does not hold there is
that this is the login the label means now (`PendingIsCurrent`).  A waiter begins to
sleep over a burst it should look at in one place only, between the creation of the
inner task of `wait_for()` and its first step; where there is none (`~InnerTask`,
Python 3.12 and later) it never does, which the module adds as `WakeupsAreNotLost`.
That the map stays within its ceiling (`PendingIsBounded`) has no run of its own:
it is proved from `CeilingInv`, that no two bursts were last active at one moment
and none after the clock.  Those an eviction leaves all come after the oldest of
them (`OneIsTheOldest`), which stays only if fewer than `PendingMax` do.

**Consumer** (`FeedLifecycle`): `TypeCorrect`, `ThereIsOneConsumer`,
`ConsumersAreOwned`, `StateIsTold`.  `start_now` and the shutdown do not take
the lock, so the argument is not mutual exclusion: the invariant adds that who
stops waits for the stopping task, that one caller at a time is stopping, and
that a caller is never inside a stop while the autostart could still fire
(`AutostartIsSpent`), because any start has consumed it.

**Feed file** (`MCFiles`): `FeedTypes`, `DiskUse`, `RecentRecordsAreKept`,
`OldRecordsGo`.  What a pass leaves is room for a record or a recorded rotation
error, which is exactly what the refusal looks at, also after a restart that
forgot the error, because the pass comes first.

**Folders** (`Folders`): `AdditionsStay`, `FoldersStayThemselves`, deletions
included.  What a call read must still be there when it writes (`ReadIsCurrent`),
and two locks make it so: that of a folder keeps other additions and removals
away, that of the list keeps creations away.  A deletion takes neither; `gone`
records that one passed what a call had read, and only such a call may bring a
folder back or write over another.  It still writes every chat a reply said was
added to the folder it read (`FoundAreWhole`), so that no addition is lost.  A
folder is known by the number of its creation (`CreationsAreNumbered`), because an
id is used again.

The theorems of the three composing modules are about their properties as they
are run.  Each part keeps its own invariant (`Inv` of its module; all were
checked with TLC first), a step of another part leaves it as it is, and the last
step of a theorem puts the parts together.  The lemmas begin with every initial
state of the part (`PollsInit` with `V!Init`), also those `MCInit` leaves out.

**Processes** (`MCProcesses`): `ManagersStayKept`, `SecretsStayKept`,
`ChildrenStayDoneWith`, `ServedStaysCurrent`, for any accounts, callers, closers,
senders, children, strangers and clients.
- Managers: one runs at a time because the account's lock has one holder
  (`LockIsHeld`), because no manager is of a client yet to come
  (`ManagersAreOfTheirTime`), and because before the shutdown what runs is what is
  registered or in the hands of the holder (`WhatRunsIsRegistered`).  What the
  flush owes is known from what it popped (`FlushIsOfThePopped`).
- Secret chat: a call that has moved the timer is alone and knows the owner's
  (`TimerComesBack`), under the switches of the run (no overlap, no late timer, no
  two copies in a second).  A message number is of one sending, and the file
  lags behind the memory by what a call is about to write only
  (`HistoriesAreOfTheRecord`).
- Children: nothing is reaped before it is ended (`EndsAreInOrder`), and every
  byte written is kept, still in a pipe or counted as overflow
  (`OutputIsAccountedFor`); a group that was ended stays ended, because what lives on
  outside it starts nothing inside (`GroupIsEnded`); `taskkill` walks from pytest,
  which was in the job that was ended before it (`PytestIsGone`), so it ends no
  stranger whose number fits.
- HTTP: the ids alive were given in this run (`IdsAreOfThisRun`), and no id is
  given twice (`IdsWereGiven`).

**Files** (`MCFiles`): `HeldStaysInside`, `SavedFilesKeepTheirOwners`,
`PrivateIsKeptPrivate`, `AccountsStayAsWritten`, `NothingAskedForIsLost`,
`AliasFileIsAMap`, `PicturesStayWhole`, for any number of requests, directories,
calls, accounts, threads, processes, documents and windows.
- Roots: a directory may be redirected, and put back, at any time, so the verdict
  about a path proves nothing of what is opened by it.  After the open either the
  held directory is the judged one or the path says that it leads elsewhere, until
  it is put back (`HandlesAreJudged`), and the comparison or the second resolution
  notices.  `late` marks the one exception, a path that is put back between the
  two; there `HeldIsInside` fails.
- Saved files: a placeholder belongs to the one call that holds its name
  (`PlaceholdersAreHeld`, `HoldsItsOwn`).  The owner of the folder acts at any time,
  also between a call's test of a name and its act; what is lost of his files was
  put there in that moment (`between`), and nothing else ever is.
- Owner-only files: a directory that was answered for is sealed (`DirIsSealed`),
  and a file in it either takes what the directory passes on or has its own list
  (`FilesFollowTheirDir`, `AnsweredFilesKeepTheirOwn`).
- Pool and adoption: a process serves the slot it claimed and has that slot's lock
  (`ClaimsAreHeld`); a database is there exactly if it came from somewhere.
- Account file: the tools edit in turn and the clock is not set back, so the
  backup an edit names is the newest (`TakenInTime`, `IsKept`) and what it will
  write differs from the file in what it was asked only (`StillAsAsked`).  It
  takes a bound of the world, two edits in one second: the code numbers the backups
  of a second by those it finds, and a pruned one's number is free again.
- Server: what serves has the digests last recorded, and a reading on its way is
  of a whole file or of none.
- Aliases: `AliasStore` implements `AliasMap`, step by step.  A call that writes
  holds the lock from its first look to its save (`WritersHoldTheLock`), so what
  it changes is what the file says, and only it has an unreadable file moved aside
  (`AsideIsOfAWriter`); if its write then fails the map is given up, a step of
  `AliasMap` that is possible after damage only.  A stamp names one content
  (`StampsAreOfTheirTime`), which the switch `CoarseClock` takes away.
- Previews: what is reserved is the sum of what the decodes under way were
  promised, what is spent the sum of what was handed over, and together they are
  at most a share for each document that had its turn (`LedgerIsOfTheItems`), so
  the next one still has its own.  No sum is known by a step alone: the module
  proves first that a sum over a finite set can be taken in any order
  (`SumTakesAny`), changes by its one term that changed (`SumChanges`) and grows by
  a term that is added (`SumAdds`).  Induction on data being out of reach, each of
  these takes a least set on which the claim fails, which inclusion of finite
  sets allows (`Least`).
- Captures: a picture that is worked on was small enough when it was made, was read
  to its end, and is flat only if it is about to be refused or taken again
  (`PicturesAreFit`); the frames so far lie in the payload one behind the other,
  and an offset is the sum of the lengths before it (`FramesLieInTheReply`).

**Chats** (`MCChats`, `ChatRecords`): `CallsStayGated`, `OthersStayAlone`,
`RepliesStayTrue`, `RepliesTellWhatIs`, `TheNamedIsMeant`, for any callers,
messages, buttons, folders, options, items, people, links and bounds.  The last
two have two hypotheses: `PollLag <= PollMargin`, a poll's request is on its way no
longer than the margin `tools/messages_state.py` leaves for it, and `~ListOverlap`,
one call at a time edits a kept list.
- Gate: who sleeps holds the lock, so the last request has not moved when it goes
  on (`SleeperHoldsTheLock`).  A press on its way was checked by this process, and
  a restart drops it.
- Queue, lists, links, rights: what a call is about to send is what its caller named
  over what it read (`EditIsOfItsRead`, `SendsWhatIsNamed`), whoever else edits
  meanwhile.  So an edit keeps the rest of a message that is still as it was read,
  and rules are sent over those that were seen; that nothing changed in between is
  not promised (`OnlyTheGivenChanges`, `OthersRulesStay`).  A row or a picker never
  exceeds its cap, and a link about to be made does not exist.
- Polls: what a reply tells of the votes is in the copy it was made of; if a first
  answer was minimal and the second carries no results, it tells of no vote, which
  `ReadingsAreFull` denies.  Options a
  closing call sends are those it read.  A date was far enough ahead when it was
  accepted, and is ahead by the margin less the time its request has taken.
- Deletion: what is still to be asked for and what was asked for are apart, what was
  told as gone is gone, and what is gone is told as gone, as unknown or as the one
  request that ended in an error.
- Channel names and made chats: a channel exists exactly if its call made it, and
  its reply tells of it unless the answer of that very request was lost; a group
  exists if it was told of, or if its creation, or the look at the dialogs after
  it, went unanswered.
- Timers and saved media: a message that was sent keeps its timer; a reserved name
  has one call.
- Effects: a catalogue that is newer than the one a call has seen lacks only what
  Telegram lacked during that call.
- Warm-up: the registered task is the only one running.

Answers may be lost after the request took effect, others may edit a queue, a
folder, a poll or the rules between a read and a write, and dates may pass.  What
of the code's own claims does not survive that is in the table of section 3.

Only model-checked:
- the liveness properties (fairness and ENABLED are out of the prover's reach):
  `StagedAccountsSettle`, `RetiredLeasesSettle`, `EveryTransitionEnds`,
  `PeopleAreHeard`, `StopFreesEverySession`, `EverythingEnds`;
- `NothingIsSkipped`: pages, albums and captions are sifted and cut by `SelectSeq`
  and folds over sequences, whose recursion the prover cannot open.

## 5. Hazards

`PROJECT.json` lists forty, at the line where each bites.  The mutants of a
property change the definition of the code that the hazard is about: the folder's
lock, the second look of a manager, the drain of a preview, the order of a
rename.

## 6. Not modelled

- `transfer_lease()`: a reload stages only new clients, so there is no lease to
  move.  `get_client()` outside an event loop, the cancellation of a claim still
  in its thread, and proxy settings.
- Message views, entities, sanitising and untrusted text
  (`message_view.py`, `text_fidelity.py`, `sanitize.py`): stateless translations
  of strings, which the tests compare.
- The tools that are one request or one listing (`tools/stories.py`,
  `tools/topics.py`, `tools/contacts.py` and the like): no second step.
- Image decoding and the declarations of Windows calls (`visual/pillow_worker.py`,
  `visual/lottie_worker.py`, `visual/winapi.py`): their lifetime is
  `BoundedProcess`, their budgets `Preview`.  The list of Telegram's windows as a
  tool of its own.
- Logging, settings and installation; developers' scripts that are not the
  guarded runner.
- The composition of a tool with the hot reload: a tool call of `MCChats` keeps
  its client, and what happens to a client under a call is `AccountReload`.

## 7. Plan

1. Proofs: the order of `Sends` and the cuts of `Pages`, with sequences in the
   place of folds.
2. `AccountReload` opened at the reading of the file, with `AccountSnapshot`; a
   tool of `MCChats` over a client that is replaced under it.

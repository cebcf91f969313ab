# dos-arch in TLA+

A model, checked with TLC and proved about with TLAPS, of dos-arch: of what its
processes, threads and requests do to the SQLite files they share, and of what they
promise one another. Paths below are relative to `src/`; `DL` is
`shell_core/services/dispatch_live.py`, `SH` is `shell_core/api/routers/shells.py`.

## 1. The system

dos-arch keeps *shells* (assistants with an identity, tools and a chat) in one SQLite
database; a broker keeps credentials and secrets in another. The parts, what state each
keeps, and how they meet:

| Part | State | Operations | Meets the others through |
| --- | --- | --- | --- |
| Chat routes (`SH`, `admin.py`) | `chat_messages`, `chat_sessions`, `shells.browser_chat` | post, reply, open / clear / delete sessions, switch model, activate a shell | rows that the dispatcher polls; the reply route the dispatcher calls |
| Dispatcher (`DL`) | threads, pools, `in_flight` sets, a lock file; `turn_in_flight_*` columns | supervise, poll, run a turn, stop, restart | reads rows directly, calls `session-start` and `chat/reply` over HTTP |
| A turn and the adapters (`services/providers`) | the messages of one turn | format a request, retry, call tools, post | the provider's API; what the dispatcher posts |
| Boot documents (`api/services/boot_document.py`, `shell_render.py`) | `chat_sessions.boot_document` | render on writes of identity, on opening a session, on a model switch; lazily on read | written by routes, read once per turn |
| Flags (`api/routers/flags.py`) | `flags` rows with parent links; the view `flag_schedule` | create, attach, detach, date, delete with re-parenting | the view walks the links |
| Accounts (`routers/auth.py`, `routers/admin.py`, `broker/auth_store.py`) | `users`; the broker's `auth_users` | login in steps, enrolment, creation, recovery, the flag of admins | two databases that agree by calls |
| Sign-in (`routers/auth.py`, `common/sessions.py`) | `auth_events`, `sessions` | backoff, sliding expiry, logout | every request carries a session |
| Access (`api/main.py`, `common/auth.py`, `ensure_api_keys.py`) | owners, chat targets and keys of `shells` | resolve a caller, gates, mint, rotate, assign, toggle | every route; turns carry a key |
| Secrets (`broker/secrets_store.py`, `broker.py`) | `secrets`, the key file, a cache | set, read through the cache, rotate the key | provider calls pass through the broker; seeds of one-time codes are sealed too |
| Model registry (`scripts/*_model_sync.py`, `routers/models.py`) | `models` | watch and sync Ollama, refresh remote catalogues, change by hand | the dispatcher resolves models |
| Schema (`scripts/bootstrap.py`, `migrate.py`) | the database, `schema_migrations` | create, stamp, seed, migrate | everything, at start |
| Catalogue (`scripts/dr_sync.py`) | `dr_*` tables | scan ten targets, upsert, retire | lists the tables the schema has |
| Skills and tools (`scripts/db_init.py`, `SH`, `admin.py`) | `skills`, `shell_skills`, `shell_tools`, `skill_tools` | seed, attach, assign | a turn may call what its shell was granted |
| Tool executors, UI, installation | none that others read | input and output | a turn of the dispatcher |

What is hard in this code, and to test:

* **Threads and processes.** Each browser-chat shell has a polling thread with a
  pool of workers; a supervisor starts and stops them; SIGTERM, kill and pm2's
  restart come at any time; all of them and the API's threads write the same rows.
* **Read, then write.** A `SELECT` outside a transaction commits by itself, so a
  handler that validates and then writes has a gap (flags, session PATCH, lazy boot
  documents, `fetch` and `in_flight`, the last admin, the chat target, the backoff,
  the rotation of the key).
* **Calls that fail.** The reply call is retried; it may have committed. A request on
  admins' pages writes in two stores and can be lost between them.
* **Two copies of one fact.** A boot document repeats identity, tools and model; a
  marker repeats which turn runs; broker and application both know who is enrolled; a
  key is kept in clear and as a hash; the broker's cache repeats a secret; the registry
  repeats what Ollama has.
* **Restarts in the middle.** Bootstrap commits in steps, migrations one by one.

What makes each part correct: messages of a session are answered one at a time, in
order, none lost and none settled twice; a marker tells the truth; no turn blocks its
session for ever; parent links stay a forest of live flags that the schedule reaches
completely; a document tells what the rows tell; a code opens one session, and the two
stores agree on who exists; guesses are paced; a key reaches what its shell may reach;
no secret becomes unreadable; what users chose about models stays chosen; a migration
takes effect once and in order; the catalogue comes to list what is there.
`PROJECT.json` lists every hazard at its line, with the properties that would catch it.

## 2. The modules

| Module | Models | Used by |
| --- | --- | --- |
| `Chat` | the chat tables and the routes that write them | extended by `Dispatcher` |
| `Dispatcher` | supervisor, polling threads, pools, turns, shutdown, crash, retries | `MCDispatcher` (also for `liveness`) |
| `Mailbox` | abstract: what becomes of a user's message | `Dispatcher` (`Box == INSTANCE Mailbox WITH ...`) |
| `Turn` | the tool loop inside one turn, and the formats of the providers | run by itself |
| `FlagTree` | the requests on flags and their parent links | `MCFlagTree` |
| `BootDocument` | who renders, overwrites and reads a session's system prompt | `MCBootDocument` |
| `Credentials` | the broker's store of accounts | extended by `Accounts` |
| `Accounts` | users and accounts over two stores | `MCAccounts` |
| `SignIn` | the backoff and sliding sessions | `MCSignIn` |
| `ShellAccess` | callers, gates, owners, targets and keys | `MCShellAccess` |
| `Vault` | the sealed store, its cache and the rotation of its key | `MCVault` |
| `ModelRegistry` | who writes the registry of models | `MCModelRegistry` |
| `Schema` | bootstrap and migrations | extended by `Startup` |
| `Catalogue` | the runs of `dr_sync` | extended by `Startup` |
| `Startup` | schema and catalogue together, with a checkout that changes | `MCStartup` |
| `Grants` | skills and tools of shells | `MCGrants` |
| `DispatcherProofs` (of `Chat` too), `BootDocumentProofs`, `FlagTreeProofs`, `AccountsProofs`, `SignInProofs`, `AccessProofs`, `VaultProofs`, `StartupProofs` (of `Schema` and `ModelRegistry`) | theorems | |

### Chat and Dispatcher

A route body is one write transaction of SQLite and one action. `messages` is the
table in `message_id` order; `kind` splits the outbound rows into a model's replies
and the notices the API itself writes. Bodies and token counts are left out: a turn
reaches one of three levels (below the warning, above it, above the auto-clear).

A step of `Dispatcher` is one transaction, one region under the loop's lock, or one
HTTP call:

| Action | Code |
| --- | --- |
| `Start`, `Exit`, `Kill`, `Sigterm` | `main`'s lock, interpreter exit after `sys.exit`, a kill at any point, `_on_sigterm` |
| `Leave`, `Join` | a supervisor pass, shell by shell; `Join` also clears stale markers |
| `Fetch`, `Submit`, `Halt`, `LoopEnds` | one round of `shell_loop`: read unread rows, pick under the lock, see the stop event, `pool.shutdown(wait=True)` |
| `TurnStart`, `TurnStartFails` | first write of `_run_turn` (the marker), or its failure on a busy database |
| `Skip`, `Load` | the history test of `process_inbound` (answered already, or on to the model) |
| `PostReply`, `PostReplyLost`, `PostFails` | the reply call: done; done but the answer lost; not done. `AfterFailedCall`: `_request` tries again while it has tries left, or gives up at any try (only 429, 503 and connection errors are retried); the message is then left unread |
| `TurnRaises`, `HandlerFails` | an exception before the reply, whose handler marks the message read, or fails to |
| `ClearMarker`, `ClearMarkerFails`, `Release` | the two `finally` parts of `_run_turn`; the write of the first may fail, and the marker stays |

A fetched set is kept in the thread and may be stale by the time it is used, as in the
code. The tool loop of a turn is the time between `Load` and its reply call. `uncleared`
is history: the sessions whose last turn could not clear its marker, until their next turn
or the next joining of their shell.

`Mailbox` knows only waiting, settled and withdrawn messages. `BoxOf` maps rows to it:
read is settled, deleted and unread is withdrawn. A clear during a turn withdraws its
message, and the reply may still settle it; nothing ever waits again.

### FlagTree

A request is opened by reading its flag (`Begin...`), may look up a parent
(`ValidateParent`) and walk up from it (`CheckNoCycle`), and then commits in one
transaction (`Create`, `Attach`, `Detach`, `SetStartDate`, `Delete`). Other requests
come between these reads and the commit. The recursive queries are written as
quantified sets: a flag is in the chain from `p` if every set that contains `p` and is
closed under parents contains it. `raced` is history: a commit has outdated a
validation that was then written. The race is possible in the code and in the model; the
invariants leave out a tree in which it has happened, and say that nothing else does
harm.

### BootDocument

A document is the record of what it was rendered from: identity and model.
`WriteIdentity` stands for the PATCH of a shell and for writes of identity entries and
decisions, which render again every active session. `PatchReads`/`PatchWrites` are the
two halves of PATCH `sessions/{id}`: the old model is read before the transaction.
`SessionStart` and `LazyWrite` are the halves of a lazy rendering. A rendering is one
reading here: on every route but this one the code renders inside its transaction, and a
lazy rendering whose queries straddle a write differs from the rows when it is written, so
it is `torn` like a stale one. A session is pinned to a model or to none (`NoModel`, the
column NULL); `TurnLoads` resolves none to `DefaultModel` (`DISPATCH_MODEL`), while a
document of such a session names no model. Two history fields name the races that the
code loses: `torn` (a document was written, or left, by a request whose reading was stale)
and `moved` (the session's model changed after a turn had loaded it, or the turn was given
a torn document). Grants of skills and tools render nothing and are left out.

### Turn

One turn between the history it loads and the reply it posts: `Begin` builds the history
from the rows in the window, `Send` formats a request for the model's provider
(`AnthropicMessages`, `OpenAIMessages`, `OllamaMessages`, `CloudMessages`), `CallFails` and
`CallRefused` are its retries and its end, `Answer` normalizes the reason to stop and
either appends the call of tools with its results, up to `MaxToolIter` rounds, or posts.
A message is its role, its calls and results, and its length; only Ollama's adapter
trims, and that is where the property bites.

### Credentials and Accounts

The broker is one event loop whose handlers run to their end, so each of its handlers is
an operator that `Accounts` uses as part of one step. A request of the application is a
record with a place (`pc`); every call of the broker and every transaction is a step:
`LoginVerify`, `LoginLookup`, `LoginStage` (no code yet: enrolment begins),
`LoginCodeOk` / `LoginCodeBad`, `LoginMirror`, `LoginMint`; `NewCredential` then
`CreateRow` or `ProvisionRow`; `ResetBroker` then `ResetRow`; `AdminStart` then
`AdminWrite`. `Lost` drops a request between two steps, `ResetTorn` kills the broker
between the two commits of its one handler that has two. Two histories name what the code
cannot exclude: `strayed` (the mirror of an account was left by a lost or overlapping
request) and `vied` (two changes of the flag of admins have overlapped).

### SignIn

Times are seconds, scaled down (`Base`, `Cap`, `Window`, `Ttl`, `RenewAfter`). The backoff
is computed from the rows of `auth_events` as the code does: failures since the last
success and within the window, the newest one setting the start of the wait. The
gate, the broker's answer and the audit row are steps of their own, so logins of one email
overtake each other. `UseSession` renews an expiry only when the last renewal is old.

### ShellAccess

`Resolved` is the middleware: a session, a key, both or neither become a caller. The
gates are operators of a caller and a shell. `CreateShell` inserts a shell without the chat
flag, `CreateUser` a user with a first shell that is their chat target. `ToggleRead` /
`ToggleWrite` are the halves of the toggle of the chat target, `EnsureRead` / `EnsureMint` /
`EnsureLost` those of `ensure_keys`; a turn (`TurnBegin`, `TurnEnd`) carries the key it
began with. `strayed` is history: the users who were handed a second chat target, by an
assignment or by a toggle that an assignment overtook, until an activation or a toggle of a
shell of theirs.

### Vault

An envelope is three numbers: the data key it is sealed under, the data key that is
wrapped, and the key-encryption key it is wrapped under; it opens if they match. Whoever
seals loads the key file first and commits later: `BrokerLoads` and then `AdminSet` or
`EnrollSeed` (`held` is what the handler has loaded, `SealFails` a busy database), `CliLoads`
and then `CliSet`, or `ImportCheck` / `ImportSet` name by name under the one key file the run
has loaded (`runs`); `CliEnds` is the end of a run, or its death. `RotateRead` /
`RotateWrite` / `RotateAbort` / `Swap` are the rotation, with the operator who moves the key
files. `crossed` is history: the rows a swap came across, which are those set while the
rotation was under way, those sealed after the swap under a key file loaded before it, and
the seeds the rotation passes over. A row leaves it when it is set again.

### ModelRegistry

`WatchTick` compares, `WatchSync` asks again and writes, `WatchSyncFails` writes nothing and
leaves what the watcher remembers; `Fetch` and `RefreshWrite` are the halves of a refresh,
whose listing may have nothing left to take, and then sweeps. `SyncLocal` treats a name that
a failed probe left unknown as the code does (columns that stay once they are known, a
context that is overwritten with NULL), takes names out of other providers, and demotes what
is gone. The changes users can make are actions; `wanted`, `moved` and `patched` record, for
the properties, what users chose, `unlisted` which names a catalogue has lacked since,
`synced` what the last sync saw, and `drifted` that it was not the set the watcher
remembers.

### Schema, Catalogue, Startup

Bootstrap is a sequence of stages with a commit after each; a kill may fall between any
two, and within `schema.sql`, of which any part may then be there (`BootOpen`). Runners of
`migrate.py` read the stamps side by side and apply what is due, one transaction per
migration. `early` is history: a run or a release met a schema that had no stamps yet;
`late` the migrations released after a later one was due. A run of the catalogue scans its targets one by one into a draft and
commits once; each target has its own rule for what it upserts, revives and retires
(`SyncApis`, `SyncDeps`, ...). `Startup` composes the two: the tables that the schema
makes are entries of the target `db`, and nothing scans before there is a database.

### Grants

The order of bootstrap (`SeedSkills`, `EnsureForge`, `SeedExpPrime`, `SeedTools`, or an
abort) and the routes after it. `Effective` is what a turn may call.

## 3. The runs

| Run | Instance | Shows |
| --- | --- | --- |
| `dispatcher` | one shell, two session ids, two messages, two workers, two slots for threads, one fault, two tries of a call | one turn per session, exact `in_flight`, truthful markers but for a clearing that failed, in-order service |
| `liveness` | two sessions, two messages, one worker, one slot, one fault, one switch of a model | under `FairSpec`: messages of a shell that stays served are settled or withdrawn, markers go out unless their clearing fails, stopped threads end with turns of more sessions than workers in the queue; the dispatcher implements `Mailbox` |
| `flags` | three flags, two requests at a time | no loop, no orphan, everything scheduled, unless raced |
| `boot` | one shell, an old session without a document and one to be opened, two PATCHes, one turn | active documents tell the current identity, documents fit their session's model, turns get a document for the model they call, or one that names none where the session is pinned to none |
| `accounts` | one account, which is that of user 1, two users, two requests, one fault, two seeds, one recovery, four steps of the clock | a code opens one session, the stores agree on who exists, the mirror agrees unless strayed, an admin remains unless vied |
| `signin` | one email, two logins, four audit rows, one session, eight seconds | the wait that is told is enough, guesses are paced, a session in use lives |
| `access` | a seeded shared shell and a new one, two users, two toggles, one run of `ensure_keys`, one turn, three keys | one target per user unless a second is handed over, the key of a turn resolves to its shell and passes the gate of its rows |
| `vault` | two secrets, one seed, four data keys, two rotations, a broker and a command line | no row is left that the store's key does not open, but for rows a swap came across; the cache is stale for its time to live at most |
| `registry` | two local models, one of them listed by the cloud too, a remote model and a dated snapshot of it | what users chose stays chosen, a local model moved to the agents never comes back into the picker, rows always mirror the last sync, and under fairness what was synced comes to be what is installed, and rows that failed probes left incomplete are completed by the next sync |
| `startup` | two migrations released at any time (one fails), two runners, three targets with four entries, one fault, two changes of the sources | each migration takes effect once, in order, unless a run met a schema without stamps, and the catalogue settles on what is there |

Runs that end in a violation, each a disagreement of code and text:

| Run | Text that does not hold | Behaviour |
| --- | --- | --- |
| `grants` | assigning a skill "materialises" its tools into `shell_tools` (`schema.sql:210`) | bootstrap attaches skills before it fills `skill_tools`: the seeded shells have skills without their tools |
| `turn` | the trim drops leading non-user turns "so the request opens cleanly on a user message" (`ollama_adapter.py:105`) | in the tool loop the last message holds results and has the role user: the request opens on the result of a tool whose call was dropped |

**Bounds and why they are enough.** Two messages in two sessions give every pair of
turns: of one session, of two sessions, before and after a clear, with an auto-clear
opening the second session. Two slots let a shell leave and join while its old thread
drains. Two workers are needed for two turns at once, and one makes turns queue. One
fault per behaviour suffices for each invariant alone, with two tries a call may be given
up at the first or at the last. `MaxRows` only stops users from switching models without
end; the switch is in the `liveness` run. There `SecondSessionLate` is a bound too (an
action constraint): the second session opens only where no fault is left and no model was
switched, so the run has every fault and switch with one session, and every queue of two
sessions for one worker, but not both at once; two sessions with faults are in `dispatcher`. A loop of flags
needs two flags and two requests; a third flag gives grandparents for the re-parenting.
Two PATCHes are needed for the stale read and a second session for auto-clear and
replacement. Two requests on one account give every pair of logins, enrolments,
recoveries and changes of admins; two seeds and one recovery let an account be enrolled
again; two accounts never meet but in `Linked`, which the proofs cover. In `signin` the
cap is reached by the third failure, the window by the fourth second, and a session needs
two renewals. `access` needs two users for a hand-over, two toggles for the race and three
keys for a rotation under a run of `ensure_keys`. A row of the vault is lost by one set
and one rotation; the second rotation shows that it stays lost. The name in both
catalogues is what makes a model move between providers. Two runners of migrations read the same pending set, and two migrations are what a failure,
a late number and a halt need.
Identities, models, users, sessions and clients are symmetric where a configuration says
so; no configuration with a liveness property declares symmetry. `CHECK_DEADLOCK FALSE` is
set where the system may stop: all users idle at a bound and no fault left, all flag ids
used up, the clock at its end.

**Fairness.** `Dispatcher!FairSpec`: weak fairness for the start of a process and its exit
(pm2 restarts it: `autorestart` in `ecosystem.config.cjs`), for each process's supervisor
passes, for each polling thread, and for the work on each session by a loop's pool (pool
workers are threads, and each call has a time-out). None for users, kills and failures.
`ModelRegistry!RegistrySpec`: weak fairness for the watcher's tick and the sync it starts, a
loop with a sleep (`model_sync.py`); what Ollama does and refreshes are not fair, and
`MaxFlakes` bounds the syncs and probes that fail.
`Startup!Spec`: weak fairness for a run of the catalogue (cron and the hook repeat it), and
for nothing else. Weak fairness is enough since each of these steps stays enabled until
taken or made needless. That a shell stays served is a premise of two of the properties
(`<>[](browser[sh])`): the code owes nothing to a shell that has left.

**Refinement.** `ImplementsMailbox` checks that the detailed dispatcher behaves as
`Mailbox` through `BoxOf`, in the instance of the `liveness` run; its levels include neither
the warning nor the auto-clear, but `DispatcherProofs` proves the refinement (`Implements`) with
auto-clear, crashes and any number of processes. `StartupProofs` proves that the
composition `Startup` keeps the specification of `Schema`.

**Mutants.** Each property of a passing run has a mutant, defined next to the operator it
changes (`MayJoinNoDrain`, `DeleteLeavesChildren`, `NotConsumedLoose`, `MintedApart`,
`PoppedNot`, `StickyNot`, `SucceedsTwice`, ...), that stands for a plausible bug and
breaks that property.

## 4. The proofs

Every invariant that a passing run checks is a theorem, for any values of the constants;
two more theorems are refinements (`Implements`, `StartupKeepsSchema`). The assumptions are
those the modules name (`ChatAssumption`, `DispatcherAssumption`, `FlagAssumption`,
`SignInAssumption`, `RegistryAssumption` and their like), which TLC evaluates in the runs;
`MarkersTrue` assumes one process besides. An invariant is proved by induction over
steps, mostly from a stronger one, which TLC has checked on the instance of the run before
it was proved.

* **Dispatcher** (`DispatcherProofs`: `TypeCorrect`, `InFlightIsExact`, `InOrder`,
  `SerialTurns`, from `Inductive`). `InFlightExact` alone is not inductive: `Submit` needs that a
  fetched row is a row of the thread's shell and that a session has one turn in the
  thread; `Join` needs that a slot that is free holds nothing. `IInv` adds these
  (`FetchedRows`, `TurnRows`, `AbsentHoldsNothing`, `OneLoopPerShell`,
  `OneTurnInLoop`) and, for the order of service, that a thread which has fetched a row
  has fetched every older pending row of its session (`FetchedInOrder`). Steps are first
  sorted by what they do to threads and turns (`StepShape`), so that most conjuncts have
  a handful of cases; the module says of the routes of `Chat` what they do to rows: rows keep kind and
  session, and no row becomes pending except a new one.
* **Chat tables** (`DispatcherProofs`: `TableInvariant`). A session loses its rows from the
  front (`ClearedFromTheFront`), whatever clears, deletes and auto-clears come together, and
  what users wrote has a newest message (`HasNewest`).
* **Refinement** (`DispatcherProofs`: `Implements`). Initial states map to initial states;
  a step that adds, reads or deletes rows is followed through `BoxOf` to a post, settlement
  or withdrawal of `Mailbox`, and every other step leaves the box and its newest message
  alone. Of `TableInvariant` it needs that a clear takes with a message all older ones, and
  that a new message is newer than the newest.
* **Markers** (`DispatcherProofs`: `MarkersTrue`). With one process, `Join` clears what an
  earlier run has left, and a turn owns the marker of its session from its first write to
  its `finally`: the marker of a session of a served shell is that of its one turn. The write
  of that `finally` may fail, and then the marker stays on without a turn: the theorem leaves
  out the sessions in `uncleared`, and says that a turn which has started is of none of them. With
  two processes this is false: SIGTERM unlocks the file before the workers have finished,
  so the next process starts while turns of the last one run.
* **Flags** (`FlagTreeProofs`: `FlagTypes`, `NoLoops`, `NoOrphans`, `AllScheduled`). The
  invariant adds what a request may rely on while nothing has outdated its reading
  (`Relies`): its parent is live and its flag is not in the chain above it. Loops and
  chains are handled through sets closed under parents, so no induction over paths is
  needed; a set without a way out that the schedule does not reach would be a loop or
  hang below a deleted flag.
* **Boot documents** (`BootDocumentProofs`: `BootTypes`, `IdentityReaches`,
  `ModelReaches`, `TurnsGetTheirModel`). The invariant adds that a turn which nobody
  moved still calls what its session's model resolves to, and that a session with a turn
  exists, so that it is never opened under it.
* **Accounts** (`AccountsProofs`: `CodesOnce`, `StoresAgree`, `AdminStays`,
  `MirrorTrue`, `AccountsTypes`, from `AccountsInductive`). `CodeUsedOnce` speaks of sessions that are
  open; the invariant follows a code from its acceptance: a code is `Consumed` when its seed
  has been drawn and is either not the account's any more or not newer than the last step
  taken; what is accepted or has opened a session is consumed (`CodesConsumed`), and no two
  of it are one (`CodesApart`). A seed is the newest one drawn or none (`SeedsDrawn`), so a
  code the broker takes was not consumed before. For the stores, `Links` says that a row
  that is due is the only one due for an account that has no user; for admins,
  `AdminsLeft` says that a change which overlaps no other leaves an admin besides the user
  it is about. `StoresAgree` rests on provisioning always using one email (`EMAIL` of
  `provision_user_1.py`, the constant `FirstAccount`). For the mirror (`MirrorInv`, on top
  of that invariant), a request on its way to write the mirror is what accounts for a
  difference (`Accounted`): a login that enrols has its account enrolled (`EnrolledLinked`,
  `LoginsTrue`), and a reset has it cleared.
* **Sign-in** (`SignInProofs`: `SignInTypes`, `WaitIsEnough`, `GuessesArePaced`,
  `SessionsSlide`, from `SignInInductive`). A wait that was told does not grow
  (`WaitTold`): polls are not counted, time only takes failures out of the window, and a
  failure of a login that was under way takes back what was told. Fewer failures mean a shorter wait
  because the wait doubles monotonically up to its cap (`CooldownRises`), and the newest
  failure is the last to leave the window since rows are in order (`EventsInOrder`). For the
  pace of guesses, `FewMore` bounds, while a failure is younger than the shortest wait, the
  failures after it together with the logins at the broker by the number of logins that
  run at a time; the gate is closed to any other. Induction over numbers is needed twice,
  for the greatest failure and for `2^n`: `NatSetInduction` and `DoubledDef` take it from
  the well-founded order of numbers with a set in place of a predicate.
* **Access** (`AccessProofs`: `AccessTypes`, `TargetsLone`, `TurnsResolve`,
  from `AccessInductive`, and `SecondTargetHandedOver`). The invariant adds that the two columns of a
  key are of one draw and no two rows share a draw (`KeysMatch`), that a turn nothing has
  outdated carries its shell's key (`TurnHasKey`), and states the one target without
  counting (`LoneTarget`). `OneTarget` leaves out users who were handed a second target;
  `SecondTargetHandedOver` is about all of them: a step that gives a user with a target
  another one is an assignment of a target, or a toggle whose shell has come to the user
  since it was read.
* **Vault** (`VaultProofs`: `SecretsKept`, `CacheFresh`, from `VaultInductive`). The
  invariant relates what a rotation has read to the rows it will write: a row that nothing
  has set since is still what was read (`ReadIsCurrent`). It holds whatever key file each
  process has loaded, since a row sealed under another than the current one is `crossed`.
* **Schema** (`StartupProofs`: `OnceEach`, `InOrder`, from `SchemaInductive`, and
  `StartupKeepsSchema`). The invariant adds that without a database nothing is applied and
  nothing runs (`NothingYet`), that a schema before its stamps holds exactly the released
  migrations unless a run has met it (`Unstamped`), and that what a runner still has to do
  comes before everything else that is pending (`DueFirst`). `StartupKeepsSchema` maps every step
  of `Startup` to a step of `Schema` or a stutter, so the two theorems carry over.

* **Registry** (`StartupProofs`: `ChoicesKept`, `MovedStays`, `RowsMirror`, from `RegistryInductive`).
  The invariant adds that a remote row belongs to the provider that lists its name
  (`Homed`), so only that provider's refresh can sweep it; that what a refresh has fetched
  and not yet written is noted against every PATCH that came in between (`LacksNoted`); and
  that a moved model stays written down as one that does not accept (`MovedRefused`), which
  `Sticky` keeps. `RowsMirror` adds that a model only Ollama has is never a remote row
  (`OwnRows`).

Only model-checked: everything under fairness (`EveryMessageSettled`, `MarkerGoesOut`,
`StoppedLoopEnds`, `Tracks`, `HealsWithNextSync`, `CatalogueSettles`), since the provers handle neither liveness
under fairness nor ENABLED. The violations of `grants` and `turn` are counterexamples of
TLC. Induction over numbers is done in `SignInProofs` through the
well-founded order of numbers; the library's induction theorems that take a predicate as a
parameter cannot be used with these provers, and no model declares a RECURSIVE operator
that a proof would need.

## 5. What the code does otherwise than one expects

The properties say what holds; these are the places where they had to be worded with
care, or where a reader of the model may stop. None of them is checked by a run of its own,
unless it says so. The history variables named here in brackets mark exactly the races and
failures that the code loses: a property that mentions one says nothing of the case itself,
only that nothing else does the same harm. `PROJECT.json` notes it at the hazard.

* *Dispatcher.* `post_reply` returns 0 for a failure and the test is `>= 400` (`DL:494`), so
  a turn whose reply cannot be posted is not given up but run again, against the comment at
  494-498; in the model it is (`AfterFailedCall`), and the `liveness` run shows only that it
  ends when the failures do. The test that skips a message takes for an answer a notice of
  the API, or a reply whose turn had loaded its history before the message came: the
  message is marked read without the model having seen it as one to answer, against the
  comment at 375-378. No property claims that a read message was answered. When the write
  of a turn's `finally` fails (529-535), the marker stays on until the session's next turn or
  the next joining of its shell (`uncleared`). The lock file is released on SIGTERM before
  the workers end. Rows are fetched before `in_flight` is looked at, so a session can be
  picked again for a row that has been read; the second turn skips it.
* *Boot documents.* Two PATCHes of a model side by side leave a document of the other model
  (`torn`), and a lazy rendering can overtake a newer one (`torn`). A session pinned to no
  model calls `DISPATCH_MODEL`, while its document is rendered without one, in the dialect of
  Anthropic (`boot_document.py:30`). Grants of skills and tools render nothing;
  `PUT prompt-sections` neither.
* *Flags.* Two requests that validate before either writes can close a loop or leave an
  orphan (`raced`).
* *Accounts.* Two requests that each remove the flag of the other of the last two admins
  leave none (`vied`). A request lost after the broker's half leaves an account without a
  user, which no route repairs (`StoresLinked` allows one once a request was lost), or a mirror
  that disagrees (`strayed`).
* *Access.* An assignment hands a chat target over with its shell, and the new owner may
  then have two (`strayed`). A rotation of a shell's key takes it from a running turn.
* *Vault.* A rotation leaves the seeds of one-time codes under the old key, a secret set
  between its read and the swap is lost, and so is one that `set` or `import-env` writes after
  the swap with the key file they loaded before it (`crossed`).
* *Registry.* A model whose probe failed is not probed again until the installed set
  changes, against "on every watch tick that still finds a NULL" (`model_sync.py:304-307`):
  `HealsWithNextSync` is about the next sync, not the next tick. A failed probe overwrites a
  recorded context with NULL, which the picker lets pass. The watcher's tags and the sync's
  are two calls, so a change and its undoing between them is not seen (`drifted`); a name in
  both catalogues changes its provider with whoever wrote last; the flags of seeded models are
  NULL until a probe; a refresh resets `accepts_substrate_system`; a sync holds the write lock
  while it asks Ollama.
* *Schema.* A bootstrap that is killed within the schema, or between it and the stamps,
  leaves a database on which `migrate` applies what the schema already has (`early`); an
  aborted one is never seeded later. A migration released with a low number is applied after
  higher ones (`late`).
* *Catalogue.* Upserts of APIs, libraries and file paths do not revive a retired row.
* *Grants.* A skill that is created again has no tools; a shell minted for a new user copies
  skills that were deleted.

## 6. Not modelled

`PROJECT.json` names every part. *Tool executors*: input and output. *Shell messages,
archives and the caps on identity entries*: single statements with few interleavings.
*Prompt rendering*: text; `BootDocument` keeps what a document is rendered from. *Plain
record routes*: one statement per request on rows that nothing else reads. *Set-up,
installation and user interface*: scripts and a client; of pm2 the automatic restart is
assumed. *The reaper of local models*: it changes nothing in the database. Within the
modelled parts: token counters and texts; messages without a session; statuses, notes
and events of flags; the check of origins and of query parameters; descriptive columns of
models; what each migration does to its tables; shared folders.

## 7. Plan

Done: the chat and its dispatcher, boot documents, flags, accounts and sign-in, access,
secrets, the registry, schema and catalogue, grants, the turn; every invariant of a
passing run proved, and the refinement to `Mailbox`.

Left, in this order: an answer of every settled message in `Mailbox`; the catalogue's rules
(`Revives`, `Retires`) as action properties with proofs; lemmas about the formats of
`Turn`; the dispatcher with two processes at a time in a run (the lock file is released
early); the caps and archives of identity entries with shell messages; the projects and
flags that a boot document renders.

--------------------------- MODULE ModelRegistry ---------------------------
(***************************************************************************)
(* The registry of models and who writes it: the watcher that mirrors what *)
(* Ollama has installed (scripts/model_sync.py), the refreshes of a remote *)
(* catalogue (scripts/cloud_model_sync.py and remote_model_sync.py, run by *)
(* the start-up hooks, the pages and the command line), and the users of   *)
(* api/routers/models.py.                                                  *)
(*                                                                         *)
(* The watcher compares what one call of Ollama tells with what it saw     *)
(* last, and the sync it starts asks Ollama again.  A sync commits once,   *)
(* after its last answer, so it is one step, or none when it fails.  A     *)
(* refresh fetches its catalogue and then writes it: two steps.            *)
(*                                                                         *)
(* Abstractions.  An installed model is its name: a new digest makes the   *)
(* watcher sync again, as a change of the set does.  A context is whether  *)
(* it is enough for the picker, which lets an unknown one pass; a remote   *)
(* model has none, or one that is enough.                                  *)
(***************************************************************************)
EXTENDS Naturals, FiniteSets

CONSTANTS Locals,      \* models that Ollama may install
          Catalogue,   \* models each remote provider may list
          Tooled,      \* installed models that declare tools
          Accepting,   \* those whose template keeps the system prompt with tools
          SnapshotOf,  \* dated names, and the alias each is a snapshot of
          HandSeeded,  \* remote rows that db_init inserts, active
          Roomy,       \* installed models with context enough for the prompt
          Sifted,      \* providers of whose listing only some ids are taken
          Refreshers,  \* refreshes that run at a time
          Null,
          MaxInstalls, \* a bound: models installed and removed
          MaxFlakes,   \* a bound: probes and syncs that fail
          MaxWishes    \* a bound: changes made by users

Providers == DOMAIN Catalogue
Listed == UNION {Catalogue[p] : p \in Providers}
Names == Locals \cup Listed

ASSUME RegistryAssumption ==
    /\ \A p, q \in Providers : p # q => Catalogue[p] \cap Catalogue[q] = {}
    /\ Providers \cap {"none", "local"} = {}
    /\ Tooled \subseteq Locals /\ Accepting \subseteq Locals
    /\ HandSeeded \subseteq Listed \ Locals /\ Roomy \subseteq Locals
    /\ Null \notin {0, 1}

VARIABLES models,    \* models
          installed, \* what Ollama has
          watch,     \* the watcher: last_sig, and the sig of a sync under way
          refreshes, \* each refresh: its provider and the names it has fetched
          synced,    \* history: what the last sync saw
          drifted,   \* history: it was not the set that watch remembers
          wanted,    \* history: remote models whose last PATCH made them active
          unlisted,  \* history: names a fetched catalogue lacked since their PATCH
          moved,     \* history: models moved to the agents
          patched,   \* history: local rows patched since the last sync
          spent      \* changes, flakes and wishes so far

registryVars ==
    <<models, installed, watch, refreshes, synced, drifted, wanted, unlisted, moved, patched, spent>>

NoRow == [provider |-> "none", active |-> FALSE, tools |-> Null, accepts |-> Null,
          context |-> Null, verified |-> FALSE]
Exists(m) == models[m].provider # "none"
Idle == [provider |-> "none", seen |-> {}]
Spend(kind) == spent' = [spent EXCEPT ![kind] = @ + 1]

\* GET /models.
Picker == {m \in Names : /\ models[m].active /\ models[m].tools = 1 /\ models[m].accepts = 1
                         /\ models[m].context # 0}

(***************************************************************************)
(* model_sync                                                              *)
(***************************************************************************)

Bool(b) == IF b THEN 1 ELSE 0

\* A mutant: what the probe says now replaces what is recorded.
StickyNot(prior, fresh) == IF fresh # Null THEN fresh ELSE prior

\* A classification is kept once written; a fresh one only fills in a NULL.
Sticky(prior, fresh) == IF prior # Null THEN prior ELSE fresh

\* A mutant: a model is probed when it is new.
PromotedOnce(m, flaked) ==
    LET probed(answer) == IF Exists(m) \/ flaked THEN Null ELSE Bool(answer)
        tools == Sticky(models[m].tools, probed(m \in Tooled))
        accepts == Sticky(models[m].accepts, probed(m \in Accepting)) IN
    [models[m] EXCEPT !.provider = "local", !.tools = tools, !.accepts = accepts,
                      !.context = Sticky(@, probed(m \in Roomy)),
                      !.active = (tools = 1 /\ accepts = 1)]

\* promote_local_models for one installed model, whose probe may have failed: it
\* keeps what the row says of tools and the prompt, and forgets its context.
Promoted(m, flaked) ==
    LET tools == Sticky(models[m].tools, IF flaked THEN Null ELSE Bool(m \in Tooled))
        accepts == Sticky(models[m].accepts, IF flaked THEN Null ELSE Bool(m \in Accepting)) IN
    [models[m] EXCEPT !.provider = "local", !.tools = tools, !.accepts = accepts,
                      !.context = IF flaked THEN Null ELSE Bool(m \in Roomy),
                      !.active = (tools = 1 /\ accepts = 1)]

\* A mutant: rows of removed models are left as they are.
DemotedNot(m) == models[m]

\* Its down-sweep, of a row whose model is not installed.
Demoted(m) == IF models[m].provider = "local" THEN [models[m] EXCEPT !.active = FALSE]
              ELSE models[m]

\* sync: what is installed now, and the probes of some of it failing.
SyncLocal ==
    /\ \E flaked \in SUBSET installed :
          /\ spent.flakes + Cardinality(flaked) <= MaxFlakes
          /\ models' = [m \in Names |-> IF m \in installed THEN Promoted(m, m \in flaked)
                                        ELSE Demoted(m)]
          /\ spent' = [spent EXCEPT !.flakes = @ + Cardinality(flaked)]
    /\ synced' = installed
    /\ patched' = {}
    /\ UNCHANGED <<installed, refreshes, wanted, unlisted, moved>>

\* A tick of watch finds a set other than the one it last synced.
WatchTick ==
    /\ ~watch.syncing
    /\ installed # watch.last
    /\ watch' = [watch EXCEPT !.syncing = TRUE, !.sig = installed]
    /\ UNCHANGED <<models, installed, refreshes, synced, drifted, wanted, unlisted, moved, patched, spent>>

\* The sync of that tick, which asks Ollama again, and last_sig = sig.
WatchSync ==
    /\ watch.syncing
    /\ SyncLocal
    /\ drifted' = (watch.sig # installed)
    /\ watch' = [last |-> watch.sig, syncing |-> FALSE, sig |-> {}]

\* A mutant: last_sig = sig goes before the sync.
WatchSyncFailsLate ==
    /\ watch.syncing
    /\ spent.flakes < MaxFlakes
    /\ Spend("flakes")
    /\ watch' = [last |-> watch.sig, syncing |-> FALSE, sig |-> {}]
    /\ UNCHANGED <<models, installed, refreshes, synced, drifted, wanted, unlisted, moved, patched>>

\* That sync fails: Ollama is away, the host has no hardware row, the database is
\* locked.  Nothing is committed and last_sig stays: the next tick tries again.
WatchSyncFails ==
    /\ watch.syncing
    /\ spent.flakes < MaxFlakes
    /\ Spend("flakes")
    /\ watch' = [watch EXCEPT !.syncing = FALSE, !.sig = {}]
    /\ UNCHANGED <<models, installed, refreshes, synced, drifted, wanted, unlisted, moved, patched>>

\* The sync of a run from the command line.
SyncByHand ==
    /\ SyncLocal
    /\ drifted' = (watch.last # installed)
    /\ UNCHANGED watch

\* The watcher is started again and remembers nothing: the first tick syncs.
WatchRestart ==
    /\ spent.wishes < MaxWishes
    /\ Spend("wishes")
    /\ drifted' = FALSE
    /\ watch' = [last |-> {Null}, syncing |-> FALSE, sig |-> {}]
    /\ UNCHANGED <<models, installed, refreshes, synced, wanted, unlisted, moved, patched>>

(***************************************************************************)
(* cloud_model_sync and remote_model_sync                                  *)
(***************************************************************************)

\* _fetch_openai: a dated snapshot goes when its alias is listed too.
Survivors(ids) == {n \in ids : ~(n \in DOMAIN SnapshotOf /\ SnapshotOf[n] \in ids)}

\* What _fetch_catalog, _fetch_anthropic and _fetch_openai may return: an empty
\* or failed listing is an error, one with nothing to take from it is not.
Offered(p) == {Survivors(ids) : ids \in SUBSET Catalogue[p]} \ (IF p \in Sifted THEN {} ELSE {{}})

\* The fetch of sync_provider, and of sync for Ollama Cloud: an error or a
\* missing key ends the refresh before it has written.
Fetch(r, p) ==
    /\ refreshes[r] = Idle
    /\ \E seen \in Offered(p) :
          /\ refreshes' = [refreshes EXCEPT ![r] = [provider |-> p, seen |-> seen]]
          /\ unlisted' = unlisted \cup (Catalogue[p] \ seen)
    /\ UNCHANGED <<models, installed, watch, synced, drifted, wanted, moved, patched, spent>>

\* A mutant: a row that exists takes the status of a new one.
RefreshedAnew(m, p) == [provider |-> p, active |-> FALSE, tools |-> 1, accepts |-> 1,
                        context |-> models[m].context, verified |-> TRUE]

\* The upsert of a listed model: a new row is inactive, another keeps its status
\* and its context.
Refreshed(m, p) == [provider |-> p, active |-> models[m].active, tools |-> 1, accepts |-> 1,
                    context |-> models[m].context, verified |-> TRUE]

\* The down-sweep: rows verified before that the catalogue lacks.
Swept(m, p) ==
    IF models[m].provider = p /\ models[m].verified THEN [models[m] EXCEPT !.active = FALSE]
    ELSE models[m]

RefreshWrite(r) ==
    LET p == refreshes[r].provider IN
    /\ refreshes[r] # Idle
    /\ models' = [m \in Names |-> IF m \in refreshes[r].seen THEN Refreshed(m, p) ELSE Swept(m, p)]
    /\ refreshes' = [refreshes EXCEPT ![r] = Idle]
    /\ UNCHANGED <<installed, watch, synced, drifted, wanted, unlisted, moved, patched, spent>>

(***************************************************************************)
(* Users                                                                   *)
(***************************************************************************)

\* PATCH /models/{model_id}/status, of any row.
SetStatus(m, active) ==
    /\ Exists(m)
    /\ spent.wishes < MaxWishes
    /\ Spend("wishes")
    /\ models' = [models EXCEPT ![m].active = active]
    /\ wanted' = IF active THEN wanted \cup {m} ELSE wanted \ {m}
    /\ unlisted' = unlisted \ {n \in {m} : \A r \in Refreshers :
                      \A p \in Providers : refreshes[r].provider = p =>
                          m \in refreshes[r].seen \/ m \notin Catalogue[p]}
    /\ patched' = patched \cup ({m} \cap Locals)
    /\ UNCHANGED <<installed, watch, refreshes, synced, drifted, moved>>

\* POST /models/{model_id}/route-to-agents.
RouteToAgents(m) ==
    /\ Exists(m)
    /\ spent.wishes < MaxWishes
    /\ Spend("wishes")
    /\ models' = [models EXCEPT ![m].accepts = 0]
    /\ moved' = moved \cup {m}
    /\ patched' = patched \cup ({m} \cap Locals)
    /\ UNCHANGED <<installed, watch, refreshes, synced, drifted, wanted, unlisted>>

\* ollama pull and ollama rm.
Install(m) ==
    /\ spent.changes < MaxInstalls
    /\ Spend("changes")
    /\ installed' = IF m \in installed THEN installed \ {m} ELSE installed \cup {m}
    /\ UNCHANGED <<models, watch, refreshes, synced, drifted, wanted, unlisted, moved, patched>>

\* db_init: the seeded remote rows, active, neither classified nor verified.
RegistryInit ==
    /\ models = [m \in Names |->
          IF m \in HandSeeded
          THEN [provider |-> CHOOSE p \in Providers : m \in Catalogue[p],
                active |-> TRUE, tools |-> Null, accepts |-> Null, context |-> Null,
                verified |-> FALSE]
          ELSE NoRow]
    /\ installed = {}
    /\ watch = [last |-> {Null}, syncing |-> FALSE, sig |-> {}]
    /\ refreshes = [r \in Refreshers |-> Idle]
    /\ synced = {} /\ drifted = FALSE
    /\ wanted = HandSeeded
    /\ unlisted = {} /\ moved = {} /\ patched = {}
    /\ spent = [changes |-> 0, flakes |-> 0, wishes |-> 0]

RegistryNext ==
    \/ WatchTick \/ WatchSync \/ WatchSyncFails \/ WatchRestart \/ SyncByHand
    \/ \E r \in Refreshers : RefreshWrite(r) \/ \E p \in Providers : Fetch(r, p)
    \/ \E m \in Names : RouteToAgents(m) \/ \E active \in BOOLEAN : SetStatus(m, active)
    \/ \E m \in Locals : Install(m)

\* The watcher is a standing process that polls for ever, and Ollama answers.
RegistrySpec ==
    /\ RegistryInit /\ [][RegistryNext]_registryVars
    /\ WF_registryVars(WatchTick) /\ WF_registryVars(WatchSync)

(***************************************************************************)
(* Properties                                                              *)
(***************************************************************************)

\* "New rows land inactive: the activation UI is the opt-in surface", "a row a
\* user activated stays active even if the upsert re-runs" and "nothing the
\* user pinned by hand gets silently disabled by a catalog refresh": a remote
\* row is active only by its last PATCH or its seed, and is inactive against
\* them only once verified and missing from a catalogue (or dropped from it as
\* a snapshot of a listed model), with refreshes writing late what they fetched
\* early.  A name that Ollama may install too is left out: both syncs then write
\* the one row, and a local model that is active becomes a remote one that is.
ChoiceKept ==
    \A m \in Names \ Locals : Exists(m) =>
        /\ models[m].active => m \in wanted
        /\ m \in wanted /\ ~models[m].active => models[m].verified /\ m \in unlisted

\* "Classifications are sticky once written, by the classifier or by the manual
\* Move to agents": a local model that was moved never comes back into the
\* picker, whatever is installed, probed and synced later.
MovedStaysOut == moved \cap (Locals \ Listed) \cap Picker = {}

\* "Mirror this host's installed Ollama models": the rows of local models always say
\* what the last sync saw, whatever refreshes write and probes fail, but for rows a
\* user has patched since.
MirrorsLastSync ==
    \A m \in Locals \ (Listed \cup patched) : Exists(m) =>
        (models[m].active <=> m \in synced /\ models[m].tools = 1 /\ models[m].accepts = 1)

\* "Re-sync whenever Ollama's installed-model set changes": what the last sync saw
\* comes to be what is installed, through syncs that fail, restarts and runs by hand.
\* It never does in one case, where nothing is left to be noticed: Ollama has gone
\* back to the very set that watch remembers, after a sync that saw another.
Tracks == <>[] (synced = installed \/ (drifted /\ installed = watch.last))

\* What a probe of a model tells is in its row.
Classified(m) == models[m].tools # Null /\ models[m].accepts # Null /\ models[m].context # Null

\* "A flaky probe self-heals", so far as the code lets it: when no probe fails any
\* more, the next sync that a tick starts completes the row of every installed
\* model.  The comment's "on every watch tick that still finds a NULL" is not
\* what watch does: a tick that finds the set unchanged syncs nothing.
HealsWithNextSync ==
    \A m \in Locals :
        (watch.syncing /\ spent.flakes = MaxFlakes /\ m \in installed)
            ~> (Classified(m) \/ m \notin installed)
=============================================================================

------------------------------- MODULE Vault -------------------------------
(***************************************************************************)
(* The broker's encrypted store (broker/secrets_store.py): secrets and the *)
(* seeds of one-time codes (broker/auth_store.py), each sealed under a     *)
(* data key of its own that is wrapped under the key-encryption key; the   *)
(* broker's cache of opened secrets; and the processes that share the      *)
(* store: the broker, the command line that sets and imports, and the      *)
(* rotation of the key-encryption key.                                     *)
(*                                                                         *)
(* The broker's handlers run to their end without giving up the event loop *)
(* once the body is read, so one runs at a time; the command line and the  *)
(* operator are other processes.  Whoever seals loads the key file first   *)
(* and commits later, two steps.  SQLite admits one writer at a time:      *)
(* rotate_kek reads its rows before its first UPDATE opens the transaction *)
(* that its commit ends.                                                   *)
(*                                                                         *)
(* Abstractions.  Every set draws a fresh data key, so the data key a      *)
(* ciphertext is sealed under also stands for the value in it.  Key files  *)
(* are numbered in the order they are generated.  Time passes in ticks of  *)
(* the cache's time to live.                                               *)
(***************************************************************************)
EXTENDS Naturals

CONSTANTS Names,    \* names of secrets
          Accounts, \* accounts with one-time codes
          Procs,    \* processes of the command line that set or import
          NoName,
          CacheTTL, \* CACHE_TTL, in ticks
          MaxDeks,  \* a bound: data keys drawn
          MaxKeks   \* a bound: key files generated

ASSUME VaultAssumption ==
    /\ NoName \notin Names /\ Names \cap Accounts = {}
    /\ CacheTTL \in Nat \ {0} /\ MaxDeks \in Nat /\ MaxKeks \in Nat \ {0}

VARIABLES secrets,  \* secrets
          seeds,    \* auth_users: totp_ct and totp_wrapped_dek
          drawn,    \* data keys drawn so far
          kek,      \* the key file at BROKER_KEK_PATH
          cache,    \* _CACHE of the broker
          rotation, \* a run of rotate-kek, up to the swap of the key file
          held,     \* the key file a handler of the broker seals with, 0 when none does
          runs,     \* command lines that set or import: their key file, and the name
                    \* that import-env has found not stored
          crossed,  \* history: rows that a swap of the key file has come across
          since     \* history: ticks since another process than the broker set a name

vars == <<secrets, seeds, drawn, kek, cache, rotation, held, runs, crossed, since>>

\* A sealed row: the data key of the ciphertext, the data key that is wrapped,
\* and the key file it is wrapped under; all 0 when there is no row.
Envelope == [seal : 0..MaxDeks, dek : 0..MaxDeks, kek : 0..MaxKeks]
Absent == [seal |-> 0, dek |-> 0, kek |-> 0]

Stored(e) == e # Absent

\* get_secret and _open under key file k: the data key unwraps and opens the
\* ciphertext (Fernet refuses any other key).
Opens(e, k) == e.kek = k /\ e.dek = e.seal

\* set_secret and _seal: a data key that was never used.
Sealed(k) == [seal |-> drawn + 1, dek |-> drawn + 1, kek |-> k]

NoEntry == [val |-> 0, left |-> 0]

NoRotation == [pc |-> "idle", read |-> [n \in Names |-> Absent], new |-> 0, wrote |-> {}]
Rotating == rotation.pc # "idle"

NoRun == [pc |-> "idle", kek |-> 0, name |-> NoName]

\* A rotation takes note of a name set under it.
Noted(n) == IF Rotating THEN [rotation EXCEPT !.wrote = @ \cup {n}] ELSE rotation

(***************************************************************************)
(* The broker                                                              *)
(***************************************************************************)

\* A mutant: the broker keeps what it has cached.
PoppedNot(n) == cache

\* _CACHE.pop.
Popped(n) == [cache EXCEPT ![n] = NoEntry]

\* A mutant: a new value is stored with the data key of the old one.
UpsertedHalf(n, k) ==
    [secrets EXCEPT ![n] =
        [Sealed(k) EXCEPT !.dek = IF Stored(secrets[n]) THEN secrets[n].dek ELSE @]]

\* The upsert of set_secret: ciphertext and wrapped key together.
Upserted(n, k) == [secrets EXCEPT ![n] = Sealed(k)]

\* A row sealed under key file k is one that a swap came across when k is no
\* longer the key file.
Marked(row, k) == IF k = kek THEN crossed \ {row} ELSE crossed \cup {row}

\* set_secret, whoever calls it with whatever key file.
SetSecret(n, k) ==
    /\ drawn < MaxDeks
    /\ secrets' = Upserted(n, k)
    /\ drawn' = drawn + 1
    /\ rotation' = Noted(n)
    /\ crossed' = Marked(n, k)

\* A handler that is to seal loads the key file.
BrokerLoads ==
    /\ held = 0
    /\ held' = kek
    /\ UNCHANGED <<secrets, seeds, drawn, kek, cache, rotation, runs, crossed, since>>

\* PUT /admin/secrets/{name}, relayed by PUT /keys/{name}.
AdminSet(n) ==
    /\ held # 0
    /\ SetSecret(n, held)
    /\ cache' = Popped(n)
    /\ held' = 0
    /\ UNCHANGED <<seeds, kek, runs, since>>

\* The handler's write finds the database busy: the request fails.
SealFails ==
    /\ held # 0
    /\ held' = 0
    /\ UNCHANGED <<secrets, seeds, drawn, kek, cache, rotation, runs, crossed, since>>

\* DELETE /admin/secrets/{name}.
AdminDelete(n) ==
    /\ held = 0
    /\ Stored(secrets[n])
    /\ secrets' = [secrets EXCEPT ![n] = Absent]
    /\ cache' = Popped(n)
    /\ crossed' = crossed \ {n}
    /\ UNCHANGED <<seeds, drawn, kek, rotation, held, runs, since>>

\* get_cached under a proxied request that finds no live entry: the value is
\* opened and kept.  A value that is absent or does not open keeps nothing, and
\* the request fails.
ProxyMiss(n) ==
    /\ held = 0
    /\ cache[n].left = 0
    /\ Stored(secrets[n])
    /\ Opens(secrets[n], kek)
    /\ cache' = [cache EXCEPT ![n] = [val |-> secrets[n].seal, left |-> CacheTTL]]
    /\ UNCHANGED <<secrets, seeds, drawn, kek, rotation, held, runs, crossed, since>>

\* totp_enroll_begin and reset_totp.
EnrollSeed(a) ==
    /\ held # 0
    /\ drawn < MaxDeks
    /\ seeds' = [seeds EXCEPT ![a] = Sealed(held)]
    /\ drawn' = drawn + 1
    /\ crossed' = Marked(a, held)
    /\ held' = 0
    /\ UNCHANGED <<secrets, kek, cache, rotation, runs, since>>

ResetSeed(a) ==
    /\ held = 0
    /\ Stored(seeds[a])
    /\ seeds' = [seeds EXCEPT ![a] = Absent]
    /\ crossed' = crossed \ {a}
    /\ UNCHANGED <<secrets, drawn, kek, cache, rotation, held, runs, since>>

\* The broker's container is started again.
Restart ==
    /\ cache' = [n \in Names |-> NoEntry]
    /\ held' = 0
    /\ UNCHANGED <<secrets, seeds, drawn, kek, rotation, runs, crossed, since>>

(***************************************************************************)
(* The command line                                                        *)
(***************************************************************************)

\* set and import-env load the key file once, for all the run does.
CliLoads(p, cmd) ==
    /\ runs[p] = NoRun
    /\ runs' = [runs EXCEPT ![p] = [pc |-> cmd, kek |-> kek, name |-> NoName]]
    /\ UNCHANGED <<secrets, seeds, drawn, kek, cache, rotation, held, crossed, since>>

\* set: the broker's cache is in another process.
CliSet(p, n) ==
    /\ runs[p].pc = "set"
    /\ SetSecret(n, runs[p].kek)
    /\ since' = [since EXCEPT ![n] = 0]
    /\ runs' = [runs EXCEPT ![p] = NoRun]
    /\ UNCHANGED <<seeds, kek, cache, held>>

\* import_env looks for each name, and sets it in a transaction of its own.
ImportCheck(p, n) ==
    /\ runs[p].pc = "import" /\ runs[p].name = NoName
    /\ ~Stored(secrets[n])
    /\ runs' = [runs EXCEPT ![p].name = n]
    /\ UNCHANGED <<secrets, seeds, drawn, kek, cache, rotation, held, crossed, since>>

ImportSet(p) ==
    LET n == runs[p].name IN
    /\ runs[p].pc = "import" /\ n # NoName
    /\ SetSecret(n, runs[p].kek)
    /\ since' = [since EXCEPT ![n] = 0]
    /\ runs' = [runs EXCEPT ![p].name = NoName]
    /\ UNCHANGED <<seeds, kek, cache, held>>

\* The run is over, or stops: it is killed, or finds the database busy.
CliEnds(p) ==
    /\ runs[p] # NoRun
    /\ runs' = [runs EXCEPT ![p] = NoRun]
    /\ UNCHANGED <<secrets, seeds, drawn, kek, cache, rotation, held, crossed, since>>

\* rotate_kek reads every row of secrets; the new key file exists already.
RotateRead ==
    /\ ~Rotating
    /\ kek < MaxKeks
    /\ rotation' = [pc |-> "read", read |-> secrets, new |-> kek + 1, wrote |-> {}]
    /\ UNCHANGED <<secrets, seeds, drawn, kek, cache, held, runs, crossed, since>>

\* UPDATE ... WHERE name: the data key that was read, under the new key file.
Rewrapped(n) == [secrets[n] EXCEPT !.dek = rotation.read[n].dek, !.kek = rotation.new]

\* Its updates and its commit.  Every row that was read must unwrap under the
\* old key file; a row deleted meanwhile is not updated, and one that was not
\* there is not known.
RotateWrite ==
    /\ rotation.pc = "read"
    /\ \A n \in Names : Stored(rotation.read[n]) => rotation.read[n].kek = kek
    /\ secrets' = [n \in Names |->
          IF Stored(rotation.read[n]) /\ Stored(secrets[n]) THEN Rewrapped(n) ELSE secrets[n]]
    /\ rotation' = [rotation EXCEPT !.pc = "rewrapped"]
    /\ UNCHANGED <<seeds, drawn, kek, cache, held, runs, crossed, since>>

\* A row does not unwrap, or the run is stopped: nothing is committed.
RotateAbort ==
    /\ rotation.pc = "read"
    /\ rotation' = NoRotation
    /\ UNCHANGED <<secrets, seeds, drawn, kek, cache, held, runs, crossed, since>>

\* The operator swaps the key file.  What was set under the rotation stays under
\* the old one, and so do the seeds: rotate_kek knows the table secrets only.
Swap ==
    /\ rotation.pc = "rewrapped"
    /\ kek' = rotation.new
    /\ crossed' = crossed \cup rotation.wrote \cup {a \in Accounts : Stored(seeds[a])}
    /\ rotation' = NoRotation
    /\ UNCHANGED <<secrets, seeds, drawn, cache, held, runs, since>>

Tick ==
    /\ cache' = [n \in Names |-> IF cache[n].left <= 1 THEN NoEntry
                                 ELSE [cache[n] EXCEPT !.left = @ - 1]]
    /\ since' = [n \in Names |-> IF since[n] = CacheTTL THEN CacheTTL ELSE since[n] + 1]
    /\ UNCHANGED <<secrets, seeds, drawn, kek, rotation, held, runs, crossed>>

\* secrets-init.sh: an empty store and a key file.
Init ==
    /\ secrets = [n \in Names |-> Absent]
    /\ seeds = [a \in Accounts |-> Absent]
    /\ drawn = 0
    /\ kek = 1
    /\ cache = [n \in Names |-> NoEntry]
    /\ rotation = NoRotation
    /\ held = 0
    /\ runs = [p \in Procs |-> NoRun]
    /\ crossed = {}
    /\ since = [n \in Names |-> CacheTTL]

Next ==
    \/ BrokerLoads \/ SealFails
    \/ \E n \in Names : AdminSet(n) \/ AdminDelete(n) \/ ProxyMiss(n)
    \/ \E p \in Procs : \/ CliLoads(p, "set") \/ CliLoads(p, "import") \/ ImportSet(p) \/ CliEnds(p)
                        \/ \E n \in Names : CliSet(p, n) \/ ImportCheck(p, n)
    \/ \E a \in Accounts : EnrollSeed(a) \/ ResetSeed(a)
    \/ RotateRead \/ RotateWrite \/ RotateAbort \/ Swap
    \/ Restart \/ Tick

Spec == Init /\ [][Next]_vars

(***************************************************************************)
(* Properties                                                              *)
(***************************************************************************)

\* The key file a row is wrapped under when nothing has gone wrong.
CurrentKek == IF rotation.pc = "rewrapped" THEN rotation.new ELSE kek

\* No secret is lost: a stored row opens under the current key file, through
\* sets, deletions, imports and rotations that stop halfway.  ("Ciphertext is
\* untouched.")  The code does not keep this for a row a swap of the key file
\* came across, and these are left out until they are set again: one that was
\* set while the completed rotation was under way, one whose process had loaded
\* the key file before the swap and wrote after it, and every seed of one-time
\* codes, which "re-wrap every DEK" does not reach.
NoSecretLost ==
    /\ \A n \in Names : Stored(secrets[n]) =>
          \/ Opens(secrets[n], CurrentKek)
          \/ n \in crossed
          \/ rotation.pc = "rewrapped" /\ n \in rotation.wrote
    /\ \A a \in Accounts : Stored(seeds[a]) => Opens(seeds[a], kek) \/ a \in crossed

\* "A rotation lands within the TTL with no restart": the value a proxied
\* request may be given is the stored one, or was until another process
\* replaced it less than the time to live ago; what the broker itself sets or
\* deletes counts at once, rotation of the key file or not.
StaleWithinTTL ==
    \A n \in Names :
        cache[n].left > 0 /\ cache[n].val # secrets[n].seal =>
            since[n] + cache[n].left <= CacheTTL
=============================================================================

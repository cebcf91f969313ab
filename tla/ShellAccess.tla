---------------------------- MODULE ShellAccess ----------------------------
(***************************************************************************)
(* Who acts on which shell: the middleware that resolves a caller          *)
(* (api/main.py), the gates of the handlers (api/common/auth.py), shells   *)
(* changing hands and chat targets (api/routers/admin.py and shells.py),   *)
(* and the keys that the dispatcher's turns carry                          *)
(* (scripts/ensure_api_keys.py).                                           *)
(*                                                                         *)
(* Requests run side by side.  A handler whose write depends on nothing    *)
(* that another request can change after it was read is one step; the      *)
(* toggle of the chat target writes what it has read before, and is two.   *)
(*                                                                         *)
(* Abstractions.  A live session is the user it belongs to (SignIn); the   *)
(* admin flag of users is constant here (Accounts).  A key is the number   *)
(* of times one has been drawn, 0 for a column that is NULL, and its hash  *)
(* the same number.  One turn of the dispatcher is looked at at a time.    *)
(***************************************************************************)
EXTENDS Naturals, FiniteSets

CONSTANTS Users, AdminUsers,
          FirstUsers, \* users a fresh database has; the others join later
          Shells,    \* rows shells may use
          Seeds,     \* those a fresh database has, all but one of them shared
          AdminShells, SharedShells,
          Clients,  \* toggles that run at a time
          Ensurers, \* runs of ensure_keys: the start-up hook, the command line
          Owner1,   \* user 1, for whom callers with a key act
          NoUser, NoShell,
          MaxKeys   \* a bound: keys drawn

ASSUME ShellAccessAssumption ==
    /\ FirstUsers \subseteq Users /\ Owner1 \in FirstUsers /\ AdminUsers \subseteq Users
    /\ IsFiniteSet(Shells) /\ Seeds \subseteq Shells
    /\ \A s, t \in Seeds \ SharedShells : s = t
    /\ AdminShells \subseteq Seeds /\ SharedShells \subseteq Seeds
    /\ NoUser \notin Users /\ NoShell \notin Shells
    /\ MaxKeys \in Nat

VARIABLES joined,  \* users
          shells,  \* shells
          drawn,   \* keys drawn so far
          toggles, \* what each pending toggle has read
          ensures, \* the keyless shells each run of ensure_keys has read
          turn,    \* a turn of the dispatcher: its shell and the key it carries
          strayed  \* history: users who were handed a second chat target

vars == <<joined, shells, drawn, toggles, ensures, turn, strayed>>

Shell == [exists : BOOLEAN, owner : Users \cup {NoUser}, chat : BOOLEAN,
          key : Nat, hash : Nat]

\* request.state: the shell of a key, the acting user, and what it may.
Caller == [shell : Shells \cup {NoShell}, user : Users \cup {NoUser}, admin : BOOLEAN]

Toggling == [shell : Shells \cup {NoShell}, owner : Users \cup {NoUser}, chat : BOOLEAN]
Idle == [shell |-> NoShell, owner |-> NoUser, chat |-> FALSE]

Existing == {s \in Shells : shells[s].exists}
Owned(u) == {s \in Existing : shells[s].owner = u}
Targets(u) == {s \in Owned(u) : shells[s].chat}

(***************************************************************************)
(* auth_passthrough                                                        *)
(***************************************************************************)

\* _resolve_caller_shell: the shells whose hash the presented key has.
Keyed(key) == {s \in Existing : key # 0 /\ shells[s].hash = key}

\* A session first, else the key's shell acting for user 1, else nobody.
\* (A key that is no shell's, and a browser's change from a foreign origin,
\* are refused before this.)
Resolved(user, key) ==
    LET shell == IF key = 0 THEN NoShell ELSE CHOOSE s \in Keyed(key) : TRUE IN
    IF user # NoUser
    THEN [shell |-> shell, user |-> user, admin |-> user \in AdminUsers]
    ELSE [shell |-> shell, user |-> IF shell = NoShell THEN NoUser ELSE Owner1, admin |-> FALSE]

(***************************************************************************)
(* Gates: api/common/auth.py                                               *)
(***************************************************************************)

\* _require_shell_owner: _shell_access without shared shells, the gate of every
\* write of a shell's private rows.
PassesOwner(by, s) ==
    \/ by.shell # NoShell /\ by.shell \in {s} \cup AdminShells
    \/ /\ by.shell = NoShell
       /\ by.user # NoUser
       /\ shells[s].owner = by.user \/ by.admin

\* _require_admin.
PassesAdmin(by) == IF by.shell # NoShell THEN by.shell \in AdminShells ELSE by.admin

\* _require_shell_creator.
PassesCreator(by) == by.shell # NoShell => by.shell \in AdminShells \cup SharedShells

(***************************************************************************)
(* Requests                                                                *)
(***************************************************************************)

\* What a client may present together: the session of a user or none, and a
\* key or none.
Sessions == joined \cup {NoUser}
Keys == {0} \cup {k \in 1..drawn : Keyed(k) # {}}

\* Somebody may send an admin's request.
AdminCalls == \E user \in Sessions, key \in Keys : PassesAdmin(Resolved(user, key))

\* A turn of a shell in S no longer carries its newest key.
Outdated(S) == IF turn.shell \in S THEN [turn EXCEPT !.fresh = FALSE] ELSE turn

\* A mutant: each column is given a key of its own.
MintedApart(row, n) == [row EXCEPT !.key = n, !.hash = n - 1]

\* Both columns of one row, from one draw.
Minted(row, n) == [row EXCEPT !.key = n, !.hash = n]

\* A row that is inserted has its key from the start.
Inserted(u, chat) ==
    Minted([exists |-> TRUE, owner |-> u, chat |-> chat, key |-> 0, hash |-> 0], drawn + 1)

\* POST /shells, by a caller who may create, for a user.
CreateShell(s, u) ==
    /\ s \notin Existing
    /\ drawn < MaxKeys
    /\ \E user \in Sessions, key \in Keys : PassesCreator(Resolved(user, key))
    /\ shells' = [shells EXCEPT ![s] = Inserted(u, FALSE)]
    /\ drawn' = drawn + 1
    /\ UNCHANGED <<joined, toggles, ensures, turn, strayed>>

\* POST /admin/users, which gives the new user a chat target: _mint_exp_shell.
CreateUser(s, u) ==
    /\ s \notin Existing /\ u \notin joined
    /\ drawn < MaxKeys
    /\ AdminCalls
    /\ joined' = joined \cup {u}
    /\ shells' = [shells EXCEPT ![s] = Inserted(u, TRUE)]
    /\ drawn' = drawn + 1
    /\ UNCHANGED <<toggles, ensures, turn, strayed>>

\* A mutant: the other shells of the user keep the flag.
RetargetedAlso(s, u) == [shells EXCEPT ![s].chat = TRUE]

\* The flags of user u cleared, and that of s set.
Retargeted(s, u) ==
    [t \in Shells |-> [shells[t] EXCEPT !.chat = (t = s \/ (@ /\ t \notin Owned(u)))]]

\* Shell s, a chat target, comes to user u beside another one of theirs.
Handed(u, s) == IF Targets(u) \ {s} # {} THEN strayed \cup ({u} \cap Users) ELSE strayed

\* PATCH /shells/{id}/activate: checked and written in one transaction.
Activate(s) ==
    /\ shells[s].owner # NoUser
    /\ \E user \in Sessions, key \in Keys : Resolved(user, key).user = shells[s].owner
    /\ shells' = Retargeted(s, shells[s].owner)
    /\ strayed' = strayed \ {shells[s].owner}
    /\ UNCHANGED <<joined, drawn, toggles, ensures, turn>>

\* A mutant: the columns of the row are taken in the wrong order.
ToggleReadSwapped(c, s) ==
    /\ toggles[c] = Idle
    /\ s \in Existing
    /\ shells[s].owner # NoUser
    /\ AdminCalls
    /\ toggles' = [toggles EXCEPT ![c] = [shell |-> s, owner |-> s, chat |-> shells[s].chat]]
    /\ UNCHANGED <<joined, shells, drawn, ensures, turn, strayed>>

\* PATCH /admin/shells/{id}/browser-chat reads the shell.
ToggleRead(c, s) ==
    /\ toggles[c] = Idle
    /\ s \in Existing
    /\ shells[s].owner # NoUser
    /\ AdminCalls
    /\ toggles' = [toggles EXCEPT ![c] = [shell |-> s, owner |-> shells[s].owner,
                                          chat |-> shells[s].chat]]
    /\ UNCHANGED <<joined, shells, drawn, ensures, turn, strayed>>

\* It writes with the owner and the flag it read.
ToggleWrite(c) ==
    LET r == toggles[c]
        current == shells[r.shell].owner IN
    /\ r # Idle
    /\ shells' = IF r.chat THEN [shells EXCEPT ![r.shell].chat = FALSE]
                 ELSE Retargeted(r.shell, r.owner)
    /\ strayed' = CASE r.chat -> strayed
                    [] ~r.chat /\ current = r.owner -> strayed \ {current}
                    [] OTHER -> Handed(current, r.shell)
    /\ toggles' = [toggles EXCEPT ![c] = Idle]
    /\ UNCHANGED <<joined, drawn, ensures, turn>>

\* PATCH /admin/shells/{id}/assign-user: the chat flag goes with the shell.
Assign(s, to) ==
    /\ s \in Existing
    /\ AdminCalls
    /\ shells' = [shells EXCEPT ![s].owner = to]
    /\ strayed' = IF shells[s].chat THEN Handed(to, s) ELSE strayed
    /\ UNCHANGED <<joined, drawn, toggles, ensures, turn>>

\* POST /admin/shells/{id}/rotate-key: rotate_key.
Rotate(s) ==
    /\ s \in Existing
    /\ drawn < MaxKeys
    /\ AdminCalls
    /\ shells' = [shells EXCEPT ![s] = Minted(@, drawn + 1)]
    /\ drawn' = drawn + 1
    /\ turn' = Outdated({s})
    /\ UNCHANGED <<joined, toggles, ensures, strayed>>

(***************************************************************************)
(* ensure_keys and the dispatcher's turns                                  *)
(***************************************************************************)

\* ensure_keys reads the shells that lack a column.
EnsureRead(e) ==
    /\ ensures[e] = {}
    /\ ensures' = [ensures EXCEPT ![e] = {s \in Existing : shells[s].key = 0 \/ shells[s].hash = 0}]
    /\ UNCHANGED <<joined, shells, drawn, toggles, turn, strayed>>

\* It mints a key for each of them, whatever the rows have become meanwhile,
\* and its caller commits.
EnsureMint(e) ==
    LET S == ensures[e]
        n == Cardinality(S)
        Draws == {f \in [S -> (drawn + 1)..(drawn + n)] : \A s, t \in S : f[s] = f[t] => s = t} IN
    /\ S # {}
    /\ drawn + n <= MaxKeys
    /\ \E f \in Draws :
          shells' = [s \in Shells |-> IF s \in S THEN Minted(shells[s], f[s]) ELSE shells[s]]
    /\ drawn' = drawn + n
    /\ turn' = Outdated(S)
    /\ ensures' = [ensures EXCEPT ![e] = {}]
    /\ UNCHANGED <<joined, toggles, strayed>>

\* The run ends without its commit.
EnsureLost(e) ==
    /\ ensures[e] # {}
    /\ ensures' = [ensures EXCEPT ![e] = {}]
    /\ UNCHANGED <<joined, shells, drawn, toggles, turn, strayed>>

NoTurn == [shell |-> NoShell, key |-> 0, fresh |-> FALSE]

\* A turn begins: the dispatcher reads the key it will carry all along.
TurnBegin ==
    /\ turn = NoTurn
    /\ \E s \in Existing :
          turn' = [shell |-> s, key |-> shells[s].key, fresh |-> shells[s].key # 0]
    /\ UNCHANGED <<joined, shells, drawn, toggles, ensures, strayed>>

TurnEnd ==
    /\ turn # NoTurn
    /\ turn' = NoTurn
    /\ UNCHANGED <<joined, shells, drawn, toggles, ensures, strayed>>

\* db_init: ensure_forge (shared, nobody's) and seed_exp_prime (the chat target
\* of user 1), both without a key.
Init ==
    /\ shells = [s \in Shells |->
          [exists |-> s \in Seeds,
           owner |-> IF s \in Seeds \ SharedShells THEN Owner1 ELSE NoUser,
           chat |-> s \in Seeds \ SharedShells, key |-> 0, hash |-> 0]]
    /\ joined = FirstUsers
    /\ drawn = 0
    /\ toggles = [c \in Clients |-> Idle]
    /\ ensures = [e \in Ensurers |-> {}]
    /\ turn = NoTurn
    /\ strayed = {}

Next ==
    \/ \E s \in Shells : Activate(s) \/ Rotate(s)
    \/ \E s \in Shells, u \in joined : CreateShell(s, u)
    \/ \E s \in Shells, u \in Users : CreateUser(s, u)
    \/ \E s \in Shells, to \in joined \cup {NoUser} : Assign(s, to)
    \/ \E c \in Clients : ToggleWrite(c) \/ \E s \in Shells : ToggleRead(c, s)
    \/ \E e \in Ensurers : EnsureRead(e) \/ EnsureMint(e) \/ EnsureLost(e)
    \/ TurnBegin \/ TurnEnd

Spec == Init /\ [][Next]_vars

(***************************************************************************)
(* Properties                                                              *)
(***************************************************************************)

\* Every variable has its type.
TypeOK ==
    /\ joined \subseteq Users
    /\ shells \in [Shells -> Shell]
    /\ drawn \in 0..MaxKeys
    /\ toggles \in [Clients -> Toggling]
    /\ ensures \in [Ensurers -> SUBSET Shells]
    /\ turn \in [shell : Shells \cup {NoShell}, key : Nat, fresh : BOOLEAN]
    /\ strayed \subseteq Users

\* "The user's browser-chat target" is one shell: new users, activations and
\* toggles in any order leave a user at most one.  The code does not keep this
\* for a user who is handed a second one, by an assignment of a target or by a
\* toggle that an assignment has overtaken; such a user is left out until an
\* activation or a toggle of a shell of theirs, which must leave them one again.
OneTarget == \A u \in Users \ strayed : Cardinality(Targets(u)) <= 1

\* The calls of a turn are those of its shell: the key it carries, unless none
\* was there or it has been replaced since the turn began, resolves to the
\* shell and passes the gate of the shell's own rows.  ("No window where the
\* plaintext and hash disagree.")
TurnKeyResolves ==
    turn.fresh =>
        /\ Keyed(turn.key) = {turn.shell}
        /\ PassesOwner(Resolved(NoUser, turn.key), turn.shell)
=============================================================================

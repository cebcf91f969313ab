------------------------------ MODULE Accounts ------------------------------
(***************************************************************************)
(* Users of the application and their credentials at the broker: creation  *)
(* and recovery in two stores, the admin flag (api/routers/admin.py), and  *)
(* login (api/routers/auth.py).  A handler runs in a thread of the API;    *)
(* every call of the broker and every transaction of it is a step, and     *)
(* between two steps other handlers run or the request is lost: killed     *)
(* with the process, or given up because the broker did not answer.        *)
(*                                                                         *)
(* Abstractions.  is_active, which no code clears, is left out; so are the *)
(* audit rows.  The backoff of module SignIn may refuse a login before its *)
(* first step here, and the limit of five codes a minute, which the broker *)
(* keeps in memory, may refuse any code.  Of a session only the code that  *)
(* opened it is kept.                                                      *)
(***************************************************************************)
EXTENDS Credentials

CONSTANTS Users,        \* rows users may use
          FirstUsers,   \* users that exist at the start, admins without account
          FirstAccount, \* EMAIL of provision_user_1
          Clients,      \* handlers that run at a time
          NoUser, NoAcct,
          MaxSessions,  \* a bound: sessions opened
          MaxFaults     \* a bound: lost requests

ASSUME AccountsAssumption ==
    /\ FirstUsers \subseteq Users /\ FirstUsers # {}
    /\ FirstAccount \in Accounts
    /\ NoUser \notin Users
    /\ NoAcct \notin Accounts
    /\ MaxSessions \in Nat /\ MaxFaults \in Nat

VARIABLES users,     \* users
          opened,    \* user_sessions, in the order they were opened
          reqs,      \* what each handler is at
          faults,    \* requests lost so far
          strayed,   \* history: accounts whose mirror a lost or overlapping request left
          vied       \* history: two requests to change admin flags have overlapped

appVars == <<users, opened, reqs, faults, strayed, vied>>
vars == <<credVars, appVars>>

User == [exists : BOOLEAN, acct : Accounts \cup {NoAcct}, admin : BOOLEAN,
         mirror : BOOLEAN]

AppSession == [user : Users, acct : Accounts, code : Code]

Ops == {"idle", "login", "create", "provision", "reset", "admin"}
Places == {"start", "verify", "lookup", "code", "mirror", "mint",
           "broker", "row", "write"}

\* flag is totp_enrolled in a login and the new value in an admin request.
Request == [op : Ops, pc : Places, acct : Accounts \cup {NoAcct},
            user : Users \cup {NoUser}, pw : Nat, code : Code, flag : BOOLEAN]

Idle == [op |-> "idle", pc |-> "start", acct |-> NoAcct, user |-> NoUser,
         pw |-> 0, code |-> NoCode, flag |-> FALSE]

Existing == {u \in Users : users[u].exists}
Linked(a) == {u \in Existing : users[u].acct = a}
Admins == {u \in Existing : users[u].admin}
At(c, op, pc) == reqs[c].op = op /\ reqs[c].pc = pc

Goto(c, pc) == reqs' = [reqs EXCEPT ![c].pc = pc]
Done(c) == reqs' = [reqs EXCEPT ![c] = Idle]

(***************************************************************************)
(* POST /auth/login                                                        *)
(***************************************************************************)

\* The person's password is the one last told, and the code, if one is given,
\* what the authenticator shows.  (Wrong ones are answered as stale ones are.)
LoginStart(c, a) ==
    /\ reqs[c] = Idle
    /\ Len(opened) < MaxSessions
    /\ \E code \in {NoCode, [seed |-> auth[a].seed, step |-> now]} :
          reqs' = [reqs EXCEPT ![c] = [Idle EXCEPT !.op = "login", !.pc = "verify",
                                         !.acct = a, !.pw = auth[a].pw, !.code = code]]
    /\ UNCHANGED <<credVars, users, opened, faults, strayed, vied>>

LoginVerify(c) ==
    LET r == reqs[c] IN
    /\ At(c, "login", "verify")
    /\ \/ /\ PasswordOk(r.acct, r.pw)
          /\ reqs' = [reqs EXCEPT ![c].pc = "lookup", ![c].flag = auth[r.acct].enrolled]
       \/ /\ ~PasswordOk(r.acct, r.pw)
          /\ Done(c)
    /\ UNCHANGED <<credVars, users, opened, faults, strayed, vied>>

\* The account's user; an account without one ends the request.
LoginLookup(c) ==
    LET r == reqs[c] IN
    /\ At(c, "login", "lookup")
    /\ \/ \E u \in Linked(r.acct) :
             reqs' = [reqs EXCEPT ![c].pc = "code", ![c].user = u]
       \/ Linked(r.acct) = {} /\ Done(c)
    /\ UNCHANGED <<credVars, users, opened, faults, strayed, vied>>

\* No code yet: the client is told which second step to render, and a first
\* login is given a pending seed (or an error, if it has enrolled meanwhile).
LoginStage(c) ==
    LET r == reqs[c] IN
    /\ At(c, "login", "code")
    /\ r.code = NoCode
    /\ Done(c)
    /\ \/ /\ ~r.flag /\ ~auth[r.acct].enrolled
          /\ EnrollBegin(r.acct)
       \/ /\ r.flag \/ auth[r.acct].enrolled
          /\ UNCHANGED auth
    /\ UNCHANGED <<now, users, opened, faults, strayed, vied>>

\* A code the broker accepts: confirmed by a first login, verified later.
LoginCodeOk(c) ==
    LET r == reqs[c] IN
    /\ At(c, "login", "code")
    /\ r.code # NoCode
    /\ \/ /\ r.flag
          /\ VerifyOk(r.acct, r.code)
          /\ Consume(r.acct, r.code)
          /\ Goto(c, "mint")
       \/ /\ ~r.flag
          /\ ConfirmOk(r.acct, r.code)
          /\ EnrollConfirm(r.acct, r.code)
          /\ Goto(c, "mirror")
    /\ UNCHANGED <<now, users, opened, faults, strayed, vied>>

\* A code the broker refuses, for itself or for the limit on attempts.
LoginCodeBad(c) ==
    LET r == reqs[c] IN
    /\ At(c, "login", "code")
    /\ r.code # NoCode
    /\ Done(c)
    /\ UNCHANGED <<credVars, users, opened, faults, strayed, vied>>

LoginMirror(c) ==
    /\ At(c, "login", "mirror")
    /\ users' = [users EXCEPT ![reqs[c].user].mirror = TRUE]
    /\ Goto(c, "mint")
    /\ UNCHANGED <<credVars, opened, faults, strayed, vied>>

\* A mutant: create_session is given its two identities in the wrong order.
LoginMintSwapped(c) ==
    LET r == reqs[c] IN
    /\ At(c, "login", "mint")
    /\ opened' = Append(opened, [user |-> r.acct, acct |-> r.user, code |-> r.code])
    /\ Done(c)
    /\ UNCHANGED <<credVars, users, faults, strayed, vied>>

\* create_session.
LoginMint(c) ==
    LET r == reqs[c] IN
    /\ At(c, "login", "mint")
    /\ opened' = Append(opened, [user |-> r.user, acct |-> r.acct, code |-> r.code])
    /\ Done(c)
    /\ UNCHANGED <<credVars, users, faults, strayed, vied>>

(***************************************************************************)
(* Requests of admins                                                      *)
(***************************************************************************)

\* POST /admin/users: no user has the email.
CreateStart(c, a) ==
    /\ reqs[c] = Idle
    /\ Admins # {}
    /\ Linked(a) = {}
    /\ \E f \in BOOLEAN :
          reqs' = [reqs EXCEPT ![c] = [Idle EXCEPT !.op = "create", !.pc = "broker",
                                                   !.acct = a, !.flag = f]]
    /\ UNCHANGED <<credVars, users, opened, faults, strayed, vied>>

\* provision_user_1.main: the first user has no account.
ProvisionStart(c) ==
    /\ reqs[c] = Idle
    /\ \E u \in FirstUsers :
          /\ users[u].acct = NoAcct
          /\ reqs' = [reqs EXCEPT ![c] = [Idle EXCEPT !.op = "provision", !.pc = "broker",
                                                      !.acct = FirstAccount, !.user = u]]
    /\ UNCHANGED <<credVars, users, opened, faults, strayed, vied>>

\* A mutant: an email that has a credential is taken for a success.
NewCredentialAdopts(c) ==
    LET r == reqs[c] IN
    /\ r.op \in {"create", "provision"}
    /\ r.pc = "broker"
    /\ IF auth[r.acct].exists THEN UNCHANGED auth ELSE CreateAccount(r.acct)
    /\ Goto(c, "row")
    /\ UNCHANGED <<now, users, opened, faults, strayed, vied>>

\* The broker makes the credential, or answers that the email has one.
NewCredential(c) ==
    LET r == reqs[c] IN
    /\ r.op \in {"create", "provision"}
    /\ r.pc = "broker"
    /\ \/ ~auth[r.acct].exists /\ CreateAccount(r.acct) /\ Goto(c, "row")
       \/ auth[r.acct].exists /\ UNCHANGED auth /\ Done(c)
    /\ UNCHANGED <<now, users, opened, faults, strayed, vied>>

\* The user's row, with the shell minted for it in the same transaction.
CreateRow(c) ==
    LET r == reqs[c] IN
    /\ At(c, "create", "row")
    /\ \E u \in Users \ Existing :
          users' = [users EXCEPT ![u] = [exists |-> TRUE, acct |-> r.acct,
                                         admin |-> r.flag, mirror |-> FALSE]]
    /\ Done(c)
    /\ UNCHANGED <<credVars, opened, faults, strayed, vied>>

ProvisionRow(c) ==
    LET r == reqs[c] IN
    /\ At(c, "provision", "row")
    /\ users' = [users EXCEPT ![r.user].acct = r.acct, ![r.user].admin = TRUE]
    /\ Done(c)
    /\ UNCHANGED <<credVars, opened, faults, strayed, vied>>

\* POST /admin/users/{id}/reset-auth.
ResetStart(c, u) ==
    /\ reqs[c] = Idle
    /\ Admins # {}
    /\ u \in Existing
    /\ users[u].acct # NoAcct
    /\ auth[users[u].acct].pw <= MaxResets
    /\ reqs' = [reqs EXCEPT ![c] = [Idle EXCEPT !.op = "reset", !.pc = "broker",
                                                !.acct = users[u].acct, !.user = u]]
    /\ UNCHANGED <<credVars, users, opened, faults, strayed, vied>>

\* Logins of account a whose enrolment the broker has and the mirror has not.
Mirroring(a) == {c \in Clients : At(c, "login", "mirror") /\ reqs[c].acct = a}

ResetBroker(c) ==
    LET r == reqs[c] IN
    /\ At(c, "reset", "broker")
    /\ ResetAuth(r.acct)
    /\ Goto(c, "row")
    /\ strayed' = IF Mirroring(r.acct) = {} THEN strayed ELSE strayed \cup {r.acct}
    /\ UNCHANGED <<now, users, opened, faults, vied>>

\* A mutant: recovery leaves the mirror as it is.
ResetRowOmitted(c) ==
    /\ At(c, "reset", "row")
    /\ Done(c)
    /\ UNCHANGED <<credVars, users, opened, faults, strayed, vied>>

\* The mirror is cleared, also when the user has enrolled again meanwhile.
ResetRow(c) ==
    LET r == reqs[c] IN
    /\ At(c, "reset", "row")
    /\ users' = [users EXCEPT ![r.user].mirror = FALSE]
    /\ strayed' = IF auth[r.acct].enrolled THEN strayed \cup {r.acct} ELSE strayed
    /\ Done(c)
    /\ UNCHANGED <<credVars, opened, faults, vied>>

\* A mutant: the guard counts the user itself.
OtherAdminsAll(u) == Admins

\* Another admin than u, as the guard of the last admin counts.
OtherAdmins(u) == Admins \ {u}

\* PATCH /admin/users/{id}/admin, up to its guard.
AdminStart(c, u) ==
    /\ reqs[c] = Idle
    /\ Admins # {}
    /\ u \in Existing
    /\ \E v \in BOOLEAN :
          /\ users[u].admin /\ ~v => OtherAdmins(u) # {}
          /\ reqs' = [reqs EXCEPT ![c] = [Idle EXCEPT !.op = "admin", !.pc = "write",
                                                      !.user = u, !.flag = v]]
    /\ vied' = (vied \/ \E d \in Clients : reqs[d].op = "admin")
    /\ UNCHANGED <<credVars, users, opened, faults, strayed>>

AdminWrite(c) ==
    LET r == reqs[c] IN
    /\ At(c, "admin", "write")
    /\ users' = [users EXCEPT ![r.user].admin = r.flag]
    /\ Done(c)
    /\ UNCHANGED <<credVars, opened, faults, strayed, vied>>

(***************************************************************************)
(* Faults                                                                  *)
(***************************************************************************)

\* A request is lost between two of its steps.
Lost(c) ==
    LET r == reqs[c] IN
    /\ r # Idle
    /\ faults < MaxFaults
    /\ faults' = faults + 1
    /\ strayed' = IF r.pc \in {"mirror", "row"} THEN strayed \cup {r.acct} ELSE strayed
    /\ Done(c)
    /\ UNCHANGED <<credVars, users, opened, vied>>

\* The broker is killed while it resets an account.
ResetTorn(c) ==
    LET r == reqs[c] IN
    /\ At(c, "reset", "broker")
    /\ faults < MaxFaults
    /\ faults' = faults + 1
    /\ ResetHalf(r.acct)
    /\ Done(c)
    /\ UNCHANGED <<now, users, opened, strayed, vied>>

(***************************************************************************)
(* Specification                                                           *)
(***************************************************************************)

Init ==
    /\ CredInit
    /\ users = [u \in Users |-> [exists |-> u \in FirstUsers, acct |-> NoAcct,
                                 admin |-> u \in FirstUsers, mirror |-> FALSE]]
    /\ opened = << >>
    /\ reqs = [c \in Clients |-> Idle]
    /\ faults = 0
    /\ strayed = {}
    /\ vied = FALSE

Login(c) ==
    \/ \E a \in Accounts : LoginStart(c, a)
    \/ LoginVerify(c) \/ LoginLookup(c) \/ LoginStage(c)
    \/ LoginCodeOk(c) \/ LoginCodeBad(c)
    \/ LoginMirror(c) \/ LoginMint(c)

Administer(c) ==
    \/ \E a \in Accounts : CreateStart(c, a)
    \/ ProvisionStart(c) \/ NewCredential(c) \/ CreateRow(c) \/ ProvisionRow(c)
    \/ \E u \in Users : ResetStart(c, u) \/ AdminStart(c, u)
    \/ ResetBroker(c) \/ ResetRow(c) \/ AdminWrite(c)

Next ==
    \/ \E c \in Clients : Login(c) \/ Administer(c) \/ Lost(c) \/ ResetTorn(c)
    \/ Tick /\ UNCHANGED <<auth, appVars>>

Spec == Init /\ [][Next]_vars

(***************************************************************************)
(* Properties                                                              *)
(***************************************************************************)

\* Every variable has its type.
TypeOK ==
    /\ CredTypeOK
    /\ users \in [Users -> User]
    /\ opened \in Seq(AppSession)
    /\ reqs \in [Clients -> Request]
    /\ faults \in Nat
    /\ strayed \subseteq Accounts
    /\ vied \in BOOLEAN

\* A code opens one session, whatever logins run side by side and whatever
\* enrolments and recoveries come between ("a consumed step can't be reused").
CodeUsedOnce ==
    \A i, j \in DOMAIN opened :
        opened[i].acct = opened[j].acct /\ opened[i].code = opened[j].code => i = j

\* The two stores agree on who exists: a user's account is at the broker and
\* is no other user's, and while no request has been lost an account without
\* a user is one that a running request is about to give its user.
StoresLinked ==
    /\ \A u \in Existing : users[u].acct # NoAcct =>
          auth[users[u].acct].exists /\ Linked(users[u].acct) = {u}
    /\ faults = 0 => \A a \in Accounts : auth[a].exists /\ Linked(a) = {} =>
          \E c \in Clients : reqs[c].acct = a /\ reqs[c].pc = "row"

\* The mirror of a user's enrolment tells what the broker knows, but while a
\* request is on its way from one store to the other, and but for accounts on
\* which such a request was lost or overlapped.
MirrorAgrees ==
    \A u \in Existing : LET a == users[u].acct IN
        \/ a = NoAcct \/ a \in strayed
        \/ users[u].mirror = auth[a].enrolled
        \/ \E c \in Clients : reqs[c].acct = a /\ reqs[c].pc \in {"mirror", "row"}

\* "Never clear the last remaining (active) admin": while requests to change
\* the flag come one at a time, there is an admin.
AdminRemains == vied \/ Admins # {}
=============================================================================

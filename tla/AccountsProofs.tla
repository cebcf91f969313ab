--------------------------- MODULE AccountsProofs ---------------------------
(***************************************************************************)
(* The promises of module Accounts hold for any accounts, users, requests  *)
(* and faults.  IInv carries all of them but the agreement of the mirror   *)
(* of enrolment, which has an invariant of its own, MirrorInv, that is     *)
(* inductive given IInv.                                                   *)
(***************************************************************************)
EXTENDS Accounts, TLAPS

(***************************************************************************)
(* The inductive invariant                                                 *)
(***************************************************************************)

\* What a request has been given by the time it is at a step.
ReqShape ==
    \A c \in Clients : LET r == reqs[c] IN
        /\ r.op \in {"login", "create", "provision", "reset"} => r.acct \in Accounts
        /\ r.pc \in {"mirror", "row"} => r.acct \in Accounts
        /\ r.op \in {"provision", "reset", "admin"} => r.user \in Existing
        /\ r.op = "login" /\ r.pc \in {"code", "mirror", "mint"} => r.user \in Existing
        /\ r.op = "provision" => r.user \in FirstUsers /\ r.acct = FirstAccount
        /\ r.op = "reset" => users[r.user].acct = r.acct

\* A seed is none or the newest one drawn; only accounts with a seed are enrolled.
SeedsDrawn ==
    \A a \in Accounts : /\ auth[a].seed \in {0, auth[a].drawn}
                        /\ auth[a].enrolled => auth[a].seed # 0

\* A code that can open nothing any more: of an earlier seed, or of an earlier step of
\* an enrolled one.
Consumed(a, code) ==
    /\ code.seed \in 1..auth[a].drawn
    /\ code.seed = auth[a].seed => auth[a].enrolled /\ code.step <= auth[a].last

\* Logins whose code the broker has accepted.
Accepted(c) == reqs[c].op = "login" /\ reqs[c].pc \in {"mirror", "mint"}

\* What is accepted is consumed, and no two of it are one.
CodesConsumed ==
    /\ \A i \in DOMAIN opened : Consumed(opened[i].acct, opened[i].code)
    /\ \A c \in Clients : Accepted(c) => Consumed(reqs[c].acct, reqs[c].code)

CodesApart ==
    /\ CodeUsedOnce
    /\ \A c \in Clients, i \in DOMAIN opened :
          Accepted(c) => <<reqs[c].acct, reqs[c].code>> # <<opened[i].acct, opened[i].code>>
    /\ \A c, d \in Clients : Accepted(c) /\ Accepted(d)
          /\ reqs[c].acct = reqs[d].acct /\ reqs[c].code = reqs[d].code => c = d

\* Requests that will write a row for an account that has none.
Linking(c) == reqs[c].op \in {"create", "provision"} /\ reqs[c].pc = "row"

Links ==
    /\ \A u \in FirstUsers : u \in Existing /\ users[u].acct \in {NoAcct, FirstAccount}
    /\ \A u \in Existing : users[u].acct # NoAcct => auth[users[u].acct].exists
    /\ \A u, v \in Existing : users[u].acct = users[v].acct /\ users[u].acct # NoAcct => u = v
    /\ \A c \in Clients : Linking(c) => auth[reqs[c].acct].exists /\ Linked(reqs[c].acct) = {}
    /\ \A c, d \in Clients : Linking(c) /\ Linking(d) /\ reqs[c].acct = reqs[d].acct => c = d
    /\ faults = 0 => \A a \in Accounts : auth[a].exists /\ Linked(a) = {} =>
          \E c \in Clients : reqs[c].acct = a /\ Linking(c)

\* While changes of the admin flag do not overlap, the one that is under way leaves an
\* admin besides the user it takes the flag from.
AdminsLeft ==
    vied \/ /\ Admins # {}
            /\ \A c \in Clients : reqs[c].op = "admin" /\ ~reqs[c].flag => OtherAdmins(reqs[c].user) # {}
            /\ \A c, d \in Clients : reqs[c].op = "admin" /\ reqs[d].op = "admin" => c = d

IInv == TypeOK /\ ReqShape /\ SeedsDrawn /\ CodesConsumed /\ CodesApart /\ Links /\ AdminsLeft

LEMMA AccountTypes ==
    ASSUME TypeOK, NEW a \in Accounts
    PROVE  /\ auth[a] \in Account
           /\ auth[a].exists \in BOOLEAN /\ auth[a].enrolled \in BOOLEAN
           /\ auth[a].pw \in Nat /\ auth[a].seed \in Nat /\ auth[a].drawn \in Nat /\ auth[a].last \in Nat
BY DEF TypeOK, CredTypeOK, Account

LEMMA RequestTypes ==
    ASSUME TypeOK, NEW c \in Clients
    PROVE  /\ reqs[c] \in Request
           /\ reqs[c].op \in Ops /\ reqs[c].pc \in Places /\ reqs[c].flag \in BOOLEAN
           /\ reqs[c].acct \in Accounts \cup {NoAcct} /\ reqs[c].user \in Users \cup {NoUser}
           /\ reqs[c].pw \in Nat /\ reqs[c].code \in Code
BY DEF TypeOK, Request

LEMMA UserTypes ==
    ASSUME TypeOK, NEW u \in Users
    PROVE  /\ users[u] \in User
           /\ users[u].exists \in BOOLEAN /\ users[u].admin \in BOOLEAN /\ users[u].mirror \in BOOLEAN
           /\ users[u].acct \in Accounts \cup {NoAcct}
BY DEF TypeOK, User

LEMMA IdleTypes == /\ Idle \in Request /\ Idle.op = "idle" /\ Idle.pc = "start"
                   /\ NoCode \in Code
BY DEF Idle, Request, Ops, Places, NoCode, Code

LEMMA Initially == Init => IInv
<1> SUFFICES ASSUME Init PROVE IInv
  OBVIOUS
<1> USE AccountsAssumption
<1>1. /\ auth = [a \in Accounts |-> NoAccount] /\ now = 2
      /\ users = [u \in Users |-> [exists |-> u \in FirstUsers, acct |-> NoAcct,
                                   admin |-> u \in FirstUsers, mirror |-> FALSE]]
      /\ opened = << >> /\ reqs = [c \in Clients |-> Idle]
      /\ faults = 0 /\ strayed = {} /\ vied = FALSE
  BY DEF Init, CredInit
<1>2. \A c \in Clients : reqs[c].op = "idle" /\ reqs[c].pc = "start"
  BY <1>1, IdleTypes
<1>3. \A u \in Users : /\ users[u].exists = (u \in FirstUsers)
                       /\ users[u].admin = (u \in FirstUsers)
                       /\ users[u].acct = NoAcct
  BY <1>1
<1>4. \A a \in Accounts : auth[a] = NoAccount
  BY <1>1
<1>5. TypeOK
  <2>1. auth \in [Accounts -> Account]
    BY <1>1 DEF NoAccount, Account
  <2>2. users \in [Users -> User]
    BY <1>1 DEF User
  <2>3. reqs \in [Clients -> Request]
    BY <1>1, IdleTypes
  <2>4. opened \in Seq(AppSession)
    BY <1>1
  <2> QED  BY <1>1, <2>1, <2>2, <2>3, <2>4 DEF TypeOK, CredTypeOK
<1>6. ReqShape  BY <1>2 DEF ReqShape
<1>7. SeedsDrawn  BY <1>4 DEF SeedsDrawn, NoAccount
<1>8. CodesConsumed /\ CodesApart
  BY <1>1, <1>2 DEF CodesConsumed, CodesApart, CodeUsedOnce, Accepted
<1>9. Links
  <2>1. \A u \in FirstUsers : u \in Existing
    BY <1>3 DEF Existing
  <2> QED  BY <1>2, <1>3, <1>4, <2>1 DEF Links, Linking, Existing, NoAccount
<1>10. AdminsLeft
  BY <1>2, <1>3 DEF AdminsLeft, Admins, Existing
<1> QED  BY <1>5, <1>6, <1>7, <1>8, <1>9, <1>10 DEF IInv

(***************************************************************************)
(* What keeps the parts of the invariant                                   *)
(***************************************************************************)

\* A request that is replaced, moves on, or ends; the others stay as they are.
LEMMA NewRequest ==
    ASSUME TypeOK, NEW c \in Clients, NEW r \in Request, reqs' = [reqs EXCEPT ![c] = r]
    PROVE  /\ reqs' \in [Clients -> Request] /\ reqs'[c] = r
           /\ \A d \in Clients \ {c} : reqs'[d] = reqs[d]
BY DEF TypeOK

LEMMA DoneRequest ==
    ASSUME TypeOK, NEW c \in Clients, Done(c)
    PROVE  /\ reqs' \in [Clients -> Request] /\ reqs'[c].op = "idle" /\ reqs'[c].pc = "start"
           /\ \A d \in Clients \ {c} : reqs'[d] = reqs[d]
BY NewRequest, IdleTypes DEF Done

LEMMA GotoRequest ==
    ASSUME TypeOK, NEW c \in Clients, NEW pc \in Places, Goto(c, pc)
    PROVE  /\ reqs' \in [Clients -> Request] /\ reqs'[c].pc = pc
           /\ reqs'[c].op = reqs[c].op /\ reqs'[c].acct = reqs[c].acct
           /\ reqs'[c].user = reqs[c].user /\ reqs'[c].code = reqs[c].code
           /\ reqs'[c].flag = reqs[c].flag
           /\ \A d \in Clients \ {c} : reqs'[d] = reqs[d]
<1> DEFINE r == [reqs[c] EXCEPT !.pc = pc]
<1>1. reqs' = [reqs EXCEPT ![c] = r]
  BY DEF Goto, TypeOK
<1>2. reqs[c] \in Request
  BY RequestTypes
<1>3. /\ r \in Request /\ r.pc = pc /\ r.op = reqs[c].op /\ r.acct = reqs[c].acct
      /\ r.user = reqs[c].user /\ r.code = reqs[c].code /\ r.flag = reqs[c].flag
  BY <1>2 DEF Request
<1> HIDE DEF r
<1> QED  BY <1>1, <1>3, NewRequest

\* Users keep who they are: existence and account.
SameUsers == \A u \in Users : users'[u].exists = users[u].exists /\ users'[u].acct = users[u].acct

LEMMA SameSets ==
    ASSUME SameUsers PROVE Existing' = Existing /\ \A a : Linked(a)' = Linked(a)
BY DEF SameUsers, Existing, Linked

\* No account is given another name and no user loses its own: what requests have read
\* of users stays true.
LEMMA ShapeKeeps ==
    ASSUME IInv, NEW c \in Clients, \A d \in Clients \ {c} : reqs'[d] = reqs[d],
           \A u \in Existing : u \in Existing' /\ (users[u].acct # NoAcct => users'[u].acct = users[u].acct),
           LET r == reqs'[c] IN
              /\ r.op \in {"login", "create", "provision", "reset"} => r.acct \in Accounts
              /\ r.pc \in {"mirror", "row"} => r.acct \in Accounts
              /\ r.op \in {"provision", "reset", "admin"} => r.user \in Existing'
              /\ r.op = "login" /\ r.pc \in {"code", "mirror", "mint"} => r.user \in Existing'
              /\ r.op = "provision" => r.user \in FirstUsers /\ r.acct = FirstAccount
              /\ r.op = "reset" => users'[r.user].acct = r.acct
    PROVE  ReqShape'
<1>1. ASSUME NEW d \in Clients \ {c}, reqs[d].op = "reset"
      PROVE  users'[reqs[d].user].acct = reqs[d].acct
  BY <1>1, AccountsAssumption DEF IInv, ReqShape
<1> QED  BY <1>1 DEF IInv, ReqShape

\* Codes that are consumed stay so, and no login is newly accepted.
LEMMA CodesKeep ==
    ASSUME IInv, NEW c \in Clients, \A d \in Clients \ {c} : reqs'[d] = reqs[d],
           Accepted(c)' => Accepted(c) /\ reqs'[c].acct = reqs[c].acct /\ reqs'[c].code = reqs[c].code,
           opened' = opened,
           \A a \in Accounts, code \in Code : Consumed(a, code) => Consumed(a, code)'
    PROVE  CodesConsumed' /\ CodesApart'
<1>1. \A d \in Clients : Accepted(d)' =>
         /\ Accepted(d) /\ reqs'[d].acct = reqs[d].acct /\ reqs'[d].code = reqs[d].code
         /\ reqs[d].acct \in Accounts /\ reqs[d].code \in Code
  BY RequestTypes DEF Accepted, IInv, ReqShape
<1>2. \A i \in DOMAIN opened : opened[i].acct \in Accounts /\ opened[i].code \in Code
  <2>1. opened \in Seq(AppSession)
    BY DEF IInv, TypeOK
  <2>2. \A i \in DOMAIN opened : opened[i] \in AppSession
    BY <2>1
  <2> QED  BY <2>2 DEF AppSession
<1>3. ASSUME NEW d \in Clients, Accepted(d)' PROVE Consumed(reqs[d].acct, reqs[d].code)'
  <2>1. Consumed(reqs'[d].acct, reqs'[d].code)
    BY <1>1, <1>3 DEF IInv, CodesConsumed
  <2>2. reqs'[d].acct \in Accounts /\ reqs'[d].code \in Code
    BY <1>1, <1>3
  <2> QED  BY <2>1, <2>2 DEF Consumed
<1>4. ASSUME NEW i \in DOMAIN opened PROVE Consumed(opened[i].acct, opened[i].code)'
  BY <1>2, <1>4 DEF IInv, CodesConsumed, Consumed
<1>5. CodesConsumed'  BY <1>3, <1>4 DEF CodesConsumed
<1>6. CodesApart'  BY <1>1 DEF IInv, CodesApart, CodeUsedOnce
<1> QED  BY <1>5, <1>6

\* Users and the existence of accounts stay as they are, and no row is newly due.
LEMMA LinksKeep ==
    ASSUME IInv, NEW c \in Clients, \A d \in Clients \ {c} : reqs'[d] = reqs[d],
           SameUsers, \A a \in Accounts : auth'[a].exists = auth[a].exists,
           Linking(c)' => Linking(c) /\ reqs'[c].acct = reqs[c].acct,
           faults' = 0 => faults = 0 /\ ~Linking(c)
    PROVE  Links'
<1>1. Existing' = Existing /\ \A a : Linked(a)' = Linked(a)
  BY SameSets
<1>2. \A d \in Clients : Linking(d)' =>
          Linking(d) /\ reqs'[d].acct = reqs[d].acct /\ reqs[d].acct \in Accounts
  BY DEF Linking, IInv, ReqShape
<1>3. \A u \in Existing : u \in Users /\ (users[u].acct # NoAcct => users[u].acct \in Accounts)
  BY UserTypes DEF Existing, IInv
<1>4. /\ \A u \in FirstUsers : u \in Existing' /\ users'[u].acct \in {NoAcct, FirstAccount}
      /\ \A u \in Existing' : users'[u].acct # NoAcct => auth'[users'[u].acct].exists
      /\ \A u, v \in Existing' : users'[u].acct = users'[v].acct /\ users'[u].acct # NoAcct => u = v
  BY <1>1, <1>3 DEF IInv, Links, SameUsers
<1>5. \A d \in Clients : Linking(d)' => auth'[reqs'[d].acct].exists /\ Linked(reqs[d].acct)' = {}
  <2> SUFFICES ASSUME NEW d \in Clients, Linking(d)'
               PROVE  auth'[reqs'[d].acct].exists /\ Linked(reqs[d].acct)' = {}
    OBVIOUS
  <2>1. auth[reqs[d].acct].exists /\ Linked(reqs[d].acct) = {} /\ reqs'[d].acct = reqs[d].acct
    BY <1>2 DEF IInv, Links
  <2>2. {u \in Existing' : users'[u].acct = reqs[d].acct} = {}
    BY <1>1, <1>3, <2>1 DEF Linked, SameUsers
  <2> QED  BY <1>2, <2>1, <2>2 DEF Linked
<1>6. \A d, e \in Clients : Linking(d)' /\ Linking(e)' /\ reqs'[d].acct = reqs'[e].acct => d = e
  BY <1>2 DEF IInv, Links
<1>7. faults' = 0 => \A a \in Accounts : auth'[a].exists /\ Linked(a)' = {} =>
          \E d \in Clients : reqs'[d].acct = a /\ Linking(d)'
  <2> SUFFICES ASSUME faults' = 0, NEW a \in Accounts, auth'[a].exists, Linked(a)' = {}
               PROVE  \E d \in Clients : reqs'[d].acct = a /\ Linking(d)'
    OBVIOUS
  <2>1. PICK d \in Clients : reqs[d].acct = a /\ Linking(d)
    BY <1>1 DEF IInv, Links
  <2>2. d # c  BY <2>1
  <2> QED  BY <2>1, <2>2 DEF Linking
<1> QED  BY <1>4, <1>5, <1>6, <1>7 DEF Links

\* No admin goes, and no change of the flag is newly under way.
LEMMA AdminsKeep ==
    ASSUME IInv, NEW c \in Clients, \A d \in Clients \ {c} : reqs'[d] = reqs[d],
           reqs'[c].op # "admin", Admins \subseteq Admins', vied' = vied
    PROVE  AdminsLeft'
<1>1. \A d \in Clients : reqs'[d].op = "admin" => d # c /\ reqs'[d] = reqs[d]
  OBVIOUS
<1>2. \A u : Admins \ {u} # {} => Admins' \ {u} # {}
  OBVIOUS
<1>3. \A d \in Clients : reqs'[d].op = "admin" /\ ~reqs'[d].flag /\ ~vied => Admins' \ {reqs'[d].user} # {}
  BY <1>1, <1>2 DEF IInv, AdminsLeft, OtherAdmins
<1>4. \A d, e \in Clients : reqs'[d].op = "admin" /\ reqs'[e].op = "admin" /\ ~vied => d = e
  BY <1>1 DEF IInv, AdminsLeft
<1>5. ~vied => Admins' # {}
  BY DEF IInv, AdminsLeft
<1> QED  BY <1>3, <1>4, <1>5 DEF AdminsLeft, OtherAdmins

(***************************************************************************)
(* The steps of a login                                                    *)
(***************************************************************************)

\* A request that begins, or moves on by what it has read: no table changes, and it is
\* neither accepted nor due to write a row.
LEMMA ReadingKeeps ==
    ASSUME IInv, NEW c \in Clients, NEW r \in Request, reqs' = [reqs EXCEPT ![c] = r],
           UNCHANGED <<auth, now, users, opened>>, faults' \in Nat, faults' = 0 => faults = 0 /\ ~Linking(c),
           strayed' \subseteq Accounts, vied' = vied,
           r.op # "admin", r.pc \notin {"mirror", "mint", "row"},
           r.op \in {"login", "create", "provision", "reset"} => r.acct \in Accounts,
           r.op \in {"provision", "reset"} => r.user \in Existing,
           r.op = "login" /\ r.pc = "code" => r.user \in Existing,
           r.op = "provision" => r.user \in FirstUsers /\ r.acct = FirstAccount,
           r.op = "reset" => users[r.user].acct = r.acct
    PROVE  IInv'
<1>1. /\ reqs' \in [Clients -> Request] /\ reqs'[c] = r
      /\ \A d \in Clients \ {c} : reqs'[d] = reqs[d]
  BY NewRequest DEF IInv
<1>2. SameUsers /\ Existing' = Existing /\ Admins' = Admins
  BY DEF SameUsers, Existing, Admins
<1>3. TypeOK'  BY <1>1 DEF IInv, TypeOK, CredTypeOK
<1>4. ReqShape'  BY <1>1, <1>2, ShapeKeeps
<1>5. SeedsDrawn'  BY DEF IInv, SeedsDrawn
<1>6. ~Accepted(c)' /\ ~Linking(c)'
  BY <1>1 DEF Accepted, Linking
<1>7. \A a \in Accounts, code \in Code : Consumed(a, code) => Consumed(a, code)'
  BY DEF Consumed
<1>8. CodesConsumed' /\ CodesApart'  BY <1>1, <1>6, <1>7, CodesKeep
<1>9. Links'  BY <1>1, <1>2, <1>6, LinksKeep
<1>10. AdminsLeft'  BY <1>1, <1>2, AdminsKeep
<1> QED  BY <1>3, <1>4, <1>5, <1>8, <1>9, <1>10 DEF IInv

\* A request that is answered without having changed anything.
LEMMA EndingKeeps ==
    ASSUME IInv, NEW c \in Clients, Done(c), ~Linking(c), UNCHANGED <<auth, now, users, opened, faults, strayed, vied>>
    PROVE  IInv'
BY ReadingKeeps, IdleTypes DEF Done, IInv, TypeOK

LEMMA LoginStartKeeps ==
    ASSUME IInv, NEW c \in Clients, NEW a \in Accounts, LoginStart(c, a) PROVE IInv'
<1>1. PICK code \in {NoCode, [seed |-> auth[a].seed, step |-> now]} :
          reqs' = [reqs EXCEPT ![c] = [Idle EXCEPT !.op = "login", !.pc = "verify",
                                         !.acct = a, !.pw = auth[a].pw, !.code = code]]
  BY DEF LoginStart
<1> DEFINE r == [Idle EXCEPT !.op = "login", !.pc = "verify", !.acct = a, !.pw = auth[a].pw, !.code = code]
<1>2. code \in Code
  BY <1>1, IdleTypes, AccountTypes DEF Code, IInv, TypeOK, CredTypeOK
<1>3. r \in Request /\ r.op = "login" /\ r.pc = "verify" /\ r.acct = a
  BY <1>2, IdleTypes, AccountTypes DEF Request, Ops, Places, IInv
<1>4. reqs' = [reqs EXCEPT ![c] = r] /\ reqs[c] = Idle /\ UNCHANGED <<auth, now, users, opened, faults, strayed, vied>>
  BY <1>1 DEF LoginStart, credVars
<1>5. ~Linking(c)
  BY <1>4, IdleTypes DEF Linking
<1> HIDE DEF r
<1> QED  BY <1>3, <1>4, <1>5, ReadingKeeps DEF IInv, TypeOK

LEMMA LoginVerifyKeeps == ASSUME IInv, NEW c \in Clients, LoginVerify(c) PROVE IInv'
<1>1. At(c, "login", "verify") /\ UNCHANGED <<auth, now, users, opened, faults, strayed, vied>>
  BY DEF LoginVerify, credVars
<1>2. ~Linking(c)
  BY <1>1 DEF At, Linking
<1>3. CASE Done(c)
  BY <1>1, <1>2, <1>3, EndingKeeps
<1>4. CASE reqs' = [reqs EXCEPT ![c].pc = "lookup", ![c].flag = auth[reqs[c].acct].enrolled]
  <2> DEFINE r == [reqs[c] EXCEPT !.pc = "lookup", !.flag = auth[reqs[c].acct].enrolled]
  <2>1. reqs' = [reqs EXCEPT ![c] = r]
    BY <1>4 DEF IInv, TypeOK
  <2>2. reqs[c].acct \in Accounts
    BY <1>1 DEF IInv, ReqShape, At
  <2>3. r \in Request /\ r.op = "login" /\ r.pc = "lookup" /\ r.acct = reqs[c].acct
    BY <1>1, <2>2, RequestTypes, AccountTypes DEF Request, Places, IInv, At
  <2> HIDE DEF r
  <2> QED  BY <1>1, <1>2, <2>1, <2>2, <2>3, ReadingKeeps DEF IInv, TypeOK
<1> QED  BY <1>3, <1>4 DEF LoginVerify

LEMMA LoginLookupKeeps == ASSUME IInv, NEW c \in Clients, LoginLookup(c) PROVE IInv'
<1>1. At(c, "login", "lookup") /\ UNCHANGED <<auth, now, users, opened, faults, strayed, vied>>
  BY DEF LoginLookup, credVars
<1>2. ~Linking(c)
  BY <1>1 DEF At, Linking
<1>3. CASE Done(c)
  BY <1>1, <1>2, <1>3, EndingKeeps
<1>4. CASE \E u \in Linked(reqs[c].acct) : reqs' = [reqs EXCEPT ![c].pc = "code", ![c].user = u]
  <2>1. PICK u \in Linked(reqs[c].acct) : reqs' = [reqs EXCEPT ![c].pc = "code", ![c].user = u]
    BY <1>4
  <2> DEFINE r == [reqs[c] EXCEPT !.pc = "code", !.user = u]
  <2>2. reqs' = [reqs EXCEPT ![c] = r]
    BY <2>1 DEF IInv, TypeOK
  <2>3. reqs[c].acct \in Accounts /\ u \in Existing /\ u \in Users
    BY <1>1 DEF IInv, ReqShape, At, Linked, Existing
  <2>4. r \in Request /\ r.op = "login" /\ r.pc = "code" /\ r.acct = reqs[c].acct /\ r.user = u
    BY <1>1, <2>3, RequestTypes DEF Request, Places, IInv, At
  <2> HIDE DEF r
  <2> QED  BY <1>1, <1>2, <2>2, <2>3, <2>4, ReadingKeeps DEF IInv, TypeOK
<1> QED  BY <1>3, <1>4 DEF LoginLookup

\* A pending seed is drawn for an account that is not enrolled: no code of it has been
\* accepted under the seed it replaces.
LEMMA LoginStageKeeps == ASSUME IInv, NEW c \in Clients, LoginStage(c) PROVE IInv'
<1>1. /\ At(c, "login", "code") /\ Done(c)
      /\ UNCHANGED <<now, users, opened, faults, strayed, vied>>
  BY DEF LoginStage
<1>2. ~Linking(c)
  BY <1>1 DEF At, Linking
<1>3. CASE UNCHANGED auth
  BY <1>1, <1>2, <1>3, EndingKeeps
<1>4. CASE ~auth[reqs[c].acct].enrolled /\ EnrollBegin(reqs[c].acct)
  <2> DEFINE a == reqs[c].acct
  <2>1. PICK b \in Accounts : b = a
    BY <1>1 DEF IInv, ReqShape, At
  <2> DEFINE n == auth[b].drawn + 1
             acc == [auth[b] EXCEPT !.drawn = n, !.seed = n, !.last = 0]
  <2>2. auth' = [auth EXCEPT ![b] = acc]
    BY <1>4, <2>1 DEF EnrollBegin, IInv, TypeOK, CredTypeOK
  <2>3. n \in Nat /\ auth[b] \in Account /\ ~auth[b].enrolled
    BY <1>4, <2>1, AccountTypes DEF IInv
  <2>4. /\ acc \in Account /\ acc.drawn = n /\ acc.seed = n /\ acc.last = 0
        /\ acc.enrolled = auth[b].enrolled /\ acc.exists = auth[b].exists
    BY <2>3 DEF Account
  <2> HIDE DEF acc
  <2>5. auth'[b] = acc /\ auth' \in [Accounts -> Account] /\ \A d \in Accounts \ {b} : auth'[d] = auth[d]
    BY <2>2, <2>4 DEF IInv, TypeOK, CredTypeOK
  <2>6. /\ reqs' \in [Clients -> Request] /\ reqs'[c].op = "idle" /\ reqs'[c].pc = "start"
        /\ \A d \in Clients \ {c} : reqs'[d] = reqs[d]
    BY <1>1, DoneRequest DEF IInv
  <2>7. SameUsers /\ Existing' = Existing /\ Admins' = Admins /\ ~Accepted(c)' /\ ~Linking(c)'
    BY <1>1, <2>6 DEF SameUsers, Existing, Admins, Accepted, Linking
  <2>8. TypeOK'  BY <1>1, <2>5, <2>6 DEF IInv, TypeOK, CredTypeOK
  <2>9. ReqShape'  BY <1>1, <2>6, <2>7, ShapeKeeps
  <2>10. SeedsDrawn'  BY <2>3, <2>4, <2>5 DEF IInv, SeedsDrawn
  <2>11. ASSUME NEW d \in Accounts, NEW code \in Code, Consumed(d, code) PROVE Consumed(d, code)'
    <3>1. CASE d = b
      <4>1. code.seed \in 1..auth[b].drawn
        BY <2>11, <3>1 DEF Consumed
      <4>2. code.seed # n /\ code.seed \in 1..n
        BY <2>3, <4>1, AccountTypes DEF IInv
      <4> QED  BY <2>4, <2>5, <3>1, <4>2 DEF Consumed
    <3>2. CASE d # b
      BY <2>5, <2>11, <3>2 DEF Consumed
    <3> QED  BY <3>1, <3>2
  <2>12. CodesConsumed' /\ CodesApart'  BY <1>1, <2>6, <2>7, <2>11, CodesKeep
  <2>13. \A d \in Accounts : auth'[d].exists = auth[d].exists
    BY <2>4, <2>5
  <2>14. Links'  BY <1>1, <1>2, <2>6, <2>7, <2>13, LinksKeep
  <2>15. AdminsLeft'  BY <1>1, <2>6, <2>7, AdminsKeep
  <2> QED  BY <2>8, <2>9, <2>10, <2>12, <2>14, <2>15 DEF IInv
<1> QED  BY <1>3, <1>4 DEF LoginStage

\* An accepted code was not consumed before, is afterwards, and takes nothing back.
LEMMA AcceptanceKeeps ==
    ASSUME IInv, NEW c \in Clients, At(c, "login", "code"), NEW pc \in {"mirror", "mint"}, Goto(c, pc),
           UNCHANGED <<now, users, opened, faults, strayed, vied>>,
           NEW acc \in Account, auth' = [auth EXCEPT ![reqs[c].acct] = acc],
           auth[reqs[c].acct].seed # 0, reqs[c].code.seed = auth[reqs[c].acct].seed,
           auth[reqs[c].acct].enrolled => reqs[c].code.step > auth[reqs[c].acct].last,
           acc.enrolled, acc.last = reqs[c].code.step,
           acc.exists = auth[reqs[c].acct].exists, acc.seed = auth[reqs[c].acct].seed,
           acc.drawn = auth[reqs[c].acct].drawn
    PROVE  IInv'
<1>1. PICK b \in Accounts : b = reqs[c].acct
  BY DEF IInv, ReqShape, At
<1>2. PICK code \in Code : code = reqs[c].code
  BY RequestTypes DEF IInv
<1>3. /\ reqs' \in [Clients -> Request] /\ reqs'[c].pc = pc /\ reqs'[c].op = "login"
      /\ reqs'[c].acct = b /\ reqs'[c].code = code /\ reqs'[c].user = reqs[c].user
      /\ \A d \in Clients \ {c} : reqs'[d] = reqs[d]
  BY <1>1, <1>2, GotoRequest DEF IInv, Places, At
<1>4. auth'[b] = acc /\ auth' \in [Accounts -> Account] /\ \A d \in Accounts \ {b} : auth'[d] = auth[d]
  BY <1>1 DEF IInv, TypeOK, CredTypeOK
<1>5. SameUsers /\ Existing' = Existing /\ Admins' = Admins
  BY DEF SameUsers, Existing, Admins
<1>6. ~Linking(c)' /\ ~Linking(c) /\ ~Accepted(c) /\ reqs[c].user \in Existing
  BY <1>3 DEF Linking, Accepted, At, IInv, ReqShape
<1>7. TypeOK'  BY <1>3, <1>4 DEF IInv, TypeOK, CredTypeOK
<1>8. ReqShape'  BY <1>3, <1>5, <1>6, ShapeKeeps
<1>9. SeedsDrawn'  BY <1>1, <1>4 DEF IInv, SeedsDrawn
<1>10. /\ auth[b].seed = auth[b].drawn /\ code.seed \in Nat /\ code.step \in Nat
       /\ auth[b].seed \in Nat /\ auth[b].drawn \in Nat /\ auth[b].last \in Nat
  BY <1>1, AccountTypes DEF IInv, SeedsDrawn, Code
<1>11. ~Consumed(b, code)
  BY <1>1, <1>2, <1>10 DEF Consumed
<1>12. Consumed(b, code)'
  <2>1. code.seed \in 1..acc.drawn /\ code.step <= acc.last
    BY <1>1, <1>2, <1>10
  <2> QED  BY <1>4, <2>1 DEF Consumed
<1>13. ASSUME NEW d \in Accounts, NEW old \in Code, Consumed(d, old) PROVE Consumed(d, old)'
  <2>1. CASE d = b
    <3>1. old.step \in Nat  BY DEF Code
    <3>2. old.seed = auth[b].seed => old.step <= acc.last
      BY <1>1, <1>2, <1>10, <1>13, <2>1, <3>1 DEF Consumed
    <3> QED  BY <1>1, <1>4, <1>13, <2>1, <3>2 DEF Consumed
  <2>2. CASE d # b
    BY <1>4, <1>13, <2>2 DEF Consumed
  <2> QED  BY <2>1, <2>2
<1>14. \A d \in Clients \ {c} : Accepted(d)' =>
         /\ Accepted(d) /\ reqs'[d] = reqs[d]
         /\ reqs[d].acct \in Accounts /\ reqs[d].code \in Code /\ Consumed(reqs[d].acct, reqs[d].code)
  BY <1>3, RequestTypes DEF Accepted, IInv, ReqShape, CodesConsumed
<1>15. \A i \in DOMAIN opened : /\ opened[i].acct \in Accounts /\ opened[i].code \in Code
                                /\ Consumed(opened[i].acct, opened[i].code)
  <2>1. opened \in Seq(AppSession)
    BY DEF IInv, TypeOK
  <2>2. \A i \in DOMAIN opened : opened[i] \in AppSession
    BY <2>1
  <2> QED  BY <2>2 DEF AppSession, IInv, CodesConsumed
<1>16. CodesConsumed'
  <2>1. ASSUME NEW d \in Clients, Accepted(d)' PROVE Consumed(reqs[d].acct, reqs[d].code)'
    <3>1. CASE d = c
      BY <1>3, <1>12, <3>1 DEF Consumed
    <3>2. CASE d # c
      <4>1. Consumed(reqs[d].acct, reqs[d].code)'
        BY <1>13, <1>14, <2>1, <3>2 DEF Consumed
      <4> QED  BY <4>1
    <3> QED  BY <3>1, <3>2
  <2>2. ASSUME NEW i \in DOMAIN opened PROVE Consumed(opened[i].acct, opened[i].code)'
    BY <1>13, <1>15 DEF Consumed
  <2> QED  BY <2>1, <2>2 DEF CodesConsumed
<1>17. CodesApart'
  <2>1. CodeUsedOnce'  BY DEF IInv, CodesApart, CodeUsedOnce
  <2>2. ASSUME NEW d \in Clients, NEW i \in DOMAIN opened, Accepted(d)'
        PROVE  <<reqs'[d].acct, reqs'[d].code>> # <<opened[i].acct, opened[i].code>>
    <3>1. CASE d = c
      BY <1>3, <1>11, <1>15, <3>1
    <3>2. CASE d # c
      BY <1>14, <2>2, <3>2 DEF IInv, CodesApart
    <3> QED  BY <3>1, <3>2
  <2>3. ASSUME NEW d \in Clients, NEW e \in Clients, Accepted(d)', Accepted(e)',
               reqs'[d].acct = reqs'[e].acct, reqs'[d].code = reqs'[e].code
        PROVE  d = e
    <3>1. CASE d # c /\ e # c
      BY <1>14, <2>3, <3>1 DEF IInv, CodesApart
    <3>2. CASE d = c /\ e # c
      BY <1>3, <1>11, <1>14, <2>3, <3>2
    <3>3. CASE d # c /\ e = c
      BY <1>3, <1>11, <1>14, <2>3, <3>3
    <3> QED  BY <3>1, <3>2, <3>3
  <2> QED  BY <2>1, <2>2, <2>3 DEF CodesApart
<1>18. \A d \in Accounts : auth'[d].exists = auth[d].exists
  BY <1>1, <1>4
<1>19. Links'  BY <1>3, <1>5, <1>6, <1>18, LinksKeep
<1>20. AdminsLeft'  BY <1>3, <1>5, AdminsKeep
<1> QED  BY <1>7, <1>8, <1>9, <1>16, <1>17, <1>19, <1>20 DEF IInv

LEMMA LoginCodeOkKeeps == ASSUME IInv, NEW c \in Clients, LoginCodeOk(c) PROVE IInv'
<1> DEFINE b == reqs[c].acct
           code == reqs[c].code
           used == [auth[b] EXCEPT !.last = code.step]
           confirmed == [auth[b] EXCEPT !.enrolled = TRUE, !.last = code.step]
<1>1. /\ At(c, "login", "code") /\ UNCHANGED <<now, users, opened, faults, strayed, vied>>
      /\ b \in Accounts
  BY DEF LoginCodeOk, At, IInv, ReqShape
<1>2. auth[b] \in Account /\ code.step \in Nat
  BY <1>1, AccountTypes, RequestTypes DEF IInv, Code
<1>3. CASE VerifyOk(b, code) /\ Consume(b, code) /\ Goto(c, "mint")
  <2>1. used \in Account /\ used.last = code.step /\ used.exists = auth[b].exists
        /\ used.seed = auth[b].seed /\ used.drawn = auth[b].drawn /\ used.enrolled = auth[b].enrolled
    BY <1>2 DEF Account
  <2>2. auth' = [auth EXCEPT ![b] = used]
    BY <1>3 DEF Consume, IInv, TypeOK, CredTypeOK
  <2>3. auth[b].enrolled /\ auth[b].seed # 0 /\ code.seed = auth[b].seed /\ code.step > auth[b].last
    BY <1>3 DEF VerifyOk, Matches, NotConsumed
  <2> HIDE DEF used, b, code
  <2> QED  BY <1>1, <1>3, <2>1, <2>2, <2>3, AcceptanceKeeps DEF b, code
<1>4. CASE ConfirmOk(b, code) /\ EnrollConfirm(b, code) /\ Goto(c, "mirror")
  <2>1. confirmed \in Account /\ confirmed.last = code.step /\ confirmed.exists = auth[b].exists
        /\ confirmed.seed = auth[b].seed /\ confirmed.drawn = auth[b].drawn /\ confirmed.enrolled
    BY <1>2 DEF Account
  <2>2. auth' = [auth EXCEPT ![b] = confirmed]
    BY <1>4 DEF EnrollConfirm, IInv, TypeOK, CredTypeOK
  <2>3. ~auth[b].enrolled /\ auth[b].seed # 0 /\ code.seed = auth[b].seed
    BY <1>4 DEF ConfirmOk, Matches
  <2> HIDE DEF confirmed, b, code
  <2> QED  BY <1>1, <1>4, <2>1, <2>2, <2>3, AcceptanceKeeps DEF b, code
<1> QED  BY <1>3, <1>4 DEF LoginCodeOk

LEMMA LoginCodeBadKeeps == ASSUME IInv, NEW c \in Clients, LoginCodeBad(c) PROVE IInv'
<1>1. ~Linking(c)
  BY DEF LoginCodeBad, At, Linking
<1> QED  BY <1>1, EndingKeeps DEF LoginCodeBad, credVars

LEMMA LoginMirrorKeeps == ASSUME IInv, NEW c \in Clients, LoginMirror(c) PROVE IInv'
<1> DEFINE u == reqs[c].user
           row == [users[u] EXCEPT !.mirror = TRUE]
<1>1. /\ At(c, "login", "mirror") /\ Goto(c, "mint")
      /\ users' = [users EXCEPT ![u].mirror = TRUE]
      /\ UNCHANGED <<auth, now, opened, faults, strayed, vied>>
  BY DEF LoginMirror, credVars
<1>2. u \in Existing /\ u \in Users
  BY <1>1 DEF IInv, ReqShape, At, Existing
<1>3. row \in User /\ row.exists = users[u].exists /\ row.acct = users[u].acct /\ row.admin = users[u].admin
  BY <1>2, UserTypes DEF User, IInv
<1>4. users' = [users EXCEPT ![u] = row]
  BY <1>1 DEF IInv, TypeOK
<1> HIDE DEF row, u
<1>5. users' \in [Users -> User] /\ users'[u] = row /\ \A v \in Users \ {u} : users'[v] = users[v]
  BY <1>2, <1>3, <1>4 DEF IInv, TypeOK
<1>6. SameUsers /\ \A v \in Users : users'[v].admin = users[v].admin
  BY <1>3, <1>5 DEF SameUsers
<1>7. Existing' = Existing /\ Admins' = Admins
  BY <1>6, SameSets DEF Admins, Existing
<1>8. /\ reqs' \in [Clients -> Request] /\ reqs'[c].pc = "mint" /\ reqs'[c].op = "login"
      /\ reqs'[c].acct = reqs[c].acct /\ reqs'[c].user = u /\ reqs'[c].code = reqs[c].code
      /\ \A d \in Clients \ {c} : reqs'[d] = reqs[d]
  BY <1>1, GotoRequest DEF IInv, At, Places, u
<1>9. ~Linking(c) /\ ~Linking(c)' /\ Accepted(c) /\ reqs[c].acct \in Accounts
  BY <1>1, <1>8 DEF Linking, Accepted, At, IInv, ReqShape
<1>10. TypeOK'  BY <1>1, <1>5, <1>8 DEF IInv, TypeOK, CredTypeOK
<1>11. \A v \in Existing : v \in Existing' /\ users'[v].acct = users[v].acct
  BY <1>6, <1>7 DEF SameUsers, Existing
<1>12. ReqShape'  BY <1>2, <1>7, <1>8, <1>9, <1>11, ShapeKeeps
<1>13. SeedsDrawn'  BY <1>1 DEF IInv, SeedsDrawn
<1>14. \A a \in Accounts, code \in Code : Consumed(a, code) => Consumed(a, code)'
  BY <1>1 DEF Consumed
<1>15. CodesConsumed' /\ CodesApart'  BY <1>1, <1>8, <1>9, <1>14, CodesKeep
<1>16. Links'  BY <1>1, <1>6, <1>8, <1>9, LinksKeep
<1>17. AdminsLeft'  BY <1>1, <1>7, <1>8, AdminsKeep
<1> QED  BY <1>10, <1>12, <1>13, <1>15, <1>16, <1>17 DEF IInv

\* The code moves from the accepted login to the session it opens.
LEMMA LoginMintKeeps == ASSUME IInv, NEW c \in Clients, LoginMint(c) PROVE IInv'
<1> DEFINE r == reqs[c]
           s == [user |-> r.user, acct |-> r.acct, code |-> r.code]
<1>1. /\ At(c, "login", "mint") /\ Done(c) /\ opened' = Append(opened, s)
      /\ UNCHANGED <<auth, now, users, faults, strayed, vied>>
  BY DEF LoginMint, credVars
<1>2. r.user \in Users /\ r.acct \in Accounts /\ r.code \in Code /\ Accepted(c) /\ Consumed(r.acct, r.code)
  BY <1>1, RequestTypes DEF IInv, ReqShape, At, Existing, Accepted, CodesConsumed
<1>3. s \in AppSession /\ s.acct = r.acct /\ s.code = r.code
  BY <1>2 DEF AppSession
<1> HIDE DEF s
<1>4. opened \in Seq(AppSession)
  BY DEF IInv, TypeOK
<1>5. /\ opened' \in Seq(AppSession) /\ Len(opened) \in Nat
      /\ DOMAIN opened = 1..Len(opened) /\ DOMAIN opened' = 1..(Len(opened) + 1)
      /\ opened'[Len(opened) + 1] = s
      /\ \A i \in DOMAIN opened : opened'[i] = opened[i]
  BY <1>1, <1>3, <1>4
<1>6. /\ reqs' \in [Clients -> Request] /\ reqs'[c].op = "idle" /\ reqs'[c].pc = "start"
      /\ \A d \in Clients \ {c} : reqs'[d] = reqs[d]
  BY <1>1, DoneRequest DEF IInv
<1>7. SameUsers /\ Existing' = Existing /\ Admins' = Admins
  BY <1>1 DEF SameUsers, Existing, Admins
<1>8. ~Linking(c) /\ ~Linking(c)' /\ ~Accepted(c)'
  BY <1>1, <1>6 DEF Linking, Accepted, At
<1>9. TypeOK'  BY <1>1, <1>5, <1>6 DEF IInv, TypeOK, CredTypeOK
<1>10. ReqShape'  BY <1>1, <1>6, <1>7, ShapeKeeps
<1>11. SeedsDrawn'  BY <1>1 DEF IInv, SeedsDrawn
<1>12. \A i \in DOMAIN opened' : i \in DOMAIN opened \/ i = Len(opened) + 1
  BY <1>5
<1>13. \A d \in Clients : Accepted(d)' => d # c /\ Accepted(d) /\ reqs'[d] = reqs[d]
  BY <1>6, <1>8 DEF Accepted
<1>14. CodesConsumed'
  <2>1. \A i \in DOMAIN opened' : Consumed(opened'[i].acct, opened'[i].code)
    BY <1>2, <1>3, <1>5, <1>12 DEF IInv, CodesConsumed
  <2>2. \A d \in Clients : Accepted(d)' => Consumed(reqs'[d].acct, reqs'[d].code)
    BY <1>13 DEF IInv, CodesConsumed
  <2> QED  BY <1>1, <2>1, <2>2 DEF CodesConsumed, Consumed
<1>15. \A i \in DOMAIN opened : <<s.acct, s.code>> # <<opened[i].acct, opened[i].code>>
  BY <1>2, <1>3 DEF IInv, CodesApart
<1>16. CodeUsedOnce'
  BY <1>5, <1>12, <1>15 DEF IInv, CodesApart, CodeUsedOnce
<1>17. CodesApart'
  <2>1. ASSUME NEW d \in Clients, NEW i \in DOMAIN opened', Accepted(d)'
        PROVE  <<reqs'[d].acct, reqs'[d].code>> # <<opened'[i].acct, opened'[i].code>>
    <3>1. CASE i \in DOMAIN opened
      BY <1>5, <1>13, <2>1, <3>1 DEF IInv, CodesApart
    <3>2. CASE i = Len(opened) + 1
      BY <1>2, <1>3, <1>5, <1>13, <2>1, <3>2 DEF IInv, CodesApart
    <3> QED  BY <1>12, <3>1, <3>2
  <2> QED  BY <1>13, <1>16, <2>1 DEF IInv, CodesApart
<1>18. Links'  BY <1>1, <1>6, <1>7, <1>8, LinksKeep
<1>19. AdminsLeft'  BY <1>1, <1>6, <1>7, AdminsKeep
<1> QED  BY <1>9, <1>10, <1>11, <1>14, <1>17, <1>18, <1>19 DEF IInv

(***************************************************************************)
(* The requests of admins                                                  *)
(***************************************************************************)

LEMMA CreateStartKeeps ==
    ASSUME IInv, NEW c \in Clients, NEW a \in Accounts, CreateStart(c, a) PROVE IInv'
<1>1. PICK f \in BOOLEAN :
          reqs' = [reqs EXCEPT ![c] = [Idle EXCEPT !.op = "create", !.pc = "broker", !.acct = a, !.flag = f]]
  BY DEF CreateStart
<1> DEFINE r == [Idle EXCEPT !.op = "create", !.pc = "broker", !.acct = a, !.flag = f]
<1>2. r \in Request /\ r.op = "create" /\ r.pc = "broker" /\ r.acct = a
  BY IdleTypes DEF Request, Ops, Places
<1>3. /\ reqs' = [reqs EXCEPT ![c] = r] /\ reqs[c] = Idle
      /\ UNCHANGED <<auth, now, users, opened, faults, strayed, vied>>
  BY <1>1 DEF CreateStart, credVars
<1>4. ~Linking(c)
  BY <1>3, IdleTypes DEF Linking
<1> HIDE DEF r
<1> QED  BY <1>2, <1>3, <1>4, ReadingKeeps DEF IInv, TypeOK

LEMMA ProvisionStartKeeps == ASSUME IInv, NEW c \in Clients, ProvisionStart(c) PROVE IInv'
<1>1. PICK u \in FirstUsers :
          reqs' = [reqs EXCEPT ![c] = [Idle EXCEPT !.op = "provision", !.pc = "broker",
                                                   !.acct = FirstAccount, !.user = u]]
  BY DEF ProvisionStart
<1> DEFINE r == [Idle EXCEPT !.op = "provision", !.pc = "broker", !.acct = FirstAccount, !.user = u]
<1>2. u \in Existing /\ u \in Users /\ FirstAccount \in Accounts
  BY AccountsAssumption DEF IInv, Links
<1>3. r \in Request /\ r.op = "provision" /\ r.pc = "broker" /\ r.acct = FirstAccount /\ r.user = u
  BY <1>2, IdleTypes DEF Request, Ops, Places
<1>4. /\ reqs' = [reqs EXCEPT ![c] = r] /\ reqs[c] = Idle
      /\ UNCHANGED <<auth, now, users, opened, faults, strayed, vied>>
  BY <1>1 DEF ProvisionStart, credVars
<1>5. ~Linking(c)
  BY <1>4, IdleTypes DEF Linking
<1> HIDE DEF r
<1> QED  BY <1>2, <1>3, <1>4, <1>5, ReadingKeeps DEF IInv, TypeOK

LEMMA ResetStartKeeps ==
    ASSUME IInv, NEW c \in Clients, NEW u \in Users, ResetStart(c, u) PROVE IInv'
<1> DEFINE r == [Idle EXCEPT !.op = "reset", !.pc = "broker", !.acct = users[u].acct, !.user = u]
<1>1. /\ reqs' = [reqs EXCEPT ![c] = r] /\ reqs[c] = Idle
      /\ UNCHANGED <<auth, now, users, opened, faults, strayed, vied>>
      /\ u \in Existing /\ users[u].acct \in Accounts
  BY UserTypes DEF ResetStart, credVars, IInv
<1>2. r \in Request /\ r.op = "reset" /\ r.pc = "broker" /\ r.acct = users[u].acct /\ r.user = u
  BY <1>1, IdleTypes DEF Request, Ops, Places
<1>3. ~Linking(c)
  BY <1>1, IdleTypes DEF Linking
<1> HIDE DEF r
<1> QED  BY <1>1, <1>2, <1>3, ReadingKeeps DEF IInv, TypeOK

\* A change of the flag that overlaps no other has counted the admins that are there
\* when it is written.
LEMMA AdminStartKeeps ==
    ASSUME IInv, NEW c \in Clients, NEW u \in Users, AdminStart(c, u) PROVE IInv'
<1>1. PICK v \in BOOLEAN :
          /\ users[u].admin /\ ~v => OtherAdmins(u) # {}
          /\ reqs' = [reqs EXCEPT ![c] = [Idle EXCEPT !.op = "admin", !.pc = "write", !.user = u, !.flag = v]]
  BY DEF AdminStart
<1> DEFINE r == [Idle EXCEPT !.op = "admin", !.pc = "write", !.user = u, !.flag = v]
<1>2. r \in Request /\ r.op = "admin" /\ r.pc = "write" /\ r.user = u /\ r.flag = v
  BY IdleTypes DEF Request, Ops, Places
<1>3. reqs' = [reqs EXCEPT ![c] = r]
  BY <1>1
<1> HIDE DEF r
<1>4. /\ reqs' \in [Clients -> Request] /\ reqs'[c] = r
      /\ \A d \in Clients \ {c} : reqs'[d] = reqs[d]
  BY <1>2, <1>3, NewRequest DEF IInv
<1>5. /\ reqs[c] = Idle /\ u \in Existing /\ Admins # {}
      /\ vied' = (vied \/ \E d \in Clients : reqs[d].op = "admin")
      /\ UNCHANGED <<auth, now, users, opened, faults, strayed>>
  BY DEF AdminStart, credVars
<1>6. SameUsers /\ Existing' = Existing /\ Admins' = Admins
  BY <1>5 DEF SameUsers, Existing, Admins
<1>7. ~Linking(c) /\ ~Linking(c)' /\ ~Accepted(c)'
  BY <1>2, <1>4, <1>5, IdleTypes DEF Linking, Accepted
<1>8. TypeOK'  BY <1>4, <1>5 DEF IInv, TypeOK, CredTypeOK
<1>9. ReqShape'  BY <1>2, <1>4, <1>5, <1>6, ShapeKeeps
<1>10. SeedsDrawn'  BY <1>5 DEF IInv, SeedsDrawn
<1>11. \A a \in Accounts, code \in Code : Consumed(a, code) => Consumed(a, code)'
  BY <1>5 DEF Consumed
<1>12. CodesConsumed' /\ CodesApart'  BY <1>4, <1>5, <1>7, <1>11, CodesKeep
<1>13. Links'  BY <1>4, <1>5, <1>6, <1>7, LinksKeep
<1>14. AdminsLeft'
  <2> SUFFICES ASSUME ~vied' PROVE AdminsLeft'
    BY DEF AdminsLeft
  <2>1. \A d \in Clients : reqs'[d].op = "admin" => d = c
    BY <1>4, <1>5
  <2>2. ~v => Admins \ {u} # {}
    <3>1. CASE users[u].admin
      BY <1>1, <3>1 DEF OtherAdmins
    <3>2. CASE ~users[u].admin
      BY <1>5, <3>2 DEF Admins
    <3> QED  BY <3>1, <3>2
  <2>3. \A d \in Clients : reqs'[d].op = "admin" /\ ~reqs'[d].flag => Admins' \ {reqs'[d].user} # {}
    BY <1>2, <1>4, <1>6, <2>1, <2>2
  <2>4. Admins' # {}  BY <1>5, <1>6
  <2> QED  BY <2>1, <2>3, <2>4 DEF AdminsLeft, OtherAdmins
<1> QED  BY <1>8, <1>9, <1>10, <1>12, <1>13, <1>14 DEF IInv

LEMMA AdminWriteKeeps == ASSUME IInv, NEW c \in Clients, AdminWrite(c) PROVE IInv'
<1> DEFINE u == reqs[c].user
           f == reqs[c].flag
           row == [users[u] EXCEPT !.admin = f]
<1>1. /\ At(c, "admin", "write") /\ Done(c) /\ users' = [users EXCEPT ![u].admin = f]
      /\ UNCHANGED <<auth, now, opened, faults, strayed, vied>>
  BY DEF AdminWrite, credVars
<1>2. u \in Existing /\ u \in Users /\ f \in BOOLEAN
  BY <1>1, RequestTypes DEF IInv, ReqShape, At, Existing
<1>3. row \in User /\ row.exists = users[u].exists /\ row.acct = users[u].acct /\ row.admin = f
  BY <1>2, UserTypes DEF User, IInv
<1>4. users' = [users EXCEPT ![u] = row]
  BY <1>1 DEF IInv, TypeOK
<1> HIDE DEF row
<1>5. users' \in [Users -> User] /\ users'[u] = row /\ \A v \in Users \ {u} : users'[v] = users[v]
  BY <1>2, <1>3, <1>4 DEF IInv, TypeOK
<1>6. SameUsers
  BY <1>3, <1>5 DEF SameUsers
<1>7. Existing' = Existing
  BY <1>6, SameSets
<1>8. /\ reqs' \in [Clients -> Request] /\ reqs'[c].op = "idle" /\ reqs'[c].pc = "start"
      /\ \A d \in Clients \ {c} : reqs'[d] = reqs[d]
  BY <1>1, DoneRequest DEF IInv
<1>9. ~Linking(c) /\ ~Linking(c)' /\ ~Accepted(c)'
  BY <1>1, <1>8 DEF Linking, Accepted, At
<1>10. TypeOK'  BY <1>1, <1>5, <1>8 DEF IInv, TypeOK, CredTypeOK
<1>11. \A v \in Existing : v \in Existing' /\ users'[v].acct = users[v].acct
  BY <1>6, <1>7 DEF SameUsers, Existing
<1>12. ReqShape'  BY <1>8, <1>11, ShapeKeeps
<1>13. SeedsDrawn'  BY <1>1 DEF IInv, SeedsDrawn
<1>14. \A a \in Accounts, code \in Code : Consumed(a, code) => Consumed(a, code)'
  BY <1>1 DEF Consumed
<1>15. CodesConsumed' /\ CodesApart'  BY <1>1, <1>8, <1>9, <1>14, CodesKeep
<1>16. Links'  BY <1>1, <1>6, <1>8, <1>9, LinksKeep
<1>17. AdminsLeft'
  <2> SUFFICES ASSUME ~vied PROVE AdminsLeft'
    BY <1>1 DEF AdminsLeft
  <2>1. \A d \in Clients : reqs'[d].op # "admin"
    BY <1>1, <1>8 DEF IInv, AdminsLeft, At
  <2>2. Admins \ {u} \subseteq Admins' /\ (f => u \in Admins')
    BY <1>2, <1>3, <1>5, <1>7 DEF Admins, Existing
  <2>3. Admins' # {}
    BY <1>1, <1>2, <2>2 DEF IInv, AdminsLeft, OtherAdmins, At
  <2> QED  BY <2>1, <2>3 DEF AdminsLeft
<1> QED  BY <1>10, <1>12, <1>13, <1>15, <1>16, <1>17 DEF IInv

\* A credential whose seed stays, or goes with its enrolment, takes no consumed code back.
LEMMA CredentialKeeps ==
    ASSUME IInv, NEW b \in Accounts, NEW acc \in Account, auth' = [auth EXCEPT ![b] = acc],
           acc.drawn = auth[b].drawn, auth[b].exists => acc.exists,
           \/ acc.seed = auth[b].seed /\ acc.enrolled = auth[b].enrolled /\ acc.last = auth[b].last
           \/ acc.seed = 0 /\ ~acc.enrolled
    PROVE  /\ auth' \in [Accounts -> Account] /\ auth'[b] = acc
           /\ \A d \in Accounts \ {b} : auth'[d] = auth[d]
           /\ SeedsDrawn'
           /\ \A a \in Accounts, code \in Code : Consumed(a, code) => Consumed(a, code)'
<1>1. auth' \in [Accounts -> Account] /\ auth'[b] = acc /\ \A d \in Accounts \ {b} : auth'[d] = auth[d]
  BY DEF IInv, TypeOK, CredTypeOK
<1>2. SeedsDrawn'  BY <1>1 DEF IInv, SeedsDrawn
<1>3. ASSUME NEW a \in Accounts, NEW code \in Code, Consumed(a, code) PROVE Consumed(a, code)'
  <2>1. CASE a # b
    BY <1>1, <1>3, <2>1 DEF Consumed
  <2>2. CASE a = b /\ acc.seed = auth[b].seed /\ acc.enrolled = auth[b].enrolled /\ acc.last = auth[b].last
    BY <1>1, <1>3, <2>2 DEF Consumed
  <2>3. CASE a = b /\ acc.seed = 0
    <3>1. code.seed \in 1..auth[b].drawn /\ auth[b].drawn \in Nat
      BY <1>3, <2>3, AccountTypes DEF Consumed, IInv
    <3>2. code.seed # 0  BY <3>1
    <3> QED  BY <1>1, <2>3, <3>1, <3>2 DEF Consumed
  <2> QED  BY <2>1, <2>2, <2>3
<1> QED  BY <1>1, <1>2, <1>3

\* The account was not there, so it is no user's and no other request has made it.
LEMMA NewCredentialKeeps == ASSUME IInv, NEW c \in Clients, NewCredential(c) PROVE IInv'
<1>1. /\ reqs[c].op \in {"create", "provision"} /\ reqs[c].pc = "broker"
      /\ UNCHANGED <<now, users, opened, faults, strayed, vied>>
      /\ reqs[c].op = "provision" => reqs[c].user \in Existing
      /\ reqs[c].acct \in Accounts
  BY DEF NewCredential, IInv, ReqShape
<1> DEFINE b == reqs[c].acct
           n == auth[b].pw + 1
           acc == [auth[b] EXCEPT !.exists = TRUE, !.pw = n]
<1>2. ~Linking(c)
  BY <1>1 DEF Linking
<1>3. CASE UNCHANGED auth /\ Done(c)
  BY <1>1, <1>2, <1>3, EndingKeeps
<1>4. CASE ~auth[b].exists /\ CreateAccount(b) /\ Goto(c, "row")
  <2>1. auth[b] \in Account /\ n \in Nat
    BY <1>1, AccountTypes DEF IInv
  <2>2. /\ acc \in Account /\ acc.exists /\ acc.drawn = auth[b].drawn /\ acc.seed = auth[b].seed
        /\ acc.enrolled = auth[b].enrolled /\ acc.last = auth[b].last
    <3> HIDE DEF b, n
    <3> QED  BY <2>1 DEF Account
  <2>3. auth' = [auth EXCEPT ![b] = acc]
    BY <1>4 DEF CreateAccount, IInv, TypeOK, CredTypeOK
  <2>4. /\ reqs' \in [Clients -> Request] /\ reqs'[c].pc = "row" /\ reqs'[c].op = reqs[c].op
        /\ reqs'[c].acct = b /\ reqs'[c].user = reqs[c].user
        /\ \A d \in Clients \ {c} : reqs'[d] = reqs[d]
    BY <1>4, GotoRequest DEF IInv, Places
  <2> HIDE DEF acc
  <2>5. /\ auth' \in [Accounts -> Account] /\ auth'[b] = acc
        /\ \A d \in Accounts \ {b} : auth'[d] = auth[d]
        /\ SeedsDrawn'
        /\ \A a \in Accounts, code \in Code : Consumed(a, code) => Consumed(a, code)'
    BY <1>1, <2>2, <2>3, CredentialKeeps
  <2>6. SameUsers /\ Existing' = Existing /\ Admins' = Admins /\ \A a : Linked(a)' = Linked(a)
    BY <1>1 DEF SameUsers, Existing, Admins, Linked
  <2>7. ~Accepted(c)'
    BY <1>1, <2>4 DEF Accepted
  <2>8. TypeOK'  BY <1>1, <2>4, <2>5 DEF IInv, TypeOK, CredTypeOK
  <2>9. ReqShape'
    <3>1. reqs[c].op = "provision" => reqs[c].user \in FirstUsers /\ b = FirstAccount
      BY DEF IInv, ReqShape
    <3> QED  BY <1>1, <2>4, <2>6, <3>1, ShapeKeeps
  <2>10. CodesConsumed' /\ CodesApart'  BY <1>1, <2>4, <2>5, <2>7, CodesKeep
  <2>11. Linked(b) = {}
    BY <1>1, <1>4, AccountsAssumption DEF IInv, Links, Linked
  <2>12. \A d \in Clients : Linking(d) => reqs[d].acct # b /\ reqs[d].acct \in Accounts
    BY <1>4 DEF IInv, Links, ReqShape, Linking
  <2>13. \A d \in Clients : Linking(d)' => d = c \/ (d # c /\ Linking(d) /\ reqs'[d].acct = reqs[d].acct)
    BY <2>4 DEF Linking
  <2>14. \A a \in Accounts : (auth[a].exists => auth'[a].exists) /\ (auth'[a].exists => auth[a].exists \/ a = b)
    BY <2>2, <2>5
  <2>15. Links'
    <3>1. /\ \A u \in FirstUsers : u \in Existing' /\ users'[u].acct \in {NoAcct, FirstAccount}
          /\ \A u, v \in Existing' : users'[u].acct = users'[v].acct /\ users'[u].acct # NoAcct => u = v
      BY <1>1, <2>6 DEF IInv, Links
    <3>2. \A u \in Existing' : users'[u].acct # NoAcct => auth'[users'[u].acct].exists
      <4>1. \A u \in Existing : users[u].acct # NoAcct => users[u].acct \in Accounts
        BY UserTypes DEF Existing, IInv
      <4> QED  BY <1>1, <2>6, <2>14, <4>1 DEF IInv, Links
    <3>3. \A d \in Clients : Linking(d)' => auth'[reqs'[d].acct].exists /\ Linked(reqs[d].acct)' = {}
      <4> SUFFICES ASSUME NEW d \in Clients, Linking(d)'
                   PROVE  auth'[reqs'[d].acct].exists /\ {u \in Existing' : users'[u].acct = reqs'[d].acct} = {}
        BY DEF Linked
      <4>1. CASE d = c
        BY <1>1, <2>2, <2>4, <2>5, <2>6, <2>11, <4>1 DEF Linked
      <4>2. CASE d # c
        <5>1. Linking(d) /\ reqs'[d].acct = reqs[d].acct /\ reqs[d].acct \in Accounts
          BY <2>12, <2>13, <4>2
        <5>2. auth[reqs[d].acct].exists /\ Linked(reqs[d].acct) = {}
          BY <5>1 DEF IInv, Links
        <5> QED  BY <1>1, <2>6, <2>14, <5>1, <5>2 DEF Linked
      <4> QED  BY <4>1, <4>2
    <3>4. \A d, e \in Clients : Linking(d)' /\ Linking(e)' /\ reqs'[d].acct = reqs'[e].acct => d = e
      BY <2>4, <2>12, <2>13 DEF IInv, Links
    <3>5. ASSUME faults' = 0, NEW a \in Accounts, auth'[a].exists, Linked(a)' = {}
          PROVE  \E d \in Clients : reqs'[d].acct = a /\ Linking(d)'
      <4>1. CASE a = b
        BY <1>1, <2>4, <4>1 DEF Linking
      <4>2. CASE a # b
        <5>1. PICK d \in Clients : reqs[d].acct = a /\ Linking(d)
          BY <1>1, <2>6, <2>14, <3>5, <4>2 DEF IInv, Links
        <5>2. d # c  BY <1>2, <5>1
        <5> QED  BY <2>4, <5>1, <5>2 DEF Linking
      <4> QED  BY <4>1, <4>2
    <3> QED  BY <3>1, <3>2, <3>3, <3>4, <3>5 DEF Links
  <2>16. AdminsLeft'  BY <1>1, <2>4, <2>6, AdminsKeep
  <2> QED  BY <2>5, <2>8, <2>9, <2>10, <2>15, <2>16 DEF IInv
<1> QED  BY <1>3, <1>4 DEF NewCredential

\* A row is written for an account that has none: it is the only one, and no request for
\* the same account is left.  (u is a new user, or the one that is provisioned.)
LEMMA RowKeeps ==
    ASSUME IInv, NEW c \in Clients, Linking(c), Done(c), NEW u \in Users, NEW row \in User,
           users' = [users EXCEPT ![u] = row], row.exists, row.acct = reqs[c].acct,
           u \in Admins => row.admin, u \in Existing => users[u].acct = NoAcct \/ users[u].acct = row.acct,
           u \in FirstUsers => reqs[c].acct = FirstAccount,
           UNCHANGED <<auth, now, opened, faults, strayed, vied>>
    PROVE  IInv'
<1>1. PICK b \in Accounts : b = reqs[c].acct
  BY DEF IInv, ReqShape, Linking
<1>2. users' \in [Users -> User] /\ users'[u] = row /\ \A v \in Users \ {u} : users'[v] = users[v]
  BY DEF IInv, TypeOK
<1>3. Existing' = Existing \cup {u} /\ Admins \subseteq Admins'
  BY <1>2 DEF Existing, Admins
<1>4. /\ reqs' \in [Clients -> Request] /\ reqs'[c].op = "idle" /\ reqs'[c].pc = "start"
      /\ \A d \in Clients \ {c} : reqs'[d] = reqs[d]
  BY DoneRequest DEF IInv
<1>5. ~Accepted(c)' /\ ~Linking(c)'
  BY <1>4 DEF Accepted, Linking
<1>6. TypeOK'  BY <1>2, <1>4 DEF IInv, TypeOK, CredTypeOK
<1>7. \A v \in Existing : v \in Existing' /\ (users[v].acct # NoAcct => users'[v].acct = users[v].acct)
  BY <1>2, <1>3 DEF Existing
<1>8. ReqShape'  BY <1>4, <1>7, ShapeKeeps
<1>9. SeedsDrawn'  BY DEF IInv, SeedsDrawn
<1>10. \A a \in Accounts, code \in Code : Consumed(a, code) => Consumed(a, code)'
  BY DEF Consumed
<1>11. CodesConsumed' /\ CodesApart'  BY <1>4, <1>5, <1>10, CodesKeep
<1>12. auth[b].exists /\ b # NoAcct /\ \A v \in Existing : users[v].acct # b
  BY <1>1, AccountsAssumption DEF IInv, Links, Linked
<1>13. \A d \in Clients : Linking(d)' =>
           d # c /\ Linking(d) /\ reqs'[d].acct = reqs[d].acct /\ reqs[d].acct # b
  BY <1>1, <1>4, <1>5 DEF IInv, Links, Linking
<1>14. Links'
  <2>1. \A v \in FirstUsers : v \in Existing' /\ users'[v].acct \in {NoAcct, FirstAccount}
    BY <1>2, <1>3, AccountsAssumption DEF IInv, Links
  <2>2. \A v \in Existing' : users'[v].acct # NoAcct => auth'[users'[v].acct].exists
    BY <1>1, <1>2, <1>3, <1>12 DEF IInv, Links, Existing
  <2>3. \A v, w \in Existing' : users'[v].acct = users'[w].acct /\ users'[v].acct # NoAcct => v = w
    BY <1>1, <1>2, <1>3, <1>12 DEF IInv, Links, Existing
  <2>4. \A d \in Clients : Linking(d)' => auth'[reqs'[d].acct].exists /\ Linked(reqs[d].acct)' = {}
    <3> SUFFICES ASSUME NEW d \in Clients, Linking(d)'
                 PROVE  auth'[reqs'[d].acct].exists /\ {v \in Existing' : users'[v].acct = reqs'[d].acct} = {}
      BY DEF Linked
    <3>1. auth[reqs[d].acct].exists /\ \A v \in Existing : users[v].acct # reqs[d].acct
      BY <1>13 DEF IInv, Links, Linked
    <3> QED  BY <1>1, <1>2, <1>3, <1>13, <3>1 DEF Existing
  <2>5. \A d, e \in Clients : Linking(d)' /\ Linking(e)' /\ reqs'[d].acct = reqs'[e].acct => d = e
    BY <1>13 DEF IInv, Links
  <2>6. ASSUME faults' = 0, NEW a \in Accounts, auth'[a].exists, Linked(a)' = {}
        PROVE  \E d \in Clients : reqs'[d].acct = a /\ Linking(d)'
    <3>1. \A v \in Existing' : users'[v].acct # a
      BY <2>6 DEF Linked
    <3>2. a # b /\ Linked(a) = {}
      <4>1. a # b
        BY <1>1, <1>2, <1>3, <3>1
      <4>2. \A v \in Existing : users[v].acct # a
        BY <1>7, <3>1, AccountsAssumption
      <4> QED  BY <4>1, <4>2 DEF Linked
    <3>3. PICK d \in Clients : reqs[d].acct = a /\ Linking(d)
      BY <2>6, <3>2 DEF IInv, Links
    <3> QED  BY <1>1, <1>4, <3>2, <3>3 DEF Linking
  <2> QED  BY <2>1, <2>2, <2>3, <2>4, <2>5, <2>6 DEF Links
<1>15. AdminsLeft'  BY <1>3, <1>4, AdminsKeep
<1> QED  BY <1>6, <1>8, <1>9, <1>11, <1>14, <1>15 DEF IInv

LEMMA CreateRowKeeps == ASSUME IInv, NEW c \in Clients, CreateRow(c) PROVE IInv'
<1>1. PICK u \in Users \ Existing :
          users' = [users EXCEPT ![u] = [exists |-> TRUE, acct |-> reqs[c].acct,
                                         admin |-> reqs[c].flag, mirror |-> FALSE]]
  BY DEF CreateRow
<1> DEFINE row == [exists |-> TRUE, acct |-> reqs[c].acct, admin |-> reqs[c].flag, mirror |-> FALSE]
<1>2. At(c, "create", "row") /\ Done(c) /\ UNCHANGED <<auth, now, opened, faults, strayed, vied>>
  BY DEF CreateRow, credVars
<1>3. Linking(c) /\ row \in User /\ row.exists /\ row.acct = reqs[c].acct
  BY <1>2, RequestTypes DEF Linking, At, User, IInv
<1>4. u \notin Admins /\ u \notin FirstUsers
  BY DEF Admins, IInv, Links
<1> HIDE DEF row
<1>5. users' = [users EXCEPT ![u] = row]
  BY <1>1 DEF row
<1> QED  BY <1>2, <1>3, <1>4, <1>5, RowKeeps

LEMMA ProvisionRowKeeps == ASSUME IInv, NEW c \in Clients, ProvisionRow(c) PROVE IInv'
<1> DEFINE u == reqs[c].user
           b == reqs[c].acct
           row == [users[u] EXCEPT !.acct = b, !.admin = TRUE]
<1>1. /\ At(c, "provision", "row") /\ Done(c) /\ UNCHANGED <<auth, now, opened, faults, strayed, vied>>
      /\ users' = [users EXCEPT ![u].acct = b, ![u].admin = TRUE]
  BY DEF ProvisionRow, credVars
<1>2. /\ u \in Existing /\ u \in Users /\ u \in FirstUsers /\ b = FirstAccount /\ b \in Accounts
      /\ users[u].exists /\ users[u].acct \in {NoAcct, b}
  BY <1>1 DEF IInv, ReqShape, At, Existing, Links
<1>3. users[u] \in User
  BY <1>2, UserTypes DEF IInv
<1> HIDE DEF u, b
<1>4. row \in User /\ row.exists = users[u].exists /\ row.acct = b /\ row.admin
  BY <1>2, <1>3 DEF User
<1>5. users' = [users EXCEPT ![u] = row]
  BY <1>1, <1>2 DEF IInv, TypeOK
<1>6. Linking(c)
  BY <1>1 DEF Linking, At
<1> HIDE DEF row
<1> QED  BY <1>1, <1>2, <1>4, <1>5, <1>6, RowKeeps DEF b

\* What the broker writes in a recovery, whole or torn; the request moves on or is lost.
LEMMA RecoveryKeeps ==
    ASSUME IInv, NEW c \in Clients, At(c, "reset", "broker"),
           auth' = [auth EXCEPT ![reqs[c].acct] = Unenrolled(Rotated(@))]
              \/ auth' = [auth EXCEPT ![reqs[c].acct] = Rotated(@)],
           Goto(c, "row") \/ Done(c),
           UNCHANGED <<now, users, opened, vied>>,
           faults' \in Nat, faults' = 0 => faults = 0, strayed' \subseteq Accounts
    PROVE  IInv'
<1>1. reqs[c].acct \in Accounts /\ reqs[c].user \in Existing /\ users[reqs[c].user].acct = reqs[c].acct
  BY DEF IInv, ReqShape, At
<1>2. PICK b \in Accounts : b = reqs[c].acct
  BY <1>1
<1> DEFINE n == auth[b].pw + 1
           rotated == [auth[b] EXCEPT !.pw = n]
           unenrolled == [rotated EXCEPT !.seed = 0, !.enrolled = FALSE, !.last = 0]
<1>3. auth[b] \in Account /\ n \in Nat
  BY AccountTypes DEF IInv
<1>4. auth' = [auth EXCEPT ![b] = unenrolled] \/ auth' = [auth EXCEPT ![b] = rotated]
  BY <1>2 DEF IInv, TypeOK, CredTypeOK, Unenrolled, Rotated
<1> HIDE DEF n
<1>5. /\ rotated \in Account /\ rotated.exists = auth[b].exists /\ rotated.drawn = auth[b].drawn
      /\ rotated.seed = auth[b].seed /\ rotated.enrolled = auth[b].enrolled
      /\ rotated.last = auth[b].last
  BY <1>3 DEF Account
<1> HIDE DEF rotated
<1>6. /\ unenrolled \in Account /\ unenrolled.exists = auth[b].exists /\ unenrolled.drawn = auth[b].drawn
      /\ unenrolled.seed = 0 /\ unenrolled.enrolled = FALSE
  BY <1>5 DEF Account
<1> HIDE DEF unenrolled
<1>7. PICK acc \in Account :
         /\ auth' = [auth EXCEPT ![b] = acc]
         /\ acc.exists = auth[b].exists /\ acc.drawn = auth[b].drawn
         /\ \/ acc.seed = auth[b].seed /\ acc.enrolled = auth[b].enrolled /\ acc.last = auth[b].last
            \/ acc.seed = 0 /\ ~acc.enrolled
  BY <1>4, <1>5, <1>6
<1>8. /\ auth' \in [Accounts -> Account] /\ auth'[b] = acc
      /\ \A d \in Accounts \ {b} : auth'[d] = auth[d]
      /\ SeedsDrawn'
      /\ \A a \in Accounts, code \in Code : Consumed(a, code) => Consumed(a, code)'
  BY <1>7, CredentialKeeps
<1>9. /\ reqs' \in [Clients -> Request]
      /\ \A d \in Clients \ {c} : reqs'[d] = reqs[d]
      /\ \/ reqs'[c].op = "idle" /\ reqs'[c].pc = "start"
         \/ /\ reqs'[c].op = "reset" /\ reqs'[c].pc = "row"
            /\ reqs'[c].acct = reqs[c].acct /\ reqs'[c].user = reqs[c].user
  <2>1. CASE Done(c)
    BY <2>1, DoneRequest DEF IInv
  <2>2. CASE Goto(c, "row")
    BY <2>2, GotoRequest DEF IInv, At, Places
  <2> QED  BY <2>1, <2>2
<1>10. SameUsers /\ Existing' = Existing /\ Admins' = Admins
  BY DEF SameUsers, Existing, Admins
<1>11. ~Accepted(c)' /\ ~Linking(c)' /\ ~Linking(c)
  BY <1>9 DEF Accepted, Linking, At
<1>12. TypeOK'  BY <1>8, <1>9 DEF IInv, TypeOK, CredTypeOK
<1>13. ReqShape'  BY <1>1, <1>9, <1>10, ShapeKeeps
<1>14. CodesConsumed' /\ CodesApart'  BY <1>8, <1>9, <1>11, CodesKeep
<1>15. \A a \in Accounts : auth'[a].exists = auth[a].exists
  BY <1>7, <1>8
<1>16. Links'  BY <1>9, <1>10, <1>11, <1>15, LinksKeep
<1>17. AdminsLeft'  BY <1>9, <1>10, AdminsKeep
<1> QED  BY <1>8, <1>12, <1>13, <1>14, <1>16, <1>17 DEF IInv

LEMMA ResetBrokerKeeps == ASSUME IInv, NEW c \in Clients, ResetBroker(c) PROVE IInv'
<1>1. reqs[c].acct \in Accounts
  BY DEF ResetBroker, IInv, ReqShape, At
<1>2. strayed' \subseteq Accounts /\ faults' = faults /\ faults \in Nat
  BY <1>1 DEF ResetBroker, IInv, TypeOK
<1> QED  BY <1>2, RecoveryKeeps DEF ResetBroker, ResetAuth

LEMMA ResetTornKeeps == ASSUME IInv, NEW c \in Clients, ResetTorn(c) PROVE IInv'
<1>1. faults' \in Nat /\ faults' # 0 /\ strayed' \subseteq Accounts
  BY DEF ResetTorn, IInv, TypeOK
<1> QED  BY <1>1, RecoveryKeeps DEF ResetTorn, ResetHalf

LEMMA ResetRowKeeps == ASSUME IInv, NEW c \in Clients, ResetRow(c) PROVE IInv'
<1> DEFINE u == reqs[c].user
           row == [users[u] EXCEPT !.mirror = FALSE]
<1>1. /\ At(c, "reset", "row") /\ Done(c) /\ users' = [users EXCEPT ![u].mirror = FALSE]
      /\ UNCHANGED <<auth, now, opened, faults, vied>>
  BY DEF ResetRow, credVars
<1>2. u \in Existing /\ u \in Users /\ reqs[c].acct \in Accounts
  BY <1>1 DEF IInv, ReqShape, At, Existing
<1>3. strayed' \subseteq Accounts
  BY <1>2 DEF ResetRow, IInv, TypeOK
<1>4. row \in User /\ row.exists = users[u].exists /\ row.acct = users[u].acct /\ row.admin = users[u].admin
  BY <1>2, UserTypes DEF User, IInv
<1>5. users' = [users EXCEPT ![u] = row]
  BY <1>1 DEF IInv, TypeOK
<1> HIDE DEF row
<1>6. users' \in [Users -> User] /\ users'[u] = row /\ \A v \in Users \ {u} : users'[v] = users[v]
  BY <1>2, <1>4, <1>5 DEF IInv, TypeOK
<1>7. SameUsers /\ \A v \in Users : users'[v].admin = users[v].admin
  BY <1>4, <1>6 DEF SameUsers
<1>8. Existing' = Existing /\ Admins' = Admins
  BY <1>7, SameSets DEF Admins, Existing
<1>9. /\ reqs' \in [Clients -> Request] /\ reqs'[c].op = "idle" /\ reqs'[c].pc = "start"
      /\ \A d \in Clients \ {c} : reqs'[d] = reqs[d]
  BY <1>1, DoneRequest DEF IInv
<1>10. ~Linking(c) /\ ~Linking(c)' /\ ~Accepted(c)'
  BY <1>1, <1>9 DEF Linking, Accepted, At
<1>11. TypeOK'  BY <1>1, <1>3, <1>6, <1>9 DEF IInv, TypeOK, CredTypeOK
<1>12. \A v \in Existing : v \in Existing' /\ users'[v].acct = users[v].acct
  BY <1>7, <1>8 DEF SameUsers, Existing
<1>13. ReqShape'  BY <1>9, <1>12, ShapeKeeps
<1>14. SeedsDrawn'  BY <1>1 DEF IInv, SeedsDrawn
<1>15. \A a \in Accounts, code \in Code : Consumed(a, code) => Consumed(a, code)'
  BY <1>1 DEF Consumed
<1>16. CodesConsumed' /\ CodesApart'  BY <1>1, <1>9, <1>10, <1>15, CodesKeep
<1>17. Links'  BY <1>1, <1>7, <1>9, <1>10, LinksKeep
<1>18. AdminsLeft'  BY <1>1, <1>8, <1>9, AdminsKeep
<1> QED  BY <1>11, <1>13, <1>14, <1>16, <1>17, <1>18 DEF IInv

\* A lost request may leave an account without its user: that is what faults is for.
LEMMA LostKeeps == ASSUME IInv, NEW c \in Clients, Lost(c) PROVE IInv'
<1>1. faults' \in Nat /\ faults' # 0
  BY DEF Lost, IInv, TypeOK
<1>2. strayed' \subseteq Accounts
  BY DEF Lost, IInv, TypeOK, ReqShape
<1>3. reqs' = [reqs EXCEPT ![c] = Idle] /\ vied' = vied /\ UNCHANGED <<auth, now, users, opened>>
  BY DEF Lost, Done, credVars
<1> QED  BY <1>1, <1>2, <1>3, IdleTypes, ReadingKeeps

\* The clock alone, and no step at all.
LEMMA TickKeeps ==
    ASSUME IInv, UNCHANGED <<auth, appVars>>, now' \in Nat PROVE IInv'
<1>1. UNCHANGED <<auth, users, opened, reqs, faults, strayed, vied>>
  BY DEF appVars
<1>2. TypeOK' /\ ReqShape' /\ SeedsDrawn'
  BY <1>1 DEF IInv, TypeOK, CredTypeOK, ReqShape, SeedsDrawn, Existing
<1>3. CodesConsumed' /\ CodesApart'
  BY <1>1 DEF IInv, CodesConsumed, CodesApart, CodeUsedOnce, Consumed, Accepted
<1>4. Links'
  BY <1>1 DEF IInv, Links, Linking, Linked, Existing
<1>5. AdminsLeft'
  BY <1>1 DEF IInv, AdminsLeft, Admins, OtherAdmins, Existing
<1> QED  BY <1>2, <1>3, <1>4, <1>5 DEF IInv

(***************************************************************************)
(* The theorems                                                            *)
(***************************************************************************)

\* The invariant that carries the others: what consumed a code, what is linked to what,
\* and which admin is left, at every step of every request.
THEOREM AccountsInductive == Spec => []IInv
<1>1. ASSUME IInv, [Next]_vars PROVE IInv'
  <2>1. CASE UNCHANGED vars
    BY <1>1, <2>1, TickKeeps DEF vars, credVars, IInv, TypeOK, CredTypeOK
  <2>2. CASE Tick /\ UNCHANGED <<auth, appVars>>
    <3>1. now' \in Nat
      BY <1>1, <2>2 DEF Tick, IInv, TypeOK, CredTypeOK
    <3> QED  BY <1>1, <2>2, <3>1, TickKeeps
  <2>3. ASSUME NEW c \in Clients, Login(c) PROVE IInv'
    BY <1>1, <2>3, LoginStartKeeps, LoginVerifyKeeps, LoginLookupKeeps, LoginStageKeeps,
       LoginCodeOkKeeps, LoginCodeBadKeeps, LoginMirrorKeeps, LoginMintKeeps DEF Login
  <2>4. ASSUME NEW c \in Clients, Administer(c) PROVE IInv'
    BY <1>1, <2>4, CreateStartKeeps, ProvisionStartKeeps, NewCredentialKeeps, CreateRowKeeps,
       ProvisionRowKeeps, ResetStartKeeps, AdminStartKeeps, ResetBrokerKeeps, ResetRowKeeps,
       AdminWriteKeeps DEF Administer
  <2>5. ASSUME NEW c \in Clients, Lost(c) PROVE IInv'
    BY <1>1, <2>5, LostKeeps
  <2>6. ASSUME NEW c \in Clients, ResetTorn(c) PROVE IInv'
    BY <1>1, <2>6, ResetTornKeeps
  <2> QED  BY <1>1, <2>1, <2>2, <2>3, <2>4, <2>5, <2>6 DEF Next
<1> QED  BY Initially, <1>1, PTL DEF Spec

\* The tables, the requests and the histories keep their types, whatever is lost.
THEOREM AccountsTypes == Spec => []TypeOK
<1>1. IInv => TypeOK
  BY DEF IInv
<1> QED  BY <1>1, AccountsInductive, PTL

\* A code opens one session: of two logins with the same code one is refused, also when
\* the account is enrolled again or recovered between them.
THEOREM CodesOnce == Spec => []CodeUsedOnce
<1>1. IInv => CodeUsedOnce
  BY DEF IInv, CodesApart
<1> QED  BY <1>1, AccountsInductive, PTL

\* The users' table and the broker's agree on who exists, up to requests on their way
\* and requests that were lost.
THEOREM StoresAgree == Spec => []StoresLinked
<1>1. IInv => StoresLinked
  <2> SUFFICES ASSUME IInv PROVE StoresLinked
    OBVIOUS
  <2>1. ASSUME NEW u \in Existing, users[u].acct # NoAcct
        PROVE  auth[users[u].acct].exists /\ Linked(users[u].acct) = {u}
    <3>1. auth[users[u].acct].exists /\ \A v \in Existing : users[v].acct = users[u].acct => v = u
      BY <2>1 DEF IInv, Links
    <3> QED  BY <3>1 DEF Linked
  <2>2. ASSUME faults = 0, NEW a \in Accounts, auth[a].exists, Linked(a) = {}
        PROVE  \E c \in Clients : reqs[c].acct = a /\ reqs[c].pc = "row"
    BY <2>2 DEF IInv, Links, Linking
  <2> QED  BY <2>1, <2>2 DEF StoresLinked
<1> QED  BY <1>1, AccountsInductive, PTL

\* The last admin stays, while changes of the flag come one at a time.
THEOREM AdminStays == Spec => []AdminRemains
<1>1. IInv => AdminRemains
  BY DEF IInv, AdminsLeft, AdminRemains
<1> QED  BY <1>1, AccountsInductive, PTL

(***************************************************************************)
(* The mirror of enrolment                                                 *)
(***************************************************************************)

\* Recoveries of account a that the broker has done and the mirror has not.
Recovering(a) == {c \in Clients : At(c, "reset", "row") /\ reqs[c].acct = a}

\* What a login has looked up by the time it needs a code, and that its enrolment
\* stands until it is mirrored.
LoginsTrue ==
    \A c \in Clients : LET r == reqs[c] IN
        /\ r.op = "login" /\ r.pc \in {"code", "mirror", "mint"} => users[r.user].acct = r.acct
        /\ At(c, "login", "mirror") => r.acct \in strayed \/ auth[r.acct].enrolled

\* An account enrols when it has a user, and a user when it has an account.
EnrolledLinked ==
    /\ \A a \in Accounts : auth[a].enrolled => Linked(a) # {}
    /\ \A u \in Existing : users[u].mirror => users[u].acct # NoAcct

\* A mirror that is wrong has a request of the right kind on its way to set it right.
Accounted(u) ==
    LET a == users[u].acct IN
        \/ a \in strayed \cup {NoAcct}
        \/ users[u].mirror /\ (auth[a].enrolled \/ Recovering(a) # {})
        \/ ~users[u].mirror /\ (~auth[a].enrolled \/ Mirroring(a) # {})

MirrorInv == LoginsTrue /\ EnrolledLinked /\ \A u \in Existing : Accounted(u)

LEMMA MirrorInitially == Init => MirrorInv
<1> SUFFICES ASSUME Init PROVE MirrorInv
  OBVIOUS
<1>1. \A c \in Clients : reqs[c].op = "idle"
  BY IdleTypes DEF Init
<1>2. \A u \in Users : users[u].acct = NoAcct /\ ~users[u].mirror
  BY DEF Init
<1>3. \A a \in Accounts : ~auth[a].enrolled
  BY DEF Init, CredInit, NoAccount
<1> QED  BY <1>1, <1>2, <1>3 DEF MirrorInv, LoginsTrue, EnrolledLinked, Accounted, At, Existing

\* What both invariants say of a user.
LEMMA UserFacts ==
    ASSUME IInv, NEW u \in Existing
    PROVE  /\ u \in Users /\ users[u].acct \in Accounts \cup {NoAcct} /\ users[u].mirror \in BOOLEAN
           /\ users[u].acct # NoAcct => users[u].acct \in Accounts
BY UserTypes DEF IInv, Existing

\* The account of a user that a step leaves alone: the requests on their way are still
\* there, but for the one that moves, which had another account or was given up.
LEMMA AccountedKeeps ==
    ASSUME IInv, NEW c \in Clients, \A d \in Clients \ {c} : reqs'[d] = reqs[d],
           NEW u \in Existing, Accounted(u), strayed \subseteq strayed',
           users'[u].acct = users[u].acct, users'[u].mirror = users[u].mirror,
           users[u].acct # NoAcct => auth'[users[u].acct].enrolled = auth[users[u].acct].enrolled,
           reqs[c].acct = users[u].acct /\ (At(c, "login", "mirror") \/ At(c, "reset", "row"))
              => reqs[c].acct \in strayed'
    PROVE  Accounted(u)'
<1>1. PICK a : a = users[u].acct
  OBVIOUS
<1>2. CASE a \in strayed' \cup {NoAcct}
  BY <1>1, <1>2 DEF Accounted
<1>3. CASE a \notin strayed' \cup {NoAcct}
  <2>1. Recovering(a) \subseteq Recovering(a)' /\ Mirroring(a) \subseteq Mirroring(a)'
    BY <1>1, <1>3 DEF Recovering, Mirroring, At
  <2>2. \/ users[u].mirror /\ (auth[a].enrolled \/ Recovering(a) # {})
        \/ ~users[u].mirror /\ (~auth[a].enrolled \/ Mirroring(a) # {})
    BY <1>1, <1>3 DEF Accounted
  <2>3. \/ users[u].mirror /\ (auth[a].enrolled \/ Recovering(a)' # {})
        \/ ~users[u].mirror /\ (~auth[a].enrolled \/ Mirroring(a)' # {})
    BY <2>1, <2>2
  <2> QED  BY <1>1, <1>3, <2>3 DEF Accounted
<1> QED  BY <1>2, <1>3

\* Neither table's word on enrolment changes, and a request that was on its way between
\* the two is given up as strayed.
LEMMA MirrorKeeps ==
    ASSUME IInv, MirrorInv, NEW c \in Clients, \A d \in Clients \ {c} : reqs'[d] = reqs[d],
           SameUsers, \A u \in Users : users'[u].mirror = users[u].mirror,
           \A a \in Accounts : auth'[a].enrolled = auth[a].enrolled,
           strayed \subseteq strayed',
           At(c, "login", "mirror") \/ At(c, "reset", "row") => reqs[c].acct \in strayed',
           reqs'[c].op = "login" => /\ reqs'[c].pc # "mirror"
                                    /\ reqs'[c].pc \in {"code", "mint"} => users[reqs'[c].user].acct = reqs'[c].acct,
           reqs'[c].op = "login" /\ reqs'[c].pc \in {"code", "mint"} => reqs'[c].user \in Users
    PROVE  MirrorInv'
<1>1. Existing' = Existing /\ \A a : Linked(a)' = Linked(a)
  BY SameSets
<1>2. LoginsTrue'
  <2> SUFFICES ASSUME NEW d \in Clients
               PROVE  /\ reqs'[d].op = "login" /\ reqs'[d].pc \in {"code", "mirror", "mint"}
                            => users'[reqs'[d].user].acct = reqs'[d].acct
                      /\ At(d, "login", "mirror")' => reqs'[d].acct \in strayed' \/ auth'[reqs'[d].acct].enrolled
    BY DEF LoginsTrue
  <2>1. CASE d = c
    BY <2>1 DEF SameUsers, At
  <2>2. CASE d # c
    <3>1. reqs'[d] = reqs[d]
      BY <2>2
    <3>2. reqs[d].op = "login" /\ reqs[d].pc \in {"code", "mirror", "mint"} =>
            reqs[d].user \in Users /\ reqs[d].acct \in Accounts /\ users[reqs[d].user].acct = reqs[d].acct
      BY DEF MirrorInv, LoginsTrue, IInv, ReqShape, Existing
    <3>3. At(d, "login", "mirror") => reqs[d].acct \in strayed \/ auth[reqs[d].acct].enrolled
      BY DEF MirrorInv, LoginsTrue
    <3> QED  BY <3>1, <3>2, <3>3 DEF SameUsers, At
  <2> QED  BY <2>1, <2>2
<1>3. EnrolledLinked'
  <2>1. \A a \in Accounts : auth'[a].enrolled => Linked(a)' # {}
    BY <1>1 DEF MirrorInv, EnrolledLinked
  <2>2. \A u \in Existing' : users'[u].mirror => users'[u].acct # NoAcct
    BY <1>1, UserFacts DEF MirrorInv, EnrolledLinked, SameUsers
  <2> QED  BY <2>1, <2>2 DEF EnrolledLinked
<1>4. ASSUME NEW u \in Existing PROVE Accounted(u)'
  BY <1>4, UserFacts, AccountedKeeps DEF MirrorInv, SameUsers
<1> QED  BY <1>1, <1>2, <1>3, <1>4 DEF MirrorInv

\* A request begins, or ends without having been between the tables.
LEMMA MirrorReading ==
    ASSUME IInv, MirrorInv, NEW c \in Clients, NEW r \in Request, reqs' = [reqs EXCEPT ![c] = r],
           UNCHANGED <<auth, users>>, strayed \subseteq strayed',
           At(c, "login", "mirror") \/ At(c, "reset", "row") => reqs[c].acct \in strayed',
           r.op = "login" => r.pc \notin {"mirror", "code", "mint"}
    PROVE  MirrorInv'
<1>1. reqs'[c] = r /\ \A d \in Clients \ {c} : reqs'[d] = reqs[d]
  BY NewRequest DEF IInv
<1>2. SameUsers
  BY DEF SameUsers
<1> QED  BY <1>1, <1>2, MirrorKeeps

LEMMA MirrorDone ==
    ASSUME IInv, MirrorInv, NEW c \in Clients, Done(c),
           UNCHANGED <<auth, users>>, strayed \subseteq strayed',
           At(c, "login", "mirror") \/ At(c, "reset", "row") => reqs[c].acct \in strayed'
    PROVE  MirrorInv'
BY MirrorReading, IdleTypes DEF Done

LEMMA MirrorStarts ==
    ASSUME IInv, MirrorInv, NEW c \in Clients,
           \/ \E a \in Accounts : LoginStart(c, a) \/ CreateStart(c, a)
           \/ ProvisionStart(c)
           \/ \E u \in Users : ResetStart(c, u) \/ AdminStart(c, u)
    PROVE  MirrorInv'
<1>1. reqs[c] = Idle /\ UNCHANGED <<auth, users, strayed>>
  BY DEF LoginStart, CreateStart, ProvisionStart, ResetStart, AdminStart, credVars
<1>2. ~At(c, "login", "mirror") /\ ~At(c, "reset", "row")
  BY <1>1, IdleTypes DEF At
<1>3. /\ reqs'[c].op = "login" => reqs'[c].pc = "verify"
      /\ \A d \in Clients \ {c} : reqs'[d] = reqs[d]
  <2>1. ASSUME NEW a \in Accounts, LoginStart(c, a)
        PROVE  /\ reqs'[c].op = "login" => reqs'[c].pc = "verify"
               /\ \A d \in Clients \ {c} : reqs'[d] = reqs[d]
    BY <2>1 DEF LoginStart, Idle, IInv, TypeOK
  <2>2. ASSUME NEW a \in Accounts, CreateStart(c, a)
        PROVE  /\ reqs'[c].op = "login" => reqs'[c].pc = "verify"
               /\ \A d \in Clients \ {c} : reqs'[d] = reqs[d]
    BY <2>2 DEF CreateStart, Idle, IInv, TypeOK
  <2>3. ASSUME ProvisionStart(c)
        PROVE  /\ reqs'[c].op = "login" => reqs'[c].pc = "verify"
               /\ \A d \in Clients \ {c} : reqs'[d] = reqs[d]
    BY <2>3 DEF ProvisionStart, Idle, IInv, TypeOK
  <2>4. ASSUME NEW u \in Users, ResetStart(c, u)
        PROVE  /\ reqs'[c].op = "login" => reqs'[c].pc = "verify"
               /\ \A d \in Clients \ {c} : reqs'[d] = reqs[d]
    BY <2>4 DEF ResetStart, Idle, IInv, TypeOK
  <2>5. ASSUME NEW u \in Users, AdminStart(c, u)
        PROVE  /\ reqs'[c].op = "login" => reqs'[c].pc = "verify"
               /\ \A d \in Clients \ {c} : reqs'[d] = reqs[d]
    BY <2>5 DEF AdminStart, Idle, IInv, TypeOK
  <2> QED  BY <2>1, <2>2, <2>3, <2>4, <2>5
<1>4. SameUsers
  BY <1>1 DEF SameUsers
<1> QED  BY <1>1, <1>2, <1>3, <1>4, MirrorKeeps

LEMMA MirrorLogins ==
    ASSUME IInv, MirrorInv, NEW c \in Clients,
           LoginVerify(c) \/ LoginLookup(c) \/ LoginCodeBad(c) \/ LoginMint(c)
    PROVE  MirrorInv'
<1>1. /\ UNCHANGED <<auth, users, strayed>> /\ reqs[c].op = "login"
      /\ reqs[c].pc \in {"verify", "lookup", "code", "mint"}
  BY DEF LoginVerify, LoginLookup, LoginCodeBad, LoginMint, credVars, At
<1>2. ~At(c, "login", "mirror") /\ ~At(c, "reset", "row")
  BY <1>1 DEF At
<1>3. CASE Done(c)
  BY <1>1, <1>2, <1>3, MirrorDone
<1>4. CASE reqs' = [reqs EXCEPT ![c].pc = "lookup", ![c].flag = auth[reqs[c].acct].enrolled]
  <2>1. reqs'[c].pc = "lookup" /\ \A d \in Clients \ {c} : reqs'[d] = reqs[d]
    BY <1>4, RequestTypes DEF IInv, TypeOK, Request
  <2> QED  BY <1>1, <1>2, <2>1, MirrorKeeps DEF SameUsers
<1>5. CASE \E u \in Linked(reqs[c].acct) : reqs' = [reqs EXCEPT ![c].pc = "code", ![c].user = u]
  <2>1. PICK u \in Linked(reqs[c].acct) : reqs' = [reqs EXCEPT ![c].pc = "code", ![c].user = u]
    BY <1>5
  <2>2. /\ reqs'[c].pc = "code" /\ reqs'[c].user = u /\ reqs'[c].acct = reqs[c].acct
        /\ \A d \in Clients \ {c} : reqs'[d] = reqs[d]
    BY <2>1, RequestTypes DEF IInv, TypeOK, Request
  <2>3. u \in Users /\ users[u].acct = reqs[c].acct
    BY DEF Linked, Existing
  <2> QED  BY <1>1, <1>2, <2>2, <2>3, MirrorKeeps DEF SameUsers
<1> QED  BY <1>3, <1>4, <1>5 DEF LoginVerify, LoginLookup, LoginCodeBad, LoginMint

LEMMA MirrorStage == ASSUME IInv, MirrorInv, NEW c \in Clients, LoginStage(c) PROVE MirrorInv'
<1>1. /\ Done(c) /\ UNCHANGED <<users, strayed>> /\ reqs[c].acct \in Accounts
      /\ ~At(c, "login", "mirror") /\ ~At(c, "reset", "row")
  BY DEF LoginStage, At, IInv, ReqShape
<1>2. \A a \in Accounts : auth'[a].enrolled = auth[a].enrolled
  <2>1. CASE UNCHANGED auth
    BY <2>1
  <2>2. CASE EnrollBegin(reqs[c].acct)
    BY <2>2, AccountTypes DEF EnrollBegin, IInv, TypeOK, CredTypeOK, Account
  <2> QED  BY <2>1, <2>2 DEF LoginStage
<1>3. reqs'[c].op = "idle" /\ \A d \in Clients \ {c} : reqs'[d] = reqs[d]
  BY <1>1, DoneRequest DEF IInv
<1>4. SameUsers
  BY <1>1 DEF SameUsers
<1> QED  BY <1>1, <1>2, <1>3, <1>4, MirrorKeeps

\* A first code enrols the account at the broker, and the login that gave it is on its way
\* to the mirror.
LEMMA MirrorCodeOk == ASSUME IInv, MirrorInv, NEW c \in Clients, LoginCodeOk(c) PROVE MirrorInv'
<1> PICK b : b = reqs[c].acct
  OBVIOUS
<1> PICK u : u = reqs[c].user
  OBVIOUS
<1>1. /\ At(c, "login", "code") /\ UNCHANGED <<users, strayed>> /\ b \in Accounts
      /\ u \in Existing /\ u \in Users /\ users[u].acct = b
      /\ ~At(c, "login", "mirror") /\ ~At(c, "reset", "row")
  BY DEF LoginCodeOk, At, IInv, ReqShape, MirrorInv, LoginsTrue, Existing
<1>2. SameUsers /\ \A w \in Users : users'[w].mirror = users[w].mirror
  BY <1>1 DEF SameUsers
<1>3. CASE VerifyOk(b, reqs[c].code) /\ Consume(b, reqs[c].code) /\ Goto(c, "mint")
  <2>1. \A a \in Accounts : auth'[a].enrolled = auth[a].enrolled
    BY <1>3, AccountTypes DEF Consume, IInv, TypeOK, CredTypeOK, Account
  <2>2. /\ reqs'[c].op = "login" /\ reqs'[c].pc = "mint" /\ reqs'[c].acct = b /\ reqs'[c].user = u
        /\ \A d \in Clients \ {c} : reqs'[d] = reqs[d]
    BY <1>1, <1>3, GotoRequest DEF IInv, Places, At
  <2> QED  BY <1>1, <1>2, <2>1, <2>2, MirrorKeeps
<1>4. CASE ConfirmOk(b, reqs[c].code) /\ EnrollConfirm(b, reqs[c].code) /\ Goto(c, "mirror")
  <2>1. /\ auth'[b].enrolled = TRUE
        /\ \A a \in Accounts \ {b} : auth'[a].enrolled = auth[a].enrolled
    BY <1>1, <1>4, AccountTypes DEF EnrollConfirm, IInv, TypeOK, CredTypeOK, Account
  <2>2. /\ reqs'[c].op = "login" /\ reqs'[c].pc = "mirror" /\ reqs'[c].acct = b /\ reqs'[c].user = u
        /\ \A d \in Clients \ {c} : reqs'[d] = reqs[d]
    BY <1>1, <1>4, GotoRequest DEF IInv, Places, At
  <2>3. Existing' = Existing /\ \A a : Linked(a)' = Linked(a)
    BY <1>2, SameSets
  <2>4. LoginsTrue'
    <3>1. ASSUME NEW d \in Clients, d # c, At(d, "login", "mirror")
          PROVE  reqs[d].acct \in Accounts /\ (reqs[d].acct \in strayed \/ auth'[reqs[d].acct].enrolled)
      <4>1. reqs[d].acct \in Accounts /\ (reqs[d].acct \in strayed \/ auth[reqs[d].acct].enrolled)
        BY <3>1 DEF MirrorInv, LoginsTrue, At, IInv, ReqShape
      <4> QED  BY <2>1, <4>1
    <3> QED  BY <1>1, <2>1, <2>2, <3>1 DEF LoginsTrue, MirrorInv, At
  <2>5. EnrolledLinked'
    <3>1. Linked(b) # {}
      BY <1>1 DEF Linked
    <3> QED  BY <1>1, <2>1, <2>3, <3>1 DEF EnrolledLinked, MirrorInv
  <2>6. ASSUME NEW v \in Existing PROVE Accounted(v)'
    <3>1. users'[v] = users[v] /\ strayed' = strayed
      BY <1>1
    <3>2. CASE users[v].acct = b
      <4>1. c \in Mirroring(b)'
        BY <2>2 DEF Mirroring, At
      <4> QED  BY <2>1, <3>1, <3>2, <4>1, UserFacts DEF Accounted
    <3>3. CASE users[v].acct # b
      BY <1>1, <2>1, <2>2, <3>1, <3>3, UserFacts, AccountedKeeps DEF MirrorInv
    <3> QED  BY <3>2, <3>3
  <2> QED  BY <2>3, <2>4, <2>5, <2>6 DEF MirrorInv
<1> QED  BY <1>3, <1>4 DEF LoginCodeOk

\* The login is done with the mirror, and the enrolment it mirrors stands.
LEMMA MirrorMirror == ASSUME IInv, MirrorInv, NEW c \in Clients, LoginMirror(c) PROVE MirrorInv'
<1>1. PICK b, u : b = reqs[c].acct /\ u = reqs[c].user
  OBVIOUS
<1>2. /\ At(c, "login", "mirror") /\ Goto(c, "mint") /\ UNCHANGED <<auth, strayed>>
      /\ users' = [users EXCEPT ![u].mirror = TRUE]
      /\ u \in Existing /\ u \in Users /\ b \in Accounts /\ users[u].acct = b
      /\ b \in strayed \/ auth[b].enrolled
  BY <1>1 DEF LoginMirror, At, credVars, IInv, ReqShape, Existing, MirrorInv, LoginsTrue
<1>3. /\ users'[u].mirror = TRUE /\ SameUsers
      /\ \A v \in Users \ {u} : users'[v] = users[v]
  BY <1>2, UserTypes DEF IInv, TypeOK, SameUsers, User
<1>4. /\ reqs'[c].op = "login" /\ reqs'[c].pc = "mint" /\ reqs'[c].acct = b /\ reqs'[c].user = u
      /\ \A d \in Clients \ {c} : reqs'[d] = reqs[d]
  BY <1>1, <1>2, GotoRequest DEF IInv, Places, At
<1>5. Existing' = Existing /\ \A a : Linked(a)' = Linked(a)
  BY <1>3, SameSets
<1>6. LoginsTrue'
  BY <1>2, <1>3, <1>4 DEF MirrorInv, LoginsTrue, SameUsers, At, IInv, ReqShape, Existing
<1>7. EnrolledLinked'
  <2>1. \A v \in Existing' : users'[v].mirror => users'[v].acct # NoAcct
    BY <1>2, <1>3, <1>5, AccountsAssumption DEF MirrorInv, EnrolledLinked, SameUsers, Existing
  <2> QED  BY <1>2, <1>5, <2>1 DEF MirrorInv, EnrolledLinked
<1>8. ASSUME NEW v \in Existing PROVE Accounted(v)'
  <2>1. CASE v = u
    BY <1>2, <1>3, <2>1 DEF Accounted, SameUsers
  <2>2. CASE v # u
    <3>1. users[v].acct # b
      BY <1>2, <2>2, AccountsAssumption DEF IInv, Links
    <3> QED  BY <1>1, <1>2, <1>3, <1>4, <2>2, <3>1, UserFacts, AccountedKeeps DEF MirrorInv
  <2> QED  BY <2>1, <2>2
<1> QED  BY <1>5, <1>6, <1>7, <1>8 DEF MirrorInv

LEMMA MirrorCredential == ASSUME IInv, MirrorInv, NEW c \in Clients, NewCredential(c) PROVE MirrorInv'
<1>1. /\ reqs[c].op \in {"create", "provision"} /\ UNCHANGED <<users, strayed>> /\ reqs[c].acct \in Accounts
      /\ ~At(c, "login", "mirror") /\ ~At(c, "reset", "row")
  BY DEF NewCredential, At, IInv, ReqShape
<1>2. \A a \in Accounts : auth'[a].enrolled = auth[a].enrolled
  BY <1>1, AccountTypes DEF NewCredential, CreateAccount, IInv, TypeOK, CredTypeOK, Account
<1>3. reqs'[c].op # "login" /\ \A d \in Clients \ {c} : reqs'[d] = reqs[d]
  BY <1>1, DoneRequest, GotoRequest DEF NewCredential, IInv, Places
<1>4. SameUsers
  BY <1>1 DEF SameUsers
<1> QED  BY <1>1, <1>2, <1>3, <1>4, MirrorKeeps

\* A row gives an account its first user: the account has not enrolled, nor has the mirror.
LEMMA MirrorRow ==
    ASSUME IInv, MirrorInv, NEW c \in Clients, Linking(c), Done(c), NEW u \in Users, NEW row \in User,
           users' = [users EXCEPT ![u] = row], row.exists, row.acct = reqs[c].acct, ~row.mirror,
           u \in Existing => users[u].acct = NoAcct,
           UNCHANGED <<auth, strayed>>
    PROVE  MirrorInv'
<1>1. PICK b \in Accounts : b = reqs[c].acct
  BY DEF IInv, ReqShape, Linking
<1>2. users'[u] = row /\ \A v \in Users \ {u} : users'[v] = users[v]
  BY DEF IInv, TypeOK
<1>3. Existing' = Existing \cup {u}
  BY <1>2 DEF Existing
<1>4. ~auth[b].enrolled /\ ~At(c, "login", "mirror") /\ ~At(c, "reset", "row")
  BY <1>1 DEF IInv, Links, Linking, At, MirrorInv, EnrolledLinked
<1>5. reqs'[c].op = "idle" /\ \A d \in Clients \ {c} : reqs'[d] = reqs[d]
  BY DoneRequest DEF IInv
<1>6. LoginsTrue'
  <2> SUFFICES ASSUME NEW d \in Clients, d # c, reqs[d].op = "login", reqs[d].pc \in {"code", "mirror", "mint"}
               PROVE  users'[reqs[d].user].acct = reqs[d].acct
    BY <1>5 DEF LoginsTrue, MirrorInv, At
  <2>1. /\ reqs[d].acct \in Accounts /\ reqs[d].user \in Existing /\ reqs[d].user \in Users
        /\ users[reqs[d].user].acct = reqs[d].acct
    BY DEF IInv, ReqShape, MirrorInv, LoginsTrue, Existing
  <2>2. reqs[d].user # u
    BY <2>1, AccountsAssumption
  <2> QED  BY <1>2, <2>1, <2>2
<1>7. EnrolledLinked'
  <2>1. ASSUME NEW a \in Accounts, auth'[a].enrolled PROVE Linked(a)' # {}
    <3>1. PICK v \in Existing : users[v].acct = a
      BY <2>1 DEF MirrorInv, EnrolledLinked, Linked
    <3>2. v # u /\ v \in Users
      BY <3>1, AccountsAssumption DEF Existing
    <3> QED  BY <1>2, <1>3, <3>1, <3>2 DEF Linked
  <2>2. \A v \in Existing' : users'[v].mirror => users'[v].acct # NoAcct
    BY <1>2, <1>3 DEF MirrorInv, EnrolledLinked, Existing
  <2> QED  BY <2>1, <2>2 DEF EnrolledLinked
<1>8. ASSUME NEW v \in Existing' PROVE Accounted(v)'
  <2>1. CASE v = u
    BY <1>1, <1>2, <1>4, <2>1 DEF Accounted
  <2>2. CASE v # u
    BY <1>2, <1>3, <1>4, <1>5, <2>2, UserFacts, AccountedKeeps DEF MirrorInv
  <2> QED  BY <2>1, <2>2
<1> QED  BY <1>6, <1>7, <1>8 DEF MirrorInv

LEMMA MirrorCreateRow == ASSUME IInv, MirrorInv, NEW c \in Clients, CreateRow(c) PROVE MirrorInv'
<1>1. PICK u \in Users \ Existing :
          users' = [users EXCEPT ![u] = [exists |-> TRUE, acct |-> reqs[c].acct,
                                         admin |-> reqs[c].flag, mirror |-> FALSE]]
  BY DEF CreateRow
<1> DEFINE row == [exists |-> TRUE, acct |-> reqs[c].acct, admin |-> reqs[c].flag, mirror |-> FALSE]
<1>2. Linking(c) /\ Done(c) /\ UNCHANGED <<auth, strayed>>
  BY DEF CreateRow, credVars, Linking, At
<1>3. row \in User /\ row.exists /\ row.acct = reqs[c].acct /\ ~row.mirror
  BY RequestTypes DEF User, IInv
<1>4. users' = [users EXCEPT ![u] = row]
  BY <1>1
<1> HIDE DEF row
<1> QED  BY <1>2, <1>3, <1>4, MirrorRow

LEMMA MirrorProvisionRow == ASSUME IInv, MirrorInv, NEW c \in Clients, ProvisionRow(c) PROVE MirrorInv'
<1>1. PICK u, b : u = reqs[c].user /\ b = reqs[c].acct
  OBVIOUS
<1> DEFINE row == [users[u] EXCEPT !.acct = b, !.admin = TRUE]
<1>2. /\ Linking(c) /\ Done(c) /\ UNCHANGED <<auth, strayed>>
      /\ users' = [users EXCEPT ![u].acct = b, ![u].admin = TRUE]
      /\ u \in Existing /\ u \in Users /\ u \in FirstUsers /\ b = FirstAccount /\ b \in Accounts
      /\ users[u] \in User /\ users[u].exists
  BY <1>1, UserTypes DEF ProvisionRow, credVars, Linking, At, IInv, ReqShape, Existing
<1>3. users[u].acct = NoAcct /\ ~users[u].mirror
  <2>1. Linked(b) = {} /\ users[u].acct \in {NoAcct, FirstAccount}
    BY <1>1, <1>2 DEF IInv, Links
  <2>2. users[u].acct # b
    BY <1>2, <2>1 DEF Linked
  <2> QED  BY <1>2, <2>1, <2>2 DEF MirrorInv, EnrolledLinked
<1>4. row \in User /\ row.exists /\ row.acct = b /\ ~row.mirror
  BY <1>2, <1>3 DEF User
<1>5. users' = [users EXCEPT ![u] = row]
  BY <1>2 DEF IInv, TypeOK
<1>6. Linking(c) /\ Done(c) /\ UNCHANGED <<auth, strayed>> /\ u \in Users /\ row.acct = reqs[c].acct
  BY <1>1, <1>2, <1>4
<1> HIDE DEF row
<1> QED  BY <1>3, <1>4, <1>5, <1>6, MirrorRow

\* The broker forgets an enrolment: the recovery is on its way to the mirror, and a login
\* that was on its way has strayed.
LEMMA MirrorBroker == ASSUME IInv, MirrorInv, NEW c \in Clients, ResetBroker(c) PROVE MirrorInv'
<1>1. PICK b : b = reqs[c].acct
  OBVIOUS
<1>2. /\ At(c, "reset", "broker") /\ Goto(c, "row") /\ UNCHANGED users /\ b \in Accounts
      /\ ~At(c, "login", "mirror") /\ ~At(c, "reset", "row")
      /\ strayed \subseteq strayed' /\ (Mirroring(b) # {} => b \in strayed')
      /\ auth' = [auth EXCEPT ![b] = Unenrolled(Rotated(@))]
  BY <1>1 DEF ResetBroker, ResetAuth, At, IInv, ReqShape
<1>3. ~auth'[b].enrolled /\ \A a \in Accounts \ {b} : auth'[a] = auth[a]
  BY <1>2, AccountTypes DEF Unenrolled, Rotated, IInv, TypeOK, CredTypeOK, Account
<1>4. /\ reqs'[c].op = "reset" /\ reqs'[c].pc = "row" /\ reqs'[c].acct = b
      /\ \A d \in Clients \ {c} : reqs'[d] = reqs[d]
  BY <1>1, <1>2, GotoRequest DEF IInv, Places, At
<1>5. Existing' = Existing /\ (\A a : Linked(a)' = Linked(a))
  BY <1>2 DEF Existing, Linked
<1>6. LoginsTrue'
  <2>1. ASSUME NEW d \in Clients, d # c, At(d, "login", "mirror")
        PROVE  reqs[d].acct \in strayed' \/ auth'[reqs[d].acct].enrolled
    <3>1. reqs[d].acct \in Accounts /\ (reqs[d].acct \in strayed \/ auth[reqs[d].acct].enrolled)
      BY <2>1 DEF MirrorInv, LoginsTrue, At, IInv, ReqShape
    <3>2. reqs[d].acct = b => Mirroring(b) # {}
      BY <2>1 DEF Mirroring
    <3> QED  BY <1>2, <1>3, <3>1, <3>2
  <2> QED  BY <1>2, <1>4, <2>1 DEF LoginsTrue, MirrorInv, At
<1>7. EnrolledLinked'
  BY <1>2, <1>3, <1>5 DEF EnrolledLinked, MirrorInv
<1>8. ASSUME NEW v \in Existing PROVE Accounted(v)'
  <2>1. CASE users[v].acct = b
    <3>1. c \in Recovering(b)'
      BY <1>4 DEF Recovering, At
    <3> QED  BY <1>2, <1>3, <2>1, <3>1, UserFacts DEF Accounted
  <2>2. CASE users[v].acct # b
    BY <1>1, <1>2, <1>3, <1>4, <2>2, UserFacts, AccountedKeeps DEF MirrorInv
  <2> QED  BY <2>1, <2>2
<1> QED  BY <1>5, <1>6, <1>7, <1>8 DEF MirrorInv

\* The recovery is done with the mirror: it is right unless the user enrolled again.
LEMMA MirrorResetRow == ASSUME IInv, MirrorInv, NEW c \in Clients, ResetRow(c) PROVE MirrorInv'
<1>1. PICK b, u : b = reqs[c].acct /\ u = reqs[c].user
  OBVIOUS
<1>2. /\ At(c, "reset", "row") /\ Done(c) /\ UNCHANGED auth
      /\ users' = [users EXCEPT ![u].mirror = FALSE]
      /\ u \in Existing /\ u \in Users /\ b \in Accounts /\ users[u].acct = b
      /\ strayed \subseteq strayed' /\ (auth[b].enrolled => b \in strayed')
  BY <1>1 DEF ResetRow, At, credVars, IInv, ReqShape, Existing
<1>3. /\ users'[u].mirror = FALSE /\ SameUsers
      /\ \A v \in Users \ {u} : users'[v] = users[v]
  BY <1>2, UserTypes DEF IInv, TypeOK, SameUsers, User
<1>4. reqs'[c].op = "idle" /\ \A d \in Clients \ {c} : reqs'[d] = reqs[d]
  BY <1>2, DoneRequest DEF IInv
<1>5. Existing' = Existing /\ \A a : Linked(a)' = Linked(a)
  BY <1>3, SameSets
<1>6. LoginsTrue'
  BY <1>2, <1>3, <1>4 DEF MirrorInv, LoginsTrue, SameUsers, At, IInv, ReqShape, Existing
<1>7. EnrolledLinked'
  <2>1. \A v \in Existing' : users'[v].mirror => users'[v].acct # NoAcct
    BY <1>2, <1>3, <1>5, AccountsAssumption DEF MirrorInv, EnrolledLinked, SameUsers, Existing
  <2> QED  BY <1>2, <1>5, <2>1 DEF MirrorInv, EnrolledLinked
<1>8. ASSUME NEW v \in Existing PROVE Accounted(v)'
  <2>1. CASE v = u
    BY <1>2, <1>3, <2>1 DEF Accounted, SameUsers
  <2>2. CASE v # u
    <3>1. users[v].acct # b
      BY <1>2, <2>2, AccountsAssumption DEF IInv, Links
    <3> QED  BY <1>1, <1>2, <1>3, <1>4, <2>2, <3>1, UserFacts, AccountedKeeps DEF MirrorInv
  <2> QED  BY <2>1, <2>2
<1> QED  BY <1>5, <1>6, <1>7, <1>8 DEF MirrorInv

LEMMA MirrorAdmin == ASSUME IInv, MirrorInv, NEW c \in Clients, AdminWrite(c) PROVE MirrorInv'
<1>1. /\ Done(c) /\ UNCHANGED <<auth, strayed>> /\ reqs[c].user \in Users
      /\ users' = [users EXCEPT ![reqs[c].user].admin = reqs[c].flag]
      /\ ~At(c, "login", "mirror") /\ ~At(c, "reset", "row")
  BY DEF AdminWrite, At, credVars, IInv, ReqShape, Existing
<1>2. SameUsers /\ \A u \in Users : users'[u].mirror = users[u].mirror
  BY <1>1, UserTypes DEF IInv, TypeOK, SameUsers, User
<1>3. reqs'[c].op = "idle" /\ \A d \in Clients \ {c} : reqs'[d] = reqs[d]
  BY <1>1, DoneRequest DEF IInv
<1> QED  BY <1>1, <1>2, <1>3, MirrorKeeps

LEMMA MirrorLost == ASSUME IInv, MirrorInv, NEW c \in Clients, Lost(c) PROVE MirrorInv'
<1>1. Done(c) /\ UNCHANGED <<auth, users>> /\ strayed \subseteq strayed'
  BY DEF Lost, credVars
<1>2. At(c, "login", "mirror") \/ At(c, "reset", "row") => reqs[c].acct \in strayed'
  BY DEF Lost, At
<1> QED  BY <1>1, <1>2, MirrorDone

LEMMA MirrorTorn == ASSUME IInv, MirrorInv, NEW c \in Clients, ResetTorn(c) PROVE MirrorInv'
<1>1. /\ Done(c) /\ UNCHANGED <<users, strayed>> /\ reqs[c].acct \in Accounts
      /\ auth' = [auth EXCEPT ![reqs[c].acct] = Rotated(@)]
      /\ ~At(c, "login", "mirror") /\ ~At(c, "reset", "row")
  BY DEF ResetTorn, ResetHalf, At, IInv, ReqShape
<1>2. \A a \in Accounts : auth'[a].enrolled = auth[a].enrolled
  BY <1>1, AccountTypes DEF Rotated, IInv, TypeOK, CredTypeOK, Account
<1>3. reqs'[c].op = "idle" /\ \A d \in Clients \ {c} : reqs'[d] = reqs[d]
  BY <1>1, DoneRequest DEF IInv
<1>4. SameUsers
  BY <1>1 DEF SameUsers
<1> QED  BY <1>1, <1>2, <1>3, <1>4, MirrorKeeps

\* The mirror of enrolment, which the interface reads, is the broker's word, but while
\* a request is on its way and for accounts where one was lost or overtaken.
THEOREM MirrorTrue == Spec => []MirrorAgrees
<1>1. ASSUME IInv, MirrorInv, [Next]_vars PROVE MirrorInv'
  <2>1. CASE UNCHANGED <<auth, users, reqs, strayed>>
    BY <1>1, <2>1 DEF MirrorInv, LoginsTrue, EnrolledLinked, Accounted, Recovering, Mirroring,
                      At, Linked, Existing
  <2>2. ASSUME NEW c \in Clients, Login(c) PROVE MirrorInv'
    BY <1>1, <2>2, MirrorStarts, MirrorLogins, MirrorStage, MirrorCodeOk, MirrorMirror DEF Login
  <2>3. ASSUME NEW c \in Clients, Administer(c) PROVE MirrorInv'
    BY <1>1, <2>3, MirrorStarts, MirrorCredential, MirrorCreateRow, MirrorProvisionRow,
       MirrorBroker, MirrorResetRow, MirrorAdmin DEF Administer
  <2>4. ASSUME NEW c \in Clients, Lost(c) \/ ResetTorn(c) PROVE MirrorInv'
    BY <1>1, <2>4, MirrorLost, MirrorTorn
  <2> QED  BY <1>1, <2>1, <2>2, <2>3, <2>4 DEF Next, vars, credVars, appVars
<1>2. IInv /\ MirrorInv => MirrorAgrees
  <2> SUFFICES ASSUME IInv, MirrorInv, NEW u \in Existing,
                      users[u].acct \notin strayed \cup {NoAcct}, users[u].mirror # auth[users[u].acct].enrolled
               PROVE  \E c \in Clients : reqs[c].acct = users[u].acct /\ reqs[c].pc \in {"mirror", "row"}
    BY DEF MirrorAgrees
  <2>1. Recovering(users[u].acct) # {} \/ Mirroring(users[u].acct) # {}
    BY UserFacts, AccountTypes DEF MirrorInv, Accounted, IInv
  <2> QED  BY <2>1 DEF Recovering, Mirroring, At
<1> QED  BY MirrorInitially, <1>1, <1>2, AccountsInductive, PTL DEF Spec
=============================================================================

------------------------------- MODULE SignIn -------------------------------
(***************************************************************************)
(* The clocks of sign-in: the backoff of POST /auth/login                  *)
(* (api/routers/auth.py), derived from the rows of auth_events, and the    *)
(* sliding expiry of sessions (api/common/sessions.py).                    *)
(*                                                                         *)
(* A login reads the backoff, then asks the broker, then writes: other     *)
(* logins of the same email come between.  What the broker answers is in   *)
(* Accounts; here a login that has passed the gate succeeds or fails.      *)
(*                                                                         *)
(* Abstractions.  Times are whole seconds, as datetime('now') stores them. *)
(* Of a cookie the row it names is kept.  The audit of browsers            *)
(* (note_session_ua) writes rows that nothing here counts.                 *)
(***************************************************************************)
EXTENDS Naturals, Sequences, FiniteSets

CONSTANTS Emails,    \* emails that are tried
          Clients,   \* logins that run at a time
          NoEmail,
          Base, Cap, Window,   \* _BACKOFF_BASE_S, _BACKOFF_CAP_S, _BACKOFF_WINDOW
          Ttl, RenewAfter,     \* SESSION_TTL, _RENEW_AFTER_SECONDS
          MaxNow,    \* a bound: seconds
          MaxEvents, \* a bound: audit rows of an email
          MaxSessions \* a bound: sessions

ASSUME SignInAssumption ==
    /\ NoEmail \notin Emails
    /\ IsFiniteSet(Clients)
    /\ Base \in Nat /\ Cap \in Nat /\ Window \in Nat
    /\ Base <= Cap /\ Cap <= Window
    /\ Ttl \in Nat /\ RenewAfter \in Nat /\ RenewAfter < Ttl
    /\ MaxNow \in Nat /\ MaxEvents \in Nat /\ MaxSessions \in Nat

VARIABLES now,      \* the clock of the database
          events,   \* auth_events of each email, in the order they were written
          sessions, \* sessions, in the order they were opened
          reqs,     \* what each login is at
          told      \* history: until when an email was last told to wait

vars == <<now, events, sessions, reqs, told>>

Kinds == {"login_fail", "login_blocked", "login_ok"}
Event == [kind : Kinds, at : Nat]

\* used is history: when the session last served a request.
Session == [email : Emails, seen : Nat, exp : Nat, revoked : BOOLEAN, used : Nat]

Places == {"idle", "broker", "mint", "audit"}
Request == [pc : Places, email : Emails \cup {NoEmail}]
Idle == [pc |-> "idle", email |-> NoEmail]

Least(a, b) == IF a <= b THEN a ELSE b

(***************************************************************************)
(* _login_wait_seconds                                                     *)
(***************************************************************************)

\* A mutant: a blocked attempt counts as a failed one.
CountedKindsAll == {"login_fail", "login_blocked"}

\* _COUNTED_FAILS: rows login_fail and totp_fail, one kind here.
CountedKinds == {"login_fail"}

LastOk(e) == {events[e][i].at : i \in {j \in DOMAIN events[e] : events[e][j].kind = "login_ok"}}

\* The failures in the window, later than every login of the email.
Counted(e) == {i \in DOMAIN events[e] :
                  /\ events[e][i].kind \in CountedKinds
                  /\ events[e][i].at + Window >= now
                  /\ \A ok \in LastOk(e) : events[e][i].at > ok}

\* 2 ** n.
Doubled[n \in Nat] == IF n = 0 THEN 1 ELSE 2 * Doubled[n - 1]

\* A mutant: the first failure costs no wait.
CooldownFromSecond(n) == IF n = 1 THEN 0 ELSE Least(Base * Doubled[n - 2], Cap)

Cooldown(n) == Least(Base * Doubled[n - 1], Cap)

Newest(e) == CHOOSE i \in Counted(e) : \A j \in Counted(e) : j <= i

\* When the next attempt may come.
OpensAt(e) ==
    IF Counted(e) = {} THEN 0
    ELSE events[e][Newest(e)].at + Cooldown(Cardinality(Counted(e)))

GateOpen(e) == OpensAt(e) <= now

(***************************************************************************)
(* POST /auth/login                                                        *)
(***************************************************************************)

\* _audit of an attempt.
Audit(e, kind) ==
    /\ Len(events[e]) < MaxEvents
    /\ events' = [events EXCEPT ![e] = Append(@, [kind |-> kind, at |-> now])]

LoginGate(c, e) ==
    /\ reqs[c] = Idle
    /\ GateOpen(e)
    /\ reqs' = [reqs EXCEPT ![c] = [pc |-> "broker", email |-> e]]
    /\ UNCHANGED <<now, events, sessions, told>>

\* 429, with the wait in Retry-After.
LoginBlocked(c, e) ==
    /\ reqs[c] = Idle
    /\ ~GateOpen(e)
    /\ Audit(e, "login_blocked")
    /\ told' = [told EXCEPT ![e] = OpensAt(e)]
    /\ UNCHANGED <<now, sessions, reqs>>

\* The broker refuses the password or the code.
LoginFail(c) ==
    LET e == reqs[c].email IN
    /\ reqs[c].pc = "broker"
    /\ Audit(e, "login_fail")
    /\ told' = [told EXCEPT ![e] = 0]
    /\ reqs' = [reqs EXCEPT ![c] = Idle]
    /\ UNCHANGED <<now, sessions>>

LoginPass(c) ==
    /\ reqs[c].pc = "broker"
    /\ reqs' = [reqs EXCEPT ![c].pc = "mint"]
    /\ UNCHANGED <<now, events, sessions, told>>

\* The request ends without a row: it asked for the second step only, the
\* broker did not answer, or the process was killed.
LoginEnd(c) ==
    /\ reqs[c] # Idle
    /\ reqs' = [reqs EXCEPT ![c] = Idle]
    /\ UNCHANGED <<now, events, sessions, told>>

\* A mutant: the session is written without its owner.
LoginMintNobody(c) ==
    /\ reqs[c].pc = "mint"
    /\ Len(sessions) < MaxSessions
    /\ sessions' = Append(sessions, [email |-> NoEmail, seen |-> now, exp |-> now + Ttl,
                                     revoked |-> FALSE, used |-> now])
    /\ reqs' = [reqs EXCEPT ![c].pc = "audit"]
    /\ UNCHANGED <<now, events, told>>

\* create_session.
LoginMint(c) ==
    /\ reqs[c].pc = "mint"
    /\ Len(sessions) < MaxSessions
    /\ sessions' = Append(sessions, [email |-> reqs[c].email, seen |-> now, exp |-> now + Ttl,
                                     revoked |-> FALSE, used |-> now])
    /\ reqs' = [reqs EXCEPT ![c].pc = "audit"]
    /\ UNCHANGED <<now, events, told>>

LoginAudit(c) ==
    /\ reqs[c].pc = "audit"
    /\ Audit(reqs[c].email, "login_ok")
    /\ reqs' = [reqs EXCEPT ![c] = Idle]
    /\ UNCHANGED <<now, sessions, told>>

(***************************************************************************)
(* Sessions                                                                *)
(***************************************************************************)

Live(s) == ~s.revoked /\ s.exp > now

\* A mutant: every request stamps last_seen_at, the throttle keeps the expiry.
RenewedSeenOnly(s) == IF now - s.seen > RenewAfter
                      THEN [s EXCEPT !.seen = now, !.exp = now + Ttl]
                      ELSE [s EXCEPT !.seen = now]

\* The throttled renewal.
Renewed(s) == IF now - s.seen > RenewAfter
              THEN [s EXCEPT !.seen = now, !.exp = now + Ttl] ELSE s

\* resolve_session, for every request that carries the cookie of a live row.
UseSession(i) ==
    /\ Live(sessions[i])
    /\ sessions' = [sessions EXCEPT ![i] = [Renewed(@) EXCEPT !.used = now]]
    /\ UNCHANGED <<now, events, reqs, told>>

\* POST /auth/logout: revoke_session.
Logout(i) ==
    /\ ~sessions[i].revoked
    /\ sessions' = [sessions EXCEPT ![i].revoked = TRUE]
    /\ UNCHANGED <<now, events, reqs, told>>

Tick ==
    /\ now < MaxNow
    /\ now' = now + 1
    /\ UNCHANGED <<events, sessions, reqs, told>>

Init ==
    /\ now = 1
    /\ events = [e \in Emails |-> << >>]
    /\ sessions = << >>
    /\ reqs = [c \in Clients |-> Idle]
    /\ told = [e \in Emails |-> 0]

Login(c) ==
    \/ \E e \in Emails : LoginGate(c, e) \/ LoginBlocked(c, e)
    \/ LoginFail(c) \/ LoginPass(c) \/ LoginEnd(c) \/ LoginMint(c) \/ LoginAudit(c)

Next ==
    \/ \E c \in Clients : Login(c)
    \/ \E i \in DOMAIN sessions : UseSession(i) \/ Logout(i)
    \/ Tick

Spec == Init /\ [][Next]_vars

(***************************************************************************)
(* Properties                                                              *)
(***************************************************************************)

\* Every variable has its type.
TypeOK ==
    /\ now \in Nat
    /\ events \in [Emails -> Seq(Event)]
    /\ sessions \in Seq(Session)
    /\ reqs \in [Clients -> Request]
    /\ told \in [Emails -> Nat]

\* "Polling a locked account can't keep extending the timer": whoever waits as
\* long as Retry-After says finds the gate open, however often the email is
\* polled meanwhile, unless a login that was under way has failed.
WaitToldIsEnough ==
    \A e \in Emails : told[e] # 0 /\ now >= told[e] => GateOpen(e)

Failures(e) == {i \in DOMAIN events[e] : events[e][i].kind = "login_fail"}

\* The failures from one to another.
Span(e, i, j) == {k \in Failures(e) : i <= k /\ k <= j}

\* Logins that run side by side pass the gate together, but no more than that:
\* of more failures than logins run at a time, the last is at least the shortest
\* wait later than the first, unless a login succeeded between.
GuessesPaced ==
    \A e \in Emails : \A i, j \in Failures(e) :
        Cardinality(Span(e, i, j)) > Cardinality(Clients) =>
            \/ events[e][j].at >= events[e][i].at + Base
            \/ \E ok \in LastOk(e) : events[e][i].at <= ok /\ ok <= events[e][j].at

\* A session in use does not expire: while it is not revoked it serves requests
\* for the whole of its time, less the throttle, after the last one it served.
SlidingKeepsAlive ==
    \A i \in DOMAIN sessions : LET s == sessions[i] IN
        ~s.revoked /\ now < s.used + (Ttl - RenewAfter) => Live(s)
=============================================================================

---------------------------- MODULE Credentials ----------------------------
(***************************************************************************)
(* The broker's store of accounts, shell_core/broker/auth_store.py, as its *)
(* admin routes reach it (shell_core/broker/broker.py).  The broker is one *)
(* event loop whose handlers await nothing after their body is read, so a  *)
(* handler is one step here, however many commits it makes; only a kill of *)
(* the broker can fall between two commits of one handler.                 *)
(*                                                                         *)
(* Abstractions.  An account stands for its email too (both are unique).   *)
(* A password and an authenticator seed are the number of times one has    *)
(* been drawn.  now counts the 30-second steps of the codes; the code of a *)
(* seed at a step is the pair of the two.                                  *)
(***************************************************************************)
EXTENDS Naturals, Sequences, FiniteSets

CONSTANTS Accounts,   \* emails, each with the account_id it would be given
          MaxNow,     \* a bound: steps of the clock
          MaxSeeds,   \* a bound: seeds drawn for one account
          MaxResets   \* a bound: recoveries of one account

ASSUME CredentialsAssumption ==
    MaxNow \in Nat /\ MaxSeeds \in Nat /\ MaxResets \in Nat

VARIABLES auth,   \* auth_users
          now     \* the clock

credVars == <<auth, now>>

\* seed = 0: no seed; last = 0: no code consumed (the clock starts at 2).
\* drawn counts seeds, so that a seed is never drawn twice.
Account == [exists : BOOLEAN, pw : Nat, seed : Nat, drawn : Nat,
            enrolled : BOOLEAN, last : Nat]

NoAccount == [exists |-> FALSE, pw |-> 0, seed |-> 0, drawn |-> 0,
              enrolled |-> FALSE, last |-> 0]

\* A code that an authenticator with this seed shows at this step.
Code == [seed : Nat, step : Nat]
NoCode == [seed |-> 0, step |-> 0]

(***************************************************************************)
(* What a handler answers                                                  *)
(***************************************************************************)

\* verify_password: the same answer for an unknown account and a wrong word.
PasswordOk(a, pw) == auth[a].exists /\ auth[a].pw = pw

\* _match_step: the code is of the stored seed and at most one step away.
Matches(a, code) ==
    /\ auth[a].seed # 0
    /\ code.seed = auth[a].seed
    /\ code.step \in (now - 1)..(now + 1)

\* totp_enroll_confirm, without the limit on attempts.
ConfirmOk(a, code) == ~auth[a].enrolled /\ Matches(a, code)

\* A mutant: the step of the last code is taken again.
NotConsumedLoose(a, code) == code.step >= auth[a].last

\* The replay guard of totp_verify.
NotConsumed(a, code) == code.step > auth[a].last

\* totp_verify, without the limit on attempts.
VerifyOk(a, code) == auth[a].enrolled /\ Matches(a, code) /\ NotConsumed(a, code)

(***************************************************************************)
(* What a handler writes                                                   *)
(***************************************************************************)

\* create_user.
CreateAccount(a) == auth' = [auth EXCEPT ![a].exists = TRUE, ![a].pw = @ + 1]

\* totp_enroll_begin: a pending seed, replacing one that was never confirmed.
EnrollBegin(a) ==
    /\ auth[a].drawn < MaxSeeds
    /\ auth' = [auth EXCEPT ![a].drawn = @ + 1, ![a].seed = auth[a].drawn + 1, ![a].last = 0]

\* totp_enroll_confirm: the code that confirms is consumed.
EnrollConfirm(a, code) ==
    auth' = [auth EXCEPT ![a].enrolled = TRUE, ![a].last = code.step]

\* totp_verify.
Consume(a, code) == auth' = [auth EXCEPT ![a].last = code.step]

Rotated(acc) == [acc EXCEPT !.pw = @ + 1]
Unenrolled(acc) == [acc EXCEPT !.seed = 0, !.enrolled = FALSE, !.last = 0]

\* reset_user_auth: rotate_password and reset_totp, each with its commit.
ResetAuth(a) == auth' = [auth EXCEPT ![a] = Unenrolled(Rotated(@))]

\* The broker is killed between the two commits of reset_user_auth.
ResetHalf(a) == auth' = [auth EXCEPT ![a] = Rotated(@)]

Tick ==
    /\ now < MaxNow
    /\ now' = now + 1

CredInit ==
    /\ auth = [a \in Accounts |-> NoAccount]
    /\ now = 2

CredTypeOK ==
    /\ auth \in [Accounts -> Account]
    /\ now \in Nat
=============================================================================

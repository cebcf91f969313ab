------------------------------ MODULE Mailbox ------------------------------
(***************************************************************************)
(* What the dispatcher promises about a user's messages, without threads,  *)
(* turns or processes: a message waits, and is then either settled (its    *)
(* turn ended with it read) or withdrawn by a clear; the messages of one   *)
(* session are settled in the order they were sent; no message comes back. *)
(* A clear does not reach a turn that runs already, so a withdrawn message *)
(* may still be settled.                                                   *)
(***************************************************************************)
EXTENDS Naturals

CONSTANT Sessions

VARIABLES box,    \* per message id: its session and what became of it
          last    \* the newest message id, 0 before the first

Statuses == {"waiting", "settled", "withdrawn"}

Waiting(i) == box[i].status = "waiting"

MailboxTypeOK ==
    /\ last \in Nat
    /\ DOMAIN box \subseteq 1..last
    /\ \A i \in DOMAIN box : box[i] \in [sess : Sessions, status : Statuses]

MailboxInit == last = 0 /\ box = [i \in {} |-> 0]

\* A user writes to session s.
Arrive(s) ==
    /\ last' > last
    /\ box' = [j \in DOMAIN box \cup {last'} |->
                 IF j = last' THEN [sess |-> s, status |-> "waiting"] ELSE box[j]]

WithStatus(W, st) == [j \in DOMAIN box |->
                        IF j \in W THEN [box[j] EXCEPT !.status = st] ELSE box[j]]

\* A clear takes, with a message, all older waiting ones of its session.
Withdraw(W) ==
    /\ \A i \in W : Waiting(i)
    /\ \A i \in W, j \in DOMAIN box :
          j < i /\ box[j].sess = box[i].sess /\ Waiting(j) => j \in W
    /\ box' = WithStatus(W, "withdrawn")
    /\ UNCHANGED last

\* Message i is the oldest waiting one of its session.
Foremost(i) == \A j \in DOMAIN box : j < i /\ box[j].sess = box[i].sess => ~Waiting(j)

\* i is settled; W, if not empty, is withdrawn with it (auto-clear).
Settle(i, W) ==
    /\ box[i].status \in {"waiting", "withdrawn"}
    /\ Waiting(i) => Foremost(i)
    /\ \A j \in W : Waiting(j) /\ j # i /\ box[j].sess = box[i].sess
    /\ box' = [WithStatus(W, "withdrawn") EXCEPT ![i].status = "settled"]
    /\ UNCHANGED last

MailboxNext == \/ \E s \in Sessions : Arrive(s)
               \/ \E W \in SUBSET DOMAIN box : Withdraw(W)
               \/ \E i \in DOMAIN box : \E W \in SUBSET DOMAIN box : Settle(i, W)

MailboxSpec == MailboxInit /\ [][MailboxNext]_<<box, last>>
=============================================================================

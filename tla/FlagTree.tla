------------------------------ MODULE FlagTree ------------------------------
(***************************************************************************)
(* shell_core/api/routers/flags.py: the parent links of flags, and the     *)
(* flag_schedule view that walks them.  The API runs its handlers in a     *)
(* thread pool, and a SELECT of sqlite3 outside a transaction commits by   *)
(* itself: what a handler validates and the transaction it then writes are *)
(* steps other requests can come between.                                  *)
(*                                                                         *)
(* Left out: who may see a flag, its texts, notes, priority and status,    *)
(* and the project event each write appends.  A request whose validation   *)
(* fails answers 404 or 422 and changes nothing.                           *)
(***************************************************************************)
EXTENDS Naturals, FiniteSets

CONSTANTS Flags,    \* ids of flags, a bound on how many are ever created
          Clients,  \* requests that may be open side by side
          NoFlag    \* parent_flag_id NULL

ASSUME FlagAssumption == NoFlag \notin Flags

VARIABLES flag,   \* per id: the row of table flags
          req,    \* per client: the open request
          raced   \* history: a parent was written after its validation was outdated

vars == <<flag, req, raced>>

Parents == Flags \cup {NoFlag}

Row == [exists : BOOLEAN, deleted : BOOLEAN, parent : Parents, dated : BOOLEAN]
NoRowYet == [exists |-> FALSE, deleted |-> FALSE, parent |-> NoFlag, dated |-> FALSE]

\* How far a request is: it has seen its flag, found its parent, walked up.
Request == [pc : {"idle", "seen", "found", "walked"},
            op : {"none", "create", "attach", "detach", "date", "delete"},
            id : Parents, to : Parents, dated : BOOLEAN, outdated : BOOLEAN]
Idle == [pc |-> "idle", op |-> "none", id |-> NoFlag, to |-> NoFlag,
         dated |-> FALSE, outdated |-> FALSE]

Live(f) == f \in Flags /\ flag[f].exists /\ ~flag[f].deleted

(***************************************************************************)
(* Walking up                                                              *)
(***************************************************************************)

\* The rows of _check_no_cycle's recursive query from p.
InChain(f, p) ==
    \A S \in SUBSET Flags :
        p \in S /\ (\A x \in S : flag[x].parent \in S \cup {NoFlag}) => f \in S

\* A set of flags that are one another's parents.
Loop(S) == S # {} /\ \A x \in S : flag[x].parent \in S

\* The query is a UNION ALL: from a flag below a loop it never ends.
WalkEnds(p) == ~ \E S \in SUBSET Flags : p \in S /\ Loop(S)

(***************************************************************************)
(* A request's reads                                                       *)
(***************************************************************************)

Open(c, r) ==
    /\ req[c].pc = "idle"
    /\ req' = [req EXCEPT ![c] = r]
    /\ UNCHANGED <<flag, raced>>

\* A bound: there is an id left for one more open POST.
Room == Cardinality({d \in Clients : req[d].op = "create"})
           < Cardinality({f \in Flags : ~flag[f].exists})

\* POST /flags: nothing to see before the parent is looked up.
BeginCreate(c, to, dated) ==
    Room /\ Open(c, [Idle EXCEPT !.pc = "seen", !.op = "create", !.to = to, !.dated = dated])

\* PATCH /flags/{id}, /start_date and DELETE: _visible_row finds a live flag.
BeginAttach(c, f, to, dated) ==
    Live(f) /\ Open(c, [Idle EXCEPT !.pc = "seen", !.op = "attach", !.id = f, !.to = to,
                                    !.dated = dated])

BeginDetach(c, f) ==
    Live(f) /\ Open(c, [Idle EXCEPT !.pc = "seen", !.op = "detach", !.id = f])

BeginDate(c, f, dated) ==
    Live(f) /\ Open(c, [Idle EXCEPT !.pc = "seen", !.op = "date", !.id = f, !.dated = dated])

BeginDelete(c, f) ==
    Live(f) /\ Open(c, [Idle EXCEPT !.pc = "seen", !.op = "delete", !.id = f])

\* The request goes on to pc if its check holds, and ends in a 422 otherwise.
Checked(c, ok, pc) ==
    /\ req' = [req EXCEPT ![c] = IF ok THEN [@ EXCEPT !.pc = pc] ELSE Idle]
    /\ UNCHANGED <<flag, raced>>

\* A mutant: a deleted flag is taken for a parent.
ValidateParentExists(c) ==
    /\ req[c].pc = "seen" /\ req[c].op \in {"create", "attach"}
    /\ Checked(c, req[c].to = NoFlag \/ flag[req[c].to].exists, "found")

\* _validate_parent
ValidateParent(c) ==
    /\ req[c].pc = "seen" /\ req[c].op \in {"create", "attach"}
    /\ Checked(c, req[c].to = NoFlag \/ Live(req[c].to), "found")

\* A mutant: the walk leaves out its first row and stops at the parent's parent.
CheckNoCycleOneUp(c) ==
    /\ req[c].pc = "found" /\ req[c].op = "attach"
    /\ WalkEnds(req[c].to)
    /\ Checked(c, req[c].id \notin {req[c].to, flag[req[c].to].parent}, "walked")

\* _check_no_cycle
CheckNoCycle(c) ==
    /\ req[c].pc = "found" /\ req[c].op = "attach"
    /\ WalkEnds(req[c].to)
    /\ Checked(c, ~InChain(req[c].id, req[c].to), "walked")

(***************************************************************************)
(* A request's transaction                                                 *)
(***************************************************************************)

\* The commit of c's request outdates what d's request has validated: d has
\* found a parent that c deletes, or d has walked up while c moves a flag.
Outdates(c, d) ==
    \/ /\ req[c].op = "delete"
       /\ req[d].pc \in {"found", "walked"} /\ req[d].to = req[c].id
    \/ req[c].op = "attach" /\ req[d].pc = "walked"

\* The transaction turns table flags into rows; the request is answered.
Commit(c, rows) ==
    /\ flag' = rows
    /\ req' = [d \in Clients |-> IF d = c THEN Idle
                                 ELSE [req[d] EXCEPT !.outdated = @ \/ Outdates(c, d)]]
    /\ raced' = (raced \/ req[c].outdated)

\* create_flag
Create(c) ==
    /\ req[c].pc = "found" /\ req[c].op = "create"
    /\ \E f \in Flags :
          /\ ~flag[f].exists
          /\ Commit(c, [flag EXCEPT ![f] = [exists |-> TRUE, deleted |-> FALSE,
                                            parent |-> req[c].to, dated |-> req[c].dated]])

\* update_flag with a parent_flag_id, and perhaps a start_date
Attach(c) ==
    /\ req[c].pc = "walked"
    /\ Commit(c, [flag EXCEPT ![req[c].id].parent = req[c].to,
                              ![req[c].id].dated = @ \/ req[c].dated])

\* A mutant: the link is set to 0 and not to NULL.
DetachToZero(c) ==
    /\ req[c].pc = "seen" /\ req[c].op = "detach"
    /\ Commit(c, [flag EXCEPT ![req[c].id].parent = 0])

\* update_flag with clear_parent
Detach(c) ==
    /\ req[c].pc = "seen" /\ req[c].op = "detach"
    /\ Commit(c, [flag EXCEPT ![req[c].id].parent = NoFlag])

\* update_flag_start_date
SetStartDate(c) ==
    /\ req[c].pc = "seen" /\ req[c].op = "date"
    /\ Commit(c, [flag EXCEPT ![req[c].id].dated = req[c].dated])

\* Table flags with x deleted and its children given to p.
Without(x, p) ==
    [f \in Flags |-> [flag[f] EXCEPT !.deleted = @ \/ f = x,
                                     !.parent = IF @ = x THEN p ELSE @]]

\* A mutant: the children stay where they are.
DeleteLeavesChildren(c) ==
    /\ req[c].pc = "seen" /\ req[c].op = "delete"
    /\ Commit(c, Without(req[c].id, req[c].id))

\* delete_flag: children go to the grandparent.
Delete(c) ==
    /\ req[c].pc = "seen" /\ req[c].op = "delete"
    /\ Commit(c, Without(req[c].id, flag[req[c].id].parent))

(***************************************************************************)
(* Specification                                                           *)
(***************************************************************************)

Init ==
    /\ flag = [f \in Flags |-> NoRowYet]
    /\ req = [c \in Clients |-> Idle]
    /\ raced = FALSE

Begin(c) ==
    \/ \E to \in Parents, dated \in BOOLEAN : BeginCreate(c, to, dated)
    \/ \E f \in Flags, to \in Flags, dated \in BOOLEAN : BeginAttach(c, f, to, dated)
    \/ \E f \in Flags : BeginDetach(c, f)
    \/ \E f \in Flags, dated \in BOOLEAN : BeginDate(c, f, dated)
    \/ \E f \in Flags : BeginDelete(c, f)

Handle(c) == \/ ValidateParent(c)
             \/ CheckNoCycle(c)
             \/ Create(c)
             \/ Attach(c)
             \/ Detach(c)
             \/ SetStartDate(c)
             \/ Delete(c)

Next == \E c \in Clients : Begin(c) \/ Handle(c)

Spec == Init /\ [][Next]_vars

(***************************************************************************)
(* Properties                                                              *)
(***************************************************************************)

\* Every variable has its type.
TypeOK ==
    /\ flag \in [Flags -> Row]
    /\ req \in [Clients -> Request]
    /\ raced \in BOOLEAN

Acyclic == \A S \in SUBSET Flags : ~Loop(S)

LiveParents == \A f \in Flags : Live(f) => flag[f].parent = NoFlag \/ Live(flag[f].parent)

\* Live flags the schedule view never reaches: without a start date of their
\* own, below one another or below a deleted flag.
Unreached(S) ==
    /\ S # {}
    /\ \A f \in S : /\ Live(f)
                    /\ ~flag[f].dated
                    /\ flag[f].parent # NoFlag
                    /\ flag[f].parent \in S \/ ~Live(flag[f].parent)

\* The checks of the handlers are enough except for two races, which Outdates
\* names: unless one has happened, the parent links have no loop, whatever the
\* requests and their order.
NoLoopWithoutRace == raced \/ Acyclic

\* Likewise, no live flag hangs below a deleted one: deletions re-parent.
NoOrphanWithoutRace == raced \/ LiveParents

\* Likewise, every live flag has a row in the schedule.
AllScheduledWithoutRace == raced \/ \A S \in SUBSET Flags : ~Unreached(S)
=============================================================================

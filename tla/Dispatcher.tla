---------------------------- MODULE Dispatcher ----------------------------
(***************************************************************************)
(* shell_core/services/dispatch_live.py: the supervisor, one polling       *)
(* thread per browser-chat shell, its pool of turn workers, shutdown and   *)
(* restart, on top of the chat tables of module Chat.                      *)
(*                                                                         *)
(* A step of this module is one database transaction, one lock region or   *)
(* one call of the chat API, so every interleaving of threads the code     *)
(* admits between those is a behaviour.  The model and tool calls of a     *)
(* turn are the time it spends in "thinking".  A fault (a kill, an API     *)
(* failure, an exception) spends one unit of MaxFaults.                    *)
(***************************************************************************)
EXTENDS Chat

CONSTANTS Procs,        \* dispatcher processes that may exist side by side
          Slots,        \* shell_loop threads one shell may have in a process
          PoolWorkers,  \* POOL_WORKERS
          Attempts,     \* tries _request makes of one call (3 in the code)
          MaxFaults     \* a bound: faults in one behaviour

ASSUME DispatcherAssumption ==
    /\ Slots \subseteq Nat
    /\ PoolWorkers \in Nat \ {0}
    /\ Attempts \in Nat \ {0}
    /\ MaxFaults \in Nat

NoProc == "none"
ASSUME NoProcAssumption == NoProc \notin Procs

VARIABLES proc,     \* per process: off, up, or past SIGTERM
          flock,    \* the process holding .dispatch_live.lock, or NoProc
          loops,    \* per shell_loop thread: its locals and in_flight set
          turns,    \* _run_turn work items: queued, running, finishing
          uncleared, \* history: sessions whose last marker could not be cleared
          faults    \* faults so far

procVars == <<proc, flock>>
vars == <<messages, sessions, browser, proc, flock, loops, turns, uncleared, faults>>

\* A thread is told apart by its process, its shell and a slot.
Loops == Procs \X Shells \X Slots

Proc == {"off", "up", "exiting"}

Loop == [st : {"absent", "top", "fetched", "drain"}, stop : BOOLEAN,
         unread : SUBSET Nat, inflight : SUBSET Sessions]
Absent == [st |-> "absent", stop |-> FALSE, unread |-> {}, inflight |-> {}]
NewLoop == [Absent EXCEPT !.st = "top"]

Turn == [loop : Loops, msg : Nat, sess : Sessions, tries : Nat,
         pc : {"queued", "marked", "thinking", "done", "unmarked"}]

Alive(l) == loops[l].st # "absent"
LoopsOf(p) == {l \in Loops : l[1] = p}
TurnsOf(l) == {t \in turns : t.loop = l}

\* The turns of l's pool that a worker has started.
Running(l) == {t \in TurnsOf(l) : t.pc # "queued"}

\* Turns that hold their session's marker in chat_sessions.
Marking == {"marked", "thinking", "done"}

Fault == faults < MaxFaults /\ faults' = faults + 1

\* Clears turn_in_flight_* of the sessions of the shells in shs.
ClearMarkers(shs) ==
    /\ sessions' = [s \in Sessions |-> IF ShellOf[s] \in shs
                                       THEN [sessions[s] EXCEPT !.marker = 0]
                                       ELSE sessions[s]]
    /\ uncleared' = {s \in uncleared : ShellOf[s] \notin shs}

(***************************************************************************)
(* The process: start, supervisor, shutdown                                *)
(***************************************************************************)

\* main: takes the lock file's lock, or aborts.
Start(p) ==
    /\ proc[p] = "off"
    /\ flock = NoProc
    /\ flock' = p
    /\ proc' = [proc EXCEPT ![p] = "up"]
    /\ UNCHANGED <<messages, sessions, browser, loops, turns, uncleared, faults>>

\* The supervisor's pass reads browser_chat once and then acts on it shell by
\* shell.  No other step reads browser_chat or changes what the pass tests of a
\* shell, so each of its decisions is one step here, taken at the reading.

\* A running shell that has left: its thread is told to stop and then drains.
Leave(l) ==
    /\ proc[l[1]] = "up"
    /\ Alive(l) /\ ~loops[l].stop
    /\ ~browser[l[2]]
    /\ loops' = [loops EXCEPT ![l].stop = TRUE]
    /\ UNCHANGED <<messages, sessions, browser, proc, flock, turns, uncleared, faults>>

\* The thread of a shell that has left is still finishing its turns.
Draining(p, sh) == \E l \in LoopsOf(p) : l[2] = sh /\ Alive(l) /\ loops[l].stop

\* The supervisor's running dict has an entry for sh.
IsRunning(p, sh) == \E l \in LoopsOf(p) : l[2] = sh /\ Alive(l) /\ ~loops[l].stop

\* A mutant: the supervisor does not wait for the previous thread.
MayJoinNoDrain(p, sh) == ~IsRunning(p, sh)

MayJoin(p, sh) == ~IsRunning(p, sh) /\ ~Draining(p, sh)

\* A new thread takes the lowest free slot of its shell.
NextSlot(l) == /\ ~Alive(l)
               /\ \A k \in Slots : k < l[3] => Alive(<<l[1], l[2], k>>)

\* A mutant: the shell joins with the markers of the last run in place.
JoinKeepsMarkers(l) ==
    /\ proc[l[1]] = "up"
    /\ browser[l[2]]
    /\ MayJoin(l[1], l[2])
    /\ NextSlot(l)
    /\ loops' = [loops EXCEPT ![l] = NewLoop]
    /\ UNCHANGED <<messages, sessions, browser, proc, flock, turns, uncleared, faults>>

\* A shell that has gained browser_chat: stale markers go, its thread starts.
\* If that write fails no thread starts, and the next pass tries again.
Join(l) ==
    /\ proc[l[1]] = "up"
    /\ browser[l[2]]
    /\ MayJoin(l[1], l[2])
    /\ NextSlot(l)
    /\ ClearMarkers({l[2]})
    /\ loops' = [loops EXCEPT ![l] = NewLoop]
    /\ UNCHANGED <<messages, browser, proc, flock, turns, faults>>

\* _on_sigterm: every running loop is stopped, its markers cleared (or not, if
\* the write fails) and the lock let go; sys.exit then waits for the pool
\* workers, not done here.
Sigterm(p) ==
    LET mine == {l \in LoopsOf(p) : Alive(l) /\ ~loops[l].stop}
    IN /\ Fault
       /\ proc[p] = "up"
       /\ proc' = [proc EXCEPT ![p] = "exiting"]
       /\ flock' = IF flock = p THEN NoProc ELSE flock
       /\ ClearMarkers({l[2] : l \in mine}) \/ UNCHANGED <<sessions, uncleared>>
       /\ loops' = [l \in Loops |-> IF l \in mine THEN [loops[l] EXCEPT !.stop = TRUE]
                                    ELSE loops[l]]
       /\ UNCHANGED <<messages, browser, turns>>

\* All that process p holds in memory is gone.
Vanish(p) ==
    /\ proc' = [proc EXCEPT ![p] = "off"]
    /\ loops' = [l \in Loops |-> IF l[1] = p THEN Absent ELSE loops[l]]
    /\ turns' = {t \in turns : t.loop[1] # p}

\* Interpreter exit: the pool's workers have run what was queued; the shell
\* threads are daemons and die wherever they are.
Exit(p) ==
    /\ proc[p] = "exiting"
    /\ \A t \in turns : t.loop[1] # p
    /\ Vanish(p)
    /\ UNCHANGED <<messages, sessions, browser, flock, uncleared, faults>>

\* A crash or a SIGKILL (pm2 sends one after kill_timeout); the kernel frees
\* the lock.
Kill(p) ==
    /\ Fault
    /\ proc[p] # "off"
    /\ Vanish(p)
    /\ flock' = IF flock = p THEN NoProc ELSE flock
    /\ UNCHANGED <<messages, sessions, browser, uncleared>>

(***************************************************************************)
(* shell_loop                                                              *)
(***************************************************************************)

\* while not stop_event.is_set(): the unread rows of the shell are read.
Fetch(l) ==
    /\ loops[l].st = "top" /\ ~loops[l].stop
    /\ loops' = [loops EXCEPT ![l].st = "fetched",
                     ![l].unread = {i \in Pending : ShellOf[messages[i].sess] = l[2]}]
    /\ UNCHANGED <<messages, sessions, browser, proc, flock, turns, uncleared, faults>>

\* A fetched row whose session has no turn in flight.
Free(l, i) == i \in loops[l].unread /\ messages[i].sess \notin loops[l].inflight

\* Row j was fetched with row i and is of the same session.
Beside(l, i, j) == j \in loops[l].unread /\ messages[j].sess = messages[i].sess

\* A mutant: the newest fetched row of a session goes first.
PickedNewest(l) ==
    {i \in loops[l].unread : Free(l, i) /\ \A j \in MessageIds : Beside(l, i, j) => i >= j}

\* The oldest fetched row of each session with no turn in flight.
Picked(l) ==
    {i \in loops[l].unread : Free(l, i) /\ \A j \in MessageIds : Beside(l, i, j) => i <= j}

NewTurn(l, i) == [loop |-> l, msg |-> i, sess |-> messages[i].sess,
                  tries |-> 0, pc |-> "queued"]

\* Under the lock: the picked rows are submitted.  in_flight is read in two
\* regions and only shrinks between them, so the first one decides.  A loop that
\* saw no stop event yet still submits; that interpreter shutdown may refuse its
\* items is left out, as nothing of this process comes after.
Submit(l) ==
    /\ loops[l].st = "fetched"
    /\ turns' = turns \cup {NewTurn(l, i) : i \in Picked(l)}
    /\ loops' = [loops EXCEPT ![l].st = "top", ![l].unread = {},
                              ![l].inflight = @ \cup {messages[i].sess : i \in Picked(l)}]
    /\ UNCHANGED <<messages, sessions, browser, proc, flock, uncleared, faults>>

\* The loop sees the stop event and enters pool.shutdown(wait=True).
Halt(l) ==
    /\ loops[l].st = "top" /\ loops[l].stop
    /\ loops' = [loops EXCEPT ![l].st = "drain"]
    /\ UNCHANGED <<messages, sessions, browser, proc, flock, turns, uncleared, faults>>

\* The pool has drained: the thread ends.
LoopEnds(l) ==
    /\ loops[l].st = "drain"
    /\ TurnsOf(l) = {}
    /\ loops' = [loops EXCEPT ![l] = Absent]
    /\ UNCHANGED <<messages, sessions, browser, proc, flock, turns, uncleared, faults>>

(***************************************************************************)
(* _run_turn, process_inbound, post_reply                                  *)
(***************************************************************************)

\* Turn t moves on to pc, with k tries behind it.
Becomes(t, pc, k) == turns' = (turns \ {t}) \cup {[t EXCEPT !.pc = pc, !.tries = k]}

Moves(t, pc) == Becomes(t, pc, 0)

MarkRead(i) == messages' = [messages EXCEPT ![i].read = TRUE]

\* A worker may take one more item of t's pool, and t is waiting for one.
Takable(t) == t.pc = "queued" /\ Cardinality(Running(t.loop)) < PoolWorkers

\* A mutant: the marker holds the session's id.
TurnStartMarksSession(t) ==
    /\ Takable(t)
    /\ Moves(t, "marked")
    /\ sessions' = [sessions EXCEPT ![t.sess].marker = t.sess]
    /\ UNCHANGED <<messages, browser, proc, flock, loops, uncleared, faults>>

\* A mutant: a stopping pool leaves its queue alone.
TurnStartUnlessStopped(t) ==
    /\ Takable(t)
    /\ ~loops[t.loop].stop
    /\ Moves(t, "marked")
    /\ sessions' = [sessions EXCEPT ![t.sess].marker = t.msg]
    /\ UNCHANGED <<messages, browser, proc, flock, loops, uncleared, faults>>

\* A worker takes the item and commits the session's marker.
TurnStart(t) ==
    /\ Takable(t)
    /\ Moves(t, "marked")
    /\ sessions' = [sessions EXCEPT ![t.sess].marker = t.msg]
    /\ uncleared' = uncleared \ {t.sess}
    /\ UNCHANGED <<messages, browser, proc, flock, loops, faults>>

\* That first write fails (a database busy for 10 s): nothing else is done.
TurnStartFails(t) ==
    /\ Fault
    /\ Takable(t)
    /\ Moves(t, "unmarked")
    /\ UNCHANGED <<messages, sessions, browser, proc, flock, loops, uncleared>>

\* The rows load_history returns: the last Window visible rows, without the
\* outbound ones they begin with.
History(s) ==
    LET shown == {i \in Visible(s) : Cardinality({j \in Visible(s) : j > i}) < Window}
    IN {i \in shown : \E j \in shown : j <= i /\ messages[j].kind = "inbound"}

\* The history ends on an assistant row: "already covered by a later reply".
Covered(t) ==
    \E i \in History(t.sess) :
        messages[i].kind # "inbound" /\ \A j \in History(t.sess) : j <= i

Skip(t) ==
    /\ t.pc = "marked"
    /\ Covered(t)
    /\ MarkRead(t.msg)
    /\ Moves(t, "done")
    /\ UNCHANGED <<sessions, browser, proc, flock, loops, uncleared, faults>>

\* The history (the message alone, if no row is left) goes to the model.
Load(t) ==
    /\ t.pc = "marked"
    /\ ~Covered(t)
    /\ Moves(t, "thinking")
    /\ UNCHANGED <<messages, sessions, browser, proc, flock, loops, uncleared, faults>>

\* process_inbound raises: the source is marked read without a reply.
TurnRaises(t) ==
    /\ Fault
    /\ t.pc \in {"marked", "thinking"}
    /\ MarkRead(t.msg)
    /\ Moves(t, "done")
    /\ UNCHANGED <<sessions, browser, proc, flock, loops, uncleared>>

\* It raises and the handler's write fails too: the source stays unread.
HandlerFails(t) ==
    /\ Fault
    /\ t.pc \in {"marked", "thinking"}
    /\ Moves(t, "done")
    /\ UNCHANGED <<messages, sessions, browser, proc, flock, loops, uncleared>>

\* A call of the reply route that commits and whose answer arrives.
PostReply(t, level, n) ==
    /\ t.pc = "thinking"
    /\ Reply(t.msg, t.sess, level, n)
    /\ Moves(t, "done")
    /\ UNCHANGED <<proc, flock, loops, uncleared, faults>>

\* A failed call is tried again, if tries are left and it failed on the
\* connection or with 429 or 503; on any other error _request gives up at once.
\* post_reply then returns status 0, no failure to process_inbound.
AfterFailedCall(t) ==
    \/ t.tries + 1 < Attempts /\ Becomes(t, "thinking", t.tries + 1)
    \/ Moves(t, "done")

\* The route commits and its answer is lost.
PostReplyLost(t, level, n) ==
    /\ Fault
    /\ t.pc = "thinking"
    /\ Reply(t.msg, t.sess, level, n)
    /\ AfterFailedCall(t)
    /\ UNCHANGED <<proc, flock, loops, uncleared>>

\* The call fails and the route has written nothing.
PostFails(t) ==
    /\ Fault
    /\ t.pc = "thinking"
    /\ AfterFailedCall(t)
    /\ UNCHANGED <<messages, sessions, browser, proc, flock, loops, uncleared>>

\* A mutant: the marker is left on.
ClearMarkerNot(t) ==
    /\ t.pc = "done"
    /\ Moves(t, "unmarked")
    /\ UNCHANGED <<messages, sessions, browser, proc, flock, loops, uncleared, faults>>

\* finally: the session's marker is cleared.
ClearMarker(t) ==
    /\ t.pc = "done"
    /\ sessions' = [sessions EXCEPT ![t.sess].marker = 0]
    /\ Moves(t, "unmarked")
    /\ UNCHANGED <<messages, browser, proc, flock, loops, uncleared, faults>>

\* That write fails: the turn is over and the marker stays, till the next turn
\* of the session or the next joining of its shell.
ClearMarkerFails(t) ==
    /\ Fault
    /\ t.pc = "done"
    /\ Moves(t, "unmarked")
    /\ uncleared' = uncleared \cup {t.sess}
    /\ UNCHANGED <<messages, sessions, browser, proc, flock, loops>>

\* A mutant: the session stays in in_flight.
ReleaseKeepsSession(t) ==
    /\ t.pc = "unmarked"
    /\ turns' = turns \ {t}
    /\ UNCHANGED <<messages, sessions, browser, proc, flock, loops, uncleared, faults>>

\* finally: the session leaves in_flight and the worker is free.
Release(t) ==
    /\ t.pc = "unmarked"
    /\ turns' = turns \ {t}
    /\ loops' = [loops EXCEPT ![t.loop].inflight = @ \ {t.sess}]
    /\ UNCHANGED <<messages, sessions, browser, proc, flock, uncleared, faults>>

(***************************************************************************)
(* Specification                                                           *)
(***************************************************************************)

Init ==
    /\ ChatInit
    /\ proc = [p \in Procs |-> "off"]
    /\ flock = NoProc
    /\ loops = [l \in Loops |-> Absent]
    /\ turns = {}
    /\ uncleared = {}
    /\ faults = 0

User == UserAction /\ UNCHANGED <<proc, flock, loops, turns, uncleared, faults>>

Supervise == \/ \E p \in Procs : Start(p)
             \/ \E l \in Loops : Leave(l)
             \/ \E l \in Loops : Join(l)
             \/ \E p \in Procs : Exit(p)

Poll(l) == Fetch(l) \/ Submit(l) \/ Halt(l) \/ LoopEnds(l)

Work(t) == \/ TurnStart(t)
           \/ Skip(t)
           \/ Load(t)
           \/ \E level \in Levels, n \in Sessions : PostReply(t, level, n)
           \/ ClearMarker(t)
           \/ Release(t)

Failure == \/ \E p \in Procs : Sigterm(p)
           \/ \E p \in Procs : Kill(p)
           \/ \E t \in turns : TurnStartFails(t)
           \/ \E t \in turns : TurnRaises(t)
           \/ \E t \in turns : HandlerFails(t)
           \/ \E t \in turns : ClearMarkerFails(t)
           \/ \E t \in turns : PostFails(t)
           \/ \E t \in turns, level \in Levels, n \in Sessions : PostReplyLost(t, level, n)

Next == \/ User
        \/ Supervise
        \/ \E l \in Loops : Poll(l)
        \/ \E t \in turns : Work(t)
        \/ Failure

Spec == Init /\ [][Next]_vars

\* The threads are scheduled, a model call returns, and pm2 restarts a
\* dispatcher that is down; users and failures are under no obligation.
Fairness ==
    /\ \A p \in Procs : /\ WF_vars(Start(p))
                        /\ WF_vars(Exit(p))
                        /\ WF_vars(\E l \in LoopsOf(p) : Leave(l) \/ Join(l))
    /\ \A l \in Loops :
          /\ WF_vars(Poll(l))
          /\ \A s \in Sessions : WF_vars(\E t \in TurnsOf(l) : t.sess = s /\ Work(t))

FairSpec == Spec /\ Fairness

(***************************************************************************)
(* Properties                                                              *)
(***************************************************************************)

\* Every variable has its type.
TypeOK ==
    /\ ChatTypeOK
    /\ proc \in [Procs -> Proc]
    /\ flock \in Procs \cup {NoProc}
    /\ loops \in [Loops -> Loop]
    /\ turns \subseteq Turn
    /\ uncleared \subseteq Sessions
    /\ faults \in Nat

\* Two messages of one session never have turns at the same time in one
\* process ("two messages in the same session serialize"), whatever shells
\* leave and join meanwhile.
OneTurnPerSession ==
    \A t, u \in turns : t.loop[1] = u.loop[1] /\ t.sess = u.sess => t = u

\* A session is in a loop's in_flight set exactly while it has a turn: none
\* is picked twice, and none is passed over for ever.
InFlightExact ==
    \A l \in Loops : loops[l].inflight = {t.sess : t \in TurnsOf(l)}

\* A process that serves a shell shows, as a session's turn in flight, the
\* message whose turn runs, and nothing while none runs: what kills, SIGTERMs and
\* earlier threads left behind does not survive the shell's joining.  One marker
\* may be false: that of a session whose last turn could not clear it, until the
\* session has a turn again.
MarkerTruthful ==
    \A l \in Loops, s \in Sessions :
        Alive(l) /\ proc[l[1]] = "up" /\ ShellOf[s] = l[2] =>
            /\ sessions[s].marker # 0 /\ s \notin uncleared =>
                  \E t \in turns : /\ t.loop[1] = l[1]
                                   /\ t.sess = s
                                   /\ t.msg = sessions[s].marker
                                   /\ t.pc \in Marking
            /\ \A t \in TurnsOf(l) : t.sess = s /\ t.pc \in Marking =>
                  sessions[s].marker = t.msg /\ s \notin uncleared

\* When a message has a turn, the older ones of its session have been read or
\* deleted: history is built in the order the user wrote it.
ServedInOrder ==
    \A t \in turns : \A i \in MessageIds :
        i < t.msg /\ messages[i].sess = t.sess => i \notin Pending

\* The mailbox the tables stand for.
BoxOf == [i \in InboundIds |->
            [sess |-> messages[i].sess,
             status |-> IF messages[i].read THEN "settled"
                        ELSE IF messages[i].deleted THEN "withdrawn" ELSE "waiting"]]

LastOf == IF InboundIds = {} THEN 0 ELSE CHOOSE i \in InboundIds : \A j \in InboundIds : j <= i

Box == INSTANCE Mailbox WITH box <- BoxOf, last <- LastOf

\* The dispatcher implements Mailbox: in-order settling, and no message that
\* was settled or withdrawn waits again, through crashes and retries.
ImplementsMailbox == Box!MailboxSpec

\* The k-th message users wrote waits to be served.
Waits(k, sh) == \E i \in Pending : /\ ShellOf[messages[i].sess] = sh
                                   /\ Cardinality({j \in InboundIds : j <= i}) = k

\* A message waits for ever only if its shell is not served for ever.
EveryMessageSettled ==
    \A k \in 1..MaxMessages, sh \in Shells :
        <>[](browser[sh]) => (Waits(k, sh) ~> ~Waits(k, sh))

\* While a shell stays served, a session's marker goes out, if by nothing else
\* than the end of its turn, unless that write of the turn fails.
MarkerGoesOut ==
    \A s \in Sessions :
        <>[](browser[ShellOf[s]]) =>
            (sessions[s].marker # 0 ~> sessions[s].marker = 0 \/ s \in uncleared)

\* A thread told to stop ends: its turns drain, so its shell can join again.
StoppedLoopEnds == \A l \in Loops : loops[l].stop ~> ~Alive(l)
=============================================================================

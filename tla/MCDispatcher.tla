--------------------------- MODULE MCDispatcher ---------------------------
(* A small instance of Dispatcher: one shell, two session ids. *)
EXTENDS Dispatcher, TLC

CONSTANTS sh, s1, s2

MCShellOf == [s \in Sessions |-> sh]
MCFirstOf == {s1}

\* A bound of the liveness run: the second session opens only where no more
\* failure can come and no user has switched the model of the first.
SecondSessionLate ==
    sessions'[s2].exists =>
        /\ faults' = MaxFaults
        /\ \A i \in DOMAIN messages' : messages'[i].kind # "notice"
=============================================================================

-------------------------- MODULE MCServerThreads --------------------------
(*****************************************************************************)
(* Components that have threads of their own, one of which moves in a        *)
(* behaviour: the web sessions, the start and the end of the program, the    *)
(* timer, and the inotify thread.                                            *)
(*****************************************************************************)
EXTENDS ServerThreads

VARIABLE part   \* the component that moves

\* Two periodic subscriptions and a one-shot: "p" is due every second tick.
Intervals == [s \in {"p", "q", "o"} |-> IF s = "p" THEN 2 ELSE 1]

\* m and o stay, p is not there at the beginning, d with a file f is outside.
Beside == [x \in {"m", "o", "p", "d", "f"} |->
             CASE x \in {"m", "o"} -> "/" [] x = "p" -> "gone"
               [] x = "d" -> "o" [] x = "f" -> "d"]
Both == { [at |-> <<"m">>, recursive |-> TRUE, persistent |-> FALSE],
          [at |-> <<"p">>, recursive |-> TRUE, persistent |-> TRUE] }

(* The inotify thread: m stays and is scanned, p comes and goes, d is outside. *)
VARIABLES in_up, in_k, in_next, in_events, in_watches, in_db, in_monitorQueue,
    in_unmonitorQueue, in_registered, in_phase, in_died, in_changes, in_requests
in_vars == << in_up, in_k, in_next, in_events, in_watches, in_db, in_monitorQueue,
    in_unmonitorQueue, in_registered, in_phase, in_died, in_changes, in_requests >>
Inotify == INSTANCE AutoscanInotify WITH
    Dirs <- {"m", "o", "p", "d"}, Files <- {"f"}, Root <- "/", Fixed <- {"m", "o"},
    Tree <- Beside, Autoscans <- Both, Calm <- TRUE,
    Changes <- {"mkdir", "rmdir", "create", "delete", "movein"}, MaxChanges <- 3,
    MaxRequests <- 2, up <- in_up, k <- in_k, next <- in_next, events <- in_events,
    watches <- in_watches, db <- in_db, monitorQueue <- in_monitorQueue,
    unmonitorQueue <- in_unmonitorQueue, registered <- in_registered,
    phase <- in_phase, died <- in_died, changes <- in_changes,
    requests <- in_requests
ASSUME Inotify!InotifyAssumption

allVars == <<part, vars, lc_vars, tm_vars, in_vars>>

Others(p) ==
    /\ UNCHANGED part
    /\ p # "sessions" => UNCHANGED vars
    /\ p # "lifecycle" => UNCHANGED lc_vars
    /\ p # "timer" => UNCHANGED tm_vars
    /\ p # "inotify" => UNCHANGED in_vars

\* The components that do not move stay in an initial state.
ThreadsInit ==
    /\ part \in {"sessions", "lifecycle", "timer", "inotify"}
    /\ Init
    /\ Lifecycle!Init
    /\ Timer!Init /\ (part # "timer" => tm_kept = {})
    /\ Inotify!Init

ThreadsNext ==
    \/ part = "sessions" /\ Next /\ Others("sessions")
    \/ part = "lifecycle" /\ Lifecycle!Next /\ Others("lifecycle")
    \/ part = "timer" /\ Timer!Next /\ Others("timer")
    \/ part = "inotify" /\ Inotify!Next /\ Others("inotify")

ThreadsSpec ==
    /\ ThreadsInit /\ [][ThreadsNext]_allVars
    /\ SF_vars(part = "sessions" /\ timerNotify)
    /\ WF_vars(part = "sessions" /\ Tick)
    /\ WF_vars(part = "sessions" /\ Reporting)
    /\ WF_lc_vars(part = "lifecycle" /\ Lifecycle!MainStep)
    /\ \A w \in Workers : WF_lc_vars(part = "lifecycle" /\ Lifecycle!Step(w))

\* A shutdown of the program that has begun ends.
MainShutdownEnds == Lifecycle!ShutdownEnds
\* An idle inotify thread has imported what is there.
InSync == Inotify!InSync
=============================================================================

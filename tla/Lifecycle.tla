---------------------------- MODULE Lifecycle ----------------------------
(***************************************************************************)
(* Start-up, singletons and shutdown: singleton.h, singleton.cc, main.cc   *)
(* and Server::init/upnp_init/shutdown of server.cc.                       *)
(*                                                                         *)
(* Every class with one instance creates it at the first getInstance(),    *)
(* whichever thread calls it, under the mutex of the class; the new object *)
(* registers itself with the SingletonManager, whose shutdown() pops the   *)
(* objects in the reverse order, closes each of them (which joins its      *)
(* threads) and makes its class inactive, all under the manager's mutex.   *)
(*                                                                         *)
(* A thread is a stack of the getInstance() calls it is in, since creating *)
(* an object asks for others.  Main starts the server, waits for signals   *)
(* and shuts down; a worker thread, from the start of its owner to the end *)
(* of the owner's shutdown(), asks for one instance after the other.       *)
(***************************************************************************)
EXTENDS Naturals, Sequences, FiniteSets, SequencesExt

CONSTANTS
    Backup,      \* the storage backs its database up: it subscribes to the Timer
    Autoscans,   \* the database lists timed autoscan directories
    Warm,        \* signals arrive only once every class has its instance
    Failures,    \* the steps of the start-up that may fail
    Workers,     \* the worker threads that are followed
    MaxSignals   \* bound on the signals sent to the process

\* What the constants are, ASSUMEd where they have values.
LifecycleAssumption ==
    /\ Backup \in BOOLEAN /\ Autoscans \in BOOLEAN /\ Warm \in BOOLEAN
    /\ Failures \subseteq {"upnp_init", "register", "content"}
    /\ Workers \subseteq {"http", "task", "timer", "proc"}

Classes == {"config", "server", "storage", "timer", "update", "content",
            "session", "task"}
Threads == Workers \cup {"main"}
None == "none"

\* The instances the constructor of a class asks for, before it registers.
ConstructorUses(c) ==
    CASE c = "storage" -> <<"config">>
      [] c = "content" -> <<"config", "storage">>
      [] c = "session" -> <<"config">>
      [] OTHER -> << >>

\* The instances its init() asks for.
InitUses(c) ==
    CASE c = "server" -> <<"config">>
      [] c = "storage" -> IF Backup THEN <<"config", "timer">> ELSE <<"config">>
      [] c = "content" -> IF Autoscans THEN <<"config", "timer">> ELSE <<"config">>
      [] OTHER -> << >>

\* The instances its shutdown() asks for.
ShutdownUses(c) ==
    IF c = "storage" THEN (IF Backup THEN <<"config", "timer">> ELSE <<"config">>)
    ELSE << >>

\* Mutant of RegistersFirst: Storage registers like the other classes.
AlwaysRegistersFirst(c) == TRUE
\* Storage has a getInstance() of its own, which registers after init().
RegistersFirst(c) == c # "storage"

\* The threads that the init() of a class starts and its shutdown() joins.
\* Those of the web server start with the UPnP library, not with the object.
WorkersOf(c) == Workers \cap
    CASE c = "server" -> {"http"}
      [] c = "timer" -> {"timer"}
      [] c = "content" -> {"task"}
      [] c = "task" -> {"proc"}
      [] OTHER -> {}
StartedBy(c) == IF c = "server" THEN {} ELSE WorkersOf(c)

\* What a worker thread asks for in the course of its work.
Targets(w) ==
    CASE w = "http" -> {"storage", "content", "session", "task"}
      [] w = "task" -> {"storage", "update", "session", "timer", "task"}
      [] w = "timer" -> {"timer"}
      [] w = "proc" -> {"content", "timer"}

VARIABLES
    instance,   \* the classes whose `instance` is set
    active,     \* the classes whose singletonActive is true
    holder,     \* the thread that holds the mutex of each class
    manager,    \* the thread that holds the mutex of the SingletonManager
    stack,      \* singletonStack
    frames,     \* the getInstance() calls each thread is in, innermost last
    alive,      \* the worker threads that run
    stopping,   \* the worker threads that were told to end
    pc,         \* where main() is
    closing,    \* the object whose shutdown() the manager is in
    ready,      \* the objects whose init() ended
    closed,     \* the objects whose shutdown() returned
    refused,    \* main met an inactive class while it was closing an object
    registered, \* the root device is registered with the UPnP library
    shutdown_flag, restart_flag, pending, signals, exit

vars == <<instance, active, holder, manager, stack, frames, alive, stopping,
          pc, closing, ready, closed, refused, registered, shutdown_flag,
          restart_flag, pending, signals, exit>>
locks == <<holder, manager>>
sigs == <<shutdown_flag, restart_flag, pending, signals>>
mains == <<pc, closing, closed, registered, exit>>

\* A call of getInstance() for c: its step, and the next instance it asks for.
Frame(c) == [c |-> c, at |-> "check", i |-> 1]

Init ==
    /\ instance = {} /\ active = Classes
    /\ holder = [c \in Classes |-> None] /\ manager = None
    /\ stack = << >> /\ frames = [t \in Threads |-> << >>]
    /\ alive = {} /\ stopping = {}
    /\ pc = "config" /\ closing = None /\ ready = {} /\ closed = {}
    /\ refused = FALSE /\ registered = FALSE
    /\ shutdown_flag = 0 /\ restart_flag = 0 /\ pending = {} /\ signals = 0
    /\ exit = None

Running == exit = None
Idle(t) == frames[t] = << >>
Top(t) == Last(frames[t])
At(t, where) == ~Idle(t) /\ Top(t).at = where
Move(t, where) ==
    [frames EXCEPT ![t] = Append(Front(@), [Top(t) EXCEPT !.at = where, !.i = 1])]
Return(t) == [frames EXCEPT ![t] = Front(@)]

(***************************************************************************)
(* getInstance().                                                          *)
(***************************************************************************)
\* The exception for an inactive class unwinds every call the thread is in and
\* releases the mutexes they hold.
Unwind(t) ==
    /\ frames' = [frames EXCEPT ![t] = << >>]
    /\ holder' = [c \in Classes |-> IF holder[c] = t THEN None ELSE holder[c]]
    /\ refused' = (refused \/ (t = "main" /\ closing # None))
    /\ UNCHANGED <<instance, active, manager, stack, alive, stopping, ready>>

\* The two tests before the mutex.
Check(t) ==
    /\ At(t, "check")
    /\ LET c == Top(t).c IN
         IF c \notin active THEN Unwind(t)
         ELSE /\ frames' = IF c \in instance THEN Return(t) ELSE Move(t, "lock")
              /\ UNCHANGED <<instance, active, locks, stack, alive, stopping,
                             ready, refused>>
    /\ UNCHANGED <<mains, sigs>>

\* The same two tests under the mutex of the class.
NeedsNew(c) == c \notin instance

Lock(t) ==
    /\ At(t, "lock")
    /\ LET c == Top(t).c IN
         /\ holder[c] = None
         /\ IF c \notin active THEN Unwind(t)
            ELSE /\ IF NeedsNew(c)
                    THEN /\ holder' = [holder EXCEPT ![c] = t]
                         /\ frames' = Move(t, "constructor")
                    ELSE /\ frames' = Return(t)
                         /\ UNCHANGED holder
                 /\ UNCHANGED <<instance, active, manager, stack, alive,
                                stopping, ready, refused>>
    /\ UNCHANGED <<mains, sigs>>

\* The constructor or init() asks for its next instance, or ends.
Nested(t, where, uses, next) ==
    /\ At(t, where)
    /\ LET f == Top(t) IN
         frames' = IF f.i <= Len(uses)
                   THEN [frames EXCEPT ![t] = Front(@) \o <<[f EXCEPT !.i = f.i + 1],
                                                             Frame(uses[f.i])>>]
                   ELSE Move(t, next)
    /\ UNCHANGED <<instance, active, locks, stack, alive, stopping, ready,
                   refused, mains, sigs>>

Constructor(t) ==
    Nested(t, "constructor", ConstructorUses(Top(t).c),
           IF RegistersFirst(Top(t).c) THEN "register" ELSE "init")

\* registerSingleton() takes the mutex that shutdown() holds.
Register(t) ==
    /\ At(t, "register")
    /\ manager = None
    /\ stack' = Append(stack, Top(t).c)
    /\ frames' = Move(t, IF RegistersFirst(Top(t).c) THEN "init" ELSE "set")
    /\ UNCHANGED <<instance, active, locks, alive, stopping, ready, refused,
                   mains, sigs>>

InitObject(t) == Nested(t, "init", InitUses(Top(t).c), "start")

\* The end of init(): the object's threads run, or it throws.
EndInit(t) ==
    /\ At(t, "start")
    /\ LET c == Top(t).c IN
         \/ /\ ready' = ready \cup {c}
            /\ alive' = alive \cup StartedBy(c)
            /\ frames' = Move(t, IF RegistersFirst(c) THEN "set" ELSE "register")
            /\ UNCHANGED <<instance, active, locks, stack, stopping, refused>>
         \/ c \in Failures /\ Unwind(t)
    /\ UNCHANGED <<mains, sigs>>

SetInstance(t) ==
    /\ At(t, "set")
    /\ instance' = instance \cup {Top(t).c}
    /\ holder' = [holder EXCEPT ![Top(t).c] = None]
    /\ frames' = Return(t)
    /\ UNCHANGED <<active, manager, stack, alive, stopping, ready, refused,
                   mains, sigs>>

GetInstance(t) ==
    Running /\ (Check(t) \/ Lock(t) \/ Constructor(t) \/ Register(t)
                \/ InitObject(t) \/ EndInit(t) \/ SetInstance(t))

(***************************************************************************)
(* The worker threads.                                                     *)
(***************************************************************************)
\* A worker asks for an instance: it handles a request or runs a task.
Work(w) ==
    /\ Running /\ w \in alive \ stopping /\ Idle(w)
    /\ \E c \in Targets(w) : frames' = [frames EXCEPT ![w] = <<Frame(c)>>]
    /\ UNCHANGED <<instance, active, locks, stack, alive, stopping, ready,
                   refused, mains, sigs>>

Leave(w) ==
    /\ Running /\ w \in alive \cap stopping /\ Idle(w)
    /\ alive' = alive \ {w}
    /\ UNCHANGED <<instance, active, locks, stack, frames, stopping, ready,
                   refused, mains, sigs>>

(***************************************************************************)
(* main(): start-up.                                                       *)
(***************************************************************************)
Same == UNCHANGED <<instance, active, locks, stack, stopping, ready, refused>>
End(how) == /\ pc' = "exit" /\ exit' = how

\* main() asks for the instance of c and goes on to `next` when it has it; when
\* an exception came instead, the program ends without a shutdown.
Ask(c, next) ==
    /\ Running /\ pc = c /\ Idle("main")
    /\ pc' = next
    /\ frames' = [frames EXCEPT !["main"] = <<Frame(c)>>]
    /\ UNCHANGED <<alive, closing, closed, registered, exit, sigs>> /\ Same
Have(c, where, next) ==
    /\ Running /\ pc = where /\ Idle("main")
    /\ IF c \in instance THEN pc' = next /\ UNCHANGED exit ELSE End("failed")
    /\ UNCHANGED <<frames, alive, closing, closed, registered, sigs>> /\ Same

\* The UPnP library starts; its threads may serve requests from here on.
UpnpInit ==
    /\ Running /\ pc = "upnp_init"
    /\ \/ pc' = "register" /\ alive' = alive \cup WorkersOf("server")
       \/ "upnp_init" \in Failures /\ pc' = "shutdown" /\ UNCHANGED alive
    /\ UNCHANGED <<frames, closing, closed, registered, exit, sigs>> /\ Same

\* UpnpRegisterRootDevice2 and the first advertisement.
RegisterDevice ==
    /\ Running /\ pc = "register"
    /\ \/ pc' = "update" /\ registered' = TRUE
       \/ "register" \in Failures /\ pc' = "shutdown" /\ UNCHANGED registered
    /\ UNCHANGED <<frames, alive, closing, closed, exit, sigs>> /\ Same

StartUp ==
    \/ Ask("config", "config?") \/ Have("config", "config?", "server")
    \/ Ask("server", "server?") \/ Have("server", "server?", "storage")
    \/ Ask("storage", "storage?") \/ Have("storage", "storage?", "upnp_init")
    \/ UpnpInit \/ RegisterDevice
    \/ Ask("update", "update?") \/ Have("update", "update?", "content")
    \/ Ask("content", "content?") \/ Have("content", "content?", "unmask")

(***************************************************************************)
(* main(): signals.                                                        *)
(***************************************************************************)
\* The flags after the handler ran for the signals of a set.
Flags(s) ==
    /\ shutdown_flag' = shutdown_flag + IF "TERM" \in s THEN 1 ELSE 0
    /\ restart_flag' = IF "HUP" \in s THEN 1 ELSE restart_flag

\* The signals that were held back since before the start-up.
Unmask ==
    /\ Running /\ pc = "unmask"
    /\ Flags(pending) /\ pending' = {} /\ pc' = "test"
    /\ UNCHANGED <<frames, alive, closing, closed, registered, exit, signals>>
    /\ Same

Test ==
    /\ Running /\ pc = "test"
    /\ pc' = IF shutdown_flag > 0 THEN "shutdown" ELSE "wait"
    /\ UNCHANGED <<frames, alive, closing, closed, registered, exit, sigs>>
    /\ Same

\* cond.wait(): a signal before this step finds nobody to wake.
Sleep ==
    /\ Running /\ pc = "wait" /\ pc' = "asleep"
    /\ UNCHANGED <<frames, alive, closing, closed, registered, exit, sigs>>
    /\ Same

Woken ==
    /\ Running /\ pc = "woken"
    /\ pc' = IF restart_flag # 0 THEN "shutdown" ELSE "test"
    /\ UNCHANGED <<frames, alive, closing, closed, registered, exit, sigs>>
    /\ Same

Unmasked == {"test", "wait", "asleep", "woken", "shutdown", "pop", "close",
             "join", "restart", "restart?"}

\* A signal reaches the process.  The third request to end kills it.
SendSignal(s) ==
    /\ Running /\ signals < MaxSignals
    /\ Warm => instance = Classes
    /\ signals' = signals + 1
    /\ IF pc \notin Unmasked
       THEN /\ pending' = pending \cup {s}
            /\ UNCHANGED <<shutdown_flag, restart_flag, pc, exit>>
       ELSE /\ Flags({s})
            /\ UNCHANGED pending
            /\ IF shutdown_flag' > 2 THEN End("killed")
               ELSE /\ pc' = IF pc = "asleep" THEN "woken" ELSE pc
                    /\ UNCHANGED exit
    /\ UNCHANGED <<frames, alive, closing, closed, registered>> /\ Same

(***************************************************************************)
(* SingletonManager::shutdown().                                           *)
(***************************************************************************)
Shutdown ==
    /\ Running /\ pc = "shutdown" /\ manager = None
    /\ manager' = "main" /\ pc' = "pop"
    /\ UNCHANGED <<instance, active, holder, stack, frames, alive, stopping,
                   ready, refused, closing, closed, registered, exit, sigs>>

Pop ==
    /\ Running /\ pc = "pop"
    /\ IF stack # << >>
       THEN /\ closing' = Last(stack) /\ stack' = Front(stack)
            /\ frames' = LET uses == ShutdownUses(Last(stack)) IN
                         [frames EXCEPT !["main"] =
                            [i \in DOMAIN uses |-> Frame(uses[i])]]
            /\ pc' = "close"
            /\ UNCHANGED <<manager, exit>>
       ELSE /\ manager' = None
            /\ IF restart_flag # 0 THEN pc' = "restart" /\ UNCHANGED exit
               ELSE End("ended")
            /\ UNCHANGED <<closing, stack, frames>>
    /\ UNCHANGED <<instance, active, holder, alive, stopping, ready, refused,
                   closed, registered, sigs>>

\* Mutant of Told: the task thread is forgotten.
ToldButTask(c) == WorkersOf(c) \ {"task"}
\* The threads that the shutdown() of an object tells to end.
Told(c) == WorkersOf(c)

\* The object's shutdown() tells its threads to end.  ContentManager's takes the
\* mutex of its class; Server's throws when the device is not registered, which
\* ends the shutdown with the other objects still open.
Close ==
    /\ Running /\ pc = "close" /\ Idle("main")
    /\ closing = "content" => holder["content"] = None
    /\ IF closing = "server" /\ ~registered
       THEN /\ End("failed") /\ manager' = None /\ closing' = None
            /\ UNCHANGED stopping
       ELSE /\ stopping' = stopping \cup Told(closing)
            /\ pc' = "join"
            /\ UNCHANGED <<manager, closing, exit>>
    /\ UNCHANGED <<instance, active, holder, stack, frames, alive, ready,
                   refused, closed, registered, sigs>>

\* pthread_join() and UpnpFinish() return when the threads have ended.
Gone(c) == WorkersOf(c) \cap alive = {}

\* The threads are joined; the class becomes inactive.
Join ==
    /\ Running /\ pc = "join"
    /\ Gone(closing)
    /\ closed' = closed \cup {closing}
    /\ active' = active \ {closing}
    /\ instance' = instance \ {closing}
    /\ closing' = None /\ pc' = "pop"
    /\ UNCHANGED <<locks, stack, frames, alive, stopping, ready, refused,
                   registered, exit, sigs>>

\* After a SIGHUP main() starts again, with the configuration.
Restart ==
    /\ Running /\ pc = "restart" /\ pc' = "config?"
    /\ frames' = [frames EXCEPT !["main"] = <<Frame("config")>>]
    /\ UNCHANGED <<alive, closing, closed, registered, exit, sigs>> /\ Same

Main == StartUp \/ Unmask \/ Test \/ Sleep \/ Woken \/ Shutdown \/ Pop
        \/ Close \/ Join \/ Restart
MainStep == Main \/ GetInstance("main")
Step(w) == GetInstance(w) \/ Leave(w)
Next ==
    \/ MainStep
    \/ \E w \in Workers : Step(w) \/ Work(w)
    \/ \E s \in {"TERM", "HUP"} : SendSignal(s)

\* main() is scheduled, and so is a worker that has something left to do.
Spec ==
    /\ Init /\ [][Next]_vars
    /\ WF_vars(MainStep)
    /\ \A w \in Workers : WF_vars(Step(w))

(***************************************************************************)
(* Properties.                                                             *)
(***************************************************************************)
Frames == [c : Classes, i : 1..3,
           at : {"check", "lock", "constructor", "register", "init", "start",
                 "set"}]

\* Every variable has a value of its kind.
TypeOK ==
    /\ instance \subseteq Classes /\ active \subseteq Classes
    /\ ready \subseteq Classes /\ closed \subseteq Classes
    /\ holder \in [Classes -> Threads \cup {None}]
    /\ manager \in {"main", None}
    /\ stack \in Seq(Classes) /\ closing \in Classes \cup {None}
    /\ \A t \in Threads : frames[t] \in Seq(Frames)
    /\ alive \subseteq Workers /\ stopping \subseteq Workers
    /\ refused \in BOOLEAN /\ registered \in BOOLEAN
    /\ shutdown_flag \in 0..3 /\ restart_flag \in 0..1
    /\ pending \subseteq {"TERM", "HUP"} /\ signals \in 0..MaxSignals
    /\ exit \in {None, "failed", "killed", "ended"}

\* No class has two objects: the manager's stack, on which every object lands
\* that is ever created, holds each class at most once, whichever threads asked
\* for the first instance together.
OneObject == \A i, j \in DOMAIN stack : i # j => stack[i] # stack[j]

\* An object outlives those whose shutdown() needs it: no shutdown() meets an
\* inactive class, though the order of the stack follows from who asked first.
ShutdownFindsItsNeeds == ~refused

\* A program that ends by its shutdown has closed every object whose init()
\* ended and left no thread behind; and when the UPnP library did not start, the
\* storage, whose rows may be buffered, is closed although the shutdown fails.
ClosedAtEnd ==
    /\ exit = "ended" => ready \subseteq closed /\ alive = {}
    /\ exit = "failed" /\ ~registered => ready \cap {"storage", "timer"} \subseteq closed

\* A shutdown that has begun ends, though it joins threads that ask for
\* instances while the mutex of the manager is held.
ShutdownEnds == (pc = "shutdown") ~> (exit # None)

\* A class that was made inactive gets no instance again.
InactiveForGood == instance \subseteq active

\* What README.old says of SIGTERM and SIGINT: the program ends.
TermEnds == (shutdown_flag > 0) ~> (exit # None)

\* And of SIGHUP: the program restarts, and does not end with a failure.
HupRestarts == ~(exit = "failed" /\ restart_flag = 1)
==========================================================================

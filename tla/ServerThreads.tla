--------------------------- MODULE ServerThreads ---------------------------
(***************************************************************************)
(* Components of the server that have threads of their own: the web        *)
(* sessions, which are the module this one extends, the start and the end  *)
(* of the program, and the timer.  They share no state.                    *)
(***************************************************************************)
EXTENDS WebSessions, Sequences

CONSTANTS Backup, Autoscans, Warm, Failures, Workers, MaxSignals   \* of Lifecycle

(* The start and the end of the program.                                   *)
VARIABLES lc_instance, lc_active, lc_holder, lc_manager, lc_stack, lc_frames,
    lc_alive, lc_stopping, lc_pc, lc_closing, lc_ready, lc_closed, lc_refused,
    lc_registered, lc_shutdown_flag, lc_restart_flag, lc_pending, lc_signals,
    lc_exit
lc_vars == << lc_instance, lc_active, lc_holder, lc_manager, lc_stack, lc_frames,
    lc_alive, lc_stopping, lc_pc, lc_closing, lc_ready, lc_closed, lc_refused,
    lc_registered, lc_shutdown_flag, lc_restart_flag, lc_pending, lc_signals,
    lc_exit >>
Lifecycle == INSTANCE Lifecycle WITH
    instance <- lc_instance,
    active <- lc_active, holder <- lc_holder, manager <- lc_manager,
    stack <- lc_stack, frames <- lc_frames, alive <- lc_alive,
    stopping <- lc_stopping, pc <- lc_pc, closing <- lc_closing, ready <- lc_ready,
    closed <- lc_closed, refused <- lc_refused, registered <- lc_registered,
    shutdown_flag <- lc_shutdown_flag, restart_flag <- lc_restart_flag,
    pending <- lc_pending, signals <- lc_signals, exit <- lc_exit

(* The timer.                                                              *)
CONSTANTS Subs, Once, Permanent, Interval, MaxRemovals             \* of Timer

VARIABLES tm_subscribers, tm_left, tm_kept, tm_next, tm_toNotify, tm_sleep, tm_tpc,
    tm_shutdownFlag, tm_removals, tm_fresh, tm_late
tm_vars == << tm_subscribers, tm_left, tm_kept, tm_next, tm_toNotify, tm_sleep,
    tm_tpc, tm_shutdownFlag, tm_removals, tm_fresh, tm_late >>
Timer == INSTANCE Timer WITH
    subscribers <- tm_subscribers, left <- tm_left, kept <- tm_kept,
    next <- tm_next, toNotify <- tm_toNotify, sleep <- tm_sleep, tpc <- tm_tpc,
    shutdownFlag <- tm_shutdownFlag, removals <- tm_removals, fresh <- tm_fresh,
    late <- tm_late

ASSUME ServerThreadsAssumption ==
    /\ WebSessionsAssumption
    /\ Lifecycle!LifecycleAssumption
    /\ Timer!TimerAssumption

\* No shutdown() meets an inactive class.
ShutdownFindsItsNeeds == Lifecycle!ShutdownFindsItsNeeds
\* A one-shot subscription in the list has not been due yet.
OneShotOnce == Timer!OneShotOnce
=============================================================================

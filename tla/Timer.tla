-------------------------------- MODULE Timer --------------------------------
(***************************************************************************)
(* timer.cc: components subscribe to be called back once or periodically;  *)
(* one thread sleeps until the next subscription is due and calls back all *)
(* that are.                                                               *)
(*                                                                         *)
(* A subscription is the pair of a subscriber and a parameter that         *)
(* TimerSubscriberElement compares.  The list is guarded by mutex, the     *)
(* thread waits under waitMutex: they are different, so a subscription and *)
(* its signal may fall between any two steps of the thread.  Time is       *)
(* counted in ticks: left[s] until subscription s is due, sleep until      *)
(* wait_for() times out.                                                   *)
(*                                                                         *)
(* Control of the thread: "check" at the head of the loop, "block" and     *)
(* "wait" before and in cond.wait(), "peek" before getNextNotifyTime(),    *)
(* "read" holding the pointer it returned, "doze" and "sleep" before and   *)
(* in wait_for(), "collect" before the locked part of notify(), "call"     *)
(* after it, "crashed", "done".                                            *)
(***************************************************************************)
EXTENDS Integers, FiniteSets

CONSTANTS
  Subs,                 \* subscriptions
  Once,                 \* those that are removed when they are due
  Permanent,            \* those there from the start and never removed
  Interval,             \* their intervals in ticks
  MaxRemovals           \* bound on the calls of removeTimerSubscriber()

TimerAssumption ==
  /\ Once \subseteq Subs
  /\ Permanent \subseteq Subs \ Once
  /\ Interval \in [Subs -> Nat \ {0}]
  /\ MaxRemovals \in Nat

VARIABLES
  subscribers,          \* the list
  left,                 \* ticks until the subscription is due
  kept,                 \* Permanent, or none of them in this behaviour
  next,                 \* what the pointer of getNextNotifyTime() points to
  toNotify,             \* the copies notify() has still to call back
  sleep,                \* ticks until wait_for() times out
  tpc, shutdownFlag,
  removals,             \* calls of removeTimerSubscriber()
  fresh,                \* subscriptions made and not due since
  late                  \* a callback came after the removal had returned

list == <<subscribers, left, kept>>
vars == <<list, next, toNotify, sleep, tpc, shutdownFlag, removals, fresh, late>>

Null   == "null"
Freed  == "freed"
Delays == {0} \union {Interval[s] : s \in Subs}
Due    == {s \in subscribers : left[s] = 0}

(* cond.notify: only the timer thread waits on cond.                       *)
Signalled == IF tpc \in {"wait", "sleep"} THEN "check" ELSE tpc

Init ==
  /\ kept \in {Permanent, {}}
  /\ subscribers = kept
  /\ left = [s \in Subs |-> IF s \in kept THEN Interval[s] ELSE 0]
  /\ next = Null /\ toNotify = {}
  /\ sleep = 0
  /\ tpc = "check"
  /\ shutdownFlag = FALSE
  /\ removals = 0 /\ fresh = {} /\ late = FALSE

(***************************************************************************)
(* The callers.  Adding a subscription twice or removing one that is not   *)
(* there throws or does nothing.                                           *)
(***************************************************************************)
addTimerSubscriber(s) ==
  /\ s \notin subscribers
  /\ subscribers' = subscribers \union {s}
  /\ left' = [left EXCEPT ![s] = Interval[s]]
  /\ fresh' = fresh \union {s}
  /\ tpc' = Signalled
  /\ UNCHANGED <<next, toNotify, sleep, kept, shutdownFlag, removals, late>>

(* The element is freed, also when the thread holds a pointer to it.       *)
removeTimerSubscriber(s) ==
  /\ s \in subscribers \ kept
  /\ removals < MaxRemovals
  /\ removals' = removals + 1
  /\ subscribers' = subscribers \ {s}
  /\ left' = [left EXCEPT ![s] = 0]
  /\ next' = IF next = s THEN Freed ELSE next
  /\ fresh' = fresh \ {s}
  /\ tpc' = Signalled
  /\ UNCHANGED <<toNotify, sleep, kept, shutdownFlag, late>>

(* The flag is set and notified without waitMutex.                         *)
shutdown ==
  /\ ~shutdownFlag
  /\ shutdownFlag' = TRUE
  /\ tpc' = Signalled
  /\ UNCHANGED <<list, next, toNotify, sleep, removals, fresh, late>>

(***************************************************************************)
(* triggerWait()                                                           *)
(***************************************************************************)
Goes(from, to) == tpc = from /\ tpc' = to

Quietly == UNCHANGED <<list, toNotify, shutdownFlag, removals, fresh, late>>

Stop == shutdownFlag /\ Goes("check", "done") /\ Quietly /\ UNCHANGED <<next, sleep>>

(* subscribers.empty() is read without the mutex.                          *)
CheckEmpty ==
  /\ ~shutdownFlag
  /\ IF subscribers = {} THEN Goes("check", "block") ELSE Goes("check", "peek")
  /\ Quietly /\ UNCHANGED <<next, sleep>>

Wait == Goes("block", "wait") /\ Quietly /\ UNCHANGED <<next, sleep>>

Earliest(s) == \A t \in subscribers : left[s] =< left[t]

getNextNotifyTime ==
  /\ Goes("peek", "read")
  /\ next' \in IF subscribers = {} THEN {Null}
               ELSE {s \in subscribers : Earliest(s)}
  /\ Quietly /\ UNCHANGED sleep

(* The time is read through the pointer, the mutex released: a null        *)
(* pointer crashes, freed memory holds any time.                           *)
ReadTime ==
  /\ tpc = "read"
  /\ next' = Null
  /\ sleep' \in CASE next = Null  -> {0}
                  [] next = Freed -> Delays
                  [] OTHER        -> {left[next]}
  /\ tpc' = CASE next = Null -> "crashed"
              [] sleep' > 0  -> "doze"
              [] OTHER       -> "collect"
  /\ Quietly

Doze == Goes("doze", "sleep") /\ Quietly /\ UNCHANGED <<next, sleep>>

TimedOut == sleep = 0 /\ Goes("sleep", "collect") /\ Quietly /\ UNCHANGED <<next, sleep>>

SpuriousWakeup ==
  /\ tpc \in {"wait", "sleep"}
  /\ tpc' = Signalled
  /\ Quietly /\ UNCHANGED <<next, sleep>>

(***************************************************************************)
(* notify(): collects what is due under the mutex and calls it back, one   *)
(* after the other, without.                                               *)
(***************************************************************************)

(* Mutant of Collect: a one-shot subscription is kept.                     *)
CollectKeepsOnce ==
  /\ toNotify' = Due
  /\ subscribers' = subscribers
  /\ left' = [s \in Subs |-> IF s \in Due THEN Interval[s] ELSE left[s]]

(* Mutant of Collect: only the one-shot ones are copied.                   *)
CollectCopiesOnce ==
  /\ toNotify' = Due \intersect Once
  /\ subscribers' = subscribers \ (Due \intersect Once)
  /\ left' = [s \in Subs |-> IF s \in Due \ Once THEN Interval[s] ELSE left[s]]

Collect ==
  /\ toNotify' = Due
  /\ subscribers' = subscribers \ (Due \intersect Once)
  /\ left' = [s \in Subs |-> IF s \in Due \ Once THEN Interval[s] ELSE left[s]]

CollectDue ==
  /\ Goes("collect", "call")
  /\ Collect
  /\ fresh' = fresh \ Due
  /\ UNCHANGED <<next, sleep, kept, shutdownFlag, removals, late>>

(* A subscription that was removed after it was collected is called back.  *)
CallBack(s) ==
  /\ tpc = "call" /\ s \in toNotify
  /\ toNotify' = toNotify \ {s}
  /\ late' = (late \/ (s \notin Once /\ s \notin subscribers))
  /\ UNCHANGED <<list, next, sleep, tpc, shutdownFlag, removals, fresh>>

CallsOver ==
  /\ toNotify = {}
  /\ Goes("call", "check")
  /\ Quietly /\ UNCHANGED <<next, sleep>>

Tick ==
  /\ left' = [s \in Subs |-> IF left[s] > 0 THEN left[s] - 1 ELSE 0]
  /\ sleep' = IF sleep > 0 THEN sleep - 1 ELSE 0
  /\ left' # left \/ sleep' # sleep
  /\ UNCHANGED <<subscribers, kept, next, toNotify, tpc, shutdownFlag, removals,
                 fresh, late>>

(* The thread has ended.                                                   *)
Over == tpc \in {"done", "crashed"} /\ UNCHANGED vars

ThreadStep ==
  \/ Stop \/ CheckEmpty \/ Wait \/ getNextNotifyTime \/ ReadTime \/ Doze
  \/ TimedOut \/ CollectDue \/ (\E s \in Subs : CallBack(s)) \/ CallsOver

Next ==
  \/ \E s \in Subs : addTimerSubscriber(s) \/ removeTimerSubscriber(s)
  \/ shutdown
  \/ ThreadStep \/ SpuriousWakeup
  \/ Tick
  \/ Over

Spec == Init /\ [][Next]_vars

(* The thread is scheduled and time passes.                                *)
Fairness == WF_vars(ThreadStep) /\ WF_vars(Tick)

FairSpec == Spec /\ Fairness

(***************************************************************************)
(* Properties.                                                             *)
(***************************************************************************)
TypeOK ==
  /\ kept \subseteq subscribers /\ subscribers \subseteq Subs
  /\ kept \in {Permanent, {}}
  /\ left \in [Subs -> Nat]
  /\ next \in Subs \union {Null, Freed}
  /\ toNotify \subseteq Subs
  /\ sleep \in Nat
  /\ tpc \in {"check", "block", "wait", "peek", "read", "doze", "sleep",
              "collect", "call", "crashed", "done"}
  /\ shutdownFlag \in BOOLEAN /\ late \in BOOLEAN
  /\ removals \in 0..MaxRemovals
  /\ fresh \subseteq Subs

(* A one-shot subscription in the list has not been due yet: it is called  *)
(* back at most once for every addTimerSubscriber() (lines 142-145).       *)
OneShotOnce == subscribers \intersect Once \subseteq fresh

(* Whoever is subscribed is called back, again and again if not one-shot,  *)
(* until removed or the timer is shut down, while the permanent ones stay. *)
SubscribersAreCalled ==
  \A s \in Subs : (s \in subscribers) ~> \/ s \in toNotify
                                          \/ s \notin subscribers
                                          \/ shutdownFlag
                                          \/ kept # Permanent

(* shutdown() can join the thread (line 179), while the permanent ones     *)
(* stay.                                                                   *)
ThreadStops == (shutdownFlag /\ kept = Permanent) ~> (tpc = "done")

(* The pointer that triggerWait() reads through without the mutex is that  *)
(* of an element of the list, though "other threads can modify the         *)
(* subscribers" (lines 109-113, 155).                                      *)
TimeIsRead == tpc = "read" => next \in subscribers

(* Once removeTimerSubscriber() has returned, the subscriber may be freed  *)
(* (timer.h lines 87-92): it is not called back any more.                  *)
RemovedIsNotCalled == ~late
=============================================================================

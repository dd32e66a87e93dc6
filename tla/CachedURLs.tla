----------------------------- MODULE CachedURLs -----------------------------
(***************************************************************************)
(* The URLs of YouTube videos, which the content manager keeps for a       *)
(* while.  The threads of the HTTP server look a URL up, fetch it from     *)
(* YouTube when it is not there, and cache it; the thread of the timer     *)
(* drops the URLs that nobody asked for in a while.  The cache subscribes  *)
(* to the timer for one call at a time, and only while it holds something. *)
(***************************************************************************)
EXTENDS Integers, Sequences

CONSTANTS
    Threads,       \* of the HTTP server
    Videos,        \* object IDs
    MaxCached,     \* MAX_CACHED_URLS, 20
    CheckInterval, \* URL_CACHE_CHECK_INTERVAL, 300
    Lifetime,      \* URL_CACHE_LIFETIME, 600
    MaxTime,       \* bound: the clock stops here
    None

ASSUME URLCacheAssumption ==
    /\ MaxCached \in Nat \ {0}
    /\ CheckInterval \in Nat \ {0}
    /\ Lifetime \in Nat
    /\ MaxTime \in Nat
    /\ None \notin Nat \cup Videos \cup [i : Nat \ {0}, count : Nat, now : Nat]

VARIABLES
    cached_urls, \* [id, at]: the object and its last access
    request,     \* thread -> the video whose URL it fetches, or None
    fetched,     \* thread -> when the URL was fetched, or None
    due,         \* when the subscription to the timer is due, or None
    calling,     \* the timer has dropped the subscription and calls back
    check,       \* [i, count, now] of the check that holds urlcache_mutex, or None
    clock

vars == << cached_urls, request, fetched, due, calling, check, clock >>

-----------------------------------------------------------------------------
Positions == 1..Len(cached_urls)

\* removeUnordered: the last element fills the gap.
Removed(c, i) == SubSeq([c EXCEPT ![i] = c[Len(c)]], 1, Len(c) - 1)

\* Replaced first: the first of those that were not asked for the longest.
\* One that was asked for in this second is never replaced.
Oldest(c) == { i \in 1..Len(c) : /\ c[i].at < clock
                                 /\ \A j \in 1..Len(c) : c[j].at >= c[i].at
                                 /\ \A j \in 1..(i - 1) : c[j].at > c[i].at }

Expired(u) == u.at + Lifetime < check.now

\* Mutant of Resubscribed: the subscription is taken for a periodic one.
ResubscribedNever(c) == due

\* The subscription at the end of a check.
Resubscribed(c) == IF c # << >> THEN clock + CheckInterval ELSE due

-----------------------------------------------------------------------------
Init ==
    /\ cached_urls = << >>
    /\ request = [t \in Threads |-> None]
    /\ fetched = [t \in Threads |-> None]
    /\ due = None
    /\ calling = FALSE
    /\ check = None
    /\ clock = 0

\* resolveURL(), with a URL that is cached.
GetCachedURL(t, v) ==
    /\ check = None
    /\ request[t] = None
    /\ \E i \in Positions :
        /\ cached_urls[i].id = v
        /\ cached_urls' = [cached_urls EXCEPT ![i].at = clock]
    /\ UNCHANGED << request, fetched, due, calling, check, clock >>

\* resolveURL(), with one that is not.
Misses(t, v) ==
    /\ check = None
    /\ request[t] = None
    /\ \A i \in Positions : cached_urls[i].id # v
    /\ request' = [request EXCEPT ![t] = v]
    /\ UNCHANGED << cached_urls, fetched, due, calling, check, clock >>

\* getVideoURL(); it may fail, and then the request does.
Fetches(t) ==
    /\ request[t] # None /\ fetched[t] = None
    /\ \/ fetched' = [fetched EXCEPT ![t] = clock] /\ UNCHANGED request
       \/ request' = [request EXCEPT ![t] = None] /\ UNCHANGED fetched
    /\ UNCHANGED << cached_urls, due, calling, check, clock >>

\* The cache with the entry u.  When it is full of URLs that were asked for in
\* this second, cacheURL() throws and leaves it as it is.
With(u) ==
    IF \E i \in Positions : cached_urls[i].id = u.id
    THEN { [i \in Positions |-> IF cached_urls[i].id = u.id THEN u ELSE cached_urls[i]] }
    ELSE IF Len(cached_urls) < MaxCached
    THEN { Append(cached_urls, u) }
    ELSE { Append(Removed(cached_urls, i), u) : i \in Oldest(cached_urls) }

CacheURL(t) ==
    /\ check = None
    /\ fetched[t] # None
    /\ LET with == With([id |-> request[t], at |-> fetched[t]])
       IN  \/ /\ cached_urls' \in with
              /\ due' = IF cached_urls = << >> THEN clock + CheckInterval ELSE due
           \/ with = {} /\ UNCHANGED << cached_urls, due >>
    /\ request' = [request EXCEPT ![t] = None]
    /\ fetched' = [fetched EXCEPT ![t] = None]
    /\ UNCHANGED << calling, check, clock >>

\* Timer::notify() drops a subscription for one call before it calls.
TimerDrops ==
    /\ due # None
    /\ due <= clock
    /\ due' = None
    /\ calling' = TRUE
    /\ UNCHANGED << cached_urls, request, fetched, check, clock >>

CheckBegins ==
    /\ calling
    /\ calling' = FALSE
    /\ check' = [i |-> 1, count |-> 0, now |-> clock]
    /\ UNCHANGED << cached_urls, request, fetched, due, clock >>

\* One round of the loop of checkCachedURLs().  It counts a removal as a round
\* too, and so stops before the last entry when it has removed one.
CheckRound ==
    /\ check # None
    /\ check.count < Len(cached_urls)
    /\ IF Expired(cached_urls[check.i])
       THEN /\ cached_urls' = Removed(cached_urls, check.i)
            /\ check' = [check EXCEPT !.count = @ + 1]
       ELSE /\ check' = [check EXCEPT !.i = @ + 1, !.count = @ + 1]
            /\ UNCHANGED cached_urls
    /\ UNCHANGED << request, fetched, due, calling, clock >>

CheckEnds ==
    /\ check # None
    /\ check.count >= Len(cached_urls)
    /\ check' = None
    /\ due' = Resubscribed(cached_urls)
    /\ UNCHANGED << cached_urls, request, fetched, calling, clock >>

Tick ==
    /\ clock < MaxTime
    /\ clock' = clock + 1
    /\ UNCHANGED << cached_urls, request, fetched, due, calling, check >>

Next ==
    \/ \E t \in Threads, v \in Videos : GetCachedURL(t, v) \/ Misses(t, v)
    \/ \E t \in Threads : Fetches(t) \/ CacheURL(t)
    \/ TimerDrops
    \/ CheckBegins
    \/ CheckRound
    \/ CheckEnds
    \/ Tick

Spec == Init /\ [][Next]_vars

-----------------------------------------------------------------------------
\* Entries have their type and are no more than MAX_CACHED_URLS.
TypeOK ==
    /\ cached_urls \in Seq([id : Videos, at : Nat])
    /\ Len(cached_urls) <= MaxCached
    /\ request \in [Threads -> Videos \cup {None}]
    /\ fetched \in [Threads -> Nat \cup {None}]
    /\ due \in Nat \cup {None}
    /\ calling \in BOOLEAN
    /\ check \in [i : Nat \ {0}, count : Nat, now : Nat] \cup {None}
    /\ clock \in Nat

\* No video has two URLs: two threads that fetch the same one at the same time
\* leave a single entry (cacheURL(), content_manager.cc:1922).
OneURLPerVideo ==
    \A i, j \in Positions : cached_urls[i].id = cached_urls[j].id => i = j

\* While the cache holds a URL the timer will look after it, by a subscription
\* or by a call on its way but never by both, which would make the timer throw
\* (addTimerSubscriber() refuses a second one); an empty cache asks for nothing.
\* What adds a URL does so in another thread than what checks them.
CheckedWhileFilled ==
    check = None => IF cached_urls = << >>
                    THEN due = None /\ ~calling
                    ELSE (due # None) # calling

\* What the steps of a check keep: the index stays in the cache.
CheckInBounds ==
    check # None => /\ due = None /\ ~calling
                    /\ check.i <= check.count + 1

\* A thread that has fetched a URL knows for which video.
FetchedAsked == \A t \in Threads : fetched[t] # None => request[t] # None

\* Inductive (ServerData_proof).
IInv == /\ TypeOK /\ OneURLPerVideo /\ CheckedWhileFilled
        /\ CheckInBounds /\ FetchedAsked
=============================================================================

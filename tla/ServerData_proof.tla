-------------------------- MODULE ServerData_proof --------------------------
(***************************************************************************)
(* Theorems about components of ServerData: of the cache of URLs, for any  *)
(* number of threads and videos and any size of the cache; of the online   *)
(* services, for any configuration and any feeds; of the UPnP services,    *)
(* for any database and any page size; of media requests, for any items    *)
(* and transcoding profiles; of the configuration, for any settings of     *)
(* older files and any changes of users; and of the objects that are       *)
(* edited, for any requests and any rows of an online service.             *)
(***************************************************************************)
EXTENDS ServerData, SequenceTheorems, FiniteSetTheorems, WellFoundedInduction, TLAPS

(* An instance has the operators of the modules it extends for its own.    *)
LEMMA SameCardinality ==
  \A S : /\ Services!Cardinality(S) = Cardinality(S) /\ Upnp!Cardinality(S) = Cardinality(S)
         /\ Serving!Cardinality(S) = Cardinality(S)
  BY Zenon DEF Services!Cardinality, Upnp!Cardinality, Serving!Cardinality, Cardinality

LEMMA SameFinite == \A S : Upnp!IsFiniteSet(S) <=> IsFiniteSet(S)
  BY Zenon DEF Upnp!IsFiniteSet, IsFiniteSet

(***************************************************************************)
(* The URLs of online videos.  IInv is inductive: what a check needs to    *)
(* know of itself, CheckInBounds, is added to the invariants, since while  *)
(* it runs the cache has neither a subscription nor a call on its way.     *)
(***************************************************************************)
Entry == [id : Videos, at : Nat]

\* removeUnordered() leaves a sequence with one element less, and every element
\* comes from another place of the old one (array.h:removeUnordered()).
LEMMA RemovedIsSeq ==
    ASSUME NEW S, NEW c \in Seq(S), NEW i \in 1..Len(c)
    PROVE  /\ Removed(c, i) \in Seq(S)
           /\ Len(Removed(c, i)) = Len(c) - 1
           /\ \A j \in 1..(Len(c) - 1) :
                 Removed(c, i)[j] = IF j = i THEN c[Len(c)] ELSE c[j]
<1> DEFINE d == [c EXCEPT ![i] = c[Len(c)]]
<1>1. Len(c) \in Nat /\ Len(c) >= 1
  OBVIOUS
<1>2. d \in Seq(S) /\ Len(d) = Len(c)
  <2>1. c[Len(c)] \in S
    BY <1>1
  <2> QED
    BY <2>1
<1>3. \A j \in 1..Len(c) : d[j] = IF j = i THEN c[Len(c)] ELSE c[j]
  OBVIOUS
<1> HIDE DEF d
<1>4. SubSeq(d, 1, Len(c) - 1) \in Seq(S)
  BY <1>1, <1>2
<1>5. Len(SubSeq(d, 1, Len(c) - 1)) = Len(c) - 1
  BY <1>1, <1>2
<1>6. \A j \in 1..(Len(c) - 1) : SubSeq(d, 1, Len(c) - 1)[j] = d[j]
  BY <1>1, <1>2
<1>7. Removed(c, i) = SubSeq(d, 1, Len(c) - 1)
  BY DEF Removed, d
<1> QED
  BY <1>1, <1>3, <1>4, <1>5, <1>6, <1>7

\* No two entries are for the same video.
OneEach(c) == \A i, j \in 1..Len(c) : c[i].id = c[j].id => i = j

\* A removal keeps the entries apart.
LEMMA RemovedOneEach ==
    ASSUME NEW c \in Seq(Entry), NEW i \in 1..Len(c), OneEach(c)
    PROVE  OneEach(Removed(c, i))
<1> DEFINE r == Removed(c, i)
<1>1. /\ Len(c) \in Nat /\ Len(c) >= 1
      /\ Len(r) = Len(c) - 1
      /\ \A j \in 1..(Len(c) - 1) : r[j] = IF j = i THEN c[Len(c)] ELSE c[j]
  <2>1. Len(c) \in Nat /\ Len(c) >= 1
    OBVIOUS
  <2>2. /\ Len(Removed(c, i)) = Len(c) - 1
        /\ \A j \in 1..(Len(c) - 1) :
              Removed(c, i)[j] = IF j = i THEN c[Len(c)] ELSE c[j]
    BY RemovedIsSeq
  <2> QED
    BY <2>1, <2>2
<1> HIDE DEF r
<1>2. \A a, b \in 1..Len(c) : c[a].id = c[b].id => a = b
  BY DEF OneEach
<1>3. ASSUME NEW a \in 1..(Len(c) - 1), NEW b \in 1..(Len(c) - 1),
             r[a].id = r[b].id
      PROVE  a = b
  <2>1. CASE a = i
    BY <1>1, <1>2, <1>3, <2>1
  <2>2. CASE b = i
    BY <1>1, <1>2, <1>3, <2>2
  <2>3. CASE a # i /\ b # i
    BY <1>1, <1>2, <1>3, <2>3
  <2> QED
    BY <2>1, <2>2, <2>3
<1>4. OneEach(r)
  BY <1>1, <1>3 DEF OneEach
<1> QED
  BY <1>4 DEF r

-----------------------------------------------------------------------------
\* The cache starts empty and unwatched (content_manager.cc:cached_urls).
LEMMA InitIInv == Init => IInv
<1> SUFFICES ASSUME Init PROVE IInv
  OBVIOUS
<1> USE URLCacheAssumption DEF Init
<1>1. TypeOK
  <2>1. cached_urls \in Seq([id : Videos, at : Nat]) /\ Len(cached_urls) <= MaxCached
    OBVIOUS
  <2>2. /\ request \in [Threads -> Videos \cup {None}]
        /\ fetched \in [Threads -> Nat \cup {None}]
    OBVIOUS
  <2> QED
    BY <2>1, <2>2 DEF TypeOK
<1>2. OneURLPerVideo
  BY DEF OneURLPerVideo, Positions
<1>3. CheckedWhileFilled /\ CheckInBounds /\ FetchedAsked
  BY DEF CheckedWhileFilled, CheckInBounds, FetchedAsked
<1> QED
  BY <1>1, <1>2, <1>3 DEF IInv

\* A hit touches the time of one entry and nothing else (getCachedURL()).
LEMMA GetCachedURLKeeps ==
    ASSUME IInv, NEW t \in Threads, NEW v \in Videos,
           GetCachedURL(t, v)
    PROVE  IInv'
<1> USE URLCacheAssumption DEF IInv
<1>0. PICK k \in Positions : cached_urls' = [cached_urls EXCEPT ![k].at = clock]
  BY DEF GetCachedURL
<1>1. /\ cached_urls \in Seq(Entry) /\ Len(cached_urls) \in Nat /\ clock \in Nat
      /\ k \in 1..Len(cached_urls) /\ cached_urls # << >>
  BY <1>0 DEF TypeOK, Entry, Positions
<1>2. cached_urls[k] \in Entry
  BY <1>1
<1>3. [cached_urls[k] EXCEPT !.at = clock] \in Entry
  BY <1>1, <1>2 DEF Entry
<1>4. /\ cached_urls' \in Seq(Entry)
      /\ Len(cached_urls') = Len(cached_urls)
      /\ \A j \in 1..Len(cached_urls) : cached_urls'[j].id = cached_urls[j].id
  BY <1>0, <1>1, <1>2, <1>3 DEF Entry
<1>5. cached_urls' # << >>
  BY <1>1, <1>4
<1>6. TypeOK'
  BY <1>4 DEF TypeOK, Entry, GetCachedURL
<1>7. OneURLPerVideo'
  BY <1>1, <1>4 DEF OneURLPerVideo, Positions
<1>8. CheckedWhileFilled' /\ CheckInBounds' /\ FetchedAsked'
  BY <1>1, <1>5 DEF CheckedWhileFilled, CheckInBounds, FetchedAsked, GetCachedURL
<1> QED
  BY <1>6, <1>7, <1>8

\* cacheURL() replaces the entry of its video, appends one, or makes room for it.
LEMMA WithKeeps ==
    ASSUME cached_urls \in Seq(Entry), OneEach(cached_urls),
           Len(cached_urls) <= MaxCached,
           NEW u \in Entry, NEW c \in With(u)
    PROVE  c \in Seq(Entry) /\ OneEach(c) /\ Len(c) <= MaxCached /\ c # << >>
<1> DEFINE cu == cached_urls
<1>0. Len(cu) \in Nat /\ MaxCached \in Nat
  BY URLCacheAssumption
<1>1. CASE \E i \in Positions : cu[i].id = u.id
  <2>1. c = [i \in Positions |-> IF cu[i].id = u.id THEN u ELSE cu[i]]
    BY <1>1 DEF With
  <2>2. \A i \in 1..Len(cu) : c[i] \in Entry /\ c[i].id = cu[i].id
    <3> SUFFICES ASSUME NEW i \in 1..Len(cu)
                 PROVE  c[i] \in Entry /\ c[i].id = cu[i].id
      OBVIOUS
    <3>1. c[i] = IF cu[i].id = u.id THEN u ELSE cu[i]
      BY <2>1 DEF Positions
    <3>2. cu[i] \in Entry
      OBVIOUS
    <3> QED
      BY <3>1, <3>2
  <2>3. c \in Seq(Entry) /\ Len(c) = Len(cu)
    BY <1>0, <2>1, <2>2 DEF Positions
  <2>4. c # << >>
    BY <1>0, <1>1, <2>3 DEF Positions
  <2> QED
    BY <2>2, <2>3, <2>4 DEF OneEach
<1>2. CASE (\A i \in Positions : cu[i].id # u.id) /\ Len(cu) < MaxCached
  <2>1. c = Append(cu, u)
    BY <1>2 DEF With
  <2>2. /\ c \in Seq(Entry) /\ Len(c) = Len(cu) + 1 /\ c[Len(cu) + 1] = u
        /\ \A i \in 1..Len(cu) : c[i] = cu[i]
    BY <1>0, <2>1
  <2>3. c # << >> /\ Len(c) <= MaxCached
    BY <1>0, <1>2, <2>2
  <2>4. OneEach(c)
    BY <1>0, <1>2, <2>2 DEF OneEach, Positions
  <2> QED
    BY <2>2, <2>3, <2>4
<1>3. CASE (\A i \in Positions : cu[i].id # u.id) /\ ~(Len(cu) < MaxCached)
  <2>1. PICK k \in Oldest(cu) : c = Append(Removed(cu, k), u)
    BY <1>3 DEF With
  <2>2. k \in 1..Len(cu)
    BY DEF Oldest
  <2> DEFINE r == Removed(cu, k)
  <2>3. /\ r \in Seq(Entry) /\ Len(r) = Len(cu) - 1
        /\ \A j \in 1..(Len(cu) - 1) : r[j] = IF j = k THEN cu[Len(cu)] ELSE cu[j]
    BY <2>2, RemovedIsSeq
  <2>4. OneEach(r)
    BY <2>2, RemovedOneEach
  <2> HIDE DEF r
  <2>5. /\ c \in Seq(Entry) /\ Len(c) = Len(r) + 1 /\ c[Len(r) + 1] = u
        /\ \A i \in 1..Len(r) : c[i] = r[i]
    BY <2>1, <2>3 DEF r
  <2>6. \A i \in 1..Len(r) : r[i].id # u.id
    BY <1>0, <1>3, <2>2, <2>3 DEF Positions
  <2>7. OneEach(c)
    <3> SUFFICES ASSUME NEW a \in 1..Len(c), NEW b \in 1..Len(c), c[a].id = c[b].id
                 PROVE  a = b
      BY DEF OneEach
    <3>0. Len(r) \in Nat
      BY <2>3
    <3>1. CASE a \in 1..Len(r) /\ b \in 1..Len(r)
      BY <2>4, <2>5, <3>1 DEF OneEach
    <3>2. CASE a = Len(r) + 1 \/ b = Len(r) + 1
      BY <2>5, <2>6, <3>0, <3>2
    <3> QED
      BY <2>5, <3>0, <3>1, <3>2
  <2>8. c # << >> /\ Len(c) <= MaxCached
    BY <1>0, <2>3, <2>5
  <2> QED
    BY <2>5, <2>7, <2>8
<1> QED
  BY <1>1, <1>2, <1>3

\* What cacheURL() does keeps the cache in order and subscribes for the first
\* entry.
LEMMA CacheURLKeeps ==
    ASSUME IInv, NEW t \in Threads, CacheURL(t)
    PROVE  IInv'
<1> USE URLCacheAssumption DEF IInv
<1> DEFINE u == [id |-> request[t], at |-> fetched[t]]
<1>0. fetched[t] \in Nat
  BY DEF TypeOK, CacheURL
<1>r. request[t] \in Videos
  BY <1>0 DEF TypeOK, FetchedAsked
<1>1. u \in Entry
  BY <1>0, <1>r DEF Entry
<1>2. /\ cached_urls \in Seq(Entry) /\ OneEach(cached_urls)
      /\ Len(cached_urls) <= MaxCached
  BY DEF TypeOK, OneURLPerVideo, Positions, OneEach, Entry
<1>3. CASE UNCHANGED << cached_urls, due >>
  BY <1>3 DEF TypeOK, OneURLPerVideo, Positions, CheckedWhileFilled, CheckInBounds,
     CacheURL, FetchedAsked
<1>4. CASE /\ cached_urls' \in With(u)
           /\ due' = IF cached_urls = << >> THEN clock + CheckInterval ELSE due
  <2>1. /\ cached_urls' \in Seq(Entry) /\ OneEach(cached_urls')
        /\ Len(cached_urls') <= MaxCached /\ cached_urls' # << >>
    BY <1>1, <1>2, <1>4, WithKeeps
  <2>2. due' \in Nat \cup {None}
    BY <1>4 DEF TypeOK
  <2>3. TypeOK' /\ FetchedAsked'
    BY <2>1, <2>2 DEF TypeOK, Entry, CacheURL, FetchedAsked
  <2>4. OneURLPerVideo'
    BY <2>1 DEF OneURLPerVideo, Positions, OneEach
  <2>5. CheckedWhileFilled' /\ CheckInBounds'
    BY <1>4, <2>1 DEF TypeOK, CheckedWhileFilled, CheckInBounds, CacheURL
  <2> QED
    BY <2>3, <2>4, <2>5
<1> QED
  BY <1>3, <1>4 DEF CacheURL

\* A round of the check removes one entry at most, and never one that is not
\* there.
LEMMA CheckRoundKeeps ==
    ASSUME IInv, CheckRound
    PROVE  IInv'
<1> USE URLCacheAssumption DEF IInv
<1>1. /\ check \in [i : Nat \ {0}, count : Nat, now : Nat]
      /\ cached_urls \in Seq(Entry) /\ Len(cached_urls) \in Nat
      /\ check.i \in 1..Len(cached_urls)
      /\ OneEach(cached_urls)
  BY DEF TypeOK, CheckRound, CheckInBounds, Entry, OneURLPerVideo, OneEach, Positions
<1>2. CASE Expired(cached_urls[check.i])
  <2>1. /\ cached_urls' = Removed(cached_urls, check.i)
        /\ check' = [check EXCEPT !.count = @ + 1]
    BY <1>2 DEF CheckRound
  <2>2. cached_urls' \in Seq(Entry) /\ Len(cached_urls') = Len(cached_urls) - 1
    BY <1>1, <2>1, RemovedIsSeq
  <2>3. OneEach(cached_urls')
    BY <1>1, <2>1, RemovedOneEach
  <2>4. /\ check' \in [i : Nat \ {0}, count : Nat, now : Nat]
        /\ check'.i = check.i /\ check'.count = check.count + 1
    BY <1>1, <2>1
  <2>5. TypeOK' /\ FetchedAsked'
    <3>1. UNCHANGED << request, fetched, due, calling, clock >>
      BY DEF CheckRound
    <3>2. FetchedAsked'
      BY <3>1 DEF FetchedAsked
    <3>3. Len(cached_urls') <= MaxCached
      BY <1>1, <2>2 DEF TypeOK
    <3> QED
      BY <2>2, <2>4, <3>1, <3>2, <3>3 DEF TypeOK, Entry
  <2>6. OneURLPerVideo'
    BY <2>3 DEF OneURLPerVideo, Positions, OneEach
  <2>7. CheckInBounds'
    BY <1>1, <2>4 DEF CheckInBounds, CheckRound
  <2>8. CheckedWhileFilled'
    BY <2>4 DEF CheckedWhileFilled
  <2> QED
    BY <2>5, <2>6, <2>7, <2>8
<1>3. CASE ~Expired(cached_urls[check.i])
  <2>1. /\ cached_urls' = cached_urls
        /\ check' = [check EXCEPT !.i = @ + 1, !.count = @ + 1]
    BY <1>3 DEF CheckRound
  <2>2. /\ check' \in [i : Nat \ {0}, count : Nat, now : Nat]
        /\ check'.i = check.i + 1 /\ check'.count = check.count + 1
    <3>1. /\ check.i \in Nat /\ check.count \in Nat /\ check.now \in Nat
          /\ check = [i |-> check.i, count |-> check.count, now |-> check.now]
      BY <1>1
    <3>2. check' = [i |-> check.i + 1, count |-> check.count + 1, now |-> check.now]
      BY <2>1, <3>1
    <3> QED
      BY <3>1, <3>2
  <2>3. TypeOK' /\ FetchedAsked'
    BY <2>1, <2>2 DEF TypeOK, CheckRound, FetchedAsked
  <2>4. OneURLPerVideo'
    BY <2>1 DEF OneURLPerVideo, Positions
  <2>5. CheckInBounds'
    BY <1>1, <2>2 DEF CheckInBounds, CheckRound
  <2>6. CheckedWhileFilled'
    BY <2>2 DEF CheckedWhileFilled
  <2> QED
    BY <2>3, <2>4, <2>5, <2>6
<1> QED
  BY <1>2, <1>3

\* Every step of every thread keeps the invariant.
LEMMA NextIInv == IInv /\ [Next]_vars => IInv'
<1> SUFFICES ASSUME IInv, [Next]_vars PROVE IInv'
  OBVIOUS
<1> USE URLCacheAssumption
<1>1. ASSUME NEW t \in Threads, NEW v \in Videos, GetCachedURL(t, v) PROVE IInv'
  BY <1>1, GetCachedURLKeeps
<1>2. ASSUME NEW t \in Threads, NEW v \in Videos, Misses(t, v) PROVE IInv'
  BY <1>2 DEF Misses, IInv, TypeOK, OneURLPerVideo, Positions, CheckedWhileFilled,
     CheckInBounds, FetchedAsked
<1>3. ASSUME NEW t \in Threads, Fetches(t) PROVE IInv'
  BY <1>3 DEF Fetches, IInv, TypeOK, OneURLPerVideo, Positions, CheckedWhileFilled,
     CheckInBounds, FetchedAsked
<1>4. ASSUME NEW t \in Threads, CacheURL(t) PROVE IInv'
  BY <1>4, CacheURLKeeps
<1>5. CASE TimerDrops
  BY <1>5 DEF TimerDrops, IInv, TypeOK, OneURLPerVideo, Positions,
     CheckedWhileFilled, CheckInBounds, FetchedAsked
<1>6. CASE CheckBegins
  <2>1. /\ check' = [i |-> 1, count |-> 0, now |-> clock]
        /\ check' \in [i : Nat \ {0}, count : Nat, now : Nat]
    BY <1>6 DEF CheckBegins, IInv, TypeOK
  <2>2. due = None
    BY <1>6 DEF CheckBegins, IInv, CheckedWhileFilled, CheckInBounds
  <2>3. TypeOK' /\ OneURLPerVideo' /\ FetchedAsked'
    BY <1>6, <2>1 DEF CheckBegins, IInv, TypeOK, OneURLPerVideo, Positions, FetchedAsked
  <2>4. CheckedWhileFilled' /\ CheckInBounds'
    BY <1>6, <2>1, <2>2 DEF CheckBegins, CheckedWhileFilled, CheckInBounds
  <2> QED
    BY <2>3, <2>4 DEF IInv
<1>7. CASE CheckRound
  BY <1>7, CheckRoundKeeps
<1>8. CASE CheckEnds
  BY <1>8 DEF CheckEnds, Resubscribed, IInv, TypeOK, OneURLPerVideo, Positions,
     CheckedWhileFilled, CheckInBounds, FetchedAsked
<1>9. CASE Tick
  BY <1>9 DEF Tick, IInv, TypeOK, OneURLPerVideo, Positions,
     CheckedWhileFilled, CheckInBounds, FetchedAsked
<1>10. CASE UNCHANGED vars
  BY <1>10 DEF vars, IInv, TypeOK, OneURLPerVideo, Positions,
     CheckedWhileFilled, CheckInBounds, FetchedAsked
<1> QED
  BY <1>1, <1>2, <1>3, <1>4, <1>5, <1>6, <1>7, <1>8, <1>9, <1>10 DEF Next

-----------------------------------------------------------------------------
\* The cache of URLs is watched by the timer exactly while it holds something
\* (content_manager.cc:1886-1895, 1943-1952).
THEOREM URLsAreChecked == Spec => []CheckedWhileFilled
<1>1. IInv => CheckedWhileFilled
  BY DEF IInv
<1> QED
  BY <1>1, InitIInv, NextIInv, PTL DEF Spec

\* However many threads fetch the URL of a video at the same time, it has one
\* entry (content_manager.cc:1921-1926).
THEOREM VideosAreCachedOnce == Spec => []OneURLPerVideo
<1>1. IInv => OneURLPerVideo
  BY DEF IInv
<1> QED
  BY <1>1, InitIInv, NextIInv, PTL DEF Spec

\* The cache never grows beyond MAX_CACHED_URLS, and its entries have their
\* type.
THEOREM URLCacheIsTyped == Spec => []TypeOK
<1>1. IInv => TypeOK
  BY DEF IInv
<1> QED
  BY <1>1, InitIInv, NextIInv, PTL DEF Spec

(***************************************************************************)
(* The online services                                                     *)
(***************************************************************************)
Tasks == [feed : DOMAIN Feeds,
          request : Services!OneFeed \cup Services!ManyFeeds \cup {"sub"},
          amount : Nat, fetched : Nat, cfg_start_index : Nat, kill : BOOLEAN]

(* The tasks of config.xml come before those that the others appended.     *)
InFront(s) == \A j, k \in 1 .. Len(s) : j < k /\ s[j].kill => s[k].kill
Lasting(s) == \A k \in 1 .. Len(s) : ~s[k].kill

ListInv ==
  /\ os_tasklist \in Seq(Tasks) /\ InFront(os_tasklist)
  /\ os_current \in Nat /\ (os_tasklist # << >> => os_current < Len(os_tasklist))
  /\ os_current = 0 => Lasting(os_tasklist)

OnlineInv ==
  /\ ListInv
  /\ os_service = "YouTube" => os_tasklist # << >>

(* What the end of a round leaves of a list: the tasks in front.           *)
LEMMA KilledAreGone ==
  ASSUME NEW s \in Seq(Tasks), InFront(s)
  PROVE  /\ Services!killOneTimeTasks(s) \in Seq(Tasks)
         /\ Lasting(Services!killOneTimeTasks(s))
<1> DEFINE kept == {k \in 1 .. Len(s) : ~s[k].kill}
           m == Cardinality(kept)
<1>1. Len(s) \in Nat /\ DOMAIN s = 1 .. Len(s)
  OBVIOUS
<1>2. kept \subseteq 1 .. Len(s) /\ IsFiniteSet(1 .. Len(s)) /\ Cardinality(1 .. Len(s)) = Len(s)
  BY <1>1, FS_Interval
<1>3. m \in Nat /\ m <= Len(s)
  BY <1>1, <1>2, FS_Subset, FS_CardinalityType
<1>4. ASSUME NEW n \in 1 .. m, s[n].kill PROVE FALSE
  <2>1. n \in 1 .. Len(s) /\ n \in Nat /\ n - 1 \in Nat
    BY <1>1, <1>3
  <2>2. \A k \in kept : k < n
    BY <1>1, <1>4, <2>1 DEF InFront
  <2>3. kept \subseteq 1 .. n - 1
    BY <1>1, <2>1, <2>2
  <2>4. IsFiniteSet(1 .. n - 1) /\ Cardinality(1 .. n - 1) = n - 1
    BY <2>1, FS_Interval
  <2>5. m <= n - 1
    BY <2>3, <2>4, FS_Subset
  <2> QED
    BY <1>3, <2>1, <2>5
<1>5. \A n \in 1 .. m : n \in 1 .. Len(s) /\ ~s[n].kill
  BY <1>1, <1>3, <1>4
<1>6. Services!killOneTimeTasks(s) = [n \in 1 .. m |-> s[n]]
  <2>1. kept = {k \in DOMAIN s : ~s[k].kill}
    BY <1>1
  <2> HIDE DEF kept
  <2> QED BY <1>5, <2>1, SameCardinality DEF Services!killOneTimeTasks
<1>7. \A n \in 1 .. m : s[n] \in Tasks
  BY <1>5
<1> HIDE DEF kept
<1>8. [n \in 1 .. m |-> s[n]] \in Seq(Tasks) /\ Len([n \in 1 .. m |-> s[n]]) = m
  BY <1>3, <1>7
<1> QED
  BY <1>5, <1>6, <1>8 DEF Lasting

(* A step that advances does so with a list whose tasks are in order.      *)
LEMMA AdvanceKeepsList ==
  ASSUME NEW s \in Seq(Tasks), InFront(s), os_current \in Nat, os_current < Len(s),
         Services!Advance(s)
  PROVE  ListInv' /\ (~Services!Ends(s) => os_tasklist' # << >>)
<1>1. Len(s) \in Nat
  OBVIOUS
<1>2. CASE Services!Ends(s)
  <2>1. os_current' = 0 /\ os_tasklist' = Services!killOneTimeTasks(s)
    BY <1>2 DEF Services!Advance
  <2> DEFINE r == Services!killOneTimeTasks(s)
  <2>2. r \in Seq(Tasks) /\ Lasting(r)
    BY KilledAreGone
  <2> HIDE DEF r
  <2>3. InFront(r) /\ Len(r) \in Nat /\ (r # << >> => 0 < Len(r))
    BY <2>2 DEF InFront, Lasting
  <2> QED
    BY <1>2, <2>1, <2>2, <2>3 DEF ListInv, r
<1>3. CASE ~Services!Ends(s)
  <2>1. os_current' = os_current + 1 /\ os_tasklist' = s
    BY <1>3 DEF Services!Advance
  <2>2. os_current + 1 < Len(s) /\ os_current + 1 # 0 /\ s # << >>
    BY <1>1, <1>3 DEF Services!Ends
  <2> QED
    BY <2>1, <2>2 DEF ListInv
<1> QED
  BY <1>2, <1>3

WithCount(s, n, v) == [s EXCEPT ![n].fetched = v]

(* A count is of no matter to the order of the tasks.                      *)
LEMMA CountsKeepOrder ==
  ASSUME NEW s \in Seq(Tasks), NEW n \in 1 .. Len(s), NEW v \in Nat, InFront(s)
  PROVE  /\ WithCount(s, n, v) \in Seq(Tasks) /\ Len(WithCount(s, n, v)) = Len(s)
         /\ InFront(WithCount(s, n, v))
         /\ Lasting(s) => Lasting(WithCount(s, n, v))
<1>1. Len(s) \in Nat /\ s[n] \in Tasks
  OBVIOUS
<1> DEFINE r == WithCount(s, n, v)
           t == [s[n] EXCEPT !.fetched = v]
<1>2. t \in Tasks /\ t.kill = s[n].kill
  BY <1>1 DEF Tasks
<1>3. r = [s EXCEPT ![n] = t]
  BY DEF WithCount
<1> HIDE DEF t, r
<1>4. r \in Seq(Tasks) /\ Len(r) = Len(s)
  BY <1>1, <1>2, <1>3
<1>5. \A k \in 1 .. Len(s) : r[k].kill = s[k].kill
  BY <1>1, <1>2, <1>3
<1> QED
  BY <1>4, <1>5 DEF InFront, Lasting, r

LEMMA OnlineInit == ASSUME Services!OnlineAssumption, Services!Init PROVE OnlineInv
<1>1. PICK c \in FeedTasks :
        /\ \A k \in DOMAIN c : ~Services!BadTask(c[k])
        /\ os_tasklist = [k \in DOMAIN c |-> Services!defineServiceTask(c[k])]
  BY DEF Services!Init
<1>2. Len(c) \in Nat /\ DOMAIN c = 1 .. Len(c)
  BY DEF Services!OnlineAssumption
<1>3. ASSUME NEW k \in DOMAIN c
      PROVE  /\ Services!defineServiceTask(c[k]) \in Tasks
             /\ ~Services!defineServiceTask(c[k]).kill
  <2> DEFINE x == c[k]
  <2>1. x.feed \in DOMAIN Feeds /\ x.amount \in Int \cup {None} /\ x.start \in Int \cup {None}
    BY <1>3 DEF Services!OnlineAssumption
  <2>2. ~Services!BadTask(x)
    BY <1>1, <1>3
  <2>3. AmountAll \in Nat \ {0}
    BY DEF Services!OnlineAssumption
  <2> HIDE DEF x
  <2>4. x.tag \in Services!OneFeed \cup Services!ManyFeeds
    BY <2>2 DEF Services!BadTask
  <2>5. x.tag \notin Services!ManyFeeds =>
          /\ Services!PositiveOr(x.amount, AmountAll) \in Nat
          /\ Services!PositiveOr(x.start, 1) \in Nat
    BY <2>1, <2>2, <2>3, <2>4 DEF Services!BadTask, Services!BadCount, Services!PositiveOr
  <2> QED
    BY <2>1, <2>3, <2>4, <2>5 DEF Services!defineServiceTask, Services!Task, Tasks, x
<1>4. /\ os_tasklist \in Seq(Tasks) /\ Len(os_tasklist) = Len(c)
      /\ \A k \in 1 .. Len(c) : ~os_tasklist[k].kill
  BY <1>1, <1>2, <1>3
<1>5. os_current = 0 /\ os_service = None
  BY DEF Services!Init, Services!Idle
<1> QED
  BY <1>2, <1>4, <1>5 DEF OnlineInv, ListInv, InFront, Lasting, Services!OnlineAssumption

LEMMA OnlineStep ==
  ASSUME Services!OnlineAssumption, OnlineInv, [Services!Next]_os_vars
  PROVE  OnlineInv'
<1> DEFINE s == os_tasklist
           n == os_current + 1
<1>1. /\ s \in Seq(Tasks) /\ InFront(s) /\ os_current \in Nat
      /\ os_current = 0 => Lasting(s)
  BY DEF OnlineInv, ListInv
<1>2. ASSUME s # << >>
      PROVE  /\ os_current < Len(s) /\ n \in 1 .. Len(s) /\ s[n] = Services!Now /\ Services!Now \in Tasks
  BY <1>1, <1>2 DEF OnlineInv, ListInv, Services!Now
<1>3. "YouTube" # None /\ "SopCast" # None /\ "Trailers" # None
  BY DEF Services!OnlineAssumption
<1>4. ASSUME UNCHANGED << os_tasklist, os_current >>, os_service' = "YouTube" => os_tasklist # << >>
      PROVE  OnlineInv'
  BY <1>4 DEF OnlineInv, ListInv
<1>5. ASSUME ListInv', os_service' # "YouTube"
      PROVE  OnlineInv'
  BY <1>5 DEF OnlineInv
<1>6. ASSUME s # << >>, Services!Advance(Services!Reset(n))
      PROVE  ListInv' /\ (~Services!Ends(s) => os_tasklist' # << >>)
  <2> DEFINE r == Services!Reset(n)
  <2>1. PICK i \in 1 .. Len(s) : i = n
    BY <1>2, <1>6
  <2>2. r \in Seq(Tasks) /\ Len(r) = Len(s) /\ InFront(r)
    <3> DEFINE q == WithCount(s, i, 0)
    <3>1. q \in Seq(Tasks) /\ Len(q) = Len(s) /\ InFront(q)
      BY <1>1, CountsKeepOrder
    <3>2. r = q
      BY <2>1 DEF Services!Reset, WithCount
    <3> HIDE DEF q, r
    <3> QED
      BY <3>1, <3>2
  <2>3. Services!Advance(r)
    BY <1>6
  <2> HIDE DEF r
  <2>4. Services!Ends(r) <=> Services!Ends(s)
    BY <2>2 DEF Services!Ends
  <2> QED
    BY <1>1, <1>2, <1>6, <2>2, <2>3, <2>4, AdvanceKeepsList
<1>7. CASE Services!RefreshFails
  BY <1>3, <1>4, <1>7 DEF Services!RefreshFails, Services!Throws
<1>8. CASE Services!RefreshSubFeeds
  <2> DEFINE linked == LinkedFeeds[Services!Now.feed]
             new == [k \in DOMAIN linked |-> Services!Task(linked[k], "sub", AmountAll, 1, TRUE)]
             all == s \o new
  <2>1. s # << >> /\ Services!Advance(all) /\ os_service' = None
    BY <1>8 DEF Services!RefreshSubFeeds, Services!Returns
  <2>2. linked \in Seq(DOMAIN Feeds)
    BY <1>2, <2>1 DEF Services!OnlineAssumption, Tasks
  <2>3. AmountAll \in Nat
    BY DEF Services!OnlineAssumption
  <2> HIDE DEF linked
  <2>4. new \in Seq(Tasks) /\ \A k \in 1 .. Len(new) : new[k].kill
    <3>1. Len(linked) \in Nat /\ DOMAIN linked = 1 .. Len(linked)
      BY <2>2
    <3>2. ASSUME NEW k \in 1 .. Len(linked)
          PROVE  /\ Services!Task(linked[k], "sub", AmountAll, 1, TRUE) \in Tasks
                 /\ Services!Task(linked[k], "sub", AmountAll, 1, TRUE).kill
      <4>1. linked[k] \in DOMAIN Feeds
        BY <2>2
      <4> QED
        BY <2>3, <4>1 DEF Services!Task, Tasks
    <3>3. new \in [1 .. Len(linked) -> Tasks] /\ \A k \in 1 .. Len(linked) : new[k].kill
      BY <3>1, <3>2
    <3> HIDE DEF new
    <3> QED
      BY <3>1, <3>3
  <2> HIDE DEF new
  <2>5. /\ all \in Seq(Tasks) /\ Len(all) = Len(s) + Len(new)
        /\ \A k \in 1 .. Len(all) : all[k] = IF k <= Len(s) THEN s[k] ELSE new[k - Len(s)]
    BY <1>1, <2>4, ConcatProperties
  <2>6. InFront(all)
    BY <1>1, <2>4, <2>5 DEF InFront
  <2>7. os_current < Len(all)
    BY <1>1, <1>2, <2>1, <2>4, <2>5
  <2> HIDE DEF all
  <2>8. ListInv'
    BY <1>1, <2>1, <2>5, <2>6, <2>7, AdvanceKeepsList
  <2> QED
    BY <1>3, <1>5, <2>1, <2>8
<1>9. CASE Services!RefreshVideos
  <2>1. s # << >>
    BY <1>9 DEF Services!RefreshVideos
  <2>2. \/ UNCHANGED << os_tasklist, os_current >>
        \/ Services!Advance(Services!Reset(n)) /\ os_service' = None
    BY <1>9 DEF Services!RefreshVideos, Services!Returns
  <2> QED
    BY <1>3, <1>4, <1>5, <1>6, <2>1, <2>2
<1>10. CASE Services!RefreshChannels \/ Services!RefreshTrailers
  BY <1>4, <1>10 DEF Services!RefreshChannels, Services!RefreshTrailers
<1>11. CASE Services!NextObject
  <2>1. CASE os_service # "YouTube"
    BY <1>3, <1>4, <1>11, <2>1 DEF Services!NextObject, Services!Returns
  <2>2. CASE os_service = "YouTube" /\ Services!AmountReached
    <3>1. s # << >>
      BY <2>2 DEF OnlineInv
    <3>2. Services!Advance(Services!Reset(n))
      BY <1>11, <2>2 DEF Services!NextObject
    <3>3. Services!Ends(s) => os_service' = None
      BY <1>11, <2>2 DEF Services!NextObject, Services!Returns
    <3> QED
      BY <1>3, <1>6, <3>1, <3>2, <3>3 DEF OnlineInv
  <2>3. CASE os_service = "YouTube" /\ ~Services!AmountReached
    <3>1. s # << >>
      BY <2>3 DEF OnlineInv
    <3>2. os_tasklist' = Services!Counted /\ UNCHANGED os_current
      BY <1>11, <2>3 DEF Services!NextObject
    <3>3. PICK v \in Nat, i \in 1 .. Len(s) : v = Services!Now.fetched + 1 /\ i = n
      BY <1>2, <3>1 DEF Tasks
    <3>4. os_tasklist' = [s EXCEPT ![i].fetched = v]
      BY <1>2, <3>1, <3>2, <3>3 DEF Services!Counted
    <3>5. /\ os_tasklist' \in Seq(Tasks) /\ Len(os_tasklist') = Len(s) /\ InFront(os_tasklist')
          /\ Lasting(s) => Lasting(os_tasklist')
      <4> DEFINE r == WithCount(s, i, v)
      <4>1. /\ r \in Seq(Tasks) /\ Len(r) = Len(s) /\ InFront(r)
            /\ Lasting(s) => Lasting(r)
        BY <1>1, <3>3, CountsKeepOrder
      <4>2. os_tasklist' = r
        BY <3>4 DEF WithCount
      <4> HIDE DEF r
      <4> QED
        BY <4>1, <4>2
    <3>6. os_tasklist' # << >>
      BY <1>1, <1>2, <3>1, <3>5
    <3> QED
      BY <1>1, <1>2, <3>1, <3>2, <3>5, <3>6 DEF OnlineInv, ListInv
  <2> QED
    BY <2>1, <2>2, <2>3
<1>12. CASE Services!PageEnds
  <2>1. CASE os_service = "YouTube"
    <3>1. s # << >> /\ Services!Advance(s) /\ os_service' = None
      BY <1>12, <2>1 DEF Services!PageEnds, Services!Returns, OnlineInv
    <3>2. ListInv'
      BY <1>1, <1>2, <3>1, AdvanceKeepsList
    <3> QED
      BY <1>3, <1>5, <3>1, <3>2
  <2>2. CASE os_service # "YouTube"
    BY <1>3, <1>4, <1>12, <2>2 DEF Services!PageEnds, Services!Returns
  <2> QED
    BY <2>1, <2>2
<1>13. CASE Services!Tick \/ Services!Shutdown
  BY <1>4, <1>13 DEF Services!Tick, Services!Shutdown, OnlineInv
<1>14. CASE UNCHANGED os_vars
  BY <1>4, <1>14 DEF os_vars, OnlineInv
<1> QED
  BY <1>7, <1>8, <1>9, <1>10, <1>11, <1>12, <1>13, <1>14 DEF Services!Next, Services!vars, os_vars

(* When the list of YouTube begins anew, nothing that subscriptions and    *)
(* playlists appended is left, for any configuration and any feeds.        *)
THEOREM TasksGo == Services!Spec => []OneTimeTasksGo
<1>1. Services!OnlineAssumption
  BY ServerDataAssumption DEF ServerDataAssumption
<1>2. Services!Init => OnlineInv
  BY <1>1, OnlineInit
<1>3. OnlineInv /\ [Services!Next]_os_vars => OnlineInv'
  BY <1>1, OnlineStep
<1>4. OnlineInv => OneTimeTasksGo
  BY DEF OnlineInv, ListInv, InFront, Lasting, OneTimeTasksGo, Services!OneTimeTasksGo
<1>5. [Services!Next]_(Services!vars) => [Services!Next]_os_vars
  BY DEF Services!vars, os_vars
<1> QED
  BY <1>2, <1>3, <1>4, <1>5, PTL DEF Services!Spec

(***************************************************************************)
(* The UPnP services                                                       *)
(***************************************************************************)
(* What a control point has when it has read a container to its end.       *)
ByTrack(r, id) == r[id].class \in {"album", "playlist"}
Whole(r, id, hiding) == Upnp!InOrder(r, Upnp!Listed(r, id, hiding), ByTrack(r, id))

RowsOK(r) == IsFiniteSet(DOMAIN r) /\ \A o \in DOMAIN r : DOMAIN r[o] = Upnp!Fields

(* What it has so far is the beginning of that, if nothing changes.        *)
ReadingOK(d, r, hiding) ==
  /\ DOMAIN d = {"id", "got", "total", "done", "quiet", "byTrack"}
  /\ d.quiet =>
       /\ d.id \in DOMAIN r /\ r[d.id].container
       /\ Len(d.got) \in 0 .. Len(Whole(r, d.id, hiding))
       /\ d.got = SubSeq(Whole(r, d.id, hiding), 1, Len(d.got))
       /\ d.done => /\ d.byTrack = ByTrack(r, d.id)
                    /\ d.got = Whole(r, d.id, hiding) /\ d.total = Len(d.got)

(* The objects of a reply are those of a page.                             *)
Holds(objects, page) ==
  /\ DOMAIN objects = 1 .. Len(page)
  /\ \A n \in 1 .. Len(page) : "id" \in DOMAIN objects[n] /\ objects[n].id = page[n]

(* A Browse that is in progress works on the page that comes next; what    *)
(* its queries found out so far agrees with the database.                  *)
BrowseOK(b, d, r, hiding) ==
  /\ DOMAIN b = {"stage", "id", "direct", "start", "count", "hide", "byTrack", "container",
                 "total", "ids", "objects", "search"}
  /\ b.direct /\ d.quiet =>
       /\ ~d.done /\ b.id = d.id /\ b.start = Len(d.got) /\ b.count = ChildrenPerPage
       /\ b.hide = hiding
       /\ b.stage # "load" => b.byTrack = ByTrack(r, d.id)
       /\ b.stage \notin {"load", "type"} => b.container
       /\ b.stage \notin {"load", "type", "count"} => b.total = Len(Whole(r, d.id, hiding))
       /\ b.stage \in {"counts", "render", "tracks"} =>
            Holds(b.objects, Upnp!Page(Whole(r, d.id, hiding), b.start, b.count))

UpnpInv ==
  /\ RowsOK(up_rows)
  /\ ReadingOK(up_reading, up_rows, up_hide)
  /\ up_browse # None => BrowseOK(up_browse, up_reading, up_rows, up_hide)

-----------------------------------------------------------------------------
(* The whole container is a sequence, of as many as there are children.    *)
LEMMA WholeIsSeq ==
  ASSUME NEW r, RowsOK(r), NEW id, NEW hiding
  PROVE  \E S : /\ Whole(r, id, hiding) \in Seq(S)
                /\ Len(Whole(r, id, hiding)) = Upnp!getChildCount(r, id, hiding)
<1> DEFINE listed == Upnp!Listed(r, id, hiding)
           key == [o \in listed |-> Upnp!Key(r, o, ByTrack(r, id))]
           m == Cardinality(listed)
           w == Upnp!Sorted(listed, key)
<1>1. Whole(r, id, hiding) = w
  BY DEF Whole, Upnp!InOrder
<1>2. listed \subseteq DOMAIN r
  BY DEF Upnp!Listed, Upnp!Children
<1>3. m \in Nat
  BY <1>2, FS_Subset, FS_CardinalityType DEF RowsOK
<1>4. Upnp!getChildCount(r, id, hiding) = m
  BY SameCardinality DEF Upnp!getChildCount
<1> HIDE DEF listed, key
<1>5. DOMAIN w = 1 .. m /\ w = [n \in 1 .. m |-> w[n]]
  <2>1. w = [n \in 1 .. m |-> CHOOSE o \in listed :
                Upnp!Cardinality({p \in listed : Upnp!Before(key[p], key[o])}) = n - 1]
    BY SameCardinality DEF Upnp!Sorted
  <2> QED
    BY <2>1
<1> HIDE DEF w, m
<1>6. w \in [1 .. m -> {w[n] : n \in 1 .. m}]
  BY <1>5
<1>7. w \in Seq({w[n] : n \in 1 .. m}) /\ Len(w) = m
  BY <1>3, <1>6
<1> QED
  BY <1>1, <1>4, <1>7

(* A page continues what was read; an empty one means that all was read.   *)
LEMMA PageContinues ==
  ASSUME NEW S, NEW w \in Seq(S), NEW g \in 0 .. Len(w), NEW c \in Nat
  PROVE  LET p == Upnp!Page(w, g, c)
         IN  /\ Len(p) \in Nat /\ g + Len(p) <= Len(w) /\ DOMAIN p = 1 .. Len(p)
             /\ Len(p) = 0 => g = Len(w)
             /\ SubSeq(w, 1, g) \o p = SubSeq(w, 1, g + Len(p))
             /\ p = [n \in 1 .. Len(p) |-> p[n]]
<1> DEFINE m == IF c = 0 THEN Len(w) ELSE IF g + c < Len(w) THEN g + c ELSE Len(w)
           p == SubSeq(w, g + 1, m)
<1>1. Len(w) \in Nat
  OBVIOUS
<1>2. m \in g .. Len(w) /\ (m = g => g = Len(w))
  BY <1>1
<1>3. Upnp!Page(w, g, c) = p
  BY DEF Upnp!Page
<1> HIDE DEF m
<1>4. p \in Seq(S) /\ Len(p) = m - g
  BY <1>1, <1>2, SubSeqProperties
<1>5. SubSeq(w, 1, g) \o p = SubSeq(w, 1, m)
  BY <1>1, <1>2, ConcatAdjacentSubSeq
<1> HIDE DEF p
<1>6. DOMAIN p = 1 .. Len(p) /\ p = [n \in 1 .. Len(p) |-> p[n]]
  BY <1>4
<1>7. g + Len(p) = m
  BY <1>2, <1>4
<1> QED
  BY <1>1, <1>2, <1>3, <1>4, <1>5, <1>6, <1>7

(* Counts of updates are not what a container is read by.                  *)
LEMMA CountsDoNotMatter ==
  ASSUME NEW r, NEW q, NEW id \in DOMAIN r, NEW hiding, DOMAIN q = DOMAIN r,
         \A o \in DOMAIN r : /\ q[o].parent = r[o].parent /\ q[o].container = r[o].container
                             /\ q[o].class = r[o].class /\ q[o].track = r[o].track
                             /\ q[o].title = r[o].title
  PROVE  Whole(q, id, hiding) = Whole(r, id, hiding) /\ ByTrack(q, id) = ByTrack(r, id)
<1>1. ByTrack(q, id) = ByTrack(r, id)
  BY DEF ByTrack
<1> DEFINE listed == Upnp!Listed(r, id, hiding)
<1>2. Upnp!Listed(q, id, hiding) = listed /\ listed \subseteq DOMAIN r
  BY DEF Upnp!Listed, Upnp!Children
<1> HIDE DEF listed
<1>3. ASSUME NEW o \in listed, NEW b PROVE Upnp!Key(q, o, b) = Upnp!Key(r, o, b)
  BY <1>2, <1>3 DEF Upnp!Key
<1>4. \A b : [o \in listed |-> Upnp!Key(q, o, b)] = [o \in listed |-> Upnp!Key(r, o, b)]
  BY <1>3
<1> QED
  BY <1>1, <1>2, <1>4 DEF Whole, Upnp!InOrder, listed

(* Nothing is the beginning of everything.                                 *)
LEMMA ReadingBegins ==
  ASSUME NEW r, RowsOK(r), NEW id \in DOMAIN r, r[id].container, NEW hiding
  PROVE  ReadingOK(Upnp!Reading(id, hiding), r, hiding)
<1> DEFINE w == Whole(r, id, hiding)
<1>1. PICK S : w \in Seq(S)
  BY WholeIsSeq
<1> HIDE DEF w
<1>2. Len(w) \in Nat /\ SubSeq(w, 1, 0) = << >>
  BY <1>1
<1> QED
  BY <1>2 DEF ReadingOK, Upnp!Reading, w

-----------------------------------------------------------------------------
LEMMA UpnpInit == ASSUME Upnp!UpnpAssumption, Upnp!Init PROVE UpnpInv
<1>1. up_rows \in UpnpDatabases /\ up_browse = None
  BY DEF Upnp!Init
<1>2. RowsOK(up_rows)
  BY <1>1, SameFinite DEF Upnp!UpnpAssumption, RowsOK
<1>3. PICK id \in DOMAIN up_rows : up_rows[id].container /\ up_reading = Upnp!Reading(id, up_hide)
  BY DEF Upnp!Init
<1>4. ReadingOK(Upnp!Reading(id, up_hide), up_rows, up_hide)
  BY <1>2, <1>3, ReadingBegins
<1> QED
  BY <1>1, <1>2, <1>3, <1>4 DEF UpnpInv

(* A step of a Browse that changes nothing else.                           *)
LEMMA BrowseContinues ==
  ASSUME UpnpInv, NEW b, Upnp!Continue(b), BrowseOK(b, up_reading, up_rows, up_hide)
  PROVE  UpnpInv'
  BY DEF UpnpInv, Upnp!Continue

(* A Browse that fails makes the control point give up.                    *)
LEMMA BrowseFails ==
  ASSUME UpnpInv, NEW code, Upnp!Fail(code)
  PROVE  UpnpInv'
<1>1. up_browse' = None /\ UNCHANGED << up_rows, up_hide >>
  BY DEF Upnp!Fail
<1>2. up_reading' = up_reading \/ up_reading' = [up_reading EXCEPT !.done = TRUE, !.quiet = FALSE]
  BY DEF Upnp!Fail
<1>3. ReadingOK(up_reading', up_rows, up_hide)
  BY <1>2 DEF UpnpInv, ReadingOK
<1> QED
  BY <1>1, <1>3 DEF UpnpInv

(* The queries of a Browse.                                                *)
LEMMA QueriesAgree ==
  ASSUME Upnp!UpnpAssumption, UpnpInv,
         (\/ Upnp!Load \/ Upnp!ReadType \/ Upnp!CountMatches
          \/ Upnp!SelectRows \/ Upnp!CountChildren)
  PROVE  UpnpInv'
<1> DEFINE b == up_browse
           w == Whole(up_rows, up_reading.id, up_hide)
           OK(x) == BrowseOK(x, up_reading, up_rows, up_hide)
<1>1. ASSUME b # None PROVE OK(b)
  BY <1>1 DEF UpnpInv
<1>2. CASE Upnp!Load
  <2>1. b # None /\ b.stage = "load"
    BY <1>2 DEF Upnp!Load, Upnp!At
  <2>2. CASE b.id \in DOMAIN up_rows
    <3> DEFINE x == [b EXCEPT !.stage = "type", !.byTrack = ByTrack(up_rows, b.id)]
    <3>1. Upnp!Continue(x)
      BY <1>2, <2>2 DEF Upnp!Load, ByTrack
    <3>2. OK(x)
      BY <1>1, <2>1 DEF BrowseOK
    <3> HIDE DEF x
    <3> QED
      BY <3>1, <3>2, BrowseContinues
  <2>3. CASE b.id \notin DOMAIN up_rows
    BY <1>2, <2>3, BrowseFails DEF Upnp!Load
  <2> QED
    BY <2>2, <2>3
<1>3. CASE Upnp!ReadType
  <2>1. b # None /\ b.stage = "type"
    BY <1>3 DEF Upnp!ReadType, Upnp!At
  <2>2. CASE b.id \in DOMAIN up_rows
    <3> DEFINE x == [b EXCEPT !.stage = "count", !.container = up_rows[b.id].container]
    <3>1. Upnp!Continue(x)
      BY <1>3, <2>2 DEF Upnp!ReadType
    <3>2. OK(x)
      BY <1>1, <2>1 DEF BrowseOK, UpnpInv, ReadingOK
    <3> HIDE DEF x
    <3> QED
      BY <3>1, <3>2, BrowseContinues
  <2>3. CASE b.id \notin DOMAIN up_rows
    BY <1>3, <2>3, BrowseFails DEF Upnp!ReadType
  <2> QED
    BY <2>2, <2>3
<1>4. CASE Upnp!CountMatches
  <2>1. b # None /\ b.stage = "count"
    BY <1>4 DEF Upnp!CountMatches, Upnp!At
  <2> DEFINE total == IF b.direct /\ b.container
                      THEN Upnp!getChildCount(up_rows, b.id, b.hide) ELSE 1
             x == [b EXCEPT !.stage = "rows", !.total = total]
  <2>2. Upnp!Continue(x)
    BY <1>4 DEF Upnp!CountMatches
  <2>3. RowsOK(up_rows)
    BY DEF UpnpInv
  <2>4. Len(w) = Upnp!getChildCount(up_rows, up_reading.id, up_hide)
    BY <2>3, WholeIsSeq
  <2>5. b.direct /\ up_reading.quiet => total = Len(w)
    BY <1>1, <2>1, <2>4 DEF BrowseOK
  <2> HIDE DEF total
  <2>6. OK(x)
    BY <1>1, <2>1, <2>5 DEF BrowseOK
  <2> HIDE DEF x
  <2> QED
    BY <2>2, <2>6, BrowseContinues
<1>5. CASE Upnp!SelectRows
  <2>1. b # None /\ b.stage = "rows"
    BY <1>5 DEF Upnp!SelectRows, Upnp!At
  <2> DEFINE ids == Upnp!Select(up_rows, b)
             objects == [n \in DOMAIN ids |-> Upnp!Shown(ids[n])]
             x == [b EXCEPT !.stage = "counts", !.ids = ids, !.objects = objects]
  <2>2. Upnp!Continue(x)
    BY <1>5 DEF Upnp!SelectRows
  <2>3. ASSUME b.direct, up_reading.quiet
        PROVE  Holds(objects, Upnp!Page(w, b.start, b.count))
    <3>1. ids = Upnp!Page(w, b.start, b.count)
      BY <1>1, <2>1, <2>3 DEF BrowseOK, Upnp!Select, Whole
    <3>2. b.start \in 0 .. Len(w) /\ b.count = ChildrenPerPage
      BY <1>1, <2>1, <2>3 DEF BrowseOK, UpnpInv, ReadingOK
    <3>3. \E S : w \in Seq(S)
      BY WholeIsSeq DEF UpnpInv
    <3>4. DOMAIN ids = 1 .. Len(ids)
      BY <3>1, <3>2, <3>3, PageContinues DEF Upnp!UpnpAssumption
    <3> HIDE DEF ids
    <3>5. \A n \in DOMAIN ids : "id" \in DOMAIN Upnp!Shown(ids[n]) /\ Upnp!Shown(ids[n]).id = ids[n]
      BY DEF Upnp!Shown
    <3> QED
      BY <3>1, <3>4, <3>5 DEF Holds
  <2> HIDE DEF ids, objects
  <2>4. OK(x)
    BY <1>1, <2>1, <2>3 DEF BrowseOK
  <2> HIDE DEF x
  <2> QED
    BY <2>2, <2>4, BrowseContinues DEF objects, ids
<1>6. CASE Upnp!CountChildren
  <2>1. b # None /\ b.stage = "counts"
    BY <1>6 DEF Upnp!CountChildren, Upnp!At
  <2> DEFINE counted(o) == IF o.container
                           THEN [o EXCEPT !.count = Upnp!getChildCount(up_rows, o.id, b.hide)] ELSE o
             objects == [n \in DOMAIN b.objects |-> counted(b.objects[n])]
             x == [b EXCEPT !.stage = "render", !.objects = objects]
  <2>2. Upnp!Continue(x)
    BY <1>6 DEF Upnp!CountChildren
  <2>3. ASSUME NEW page, Holds(b.objects, page) PROVE Holds(objects, page)
    <3>1. ASSUME NEW o, "id" \in DOMAIN o PROVE "id" \in DOMAIN counted(o) /\ counted(o).id = o.id
      BY <3>1
    <3> HIDE DEF counted
    <3> QED
      BY <2>3, <3>1 DEF Holds
  <2> HIDE DEF objects
  <2>4. OK(x)
    BY <1>1, <2>1, <2>3 DEF BrowseOK
  <2> HIDE DEF x
  <2> QED
    BY <2>2, <2>4, BrowseContinues
<1> QED
  BY <1>2, <1>3, <1>4, <1>5, <1>6

(* The artwork of an object is no matter to which object it is.            *)
LEMMA RenderedHolds ==
  ASSUME NEW art, BrowseOK(up_browse, up_reading, up_rows, up_hide),
         up_browse.stage \in {"render", "tracks"}
  PROVE  BrowseOK(Upnp!Rendered(art), up_reading, up_rows, up_hide)
<1> DEFINE b == up_browse
           k == Upnp!Current
           objects == [b.objects EXCEPT ![k] = [b.objects[k] EXCEPT !.art = art]]
           x == Upnp!Rendered(art)
<1>1. ASSUME NEW page, Holds(b.objects, page) PROVE Holds(objects, page)
  BY <1>1 DEF Holds
<1> HIDE DEF k
<1>2. /\ DOMAIN x = DOMAIN b /\ x.stage = "render" /\ x.objects = objects
      /\ x.id = b.id /\ x.direct = b.direct /\ x.start = b.start /\ x.count = b.count
      /\ x.hide = b.hide /\ x.byTrack = b.byTrack /\ x.container = b.container /\ x.total = b.total
  BY DEF Upnp!Rendered, BrowseOK, k
<1> HIDE DEF objects, x
<1> QED
  BY <1>1, <1>2 DEF BrowseOK, x

LEMMA RenderingAgrees ==
  ASSUME Upnp!UpnpAssumption, UpnpInv, Upnp!Render \/ Upnp!LookAtTrack
  PROVE  UpnpInv'
<1> DEFINE OK(x) == BrowseOK(x, up_reading, up_rows, up_hide)
<1>1. up_browse # None /\ up_browse.stage \in {"render", "tracks"} /\ OK(up_browse)
  BY DEF Upnp!Render, Upnp!LookAtTrack, Upnp!At, UpnpInv
<1>2. ASSUME NEW art, Upnp!Continue(Upnp!Rendered(art)) PROVE UpnpInv'
  BY <1>1, <1>2, RenderedHolds, BrowseContinues
<1>3. ASSUME NEW objs, Upnp!Continue([up_browse EXCEPT !.stage = "tracks", !.search = objs])
      PROVE  UpnpInv'
  <2> DEFINE x == [up_browse EXCEPT !.stage = "tracks", !.search = objs]
  <2>1. OK(x)
    <3>1. CASE up_browse.stage = "render"
      BY <1>1, <3>1 DEF BrowseOK
    <3>2. CASE up_browse.stage = "tracks"
      BY <1>1, <3>2 DEF BrowseOK
    <3> QED
      BY <1>1, <3>1, <3>2
  <2>2. Upnp!Continue(x)
    BY <1>3
  <2> HIDE DEF x
  <2> QED
    BY <2>1, <2>2, BrowseContinues
<1>4. CASE Upnp!Render
  <2> DEFINE o == up_browse.objects[Upnp!Current]
  <2>1. \/ \E art : Upnp!Continue(Upnp!Rendered(art))
        \/ Upnp!Continue([up_browse EXCEPT !.stage = "tracks", !.search = Upnp!getObjects(up_rows, o.id)])
    BY <1>4, Zenon DEF Upnp!Render
  <2> QED
    BY <1>2, <1>3, <2>1
<1>5. CASE Upnp!LookAtTrack
  <2>1. CASE up_browse.search = {}
    BY <1>2, <1>5, <2>1 DEF Upnp!LookAtTrack
  <2>2. CASE up_browse.search # {}
    <3>1. PICK t \in up_browse.search :
              IF t \notin DOMAIN up_rows THEN Upnp!Fail("SUCCESS")
              ELSE IF up_rows[t].class = "track" /\ up_rows[t].cover THEN Upnp!Continue(Upnp!Rendered(t))
              ELSE Upnp!Continue([up_browse EXCEPT !.search = up_browse.search \ {t}])
      BY <1>5, <2>2 DEF Upnp!LookAtTrack
    <3>2. CASE Upnp!Continue([up_browse EXCEPT !.search = up_browse.search \ {t}])
      <4>1. up_browse.stage = "tracks"
        BY <1>5 DEF Upnp!LookAtTrack, Upnp!At
      <4> DEFINE x == [up_browse EXCEPT !.search = up_browse.search \ {t}]
      <4>2. OK(x)
        BY <1>1, <4>1 DEF BrowseOK
      <4>3. Upnp!Continue(x)
        BY <3>2
      <4> HIDE DEF x
      <4> QED
        BY <4>2, <4>3, BrowseContinues
    <3> QED
      BY <1>2, <3>1, <3>2, BrowseFails
  <2> QED
    BY <2>1, <2>2
<1> QED
  BY <1>4, <1>5

(* A page that arrives continues what the control point has.               *)
LEMMA ReplyContinues ==
  ASSUME Upnp!UpnpAssumption, UpnpInv, Upnp!Reply
  PROVE  UpnpInv'
<1> DEFINE b == up_browse
           d == up_reading
           w == Whole(up_rows, d.id, up_hide)
           OK(x) == ReadingOK(x, up_rows, up_hide)
<1>1. /\ b # None /\ b.stage = "render" /\ BrowseOK(b, d, up_rows, up_hide)
      /\ up_browse' = None /\ UNCHANGED << up_rows, up_hide >>
      /\ up_reading' = IF b.direct THEN Upnp!Received(b) ELSE d
  BY DEF Upnp!Reply, Upnp!At, UpnpInv
<1>2. OK(d)
  BY DEF UpnpInv
<1>3. ASSUME b.direct PROVE OK(Upnp!Received(b))
  <2> DEFINE ids == [n \in DOMAIN b.objects |-> b.objects[n].id]
             got == d.got \o ids
             done == b.objects = << >> \/ Len(got) >= b.total
             x == [d EXCEPT !.got = got, !.total = b.total, !.byTrack = b.byTrack, !.done = done]
  <2>1. Upnp!Received(b) = x
    BY DEF Upnp!Received
  <2>2. CASE ~d.quiet
    <3> HIDE DEF got, done
    <3> QED
      BY <1>2, <2>1, <2>2 DEF ReadingOK
  <2>3. CASE d.quiet
    <3> DEFINE g == Len(d.got)
               p == Upnp!Page(w, g, ChildrenPerPage)
    <3>1. /\ g \in 0 .. Len(w) /\ d.got = SubSeq(w, 1, g)
          /\ d.id \in DOMAIN up_rows /\ up_rows[d.id].container
      BY <1>2, <2>3 DEF ReadingOK
    <3>2. PICK S : w \in Seq(S)
      BY WholeIsSeq DEF UpnpInv
    <3>3. Holds(b.objects, p) /\ b.total = Len(w) /\ b.byTrack = ByTrack(up_rows, d.id)
      BY <1>1, <1>3, <2>3 DEF BrowseOK
    <3>4. ChildrenPerPage \in Nat
      BY DEF Upnp!UpnpAssumption
    <3> HIDE DEF w, g
    <3>5. /\ Len(p) \in Nat /\ g + Len(p) <= Len(w)
          /\ Len(p) = 0 => g = Len(w)
          /\ SubSeq(w, 1, g) \o p = SubSeq(w, 1, g + Len(p))
          /\ p = [n \in 1 .. Len(p) |-> p[n]]
      BY <3>1, <3>2, <3>4, PageContinues
    <3> HIDE DEF p
    <3>6. ids = p
      BY <3>3, <3>5 DEF Holds
    <3>7. Len(w) \in Nat /\ SubSeq(w, 1, Len(w)) = w
      BY <3>2
    <3> HIDE DEF ids
    <3>8. got = SubSeq(w, 1, g + Len(p)) /\ Len(got) = g + Len(p)
      <4>1. got = SubSeq(w, 1, g + Len(p))
        BY <3>1, <3>5, <3>6
      <4> DEFINE n == g + Len(p)
      <4>2. n \in 0 .. Len(w)
        BY <3>1, <3>5, <3>7
      <4> HIDE DEF n
      <4>3. Len(SubSeq(w, 1, n)) = n
        BY <3>2, <3>7, <4>2
      <4> QED
        BY <4>1, <4>3 DEF n
    <3>9. b.objects = << >> => Len(p) = 0
      <4>1. ASSUME b.objects = << >> PROVE 1 .. Len(p) = {}
        BY <3>3, <4>1 DEF Holds
      <4>2. Len(p) # 0 => 1 \in 1 .. Len(p)
        BY <3>5
      <4> QED
        BY <4>1, <4>2
    <3> HIDE DEF got
    <3>10. done => got = w /\ Len(got) = Len(w)
      BY <3>1, <3>3, <3>5, <3>7, <3>8, <3>9
    <3>11. Len(got) \in 0 .. Len(w) /\ got = SubSeq(w, 1, Len(got))
      BY <3>1, <3>5, <3>7, <3>8
    <3> HIDE DEF done
    <3>12. /\ DOMAIN x = DOMAIN d /\ x.id = d.id /\ x.got = got /\ x.done = done
           /\ x.total = b.total /\ x.byTrack = b.byTrack
      BY <1>2 DEF ReadingOK
    <3> HIDE DEF x
    <3> QED
      BY <1>2, <2>1, <3>1, <3>3, <3>10, <3>11, <3>12 DEF ReadingOK, w
  <2> QED
    BY <2>2, <2>3
<1> QED
  BY <1>1, <1>2, <1>3 DEF UpnpInv

(* Whoever changes the database ends the quiet.                            *)
LEMMA ChangesEndQuiet ==
  ASSUME UpnpInv, NEW r, RowsOK(r), NEW containers, Upnp!DatabaseChanges(r, containers)
  PROVE  UpnpInv'
<1>1. /\ up_rows' = r /\ UNCHANGED << up_browse, up_hide >>
      /\ up_reading' = [up_reading EXCEPT !.quiet = FALSE]
  BY DEF Upnp!DatabaseChanges
<1>2. ~up_reading'.quiet /\ ReadingOK(up_reading', r, up_hide)
  BY <1>1 DEF UpnpInv, ReadingOK
<1>3. up_browse # None => BrowseOK(up_browse, up_reading', r, up_hide)
  BY <1>2 DEF UpnpInv, BrowseOK
<1> QED
  BY <1>1, <1>2, <1>3 DEF UpnpInv

LEMMA AddEndsQuiet ==
  ASSUME Upnp!UpnpAssumption, UpnpInv, NEW row \in UpnpNewRows, Upnp!Add(row)
  PROVE  UpnpInv'
<1> DEFINE id == 1 + Upnp!Max(DOMAIN up_rows)
           r == [o \in DOMAIN up_rows \cup {id} |-> IF o = id THEN row ELSE up_rows[o]]
<1>1. Upnp!DatabaseChanges(r, {row.parent})
  BY DEF Upnp!Add
<1>2. DOMAIN row = Upnp!Fields
  BY DEF Upnp!UpnpAssumption
<1> HIDE DEF id
<1>3. IsFiniteSet(DOMAIN up_rows \cup {id})
  BY FS_AddElement DEF UpnpInv, RowsOK
<1>4. RowsOK(r)
  BY <1>2, <1>3 DEF UpnpInv, RowsOK
<1> HIDE DEF r
<1> QED
  BY <1>1, <1>4, ChangesEndQuiet

LEMMA RemovalEndsQuiet ==
  ASSUME UpnpInv, NEW id, Upnp!RemoveObject(id)
  PROVE  UpnpInv'
<1> DEFINE gone == Upnp!Below(Upnp!Below({id}))
           r == [o \in DOMAIN up_rows \ gone |-> up_rows[o]]
<1>1. Upnp!DatabaseChanges(r, {up_rows[o].parent : o \in gone} \ gone)
  BY DEF Upnp!RemoveObject
<1> HIDE DEF gone
<1>2. IsFiniteSet(DOMAIN up_rows \ gone)
  BY FS_Subset DEF UpnpInv, RowsOK
<1>3. RowsOK(r)
  BY <1>2 DEF UpnpInv, RowsOK
<1> HIDE DEF r
<1> QED
  BY <1>1, <1>3, ChangesEndQuiet

(* The update thread changes only the counts of updates.                   *)
LEMMA UpdatesKeepQuiet ==
  ASSUME UpnpInv, Upnp!send_subscription_update
  PROVE  UpnpInv'
<1> DEFINE q == Upnp!Counted
           d == up_reading
<1>1. up_rows' = q /\ UNCHANGED << up_browse, up_hide, up_reading >>
  BY DEF Upnp!send_subscription_update
<1>2. DOMAIN q = DOMAIN up_rows
  BY DEF Upnp!Counted
<1>3. ASSUME NEW o \in DOMAIN up_rows
      PROVE  /\ DOMAIN q[o] = Upnp!Fields
             /\ q[o].parent = up_rows[o].parent /\ q[o].container = up_rows[o].container
             /\ q[o].class = up_rows[o].class /\ q[o].track = up_rows[o].track
             /\ q[o].title = up_rows[o].title
  BY DEF Upnp!Counted, Upnp!Fields, UpnpInv, RowsOK
<1> HIDE DEF q
<1>4. RowsOK(q)
  BY <1>2, <1>3 DEF UpnpInv, RowsOK
<1>5. d.id \in DOMAIN up_rows =>
        /\ Whole(q, d.id, up_hide) = Whole(up_rows, d.id, up_hide)
        /\ ByTrack(q, d.id) = ByTrack(up_rows, d.id)
  BY <1>2, <1>3, CountsDoNotMatter
<1>6. ReadingOK(d, q, up_hide)
  BY <1>2, <1>3, <1>5 DEF UpnpInv, ReadingOK
<1>7. up_browse # None => BrowseOK(up_browse, d, q, up_hide)
  BY <1>5 DEF UpnpInv, ReadingOK, BrowseOK
<1> QED
  BY <1>1, <1>4, <1>6, <1>7 DEF UpnpInv

(* A new Browse, or another container.                                     *)
LEMMA BrowseBegins ==
  ASSUME UpnpInv, Upnp!AskNextPage \/ \E id \in DOMAIN up_rows : Upnp!AskMetadata(id)
  PROVE  UpnpInv'
<1> DEFINE OK(x) == BrowseOK(x, up_reading, up_rows, up_hide)
<1>1. UNCHANGED << up_hide, up_rows, up_reading >>
  BY DEF Upnp!AskNextPage, Upnp!AskMetadata
<1>2. OK(up_browse')
  <2>1. CASE Upnp!AskNextPage
    BY <2>1 DEF Upnp!AskNextPage, Upnp!Begin, BrowseOK
  <2>2. ASSUME NEW id, Upnp!AskMetadata(id) PROVE OK(up_browse')
    BY <2>2 DEF Upnp!AskMetadata, Upnp!Begin, BrowseOK
  <2> QED
    BY <2>1, <2>2
<1> QED
  BY <1>1, <1>2 DEF UpnpInv

LEMMA UpnpStep ==
  ASSUME Upnp!UpnpAssumption, UpnpInv, [Upnp!Next]_up_vars
  PROVE  UpnpInv'
<1>1. ASSUME UNCHANGED << up_hide, up_rows, up_browse, up_reading >> PROVE UpnpInv'
  BY <1>1 DEF UpnpInv
<1>2. CASE Upnp!UnsupportedEvent \/ UNCHANGED up_vars
  BY <1>1, <1>2 DEF Upnp!UnsupportedEvent, up_vars
<1>3. ASSUME NEW u, NEW s, NEW a, Upnp!upnp_actions(u, s, a) PROVE UpnpInv'
  BY <1>1, <1>3 DEF Upnp!upnp_actions
<1>4. ASSUME NEW u, NEW s, Upnp!upnp_subscriptions(u, s) PROVE UpnpInv'
  BY <1>1, <1>4 DEF Upnp!upnp_subscriptions
<1>5. ASSUME NEW code, Upnp!AskWrong(code) PROVE UpnpInv'
  BY <1>1, <1>5 DEF Upnp!AskWrong
<1>6. CASE Upnp!ReadAnother
  <2>1. PICK id \in DOMAIN up_rows : up_rows[id].container /\ up_reading' = Upnp!Reading(id, up_hide)
    BY <1>6 DEF Upnp!ReadAnother
  <2>2. ReadingOK(up_reading', up_rows, up_hide)
    BY <2>1, ReadingBegins DEF UpnpInv
  <2> QED
    BY <1>6, <2>2 DEF Upnp!ReadAnother, Upnp!Idle, UpnpInv
<1> QED
  BY <1>2, <1>3, <1>4, <1>5, <1>6, QueriesAgree, RenderingAgrees, ReplyContinues, AddEndsQuiet,
     RemovalEndsQuiet, UpdatesKeepQuiet, BrowseBegins DEF Upnp!Next, up_vars, Upnp!vars

(* Pages of any size, read while nothing changes, make up any container of *)
(* any database: every child once, in order, as many as were announced.    *)
THEOREM PagesMakeContainers == Upnp!Spec => []PagesFit
<1>1. Upnp!UpnpAssumption
  BY ServerDataAssumption DEF ServerDataAssumption
<1>2. Upnp!Init => UpnpInv
  BY <1>1, UpnpInit
<1>3. UpnpInv /\ [Upnp!Next]_up_vars => UpnpInv'
  BY <1>1, UpnpStep
<1>4. UpnpInv => PagesFit
  BY DEF UpnpInv, ReadingOK, Whole, PagesFit, Upnp!PagesFit
<1>5. [Upnp!Next]_(Upnp!vars) => [Upnp!Next]_up_vars
  BY DEF Upnp!vars, up_vars
<1> QED
  BY <1>2, <1>3, <1>4, <1>5, PTL DEF Upnp!Spec

(***************************************************************************)
(* Media requests                                                          *)
(***************************************************************************)
(* Induction over the natural numbers, for a set.                          *)
LEMMA NatSetInduction ==
  ASSUME NEW T, 0 \in T, \A n \in Nat : n \in T => n + 1 \in T
  PROVE  \A n \in Nat : n \in T
<1> SUFFICES ASSUME NEW k \in Nat, k \notin T PROVE FALSE
  OBVIOUS
<1> DEFINE R == OpToRel(<, Nat)
           U == Nat \ T
<1>1. IsWellFoundedOn(R, Nat)
  BY NatLessThanWellFounded
<1>2. U \subseteq Nat /\ U # {}
  OBVIOUS
<1>3. \E x \in U : \A y \in U : <<y, x>> \notin R
  <2> HIDE DEF R, U
  <2> QED BY <1>1, <1>2, WFMin
<1>4. PICK x \in U : \A y \in U : ~(y < x)
  <2>1. \A y, x \in Nat : <<y, x>> \in R <=> y < x
    BY DEF OpToRel
  <2> QED BY <1>3, <2>1
<1>5. x # 0 /\ x - 1 \in Nat /\ x - 1 < x
  BY <1>4
<1>6. x - 1 \in T
  BY <1>4, <1>5
<1> QED
  BY <1>4, <1>5, <1>6

(* f has what the first n profiles make of the resources of an item.       *)
Start(i, c) == [res |-> i.res \o Serving!Thumbnail(i, c), hide |-> FALSE, original |-> 1]
After(i, c, m, f) ==
  f = [n \in 0 .. m |-> IF n = 0 THEN Start(i, c)
                        ELSE Serving!WithProfile(f[n - 1], i, c.profiles[n])]

(* The recursive function is there.                                        *)
LEMMA AfterExists ==
  ASSUME NEW i, NEW c, NEW m \in Nat
  PROVE  \E f : After(i, c, m, f)
<1> DEFINE T == {k \in Nat : \E f : After(i, c, k, f)}
<1>1. 0 \in T
  <2>1. After(i, c, 0, [n \in 0..0 |-> Start(i, c)])
    BY DEF After
  <2> QED BY <2>1
<1>2. ASSUME NEW k \in Nat, k \in T PROVE k + 1 \in T
  <2>1. PICK f : After(i, c, k, f)
    BY <1>2
  <2> DEFINE g == [n \in 0..(k + 1) |-> IF n = k + 1 THEN Serving!WithProfile(f[k], i, c.profiles[n]) ELSE f[n]]
  <2>2. ASSUME NEW n \in 0..(k + 1)
        PROVE  g[n] = IF n = 0 THEN Start(i, c) ELSE Serving!WithProfile(g[n - 1], i, c.profiles[n])
    <3>1. CASE n = k + 1
      BY <3>1
    <3>2. CASE n # k + 1
      <4>1. n \in 0..k /\ g[n] = f[n] /\ (n # 0 => g[n - 1] = f[n - 1])
        BY <3>2
      <4>2. f[n] = IF n = 0 THEN Start(i, c) ELSE Serving!WithProfile(f[n - 1], i, c.profiles[n])
        BY <2>1, <4>1 DEF After
      <4> QED BY <4>1, <4>2
    <3> QED BY <3>1, <3>2
  <2>3. After(i, c, k + 1, g)
    BY <2>2 DEF After
  <2> QED BY <2>3
<1> HIDE DEF T
<1>3. m \in T
  BY <1>1, <1>2, NatSetInduction
<1> QED BY <1>3 DEF T

(* Shown is what all the profiles make.                                    *)
LEMMA ShownIsAfter ==
  ASSUME NEW i, NEW c, Len(c.profiles) \in Nat
  PROVE  \E f : After(i, c, Len(c.profiles), f) /\ Serving!Shown(i, c) = f[Len(c.profiles)]
<1> DEFINE f == CHOOSE f : After(i, c, Len(c.profiles), f)
<1>1. After(i, c, Len(c.profiles), f)
  BY AfterExists
<1>2. Serving!Shown(i, c) = f[Len(c.profiles)]
  BY DEF Serving!Shown, After, Start
<1> QED BY <1>1, <1>2

-----------------------------------------------------------------------------
(* A rendered resource.                                                    *)
AnyResource ==
  [handler : {"default", "libexif", "ffth", "transcode"} \cup Serving!ArtHandlers,
   rct : {None, "aa", "th", "EX_TH"}, rh : BOOLEAN, pr : STRING \cup {None},
   fcc : STRING \cup {None}, sized : BOOLEAN]

Transcoded(r, c) == /\ r.handler = "transcode" /\ ~r.rh
                    /\ \E k \in 1 .. Len(c.profiles) : r.pr = c.profiles[k].name

(* The resources of the database come in their order, under their numbers, *)
(* whatever transcoded ones are between them.                              *)
Numbered(res, base, c) ==
  /\ res \in Seq(AnyResource) /\ Len(res) >= 1
  /\ \A n \in 1 .. Len(res) :
       IF res[n].pr = None
       THEN /\ Serving!RealCount(res, n) \in 0 .. Len(base) - 1
            /\ res[n] = base[Serving!RealCount(res, n) + 1]
       ELSE Transcoded(res[n], c)

(* The numbers of the others stay when a resource comes behind them.       *)
LEMMA AppendKeepsNumbers ==
  ASSUME NEW c, NEW base \in Seq(AnyResource), NEW res, Numbered(res, base, c),
         NEW t \in AnyResource, t.pr # None, Transcoded(t, c)
  PROVE  Numbered(Append(res, t), base, c)
<1> DEFINE new == Append(res, t)
<1>1. res \in Seq(AnyResource) /\ Len(res) \in Nat /\ Len(res) >= 1
  BY DEF Numbered
<1>2. /\ new \in Seq(AnyResource) /\ Len(new) = Len(res) + 1
      /\ new[Len(res) + 1] = t /\ \A n \in 1 .. Len(res) : new[n] = res[n]
  BY <1>1
<1> HIDE DEF new
<1>3. ASSUME NEW n \in 1 .. Len(res)
      PROVE  Serving!RealCount(new, n) = Serving!RealCount(res, n)
  <2>1. {k \in 1 .. n - 1 : new[k].pr = None} = {k \in 1 .. n - 1 : res[k].pr = None}
    BY <1>1, <1>2
  <2> QED
    BY <2>1 DEF Serving!RealCount
<1>4. ASSUME NEW n \in 1 .. Len(new)
      PROVE  IF new[n].pr = None
             THEN /\ Serving!RealCount(new, n) \in 0 .. Len(base) - 1
                  /\ new[n] = base[Serving!RealCount(new, n) + 1]
             ELSE Transcoded(new[n], c)
  <2>1. CASE n \in 1 .. Len(res)
    BY <1>2, <1>3, <2>1 DEF Numbered
  <2>2. CASE n = Len(res) + 1
    BY <1>2, <2>2
  <2> QED
    BY <1>1, <1>2, <2>1, <2>2
<1> QED
  BY <1>1, <1>2, <1>4 DEF Numbered, new

(* They stay as well when it comes to the front, since it does not count.  *)
LEMMA FrontKeepsNumbers ==
  ASSUME NEW c, NEW base \in Seq(AnyResource), NEW res, Numbered(res, base, c),
         NEW t \in AnyResource, t.pr # None, Transcoded(t, c)
  PROVE  Numbered(<< t >> \o res, base, c)
<1> DEFINE new == << t >> \o res
<1>1. res \in Seq(AnyResource) /\ Len(res) \in Nat /\ Len(res) >= 1
  BY DEF Numbered
<1>2. /\ new \in Seq(AnyResource) /\ Len(new) = Len(res) + 1
      /\ new[1] = t /\ \A n \in 1 .. Len(res) : new[n + 1] = res[n]
  BY <1>1
<1> HIDE DEF new
<1>3. ASSUME NEW n \in 1 .. Len(res)
      PROVE  Serving!RealCount(new, n + 1) = Serving!RealCount(res, n)
  <2> DEFINE old == {k \in 1 .. n - 1 : res[k].pr = None}
             shifted == {k \in 1 .. (n + 1) - 1 : new[k].pr = None}
             f == [k \in old |-> k + 1]
  <2>1. \A k \in shifted : k - 1 \in old /\ f[k - 1] = k
    <3> SUFFICES ASSUME NEW k \in shifted PROVE k - 1 \in old /\ f[k - 1] = k
      OBVIOUS
    <3>1. k \in 1 .. n /\ new[k].pr = None
      BY <1>1
    <3>2. k # 1
      BY <1>2, <3>1
    <3>3. k - 1 \in 1 .. n - 1 /\ k - 1 \in 1 .. Len(res) /\ (k - 1) + 1 = k
      BY <1>1, <3>1, <3>2
    <3>4. res[k - 1] = new[k]
      BY <1>2, <3>3
    <3> QED
      BY <3>1, <3>3, <3>4
  <2>2. \A k \in old : f[k] \in shifted
    BY <1>1, <1>2
  <2>3. f \in Bijection(old, shifted)
    <3>1. f \in [old -> shifted]
      BY <2>2
    <3>2. \A a, b \in old : f[a] = f[b] => a = b
      OBVIOUS
    <3>3. \A k \in shifted : \E a \in old : f[a] = k
      BY <2>1
    <3> QED
      BY <3>1, <3>2, <3>3 DEF Bijection, Injection, Surjection, IsInjective
  <2>4. IsFiniteSet(old)
    <3>1. old \subseteq 1 .. n - 1
      OBVIOUS
    <3>2. 1 \in Int /\ n - 1 \in Int
      BY <1>1
    <3>3. IsFiniteSet(1 .. n - 1)
      BY <3>2, FS_Interval
    <3> HIDE DEF old
    <3> QED
      BY <3>1, <3>3, FS_Subset
  <2> HIDE DEF f
  <2>5. Cardinality(old) = Cardinality(shifted)
    <3> HIDE DEF old, shifted
    <3> QED BY <2>3, <2>4, FS_Bijection DEF ExistsBijection
  <2> QED
    BY <2>5, SameCardinality DEF Serving!RealCount
<1>4. ASSUME NEW n \in 1 .. Len(new)
      PROVE  IF new[n].pr = None
             THEN /\ Serving!RealCount(new, n) \in 0 .. Len(base) - 1
                  /\ new[n] = base[Serving!RealCount(new, n) + 1]
             ELSE Transcoded(new[n], c)
  <2>1. CASE n = 1
    BY <1>2, <2>1
  <2>2. CASE n # 1
    <3>1. PICK m \in 1 .. Len(res) : n = m + 1
      <4>1. n - 1 \in 1 .. Len(res) /\ n = (n - 1) + 1
        BY <1>1, <1>2, <2>2
      <4> QED BY <4>1
    <3>2. new[n] = res[m] /\ Serving!RealCount(new, n) = Serving!RealCount(res, m)
      BY <1>2, <1>3, <3>1
    <3> QED
      BY <3>2 DEF Numbered
  <2> QED
    BY <2>1, <2>2
<1> QED
  BY <1>1, <1>2, <1>4 DEF Numbered, new

-----------------------------------------------------------------------------
(* What is rendered: the resources of the item, then the thumbnail.        *)
Base(i, c) == i.res \o Serving!Thumbnail(i, c)

GoodItem(i) == i \in Serving!ItemType /\ Serving!HasPictures(i)
GoodConfig(c) == /\ Len(c.profiles) \in Nat /\ DOMAIN c.profiles = 1 .. Len(c.profiles)
                 /\ \A k \in 1 .. Len(c.profiles) : c.profiles[k].name \in STRING

LEMMA BaseShape ==
  ASSUME NEW i, GoodItem(i), NEW c
  PROVE  /\ Base(i, c) \in Seq(AnyResource) /\ Len(Base(i, c)) >= Len(i.res)
         /\ Len(i.res) \in Nat /\ Len(i.res) >= 1
         /\ \A n \in 1 .. Len(i.res) : Base(i, c)[n] = i.res[n] /\ i.res[n] \in Serving!Resources
         /\ \A n \in 1 .. Len(Base(i, c)) :
              /\ Base(i, c)[n].pr = None
              /\ n > Len(i.res) =>
                   n = Len(i.res) + 1 /\ Base(i, c)[n].handler = "ffth" /\ Base(i, c)[n].rh /\ ~Serving!IsURL(i)
<1> DEFINE th == Serving!Thumbnail(i, c)
           pic == [Serving!Resource("ffth") EXCEPT !.rh = TRUE, !.rct = "th", !.sized = TRUE]
<1>1. i.res \in Seq(Serving!Resources) /\ Len(i.res) \in Nat /\ Len(i.res) >= 1
  BY DEF GoodItem, Serving!ItemType, Serving!HasPictures
<1>2. Serving!Resources \subseteq AnyResource /\ \A r \in Serving!Resources : r.pr = None
  BY DEF Serving!Resources, AnyResource, Serving!ArtHandlers
<1>3. i.res \in Seq(AnyResource) /\ \A n \in 1 .. Len(i.res) : i.res[n] \in Serving!Resources
  <2>1. \A n \in 1 .. Len(i.res) : i.res[n] \in Serving!Resources /\ i.res[n] \in AnyResource
    BY <1>1, <1>2
  <2>2. i.res \in [1 .. Len(i.res) -> AnyResource]
    BY <1>1, <2>1
  <2> QED
    BY <1>1, <2>1, <2>2
<1>4. pic \in AnyResource /\ pic.pr = None /\ pic.handler = "ffth" /\ pic.rh
  BY DEF Serving!Resource, AnyResource, Serving!ArtHandlers
<1>5. th = << >> \/ (th = << pic >> /\ ~Serving!IsURL(i))
  <2>1. th # << >> => i.res[1].sized /\ th = << pic >>
    BY Zenon DEF Serving!Thumbnail
  <2> HIDE DEF pic, th
  <2> QED
    BY <2>1 DEF GoodItem, Serving!HasPictures
<1> HIDE DEF th, pic
<1>6. CASE th = << >>
  <2>1. Base(i, c) = i.res
    BY <1>3, <1>6 DEF Base, th
  <2> QED
    BY <1>1, <1>2, <1>3, <2>1
<1>7. CASE th = << pic >> /\ ~Serving!IsURL(i)
  <2>1. Base(i, c) = i.res \o << pic >>
    BY <1>7 DEF Base, th
  <2>2. /\ Base(i, c) \in Seq(AnyResource) /\ Len(Base(i, c)) = Len(i.res) + 1
        /\ \A n \in 1 .. Len(i.res) : Base(i, c)[n] = i.res[n]
        /\ Base(i, c)[Len(i.res) + 1] = pic
    BY <1>1, <1>3, <1>4, <2>1
  <2>3. \A n \in 1 .. Len(Base(i, c)) : n \in 1 .. Len(i.res) \/ n = Len(i.res) + 1
    BY <1>1, <2>2
  <2> QED
    BY <1>1, <1>2, <1>3, <1>4, <1>7, <2>2, <2>3
<1> QED
  BY <1>5, <1>6, <1>7

(* Before the profiles every resource has its place for a number.          *)
LEMMA StartIsNumbered ==
  ASSUME NEW i, GoodItem(i), NEW c
  PROVE  Numbered(Base(i, c), Base(i, c), c)
<1> DEFINE b == Base(i, c)
<1>1. b \in Seq(AnyResource) /\ Len(b) \in Nat /\ Len(b) >= 1 /\ \A n \in 1 .. Len(b) : b[n].pr = None
  BY BaseShape
<1> HIDE DEF b
<1>2. ASSUME NEW n \in 1 .. Len(b) PROVE Serving!RealCount(b, n) = n - 1
  <2>1. {k \in 1 .. n - 1 : b[k].pr = None} = 1 .. n - 1
    BY <1>1
  <2>2. 1 \in Int /\ n - 1 \in Int /\ n - 1 >= 0
    BY <1>1
  <2>3. Cardinality(1 .. n - 1) = n - 1
    <3>1. Cardinality(1 .. n - 1) = IF 1 > n - 1 THEN 0 ELSE (n - 1) - 1 + 1
      BY <2>2, FS_Interval
    <3> QED
      BY <2>2, <3>1
  <2> QED
    BY <2>1, <2>3, SameCardinality DEF Serving!RealCount
<1>3. ASSUME NEW n \in 1 .. Len(b)
      PROVE  IF b[n].pr = None
             THEN /\ Serving!RealCount(b, n) \in 0 .. Len(b) - 1
                  /\ b[n] = b[Serving!RealCount(b, n) + 1]
             ELSE Transcoded(b[n], c)
  <2>1. n - 1 \in 0 .. Len(b) - 1 /\ (n - 1) + 1 = n
    BY <1>1
  <2> QED
    BY <1>1, <1>2, <2>1
<1> QED
  BY <1>1, <1>3 DEF Numbered, b

(* A profile keeps the numbers.                                            *)
LEMMA ProfileKeepsNumbers ==
  ASSUME NEW c, GoodConfig(c), None \notin STRING, NEW k \in 1 .. Len(c.profiles),
         NEW base \in Seq(AnyResource), NEW i, NEW all, Numbered(all.res, base, c)
  PROVE  Numbered(Serving!WithProfile(all, i, c.profiles[k]).res, base, c)
<1> DEFINE tp == c.profiles[k]
           t == [Serving!Resource("transcode") EXCEPT !.pr = tp.name]
<1>1. tp.name \in STRING /\ tp.name # None
  BY DEF GoodConfig
<1>2. t.pr = tp.name /\ t.handler = "transcode" /\ ~t.rh /\ t \in AnyResource
  BY <1>1 DEF Serving!Resource, AnyResource
<1>3. Transcoded(t, c) /\ t.pr # None
  BY <1>1, <1>2 DEF Transcoded
<1>4. Numbered(Append(all.res, t), base, c) /\ Numbered(<< t >> \o all.res, base, c)
  <2> HIDE DEF t
  <2> QED
    BY <1>2, <1>3, AppendKeepsNumbers, FrontKeepsNumbers
<1>5. \/ Serving!WithProfile(all, i, tp).res = all.res
      \/ Serving!WithProfile(all, i, tp).res = Append(all.res, t)
      \/ Serving!WithProfile(all, i, tp).res = << t >> \o all.res
  BY DEF Serving!WithProfile, Serving!AddTranscoded
<1> HIDE DEF t, tp
<1>6. Numbered(Serving!WithProfile(all, i, tp).res, base, c)
  BY <1>4, <1>5
<1> QED
  BY <1>6 DEF tp

(* Whatever profiles there are, the numbers are those of the database.     *)
LEMMA ShownIsNumbered ==
  ASSUME NEW i, GoodItem(i), NEW c, GoodConfig(c), None \notin STRING
  PROVE  Numbered(Serving!Shown(i, c).res, Base(i, c), c)
<1> DEFINE m == Len(c.profiles)
           b == Base(i, c)
<1>1. m \in Nat /\ b \in Seq(AnyResource)
  BY BaseShape DEF GoodConfig
<1>2. PICK f : After(i, c, m, f) /\ Serving!Shown(i, c) = f[m]
  BY <1>1, ShownIsAfter
<1> DEFINE T == {n \in Nat : n <= m => Numbered(f[n].res, b, c)}
<1>3. 0 \in T
  <2>1. f[0] = Start(i, c)
    BY <1>1, <1>2 DEF After
  <2>2. f[0].res = b
    BY <2>1 DEF Start, Base
  <2> QED
    BY <2>2, StartIsNumbered
<1>4. ASSUME NEW n \in Nat, n \in T PROVE n + 1 \in T
  <2> SUFFICES ASSUME n + 1 <= m PROVE Numbered(f[n + 1].res, b, c)
    OBVIOUS
  <2>1. n + 1 \in 1 .. m /\ n + 1 \in 0 .. m /\ n + 1 # 0 /\ (n + 1) - 1 = n /\ n <= m
    BY <1>1
  <2>2. f[n + 1] = Serving!WithProfile(f[n], i, c.profiles[n + 1])
    BY <1>2, <2>1 DEF After
  <2>3. Numbered(f[n].res, b, c)
    BY <1>4, <2>1
  <2> HIDE DEF b
  <2> QED
    BY <1>1, <2>1, <2>2, <2>3, ProfileKeepsNumbers
<1> HIDE DEF T
<1>5. m \in T
  BY <1>1, <1>3, <1>4, NatSetInduction
<1> QED
  BY <1>1, <1>2, <1>5 DEF T

-----------------------------------------------------------------------------
(* What a link says: a profile, or the number of a resource.               *)
OfProfile(l, i, c) ==
  /\ l.of.pr = l.pr /\ ~l.rh /\ l.ext = "" /\ l.res = Serving!NoResID
  /\ \E k \in 1 .. Len(c.profiles) : l.pr = c.profiles[k].name
  /\ i.kind # "internal" => l.to = IF Serving!IsURL(i) THEN "online" ELSE "media"

OfResource(l, i, c) ==
  \E m \in 0 .. Len(Base(i, c)) - 1 :
    /\ l.of = Base(i, c)[m + 1] /\ l.rh = l.of.rh
    /\ l.to = Serving!UrlBase(i, FALSE).to
    /\ l.res = IF Serving!UrlBase(i, FALSE).addResID THEN m ELSE Serving!Bare
    /\ l.ext = "" \/ (l.ext = i.ext /\ l.of.handler = "default")

Fits(l, i, c) ==
  l.to # "direct" => IF l.pr # None THEN OfProfile(l, i, c) ELSE OfResource(l, i, c)

(* The addresses of resources do.                                          *)
LEMMA AddressFits ==
  ASSUME NEW i, GoodItem(i), NEW c, GoodConfig(c), None \notin STRING,
         NEW n \in 1 .. Len(Serving!Shown(i, c).res)
  PROVE  Fits(Serving!Address(i, Serving!Shown(i, c).res, n), i, c)
<1> DEFINE res == Serving!Shown(i, c).res
           b == Base(i, c)
           l == Serving!Address(i, res, n)
           r == res[n]
           m == Serving!RealCount(res, n)
<1> SUFFICES Fits(l, i, c)
  OBVIOUS
<1>1. IF r.pr = None THEN m \in 0 .. Len(b) - 1 /\ r = b[m + 1] ELSE Transcoded(r, c)
  BY ShownIsNumbered DEF Numbered
<1>2. i.kind \in {"item", "active", "internal", "external"} /\ i.proxy \in BOOLEAN
  BY DEF GoodItem, Serving!ItemType
<1>3. CASE r.pr # None
  <2>1. l = Serving!Link("res", Serving!UrlBase(i, Serving!SkipURL(i)).to, Serving!NoResID, r)
    <3>1. (r.pr # None /\ Serving!SkipURL(i)) = Serving!SkipURL(i)
      BY <1>3 DEF Serving!SkipURL
    <3>2. l = Serving!Link("res", Serving!UrlBase(i, r.pr # None /\ Serving!SkipURL(i)).to,
                           Serving!NoResID, r)
      BY Zenon, <1>3 DEF Serving!Address
    <3> HIDE DEF l, r
    <3> QED
      BY Zenon, <3>1, <3>2
  <2>2. /\ l.pr = r.pr /\ l.of = r /\ l.rh = r.rh /\ l.ext = "" /\ l.res = Serving!NoResID
        /\ l.to = Serving!UrlBase(i, Serving!SkipURL(i)).to
    <3> HIDE DEF l, r
    <3> QED
      BY <2>1 DEF Serving!Link
  <2>3. i.kind # "internal" =>
          Serving!UrlBase(i, Serving!SkipURL(i)).to = IF Serving!IsURL(i) THEN "online" ELSE "media"
    BY <1>2 DEF Serving!UrlBase, Serving!SkipURL, Serving!IsURL
  <2> HIDE DEF l, r
  <2> QED
    BY <1>1, <1>3, <2>2, <2>3 DEF Fits, OfProfile, Transcoded
<1>4. CASE r.pr = None
  <2> DEFINE to == Serving!UrlBase(i, FALSE).to
             id == IF Serving!UrlBase(i, FALSE).addResID THEN m ELSE Serving!Bare
  <2>1. \/ l = Serving!Link("res", "direct", Serving!Bare, r)
        \/ l = [Serving!Link("res", to, id, r) EXCEPT !.ext = Serving!Extension(i, r)]
    BY <1>4 DEF Serving!Address
  <2> HIDE DEF l, r, to, id
  <2>2. CASE l = Serving!Link("res", "direct", Serving!Bare, r)
    BY <2>2 DEF Fits, Serving!Link
  <2>3. CASE l = [Serving!Link("res", to, id, r) EXCEPT !.ext = Serving!Extension(i, r)]
    <3>1. /\ l.pr = r.pr /\ l.of = r /\ l.rh = r.rh /\ l.to = to /\ l.res = id
          /\ l.ext = Serving!Extension(i, r)
      BY <2>3 DEF Serving!Link
    <3>2. Serving!Extension(i, r) = "" \/ (Serving!Extension(i, r) = i.ext /\ r.handler = "default")
      BY DEF Serving!Extension
    <3> QED
      BY <1>1, <1>4, <3>1, <3>2 DEF Fits, OfResource, to, id
  <2> QED
    BY <2>1, <2>2, <2>3
<1> QED
  BY <1>3, <1>4

(* All links do but those of subtitles.                                    *)
LEMMA LinksFit ==
  ASSUME NEW i, GoodItem(i), NEW c, GoodConfig(c), None \notin STRING,
         NEW l \in Serving!UpnpXML_DIDLRenderObject(i, c), l.kind # "caption"
  PROVE  Fits(l, i, c)
<1> DEFINE res == Serving!Shown(i, c).res
<1>1. res \in Seq(AnyResource) /\ DOMAIN res = 1 .. Len(res)
  BY ShownIsNumbered DEF Numbered
<1>2. CASE l \in Serving!addResources(i, c)
  <2>1. PICK n \in DOMAIN res :
          \/ l = Serving!Address(i, res, n)
          \/ l = [Serving!Address(i, res, n) EXCEPT !.kind = "art"]
          \/ l = [Serving!Address(i, res, n) EXCEPT !.kind = "caption", !.ext = "sub"]
    BY <1>2 DEF Serving!addResources
  <2> DEFINE a == Serving!Address(i, res, n)
  <2>2. Fits(a, i, c)
    BY <1>1, AddressFits
  <2>3. DOMAIN a = {"kind", "to", "res", "pr", "rh", "ext", "of"}
    BY DEF Serving!Address, Serving!Link
  <2> HIDE DEF a, res
  <2>4. CASE l = a
    BY <2>2, <2>4
  <2>5. CASE l = [a EXCEPT !.kind = "art"]
    <3>1. /\ l.to = a.to /\ l.res = a.res /\ l.pr = a.pr /\ l.rh = a.rh /\ l.ext = a.ext /\ l.of = a.of
      BY <2>3, <2>5
    <3> QED
      BY <2>2, <3>1 DEF Fits, OfProfile, OfResource
  <2>6. CASE l = [a EXCEPT !.kind = "caption", !.ext = "sub"]
    BY <2>3, <2>6
  <2> QED
    BY <2>1, <2>4, <2>5, <2>6 DEF a
<1>3. CASE l \in Serving!Covers(i)
  <2>1. PICK n \in 2 .. Len(i.res) :
          /\ l = Serving!getArtworkUrl(i, i.res[n]) /\ i.track
          /\ \A j \in 2 .. n - 1 : i.res[j].handler \notin Serving!ArtHandlers
    BY <1>3 DEF Serving!Covers
  <2>2. Len(i.res) \in Nat /\ n \in Nat /\ n >= 2
    BY BaseShape
  <2>3. n = 2
    <3> SUFFICES ASSUME n # 2 PROVE FALSE
      OBVIOUS
    <3>1. 2 \in 2 .. n - 1 /\ 2 \in 2 .. Len(i.res)
      BY <2>2
    <3> QED
      BY <2>1, <3>1 DEF GoodItem, Serving!HasPictures
  <2>4. /\ 2 \in 1 .. Len(i.res) /\ 1 \in 0 .. Len(Base(i, c)) - 1
        /\ Base(i, c)[1 + 1] = i.res[2] /\ i.res[2].pr = None /\ Len(Base(i, c)) \in Nat
    <3>1. /\ Base(i, c) \in Seq(AnyResource) /\ Len(Base(i, c)) >= Len(i.res)
          /\ \A k \in 1 .. Len(i.res) : Base(i, c)[k] = i.res[k] /\ i.res[k] \in Serving!Resources
      BY BaseShape
    <3>2. Len(Base(i, c)) \in Nat /\ 2 \in 1 .. Len(i.res)
      BY <2>1, <2>2, <2>3, <3>1
    <3>3. Base(i, c)[2] = i.res[2] /\ i.res[2] \in Serving!Resources
      BY <3>1, <3>2
    <3>4. i.res[2].pr = None
      BY <3>3 DEF Serving!Resources
    <3> QED
      BY <2>1, <2>2, <3>1, <3>2, <3>3, <3>4
  <2>5. /\ l.pr = None /\ l.of = i.res[2] /\ l.rh = i.res[2].rh /\ l.ext = ""
        /\ l.to = Serving!UrlBase(i, FALSE).to
        /\ l.res = IF Serving!UrlBase(i, FALSE).addResID THEN 1 ELSE Serving!Bare
    BY <2>1, <2>3, <2>4 DEF Serving!getArtworkUrl, Serving!Link
  <2> QED
    BY <2>4, <2>5 DEF Fits, OfResource
<1> QED
  BY <1>2, <1>3 DEF Serving!UpnpXML_DIDLRenderObject

(* Nothing of this depends on where the file is.                           *)
LEMMA MovedFits ==
  ASSUME NEW i, GoodItem(i), NEW j \in Serving!ItemType, NEW x, j = [i EXCEPT !.file = x], NEW c,
         NEW l, Fits(l, i, c)
  PROVE  GoodItem(j) /\ Fits(l, j, c)
<1>1. /\ j.kind = i.kind /\ j.proxy = i.proxy /\ j.video = i.video /\ j.theora = i.theora
      /\ j.track = i.track /\ j.ext = i.ext /\ j.res = i.res
  BY DEF GoodItem, Serving!ItemType
<1>2. Serving!IsURL(j) = Serving!IsURL(i) /\ Serving!UrlBase(j, FALSE) = Serving!UrlBase(i, FALSE)
  BY <1>1 DEF Serving!IsURL, Serving!UrlBase
<1>3. Base(j, c) = Base(i, c)
  BY <1>1 DEF Base, Serving!Thumbnail
<1>4. GoodItem(j)
  BY <1>1, <1>2 DEF GoodItem, Serving!HasPictures
<1> QED
  BY <1>1, <1>2, <1>3, <1>4 DEF Fits, OfProfile, OfResource

-----------------------------------------------------------------------------
(* Such a link of an item whose file is there is served as promised.       *)
LEMMA Served ==
  ASSUME NEW i, GoodItem(i), GoodConfig(ms_config), NEW l, Fits(l, i, ms_config), l.to # "direct",
         i.file \in ms_disk, Serving!Supported(i, l), Serving!Available(i, l),
         i.kind = "internal" => ms_config.serveDir
  PROVE  Serving!open(i, l) = Serving!Promised(i, l) /\ Serving!get_info(i, l) # Serving!Fail
<1>1. i.kind \in {"item", "active", "internal", "external"} /\ i.ext = i.ext
  BY DEF GoodItem, Serving!ItemType
<1>2. CASE l.pr # None
  <2>1. OfProfile(l, i, ms_config) /\ i.kind # "internal"
    BY <1>2 DEF Fits, Serving!Supported
  <2>2. /\ Serving!ProfileNamed(ms_config, l.pr) /\ Serving!Installed(ms_config, l.pr)
    <3>1. PICK k \in 1 .. Len(ms_config.profiles) : l.pr = ms_config.profiles[k].name
      BY <2>1 DEF OfProfile
    <3>2. Serving!Installed(ms_config, l.pr)
      BY <1>2 DEF Serving!Available
    <3>3. Serving!ProfileNamed(ms_config, l.pr)
      BY <3>1 DEF GoodConfig, Serving!ProfileNamed
    <3> QED
      BY <3>2, <3>3
  <2>3. Serving!Transcoder(l.pr) = << "transcode", l.pr >>
    BY <2>2 DEF Serving!Transcoder
  <2>4. Serving!Promised(i, l) = << "transcode", l.pr >> /\ << "transcode", l.pr >> # Serving!Fail
    BY <1>2 DEF Serving!Promised, Serving!Fail
  <2>5. CASE i.kind = "external"
    <3>1. l.to = "online"
      BY <2>1, <2>5 DEF OfProfile, Serving!IsURL
    <3>2. Serving!UrlOpen(i, l) = Serving!Transcoder(l.pr) /\ Serving!UrlInfo(i, l) = << "transcode", l.pr >>
      BY <1>2, <2>2, <2>5 DEF Serving!UrlOpen, Serving!UrlInfo
    <3> QED
      BY <2>3, <2>4, <3>1, <3>2 DEF Serving!open, Serving!get_info
  <2>6. CASE i.kind # "external"
    <3>1. l.to = "media" /\ l.ext = "" /\ l.res = -1
      BY <1>1, <2>1, <2>6 DEF OfProfile, Serving!IsURL, Serving!NoResID
    <3>2. Serving!ResId(l) = -1 /\ Serving!Path(i, l) = i.file /\ ~Serving!FromResource(i, l)
      <4>1. Serving!ResId(l) = -1
        BY <3>1 DEF Serving!ResId
      <4>2. Serving!Path(i, l) = i.file
        BY <3>1 DEF Serving!Path
      <4>3. ~Serving!FromResource(i, l)
        BY <4>1 DEF Serving!FromResource
      <4> QED
        BY <4>1, <4>2, <4>3
    <3>3. Serving!FileOpen(i, l) = Serving!Transcoder(l.pr) /\ Serving!FileInfo(i, l) = << "transcode", l.pr >>
      BY <1>2, <2>2, <3>1, <3>2 DEF Serving!FileOpen, Serving!FileInfo
    <3> QED
      BY <2>3, <2>4, <3>1, <3>3 DEF Serving!open, Serving!get_info
  <2> QED
    BY <2>5, <2>6
<1>3. CASE l.pr = None
  <2> DEFINE b == Base(i, ms_config)
  <2>1. PICK m \in 0 .. Len(b) - 1 :
          /\ l.of = b[m + 1] /\ l.rh = l.of.rh
          /\ l.to = Serving!UrlBase(i, FALSE).to
          /\ l.res = IF Serving!UrlBase(i, FALSE).addResID THEN m ELSE Serving!Bare
          /\ l.ext = "" \/ (l.ext = i.ext /\ l.of.handler = "default")
    BY <1>3 DEF Fits, OfResource
  <2>2. /\ Len(b) \in Nat /\ Len(i.res) \in Nat /\ Len(i.res) >= 1 /\ Len(b) >= Len(i.res)
        /\ \A n \in 1 .. Len(i.res) : b[n] = i.res[n] /\ i.res[n] \in Serving!Resources
        /\ \A n \in 1 .. Len(b) : n > Len(i.res) =>
             n = Len(i.res) + 1 /\ b[n].handler = "ffth" /\ b[n].rh /\ ~Serving!IsURL(i)
    <3>1. b \in Seq(AnyResource)
      BY BaseShape
    <3>2. Len(b) \in Nat
      BY <3>1
    <3> HIDE DEF b
    <3> QED
      BY <3>2, BaseShape DEF b
  <2>3. m \in Nat /\ m + 1 \in 1 .. Len(b)
    BY <2>2
  <2> HIDE DEF b
  <2>4. m + 1 <= Len(i.res) => ~l.rh /\ l.of = i.res[m + 1]
    <3> SUFFICES ASSUME m + 1 <= Len(i.res) PROVE ~l.rh /\ l.of = i.res[m + 1]
      OBVIOUS
    <3>1. m + 1 \in 1 .. Len(i.res)
      BY <2>2, <2>3
    <3> QED
      BY <2>1, <2>2, <3>1 DEF Serving!Resources
  <2>5. CASE m = 0
    <3>1. l.of.handler = "default" /\ ~l.rh
      BY <2>2, <2>4, <2>5 DEF GoodItem, Serving!HasPictures
    <3>2. Serving!Promised(i, l) = IF i.kind = "external" THEN << "url", i.file >> ELSE << "file", i.file >>
      BY <1>3, <3>1 DEF Serving!Promised
    <3>3. << "url", i.file >> # Serving!Fail /\ << "file", i.file >> # Serving!Fail
      BY DEF Serving!Fail
    <3>4. CASE i.kind = "internal"
      <4>1. l.to = "serve" /\ l.res = Serving!Bare
        BY <2>1, <3>4 DEF Serving!UrlBase
      <4>2. Serving!ServeFile(i, l) = << "file", i.file >>
        BY <3>1, <4>1 DEF Serving!ServeFile
      <4> QED
        BY <3>2, <3>3, <3>4, <4>1, <4>2 DEF Serving!open, Serving!get_info
    <3>5. CASE i.kind = "external"
      <4>1. l.to = "online"
        BY <2>1, <3>5 DEF Serving!UrlBase
      <4>2. Serving!UrlOpen(i, l) = << "url", i.file >> /\ Serving!UrlInfo(i, l) = << "url", i.file >>
        BY <1>3, <3>5 DEF Serving!UrlOpen, Serving!UrlInfo
      <4> QED
        BY <3>2, <3>3, <3>5, <4>1, <4>2 DEF Serving!open, Serving!get_info
    <3>6. CASE i.kind \in {"item", "active"}
      <4>1. l.to = "media" /\ l.res = 0
        BY <2>1, <2>5, <3>6 DEF Serving!UrlBase
      <4>2. Serving!ResId(l) = 0 /\ Serving!Path(i, l) = i.file /\ ~Serving!FromResource(i, l)
        <5>1. Serving!ResId(l) = 0
          BY <4>1 DEF Serving!ResId
        <5>2. Serving!Path(i, l) = i.file
          BY <2>1 DEF Serving!Path
        <5>3. ~Serving!FromResource(i, l)
          BY <5>1 DEF Serving!FromResource
        <5> QED
          BY <5>1, <5>2, <5>3
      <4>3. Serving!FileOpen(i, l) = << "file", i.file >> /\ Serving!FileInfo(i, l) = << "file", i.file >>
        BY <1>3, <4>2 DEF Serving!FileOpen, Serving!FileInfo
      <4> QED
        BY <3>2, <3>3, <3>6, <4>1, <4>3 DEF Serving!open, Serving!get_info
    <3> QED
      BY <1>1, <3>4, <3>5, <3>6
  <2>6. CASE m # 0
    <3> DEFINE h == l.of.handler
    <3>1. \/ h \in {"libexif", "id3", "fanart"} /\ m < Len(i.res) /\ h = i.res[m + 1].handler /\ ~l.rh
             /\ (h = "libexif" => i.res[m + 1].rct = "EX_TH")
          \/ h = "ffth" /\ l.rh
      <4>1. CASE m + 1 <= Len(i.res)
        <5>1. m + 1 \in 2 .. Len(i.res) /\ m + 1 \in 1 .. Len(i.res) /\ m < Len(i.res)
          BY <2>2, <2>3, <2>6, <4>1
        <5>2. i.res[m + 1] \in Serving!Resources /\ l.of = i.res[m + 1] /\ ~l.rh
          BY <2>2, <2>4, <5>1
        <5>3. h \in {"default", "libexif"} \cup Serving!ArtHandlers /\ h = i.res[m + 1].handler
          BY <5>2 DEF Serving!Resources
        <5>4. h # "default" /\ (h = "libexif" => i.res[m + 1].rct = "EX_TH")
          BY <5>1, <5>3 DEF GoodItem, Serving!HasPictures
        <5>5. h \in {"libexif", "id3", "fanart"}
          BY <5>3, <5>4 DEF Serving!ArtHandlers, Serving!Supported
        <5> QED
          BY <5>1, <5>2, <5>3, <5>4, <5>5
      <4>2. CASE ~(m + 1 <= Len(i.res))
        <5>1. m + 1 > Len(i.res)
          BY <2>2, <2>3, <4>2
        <5> QED
          BY <2>1, <2>2, <2>3, <5>1
      <4> QED
        BY <4>1, <4>2
    <3>2. ~Serving!IsURL(i)
      <4>1. CASE m + 1 <= Len(i.res)
        <5>1. m + 1 \in 2 .. Len(i.res)
          BY <2>2, <2>3, <2>6, <4>1
        <5> QED
          BY <2>4, <3>1, <4>1, <5>1 DEF GoodItem, Serving!HasPictures
      <4>2. CASE ~(m + 1 <= Len(i.res))
        BY <2>2, <2>3, <4>2
      <4> QED
        BY <4>1, <4>2
    <3>3. l.to = "media" /\ l.res = m /\ l.ext = ""
      BY <1>1, <2>1, <3>1, <3>2 DEF Serving!UrlBase, Serving!IsURL
    <3>4. Serving!ResId(l) = m /\ Serving!Path(i, l) = i.file /\ Serving!FromResource(i, l)
      <4>0. m > 0 /\ m >= 0 /\ l.ext # "sub"
        <5>1. m > 0 /\ m >= 0
          BY <2>3, <2>6
        <5>2. l.ext # "sub"
          BY <3>3
        <5> QED
          BY <5>1, <5>2
      <4>1. Serving!ResId(l) = m /\ m > 0
        BY <3>3, <4>0 DEF Serving!ResId
      <4>2. Serving!Path(i, l) = i.file
        BY <3>3 DEF Serving!Path
      <4>3. Serving!FromResource(i, l)
        BY <3>1, <4>1 DEF Serving!FromResource
      <4> QED
        BY <4>1, <4>2, <4>3
    <3>5. Serving!ResourceContent(i, l) = << "resource", h >>
      <4>1. Serving!ResourceContent(i, l) = Serving!serveContent(h, i, m)
        BY <3>1, <3>4 DEF Serving!ResourceContent
      <4>2. (h = "id3" => "art" \in i.embedded) /\ (h = "fanart" => "folder.jpg" \in ms_disk)
        BY DEF Serving!Available
      <4> HIDE DEF h
      <4> QED
        BY <3>1, <4>1, <4>2 DEF Serving!serveContent
    <3>6. Serving!FileOpen(i, l) = << "resource", h >> /\ Serving!FileInfo(i, l) = << "resource", h >>
      BY <1>3, <2>3, <3>4, <3>5 DEF Serving!FileOpen, Serving!FileInfo
    <3>7. Serving!Promised(i, l) = << "resource", h >> /\ << "resource", h >> # Serving!Fail
      BY <1>3, <3>1 DEF Serving!Promised, Serving!Fail
    <3> HIDE DEF h
    <3> QED
      BY <3>3, <3>6, <3>7 DEF Serving!open, Serving!get_info
  <2> QED
    BY <2>5, <2>6
<1> QED
  BY <1>2, <1>3

-----------------------------------------------------------------------------
(* What a request has found out so far.                                    *)
RequestOK ==
  /\ DOMAIN ms_request = {"link", "stage", "at", "info", "content"}
  /\ \/ ms_request = Serving!Idle
     \/ ms_request.link \in ms_links /\ ms_request.link.to # "direct"
  /\ ms_request.stage \in {"loaded", "run", "open"} => GoodItem(ms_obj)
  /\ ms_request.stage \in {"info", "refused"} => ms_obj = None
  /\ ms_request.stage = "refused" =>
       Serving!get_info(ms_request.at, ms_request.link) = Serving!Fail
  /\ ms_request.stage = "open" =>
       ms_request.content = Serving!open(ms_obj, ms_request.link)

(* Links are those of the item that was rendered; every item is a good one. *)
MediaInv ==
  /\ ms_config \in MediaConfigs /\ GoodItem(ms_item)
  /\ ms_links # {} => /\ GoodItem(ms_shown.item)
                      /\ ms_links = Serving!UpnpXML_DIDLRenderObject(ms_shown.item, ms_config)
  /\ ms_request = Serving!Idle => ms_obj = None
  /\ RequestOK

LEMMA MediaInit == Serving!MediaAssumption /\ Serving!Init => MediaInv
  BY DEF Serving!MediaAssumption, Serving!Init, MediaInv, RequestOK, GoodItem, Serving!Idle

(* The item is a good one wherever it is and whether it was played.        *)
LEMMA GoodItems ==
  ASSUME NEW i, GoodItem(i)
  PROVE  /\ \A f \in MediaFiles : GoodItem([i EXCEPT !.file = f])
         /\ GoodItem([i EXCEPT !.played = TRUE])
<1>1. ASSUME NEW j \in Serving!ItemType, j.res = i.res, j.kind = i.kind, j.track = i.track
      PROVE  GoodItem(j)
  BY <1>1 DEF GoodItem, Serving!HasPictures, Serving!IsURL
<1>2. ASSUME NEW f \in MediaFiles PROVE GoodItem([i EXCEPT !.file = f])
  <2> DEFINE j == [i EXCEPT !.file = f]
  <2>1. j \in Serving!ItemType /\ j.res = i.res /\ j.kind = i.kind /\ j.track = i.track
    BY DEF GoodItem, Serving!ItemType
  <2> HIDE DEF j
  <2>2. GoodItem(j)
    BY <1>1, <2>1
  <2> QED
    BY <2>2 DEF j
<1>3. GoodItem([i EXCEPT !.played = TRUE])
  <2> DEFINE j == [i EXCEPT !.played = TRUE]
  <2>1. j \in Serving!ItemType /\ j.res = i.res /\ j.kind = i.kind /\ j.track = i.track
    BY DEF GoodItem, Serving!ItemType
  <2> HIDE DEF j
  <2>2. GoodItem(j)
    BY <1>1, <2>1
  <2> QED
    BY <2>2 DEF j
<1> QED
  BY <1>2, <1>3

(* What the handlers answer depends on the configuration and the files.    *)
LEMMA AnswersStay ==
  ASSUME UNCHANGED << ms_config, ms_disk >>, NEW i, NEW l
  PROVE  /\ Serving!open(i, l)' = Serving!open(i, l)
         /\ Serving!get_info(i, l)' = Serving!get_info(i, l)
  BY DEF Serving!open, Serving!get_info, Serving!FileOpen, Serving!FileInfo, Serving!UrlOpen,
     Serving!UrlInfo, Serving!ServeFile, Serving!Transcoder, Serving!ProfileNamed, Serving!Installed,
     Serving!ResourceContent, Serving!serveContent, Serving!FromResource, Serving!ResId, Serving!Path

LEMMA MediaStep ==
  ASSUME Serving!MediaAssumption, MediaInv, [Serving!Next]_ms_vars
  PROVE  MediaInv'
<1>1. CASE Serving!Browse
  <2>1. /\ ms_links' = Serving!UpnpXML_DIDLRenderObject(ms_item, ms_config)
        /\ ms_shown' = [item |-> ms_item, disk |-> ms_disk] /\ ms_shown'.item = ms_item
        /\ ms_request = Serving!Idle
        /\ UNCHANGED << ms_config, ms_item, ms_request, ms_obj >>
    BY <1>1 DEF Serving!Browse
  <2>2. PICK i, c : i = ms_item /\ c = ms_config
    OBVIOUS
  <2>3. ms_links' = Serving!UpnpXML_DIDLRenderObject(i, c) /\ ms_shown'.item = i /\ ms_config' = c
    BY <2>1, <2>2
  <2>4. ms_links' = Serving!UpnpXML_DIDLRenderObject(ms_shown'.item, ms_config')
    BY <2>3
  <2>5. RequestOK'
    BY <2>1 DEF MediaInv, RequestOK, Serving!Idle
  <2> QED
    BY <2>1, <2>4, <2>5 DEF MediaInv
<1>2. CASE Serving!Rescan
  BY <1>2, AnswersStay DEF Serving!Rescan, Serving!MediaAssumption, GoodItem, MediaInv, RequestOK
<1>3. CASE Serving!Touch
  BY <1>3 DEF Serving!Touch, Serving!Idle, MediaInv, RequestOK
<1>4. CASE Serving!web_get_info
  <2>1. /\ ms_request = Serving!Idle /\ ms_obj = None
        /\ UNCHANGED << ms_config, ms_disk, ms_item, ms_links, ms_shown, ms_obj >>
    BY <1>4 DEF Serving!web_get_info, MediaInv
  <2>0. PICK i : i = ms_item
    OBVIOUS
  <2>2. PICK l \in ms_links :
          /\ l.to # "direct"
          /\ ms_request' = [link |-> l, stage |-> IF Serving!get_info(i, l) = Serving!Fail THEN "refused" ELSE "info",
                            at |-> i, info |-> Serving!get_info(i, l), content |-> Serving!Fail]
    BY <1>4, <2>0 DEF Serving!web_get_info
  <2>3. /\ ms_request'.link = l /\ ms_request'.at = i /\ ms_request'.stage \in {"refused", "info"}
        /\ DOMAIN ms_request' = {"link", "stage", "at", "info", "content"}
        /\ ms_request'.stage = "refused" => Serving!get_info(i, l) = Serving!Fail
    BY <2>2
  <2>4. ms_request'.stage = "refused" => (Serving!get_info(ms_request.at, ms_request.link) = Serving!Fail)'
    BY <2>0, <2>1, <2>3, AnswersStay
  <2>5. ms_request' # Serving!Idle
    BY <2>3 DEF Serving!Idle
  <2> QED
    BY <2>1, <2>2, <2>3, <2>4, <2>5 DEF MediaInv, RequestOK
<1>5. CASE Serving!web_open
  <2>1. /\ ms_request.stage = "info" /\ ms_request' = [ms_request EXCEPT !.stage = "loaded"] /\ ms_obj' = ms_item
        /\ UNCHANGED << ms_config, ms_item, ms_links, ms_shown >>
    BY <1>5 DEF Serving!web_open
  <2>2. ms_request # Serving!Idle
    BY <2>1 DEF Serving!Idle
  <2>3. /\ ms_request'.link = ms_request.link /\ ms_request'.stage = "loaded"
        /\ DOMAIN ms_request' = {"link", "stage", "at", "info", "content"}
    BY <2>1 DEF MediaInv, RequestOK
  <2>4. ms_request' # Serving!Idle
    BY <2>3 DEF Serving!Idle
  <2> QED
    BY <2>1, <2>2, <2>3, <2>4 DEF MediaInv, RequestOK
<1>6. CASE Serving!RunAction
  <2>1. PICK f \in MediaFiles :
          /\ ms_request.stage = "loaded" /\ ms_request' = [ms_request EXCEPT !.stage = "run"]
          /\ ms_obj' = [ms_obj EXCEPT !.file = f] /\ ms_item' \in {ms_obj', ms_item}
          /\ UNCHANGED << ms_config, ms_links, ms_shown >>
    BY <1>6 DEF Serving!RunAction
  <2>2. ms_request # Serving!Idle /\ GoodItem(ms_obj)
    BY <2>1 DEF Serving!Idle, MediaInv, RequestOK
  <2>3. GoodItem(ms_obj') /\ GoodItem(ms_item')
    <3>1. PICK o : o = ms_obj
      OBVIOUS
    <3>2. GoodItem([o EXCEPT !.file = f])
      BY <2>2, <3>1, GoodItems
    <3> QED
      BY <2>1, <3>1, <3>2 DEF MediaInv
  <2>4. /\ ms_request'.link = ms_request.link /\ ms_request'.stage = "run"
        /\ DOMAIN ms_request' = {"link", "stage", "at", "info", "content"}
    BY <2>1 DEF MediaInv, RequestOK
  <2>5. ms_request' # Serving!Idle
    BY <2>4 DEF Serving!Idle
  <2> QED
    BY <2>1, <2>2, <2>3, <2>4, <2>5 DEF MediaInv, RequestOK
<1>7. CASE Serving!OpenContent
  <2>1. /\ ms_request.stage \in {"loaded", "run"}
        /\ ms_request' = [ms_request EXCEPT !.stage = "open",
                                            !.content = Serving!open(ms_obj, ms_request.link)]
        /\ UNCHANGED << ms_config, ms_disk, ms_item, ms_links, ms_shown, ms_obj >>
    BY <1>7 DEF Serving!OpenContent
  <2>2. ms_request # Serving!Idle /\ GoodItem(ms_obj)
    BY <2>1 DEF Serving!Idle, MediaInv, RequestOK
  <2>3. PICK o, l, x : o = ms_obj /\ l = ms_request.link /\ x = Serving!open(o, l)
    OBVIOUS
  <2>4. /\ ms_request'.link = l /\ ms_request'.stage = "open" /\ ms_request'.content = x
        /\ DOMAIN ms_request' = {"link", "stage", "at", "info", "content"}
    BY <2>1, <2>3 DEF MediaInv, RequestOK
  <2>5. ms_request'.content = Serving!open(ms_obj, ms_request.link)'
    BY <2>1, <2>3, <2>4, AnswersStay
  <2>6. ms_request' # Serving!Idle
    BY <2>4 DEF Serving!Idle
  <2> QED
    BY <2>1, <2>2, <2>3, <2>4, <2>5, <2>6 DEF MediaInv, RequestOK
<1>8. CASE Serving!trigger
  <2>1. /\ ms_request.stage = "open" /\ ms_request' = [ms_request EXCEPT !.stage = "sent"]
        /\ ms_item' \in {[ms_obj EXCEPT !.played = TRUE], ms_item}
        /\ UNCHANGED << ms_config, ms_links, ms_shown, ms_obj >>
    BY <1>8 DEF Serving!trigger
  <2>2. ms_request # Serving!Idle /\ GoodItem(ms_obj)
    BY <2>1 DEF Serving!Idle, MediaInv, RequestOK
  <2>3. GoodItem(ms_item')
    <3>1. PICK o : o = ms_obj
      OBVIOUS
    <3>2. GoodItem([o EXCEPT !.played = TRUE])
      BY <2>2, <3>1, GoodItems
    <3> QED
      BY <2>1, <3>1, <3>2 DEF MediaInv
  <2>4. /\ ms_request'.link = ms_request.link /\ ms_request'.stage = "sent"
        /\ DOMAIN ms_request' = {"link", "stage", "at", "info", "content"}
    BY <2>1 DEF MediaInv, RequestOK
  <2>5. ms_request' # Serving!Idle
    BY <2>4 DEF Serving!Idle
  <2> QED
    BY <2>1, <2>2, <2>3, <2>4, <2>5 DEF MediaInv, RequestOK
<1>9. CASE Serving!Done
  BY <1>9 DEF Serving!Done, Serving!Idle, MediaInv, RequestOK
<1>10. CASE UNCHANGED ms_vars
  BY <1>10, AnswersStay DEF ms_vars, MediaInv, RequestOK
<1> QED
  BY <1>1, <1>2, <1>3, <1>4, <1>5, <1>6, <1>7, <1>8, <1>9, <1>10 DEF Serving!Next

(* A link leads to the resource that it was shown for, for any items, any  *)
(* transcoding profiles, and any requests, scans and scripts in between    *)
(* (cds_resource_manager.cc:300-330 and file_request_handler.cc:475-505).  *)
THEOREM LinksLead == Serving!Spec => []LinksReachTheirResource
<1>1. Serving!MediaAssumption
  BY ServerDataAssumption DEF ServerDataAssumption
<1>2. Serving!Init => MediaInv
  BY <1>1, MediaInit
<1>3. MediaInv /\ [Serving!Next]_ms_vars => MediaInv'
  BY <1>1, MediaStep
<1>4. MediaInv => LinksReachTheirResource
  <2> SUFFICES ASSUME MediaInv, ms_request.stage \in {"open", "refused"}, Serving!AsShown,
                      ms_item.file \in ms_disk, Serving!Supported(ms_item, ms_request.link),
                      Serving!Available(ms_item, ms_request.link),
                      ms_item.kind = "internal" => ms_config.serveDir
               PROVE  /\ ms_request.stage = "open"
                      /\ ms_request.content = Serving!Promised(ms_item, ms_request.link)
    BY DEF LinksReachTheirResource, Serving!LinksReachTheirResource
  <2>1. None \notin STRING /\ None \notin Serving!ItemType /\ GoodConfig(ms_config)
    BY <1>1 DEF Serving!MediaAssumption, MediaInv, GoodConfig
  <2>2. PICK i, l, s, c : i = ms_item /\ l = ms_request.link /\ s = ms_shown.item /\ c = ms_config
    OBVIOUS
  <2>3. /\ l \in ms_links /\ l.to # "direct" /\ GoodItem(i) /\ GoodItem(s)
        /\ ms_links = Serving!UpnpXML_DIDLRenderObject(s, c)
    BY <2>2 DEF MediaInv, RequestOK, Serving!Idle
  <2>4. i = [s EXCEPT !.file = i.file]
    BY <2>2 DEF Serving!AsShown
  <2>5. Fits(l, s, c)
    <3>1. l \in Serving!UpnpXML_DIDLRenderObject(s, c) /\ l.kind # "caption"
      BY <2>2, <2>3 DEF Serving!Supported
    <3> QED
      BY <2>1, <2>2, <2>3, <3>1, LinksFit
  <2>6. Fits(l, i, c)
    BY <2>3, <2>4, <2>5, MovedFits DEF GoodItem
  <2>7. Serving!open(i, l) = Serving!Promised(i, l) /\ Serving!get_info(i, l) # Serving!Fail
    BY <2>1, <2>2, <2>3, <2>6, Served
  <2>8. CASE ms_request.stage = "refused"
    <3>1. ms_obj = None /\ Serving!get_info(ms_request.at, ms_request.link) = Serving!Fail
      BY <2>8 DEF MediaInv, RequestOK
    <3>2. ms_request.at = i
      BY <2>2, <3>1 DEF Serving!AsShown
    <3> QED
      BY <2>2, <2>7, <3>1, <3>2
  <2>9. CASE ms_request.stage = "open"
    <3>1. GoodItem(ms_obj) /\ ms_request.content = Serving!open(ms_obj, ms_request.link)
      BY <2>9 DEF MediaInv, RequestOK
    <3>2. ms_obj # None
      BY <2>1, <3>1 DEF GoodItem
    <3>3. ms_obj = i
      BY <2>2, <3>2 DEF Serving!AsShown
    <3> QED
      BY <2>2, <2>7, <2>9, <3>1, <3>3
  <2> QED
    BY <2>8, <2>9
<1>5. [Serving!Next]_(Serving!vars) => [Serving!Next]_ms_vars
  BY DEF Serving!vars, ms_vars
<1> QED
  BY <1>2, <1>3, <1>4, <1>5, PTL DEF Serving!Spec

(***************************************************************************)
(* The configuration                                                       *)
(***************************************************************************)
(* What the sections of the validation hand on to each other.              *)
IsState(s) == s = [root |-> s.root, options |-> s.options, ok |-> s.ok] /\ s.ok \in BOOLEAN

(* From s to t no option is lost, none but those of O changes, and of the  *)
(* document at most what is empty, relative or at a path of P.             *)
Follows(s, t, O, P) ==
  /\ IsState(t) /\ (t.ok => s.ok)
  /\ DOMAIN s.options \subseteq DOMAIN t.options
  /\ \A o \in DOMAIN s.options : o \notin O => t.options[o] = s.options[o]
  /\ \A p : Config!Text(s.root, p) \notin {"", "relative"}
              => Config!Text(t.root, p) = Config!Text(s.root, p)
  /\ \A p : p \notin P => /\ p \in DOMAIN t.root <=> p \in DOMAIN s.root
                          /\ Config!Text(t.root, p) = Config!Text(s.root, p)

LEMMA FollowsItself ==
  ASSUME NEW s, IsState(s), NEW O, NEW P
  PROVE  Follows(s, s, O, P)
  BY DEF Follows

LEMMA FollowsOn ==
  ASSUME NEW s, NEW t, NEW u, NEW O, NEW P, NEW Q, NEW R,
         Follows(s, t, O, P), Follows(t, u, Q, R)
  PROVE  Follows(s, u, O \cup Q, P \cup R)
<1>1. \A o \in DOMAIN s.options : o \notin O \cup Q => u.options[o] = s.options[o]
  BY DEF Follows
<1>2. \A p : Config!Text(s.root, p) \notin {"", "relative"}
               => Config!Text(u.root, p) = Config!Text(s.root, p)
  BY DEF Follows
<1>3. \A p : p \notin P \cup R => /\ p \in DOMAIN u.root <=> p \in DOMAIN s.root
                                  /\ Config!Text(u.root, p) = Config!Text(s.root, p)
  BY DEF Follows
<1> QED BY <1>1, <1>2, <1>3 DEF Follows

LEMMA FollowsMore ==
  ASSUME NEW s, NEW t, NEW O, NEW P, NEW Q, NEW R, Follows(s, t, O, P),
         O \subseteq Q, P \subseteq R
  PROVE  Follows(s, t, Q, R)
  BY DEF Follows

(* One reading that is accepted leaves a text that fits at its path, and   *)
(* the option says the same.                                               *)
LEMMA ReadFacts ==
  ASSUME NEW s, IsState(s), NEW r
  PROVE  LET t == Config!Read(s, r)
         IN  /\ Follows(s, t, {r.option}, {r.path})
             /\ t.ok => /\ Config!Text(t.root, r.path) \in r.fits \ {"relative"}
                        /\ r.option # "none" =>
                             /\ r.option \in DOMAIN t.options
                             /\ t.options[r.option] = Config!Text(t.root, r.path)
<1> DEFINE text   == Config!Text(s.root, r.path)
           found  == text # "" \/ (r.default = Config!Missing /\ r.path \in DOMAIN s.root)
           value  == Config!Resolved(IF found THEN text ELSE r.default)
           filled == IF found /\ value = text THEN s.root ELSE Config!With(s.root, r.path, value)
           set    == IF r.option = Config!NoOption THEN s.options
                     ELSE Config!With(s.options, r.option, value)
           t      == Config!Read(s, r)
<1>1. CASE ~s.ok
  BY <1>1, FollowsItself DEF Config!Read
<1>2. CASE s.ok /\ ((~found /\ r.default = Config!Missing) \/ value \notin r.fits)
  <2>1. t = [s EXCEPT !.ok = FALSE]
    BY <1>2 DEF Config!Read
  <2>2. IsState(t) /\ t.root = s.root /\ t.options = s.options /\ t.ok = FALSE
    BY <2>1 DEF IsState
  <2> QED BY <2>2, <1>2 DEF Follows
<1>3. CASE s.ok /\ ~((~found /\ r.default = Config!Missing) \/ value \notin r.fits)
  <2>1. t = [s EXCEPT !.root = filled, !.options = set]
    BY <1>3 DEF Config!Read
  <2>2. IsState(t) /\ t.root = filled /\ t.options = set /\ t.ok
    BY <2>1, <1>3 DEF IsState
  <2>3. value # "relative" /\ value \in r.fits
    BY <1>3 DEF Config!Resolved
  <2>4. text \notin {"", "relative"} => value = text
    BY DEF Config!Resolved
  <2>5. Config!Text(filled, r.path) = value
    <3>1. CASE found /\ value = text
      BY <3>1
    <3>2. CASE ~(found /\ value = text)
      BY <3>2 DEF Config!With, Config!Text
    <3> QED BY <3>1, <3>2
  <2>6. \A p : p # r.path => /\ p \in DOMAIN filled <=> p \in DOMAIN s.root
                             /\ Config!Text(filled, p) = Config!Text(s.root, p)
    BY DEF Config!With, Config!Text
  <2>7. /\ DOMAIN s.options \subseteq DOMAIN set
        /\ \A o \in DOMAIN s.options : o # r.option => set[o] = s.options[o]
        /\ r.option # "none" => r.option \in DOMAIN set /\ set[r.option] = value
    BY DEF Config!With, Config!NoOption
  <2> HIDE DEF value, filled, set, found
  <2>8. \A p : Config!Text(s.root, p) \notin {"", "relative"}
              => Config!Text(filled, p) = Config!Text(s.root, p)
    BY <2>4, <2>5, <2>6
  <2>9. Follows(s, t, {r.option}, {r.path})
    BY <2>2, <2>6, <2>7, <2>8, <1>3 DEF Follows
  <2> QED BY <2>2, <2>3, <2>5, <2>7, <2>9
<1> QED BY <1>1, <1>2, <1>3 DEF IsState

-----------------------------------------------------------------------------
(* The first n of the readings, from s to t.                               *)
OptionsOf(reads, n) == {reads[i].option : i \in 1 .. n}
PathsOf(reads, n) == {reads[i].path : i \in 1 .. n}
HasRead(s, t, reads, n) ==
  /\ Follows(s, t, OptionsOf(reads, n), PathsOf(reads, n))
  /\ t.ok => \A i \in 1 .. n :
       /\ reads[i].option # "none" => reads[i].option \in DOMAIN t.options
       /\ "" \notin reads[i].fits =>
            /\ Config!Text(t.root, reads[i].path) \in reads[i].fits \ {"relative"}
            /\ reads[i].option # "none" /\ 
                 (\A j \in 1 .. n : reads[j].option = reads[i].option => j = i)
                 => t.options[reads[i].option] = Config!Text(t.root, reads[i].path)

LEMMA OneMoreRead ==
  ASSUME NEW s, NEW t, NEW reads, NEW n \in Nat, HasRead(s, t, reads, n)
  PROVE  HasRead(s, Config!Read(t, reads[n + 1]), reads, n + 1)
<1> DEFINE r == reads[n + 1]
           u == Config!Read(t, r)
<1>1. IsState(t)
  BY DEF HasRead, Follows
<1>2. /\ Follows(t, u, {r.option}, {r.path})
      /\ u.ok => /\ Config!Text(u.root, r.path) \in r.fits \ {"relative"}
                 /\ r.option # "none" => /\ r.option \in DOMAIN u.options
                                         /\ u.options[r.option] = Config!Text(u.root, r.path)
  BY <1>1, ReadFacts
<1>3. /\ OptionsOf(reads, n + 1) = OptionsOf(reads, n) \cup {r.option}
      /\ PathsOf(reads, n + 1) = PathsOf(reads, n) \cup {r.path}
  <2>1. 1 .. n + 1 = 1 .. n \cup {n + 1}
    OBVIOUS
  <2> QED BY <2>1 DEF OptionsOf, PathsOf
<1>4. Follows(s, u, OptionsOf(reads, n + 1), PathsOf(reads, n + 1))
  <2>1. Follows(s, t, OptionsOf(reads, n), PathsOf(reads, n))
    BY DEF HasRead
  <2>2. Follows(t, u, {r.option}, {r.path})
    BY <1>2
  <2> HIDE DEF u, r
  <2>3. Follows(s, u, OptionsOf(reads, n) \cup {r.option}, PathsOf(reads, n) \cup {r.path})
    BY <2>1, <2>2, FollowsOn
  <2> QED BY <2>3, <1>3
<1>5. ASSUME u.ok, NEW i \in 1 .. n + 1
      PROVE  /\ reads[i].option # "none" => reads[i].option \in DOMAIN u.options
             /\ "" \notin reads[i].fits =>
                  /\ Config!Text(u.root, reads[i].path) \in reads[i].fits \ {"relative"}
                  /\ /\ reads[i].option # "none"
                     /\ \A j \in 1 .. n + 1 : reads[j].option = reads[i].option => j = i
                     => u.options[reads[i].option] = Config!Text(u.root, reads[i].path)
  <2>1. CASE i = n + 1
    BY <1>2, <1>5, <2>1
  <2>2. CASE i \in 1 .. n
    <3>1. t.ok
      BY <1>2, <1>5 DEF Follows
    <3>2. reads[i].option # "none" => reads[i].option \in DOMAIN t.options
      BY <2>2, <3>1 DEF HasRead
    <3>3. reads[i].option # "none" => reads[i].option \in DOMAIN u.options
      BY <1>2, <3>2 DEF Follows
    <3>4. ASSUME "" \notin reads[i].fits
          PROVE  /\ Config!Text(t.root, reads[i].path) \in reads[i].fits \ {"relative"}
                 /\ Config!Text(u.root, reads[i].path) = Config!Text(t.root, reads[i].path)
      <4>1. Config!Text(t.root, reads[i].path) \in reads[i].fits \ {"relative"}
        BY <2>2, <3>1, <3>4 DEF HasRead
      <4>2. Config!Text(t.root, reads[i].path) \notin {"", "relative"}
        BY <4>1, <3>4
      <4> QED BY <1>2, <4>1, <4>2 DEF Follows
    <3>5. ASSUME "" \notin reads[i].fits, reads[i].option # "none",
                 \A j \in 1 .. n + 1 : reads[j].option = reads[i].option => j = i
          PROVE  u.options[reads[i].option] = Config!Text(u.root, reads[i].path)
      <4> DEFINE o(j) == reads[j].option
      <4>0. \A j \in 1 .. n + 1 : o(j) = o(i) => j = i
        BY <3>5
      <4> HIDE DEF o
      <4>1. \A j \in 1 .. n : o(j) = o(i) => j = i
        BY <4>0
      <4>5. o(n + 1) # o(i)
        BY <4>0, <2>2
      <4> USE DEF o
      <4>2. t.options[reads[i].option] = Config!Text(t.root, reads[i].path)
        BY <2>2, <3>1, <3>5, <4>1 DEF HasRead
      <4>3. reads[i].option # r.option
        BY <4>5
      <4>4. u.options[reads[i].option] = t.options[reads[i].option]
        BY <1>2, <3>2, <3>5, <4>3 DEF Follows
      <4> QED BY <3>4, <3>5, <4>2, <4>4
    <3> QED BY <3>3, <3>4, <3>5
  <2>3. i \in 1 .. n \/ i = n + 1
    OBVIOUS
  <2> QED BY <2>1, <2>2, <2>3
<1> HIDE DEF u
<1>6. HasRead(s, u, reads, n + 1)
  BY <1>4, <1>5 DEF HasRead
<1> QED BY <1>6 DEF u

(* The recursive function of AllRead() is there, and ends with all of them. *)
Reads(s, reads, m, f) ==
  f = [n \in 0 .. m |-> IF n = 0 THEN s ELSE Config!Read(f[n - 1], reads[n])]

LEMMA ReadsExist ==
  ASSUME NEW s, NEW reads, NEW m \in Nat
  PROVE  \E f : Reads(s, reads, m, f)
<1> DEFINE T == {k \in Nat : \E f : Reads(s, reads, k, f)}
<1>1. 0 \in T
  <2>1. Reads(s, reads, 0, [n \in 0..0 |-> s])
    BY DEF Reads
  <2> QED BY <2>1
<1>2. ASSUME NEW k \in Nat, k \in T PROVE k + 1 \in T
  <2>1. PICK f : Reads(s, reads, k, f)
    BY <1>2
  <2> DEFINE g == [n \in 0..(k + 1) |-> IF n = k + 1 THEN Config!Read(f[k], reads[n]) ELSE f[n]]
  <2>2. ASSUME NEW n \in 0..(k + 1)
        PROVE  g[n] = IF n = 0 THEN s ELSE Config!Read(g[n - 1], reads[n])
    <3>1. CASE n = k + 1
      BY <3>1
    <3>2. CASE n # k + 1
      <4>1. n \in 0..k /\ g[n] = f[n] /\ (n # 0 => g[n - 1] = f[n - 1])
        BY <3>2
      <4>2. f[n] = IF n = 0 THEN s ELSE Config!Read(f[n - 1], reads[n])
        BY <2>1, <4>1 DEF Reads
      <4> QED BY <4>1, <4>2
    <3> QED BY <3>1, <3>2
  <2>3. Reads(s, reads, k + 1, g)
    BY <2>2 DEF Reads
  <2> QED BY <2>3
<1> HIDE DEF T
<1>3. m \in T
  BY <1>1, <1>2, NatSetInduction
<1> QED BY <1>3 DEF T

LEMMA AllReadFacts ==
  ASSUME NEW s, IsState(s), NEW reads, Len(reads) \in Nat
  PROVE  HasRead(s, Config!AllRead(s, reads), reads, Len(reads))
<1> DEFINE m == Len(reads)
           f == CHOOSE f : Reads(s, reads, m, f)
           T == {n \in Nat : n <= m => HasRead(s, f[n], reads, n)}
<1>1. Reads(s, reads, m, f)
  BY ReadsExist
<1>2. Config!AllRead(s, reads) = f[m]
  BY DEF Config!AllRead, Reads
<1> HIDE DEF f
<1>3. 0 \in T
  <2>1. f[0] = s
    BY <1>1 DEF Reads
  <2>2. Follows(s, s, OptionsOf(reads, 0), PathsOf(reads, 0))
    BY FollowsItself
  <2>3. HasRead(s, s, reads, 0)
    BY <2>2 DEF HasRead
  <2> QED BY <2>1, <2>3
<1>4. ASSUME NEW n \in Nat, n \in T PROVE n + 1 \in T
  <2> SUFFICES ASSUME n + 1 <= m PROVE HasRead(s, f[n + 1], reads, n + 1)
    OBVIOUS
  <2>1. HasRead(s, f[n], reads, n)
    BY <1>4
  <2>2. f[n + 1] = Config!Read(f[n], reads[n + 1])
    BY <1>1 DEF Reads
  <2> QED BY <2>1, <2>2, OneMoreRead
<1> HIDE DEF T
<1>5. m \in T
  BY <1>3, <1>4, NatSetInduction
<1> QED BY <1>2, <1>5 DEF T


-----------------------------------------------------------------------------
(* What a section adds when it is done with the document.                  *)
Adding(s, more) == [s EXCEPT !.options = Config!Then(more, @)]
Refusing(s) == [s EXCEPT !.ok = FALSE]

LEMMA AddedFacts ==
  ASSUME NEW s, IsState(s), NEW more
  PROVE  LET t == Adding(s, more)
         IN  /\ Follows(s, t, DOMAIN more, {})
             /\ t.root = s.root /\ t.ok = s.ok
             /\ DOMAIN more \subseteq DOMAIN t.options
             /\ \A o \in DOMAIN more : t.options[o] = more[o]
<1> DEFINE t == Adding(s, more)
           set == Config!Then(more, s.options)
<1>1. /\ IsState(t) /\ t.root = s.root /\ t.ok = s.ok
      /\ t.options = set
  BY DEF IsState, Adding
<1>2. /\ DOMAIN set = DOMAIN more \cup DOMAIN s.options
      /\ \A o \in DOMAIN more : set[o] = more[o]
      /\ \A o \in DOMAIN s.options : o \notin DOMAIN more => set[o] = s.options[o]
  BY DEF Config!Then
<1> HIDE DEF t, set
<1>3. Follows(s, t, DOMAIN more, {})
  BY <1>1, <1>2 DEF Follows
<1> QED BY <1>1, <1>2, <1>3 DEF t

LEMMA RefusedFacts ==
  ASSUME NEW s, IsState(s)
  PROVE  LET t == Refusing(s) IN IsState(t) /\ ~t.ok
<1> SUFFICES ASSUME NEW t, t = [s EXCEPT !.ok = FALSE] PROVE IsState(t) /\ ~t.ok
  BY DEF Refusing
<1> QED BY DEF IsState

(* The options whose values readers ask for before they read others.       *)
Conditions == {"STORAGE_DRIVER", "AUTOSCAN_USE_INOTIFY", "TRANSCODING_PROFILE_LIST",
               "THUMBNAILER_ENABLED", "MARK_PLAYED_ENABLED", "LASTFM_ENABLED"}

(* A section that accepts keeps the options there are, and changes no      *)
(* condition but those of own.                                             *)
Keeps(s, t, own) ==
  /\ s.ok /\ DOMAIN s.options \subseteq DOMAIN t.options
  /\ \A c \in Conditions \ own : c \in DOMAIN s.options => t.options[c] = s.options[c]

LEMMA FollowsKeeps ==
  ASSUME NEW s, NEW t, NEW O, NEW P, Follows(s, t, O, P), t.ok,
         NEW own, O \cap Conditions \subseteq own
  PROVE  Keeps(s, t, own)
  BY DEF Follows, Keeps

(* All the readings of a section.                                          *)
LEMMA SectionReads ==
  ASSUME NEW s, IsState(s), NEW reads, NEW n \in Nat, Len(reads) = n,
         NEW names, OptionsOf(reads, n) = names
  PROVE  LET t == Config!AllRead(s, reads)
         IN  /\ IsState(t) /\ HasRead(s, t, reads, n)
             /\ Follows(s, t, names, PathsOf(reads, n))
             /\ t.ok => names \ {"none"} \subseteq DOMAIN t.options
<1> DEFINE t == Config!AllRead(s, reads)
<1>1. HasRead(s, t, reads, n)
  BY AllReadFacts
<1> HIDE DEF t
<1>2. Follows(s, t, names, PathsOf(reads, n)) /\ IsState(t)
  BY <1>1 DEF HasRead, Follows
<1>3. ASSUME t.ok, NEW o \in names, o # "none" PROVE o \in DOMAIN t.options
  <2>1. PICK i \in 1 .. n : reads[i].option = o
    BY <1>3 DEF OptionsOf
  <2> QED BY <1>1, <1>3, <2>1 DEF HasRead
<1> QED BY <1>1, <1>2, <1>3 DEF t

(* The readings that happen under a condition.                             *)
LEMMA IfReads ==
  ASSUME NEW s, IsState(s), NEW reads, NEW n \in Nat, Len(reads) = n,
         NEW names, OptionsOf(reads, n) = names, NEW path, NEW text
  PROVE  LET t == Config!ReadIf(path, text, s, reads)
         IN  /\ IsState(t) /\ Follows(s, t, names, PathsOf(reads, n))
             /\ t.ok /\ Config!Text(s.root, path) = text =>
                  names \ {"none"} \subseteq DOMAIN t.options
<1>1. CASE Config!Text(s.root, path) = text
  BY <1>1, SectionReads DEF Config!ReadIf
<1>2. CASE Config!Text(s.root, path) # text
  BY <1>2, FollowsItself DEF Config!ReadIf
<1> QED BY <1>1, <1>2

(* The end of a section that has come from s to u.                         *)
Finished(u, more, t) == (t = Adding(u, more) /\ u.ok) \/ t = Refusing(u)
Outcome(s, u, O, P, more, t) ==
  /\ IsState(t)
  /\ t.ok => /\ u.ok /\ t = Adding(u, more) /\ t.root = u.root
             /\ Follows(s, t, O \cup DOMAIN more, P)
             /\ DOMAIN u.options \cup DOMAIN more \subseteq DOMAIN t.options
             /\ \A o \in DOMAIN more : t.options[o] = more[o]
             /\ \A o \in DOMAIN u.options \ DOMAIN more : t.options[o] = u.options[o]

LEMMA FinishedOutcome ==
  ASSUME NEW s, NEW u, NEW O, NEW P, Follows(s, u, O, P), NEW more, NEW t, Finished(u, more, t)
  PROVE  Outcome(s, u, O, P, more, t)
<1>1. IsState(u)
  BY DEF Follows
<1>2. CASE t = Adding(u, more) /\ u.ok
  <2>1. /\ Follows(u, t, DOMAIN more, {})
        /\ t.root = u.root /\ t.ok = u.ok
        /\ DOMAIN more \subseteq DOMAIN t.options
        /\ \A o \in DOMAIN more : t.options[o] = more[o]
    <3>1. LET v == Adding(u, more)
          IN  /\ Follows(u, v, DOMAIN more, {})
              /\ v.root = u.root /\ v.ok = u.ok
              /\ DOMAIN more \subseteq DOMAIN v.options
              /\ \A o \in DOMAIN more : v.options[o] = more[o]
      BY <1>1, AddedFacts
    <3> QED BY <3>1, <1>2
  <2>2. Follows(s, t, O \cup DOMAIN more, P \cup {})
    BY <2>1, FollowsOn
  <2>3. P \cup {} = P
    OBVIOUS
  <2>4. /\ IsState(t) /\ DOMAIN u.options \subseteq DOMAIN t.options
        /\ \A o \in DOMAIN u.options \ DOMAIN more : t.options[o] = u.options[o]
    BY <2>1 DEF Follows
  <2> QED BY <1>2, <2>1, <2>2, <2>3, <2>4 DEF Outcome
<1>3. CASE t = Refusing(u)
  <2>1. IsState(t) /\ ~t.ok
    BY <1>1, <1>3, RefusedFacts
  <2> QED BY <2>1 DEF Outcome
<1> QED BY <1>2, <1>3 DEF Finished

(* A section of readings that all happen.                                  *)
PlainOutcome(s, names, more, t, own) ==
  /\ IsState(t)
  /\ t.ok => Keeps(s, t, own) /\ names \cup DOMAIN more \subseteq DOMAIN t.options

LEMMA PlainSection ==
  ASSUME NEW s, IsState(s), NEW reads, NEW n \in Nat, Len(reads) = n,
         NEW names, OptionsOf(reads, n) = names, "none" \notin names,
         NEW more, NEW t, Finished(Config!AllRead(s, reads), more, t),
         NEW own, (names \cup DOMAIN more) \cap Conditions \subseteq own
  PROVE  PlainOutcome(s, names, more, t, own)
<1> DEFINE u == Config!AllRead(s, reads)
<1>1. /\ IsState(u) /\ Follows(s, u, names, PathsOf(reads, n))
      /\ u.ok => names \subseteq DOMAIN u.options
  BY SectionReads
<1>2. Outcome(s, u, names, PathsOf(reads, n), more, t)
  BY <1>1, FinishedOutcome
<1> HIDE DEF u
<1>3. ASSUME t.ok PROVE Keeps(s, t, own) /\ names \cup DOMAIN more \subseteq DOMAIN t.options
  <2>1. /\ u.ok /\ Follows(s, t, names \cup DOMAIN more, PathsOf(reads, n))
        /\ DOMAIN u.options \cup DOMAIN more \subseteq DOMAIN t.options
    BY <1>2, <1>3 DEF Outcome
  <2>2. Keeps(s, t, own)
    BY <1>3, <2>1, FollowsKeeps
  <2> QED BY <1>1, <2>1, <2>2
<1> QED BY <1>2, <1>3 DEF Outcome, PlainOutcome

-----------------------------------------------------------------------------
(* Section by section: which options its readings set, and that it keeps   *)
(* what was set before.                                                    *)
LEMMA ServerOptionsAre ==
  Len(Config!ServerOptions) = 5 /\ OptionsOf(Config!ServerOptions, 5) =
    {"SERVER_HOME", "SERVER_WEBROOT", "SERVER_TMPDIR", "SERVER_SERVEDIR",
     "SERVER_UDN"}
<1>1. /\ Len(Config!ServerOptions) = 5
      /\ Config!ServerOptions[1].option = "SERVER_HOME"
      /\ Config!ServerOptions[2].option = "SERVER_WEBROOT"
      /\ Config!ServerOptions[3].option = "SERVER_TMPDIR"
      /\ Config!ServerOptions[4].option = "SERVER_SERVEDIR"
      /\ Config!ServerOptions[5].option = "SERVER_UDN"
  BY DEF Config!ServerOptions, Config!Option
<1>2. 1 .. 5 = {1, 2, 3, 4, 5}
  OBVIOUS
<1> QED BY <1>1, <1>2 DEF OptionsOf

ServerDone(o) ==
  {"SERVER_HOME", "SERVER_WEBROOT", "SERVER_TMPDIR", "SERVER_SERVEDIR",
   "SERVER_UDN"} \subseteq DOMAIN o
LEMMA ServerSets ==
  ASSUME NEW s, IsState(s)
  PROVE  LET t == Config!CheckedServer(s)
         IN  IsState(t) /\ (t.ok => Keeps(s, t, {}) /\ ServerDone(t.options))
<1> DEFINE reads == Config!ServerOptions
           names == OptionsOf(reads, 5)
           u == Config!AllRead(s, reads)
           more == Config!NoMore(u.root)
           t == Config!CheckedServer(s)
<1>1. Len(reads) = 5 /\ 5 \in Nat /\ "none" \notin names
  BY ServerOptionsAre
<1>2. Finished(u, more, t)
  BY DEF Finished, Adding, Refusing, Config!CheckedServer, Config!Checked
<1>3. DOMAIN more = {}
  BY DEF Config!NoMore, Config!Nothing
<1>4. (names \cup DOMAIN more) \cap Conditions \subseteq {}
  BY <1>3, ServerOptionsAre DEF Conditions
<1>5. \A o : names \cup DOMAIN more \subseteq DOMAIN o => ServerDone(o)
  BY <1>3, ServerOptionsAre DEF ServerDone
<1> HIDE DEF reads, names, u, more, t
<1>6. PlainOutcome(s, names, more, t, {})
  BY <1>1, <1>2, <1>4, PlainSection DEF names, u
<1> QED BY <1>5, <1>6 DEF t, PlainOutcome

LEMMA UIOptionsAre ==
  Len(Config!UIOptions) = 7 /\ OptionsOf(Config!UIOptions, 7) =
    {"UI_ENABLED", "UI_SHOW_TOOLTIPS", "UI_POLL_WHEN_IDLE",
     "UI_POLL_INTERVAL", "UI_DEFAULT_ITEMS_PER_PAGE",
     "UI_ACCOUNTS_ENABLED", "UI_SESSION_TIMEOUT"}
<1>1. /\ Len(Config!UIOptions) = 7
      /\ Config!UIOptions[1].option = "UI_ENABLED"
      /\ Config!UIOptions[2].option = "UI_SHOW_TOOLTIPS"
      /\ Config!UIOptions[3].option = "UI_POLL_WHEN_IDLE"
      /\ Config!UIOptions[4].option = "UI_POLL_INTERVAL"
      /\ Config!UIOptions[5].option = "UI_DEFAULT_ITEMS_PER_PAGE"
      /\ Config!UIOptions[6].option = "UI_ACCOUNTS_ENABLED"
      /\ Config!UIOptions[7].option = "UI_SESSION_TIMEOUT"
  BY DEF Config!UIOptions, Config!Option
<1>2. 1 .. 7 = {1, 2, 3, 4, 5, 6, 7}
  OBVIOUS
<1> QED BY <1>1, <1>2 DEF OptionsOf

UIDone(o) ==
  {"UI_ENABLED", "UI_POLL_INTERVAL", "UI_DEFAULT_ITEMS_PER_PAGE",
   "UI_ITEMS_PER_PAGE_DROPDOWN", "UI_ACCOUNT_LIST", "UI_SESSION_TIMEOUT"} \subseteq DOMAIN o
LEMMA UISets ==
  ASSUME NEW s, IsState(s)
  PROVE  LET t == Config!CheckedUI(s)
         IN  IsState(t) /\ (t.ok => Keeps(s, t, {}) /\ UIDone(t.options))
<1> DEFINE reads == Config!UIOptions
           names == OptionsOf(reads, 7)
           u == Config!AllRead(s, reads)
           more == Config!Menu(u.root)
           t == Config!CheckedUI(s)
<1>1. Len(reads) = 7 /\ 7 \in Nat /\ "none" \notin names
  BY UIOptionsAre
<1>2. Finished(u, more, t)
  BY DEF Finished, Adding, Refusing, Config!CheckedUI, Config!Checked
<1>3. DOMAIN more = {"UI_ITEMS_PER_PAGE_DROPDOWN", "UI_ACCOUNT_LIST"}
  BY DEF Config!Menu
<1>4. (names \cup DOMAIN more) \cap Conditions \subseteq {}
  BY <1>3, UIOptionsAre DEF Conditions
<1>5. \A o : names \cup DOMAIN more \subseteq DOMAIN o => UIDone(o)
  BY <1>3, UIOptionsAre DEF UIDone
<1> HIDE DEF reads, names, u, more, t
<1>6. PlainOutcome(s, names, more, t, {})
  BY <1>1, <1>2, <1>4, PlainSection DEF names, u
<1> QED BY <1>5, <1>6 DEF t, PlainOutcome

LEMMA ImportOptionsAre ==
  Len(Config!ImportOptions) = 6 /\ OptionsOf(Config!ImportOptions, 6) =
    {"HIDDEN_FILES", "IGNORE_UNKNOWN_EXTENSIONS",
     "EXTENSION_TO_MIMETYPE_CASE_SENSITIVE", "FILESYSTEM_CHARSET",
     "METADATA_CHARSET", "PLAYLIST_CHARSET"}
<1>1. /\ Len(Config!ImportOptions) = 6
      /\ Config!ImportOptions[1].option = "HIDDEN_FILES"
      /\ Config!ImportOptions[2].option = "IGNORE_UNKNOWN_EXTENSIONS"
      /\ Config!ImportOptions[3].option = "EXTENSION_TO_MIMETYPE_CASE_SENSITIVE"
      /\ Config!ImportOptions[4].option = "FILESYSTEM_CHARSET"
      /\ Config!ImportOptions[5].option = "METADATA_CHARSET"
      /\ Config!ImportOptions[6].option = "PLAYLIST_CHARSET"
  BY DEF Config!ImportOptions, Config!Option
<1>2. 1 .. 6 = {1, 2, 3, 4, 5, 6}
  OBVIOUS
<1> QED BY <1>1, <1>2 DEF OptionsOf

ImportDone(o) ==
  {"EXTENSION_TO_MIMETYPE_LIST", "MIMETYPE_TO_CONTENTTYPE_LIST"} \subseteq DOMAIN o
LEMMA ImportSets ==
  ASSUME NEW s, IsState(s)
  PROVE  LET t == Config!CheckedImport(s)
         IN  IsState(t) /\ (t.ok => Keeps(s, t, {}) /\ ImportDone(t.options))
<1> DEFINE reads == Config!ImportOptions
           names == OptionsOf(reads, 6)
           u == Config!AllRead(s, reads)
           more == Config!MappingLists(u.root)
           t == Config!CheckedImport(s)
<1>1. Len(reads) = 6 /\ 6 \in Nat /\ "none" \notin names
  BY ImportOptionsAre
<1>2. Finished(u, more, t)
  BY DEF Finished, Adding, Refusing, Config!CheckedImport, Config!Checked
<1>3. DOMAIN more = {"EXTENSION_TO_MIMETYPE_LIST", "MIMETYPE_TO_CONTENTTYPE_LIST"}
  BY DEF Config!MappingLists
<1>4. (names \cup DOMAIN more) \cap Conditions \subseteq {}
  BY <1>3, ImportOptionsAre DEF Conditions
<1>5. \A o : names \cup DOMAIN more \subseteq DOMAIN o => ImportDone(o)
  BY <1>3, ImportOptionsAre DEF ImportDone
<1> HIDE DEF reads, names, u, more, t
<1>6. PlainOutcome(s, names, more, t, {})
  BY <1>1, <1>2, <1>4, PlainSection DEF names, u
<1> QED BY <1>5, <1>6 DEF t, PlainOutcome

LEMMA NetworkOptionsAre ==
  Len(Config!NetworkOptions) = 10 /\ OptionsOf(Config!NetworkOptions, 10) =
    {"EXTEND_PROTOCOLINFO", "EXTEND_PROTOCOLINFO_SM_HACK",
     "HIDE_PC_DIRECTORY", "NETWORK_INTERFACE", "SERVER_IP",
     "BOOKMARK_FILE", "SERVER_NAME", "PRESENTATION_URL",
     "APPEND_PRESENTATION_URL_TO", "UPNP_TITLE_AND_DESC_STRING_LIMIT"}
<1>1. /\ Len(Config!NetworkOptions) = 10
      /\ Config!NetworkOptions[1].option = "EXTEND_PROTOCOLINFO"
      /\ Config!NetworkOptions[2].option = "EXTEND_PROTOCOLINFO_SM_HACK"
      /\ Config!NetworkOptions[3].option = "HIDE_PC_DIRECTORY"
      /\ Config!NetworkOptions[4].option = "NETWORK_INTERFACE"
      /\ Config!NetworkOptions[5].option = "SERVER_IP"
      /\ Config!NetworkOptions[6].option = "BOOKMARK_FILE"
      /\ Config!NetworkOptions[7].option = "SERVER_NAME"
      /\ Config!NetworkOptions[8].option = "PRESENTATION_URL"
      /\ Config!NetworkOptions[9].option = "APPEND_PRESENTATION_URL_TO"
      /\ Config!NetworkOptions[10].option = "UPNP_TITLE_AND_DESC_STRING_LIMIT"
  BY DEF Config!NetworkOptions, Config!Option
<1>2. 1 .. 10 = {1, 2, 3, 4, 5, 6, 7, 8, 9, 10}
  OBVIOUS
<1> QED BY <1>1, <1>2 DEF OptionsOf

LEMMA NetworkSets ==
  ASSUME NEW s, IsState(s)
  PROVE  LET t == Config!CheckedNetwork(s)
         IN  IsState(t) /\ (t.ok => Keeps(s, t, {}))
<1> DEFINE reads == Config!NetworkOptions
           names == OptionsOf(reads, 10)
           u == Config!AllRead(s, reads)
           more == Config!NoMore(u.root)
           t == Config!CheckedNetwork(s)
<1>1. Len(reads) = 10 /\ 10 \in Nat /\ "none" \notin names
  BY NetworkOptionsAre
<1>2. Finished(u, more, t)
  BY DEF Finished, Adding, Refusing, Config!CheckedNetwork, Config!Checked
<1>3. DOMAIN more = {}
  BY DEF Config!NoMore, Config!Nothing
<1>4. (names \cup DOMAIN more) \cap Conditions \subseteq {}
  BY <1>3, NetworkOptionsAre DEF Conditions
<1> HIDE DEF reads, names, u, more, t
<1>6. PlainOutcome(s, names, more, t, {})
  BY <1>1, <1>2, <1>4, PlainSection DEF names, u
<1> QED BY <1>6 DEF t, PlainOutcome

LEMMA AliveOptionsAre ==
  Len(Config!AliveOptions) = 2 /\ OptionsOf(Config!AliveOptions, 2) =
    {"SERVER_PORT", "ALIVE_INTERVAL"}
<1>1. /\ Len(Config!AliveOptions) = 2
      /\ Config!AliveOptions[1].option = "SERVER_PORT"
      /\ Config!AliveOptions[2].option = "ALIVE_INTERVAL"
  BY DEF Config!AliveOptions, Config!Option
<1>2. 1 .. 2 = {1, 2}
  OBVIOUS
<1> QED BY <1>1, <1>2 DEF OptionsOf

AliveDone(o) ==
  {"MIMETYPE_TO_UPNP_CLASS_LIST"} \subseteq DOMAIN o
LEMMA AliveSets ==
  ASSUME NEW s, IsState(s)
  PROVE  LET t == Config!CheckedAlive(s)
         IN  IsState(t) /\ (t.ok => Keeps(s, t, {}) /\ AliveDone(t.options))
<1> DEFINE reads == Config!AliveOptions
           names == OptionsOf(reads, 2)
           u == Config!AllRead(s, reads)
           more == Config!ClassList(u.root)
           t == Config!CheckedAlive(s)
<1>1. Len(reads) = 2 /\ 2 \in Nat /\ "none" \notin names
  BY AliveOptionsAre
<1>2. Finished(u, more, t)
  BY DEF Finished, Adding, Refusing, Config!CheckedAlive, Config!Checked
<1>3. DOMAIN more = {"MIMETYPE_TO_UPNP_CLASS_LIST"}
  BY DEF Config!ClassList
<1>4. (names \cup DOMAIN more) \cap Conditions \subseteq {}
  BY <1>3, AliveOptionsAre DEF Conditions
<1>5. \A o : names \cup DOMAIN more \subseteq DOMAIN o => AliveDone(o)
  BY <1>3, AliveOptionsAre DEF AliveDone
<1> HIDE DEF reads, names, u, more, t
<1>6. PlainOutcome(s, names, more, t, {})
  BY <1>1, <1>2, <1>4, PlainSection DEF names, u
<1> QED BY <1>5, <1>6 DEF t, PlainOutcome

LEMMA YouTubeOptionsAre ==
  Len(Config!YouTubeOptions) = 7 /\ OptionsOf(Config!YouTubeOptions, 7) =
    {"YOUTUBE_ENABLED", "YOUTUBE_RACY", "YOUTUBE_FORMAT_MP4",
     "YOUTUBE_PREFER_HD", "YOUTUBE_REFRESH", "YOUTUBE_PURGE_AFTER",
     "YOUTUBE_UPDATE_AT_START"}
<1>1. /\ Len(Config!YouTubeOptions) = 7
      /\ Config!YouTubeOptions[1].option = "YOUTUBE_ENABLED"
      /\ Config!YouTubeOptions[2].option = "YOUTUBE_RACY"
      /\ Config!YouTubeOptions[3].option = "YOUTUBE_FORMAT_MP4"
      /\ Config!YouTubeOptions[4].option = "YOUTUBE_PREFER_HD"
      /\ Config!YouTubeOptions[5].option = "YOUTUBE_REFRESH"
      /\ Config!YouTubeOptions[6].option = "YOUTUBE_PURGE_AFTER"
      /\ Config!YouTubeOptions[7].option = "YOUTUBE_UPDATE_AT_START"
  BY DEF Config!YouTubeOptions, Config!Option
<1>2. 1 .. 7 = {1, 2, 3, 4, 5, 6, 7}
  OBVIOUS
<1> QED BY <1>1, <1>2 DEF OptionsOf

YouTubeDone(o) ==
  {"YOUTUBE_TASK_LIST"} \subseteq DOMAIN o
LEMMA YouTubeSets ==
  ASSUME NEW s, IsState(s)
  PROVE  LET t == Config!CheckedYouTube(s)
         IN  IsState(t) /\ (t.ok => Keeps(s, t, {}) /\ YouTubeDone(t.options))
<1> DEFINE reads == Config!YouTubeOptions
           names == OptionsOf(reads, 7)
           u == Config!AllRead(s, reads)
           more == Config!TaskList(u.root)
           t == Config!CheckedYouTube(s)
<1>1. Len(reads) = 7 /\ 7 \in Nat /\ "none" \notin names
  BY YouTubeOptionsAre
<1>2. Finished(u, more, t)
  BY DEF Finished, Adding, Refusing, Config!CheckedYouTube, Config!Checked
<1>3. DOMAIN more = {"YOUTUBE_TASK_LIST"}
  BY DEF Config!TaskList
<1>4. (names \cup DOMAIN more) \cap Conditions \subseteq {}
  BY <1>3, YouTubeOptionsAre DEF Conditions
<1>5. \A o : names \cup DOMAIN more \subseteq DOMAIN o => YouTubeDone(o)
  BY <1>3, YouTubeOptionsAre DEF YouTubeDone
<1> HIDE DEF reads, names, u, more, t
<1>6. PlainOutcome(s, names, more, t, {})
  BY <1>1, <1>2, <1>4, PlainSection DEF names, u
<1> QED BY <1>5, <1>6 DEF t, PlainOutcome

LEMMA ServicesOptionsAre ==
  Len(Config!ServicesOptions) = 8 /\ OptionsOf(Config!ServicesOptions, 8) =
    {"SOPCAST_ENABLED", "SOPCAST_REFRESH", "SOPCAST_PURGE_AFTER",
     "SOPCAST_UPDATE_AT_START", "ATRAILERS_ENABLED", "ATRAILERS_REFRESH",
     "ATRAILERS_UPDATE_AT_START", "ATRAILERS_RESOLUTION"}
<1>1. /\ Len(Config!ServicesOptions) = 8
      /\ Config!ServicesOptions[1].option = "SOPCAST_ENABLED"
      /\ Config!ServicesOptions[2].option = "SOPCAST_REFRESH"
      /\ Config!ServicesOptions[3].option = "SOPCAST_PURGE_AFTER"
      /\ Config!ServicesOptions[4].option = "SOPCAST_UPDATE_AT_START"
      /\ Config!ServicesOptions[5].option = "ATRAILERS_ENABLED"
      /\ Config!ServicesOptions[6].option = "ATRAILERS_REFRESH"
      /\ Config!ServicesOptions[7].option = "ATRAILERS_UPDATE_AT_START"
      /\ Config!ServicesOptions[8].option = "ATRAILERS_RESOLUTION"
  BY DEF Config!ServicesOptions, Config!Option
<1>2. 1 .. 8 = {1, 2, 3, 4, 5, 6, 7, 8}
  OBVIOUS
<1> QED BY <1>1, <1>2 DEF OptionsOf

LEMMA ServicesSets ==
  ASSUME NEW s, IsState(s)
  PROVE  LET t == Config!CheckedServices(s)
         IN  IsState(t) /\ (t.ok => Keeps(s, t, {}))
<1> DEFINE reads == Config!ServicesOptions
           names == OptionsOf(reads, 8)
           u == Config!AllRead(s, reads)
           more == Config!PurgeTrailers(u.root)
           t == Config!CheckedServices(s)
<1>1. Len(reads) = 8 /\ 8 \in Nat /\ "none" \notin names
  BY ServicesOptionsAre
<1>2. Finished(u, more, t)
  BY DEF Finished, Adding, Refusing, Config!CheckedServices, Config!Checked
<1>3. DOMAIN more = {"ATRAILERS_PURGE_AFTER"}
  BY DEF Config!PurgeTrailers
<1>4. (names \cup DOMAIN more) \cap Conditions \subseteq {}
  BY <1>3, ServicesOptionsAre DEF Conditions
<1> HIDE DEF reads, names, u, more, t
<1>6. PlainOutcome(s, names, more, t, {})
  BY <1>1, <1>2, <1>4, PlainSection DEF names, u
<1> QED BY <1>6 DEF t, PlainOutcome

(* A switch, and readings that happen only where it is on.                 *)
SwitchOutcome(s, u, path, switch, names) ==
  /\ \E P : Follows(s, u, {switch} \cup names, P)
  /\ u.ok => /\ Config!Text(u.root, path) \in {"yes", "no"}
             /\ Config!Text(u.root, path) = "yes" => names \subseteq DOMAIN u.options
             /\ switch # "none" => /\ switch \in DOMAIN u.options
                                   /\ u.options[switch] = Config!Text(u.root, path)

LEMMA SwitchReads ==
  ASSUME NEW s, IsState(s), NEW on, Len(on) = 1, NEW path, NEW switch,
         on[1].path = path, on[1].option = switch, on[1].fits = {"yes", "no"},
         NEW reads, NEW n \in Nat, Len(reads) = n,
         NEW names, OptionsOf(reads, n) = names, "none" \notin names, switch \notin names
  PROVE  SwitchOutcome(s, Config!ReadIf(path, "yes", Config!AllRead(s, on), reads),
                       path, switch, names)
<1> DEFINE v == Config!AllRead(s, on)
           u == Config!ReadIf(path, "yes", v, reads)
<1>1. OptionsOf(on, 1) = {switch}
  BY DEF OptionsOf
<1>2. /\ IsState(v) /\ HasRead(s, v, on, 1)
      /\ Follows(s, v, {switch}, PathsOf(on, 1))
      /\ v.ok => {switch} \ {"none"} \subseteq DOMAIN v.options
  BY <1>1, SectionReads
<1>3. /\ IsState(u) /\ Follows(v, u, names, PathsOf(reads, n))
      /\ u.ok /\ Config!Text(v.root, path) = "yes" => names \ {"none"} \subseteq DOMAIN u.options
  BY <1>2, IfReads
<1> HIDE DEF u, v
<1>4. Follows(s, u, {switch} \cup names, PathsOf(on, 1) \cup PathsOf(reads, n))
  BY <1>2, <1>3, FollowsOn
<1>5. ASSUME u.ok
      PROVE  /\ Config!Text(u.root, path) \in {"yes", "no"}
             /\ Config!Text(u.root, path) = "yes" => names \subseteq DOMAIN u.options
             /\ switch # "none" => /\ switch \in DOMAIN u.options
                                   /\ u.options[switch] = Config!Text(u.root, path)
  <2>1. v.ok
    BY <1>3, <1>5 DEF Follows
  <2>2. 1 \in 1 .. 1 /\ "" \notin on[1].fits /\ \A j \in 1 .. 1 : j = 1
    OBVIOUS
  <2>3. /\ Config!Text(v.root, path) \in {"yes", "no"}
        /\ switch # "none" => /\ switch \in DOMAIN v.options
                              /\ v.options[switch] = Config!Text(v.root, path)
    BY <1>2, <2>1, <2>2 DEF HasRead
  <2>4. Config!Text(u.root, path) = Config!Text(v.root, path)
    BY <1>3, <2>3 DEF Follows
  <2>5. switch # "none" => /\ switch \in DOMAIN u.options
                           /\ u.options[switch] = v.options[switch]
    BY <1>3, <2>3 DEF Follows
  <2> QED BY <1>3, <1>5, <2>3, <2>4, <2>5
<1> QED BY <1>4, <1>5 DEF SwitchOutcome, u, v

LEMMA LibrariesOptionsIs ==
  LET on == Config!LibrariesOptions
  IN  /\ Len(on) = 1 /\ on[1].path = Config!ThumbnailerOn
      /\ on[1].option = "THUMBNAILER_ENABLED" /\ on[1].fits = {"yes", "no"}
  BY DEF Config!LibrariesOptions, Config!Option, Config!YesNo

LEMMA ThumbnailerOptionsAre ==
  Len(Config!ThumbnailerOptions) = 7 /\ OptionsOf(Config!ThumbnailerOptions, 7) =
    {"THUMBNAILER_THUMBSIZE", "THUMBNAILER_SEEK_PERCENTAGE",
     "THUMBNAILER_FILMSTRIP_OVERLAY", "THUMBNAILER_WORKAROUND_BUGS",
     "THUMBNAILER_IMAGE_QUALITY", "THUMBNAILER_CACHE_DIR",
     "THUMBNAILER_CACHE_DIR_ENABLED"}
<1>1. /\ Len(Config!ThumbnailerOptions) = 7
      /\ Config!ThumbnailerOptions[1].option = "THUMBNAILER_THUMBSIZE"
      /\ Config!ThumbnailerOptions[2].option = "THUMBNAILER_SEEK_PERCENTAGE"
      /\ Config!ThumbnailerOptions[3].option = "THUMBNAILER_FILMSTRIP_OVERLAY"
      /\ Config!ThumbnailerOptions[4].option = "THUMBNAILER_WORKAROUND_BUGS"
      /\ Config!ThumbnailerOptions[5].option = "THUMBNAILER_IMAGE_QUALITY"
      /\ Config!ThumbnailerOptions[6].option = "THUMBNAILER_CACHE_DIR"
      /\ Config!ThumbnailerOptions[7].option = "THUMBNAILER_CACHE_DIR_ENABLED"
  BY DEF Config!ThumbnailerOptions, Config!Option
<1>2. 1 .. 7 = {1, 2, 3, 4, 5, 6, 7}
  OBVIOUS
<1> QED BY <1>1, <1>2 DEF OptionsOf

LibrariesDone(o) ==
  /\ {"CUSTOM_HTTP_HEADERS", "ID3_AUXDATA_TAGS_LIST", "THUMBNAILER_ENABLED"} \subseteq DOMAIN o
  /\ o["THUMBNAILER_ENABLED"] = "yes" =>
       {"THUMBNAILER_THUMBSIZE", "THUMBNAILER_CACHE_DIR", "THUMBNAILER_CACHE_DIR_ENABLED",
        "THUMBNAILER_IMAGE_QUALITY"} \subseteq DOMAIN o
LEMMA LibrariesSets ==
  ASSUME NEW s, IsState(s)
  PROVE  LET t == Config!CheckedLibraries(s)
         IN  IsState(t) /\ (t.ok => Keeps(s, t, {"THUMBNAILER_ENABLED"}) /\
                                                 LibrariesDone(t.options))
<1> DEFINE on == Config!LibrariesOptions
           reads == Config!ThumbnailerOptions
           names == OptionsOf(reads, 7)
           path == Config!ThumbnailerOn
           u == Config!ReadIf(path, "yes", Config!AllRead(s, on), reads)
           more == Config!LibraryLists(u.root)
           t == Config!CheckedLibraries(s)
<1>1. /\ Len(reads) = 7 /\ 7 \in Nat /\ "none" \notin names /\ "THUMBNAILER_ENABLED" \notin names
      /\ {"THUMBNAILER_THUMBSIZE", "THUMBNAILER_CACHE_DIR", "THUMBNAILER_CACHE_DIR_ENABLED",
          "THUMBNAILER_IMAGE_QUALITY"} \subseteq names
      /\ names \cap Conditions = {}
  BY ThumbnailerOptionsAre DEF Conditions
<1>2. Finished(u, more, t)
  BY DEF Finished, Adding, Refusing, Config!CheckedLibraries, Config!Checked, Config!AllFit
<1>3. /\ {"CUSTOM_HTTP_HEADERS", "ID3_AUXDATA_TAGS_LIST"} \subseteq DOMAIN more
      /\ DOMAIN more \cap Conditions = {}
  BY DEF Config!LibraryLists, Conditions
<1>4. /\ Len(on) = 1 /\ on[1].path = path
      /\ on[1].option = "THUMBNAILER_ENABLED" /\ on[1].fits = {"yes", "no"}
  BY LibrariesOptionsIs
<1> HIDE DEF on, reads, names, path, more, t
<1>5. SwitchOutcome(s, u, path, "THUMBNAILER_ENABLED", names)
  BY <1>1, <1>4, SwitchReads DEF names
<1> HIDE DEF u
<1>6. PICK P : Follows(s, u, {"THUMBNAILER_ENABLED"} \cup names, P)
  BY <1>5 DEF SwitchOutcome
<1>7. Outcome(s, u, {"THUMBNAILER_ENABLED"} \cup names, P, more, t)
  BY <1>2, <1>6, FinishedOutcome
<1>8. ASSUME t.ok PROVE Keeps(s, t, {"THUMBNAILER_ENABLED"}) /\ LibrariesDone(t.options)
  <2>1. /\ u.ok /\ Follows(s, t, ({"THUMBNAILER_ENABLED"} \cup names) \cup DOMAIN more, P)
        /\ DOMAIN u.options \cup DOMAIN more \subseteq DOMAIN t.options
        /\ \A o \in DOMAIN u.options \ DOMAIN more : t.options[o] = u.options[o]
    BY <1>7, <1>8 DEF Outcome
  <2>2. (({"THUMBNAILER_ENABLED"} \cup names) \cup DOMAIN more) \cap Conditions \subseteq
           {"THUMBNAILER_ENABLED"}
    BY <1>1, <1>3
  <2>3. Keeps(s, t, {"THUMBNAILER_ENABLED"})
    BY <1>8, <2>1, <2>2, FollowsKeeps
  <2>4. /\ "THUMBNAILER_ENABLED" \in DOMAIN u.options /\ "THUMBNAILER_ENABLED" \notin DOMAIN more
        /\ u.options["THUMBNAILER_ENABLED"] = "yes" => names \subseteq DOMAIN u.options
    BY <1>3, <1>5, <2>1 DEF SwitchOutcome, Conditions
  <2> QED BY <1>1, <1>3, <2>1, <2>3, <2>4 DEF LibrariesDone
<1> QED BY <1>7, <1>8 DEF Outcome, t

LEMMA TranscodingOptionsIs ==
  LET on == Config!TranscodingOptions
  IN  /\ Len(on) = 1 /\ on[1].path = Config!TranscodingOn
      /\ on[1].option = "none" /\ on[1].fits = {"yes", "no"}
  BY DEF Config!TranscodingOptions, Config!Option, Config!YesNo, Config!NoOption

LEMMA FetchOptionsAre ==
  Len(Config!FetchOptions) = 2 /\ OptionsOf(Config!FetchOptions, 2) =
    {"TRANSCODING_CURL_BUFFER_SIZE", "TRANSCODING_CURL_FILL_SIZE"}
<1>1. /\ Len(Config!FetchOptions) = 2
      /\ Config!FetchOptions[1].option = "TRANSCODING_CURL_BUFFER_SIZE"
      /\ Config!FetchOptions[2].option = "TRANSCODING_CURL_FILL_SIZE"
  BY DEF Config!FetchOptions, Config!Option
<1>2. 1 .. 2 = {1, 2}
  OBVIOUS
<1> QED BY <1>1, <1>2 DEF OptionsOf

TranscodingDone(o) ==
  /\ "TRANSCODING_PROFILE_LIST" \in DOMAIN o
  /\ o["TRANSCODING_PROFILE_LIST"] = "good" =>
       {"TRANSCODING_CURL_BUFFER_SIZE", "TRANSCODING_CURL_FILL_SIZE"} \subseteq DOMAIN o
LEMMA TranscodingSets ==
  ASSUME NEW s, IsState(s)
  PROVE  LET t == Config!CheckedTranscoding(s)
         IN  IsState(t) /\ (t.ok => Keeps(s, t, {"TRANSCODING_PROFILE_LIST"}) /\
                                                 TranscodingDone(t.options))
<1> DEFINE on == Config!TranscodingOptions
           reads == Config!FetchOptions
           names == OptionsOf(reads, 2)
           path == Config!TranscodingOn
           u == Config!ReadIf(path, "yes", Config!AllRead(s, on), reads)
           more == Config!ProfileList(u.root)
           t == Config!CheckedTranscoding(s)
<1>1. /\ Len(reads) = 2 /\ 2 \in Nat /\ "none" \notin names
      /\ names = {"TRANSCODING_CURL_BUFFER_SIZE", "TRANSCODING_CURL_FILL_SIZE"}
      /\ names \cap Conditions = {}
  BY FetchOptionsAre DEF Conditions
<1>2. Finished(u, more, t)
  BY DEF Finished, Adding, Refusing, Config!CheckedTranscoding, Config!Checked
<1>3. /\ DOMAIN more = {"TRANSCODING_PROFILE_LIST"}
      /\ more["TRANSCODING_PROFILE_LIST"] = "good" => Config!Text(u.root, path) = "yes"
  BY DEF Config!ProfileList
<1>4. /\ Len(on) = 1 /\ on[1].path = path
      /\ on[1].option = "none" /\ on[1].fits = {"yes", "no"}
  BY TranscodingOptionsIs
<1> HIDE DEF on, reads, names, path, more, t
<1>5. SwitchOutcome(s, u, path, "none", names)
  BY <1>1, <1>4, SwitchReads DEF names
<1> HIDE DEF u
<1>6. PICK P : Follows(s, u, {"none"} \cup names, P)
  BY <1>5 DEF SwitchOutcome
<1>7. Outcome(s, u, {"none"} \cup names, P, more, t)
  BY <1>2, <1>6, FinishedOutcome
<1>8. ASSUME t.ok PROVE Keeps(s, t, {"TRANSCODING_PROFILE_LIST"}) /\ TranscodingDone(t.options)
  <2>1. /\ u.ok /\ Follows(s, t, ({"none"} \cup names) \cup DOMAIN more, P)
        /\ DOMAIN u.options \cup DOMAIN more \subseteq DOMAIN t.options
        /\ \A o \in DOMAIN more : t.options[o] = more[o]
    BY <1>7, <1>8 DEF Outcome
  <2>2. (({"none"} \cup names) \cup DOMAIN more) \cap Conditions \subseteq
           {"TRANSCODING_PROFILE_LIST"}
    BY <1>1, <1>3 DEF Conditions
  <2>3. Keeps(s, t, {"TRANSCODING_PROFILE_LIST"})
    BY <1>8, <2>1, <2>2, FollowsKeeps
  <2>4. Config!Text(u.root, path) = "yes" => names \subseteq DOMAIN u.options
    BY <1>5, <2>1 DEF SwitchOutcome
  <2> QED BY <1>1, <1>3, <2>1, <2>3, <2>4 DEF TranscodingDone
<1> QED BY <1>7, <1>8 DEF Outcome, t

LEMMA AutoscanOptionsAre ==
  Len(Config!AutoscanOptions) = 1 /\ OptionsOf(Config!AutoscanOptions, 1) =
    {"none"}
<1>1. /\ Len(Config!AutoscanOptions) = 1
      /\ Config!AutoscanOptions[1].option = "none"
  BY DEF Config!AutoscanOptions, Config!Option, Config!NoOption
<1>2. 1 .. 1 = {1}
  OBVIOUS
<1> QED BY <1>1, <1>2 DEF OptionsOf

LEMMA MarkPlayedOptionsAre ==
  Len(Config!MarkPlayedOptions) = 4 /\ OptionsOf(Config!MarkPlayedOptions, 4) =
    {"MARK_PLAYED_ENABLED", "MARK_PLAYED_SUPPRESS_CDS_UPDATES",
     "MARK_PLAYED_STRING_MODE_PREPEND", "MARK_PLAYED_STRING"}
<1>1. /\ Len(Config!MarkPlayedOptions) = 4
      /\ Config!MarkPlayedOptions[1].option = "MARK_PLAYED_ENABLED"
      /\ Config!MarkPlayedOptions[2].option = "MARK_PLAYED_SUPPRESS_CDS_UPDATES"
      /\ Config!MarkPlayedOptions[3].option = "MARK_PLAYED_STRING_MODE_PREPEND"
      /\ Config!MarkPlayedOptions[4].option = "MARK_PLAYED_STRING"
  BY DEF Config!MarkPlayedOptions, Config!Option
<1>2. 1 .. 4 = {1, 2, 3, 4}
  OBVIOUS
<1> QED BY <1>1, <1>2 DEF OptionsOf

LEMMA ScriptingOptionsAre ==
  Len(Config!ScriptingOptions) = 6 /\ OptionsOf(Config!ScriptingOptions, 6) =
    {"PLAYLIST_SCRIPT", "COMMON_SCRIPT", "PLAYLIST_SCRIPT_LINK_OBJECTS",
     "VIRTUAL_LAYOUT_TYPE", "SCRIPTING_CHARSET", "IMPORT_SCRIPT"}
<1>1. /\ Len(Config!ScriptingOptions) = 6
      /\ Config!ScriptingOptions[1].option = "PLAYLIST_SCRIPT"
      /\ Config!ScriptingOptions[2].option = "COMMON_SCRIPT"
      /\ Config!ScriptingOptions[3].option = "PLAYLIST_SCRIPT_LINK_OBJECTS"
      /\ Config!ScriptingOptions[4].option = "VIRTUAL_LAYOUT_TYPE"
      /\ Config!ScriptingOptions[5].option = "SCRIPTING_CHARSET"
      /\ Config!ScriptingOptions[6].option = "IMPORT_SCRIPT"
  BY DEF Config!ScriptingOptions, Config!Option
<1>2. 1 .. 6 = {1, 2, 3, 4, 5, 6}
  OBVIOUS
<1> QED BY <1>1, <1>2 DEF OptionsOf

LEMMA JsOptionsAre ==
  Len(Config!JsOptions) = 2 /\ OptionsOf(Config!JsOptions, 2) =
    {"SCRIPTING_CHARSET", "IMPORT_SCRIPT"}
<1>1. /\ Len(Config!JsOptions) = 2
      /\ Config!JsOptions[1].option = "SCRIPTING_CHARSET"
      /\ Config!JsOptions[2].option = "IMPORT_SCRIPT"
  BY DEF Config!JsOptions, Config!Option
<1>2. 1 .. 2 = {1, 2}
  OBVIOUS
<1> QED BY <1>1, <1>2 DEF OptionsOf

LEMMA AccountOptionsAre ==
  Len(Config!AccountOptions) = 2 /\ OptionsOf(Config!AccountOptions, 2) =
    {"LASTFM_USERNAME", "LASTFM_PASSWORD"}
<1>1. /\ Len(Config!AccountOptions) = 2
      /\ Config!AccountOptions[1].option = "LASTFM_USERNAME"
      /\ Config!AccountOptions[2].option = "LASTFM_PASSWORD"
  BY DEF Config!AccountOptions, Config!Option
<1>2. 1 .. 2 = {1, 2}
  OBVIOUS
<1> QED BY <1>1, <1>2 DEF OptionsOf

LEMMA MagicOptionsAre ==
  Len(Config!MagicOptions) = 1 /\ OptionsOf(Config!MagicOptions, 1) =
    {"MAGIC_FILE"}
<1>1. /\ Len(Config!MagicOptions) = 1
      /\ Config!MagicOptions[1].option = "MAGIC_FILE"
  BY DEF Config!MagicOptions, Config!Option
<1>2. 1 .. 1 = {1}
  OBVIOUS
<1> QED BY <1>1, <1>2 DEF OptionsOf

LEMMA LastfmOptionsIs ==
  LET on == Config!LastfmOptions
  IN  /\ Len(on) = 1 /\ on[1].path = Config!Lastfm(<<"@enabled">>)
      /\ on[1].option = "LASTFM_ENABLED" /\ on[1].fits = {"yes", "no"}
  BY DEF Config!LastfmOptions, Config!Option, Config!YesNo

AutoscanDone(o) ==
  /\ {"AUTOSCAN_TIMED_LIST", "AUTOSCAN_USE_INOTIFY"} \subseteq DOMAIN o
  /\ o["AUTOSCAN_USE_INOTIFY"] = "yes" => "AUTOSCAN_INOTIFY_LIST" \in DOMAIN o
LEMMA AutoscanSets ==
  ASSUME NEW s, IsState(s)
  PROVE  LET t == Config!CheckedAutoscan(s)
         IN  IsState(t) /\ (t.ok => Keeps(s, t, {"AUTOSCAN_USE_INOTIFY"}) /\
                                                 AutoscanDone(t.options))
<1> DEFINE reads == Config!AutoscanOptions
           P == PathsOf(reads, 1)
           u == Config!AllRead(s, reads)
           more == Config!AutoscanLists(u.root)
           t == Config!CheckedAutoscan(s)
<1>1. Len(reads) = 1 /\ 1 \in Nat /\ OptionsOf(reads, 1) = {"none"}
  BY AutoscanOptionsAre
<1>2. Finished(u, more, t)
  BY DEF Finished, Adding, Refusing, Config!CheckedAutoscan, Config!Checked
<1>3. AutoscanDone(more) /\ DOMAIN more \cap Conditions \subseteq {"AUTOSCAN_USE_INOTIFY"}
  BY DEF AutoscanDone, Conditions, Config!AutoscanLists
<1> HIDE DEF reads, P, u, more, t
<1>4. Follows(s, u, {"none"}, P)
  BY <1>1, SectionReads DEF u, P
<1>5. Outcome(s, u, {"none"}, P, more, t)
  BY <1>2, <1>4, FinishedOutcome
<1>6. ASSUME t.ok PROVE Keeps(s, t, {"AUTOSCAN_USE_INOTIFY"}) /\ AutoscanDone(t.options)
  <2>1. /\ Follows(s, t, {"none"} \cup DOMAIN more, P)
        /\ DOMAIN more \subseteq DOMAIN t.options
        /\ \A o \in DOMAIN more : t.options[o] = more[o]
    BY <1>5, <1>6 DEF Outcome
  <2>2. ({"none"} \cup DOMAIN more) \cap Conditions \subseteq {"AUTOSCAN_USE_INOTIFY"}
    BY <1>3 DEF Conditions
  <2>3. Keeps(s, t, {"AUTOSCAN_USE_INOTIFY"})
    BY <1>6, <2>1, <2>2, FollowsKeeps
  <2> QED BY <1>3, <2>1, <2>3 DEF AutoscanDone
<1> QED BY <1>5, <1>6 DEF Outcome, t

MarkPlayedDone(o) ==
  /\ "MARK_PLAYED_ENABLED" \in DOMAIN o
  /\ o["MARK_PLAYED_ENABLED"] = "yes" => "MARK_PLAYED_CONTENT_LIST" \in DOMAIN o
LEMMA MarkPlayedSwitch ==
  LET reads == Config!MarkPlayedOptions
  IN  /\ reads[1].path = Config!MarkOn /\ reads[1].option = "MARK_PLAYED_ENABLED"
      /\ "" \notin reads[1].fits
      /\ \A j \in 1 .. 4 : reads[j].option = "MARK_PLAYED_ENABLED" => j = 1
<1> DEFINE reads == Config!MarkPlayedOptions
<1>1. /\ reads[1].path = Config!MarkOn /\ reads[1].option = "MARK_PLAYED_ENABLED"
      /\ "" \notin reads[1].fits
      /\ reads[2].option # "MARK_PLAYED_ENABLED"
      /\ reads[3].option # "MARK_PLAYED_ENABLED"
      /\ reads[4].option # "MARK_PLAYED_ENABLED"
  BY DEF Config!MarkPlayedOptions, Config!Option, Config!YesNo
<1>2. 1 .. 4 = {1, 2, 3, 4}
  OBVIOUS
<1> QED BY <1>1, <1>2
(* Marking is enabled only with contents to mark.                          *)
LEMMA MarkPlayedSets ==
  ASSUME NEW s, IsState(s)
  PROVE  LET t == Config!CheckedMarkPlayed(s)
         IN  IsState(t) /\ (t.ok => Keeps(s, t, {"MARK_PLAYED_ENABLED"}) /\
                                                 MarkPlayedDone(t.options))
<1> DEFINE reads == Config!MarkPlayedOptions
           names == OptionsOf(reads, 4)
           P == PathsOf(reads, 4)
           u == Config!AllRead(s, reads)
           more == Config!MarkList(u.root)
           t == Config!CheckedMarkPlayed(s)
<1>1. Len(reads) = 4 /\ 4 \in Nat /\ "none" \notin names
  BY MarkPlayedOptionsAre
<1>a. names \cap Conditions = {"MARK_PLAYED_ENABLED"}
  BY MarkPlayedOptionsAre DEF Conditions
<1>2. /\ Finished(u, more, t)
      /\ t = Refusing(u) \/ Config!MarkFits(u.root)
  BY DEF Finished, Adding, Refusing, Config!CheckedMarkPlayed, Config!Checked
<1>3. /\ DOMAIN more \subseteq {"MARK_PLAYED_CONTENT_LIST"}
      /\ Config!MarkContent \in DOMAIN u.root => "MARK_PLAYED_CONTENT_LIST" \in DOMAIN more
  BY DEF Config!MarkList, Config!Nothing
<1> HIDE DEF reads, names, P, u, more, t
<1>4. Follows(s, u, names, P) /\ HasRead(s, u, reads, 4) /\ IsState(u)
  BY <1>1, SectionReads DEF names, u, P
<1>5. Outcome(s, u, names, P, more, t)
  BY <1>2, <1>4, FinishedOutcome
<1>6. ASSUME t.ok PROVE Keeps(s, t, {"MARK_PLAYED_ENABLED"}) /\ MarkPlayedDone(t.options)
  <2>1. /\ u.ok /\ Follows(s, t, names \cup DOMAIN more, P)
        /\ DOMAIN u.options \cup DOMAIN more \subseteq DOMAIN t.options
        /\ \A o \in DOMAIN u.options \ DOMAIN more : t.options[o] = u.options[o]
    BY <1>5, <1>6 DEF Outcome
  <2>2. (names \cup DOMAIN more) \cap Conditions \subseteq {"MARK_PLAYED_ENABLED"}
    BY <1>a, <1>3 DEF Conditions
  <2>3. Keeps(s, t, {"MARK_PLAYED_ENABLED"})
    BY <1>6, <2>1, <2>2, FollowsKeeps
  <2>4. Config!MarkFits(u.root)
    BY <1>2, <1>4, <1>6, RefusedFacts
  <2>5. /\ reads[1].path = Config!MarkOn /\ reads[1].option = "MARK_PLAYED_ENABLED"
        /\ "" \notin reads[1].fits
        /\ \A j \in 1 .. 4 : reads[j].option = reads[1].option => j = 1
    BY MarkPlayedSwitch DEF reads
  <2>6. 1 \in 1 .. 4
    OBVIOUS
  <2>7. /\ "MARK_PLAYED_ENABLED" \in DOMAIN u.options
        /\ u.options["MARK_PLAYED_ENABLED"] = Config!Text(u.root, Config!MarkOn)
    BY <1>4, <2>1, <2>5, <2>6 DEF HasRead
  <2>8. Config!Text(u.root, Config!MarkOn) = "yes" => Config!MarkContent \in DOMAIN u.root
    BY <2>4 DEF Config!MarkFits
  <2>9. /\ "MARK_PLAYED_ENABLED" \in DOMAIN t.options
        /\ t.options["MARK_PLAYED_ENABLED"] = u.options["MARK_PLAYED_ENABLED"]
    BY <1>3, <2>1, <2>7
  <2> QED BY <1>3, <2>1, <2>3, <2>7, <2>8, <2>9 DEF MarkPlayedDone
<1> QED BY <1>5, <1>6 DEF Outcome, t

LEMMA ScriptingSets ==
  ASSUME NEW s, IsState(s)
  PROVE  LET t == Config!CheckedScripting(s)
         IN  IsState(t) /\ (t.ok => Keeps(s, t, {}))
<1> DEFINE all == Config!ScriptingOptions
           js == Config!JsOptions
           v == Config!AllRead(s, all)
           u == Config!ReadIf(Config!LayoutType, "js", v, js)
           O == OptionsOf(all, 6) \cup OptionsOf(js, 2)
           P == PathsOf(all, 6) \cup PathsOf(js, 2)
           more == Config!NoMore(u.root)
           t == Config!CheckedScripting(s)
<1>1. Len(all) = 6 /\ 6 \in Nat /\ Len(js) = 2 /\ 2 \in Nat
  BY ScriptingOptionsAre, JsOptionsAre
<1>2. Finished(u, more, t)
  BY DEF Finished, Adding, Refusing, Config!CheckedScripting, Config!Checked
<1>3. DOMAIN more = {}
  BY DEF Config!NoMore, Config!Nothing
<1>4. (O \cup DOMAIN more) \cap Conditions \subseteq {}
  BY <1>3, ScriptingOptionsAre, JsOptionsAre DEF Conditions
<1> HIDE DEF all, js, more, t, u, v
<1>5. IsState(v) /\ Follows(s, v, OptionsOf(all, 6), PathsOf(all, 6))
  BY <1>1, SectionReads DEF v
<1>6. Follows(v, u, OptionsOf(js, 2), PathsOf(js, 2))
  BY <1>1, <1>5, IfReads DEF u
<1>7. Follows(s, u, O, P)
  BY <1>5, <1>6, FollowsOn
<1> HIDE DEF O, P
<1>8. Outcome(s, u, O, P, more, t)
  BY <1>2, <1>7, FinishedOutcome
<1>9. ASSUME t.ok PROVE Keeps(s, t, {})
  <2>1. Follows(s, t, O \cup DOMAIN more, P)
    BY <1>8, <1>9 DEF Outcome
  <2> QED BY <1>4, <1>9, <2>1, FollowsKeeps
<1> QED BY <1>8, <1>9 DEF Outcome, t

LastfmDone(o) ==
  /\ {"LASTFM_ENABLED", "MAGIC_FILE"} \subseteq DOMAIN o
  /\ o["LASTFM_ENABLED"] = "yes" => {"LASTFM_USERNAME", "LASTFM_PASSWORD"} \subseteq DOMAIN o
LEMMA LastfmSets ==
  ASSUME NEW s, IsState(s)
  PROVE  LET t == Config!CheckedLastfm(s)
         IN  IsState(t) /\ (t.ok => Keeps(s, t, {"LASTFM_ENABLED"}) /\ LastfmDone(t.options))
<1> DEFINE on == Config!LastfmOptions
           reads == Config!AccountOptions
           magic == Config!MagicOptions
           names == OptionsOf(reads, 2)
           path == Config!Lastfm(<<"@enabled">>)
           v == Config!ReadIf(path, "yes", Config!AllRead(s, on), reads)
           u == Config!AllRead(v, magic)
           more == Config!NoMore(u.root)
           t == Config!CheckedLastfm(s)
<1>1. /\ Len(reads) = 2 /\ 2 \in Nat /\ "none" \notin names /\ "LASTFM_ENABLED" \notin names
      /\ names = {"LASTFM_USERNAME", "LASTFM_PASSWORD"}
  BY AccountOptionsAre
<1>2. Len(magic) = 1 /\ 1 \in Nat /\ OptionsOf(magic, 1) = {"MAGIC_FILE"}
  BY MagicOptionsAre
<1>3. Finished(u, more, t)
  BY DEF Finished, Adding, Refusing, Config!CheckedLastfm, Config!Checked
<1>4. DOMAIN more = {}
  BY DEF Config!NoMore, Config!Nothing
<1>5. /\ Len(on) = 1 /\ on[1].path = path
      /\ on[1].option = "LASTFM_ENABLED" /\ on[1].fits = {"yes", "no"}
  BY LastfmOptionsIs
<1> HIDE DEF on, reads, magic, names, path, more, t, u
<1>6. SwitchOutcome(s, v, path, "LASTFM_ENABLED", names)
  BY <1>1, <1>5, SwitchReads DEF names
<1> HIDE DEF v
<1>7. PICK P : Follows(s, v, {"LASTFM_ENABLED"} \cup names, P)
  BY <1>6 DEF SwitchOutcome
<1> DEFINE Q == PathsOf(magic, 1)
<1>8. /\ Follows(v, u, {"MAGIC_FILE"}, Q)
      /\ u.ok => {"MAGIC_FILE"} \ {"none"} \subseteq DOMAIN u.options
  <2>1. IsState(v)
    BY <1>7 DEF Follows
  <2> QED BY <2>1, <1>2, SectionReads DEF u
<1> HIDE DEF Q
<1> DEFINE O == ({"LASTFM_ENABLED"} \cup names) \cup {"MAGIC_FILE"}
<1>9. Follows(s, u, O, P \cup Q)
  BY <1>7, <1>8, FollowsOn
<1>10. Outcome(s, u, O, P \cup Q, more, t)
  <2> HIDE DEF O
  <2> QED BY <1>3, <1>9, FinishedOutcome
<1>11. ASSUME t.ok PROVE Keeps(s, t, {"LASTFM_ENABLED"}) /\ LastfmDone(t.options)
  <2>1. /\ u.ok /\ Follows(s, t, O \cup DOMAIN more, P \cup Q)
        /\ DOMAIN u.options \subseteq DOMAIN t.options
        /\ \A o \in DOMAIN u.options : t.options[o] = u.options[o]
    BY <1>10, <1>11, <1>4 DEF Outcome
  <2>2. (O \cup DOMAIN more) \cap Conditions \subseteq {"LASTFM_ENABLED"}
    BY <1>1, <1>4 DEF Conditions
  <2>3. Keeps(s, t, {"LASTFM_ENABLED"})
    <3> HIDE DEF O
    <3> QED BY <1>11, <2>1, <2>2, FollowsKeeps
  <2>4. v.ok
    BY <1>8, <2>1 DEF Follows
  <2>5. /\ "LASTFM_ENABLED" \in DOMAIN v.options
        /\ v.options["LASTFM_ENABLED"] = "yes" => names \subseteq DOMAIN v.options
    BY <1>6, <2>4 DEF SwitchOutcome
  <2>6. /\ DOMAIN v.options \subseteq DOMAIN u.options
        /\ u.options["LASTFM_ENABLED"] = v.options["LASTFM_ENABLED"]
    BY <1>8, <2>5 DEF Follows
  <2> QED BY <1>1, <1>8, <2>1, <2>3, <2>5, <2>6 DEF LastfmDone
<1> QED BY <1>10, <1>11 DEF Outcome, t

-----------------------------------------------------------------------------
(* The storage, whose drivers' elements stand apart.                       *)
Words == {"server", "storage", "mysql", "sqlite3", "@enabled", "host", "database",
          "username", "port"}
(* The paths of the storage's elements.                                    *)
IsStoragePath(t, name, x) ==
  /\ t \in Seq(Words) /\ Len(t) = Len(x) + 3
  /\ t[1] = "server" /\ t[2] = "storage" /\ t[3] = name
  /\ \A i \in 1 .. Len(x) : t[3 + i] = x[i]

LEMMA StoragePaths ==
  ASSUME NEW x \in Seq(Words)
  PROVE  /\ IsStoragePath(Config!Mysql(x), "mysql", x)
         /\ IsStoragePath(Config!Sqlite(x), "sqlite3", x)
<1>1. ASSUME NEW name \in {"mysql", "sqlite3"}
      PROVE  IsStoragePath(<<"server", "storage">> \o (<<name>> \o x), name, x)
  <2>1. /\ <<name>> \in Seq(Words) /\ Len(<<name>>) = 1 /\ <<name>>[1] = name
        /\ <<"server", "storage">> \in Seq(Words)
    BY DEF Words
  <2> DEFINE y == <<name>> \o x
  <2>2. /\ y \in Seq(Words) /\ Len(y) = Len(x) + 1 /\ y[1] = name
        /\ \A i \in 1 .. Len(x) : y[1 + i] = x[i]
    BY <2>1
  <2> HIDE DEF y
  <2> DEFINE t == <<"server", "storage">> \o y
  <2>3. /\ t \in Seq(Words) /\ Len(t) = Len(y) + 2
        /\ t[1] = "server" /\ t[2] = "storage"
        /\ \A i \in 1 .. Len(y) : t[2 + i] = y[i]
    BY <2>1, <2>2
  <2> HIDE DEF t
  <2>4. t[3] = name
    <3>1. 1 \in 1 .. Len(y) /\ 2 + 1 = 3
      BY <2>2
    <3>2. t[2 + 1] = y[1]
      BY <2>3, <3>1
    <3> QED BY <2>2, <3>1, <3>2
  <2>5. ASSUME NEW i \in 1 .. Len(x) PROVE t[3 + i] = x[i]
    <3>1. 1 + i \in 1 .. Len(y) /\ 2 + (1 + i) = 3 + i
      BY <2>2
    <3>2. t[2 + (1 + i)] = y[1 + i]
      BY <2>3, <3>1
    <3> QED BY <2>2, <3>1, <3>2
  <2>6. Len(t) = Len(x) + 3
    BY <2>2, <2>3
  <2> QED BY <2>3, <2>4, <2>5, <2>6 DEF t, y, IsStoragePath
<1> QED BY <1>1 DEF Config!Mysql, Config!Sqlite, Config!Storage

LEMMA PathsApart ==
  /\ Append(Config!Mysql(<<>>), "@enabled") = Config!Mysql(<<"@enabled">>)
  /\ Append(Config!Sqlite(<<>>), "@enabled") = Config!Sqlite(<<"@enabled">>)
<1>1. ASSUME NEW name, NEW e, NEW x, NEW s, NEW t, Len(e) = 0, Len(x) = 1, x[1] = "@enabled",
             IsStoragePath(s, name, e), IsStoragePath(t, name, x)
      PROVE  Append(s, "@enabled") = t
  <2>1. /\ s \in Seq(Words) /\ t \in Seq(Words) /\ Len(s) = 3 /\ Len(t) = 4
        /\ s[1] = t[1] /\ s[2] = t[2] /\ s[3] = t[3]
    BY <1>1 DEF IsStoragePath
  <2>2. t[4] = "@enabled"
    <3>1. 1 \in 1 .. Len(x) /\ 3 + 1 = 4
      BY <1>1
    <3>2. t[3 + 1] = x[1]
      BY <1>1, <3>1 DEF IsStoragePath
    <3> QED BY <1>1, <3>1, <3>2
  <2> DEFINE a == Append(s, "@enabled")
  <2>3. "@enabled" \in Words
    BY DEF Words
  <2>4. /\ a \in Seq(Words) /\ Len(a) = 4
        /\ \A i \in 1 .. 3 : a[i] = s[i]
        /\ a[4] = "@enabled"
    <3> HIDE DEF a
    <3>1. a \in Seq(Words)
      BY <2>1, <2>3, AppendProperties DEF a
    <3>2. /\ Len(a) = Len(s) + 1 /\ a[Len(s) + 1] = "@enabled"
          /\ \A i \in 1 .. Len(s) : a[i] = s[i]
      <4>1. \A S : \A seq \in Seq(S) : \A elt \in S :
              /\ Len(Append(seq, elt)) = Len(seq) + 1 /\ Append(seq, elt)[Len(seq) + 1] = elt
              /\ \A i \in 1 .. Len(seq) : Append(seq, elt)[i] = seq[i]
        BY AppendProperties
      <4> QED BY <2>1, <2>3, <4>1 DEF a
    <3>3. Len(a) = 4 /\ (\A i \in 1 .. 3 : a[i] = s[i]) /\ a[4] = "@enabled"
      BY <2>1, <3>2
    <3> QED BY <3>1, <3>3
  <2> HIDE DEF a
  <2>5. \A i \in 1 .. Len(a) : a[i] = t[i]
    BY <2>1, <2>2, <2>4
  <2>6. a = t
    BY <2>1, <2>4, <2>5, SeqEqual
  <2> QED BY <2>6 DEF a
<1> DEFINE e == <<>>
           x == <<"@enabled">>
<1>2. e \in Seq(Words) /\ x \in Seq(Words) /\ Len(e) = 0 /\ Len(x) = 1 /\ x[1] = "@enabled"
  BY DEF Words
<1> HIDE DEF e, x
<1>3. /\ Append(Config!Mysql(e), "@enabled") = Config!Mysql(x)
      /\ Append(Config!Sqlite(e), "@enabled") = Config!Sqlite(x)
  BY <1>1, <1>2, StoragePaths
<1> QED BY <1>3 DEF e, x

LEMMA CachingOptionsAre ==
  Len(Config!CachingOptions) = 1 /\ OptionsOf(Config!CachingOptions, 1) =
    {"STORAGE_CACHING_ENABLED"}
<1>1. /\ Len(Config!CachingOptions) = 1
      /\ Config!CachingOptions[1].option = "STORAGE_CACHING_ENABLED"
  BY DEF Config!CachingOptions, Config!Option
<1>2. 1 .. 1 = {1}
  OBVIOUS
<1> QED BY <1>1, <1>2 DEF OptionsOf

LEMMA MysqlOptionsAre ==
  Len(Config!MysqlOptions) = 4 /\ OptionsOf(Config!MysqlOptions, 4) =
    {"STORAGE_MYSQL_HOST", "STORAGE_MYSQL_DATABASE",
     "STORAGE_MYSQL_USERNAME", "STORAGE_MYSQL_PORT"}
<1>1. /\ Len(Config!MysqlOptions) = 4
      /\ Config!MysqlOptions[1].option = "STORAGE_MYSQL_HOST"
      /\ Config!MysqlOptions[2].option = "STORAGE_MYSQL_DATABASE"
      /\ Config!MysqlOptions[3].option = "STORAGE_MYSQL_USERNAME"
      /\ Config!MysqlOptions[4].option = "STORAGE_MYSQL_PORT"
  BY DEF Config!MysqlOptions, Config!Option
<1>2. 1 .. 4 = {1, 2, 3, 4}
  OBVIOUS
<1> QED BY <1>1, <1>2 DEF OptionsOf

LEMMA SqliteOptionsAre ==
  Len(Config!SqliteOptions) = 5 /\ OptionsOf(Config!SqliteOptions, 5) =
    {"STORAGE_SQLITE_DATABASE_FILE", "STORAGE_SQLITE_SYNCHRONOUS",
     "STORAGE_SQLITE_RESTORE", "STORAGE_SQLITE_BACKUP_ENABLED",
     "STORAGE_SQLITE_BACKUP_INTERVAL"}
<1>1. /\ Len(Config!SqliteOptions) = 5
      /\ Config!SqliteOptions[1].option = "STORAGE_SQLITE_DATABASE_FILE"
      /\ Config!SqliteOptions[2].option = "STORAGE_SQLITE_SYNCHRONOUS"
      /\ Config!SqliteOptions[3].option = "STORAGE_SQLITE_RESTORE"
      /\ Config!SqliteOptions[4].option = "STORAGE_SQLITE_BACKUP_ENABLED"
      /\ Config!SqliteOptions[5].option = "STORAGE_SQLITE_BACKUP_INTERVAL"
  BY DEF Config!SqliteOptions, Config!Option
<1>2. 1 .. 5 = {1, 2, 3, 4, 5}
  OBVIOUS
<1> QED BY <1>1, <1>2 DEF OptionsOf

LEMMA MysqlOnAre ==
  Len(Config!MysqlOn) = 1 /\ OptionsOf(Config!MysqlOn, 1) =
    {"none"}
<1>1. /\ Len(Config!MysqlOn) = 1
      /\ Config!MysqlOn[1].option = "none"
  BY DEF Config!MysqlOn, Config!Option, Config!NoOption
<1>2. 1 .. 1 = {1}
  OBVIOUS
<1> QED BY <1>1, <1>2 DEF OptionsOf

LEMMA SqliteOnAre ==
  Len(Config!SqliteOn) = 1 /\ OptionsOf(Config!SqliteOn, 1) =
    {"none"}
<1>1. /\ Len(Config!SqliteOn) = 1
      /\ Config!SqliteOn[1].option = "none"
  BY DEF Config!SqliteOn, Config!Option, Config!NoOption
<1>2. 1 .. 1 = {1}
  OBVIOUS
<1> QED BY <1>1, <1>2 DEF OptionsOf

LEMMA DriverPaths ==
  /\ \A i \in 1 .. 5 : Config!SqliteOptions[i].path # Config!Mysql(<<"@enabled">>)
  /\ \A i \in 1 .. 4 : Config!MysqlOptions[i].path # Config!Sqlite(<<"@enabled">>)
  /\ \A i \in 1 .. 4 : ~Config!IsPrefix(Config!Sqlite(<<>>), Config!MysqlOptions[i].path)
<1>1. LET o == Config!SqliteOptions
      IN  /\ o[1].path[3] = "sqlite3" /\ o[2].path[3] = "sqlite3" /\ o[3].path[3] = "sqlite3"
          /\ o[4].path[3] = "sqlite3" /\ o[5].path[3] = "sqlite3"
  BY DEF Config!SqliteOptions, Config!Option, Config!Sqlite, Config!Storage
<1>2. LET o == Config!MysqlOptions
      IN  /\ o[1].path = Config!Mysql(<<"host">>) /\ o[2].path = Config!Mysql(<<"database">>)
          /\ o[3].path = Config!Mysql(<<"username">>) /\ o[4].path = Config!Mysql(<<"port">>)
  BY DEF Config!MysqlOptions, Config!Option
<1>3. Config!Mysql(<<"@enabled">>)[3] = "mysql"
  BY DEF Config!Mysql, Config!Storage
<1>4. Config!Sqlite(<<"@enabled">>)[3] = "sqlite3"
  BY DEF Config!Sqlite, Config!Storage
<1>5. ASSUME NEW w \in Words
      PROVE  /\ Config!Mysql(<<w>>)[3] = "mysql"
             /\ ~Config!IsPrefix(Config!Sqlite(<<>>), Config!Mysql(<<w>>))
  <2> DEFINE s == Config!Sqlite(<<>>)
             t == Config!Mysql(<<w>>)
             e == <<>>
             x == <<w>>
  <2>1. e \in Seq(Words) /\ x \in Seq(Words) /\ Len(e) = 0 /\ Len(x) = 1
    OBVIOUS
  <2> HIDE DEF e, x
  <2>2. IsStoragePath(Config!Sqlite(e), "sqlite3", e) /\ IsStoragePath(Config!Mysql(x), "mysql", x)
    BY <2>1, StoragePaths
  <2>3. IsStoragePath(s, "sqlite3", e) /\ IsStoragePath(t, "mysql", x)
    BY <2>2 DEF e, x
  <2> HIDE DEF s, t
  <2>4. /\ s \in Seq(Words) /\ t \in Seq(Words) /\ Len(s) = 3 /\ Len(t) = 4
        /\ s[3] = "sqlite3" /\ t[3] = "mysql"
    BY <2>1, <2>3 DEF IsStoragePath
  <2>5. SubSeq(s, 1, Len(s))[3] = s[3] /\ SubSeq(t, 1, Len(s))[3] = t[3]
    BY <2>4
  <2>6. ~Config!IsPrefix(s, t)
    BY <2>4, <2>5 DEF Config!IsPrefix
  <2> QED BY <2>4, <2>6 DEF s, t
<1>6. 1 .. 5 = {1, 2, 3, 4, 5} /\ 1 .. 4 = {1, 2, 3, 4}
  OBVIOUS
<1>7. \A i \in 1 .. 5 : Config!SqliteOptions[i].path # Config!Mysql(<<"@enabled">>)
  BY <1>1, <1>3, <1>6
<1>8. {"host", "database", "username", "port"} \subseteq Words
  BY DEF Words
<1>9. \A i \in 1 .. 4 : \E w \in Words : Config!MysqlOptions[i].path = Config!Mysql(<<w>>)
  <2> QED BY <1>2, <1>6, <1>8
<1>10. ASSUME NEW i \in 1 .. 4
       PROVE  /\ Config!MysqlOptions[i].path # Config!Sqlite(<<"@enabled">>)
              /\ ~Config!IsPrefix(Config!Sqlite(<<>>), Config!MysqlOptions[i].path)
  <2>1. PICK w \in Words : Config!MysqlOptions[i].path = Config!Mysql(<<w>>)
    BY <1>9
  <2> QED BY <1>4, <1>5, <2>1
<1> QED BY <1>7, <1>10

(* The readings that happen within an element.                             *)
LEMMA InReads ==
  ASSUME NEW s, IsState(s), NEW reads, NEW n \in Nat, Len(reads) = n,
         NEW names, OptionsOf(reads, n) = names, NEW element
  PROVE  LET t == Config!ReadIn(element, s, reads)
         IN  IsState(t) /\ Follows(s, t, names, PathsOf(reads, n))
<1>1. CASE Config!Present(s.root, element)
  BY <1>1, SectionReads DEF Config!ReadIn
<1>2. CASE ~Config!Present(s.root, element)
  BY <1>2, FollowsItself DEF Config!ReadIn
<1> QED BY <1>1, <1>2

StorageDone(o) ==
  /\ {"STORAGE_DRIVER", "STORAGE_CACHING_ENABLED"} \subseteq DOMAIN o
  /\ o["STORAGE_DRIVER"] = "mysql" =>
       {"STORAGE_MYSQL_HOST", "STORAGE_MYSQL_PORT", "STORAGE_MYSQL_PASSWORD",
        "STORAGE_MYSQL_SOCKET"} \subseteq DOMAIN o
  /\ o["STORAGE_DRIVER"] = "sqlite3" =>
       {"STORAGE_SQLITE_DATABASE_FILE", "STORAGE_SQLITE_SYNCHRONOUS", "STORAGE_SQLITE_RESTORE",
        "STORAGE_SQLITE_BACKUP_ENABLED", "STORAGE_SQLITE_BACKUP_INTERVAL"} \subseteq DOMAIN o

(* The driver that is in use has been read.                                *)
LEMMA DriversAreRead ==
  ASSUME NEW s, IsState(s)
  PROVE  LET u == Config!DriversRead(s)
         IN  /\ \E O, P : Follows(s, u, O, P) /\ O \cap Conditions = {}
             /\ u.ok /\ Config!OneDriver(u.root) =>
                  /\ "STORAGE_CACHING_ENABLED" \in DOMAIN u.options
                  /\ IF Config!Enabled(u.root, Config!Mysql(<<>>), "no")
                     THEN {"STORAGE_MYSQL_HOST", "STORAGE_MYSQL_PORT"} \subseteq DOMAIN u.options
                     ELSE {"STORAGE_SQLITE_DATABASE_FILE", "STORAGE_SQLITE_SYNCHRONOUS",
                           "STORAGE_SQLITE_RESTORE", "STORAGE_SQLITE_BACKUP_ENABLED",
                           "STORAGE_SQLITE_BACKUP_INTERVAL"} \subseteq DOMAIN u.options
<1> DEFINE mysql == Config!Mysql(<<>>)
           sqlite == Config!Sqlite(<<>>)
           p == Config!Mysql(<<"@enabled">>)
           q == Config!Sqlite(<<"@enabled">>)
           c == Config!AllRead(s, Config!CachingOptions)
           m == Config!ReadIn(mysql, c, Config!MysqlOn)
           d == Config!ReadIn(sqlite, m, Config!SqliteOn)
           e == Config!ReadIf(p, "yes", d, Config!MysqlOptions)
           u == Config!ReadIf(q, "yes", e, Config!SqliteOptions)
           Names(reads, n) == OptionsOf(reads, n)
<1>1. u = Config!DriversRead(s)
  BY DEF Config!DriversRead, Config!DriverRead
<1>2. /\ Append(mysql, "@enabled") = p /\ Append(sqlite, "@enabled") = q
      /\ p \notin PathsOf(Config!SqliteOptions, 5) /\ q \notin PathsOf(Config!MysqlOptions, 4)
      /\ \A i \in 1 .. 4 : ~Config!IsPrefix(sqlite, Config!MysqlOptions[i].path)
  BY PathsApart, DriverPaths DEF PathsOf
<1>3. /\ Config!SqliteOn[1].path = q /\ Config!SqliteOn[1].fits = {"yes", "no"}
  BY DEF Config!SqliteOn, Config!Option, Config!YesNo
<1> HIDE DEF mysql, sqlite, p, q
<1>4. /\ IsState(c) /\ Follows(s, c, {"STORAGE_CACHING_ENABLED"}, PathsOf(Config!CachingOptions, 1))
      /\ c.ok => "STORAGE_CACHING_ENABLED" \in DOMAIN c.options
  <2>1. "STORAGE_CACHING_ENABLED" # "none"
    OBVIOUS
  <2> QED BY <2>1, SectionReads, CachingOptionsAre, 1 \in Nat
<1> HIDE DEF c
<1>5. IsState(m) /\ Follows(c, m, {"none"}, PathsOf(Config!MysqlOn, 1))
  <2>1. Len(Config!MysqlOn) = 1 /\ OptionsOf(Config!MysqlOn, 1) = {"none"} /\ 1 \in Nat
    BY MysqlOnAre
  <2> QED BY <1>4, <2>1, InReads
<1> HIDE DEF m
<1>6. IsState(d) /\ Follows(m, d, {"none"}, PathsOf(Config!SqliteOn, 1))
  BY <1>5, InReads, SqliteOnAre, 1 \in Nat
<1>7. /\ Config!Present(m.root, sqlite) /\ d.ok => Config!Text(d.root, q) \in {"yes", "no"}
      /\ ~Config!Present(m.root, sqlite) => d = m
  <2>1. ASSUME Config!Present(m.root, sqlite), d.ok PROVE Config!Text(d.root, q) \in {"yes", "no"}
    <3>1. d = Config!AllRead(m, Config!SqliteOn)
      BY <2>1 DEF Config!ReadIn
    <3> HIDE DEF d
    <3>2. HasRead(m, d, Config!SqliteOn, 1)
      BY <1>5, <3>1, SectionReads, SqliteOnAre, 1 \in Nat
    <3>3. 1 \in 1 .. 1 /\ "" \notin Config!SqliteOn[1].fits
      BY <1>3
    <3> QED BY <1>3, <2>1, <3>2, <3>3 DEF HasRead
  <2>2. ASSUME ~Config!Present(m.root, sqlite) PROVE d = m
    BY <2>2 DEF Config!ReadIn
  <2> QED BY <2>1, <2>2
<1> HIDE DEF d
<1> DEFINE M == OptionsOf(Config!MysqlOptions, 4)
           S == OptionsOf(Config!SqliteOptions, 5)
<1>8. /\ {"STORAGE_MYSQL_HOST", "STORAGE_MYSQL_PORT"} \subseteq M
      /\ S = {"STORAGE_SQLITE_DATABASE_FILE", "STORAGE_SQLITE_SYNCHRONOUS",
              "STORAGE_SQLITE_RESTORE", "STORAGE_SQLITE_BACKUP_ENABLED",
              "STORAGE_SQLITE_BACKUP_INTERVAL"}
      /\ M \cap Conditions = {} /\ S \cap Conditions = {} /\ "none" \notin M \cup S
  BY MysqlOptionsAre, SqliteOptionsAre DEF Conditions
<1> HIDE DEF M, S
<1>9. /\ IsState(e) /\ Follows(d, e, M, PathsOf(Config!MysqlOptions, 4))
      /\ e.ok /\ Config!Text(d.root, p) = "yes" => M \ {"none"} \subseteq DOMAIN e.options
  BY <1>6, IfReads, MysqlOptionsAre, 4 \in Nat DEF M
<1>10. Config!Text(d.root, p) # "yes" => e = d
  BY DEF Config!ReadIf
<1> HIDE DEF e
<1>11. /\ IsState(u) /\ Follows(e, u, S, PathsOf(Config!SqliteOptions, 5))
       /\ u.ok /\ Config!Text(e.root, q) = "yes" => S \ {"none"} \subseteq DOMAIN u.options
  BY <1>9, IfReads, SqliteOptionsAre, 5 \in Nat DEF S
<1>12. Config!Text(e.root, q) # "yes" => u = e
  BY DEF Config!ReadIf
<1> HIDE DEF u
<1>13. \E O, P : Follows(s, u, O, P) /\ O \cap Conditions = {}
  <2> DEFINE N == {"none"}
             C == {"STORAGE_CACHING_ENABLED"}
             P1 == PathsOf(Config!CachingOptions, 1)
             P2 == PathsOf(Config!MysqlOn, 1)
             P3 == PathsOf(Config!SqliteOn, 1)
             P4 == PathsOf(Config!MysqlOptions, 4)
             P5 == PathsOf(Config!SqliteOptions, 5)
  <2>1. (((C \cup N) \cup N) \cup M \cup S) \cap Conditions = {}
    BY <1>8 DEF Conditions
  <2> HIDE DEF N, C, P1, P2, P3, P4, P5
  <2>6. Follows(s, c, C, P1) /\ Follows(c, m, N, P2) /\ Follows(m, d, N, P3)
    BY <1>4, <1>5, <1>6 DEF C, N, P1, P2, P3
  <2>2. Follows(s, m, C \cup N, P1 \cup P2)
    BY <2>6, FollowsOn
  <2>3. Follows(s, d, (C \cup N) \cup N, (P1 \cup P2) \cup P3)
    BY <2>6, <2>2, FollowsOn
  <2>4. Follows(s, e, ((C \cup N) \cup N) \cup M, ((P1 \cup P2) \cup P3) \cup P4)
    BY <1>9, <2>3, FollowsOn DEF P4
  <2>5. Follows(s, u, (((C \cup N) \cup N) \cup M) \cup S, (((P1 \cup P2) \cup P3) \cup P4) \cup P5)
    BY <1>11, <2>4, FollowsOn DEF P5
  <2> QED BY <2>1, <2>5
<1>14. ASSUME u.ok, Config!OneDriver(u.root)
       PROVE  /\ "STORAGE_CACHING_ENABLED" \in DOMAIN u.options
              /\ IF Config!Enabled(u.root, mysql, "no") THEN M \ {"none"} \subseteq DOMAIN u.options
                 ELSE S \subseteq DOMAIN u.options
  <2>1. /\ e.ok /\ d.ok /\ m.ok /\ c.ok
        /\ DOMAIN c.options \subseteq DOMAIN u.options /\ DOMAIN e.options \subseteq DOMAIN u.options
    <3>1. e.ok /\ DOMAIN e.options \subseteq DOMAIN u.options
      BY <1>11, <1>14 DEF Follows
    <3>2. d.ok /\ DOMAIN d.options \subseteq DOMAIN e.options
      BY <1>9, <3>1 DEF Follows
    <3>3. m.ok /\ DOMAIN m.options \subseteq DOMAIN d.options
      BY <1>6, <3>2 DEF Follows
    <3>4. c.ok /\ DOMAIN c.options \subseteq DOMAIN m.options
      BY <1>5, <3>3 DEF Follows
    <3> QED BY <3>1, <3>2, <3>3, <3>4
  <2>2. CASE Config!Enabled(u.root, mysql, "no")
    <3>1. Config!Text(u.root, p) = "yes"
      BY <1>2, <2>2 DEF Config!Enabled
    <3>2. Config!Text(e.root, p) = "yes"
      BY <1>2, <1>11, <3>1 DEF Follows
    <3>3. Config!Text(d.root, p) = "yes"
      BY <1>10, <3>2
    <3>4. M \ {"none"} \subseteq DOMAIN e.options
      BY <1>9, <2>1, <3>3
    <3>5. M \ {"none"} \subseteq DOMAIN u.options
      BY <2>1, <3>4
    <3>6. "STORAGE_CACHING_ENABLED" \in DOMAIN u.options
      BY <1>4, <2>1
    <3> QED BY <2>2, <3>5, <3>6
  <2>3. CASE ~Config!Enabled(u.root, mysql, "no")
    <3>1. /\ Config!Present(u.root, sqlite)
          /\ Config!Text(u.root, q) \in {"", "yes"}
      BY <1>2, <1>14, <2>3 DEF Config!OneDriver, Config!Enabled, mysql, sqlite
    <3>2. Config!Text(e.root, q) = "yes"
      <4> SUFFICES ASSUME Config!Text(e.root, q) # "yes" PROVE FALSE
        OBVIOUS
      <4>1. u = e /\ Config!Text(e.root, q) = ""
        BY <1>12, <3>1
      <4>2. Config!Text(d.root, q) = ""
        BY <1>2, <1>9, <4>1 DEF Follows
      <4>3. ~Config!Present(m.root, sqlite) /\ d = m
        BY <1>7, <2>1, <4>2
      <4>4. PICK path \in DOMAIN e.root : Config!IsPrefix(sqlite, path)
        BY <3>1, <4>1 DEF Config!Present
      <4>5. path \notin PathsOf(Config!MysqlOptions, 4)
        BY <1>2, <4>4 DEF PathsOf
      <4>6. path \in DOMAIN d.root
        BY <1>9, <4>5 DEF Follows
      <4> QED BY <4>3, <4>4, <4>6 DEF Config!Present
    <3>3. S \ {"none"} \subseteq DOMAIN u.options /\ "none" \notin S
      BY <1>8, <1>11, <1>14, <3>2
    <3>4. S \subseteq DOMAIN u.options
      BY <3>3
    <3>5. "STORAGE_CACHING_ENABLED" \in DOMAIN u.options
      BY <1>4, <2>1
    <3> QED BY <2>3, <3>4, <3>5
  <2> QED BY <2>2, <2>3
<1> QED BY <1>1, <1>8, <1>13, <1>14 DEF mysql, p, q, u, e, d, m, c

LEMMA StorageSets ==
  ASSUME NEW s, IsState(s)
  PROVE  LET t == Config!CheckedStorage(s)
         IN  IsState(t) /\ (t.ok => Keeps(s, t, {"STORAGE_DRIVER"}) /\ StorageDone(t.options))
<1> DEFINE u == Config!DriversRead(s)
           more == Config!Driver(u.root)
           t == Config!CheckedStorage(s)
<1>1. CASE ~Config!Present(s.root, Config!Storage(<<>>))
  <2>1. t = Refusing(s)
    BY <1>1 DEF Refusing, Config!CheckedStorage
  <2> QED BY <2>1, RefusedFacts
<1>2. CASE Config!Present(s.root, Config!Storage(<<>>))
  <2>1. /\ Finished(u, more, t)
        /\ t = Refusing(u) \/ Config!OneDriver(u.root)
    BY <1>2 DEF Finished, Adding, Refusing, Config!CheckedStorage, Config!Checked
  <2> DEFINE mysql == Config!Enabled(u.root, Config!Mysql(<<>>), "no")
             M == {"STORAGE_MYSQL_HOST", "STORAGE_MYSQL_PORT"}
             S == {"STORAGE_SQLITE_DATABASE_FILE", "STORAGE_SQLITE_SYNCHRONOUS",
                   "STORAGE_SQLITE_RESTORE", "STORAGE_SQLITE_BACKUP_ENABLED",
                   "STORAGE_SQLITE_BACKUP_INTERVAL"}
  <2>2. /\ \E O, P : Follows(s, u, O, P) /\ O \cap Conditions = {}
        /\ u.ok /\ Config!OneDriver(u.root) =>
             /\ "STORAGE_CACHING_ENABLED" \in DOMAIN u.options
             /\ IF mysql THEN M \subseteq DOMAIN u.options ELSE S \subseteq DOMAIN u.options
    BY DriversAreRead
  <2>3. /\ DOMAIN more \subseteq {"STORAGE_DRIVER", "STORAGE_MYSQL_SOCKET",
                                  "STORAGE_MYSQL_PASSWORD"}
        /\ "STORAGE_DRIVER" \in DOMAIN more
        /\ IF mysql THEN /\ more["STORAGE_DRIVER"] = "mysql"
                         /\ {"STORAGE_MYSQL_SOCKET", "STORAGE_MYSQL_PASSWORD"} \subseteq DOMAIN more
           ELSE more["STORAGE_DRIVER"] = "sqlite3"
    BY DEF Config!Driver
  <2> HIDE DEF u, more, t, mysql
  <2>4. PICK O, P : Follows(s, u, O, P) /\ O \cap Conditions = {}
    BY <2>2
  <2>5. Outcome(s, u, O, P, more, t)
    BY <2>1, <2>4, FinishedOutcome
  <2>6. ASSUME t.ok PROVE Keeps(s, t, {"STORAGE_DRIVER"}) /\ StorageDone(t.options)
    <3>1. /\ u.ok /\ Follows(s, t, O \cup DOMAIN more, P)
          /\ DOMAIN u.options \cup DOMAIN more \subseteq DOMAIN t.options
          /\ \A o \in DOMAIN more : t.options[o] = more[o]
      BY <2>5, <2>6 DEF Outcome
    <3>2. (O \cup DOMAIN more) \cap Conditions \subseteq {"STORAGE_DRIVER"}
      BY <2>3, <2>4 DEF Conditions
    <3>3. Keeps(s, t, {"STORAGE_DRIVER"})
      BY <2>6, <3>1, <3>2, FollowsKeeps
    <3>4. Config!OneDriver(u.root)
      <4>1. IsState(u)
        BY <2>4 DEF Follows
      <4> QED BY <2>1, <2>6, <4>1, RefusedFacts
    <3>5. /\ "STORAGE_CACHING_ENABLED" \in DOMAIN u.options
          /\ IF mysql THEN M \subseteq DOMAIN u.options ELSE S \subseteq DOMAIN u.options
      BY <2>2, <3>1, <3>4
    <3> HIDE DEF M, S
    <3>6. /\ {"STORAGE_DRIVER", "STORAGE_CACHING_ENABLED"} \subseteq DOMAIN t.options
          /\ IF mysql THEN /\ t.options["STORAGE_DRIVER"] = "mysql" /\ M \subseteq DOMAIN t.options
                           /\ {"STORAGE_MYSQL_SOCKET", "STORAGE_MYSQL_PASSWORD"} \subseteq DOMAIN
                               t.options
             ELSE t.options["STORAGE_DRIVER"] = "sqlite3" /\ S \subseteq DOMAIN t.options
      BY <2>3, <3>1, <3>5
    <3> QED BY <3>3, <3>6 DEF StorageDone, M, S
  <2> QED BY <2>5, <2>6 DEF Outcome, t
<1> QED BY <1>1, <1>2

-----------------------------------------------------------------------------
(* How far validate() is, and what the sections behind it have set: the    *)
(* inductive invariant of the configuration.                               *)
Place ==
  [find |-> 0, load |-> 0, udn |-> 0, version |-> 0, refused |-> 0,
   server |-> 1, storage |-> 2, ui |-> 3, import |-> 4, network |-> 5, scripting |-> 6,
   alive |-> 7, autoscan |-> 8, transcoding |-> 9, libraries |-> 10, played |-> 11,
   lastfm |-> 12, youtube |-> 13, services |-> 14, accepted |-> 15]

DoneBefore(n, o) ==
  /\ n > 1 => ServerDone(o)
  /\ n > 2 => StorageDone(o)
  /\ n > 3 => UIDone(o)
  /\ n > 4 => ImportDone(o)
  /\ n > 7 => AliveDone(o)
  /\ n > 8 => AutoscanDone(o)
  /\ n > 9 => TranscodingDone(o)
  /\ n > 10 => LibrariesDone(o)
  /\ n > 11 => MarkPlayedDone(o)
  /\ n > 12 => LastfmDone(o)
  /\ n > 13 => YouTubeDone(o)

ConfigInv == cm_pc \in DOMAIN Place /\ DoneBefore(Place[cm_pc], cm_options)

(* What was done stays done, but for the section whose condition changes.  *)
LEMMA KeepsDone ==
  ASSUME NEW s, NEW t, NEW own, Keeps(s, t, own)
  PROVE  /\ ServerDone(s.options) => ServerDone(t.options)
         /\ StorageDone(s.options) /\ "STORAGE_DRIVER" \notin own => StorageDone(t.options)
         /\ UIDone(s.options) => UIDone(t.options)
         /\ ImportDone(s.options) => ImportDone(t.options)
         /\ AliveDone(s.options) => AliveDone(t.options)
         /\ AutoscanDone(s.options) /\ "AUTOSCAN_USE_INOTIFY" \notin own => AutoscanDone(t.options)
         /\ TranscodingDone(s.options) /\ "TRANSCODING_PROFILE_LIST" \notin own =>
              TranscodingDone(t.options)
         /\ LibrariesDone(s.options) /\ "THUMBNAILER_ENABLED" \notin own => LibrariesDone(t.options)
         /\ MarkPlayedDone(s.options) /\ "MARK_PLAYED_ENABLED" \notin own =>
              MarkPlayedDone(t.options)
         /\ LastfmDone(s.options) /\ "LASTFM_ENABLED" \notin own => LastfmDone(t.options)
         /\ YouTubeDone(s.options) => YouTubeDone(t.options)
<1>1. ASSUME ServerDone(s.options) PROVE ServerDone(t.options)
  BY <1>1 DEF Keeps, ServerDone
<1>2. ASSUME StorageDone(s.options), "STORAGE_DRIVER" \notin own PROVE StorageDone(t.options)
  BY <1>2 DEF Keeps, StorageDone, Conditions
<1>3. ASSUME UIDone(s.options) PROVE UIDone(t.options)
  BY <1>3 DEF Keeps, UIDone
<1>4. ASSUME ImportDone(s.options) PROVE ImportDone(t.options)
  BY <1>4 DEF Keeps, ImportDone
<1>5. ASSUME AliveDone(s.options) PROVE AliveDone(t.options)
  BY <1>5 DEF Keeps, AliveDone
<1>6. ASSUME AutoscanDone(s.options), "AUTOSCAN_USE_INOTIFY" \notin own
      PROVE  AutoscanDone(t.options)
  BY <1>6 DEF Keeps, AutoscanDone, Conditions
<1>7. ASSUME TranscodingDone(s.options), "TRANSCODING_PROFILE_LIST" \notin own
      PROVE  TranscodingDone(t.options)
  BY <1>7 DEF Keeps, TranscodingDone, Conditions
<1>8. ASSUME LibrariesDone(s.options), "THUMBNAILER_ENABLED" \notin own
      PROVE  LibrariesDone(t.options)
  BY <1>8 DEF Keeps, LibrariesDone, Conditions
<1>9. ASSUME MarkPlayedDone(s.options), "MARK_PLAYED_ENABLED" \notin own
      PROVE  MarkPlayedDone(t.options)
  BY <1>9 DEF Keeps, MarkPlayedDone, Conditions
<1>10. ASSUME LastfmDone(s.options), "LASTFM_ENABLED" \notin own PROVE LastfmDone(t.options)
  BY <1>10 DEF Keeps, LastfmDone, Conditions
<1>11. ASSUME YouTubeDone(s.options) PROVE YouTubeDone(t.options)
  BY <1>11 DEF Keeps, YouTubeDone
<1> QED BY <1>1, <1>2, <1>3, <1>4, <1>5, <1>6, <1>7, <1>8, <1>9, <1>10, <1>11

LEMMA ServerStep == ConfigInv /\ Config!validateServer => ConfigInv'
<1> SUFFICES ASSUME ConfigInv, Config!validateServer PROVE ConfigInv'
  OBVIOUS
<1> DEFINE s == Config!Here
           t == Config!CheckedServer(s)
<1>1. /\ cm_pc = "server"
      /\ t.ok => cm_options' = t.options /\ cm_pc' = "storage"
      /\ ~t.ok => cm_pc' = "refused"
  BY DEF Config!validateServer, Config!Section, Config!Refuse
<1>2. IsState(s) /\ s.options = cm_options
  BY DEF IsState, Config!Here
<1> HIDE DEF s
<1>3. t.ok => Keeps(s, t, {}) /\ ServerDone(t.options)
  BY <1>2, ServerSets
<1> HIDE DEF t
<1>4. DoneBefore(1, s.options)
  BY <1>1, <1>2 DEF ConfigInv, Place
<1>5. CASE t.ok
  <2>1. DoneBefore(2, t.options)
    <3> DEFINE own == {}
    <3>1. Keeps(s, t, own)
      BY <1>3, <1>5
    <3>2. /\ "STORAGE_DRIVER" \notin own /\ "AUTOSCAN_USE_INOTIFY" \notin own
          /\ "TRANSCODING_PROFILE_LIST" \notin own /\ "THUMBNAILER_ENABLED" \notin own
          /\ "MARK_PLAYED_ENABLED" \notin own /\ "LASTFM_ENABLED" \notin own
      OBVIOUS
    <3> HIDE DEF own
    <3> QED BY <1>3, <1>4, <1>5, <3>1, <3>2, KeepsDone DEF DoneBefore
  <2> QED BY <1>1, <1>5, <2>1 DEF ConfigInv, Place
<1>6. CASE ~t.ok
  BY <1>1, <1>6 DEF ConfigInv, Place, DoneBefore
<1> QED BY <1>5, <1>6

LEMMA StorageStep == ConfigInv /\ Config!validateStorage => ConfigInv'
<1> SUFFICES ASSUME ConfigInv, Config!validateStorage PROVE ConfigInv'
  OBVIOUS
<1> DEFINE s == Config!Here
           t == Config!CheckedStorage(s)
<1>1. /\ cm_pc = "storage"
      /\ t.ok => cm_options' = t.options /\ cm_pc' = "ui"
      /\ ~t.ok => cm_pc' = "refused"
  BY DEF Config!validateStorage, Config!Section, Config!Refuse
<1>2. IsState(s) /\ s.options = cm_options
  BY DEF IsState, Config!Here
<1> HIDE DEF s
<1>3. t.ok => Keeps(s, t, {"STORAGE_DRIVER"}) /\ StorageDone(t.options)
  BY <1>2, StorageSets
<1> HIDE DEF t
<1>4. DoneBefore(2, s.options)
  BY <1>1, <1>2 DEF ConfigInv, Place
<1>5. CASE t.ok
  <2>1. DoneBefore(3, t.options)
    <3> DEFINE own == {"STORAGE_DRIVER"}
    <3>1. Keeps(s, t, own)
      BY <1>3, <1>5
    <3>2. /\ "AUTOSCAN_USE_INOTIFY" \notin own /\ "TRANSCODING_PROFILE_LIST" \notin own
          /\ "THUMBNAILER_ENABLED" \notin own /\ "MARK_PLAYED_ENABLED" \notin own
          /\ "LASTFM_ENABLED" \notin own
      OBVIOUS
    <3> HIDE DEF own
    <3> QED BY <1>3, <1>4, <1>5, <3>1, <3>2, KeepsDone DEF DoneBefore
  <2> QED BY <1>1, <1>5, <2>1 DEF ConfigInv, Place
<1>6. CASE ~t.ok
  BY <1>1, <1>6 DEF ConfigInv, Place, DoneBefore
<1> QED BY <1>5, <1>6

LEMMA UIStep == ConfigInv /\ Config!validateUI => ConfigInv'
<1> SUFFICES ASSUME ConfigInv, Config!validateUI PROVE ConfigInv'
  OBVIOUS
<1> DEFINE s == Config!Here
           t == Config!CheckedUI(s)
<1>1. /\ cm_pc = "ui"
      /\ t.ok => cm_options' = t.options /\ cm_pc' = "import"
      /\ ~t.ok => cm_pc' = "refused"
  BY DEF Config!validateUI, Config!Section, Config!Refuse
<1>2. IsState(s) /\ s.options = cm_options
  BY DEF IsState, Config!Here
<1> HIDE DEF s
<1>3. t.ok => Keeps(s, t, {}) /\ UIDone(t.options)
  BY <1>2, UISets
<1> HIDE DEF t
<1>4. DoneBefore(3, s.options)
  BY <1>1, <1>2 DEF ConfigInv, Place
<1>5. CASE t.ok
  <2>1. DoneBefore(4, t.options)
    <3> DEFINE own == {}
    <3>1. Keeps(s, t, own)
      BY <1>3, <1>5
    <3>2. /\ "STORAGE_DRIVER" \notin own /\ "AUTOSCAN_USE_INOTIFY" \notin own
          /\ "TRANSCODING_PROFILE_LIST" \notin own /\ "THUMBNAILER_ENABLED" \notin own
          /\ "MARK_PLAYED_ENABLED" \notin own /\ "LASTFM_ENABLED" \notin own
      OBVIOUS
    <3> HIDE DEF own
    <3> QED BY <1>3, <1>4, <1>5, <3>1, <3>2, KeepsDone DEF DoneBefore
  <2> QED BY <1>1, <1>5, <2>1 DEF ConfigInv, Place
<1>6. CASE ~t.ok
  BY <1>1, <1>6 DEF ConfigInv, Place, DoneBefore
<1> QED BY <1>5, <1>6

LEMMA ImportStep == ConfigInv /\ Config!validateImport => ConfigInv'
<1> SUFFICES ASSUME ConfigInv, Config!validateImport PROVE ConfigInv'
  OBVIOUS
<1> DEFINE s == Config!Here
           t == Config!CheckedImport(s)
<1>1. /\ cm_pc = "import"
      /\ t.ok => cm_options' = t.options /\ cm_pc' = "network"
      /\ ~t.ok => cm_pc' = "refused"
  BY DEF Config!validateImport, Config!Section, Config!Refuse
<1>2. IsState(s) /\ s.options = cm_options
  BY DEF IsState, Config!Here
<1> HIDE DEF s
<1>3. t.ok => Keeps(s, t, {}) /\ ImportDone(t.options)
  BY <1>2, ImportSets
<1> HIDE DEF t
<1>4. DoneBefore(4, s.options)
  BY <1>1, <1>2 DEF ConfigInv, Place
<1>5. CASE t.ok
  <2>1. DoneBefore(5, t.options)
    <3> DEFINE own == {}
    <3>1. Keeps(s, t, own)
      BY <1>3, <1>5
    <3>2. /\ "STORAGE_DRIVER" \notin own /\ "AUTOSCAN_USE_INOTIFY" \notin own
          /\ "TRANSCODING_PROFILE_LIST" \notin own /\ "THUMBNAILER_ENABLED" \notin own
          /\ "MARK_PLAYED_ENABLED" \notin own /\ "LASTFM_ENABLED" \notin own
      OBVIOUS
    <3> HIDE DEF own
    <3> QED BY <1>3, <1>4, <1>5, <3>1, <3>2, KeepsDone DEF DoneBefore
  <2> QED BY <1>1, <1>5, <2>1 DEF ConfigInv, Place
<1>6. CASE ~t.ok
  BY <1>1, <1>6 DEF ConfigInv, Place, DoneBefore
<1> QED BY <1>5, <1>6

LEMMA NetworkStep == ConfigInv /\ Config!validateNetwork => ConfigInv'
<1> SUFFICES ASSUME ConfigInv, Config!validateNetwork PROVE ConfigInv'
  OBVIOUS
<1> DEFINE s == Config!Here
           t == Config!CheckedNetwork(s)
<1>1. /\ cm_pc = "network"
      /\ t.ok => cm_options' = t.options /\ cm_pc' = "scripting"
      /\ ~t.ok => cm_pc' = "refused"
  BY DEF Config!validateNetwork, Config!Section, Config!Refuse
<1>2. IsState(s) /\ s.options = cm_options
  BY DEF IsState, Config!Here
<1> HIDE DEF s
<1>3. t.ok => Keeps(s, t, {})
  BY <1>2, NetworkSets
<1> HIDE DEF t
<1>4. DoneBefore(5, s.options)
  BY <1>1, <1>2 DEF ConfigInv, Place
<1>5. CASE t.ok
  <2>1. DoneBefore(6, t.options)
    <3> DEFINE own == {}
    <3>1. Keeps(s, t, own)
      BY <1>3, <1>5
    <3>2. /\ "STORAGE_DRIVER" \notin own /\ "AUTOSCAN_USE_INOTIFY" \notin own
          /\ "TRANSCODING_PROFILE_LIST" \notin own /\ "THUMBNAILER_ENABLED" \notin own
          /\ "MARK_PLAYED_ENABLED" \notin own /\ "LASTFM_ENABLED" \notin own
      OBVIOUS
    <3> HIDE DEF own
    <3> QED BY <1>3, <1>4, <1>5, <3>1, <3>2, KeepsDone DEF DoneBefore
  <2> QED BY <1>1, <1>5, <2>1 DEF ConfigInv, Place
<1>6. CASE ~t.ok
  BY <1>1, <1>6 DEF ConfigInv, Place, DoneBefore
<1> QED BY <1>5, <1>6

LEMMA ScriptingStep == ConfigInv /\ Config!validateScripting => ConfigInv'
<1> SUFFICES ASSUME ConfigInv, Config!validateScripting PROVE ConfigInv'
  OBVIOUS
<1> DEFINE s == Config!Here
           t == Config!CheckedScripting(s)
<1>1. /\ cm_pc = "scripting"
      /\ t.ok => cm_options' = t.options /\ cm_pc' = "alive"
      /\ ~t.ok => cm_pc' = "refused"
  BY DEF Config!validateScripting, Config!Section, Config!Refuse
<1>2. IsState(s) /\ s.options = cm_options
  BY DEF IsState, Config!Here
<1> HIDE DEF s
<1>3. t.ok => Keeps(s, t, {})
  BY <1>2, ScriptingSets
<1> HIDE DEF t
<1>4. DoneBefore(6, s.options)
  BY <1>1, <1>2 DEF ConfigInv, Place
<1>5. CASE t.ok
  <2>1. DoneBefore(7, t.options)
    <3> DEFINE own == {}
    <3>1. Keeps(s, t, own)
      BY <1>3, <1>5
    <3>2. /\ "STORAGE_DRIVER" \notin own /\ "AUTOSCAN_USE_INOTIFY" \notin own
          /\ "TRANSCODING_PROFILE_LIST" \notin own /\ "THUMBNAILER_ENABLED" \notin own
          /\ "MARK_PLAYED_ENABLED" \notin own /\ "LASTFM_ENABLED" \notin own
      OBVIOUS
    <3> HIDE DEF own
    <3> QED BY <1>3, <1>4, <1>5, <3>1, <3>2, KeepsDone DEF DoneBefore
  <2> QED BY <1>1, <1>5, <2>1 DEF ConfigInv, Place
<1>6. CASE ~t.ok
  BY <1>1, <1>6 DEF ConfigInv, Place, DoneBefore
<1> QED BY <1>5, <1>6

LEMMA AliveStep == ConfigInv /\ Config!validateAlive => ConfigInv'
<1> SUFFICES ASSUME ConfigInv, Config!validateAlive PROVE ConfigInv'
  OBVIOUS
<1> DEFINE s == Config!Here
           t == Config!CheckedAlive(s)
<1>1. /\ cm_pc = "alive"
      /\ t.ok => cm_options' = t.options /\ cm_pc' = "autoscan"
      /\ ~t.ok => cm_pc' = "refused"
  BY DEF Config!validateAlive, Config!Section, Config!Refuse
<1>2. IsState(s) /\ s.options = cm_options
  BY DEF IsState, Config!Here
<1> HIDE DEF s
<1>3. t.ok => Keeps(s, t, {}) /\ AliveDone(t.options)
  BY <1>2, AliveSets
<1> HIDE DEF t
<1>4. DoneBefore(7, s.options)
  BY <1>1, <1>2 DEF ConfigInv, Place
<1>5. CASE t.ok
  <2>1. DoneBefore(8, t.options)
    <3> DEFINE own == {}
    <3>1. Keeps(s, t, own)
      BY <1>3, <1>5
    <3>2. /\ "STORAGE_DRIVER" \notin own /\ "AUTOSCAN_USE_INOTIFY" \notin own
          /\ "TRANSCODING_PROFILE_LIST" \notin own /\ "THUMBNAILER_ENABLED" \notin own
          /\ "MARK_PLAYED_ENABLED" \notin own /\ "LASTFM_ENABLED" \notin own
      OBVIOUS
    <3> HIDE DEF own
    <3> QED BY <1>3, <1>4, <1>5, <3>1, <3>2, KeepsDone DEF DoneBefore
  <2> QED BY <1>1, <1>5, <2>1 DEF ConfigInv, Place
<1>6. CASE ~t.ok
  BY <1>1, <1>6 DEF ConfigInv, Place, DoneBefore
<1> QED BY <1>5, <1>6

LEMMA AutoscanStep == ConfigInv /\ Config!validateAutoscan => ConfigInv'
<1> SUFFICES ASSUME ConfigInv, Config!validateAutoscan PROVE ConfigInv'
  OBVIOUS
<1> DEFINE s == Config!Here
           t == Config!CheckedAutoscan(s)
<1>1. /\ cm_pc = "autoscan"
      /\ t.ok => cm_options' = t.options /\ cm_pc' = "transcoding"
      /\ ~t.ok => cm_pc' = "refused"
  BY DEF Config!validateAutoscan, Config!Section, Config!Refuse
<1>2. IsState(s) /\ s.options = cm_options
  BY DEF IsState, Config!Here
<1> HIDE DEF s
<1>3. t.ok => Keeps(s, t, {"AUTOSCAN_USE_INOTIFY"}) /\ AutoscanDone(t.options)
  BY <1>2, AutoscanSets
<1> HIDE DEF t
<1>4. DoneBefore(8, s.options)
  BY <1>1, <1>2 DEF ConfigInv, Place
<1>5. CASE t.ok
  <2>1. DoneBefore(9, t.options)
    <3> DEFINE own == {"AUTOSCAN_USE_INOTIFY"}
    <3>1. Keeps(s, t, own)
      BY <1>3, <1>5
    <3>2. /\ "STORAGE_DRIVER" \notin own /\ "TRANSCODING_PROFILE_LIST" \notin own
          /\ "THUMBNAILER_ENABLED" \notin own /\ "MARK_PLAYED_ENABLED" \notin own
          /\ "LASTFM_ENABLED" \notin own
      OBVIOUS
    <3> HIDE DEF own
    <3> QED BY <1>3, <1>4, <1>5, <3>1, <3>2, KeepsDone DEF DoneBefore
  <2> QED BY <1>1, <1>5, <2>1 DEF ConfigInv, Place
<1>6. CASE ~t.ok
  BY <1>1, <1>6 DEF ConfigInv, Place, DoneBefore
<1> QED BY <1>5, <1>6

LEMMA TranscodingStep == ConfigInv /\ Config!validateTranscoding => ConfigInv'
<1> SUFFICES ASSUME ConfigInv, Config!validateTranscoding PROVE ConfigInv'
  OBVIOUS
<1> DEFINE s == Config!Here
           t == Config!CheckedTranscoding(s)
<1>1. /\ cm_pc = "transcoding"
      /\ t.ok => cm_options' = t.options /\ cm_pc' = "libraries"
      /\ ~t.ok => cm_pc' = "refused"
  BY DEF Config!validateTranscoding, Config!Section, Config!Refuse
<1>2. IsState(s) /\ s.options = cm_options
  BY DEF IsState, Config!Here
<1> HIDE DEF s
<1>3. t.ok => Keeps(s, t, {"TRANSCODING_PROFILE_LIST"}) /\ TranscodingDone(t.options)
  BY <1>2, TranscodingSets
<1> HIDE DEF t
<1>4. DoneBefore(9, s.options)
  BY <1>1, <1>2 DEF ConfigInv, Place
<1>5. CASE t.ok
  <2>1. DoneBefore(10, t.options)
    <3> DEFINE own == {"TRANSCODING_PROFILE_LIST"}
    <3>1. Keeps(s, t, own)
      BY <1>3, <1>5
    <3>2. /\ "STORAGE_DRIVER" \notin own /\ "AUTOSCAN_USE_INOTIFY" \notin own
          /\ "THUMBNAILER_ENABLED" \notin own /\ "MARK_PLAYED_ENABLED" \notin own
          /\ "LASTFM_ENABLED" \notin own
      OBVIOUS
    <3> HIDE DEF own
    <3> QED BY <1>3, <1>4, <1>5, <3>1, <3>2, KeepsDone DEF DoneBefore
  <2> QED BY <1>1, <1>5, <2>1 DEF ConfigInv, Place
<1>6. CASE ~t.ok
  BY <1>1, <1>6 DEF ConfigInv, Place, DoneBefore
<1> QED BY <1>5, <1>6

LEMMA LibrariesStep == ConfigInv /\ Config!validateLibraries => ConfigInv'
<1> SUFFICES ASSUME ConfigInv, Config!validateLibraries PROVE ConfigInv'
  OBVIOUS
<1> DEFINE s == Config!Here
           t == Config!CheckedLibraries(s)
<1>1. /\ cm_pc = "libraries"
      /\ t.ok => cm_options' = t.options /\ cm_pc' = "played"
      /\ ~t.ok => cm_pc' = "refused"
  BY DEF Config!validateLibraries, Config!Section, Config!Refuse
<1>2. IsState(s) /\ s.options = cm_options
  BY DEF IsState, Config!Here
<1> HIDE DEF s
<1>3. t.ok => Keeps(s, t, {"THUMBNAILER_ENABLED"}) /\ LibrariesDone(t.options)
  BY <1>2, LibrariesSets
<1> HIDE DEF t
<1>4. DoneBefore(10, s.options)
  BY <1>1, <1>2 DEF ConfigInv, Place
<1>5. CASE t.ok
  <2>1. DoneBefore(11, t.options)
    <3> DEFINE own == {"THUMBNAILER_ENABLED"}
    <3>1. Keeps(s, t, own)
      BY <1>3, <1>5
    <3>2. /\ "STORAGE_DRIVER" \notin own /\ "AUTOSCAN_USE_INOTIFY" \notin own
          /\ "TRANSCODING_PROFILE_LIST" \notin own /\ "MARK_PLAYED_ENABLED" \notin own
          /\ "LASTFM_ENABLED" \notin own
      OBVIOUS
    <3> HIDE DEF own
    <3> QED BY <1>3, <1>4, <1>5, <3>1, <3>2, KeepsDone DEF DoneBefore
  <2> QED BY <1>1, <1>5, <2>1 DEF ConfigInv, Place
<1>6. CASE ~t.ok
  BY <1>1, <1>6 DEF ConfigInv, Place, DoneBefore
<1> QED BY <1>5, <1>6

LEMMA MarkPlayedStep == ConfigInv /\ Config!validateMarkPlayed => ConfigInv'
<1> SUFFICES ASSUME ConfigInv, Config!validateMarkPlayed PROVE ConfigInv'
  OBVIOUS
<1> DEFINE s == Config!Here
           t == Config!CheckedMarkPlayed(s)
<1>1. /\ cm_pc = "played"
      /\ t.ok => cm_options' = t.options /\ cm_pc' = "lastfm"
      /\ ~t.ok => cm_pc' = "refused"
  BY DEF Config!validateMarkPlayed, Config!Section, Config!Refuse
<1>2. IsState(s) /\ s.options = cm_options
  BY DEF IsState, Config!Here
<1> HIDE DEF s
<1>3. t.ok => Keeps(s, t, {"MARK_PLAYED_ENABLED"}) /\ MarkPlayedDone(t.options)
  BY <1>2, MarkPlayedSets
<1> HIDE DEF t
<1>4. DoneBefore(11, s.options)
  BY <1>1, <1>2 DEF ConfigInv, Place
<1>5. CASE t.ok
  <2>1. DoneBefore(12, t.options)
    <3> DEFINE own == {"MARK_PLAYED_ENABLED"}
    <3>1. Keeps(s, t, own)
      BY <1>3, <1>5
    <3>2. /\ "STORAGE_DRIVER" \notin own /\ "AUTOSCAN_USE_INOTIFY" \notin own
          /\ "TRANSCODING_PROFILE_LIST" \notin own /\ "THUMBNAILER_ENABLED" \notin own
          /\ "LASTFM_ENABLED" \notin own
      OBVIOUS
    <3> HIDE DEF own
    <3> QED BY <1>3, <1>4, <1>5, <3>1, <3>2, KeepsDone DEF DoneBefore
  <2> QED BY <1>1, <1>5, <2>1 DEF ConfigInv, Place
<1>6. CASE ~t.ok
  BY <1>1, <1>6 DEF ConfigInv, Place, DoneBefore
<1> QED BY <1>5, <1>6

LEMMA LastfmStep == ConfigInv /\ Config!validateLastfm => ConfigInv'
<1> SUFFICES ASSUME ConfigInv, Config!validateLastfm PROVE ConfigInv'
  OBVIOUS
<1> DEFINE s == Config!Here
           t == Config!CheckedLastfm(s)
<1>1. /\ cm_pc = "lastfm"
      /\ t.ok => cm_options' = t.options /\ cm_pc' = "youtube"
      /\ ~t.ok => cm_pc' = "refused"
  BY DEF Config!validateLastfm, Config!Section, Config!Refuse
<1>2. IsState(s) /\ s.options = cm_options
  BY DEF IsState, Config!Here
<1> HIDE DEF s
<1>3. t.ok => Keeps(s, t, {"LASTFM_ENABLED"}) /\ LastfmDone(t.options)
  BY <1>2, LastfmSets
<1> HIDE DEF t
<1>4. DoneBefore(12, s.options)
  BY <1>1, <1>2 DEF ConfigInv, Place
<1>5. CASE t.ok
  <2>1. DoneBefore(13, t.options)
    <3> DEFINE own == {"LASTFM_ENABLED"}
    <3>1. Keeps(s, t, own)
      BY <1>3, <1>5
    <3>2. /\ "STORAGE_DRIVER" \notin own /\ "AUTOSCAN_USE_INOTIFY" \notin own
          /\ "TRANSCODING_PROFILE_LIST" \notin own /\ "THUMBNAILER_ENABLED" \notin own
          /\ "MARK_PLAYED_ENABLED" \notin own
      OBVIOUS
    <3> HIDE DEF own
    <3> QED BY <1>3, <1>4, <1>5, <3>1, <3>2, KeepsDone DEF DoneBefore
  <2> QED BY <1>1, <1>5, <2>1 DEF ConfigInv, Place
<1>6. CASE ~t.ok
  BY <1>1, <1>6 DEF ConfigInv, Place, DoneBefore
<1> QED BY <1>5, <1>6

LEMMA YouTubeStep == ConfigInv /\ Config!validateYouTube => ConfigInv'
<1> SUFFICES ASSUME ConfigInv, Config!validateYouTube PROVE ConfigInv'
  OBVIOUS
<1> DEFINE s == Config!Here
           t == Config!CheckedYouTube(s)
<1>1. /\ cm_pc = "youtube"
      /\ t.ok => cm_options' = t.options /\ cm_pc' = "services"
      /\ ~t.ok => cm_pc' = "refused"
  BY DEF Config!validateYouTube, Config!Section, Config!Refuse
<1>2. IsState(s) /\ s.options = cm_options
  BY DEF IsState, Config!Here
<1> HIDE DEF s
<1>3. t.ok => Keeps(s, t, {}) /\ YouTubeDone(t.options)
  BY <1>2, YouTubeSets
<1> HIDE DEF t
<1>4. DoneBefore(13, s.options)
  BY <1>1, <1>2 DEF ConfigInv, Place
<1>5. CASE t.ok
  <2>1. DoneBefore(14, t.options)
    <3> DEFINE own == {}
    <3>1. Keeps(s, t, own)
      BY <1>3, <1>5
    <3>2. /\ "STORAGE_DRIVER" \notin own /\ "AUTOSCAN_USE_INOTIFY" \notin own
          /\ "TRANSCODING_PROFILE_LIST" \notin own /\ "THUMBNAILER_ENABLED" \notin own
          /\ "MARK_PLAYED_ENABLED" \notin own /\ "LASTFM_ENABLED" \notin own
      OBVIOUS
    <3> HIDE DEF own
    <3> QED BY <1>3, <1>4, <1>5, <3>1, <3>2, KeepsDone DEF DoneBefore
  <2> QED BY <1>1, <1>5, <2>1 DEF ConfigInv, Place
<1>6. CASE ~t.ok
  BY <1>1, <1>6 DEF ConfigInv, Place, DoneBefore
<1> QED BY <1>5, <1>6

LEMMA ServicesStep == ConfigInv /\ Config!validateServices => ConfigInv'
<1> SUFFICES ASSUME ConfigInv, Config!validateServices PROVE ConfigInv'
  OBVIOUS
<1> DEFINE s == Config!Here
           t == Config!CheckedServices(s)
<1>1. /\ cm_pc = "services"
      /\ t.ok => cm_options' = t.options /\ cm_pc' = "accepted"
      /\ ~t.ok => cm_pc' = "refused"
  BY DEF Config!validateServices, Config!Section, Config!Refuse
<1>2. IsState(s) /\ s.options = cm_options
  BY DEF IsState, Config!Here
<1> HIDE DEF s
<1>3. t.ok => Keeps(s, t, {})
  BY <1>2, ServicesSets
<1> HIDE DEF t
<1>4. DoneBefore(14, s.options)
  BY <1>1, <1>2 DEF ConfigInv, Place
<1>5. CASE t.ok
  <2>1. DoneBefore(15, t.options)
    <3> DEFINE own == {}
    <3>1. Keeps(s, t, own)
      BY <1>3, <1>5
    <3>2. /\ "STORAGE_DRIVER" \notin own /\ "AUTOSCAN_USE_INOTIFY" \notin own
          /\ "TRANSCODING_PROFILE_LIST" \notin own /\ "THUMBNAILER_ENABLED" \notin own
          /\ "MARK_PLAYED_ENABLED" \notin own /\ "LASTFM_ENABLED" \notin own
      OBVIOUS
    <3> HIDE DEF own
    <3> QED BY <1>3, <1>4, <1>5, <3>1, <3>2, KeepsDone DEF DoneBefore
  <2> QED BY <1>1, <1>5, <2>1 DEF ConfigInv, Place
<1>6. CASE ~t.ok
  BY <1>1, <1>6 DEF ConfigInv, Place, DoneBefore
<1> QED BY <1>5, <1>6

(* Every reader finds the option it asks for, in any file that validate()  *)
(* accepts: for any settings of older files and any changes of users, with *)
(* inotify or without (validate(), config_manager.cc:836-2072).            *)
THEOREM AcceptedFilesAreComplete == Config!Spec => []AcceptedIsComplete
<1>1. Config!Init => ConfigInv
  BY DEF Config!Init, ConfigInv, Place, DoneBefore
<1>2. ConfigInv /\ [Config!Next]_cm_vars => ConfigInv'
  <2> SUFFICES ASSUME ConfigInv, [Config!Next]_cm_vars PROVE ConfigInv'
    OBVIOUS
  <2>1. ASSUME cm_pc' \in {"find", "load", "udn", "version", "refused", "server"} PROVE ConfigInv'
    BY <2>1 DEF ConfigInv, Place, DoneBefore
  <2>2. CASE Config!createDefaultConfig
    BY <2>1, <2>2 DEF Config!createDefaultConfig, Config!Saves, Config!Refuse
  <2>3. CASE Config!load
    BY <2>1, <2>3 DEF Config!load, Config!Refuse
  <2>4. CASE Config!prepare_udn
    BY <2>1, <2>4 DEF Config!prepare_udn, Config!Saves, Config!Refuse
  <2>5. CASE Config!migrate
    BY <2>1, <2>5 DEF Config!migrate, Config!Saves, Config!Refuse
  <2>6. CASE Config!Restart
    BY <2>1, <2>6 DEF Config!Restart
  <2>7. CASE Config!validate
    BY <2>7, ServerStep, StorageStep, UIStep, ImportStep, NetworkStep, ScriptingStep,
         AliveStep, AutoscanStep, TranscodingStep, LibrariesStep, MarkPlayedStep, LastfmStep,
         YouTubeStep, ServicesStep DEF Config!validate
  <2>8. CASE UNCHANGED cm_vars
    BY <2>8 DEF cm_vars, ConfigInv
  <2> QED BY <2>2, <2>3, <2>4, <2>5, <2>6, <2>7, <2>8 DEF Config!Next
<1>3. ConfigInv => AcceptedIsComplete
  <2> SUFFICES ASSUME ConfigInv, cm_pc = "accepted", NEW r \in Config!Readers,
                      r.when = <<>> \/ cm_options[r.when[1]] = r.when[2]
               PROVE  r.o \in DOMAIN cm_options
    BY DEF AcceptedIsComplete, Config!AcceptedIsComplete
  <2>1. /\ ServerDone(cm_options)
        /\ StorageDone(cm_options)
        /\ UIDone(cm_options)
        /\ ImportDone(cm_options)
        /\ AliveDone(cm_options)
        /\ AutoscanDone(cm_options)
        /\ TranscodingDone(cm_options)
        /\ LibrariesDone(cm_options)
        /\ MarkPlayedDone(cm_options)
        /\ LastfmDone(cm_options)
        /\ YouTubeDone(cm_options)
    BY DEF ConfigInv, Place, DoneBefore
  <2>2. CASE r.when = <<>>
    <3>1. r.o \in
        {"SERVER_HOME", "SERVER_WEBROOT", "SERVER_TMPDIR", "SERVER_SERVEDIR", "SERVER_UDN",
         "STORAGE_DRIVER", "STORAGE_CACHING_ENABLED", "UI_ENABLED", "UI_POLL_INTERVAL",
         "UI_DEFAULT_ITEMS_PER_PAGE", "UI_ITEMS_PER_PAGE_DROPDOWN", "UI_ACCOUNT_LIST",
         "UI_SESSION_TIMEOUT", "EXTENSION_TO_MIMETYPE_LIST", "MIMETYPE_TO_CONTENTTYPE_LIST",
         "MIMETYPE_TO_UPNP_CLASS_LIST", "AUTOSCAN_TIMED_LIST", "AUTOSCAN_USE_INOTIFY",
         "TRANSCODING_PROFILE_LIST", "CUSTOM_HTTP_HEADERS", "ID3_AUXDATA_TAGS_LIST",
         "MARK_PLAYED_ENABLED", "LASTFM_ENABLED", "YOUTUBE_TASK_LIST", "MAGIC_FILE"}
      BY <2>2 DEF Config!Readers
    <3> QED BY <2>1, <3>1 DEF ServerDone, StorageDone, UIDone, ImportDone, AliveDone,
         AutoscanDone, TranscodingDone, LibrariesDone, MarkPlayedDone, LastfmDone, YouTubeDone
  <2>3. CASE r.when = <<"STORAGE_DRIVER", "mysql">>
    <3>1. /\ r.o \in {"STORAGE_MYSQL_HOST", "STORAGE_MYSQL_PORT", "STORAGE_MYSQL_PASSWORD",
                      "STORAGE_MYSQL_SOCKET"}
          /\ cm_options["STORAGE_DRIVER"] = "mysql"
      BY <2>3 DEF Config!Readers
    <3> QED BY <2>1, <3>1 DEF StorageDone
  <2>4. CASE r.when = <<"STORAGE_DRIVER", "sqlite3">>
    <3>1. /\ r.o \in {"STORAGE_SQLITE_DATABASE_FILE", "STORAGE_SQLITE_SYNCHRONOUS",
                      "STORAGE_SQLITE_RESTORE", "STORAGE_SQLITE_BACKUP_ENABLED",
                      "STORAGE_SQLITE_BACKUP_INTERVAL"}
          /\ cm_options["STORAGE_DRIVER"] = "sqlite3"
      BY <2>4 DEF Config!Readers
    <3> QED BY <2>1, <3>1 DEF StorageDone
  <2>5. CASE r.when = <<"AUTOSCAN_USE_INOTIFY", "yes">>
    <3>1. /\ r.o \in {"AUTOSCAN_INOTIFY_LIST"}
          /\ cm_options["AUTOSCAN_USE_INOTIFY"] = "yes"
      BY <2>5 DEF Config!Readers
    <3> QED BY <2>1, <3>1 DEF AutoscanDone
  <2>6. CASE r.when = <<"TRANSCODING_PROFILE_LIST", "good">>
    <3>1. /\ r.o \in {"TRANSCODING_CURL_BUFFER_SIZE", "TRANSCODING_CURL_FILL_SIZE"}
          /\ cm_options["TRANSCODING_PROFILE_LIST"] = "good"
      BY <2>6 DEF Config!Readers
    <3> QED BY <2>1, <3>1 DEF TranscodingDone
  <2>7. CASE r.when = <<"THUMBNAILER_ENABLED", "yes">>
    <3>1. /\ r.o \in {"THUMBNAILER_THUMBSIZE", "THUMBNAILER_CACHE_DIR",
                      "THUMBNAILER_CACHE_DIR_ENABLED", "THUMBNAILER_IMAGE_QUALITY"}
          /\ cm_options["THUMBNAILER_ENABLED"] = "yes"
      BY <2>7 DEF Config!Readers
    <3> QED BY <2>1, <3>1 DEF LibrariesDone
  <2>8. CASE r.when = <<"MARK_PLAYED_ENABLED", "yes">>
    <3>1. /\ r.o \in {"MARK_PLAYED_CONTENT_LIST"}
          /\ cm_options["MARK_PLAYED_ENABLED"] = "yes"
      BY <2>8 DEF Config!Readers
    <3> QED BY <2>1, <3>1 DEF MarkPlayedDone
  <2>9. CASE r.when = <<"LASTFM_ENABLED", "yes">>
    <3>1. /\ r.o \in {"LASTFM_USERNAME", "LASTFM_PASSWORD"}
          /\ cm_options["LASTFM_ENABLED"] = "yes"
      BY <2>9 DEF Config!Readers
    <3> QED BY <2>1, <3>1 DEF LastfmDone
  <2> QED BY <2>2, <2>3, <2>4, <2>5, <2>6, <2>7, <2>8, <2>9 DEF Config!Readers
<1>4. [Config!Next]_(Config!vars) => [Config!Next]_cm_vars
  BY DEF Config!vars, cm_vars
<1> QED BY <1>1, <1>2, <1>3, <1>4, PTL DEF Config!Spec

-----------------------------------------------------------------------------
(* The second start: what the sections make of a document is a function of *)
(* the document, and a document that was accepted needs no change at its   *)
(* head.                                                                   *)
AtServer(doc) == [root |-> doc, options |-> Config!Nothing, ok |-> TRUE]
AtStorage(doc) == Config!CheckedServer(AtServer(doc))
AtUI(doc) == Config!CheckedStorage(AtStorage(doc))
AtImport(doc) == Config!CheckedUI(AtUI(doc))
AtNetwork(doc) == Config!CheckedImport(AtImport(doc))
AtScripting(doc) == Config!CheckedNetwork(AtNetwork(doc))
AtAlive(doc) == Config!CheckedScripting(AtScripting(doc))
AtAutoscan(doc) == Config!CheckedAlive(AtAlive(doc))
AtTranscoding(doc) == Config!CheckedAutoscan(AtAutoscan(doc))
AtLibraries(doc) == Config!CheckedTranscoding(AtTranscoding(doc))
AtPlayed(doc) == Config!CheckedLibraries(AtLibraries(doc))
AtLastfm(doc) == Config!CheckedMarkPlayed(AtPlayed(doc))
AtYouTube(doc) == Config!CheckedLastfm(AtLastfm(doc))
AtServices(doc) == Config!CheckedYouTube(AtYouTube(doc))
AtAccepted(doc) == Config!CheckedServices(AtServices(doc))

Udn == <<"server", "udn">>
Version == <<"@version">>
Settled(doc) ==
  /\ Config!Text(doc, Udn) # ""
  /\ Config!Text(doc, Version) # "" /\ Config!toInt(Config!Text(doc, Version)) # 1
  /\ ~(Config!toInt(Config!Text(doc, Version)) > 2)

Is(s, r, o) == s.ok /\ r = s.root /\ o = s.options
Validating == {"server", "storage", "ui", "import", "network", "scripting", "alive", "autoscan",
               "transcoding", "libraries", "played", "lastfm", "youtube", "services", "accepted"}

(* What memory holds when a section comes next.                            *)
Reached(pc, doc, r, o) ==
  /\ pc = "server" => Is(AtServer(doc), r, o)
  /\ pc = "storage" => Is(AtStorage(doc), r, o)
  /\ pc = "ui" => Is(AtUI(doc), r, o)
  /\ pc = "import" => Is(AtImport(doc), r, o)
  /\ pc = "network" => Is(AtNetwork(doc), r, o)
  /\ pc = "scripting" => Is(AtScripting(doc), r, o)
  /\ pc = "alive" => Is(AtAlive(doc), r, o)
  /\ pc = "autoscan" => Is(AtAutoscan(doc), r, o)
  /\ pc = "transcoding" => Is(AtTranscoding(doc), r, o)
  /\ pc = "libraries" => Is(AtLibraries(doc), r, o)
  /\ pc = "played" => Is(AtPlayed(doc), r, o)
  /\ pc = "lastfm" => Is(AtLastfm(doc), r, o)
  /\ pc = "youtube" => Is(AtYouTube(doc), r, o)
  /\ pc = "services" => Is(AtServices(doc), r, o)
  /\ pc = "accepted" => Is(AtAccepted(doc), r, o)

SecondInv ==
  /\ cm_pc \in DOMAIN Place /\ cm_starts \in 1 .. 2
  /\ cm_pc \in {"find", "load", "udn", "version"} => cm_options = Config!Nothing
  /\ cm_pc \in {"udn", "version"} => cm_root = cm_file
  /\ cm_pc = "version" /\ Config!Present(cm_file, <<"server">>) => Config!Text(cm_file, Udn) # ""
  /\ cm_pc \in Validating => Settled(cm_file)
  /\ Reached(cm_pc, cm_file, cm_root, cm_options)
  /\ cm_before # Config!Nothing =>
       /\ cm_starts = 2 /\ ~cm_migrated /\ ~cm_created /\ cm_pc # "refused"
       /\ Settled(cm_file) /\ AtAccepted(cm_file).ok
       /\ cm_before = AtAccepted(cm_file).options

(* Who comes to the end has passed every section.                          *)
LEMMA AllPassed ==
  ASSUME NEW doc
  PROVE  /\ IsState(AtServer(doc))
         /\ IsState(AtStorage(doc))
         /\ IsState(AtUI(doc))
         /\ IsState(AtImport(doc))
         /\ IsState(AtNetwork(doc))
         /\ IsState(AtScripting(doc))
         /\ IsState(AtAlive(doc))
         /\ IsState(AtAutoscan(doc))
         /\ IsState(AtTranscoding(doc))
         /\ IsState(AtLibraries(doc))
         /\ IsState(AtPlayed(doc))
         /\ IsState(AtLastfm(doc))
         /\ IsState(AtYouTube(doc))
         /\ IsState(AtServices(doc))
         /\ IsState(AtAccepted(doc))
         /\ AtAccepted(doc).ok => AtServer(doc).ok
         /\ AtAccepted(doc).ok => AtStorage(doc).ok
         /\ AtAccepted(doc).ok => AtUI(doc).ok
         /\ AtAccepted(doc).ok => AtImport(doc).ok
         /\ AtAccepted(doc).ok => AtNetwork(doc).ok
         /\ AtAccepted(doc).ok => AtScripting(doc).ok
         /\ AtAccepted(doc).ok => AtAlive(doc).ok
         /\ AtAccepted(doc).ok => AtAutoscan(doc).ok
         /\ AtAccepted(doc).ok => AtTranscoding(doc).ok
         /\ AtAccepted(doc).ok => AtLibraries(doc).ok
         /\ AtAccepted(doc).ok => AtPlayed(doc).ok
         /\ AtAccepted(doc).ok => AtLastfm(doc).ok
         /\ AtAccepted(doc).ok => AtYouTube(doc).ok
         /\ AtAccepted(doc).ok => AtServices(doc).ok
<1>1. IsState(AtServer(doc))
  BY DEF IsState, AtServer
<1>2. IsState(AtStorage(doc)) /\ (AtStorage(doc).ok => AtServer(doc).ok)
  BY <1>1, ServerSets DEF Keeps, AtStorage
<1>3. IsState(AtUI(doc)) /\ (AtUI(doc).ok => AtStorage(doc).ok)
  BY <1>2, StorageSets DEF Keeps, AtUI
<1>4. IsState(AtImport(doc)) /\ (AtImport(doc).ok => AtUI(doc).ok)
  BY <1>3, UISets DEF Keeps, AtImport
<1>5. IsState(AtNetwork(doc)) /\ (AtNetwork(doc).ok => AtImport(doc).ok)
  BY <1>4, ImportSets DEF Keeps, AtNetwork
<1>6. IsState(AtScripting(doc)) /\ (AtScripting(doc).ok => AtNetwork(doc).ok)
  BY <1>5, NetworkSets DEF Keeps, AtScripting
<1>7. IsState(AtAlive(doc)) /\ (AtAlive(doc).ok => AtScripting(doc).ok)
  BY <1>6, ScriptingSets DEF Keeps, AtAlive
<1>8. IsState(AtAutoscan(doc)) /\ (AtAutoscan(doc).ok => AtAlive(doc).ok)
  BY <1>7, AliveSets DEF Keeps, AtAutoscan
<1>9. IsState(AtTranscoding(doc)) /\ (AtTranscoding(doc).ok => AtAutoscan(doc).ok)
  BY <1>8, AutoscanSets DEF Keeps, AtTranscoding
<1>10. IsState(AtLibraries(doc)) /\ (AtLibraries(doc).ok => AtTranscoding(doc).ok)
  BY <1>9, TranscodingSets DEF Keeps, AtLibraries
<1>11. IsState(AtPlayed(doc)) /\ (AtPlayed(doc).ok => AtLibraries(doc).ok)
  BY <1>10, LibrariesSets DEF Keeps, AtPlayed
<1>12. IsState(AtLastfm(doc)) /\ (AtLastfm(doc).ok => AtPlayed(doc).ok)
  BY <1>11, MarkPlayedSets DEF Keeps, AtLastfm
<1>13. IsState(AtYouTube(doc)) /\ (AtYouTube(doc).ok => AtLastfm(doc).ok)
  BY <1>12, LastfmSets DEF Keeps, AtYouTube
<1>14. IsState(AtServices(doc)) /\ (AtServices(doc).ok => AtYouTube(doc).ok)
  BY <1>13, YouTubeSets DEF Keeps, AtServices
<1>15. IsState(AtAccepted(doc)) /\ (AtAccepted(doc).ok => AtServices(doc).ok)
  BY <1>14, ServicesSets DEF Keeps, AtAccepted
<1> QED BY <1>1, <1>2, <1>3, <1>4, <1>5, <1>6, <1>7, <1>8, <1>9, <1>10, <1>11, <1>12, <1>13,
     <1>14, <1>15

(* What migrate() keeps and writes.                                        *)
LEMMA TextStays ==
  ASSUME NEW dom, NEW q, Config!Text(dom, q) # ""
  PROVE  /\ \A p, text : p # q => Config!Text(Config!With(dom, p, text), q) # ""
         /\ \A section : Config!Text(Config!Then(dom, section), q) # ""
         /\ \A path, section : Config!Text(Config!Unless(path, dom, section), q) # ""
         /\ \A element, name, text : Config!Text(Config!WithAttribute(element, name, text, dom),
              q) # ""
<1>1. q \in DOMAIN dom /\ Config!Text(dom, q) = dom[q]
  BY DEF Config!Text
<1>2. ASSUME NEW p, NEW text, p # q PROVE Config!Text(Config!With(dom, p, text), q) # ""
  BY <1>1, <1>2 DEF Config!Text, Config!With
<1>3. ASSUME NEW section PROVE Config!Text(Config!Then(dom, section), q) # ""
  BY <1>1 DEF Config!Text, Config!Then
<1>4. ASSUME NEW path, NEW section PROVE Config!Text(Config!Unless(path, dom, section), q) # ""
  BY <1>3 DEF Config!Unless
<1>5. ASSUME NEW element, NEW name, NEW text
      PROVE  Config!Text(Config!WithAttribute(element, name, text, dom), q) # ""
  BY <1>1, <1>2 DEF Config!WithAttribute
<1> QED BY <1>2, <1>3, <1>4, <1>5

LEMMA PathsOfHead ==
  /\ Version # Udn /\ Config!Mappings(<<"mimetype-contenttype", "treat">>) # Udn
  /\ Config!IsPrefix(<<"server">>, Udn) /\ ~Config!IsPrefix(Config!Storage(<<>>), Udn)
<1>1. Version # Udn
  BY DEF Version, Udn
<1>2. Config!Mappings(<<"mimetype-contenttype", "treat">>)[1] = "import" /\ Udn[1] = "server"
  BY DEF Config!Mappings, Udn
<1> DEFINE W == {"server", "udn", "storage"}
           s == Config!Storage(<<>>)
           h == <<"server">>
<1>3. Udn \in Seq(W) /\ Len(Udn) = 2 /\ Udn[1] = "server" /\ Udn[2] = "udn"
  BY DEF Udn
<1>4. s \in Seq(W) /\ Len(s) = 2 /\ s[2] = "storage"
  BY DEF Config!Storage
<1>5. h \in Seq(W) /\ Len(h) = 1 /\ h[1] = "server"
  OBVIOUS
<1> HIDE DEF W, s, h
<1>6. ~Config!IsPrefix(s, Udn)
  <2>1. SubSeq(s, 1, 2)[2] = s[2] /\ SubSeq(Udn, 1, 2)[2] = Udn[2]
    BY <1>3, <1>4
  <2> QED BY <1>3, <1>4, <2>1 DEF Config!IsPrefix
<1>7. Config!IsPrefix(h, Udn)
  <2> DEFINE a == SubSeq(h, 1, 1)
             b == SubSeq(Udn, 1, 1)
  <2>1. a \in Seq(W) /\ Len(a) = 1 /\ a[1] = h[1]
    BY <1>5
  <2>2. b \in Seq(W) /\ Len(b) = 1 /\ b[1] = Udn[1]
    BY <1>3
  <2> HIDE DEF a, b
  <2>3. \A i \in 1 .. Len(a) : a[i] = b[i]
    BY <1>3, <1>5, <2>1, <2>2
  <2>4. a = b
    BY <2>1, <2>2, <2>3, SeqEqual
  <2> QED BY <1>3, <1>5, <2>4 DEF Config!IsPrefix, a, b
<1> QED BY <1>1, <1>2, <1>6, <1>7 DEF s, h

LEMMA VersionIsNumber ==
  ASSUME NEW v, v = "2"
  PROVE  v # "" /\ Config!toInt(v) # 1 /\ ~(Config!toInt(v) > 2)
<1>1. "2" \in DOMAIN Config!Number
  BY DEF Config!Number
<1>2. Config!Number["2"] = 2
  BY DEF Config!Number
<1>3. Config!toInt(v) = 2
  BY <1>1, <1>2 DEF Config!toInt
<1> QED BY <1>3

LEMMA Migrated ==
  ASSUME NEW dom, Config!Text(dom, Udn) # ""
  PROVE  /\ Config!Text(Config!ToVersion1(dom), Udn) # ""
         /\ Settled(Config!ToVersion2(dom))
<1>1. \A d, p, t : Config!Text(d, Udn) # "" /\ p # Udn => Config!Text(Config!With(d, p, t), Udn) #
     ""
  BY TextStays
<1>2. \A d, p, s : Config!Text(d, Udn) # "" => Config!Text(Config!Unless(p, d, s), Udn) # ""
  BY TextStays
<1>3. \A d : Config!Text(d, Udn) # "" => Config!Text(Config!WithOnline(d), Udn) # ""
  BY <1>2 DEF Config!WithOnline
<1>4. \A d : Config!Text(d, Udn) # "" => Config!Text(Config!WithAvi(d), Udn) # ""
  BY <1>1, PathsOfHead DEF Config!WithAvi
<1>5. Config!Text(Config!ToVersion1(dom), Udn) # ""
  <2> DEFINE bare == Config!Without(dom, Config!Storage(<<>>))
             rest == Config!With(Config!OldStorage(dom), Config!Storage(<<>>), "")
             new == Config!Then(bare, rest)
  <2>1. Config!Text(bare, Udn) # ""
    BY PathsOfHead DEF Config!Without, Config!Text
  <2> HIDE DEF bare, rest
  <2>2. Config!Text(new, Udn) # ""
    BY <2>1, TextStays
  <2>3. Config!ToVersion1(dom) =
          Config!WithAvi(Config!WithOnline(Config!Unless(<<"transcoding">>, new,
               Config!TranscodingSection)))
    BY DEF Config!ToVersion1, bare, rest
  <2> HIDE DEF new
  <2> QED BY <1>2, <1>3, <1>4, <2>2, <2>3
<1>6. Settled(Config!ToVersion2(dom))
  <2> DEFINE a == Config!WithAttribute(Config!UI(<<>>), "@show-tooltips", "yes", dom)
             b == Config!WithAttribute(Config!Storage(<<>>), "@caching", "yes", a)
             c == Config!WithOnline(Config!Unless(Config!Runtime(<<>>), b,
                  Config!ExtendedRuntimeSection))
             e == Config!With(c, Version, "2")
  <2>1. Config!Text(a, Udn) # ""
    BY TextStays
  <2> HIDE DEF a
  <2>2. Config!Text(b, Udn) # ""
    BY <2>1, TextStays
  <2> HIDE DEF b
  <2>3. Config!Text(c, Udn) # ""
    BY <1>2, <1>3, <2>2
  <2>4. e = Config!ToVersion2(dom)
    BY DEF Config!ToVersion2, Version, c, b, a
  <2> HIDE DEF c
  <2>5. Config!Text(e, Udn) # ""
    BY <1>1, <2>3, PathsOfHead
  <2>6. Config!Text(e, Version) = "2"
    BY DEF Config!With, Config!Text
  <2> HIDE DEF e
  <2>8. Settled(e)
    BY <2>5, <2>6, VersionIsNumber DEF Settled
  <2> QED BY <2>4, <2>8
<1> QED BY <1>5, <1>6

LEMMA SettledIsThere ==
  ASSUME NEW doc, Settled(doc)
  PROVE  /\ doc # Config!NoFile /\ doc # Config!Truncated
         /\ Config!Present(doc, <<"server">>)
<1>1. Udn \in DOMAIN doc
  BY DEF Settled, Config!Text
<1>2. Udn # <<>>
  BY DEF Udn
<1> QED BY <1>1, <1>2, PathsOfHead DEF Config!NoFile, Config!Nothing, Config!Truncated,
     Config!Present

LEMMA ServerAgain == SecondInv /\ Config!validateServer => SecondInv'
<1> SUFFICES ASSUME SecondInv, Config!validateServer PROVE SecondInv'
  OBVIOUS
<1> DEFINE s == AtServer(cm_file)
           t == AtStorage(cm_file)
<1>1. /\ cm_pc = "server"
      /\ UNCHANGED <<cm_file, cm_starts, cm_migrated, cm_created, cm_before>>
      /\ LET v == Config!CheckedServer(Config!Here)
         IN  /\ v.ok => cm_root' = v.root /\ cm_options' = v.options /\ cm_pc' = "storage"
             /\ ~v.ok => cm_pc' = "refused"
  BY DEF Config!validateServer, Config!Section, Config!Refuse
<1>2. IsState(s) /\ (AtAccepted(cm_file).ok => t.ok)
  BY AllPassed
<1>3. s = Config!Here
  BY <1>1, <1>2 DEF SecondInv, Reached, Is, IsState, Config!Here
<1>4. t = Config!CheckedServer(Config!Here)
  BY <1>3 DEF AtStorage
<1> HIDE DEF s, t
<1>5. CASE t.ok
  <2>1. cm_pc' = "storage" /\ cm_root' = t.root /\ cm_options' = t.options
    BY <1>1, <1>4, <1>5
  <2>2. Is(AtStorage(cm_file'), cm_root', cm_options')
    BY <1>1, <1>5, <2>1 DEF Is, t
  <2>3. Reached(cm_pc', cm_file', cm_root', cm_options')
    BY <2>1, <2>2 DEF Reached
  <2> QED BY <1>1, <2>1, <2>3 DEF SecondInv, Place, Validating
<1>6. CASE ~t.ok
  BY <1>1, <1>2, <1>4, <1>6 DEF SecondInv, Reached, Place, Validating
<1> QED BY <1>5, <1>6

LEMMA StorageAgain == SecondInv /\ Config!validateStorage => SecondInv'
<1> SUFFICES ASSUME SecondInv, Config!validateStorage PROVE SecondInv'
  OBVIOUS
<1> DEFINE s == AtStorage(cm_file)
           t == AtUI(cm_file)
<1>1. /\ cm_pc = "storage"
      /\ UNCHANGED <<cm_file, cm_starts, cm_migrated, cm_created, cm_before>>
      /\ LET v == Config!CheckedStorage(Config!Here)
         IN  /\ v.ok => cm_root' = v.root /\ cm_options' = v.options /\ cm_pc' = "ui"
             /\ ~v.ok => cm_pc' = "refused"
  BY DEF Config!validateStorage, Config!Section, Config!Refuse
<1>2. IsState(s) /\ (AtAccepted(cm_file).ok => t.ok)
  BY AllPassed
<1>3. s = Config!Here
  BY <1>1, <1>2 DEF SecondInv, Reached, Is, IsState, Config!Here
<1>4. t = Config!CheckedStorage(Config!Here)
  BY <1>3 DEF AtUI
<1> HIDE DEF s, t
<1>5. CASE t.ok
  <2>1. cm_pc' = "ui" /\ cm_root' = t.root /\ cm_options' = t.options
    BY <1>1, <1>4, <1>5
  <2>2. Is(AtUI(cm_file'), cm_root', cm_options')
    BY <1>1, <1>5, <2>1 DEF Is, t
  <2>3. Reached(cm_pc', cm_file', cm_root', cm_options')
    BY <2>1, <2>2 DEF Reached
  <2> QED BY <1>1, <2>1, <2>3 DEF SecondInv, Place, Validating
<1>6. CASE ~t.ok
  BY <1>1, <1>2, <1>4, <1>6 DEF SecondInv, Reached, Place, Validating
<1> QED BY <1>5, <1>6

LEMMA UIAgain == SecondInv /\ Config!validateUI => SecondInv'
<1> SUFFICES ASSUME SecondInv, Config!validateUI PROVE SecondInv'
  OBVIOUS
<1> DEFINE s == AtUI(cm_file)
           t == AtImport(cm_file)
<1>1. /\ cm_pc = "ui"
      /\ UNCHANGED <<cm_file, cm_starts, cm_migrated, cm_created, cm_before>>
      /\ LET v == Config!CheckedUI(Config!Here)
         IN  /\ v.ok => cm_root' = v.root /\ cm_options' = v.options /\ cm_pc' = "import"
             /\ ~v.ok => cm_pc' = "refused"
  BY DEF Config!validateUI, Config!Section, Config!Refuse
<1>2. IsState(s) /\ (AtAccepted(cm_file).ok => t.ok)
  BY AllPassed
<1>3. s = Config!Here
  BY <1>1, <1>2 DEF SecondInv, Reached, Is, IsState, Config!Here
<1>4. t = Config!CheckedUI(Config!Here)
  BY <1>3 DEF AtImport
<1> HIDE DEF s, t
<1>5. CASE t.ok
  <2>1. cm_pc' = "import" /\ cm_root' = t.root /\ cm_options' = t.options
    BY <1>1, <1>4, <1>5
  <2>2. Is(AtImport(cm_file'), cm_root', cm_options')
    BY <1>1, <1>5, <2>1 DEF Is, t
  <2>3. Reached(cm_pc', cm_file', cm_root', cm_options')
    BY <2>1, <2>2 DEF Reached
  <2> QED BY <1>1, <2>1, <2>3 DEF SecondInv, Place, Validating
<1>6. CASE ~t.ok
  BY <1>1, <1>2, <1>4, <1>6 DEF SecondInv, Reached, Place, Validating
<1> QED BY <1>5, <1>6

LEMMA ImportAgain == SecondInv /\ Config!validateImport => SecondInv'
<1> SUFFICES ASSUME SecondInv, Config!validateImport PROVE SecondInv'
  OBVIOUS
<1> DEFINE s == AtImport(cm_file)
           t == AtNetwork(cm_file)
<1>1. /\ cm_pc = "import"
      /\ UNCHANGED <<cm_file, cm_starts, cm_migrated, cm_created, cm_before>>
      /\ LET v == Config!CheckedImport(Config!Here)
         IN  /\ v.ok => cm_root' = v.root /\ cm_options' = v.options /\ cm_pc' = "network"
             /\ ~v.ok => cm_pc' = "refused"
  BY DEF Config!validateImport, Config!Section, Config!Refuse
<1>2. IsState(s) /\ (AtAccepted(cm_file).ok => t.ok)
  BY AllPassed
<1>3. s = Config!Here
  BY <1>1, <1>2 DEF SecondInv, Reached, Is, IsState, Config!Here
<1>4. t = Config!CheckedImport(Config!Here)
  BY <1>3 DEF AtNetwork
<1> HIDE DEF s, t
<1>5. CASE t.ok
  <2>1. cm_pc' = "network" /\ cm_root' = t.root /\ cm_options' = t.options
    BY <1>1, <1>4, <1>5
  <2>2. Is(AtNetwork(cm_file'), cm_root', cm_options')
    BY <1>1, <1>5, <2>1 DEF Is, t
  <2>3. Reached(cm_pc', cm_file', cm_root', cm_options')
    BY <2>1, <2>2 DEF Reached
  <2> QED BY <1>1, <2>1, <2>3 DEF SecondInv, Place, Validating
<1>6. CASE ~t.ok
  BY <1>1, <1>2, <1>4, <1>6 DEF SecondInv, Reached, Place, Validating
<1> QED BY <1>5, <1>6

LEMMA NetworkAgain == SecondInv /\ Config!validateNetwork => SecondInv'
<1> SUFFICES ASSUME SecondInv, Config!validateNetwork PROVE SecondInv'
  OBVIOUS
<1> DEFINE s == AtNetwork(cm_file)
           t == AtScripting(cm_file)
<1>1. /\ cm_pc = "network"
      /\ UNCHANGED <<cm_file, cm_starts, cm_migrated, cm_created, cm_before>>
      /\ LET v == Config!CheckedNetwork(Config!Here)
         IN  /\ v.ok => cm_root' = v.root /\ cm_options' = v.options /\ cm_pc' = "scripting"
             /\ ~v.ok => cm_pc' = "refused"
  BY DEF Config!validateNetwork, Config!Section, Config!Refuse
<1>2. IsState(s) /\ (AtAccepted(cm_file).ok => t.ok)
  BY AllPassed
<1>3. s = Config!Here
  BY <1>1, <1>2 DEF SecondInv, Reached, Is, IsState, Config!Here
<1>4. t = Config!CheckedNetwork(Config!Here)
  BY <1>3 DEF AtScripting
<1> HIDE DEF s, t
<1>5. CASE t.ok
  <2>1. cm_pc' = "scripting" /\ cm_root' = t.root /\ cm_options' = t.options
    BY <1>1, <1>4, <1>5
  <2>2. Is(AtScripting(cm_file'), cm_root', cm_options')
    BY <1>1, <1>5, <2>1 DEF Is, t
  <2>3. Reached(cm_pc', cm_file', cm_root', cm_options')
    BY <2>1, <2>2 DEF Reached
  <2> QED BY <1>1, <2>1, <2>3 DEF SecondInv, Place, Validating
<1>6. CASE ~t.ok
  BY <1>1, <1>2, <1>4, <1>6 DEF SecondInv, Reached, Place, Validating
<1> QED BY <1>5, <1>6

LEMMA ScriptingAgain == SecondInv /\ Config!validateScripting => SecondInv'
<1> SUFFICES ASSUME SecondInv, Config!validateScripting PROVE SecondInv'
  OBVIOUS
<1> DEFINE s == AtScripting(cm_file)
           t == AtAlive(cm_file)
<1>1. /\ cm_pc = "scripting"
      /\ UNCHANGED <<cm_file, cm_starts, cm_migrated, cm_created, cm_before>>
      /\ LET v == Config!CheckedScripting(Config!Here)
         IN  /\ v.ok => cm_root' = v.root /\ cm_options' = v.options /\ cm_pc' = "alive"
             /\ ~v.ok => cm_pc' = "refused"
  BY DEF Config!validateScripting, Config!Section, Config!Refuse
<1>2. IsState(s) /\ (AtAccepted(cm_file).ok => t.ok)
  BY AllPassed
<1>3. s = Config!Here
  BY <1>1, <1>2 DEF SecondInv, Reached, Is, IsState, Config!Here
<1>4. t = Config!CheckedScripting(Config!Here)
  BY <1>3 DEF AtAlive
<1> HIDE DEF s, t
<1>5. CASE t.ok
  <2>1. cm_pc' = "alive" /\ cm_root' = t.root /\ cm_options' = t.options
    BY <1>1, <1>4, <1>5
  <2>2. Is(AtAlive(cm_file'), cm_root', cm_options')
    BY <1>1, <1>5, <2>1 DEF Is, t
  <2>3. Reached(cm_pc', cm_file', cm_root', cm_options')
    BY <2>1, <2>2 DEF Reached
  <2> QED BY <1>1, <2>1, <2>3 DEF SecondInv, Place, Validating
<1>6. CASE ~t.ok
  BY <1>1, <1>2, <1>4, <1>6 DEF SecondInv, Reached, Place, Validating
<1> QED BY <1>5, <1>6

LEMMA AliveAgain == SecondInv /\ Config!validateAlive => SecondInv'
<1> SUFFICES ASSUME SecondInv, Config!validateAlive PROVE SecondInv'
  OBVIOUS
<1> DEFINE s == AtAlive(cm_file)
           t == AtAutoscan(cm_file)
<1>1. /\ cm_pc = "alive"
      /\ UNCHANGED <<cm_file, cm_starts, cm_migrated, cm_created, cm_before>>
      /\ LET v == Config!CheckedAlive(Config!Here)
         IN  /\ v.ok => cm_root' = v.root /\ cm_options' = v.options /\ cm_pc' = "autoscan"
             /\ ~v.ok => cm_pc' = "refused"
  BY DEF Config!validateAlive, Config!Section, Config!Refuse
<1>2. IsState(s) /\ (AtAccepted(cm_file).ok => t.ok)
  BY AllPassed
<1>3. s = Config!Here
  BY <1>1, <1>2 DEF SecondInv, Reached, Is, IsState, Config!Here
<1>4. t = Config!CheckedAlive(Config!Here)
  BY <1>3 DEF AtAutoscan
<1> HIDE DEF s, t
<1>5. CASE t.ok
  <2>1. cm_pc' = "autoscan" /\ cm_root' = t.root /\ cm_options' = t.options
    BY <1>1, <1>4, <1>5
  <2>2. Is(AtAutoscan(cm_file'), cm_root', cm_options')
    BY <1>1, <1>5, <2>1 DEF Is, t
  <2>3. Reached(cm_pc', cm_file', cm_root', cm_options')
    BY <2>1, <2>2 DEF Reached
  <2> QED BY <1>1, <2>1, <2>3 DEF SecondInv, Place, Validating
<1>6. CASE ~t.ok
  BY <1>1, <1>2, <1>4, <1>6 DEF SecondInv, Reached, Place, Validating
<1> QED BY <1>5, <1>6

LEMMA AutoscanAgain == SecondInv /\ Config!validateAutoscan => SecondInv'
<1> SUFFICES ASSUME SecondInv, Config!validateAutoscan PROVE SecondInv'
  OBVIOUS
<1> DEFINE s == AtAutoscan(cm_file)
           t == AtTranscoding(cm_file)
<1>1. /\ cm_pc = "autoscan"
      /\ UNCHANGED <<cm_file, cm_starts, cm_migrated, cm_created, cm_before>>
      /\ LET v == Config!CheckedAutoscan(Config!Here)
         IN  /\ v.ok => cm_root' = v.root /\ cm_options' = v.options /\ cm_pc' = "transcoding"
             /\ ~v.ok => cm_pc' = "refused"
  BY DEF Config!validateAutoscan, Config!Section, Config!Refuse
<1>2. IsState(s) /\ (AtAccepted(cm_file).ok => t.ok)
  BY AllPassed
<1>3. s = Config!Here
  BY <1>1, <1>2 DEF SecondInv, Reached, Is, IsState, Config!Here
<1>4. t = Config!CheckedAutoscan(Config!Here)
  BY <1>3 DEF AtTranscoding
<1> HIDE DEF s, t
<1>5. CASE t.ok
  <2>1. cm_pc' = "transcoding" /\ cm_root' = t.root /\ cm_options' = t.options
    BY <1>1, <1>4, <1>5
  <2>2. Is(AtTranscoding(cm_file'), cm_root', cm_options')
    BY <1>1, <1>5, <2>1 DEF Is, t
  <2>3. Reached(cm_pc', cm_file', cm_root', cm_options')
    BY <2>1, <2>2 DEF Reached
  <2> QED BY <1>1, <2>1, <2>3 DEF SecondInv, Place, Validating
<1>6. CASE ~t.ok
  BY <1>1, <1>2, <1>4, <1>6 DEF SecondInv, Reached, Place, Validating
<1> QED BY <1>5, <1>6

LEMMA TranscodingAgain == SecondInv /\ Config!validateTranscoding => SecondInv'
<1> SUFFICES ASSUME SecondInv, Config!validateTranscoding PROVE SecondInv'
  OBVIOUS
<1> DEFINE s == AtTranscoding(cm_file)
           t == AtLibraries(cm_file)
<1>1. /\ cm_pc = "transcoding"
      /\ UNCHANGED <<cm_file, cm_starts, cm_migrated, cm_created, cm_before>>
      /\ LET v == Config!CheckedTranscoding(Config!Here)
         IN  /\ v.ok => cm_root' = v.root /\ cm_options' = v.options /\ cm_pc' = "libraries"
             /\ ~v.ok => cm_pc' = "refused"
  BY DEF Config!validateTranscoding, Config!Section, Config!Refuse
<1>2. IsState(s) /\ (AtAccepted(cm_file).ok => t.ok)
  BY AllPassed
<1>3. s = Config!Here
  BY <1>1, <1>2 DEF SecondInv, Reached, Is, IsState, Config!Here
<1>4. t = Config!CheckedTranscoding(Config!Here)
  BY <1>3 DEF AtLibraries
<1> HIDE DEF s, t
<1>5. CASE t.ok
  <2>1. cm_pc' = "libraries" /\ cm_root' = t.root /\ cm_options' = t.options
    BY <1>1, <1>4, <1>5
  <2>2. Is(AtLibraries(cm_file'), cm_root', cm_options')
    BY <1>1, <1>5, <2>1 DEF Is, t
  <2>3. Reached(cm_pc', cm_file', cm_root', cm_options')
    BY <2>1, <2>2 DEF Reached
  <2> QED BY <1>1, <2>1, <2>3 DEF SecondInv, Place, Validating
<1>6. CASE ~t.ok
  BY <1>1, <1>2, <1>4, <1>6 DEF SecondInv, Reached, Place, Validating
<1> QED BY <1>5, <1>6

LEMMA LibrariesAgain == SecondInv /\ Config!validateLibraries => SecondInv'
<1> SUFFICES ASSUME SecondInv, Config!validateLibraries PROVE SecondInv'
  OBVIOUS
<1> DEFINE s == AtLibraries(cm_file)
           t == AtPlayed(cm_file)
<1>1. /\ cm_pc = "libraries"
      /\ UNCHANGED <<cm_file, cm_starts, cm_migrated, cm_created, cm_before>>
      /\ LET v == Config!CheckedLibraries(Config!Here)
         IN  /\ v.ok => cm_root' = v.root /\ cm_options' = v.options /\ cm_pc' = "played"
             /\ ~v.ok => cm_pc' = "refused"
  BY DEF Config!validateLibraries, Config!Section, Config!Refuse
<1>2. IsState(s) /\ (AtAccepted(cm_file).ok => t.ok)
  BY AllPassed
<1>3. s = Config!Here
  BY <1>1, <1>2 DEF SecondInv, Reached, Is, IsState, Config!Here
<1>4. t = Config!CheckedLibraries(Config!Here)
  BY <1>3 DEF AtPlayed
<1> HIDE DEF s, t
<1>5. CASE t.ok
  <2>1. cm_pc' = "played" /\ cm_root' = t.root /\ cm_options' = t.options
    BY <1>1, <1>4, <1>5
  <2>2. Is(AtPlayed(cm_file'), cm_root', cm_options')
    BY <1>1, <1>5, <2>1 DEF Is, t
  <2>3. Reached(cm_pc', cm_file', cm_root', cm_options')
    BY <2>1, <2>2 DEF Reached
  <2> QED BY <1>1, <2>1, <2>3 DEF SecondInv, Place, Validating
<1>6. CASE ~t.ok
  BY <1>1, <1>2, <1>4, <1>6 DEF SecondInv, Reached, Place, Validating
<1> QED BY <1>5, <1>6

LEMMA MarkPlayedAgain == SecondInv /\ Config!validateMarkPlayed => SecondInv'
<1> SUFFICES ASSUME SecondInv, Config!validateMarkPlayed PROVE SecondInv'
  OBVIOUS
<1> DEFINE s == AtPlayed(cm_file)
           t == AtLastfm(cm_file)
<1>1. /\ cm_pc = "played"
      /\ UNCHANGED <<cm_file, cm_starts, cm_migrated, cm_created, cm_before>>
      /\ LET v == Config!CheckedMarkPlayed(Config!Here)
         IN  /\ v.ok => cm_root' = v.root /\ cm_options' = v.options /\ cm_pc' = "lastfm"
             /\ ~v.ok => cm_pc' = "refused"
  BY DEF Config!validateMarkPlayed, Config!Section, Config!Refuse
<1>2. IsState(s) /\ (AtAccepted(cm_file).ok => t.ok)
  BY AllPassed
<1>3. s = Config!Here
  BY <1>1, <1>2 DEF SecondInv, Reached, Is, IsState, Config!Here
<1>4. t = Config!CheckedMarkPlayed(Config!Here)
  BY <1>3 DEF AtLastfm
<1> HIDE DEF s, t
<1>5. CASE t.ok
  <2>1. cm_pc' = "lastfm" /\ cm_root' = t.root /\ cm_options' = t.options
    BY <1>1, <1>4, <1>5
  <2>2. Is(AtLastfm(cm_file'), cm_root', cm_options')
    BY <1>1, <1>5, <2>1 DEF Is, t
  <2>3. Reached(cm_pc', cm_file', cm_root', cm_options')
    BY <2>1, <2>2 DEF Reached
  <2> QED BY <1>1, <2>1, <2>3 DEF SecondInv, Place, Validating
<1>6. CASE ~t.ok
  BY <1>1, <1>2, <1>4, <1>6 DEF SecondInv, Reached, Place, Validating
<1> QED BY <1>5, <1>6

LEMMA LastfmAgain == SecondInv /\ Config!validateLastfm => SecondInv'
<1> SUFFICES ASSUME SecondInv, Config!validateLastfm PROVE SecondInv'
  OBVIOUS
<1> DEFINE s == AtLastfm(cm_file)
           t == AtYouTube(cm_file)
<1>1. /\ cm_pc = "lastfm"
      /\ UNCHANGED <<cm_file, cm_starts, cm_migrated, cm_created, cm_before>>
      /\ LET v == Config!CheckedLastfm(Config!Here)
         IN  /\ v.ok => cm_root' = v.root /\ cm_options' = v.options /\ cm_pc' = "youtube"
             /\ ~v.ok => cm_pc' = "refused"
  BY DEF Config!validateLastfm, Config!Section, Config!Refuse
<1>2. IsState(s) /\ (AtAccepted(cm_file).ok => t.ok)
  BY AllPassed
<1>3. s = Config!Here
  BY <1>1, <1>2 DEF SecondInv, Reached, Is, IsState, Config!Here
<1>4. t = Config!CheckedLastfm(Config!Here)
  BY <1>3 DEF AtYouTube
<1> HIDE DEF s, t
<1>5. CASE t.ok
  <2>1. cm_pc' = "youtube" /\ cm_root' = t.root /\ cm_options' = t.options
    BY <1>1, <1>4, <1>5
  <2>2. Is(AtYouTube(cm_file'), cm_root', cm_options')
    BY <1>1, <1>5, <2>1 DEF Is, t
  <2>3. Reached(cm_pc', cm_file', cm_root', cm_options')
    BY <2>1, <2>2 DEF Reached
  <2> QED BY <1>1, <2>1, <2>3 DEF SecondInv, Place, Validating
<1>6. CASE ~t.ok
  BY <1>1, <1>2, <1>4, <1>6 DEF SecondInv, Reached, Place, Validating
<1> QED BY <1>5, <1>6

LEMMA YouTubeAgain == SecondInv /\ Config!validateYouTube => SecondInv'
<1> SUFFICES ASSUME SecondInv, Config!validateYouTube PROVE SecondInv'
  OBVIOUS
<1> DEFINE s == AtYouTube(cm_file)
           t == AtServices(cm_file)
<1>1. /\ cm_pc = "youtube"
      /\ UNCHANGED <<cm_file, cm_starts, cm_migrated, cm_created, cm_before>>
      /\ LET v == Config!CheckedYouTube(Config!Here)
         IN  /\ v.ok => cm_root' = v.root /\ cm_options' = v.options /\ cm_pc' = "services"
             /\ ~v.ok => cm_pc' = "refused"
  BY DEF Config!validateYouTube, Config!Section, Config!Refuse
<1>2. IsState(s) /\ (AtAccepted(cm_file).ok => t.ok)
  BY AllPassed
<1>3. s = Config!Here
  BY <1>1, <1>2 DEF SecondInv, Reached, Is, IsState, Config!Here
<1>4. t = Config!CheckedYouTube(Config!Here)
  BY <1>3 DEF AtServices
<1> HIDE DEF s, t
<1>5. CASE t.ok
  <2>1. cm_pc' = "services" /\ cm_root' = t.root /\ cm_options' = t.options
    BY <1>1, <1>4, <1>5
  <2>2. Is(AtServices(cm_file'), cm_root', cm_options')
    BY <1>1, <1>5, <2>1 DEF Is, t
  <2>3. Reached(cm_pc', cm_file', cm_root', cm_options')
    BY <2>1, <2>2 DEF Reached
  <2> QED BY <1>1, <2>1, <2>3 DEF SecondInv, Place, Validating
<1>6. CASE ~t.ok
  BY <1>1, <1>2, <1>4, <1>6 DEF SecondInv, Reached, Place, Validating
<1> QED BY <1>5, <1>6

LEMMA ServicesAgain == SecondInv /\ Config!validateServices => SecondInv'
<1> SUFFICES ASSUME SecondInv, Config!validateServices PROVE SecondInv'
  OBVIOUS
<1> DEFINE s == AtServices(cm_file)
           t == AtAccepted(cm_file)
<1>1. /\ cm_pc = "services"
      /\ UNCHANGED <<cm_file, cm_starts, cm_migrated, cm_created, cm_before>>
      /\ LET v == Config!CheckedServices(Config!Here)
         IN  /\ v.ok => cm_root' = v.root /\ cm_options' = v.options /\ cm_pc' = "accepted"
             /\ ~v.ok => cm_pc' = "refused"
  BY DEF Config!validateServices, Config!Section, Config!Refuse
<1>2. IsState(s) /\ (AtAccepted(cm_file).ok => t.ok)
  BY AllPassed
<1>3. s = Config!Here
  BY <1>1, <1>2 DEF SecondInv, Reached, Is, IsState, Config!Here
<1>4. t = Config!CheckedServices(Config!Here)
  BY <1>3 DEF AtAccepted
<1> HIDE DEF s, t
<1>5. CASE t.ok
  <2>1. cm_pc' = "accepted" /\ cm_root' = t.root /\ cm_options' = t.options
    BY <1>1, <1>4, <1>5
  <2>2. Is(AtAccepted(cm_file'), cm_root', cm_options')
    BY <1>1, <1>5, <2>1 DEF Is, t
  <2>3. Reached(cm_pc', cm_file', cm_root', cm_options')
    BY <2>1, <2>2 DEF Reached
  <2> QED BY <1>1, <2>1, <2>3 DEF SecondInv, Place, Validating
<1>6. CASE ~t.ok
  BY <1>1, <1>2, <1>4, <1>6 DEF SecondInv, Reached, Place, Validating
<1> QED BY <1>5, <1>6

LEMMA LoadAgain == SecondInv /\ Config!load => SecondInv'
<1> SUFFICES ASSUME SecondInv, Config!load PROVE SecondInv'
  OBVIOUS
<1>1. cm_before # Config!Nothing => cm_file # Config!Truncated
  BY SettledIsThere DEF SecondInv
<1> QED BY <1>1 DEF Config!load, Config!Refuse, SecondInv, Reached, Place, Validating

LEMMA CreateAgain == SecondInv /\ Config!createDefaultConfig => SecondInv'
<1> SUFFICES ASSUME SecondInv, Config!createDefaultConfig PROVE SecondInv'
  OBVIOUS
<1>1. cm_before = Config!Nothing /\ cm_before' = Config!Nothing
  BY SettledIsThere DEF SecondInv, Config!createDefaultConfig
<1>2. /\ cm_pc' \in {"load", "refused"} /\ cm_pc = "find"
      /\ UNCHANGED <<cm_options, cm_starts>>
  BY DEF Config!createDefaultConfig, Config!Saves, Config!Refuse
<1> QED BY <1>1, <1>2 DEF SecondInv, Reached, Place, Validating

LEMMA UdnAgain == SecondInv /\ Config!prepare_udn => SecondInv'
<1> SUFFICES ASSUME SecondInv, Config!prepare_udn PROVE SecondInv'
  OBVIOUS
<1>1. /\ cm_pc = "udn" /\ cm_root = cm_file
      /\ UNCHANGED <<cm_options, cm_starts, cm_migrated, cm_created, cm_before>>
  BY DEF SecondInv, Config!prepare_udn
<1>2. CASE ~Config!Present(cm_root, <<"server">>) \/ Config!Text(cm_root, Udn) # ""
  <2>1. cm_pc' = "version" /\ UNCHANGED <<cm_file, cm_root>>
    BY <1>2 DEF Config!prepare_udn, Udn
  <2> QED BY <1>1, <1>2, <2>1 DEF SecondInv, Reached, Place, Validating
<1>3. CASE ~(~Config!Present(cm_root, <<"server">>) \/ Config!Text(cm_root, Udn) # "")
  <2>1. /\ cm_root' = Config!With(cm_root, Udn, "uuid")
        /\ (cm_file' = cm_root' /\ cm_pc' = "version") \/ cm_pc' = "refused"
    BY <1>3 DEF Config!prepare_udn, Config!Saves, Config!Refuse, Udn
  <2>2. Config!Text(cm_root', Udn) = "uuid"
    BY <2>1 DEF Config!With, Config!Text
  <2>3. cm_before = Config!Nothing
    BY <1>1, <1>3 DEF SecondInv, Settled
  <2> QED BY <1>1, <2>1, <2>2, <2>3 DEF SecondInv, Reached, Place, Validating
<1> QED BY <1>2, <1>3

LEMMA MigrateAgain == SecondInv /\ Config!migrate => SecondInv'
<1> SUFFICES ASSUME SecondInv, Config!migrate PROVE SecondInv'
  OBVIOUS
<1> DEFINE version == Config!Text(cm_root, Version)
<1>1. /\ cm_pc = "version" /\ cm_root = cm_file
      /\ UNCHANGED <<cm_options, cm_starts, cm_created, cm_before>>
      /\ cm_options = Config!Nothing
  BY DEF SecondInv, Config!migrate
<1>2. ASSUME cm_pc' = "refused", cm_before = Config!Nothing PROVE SecondInv'
  BY <1>1, <1>2 DEF SecondInv, Reached, Place, Validating
<1>3. ASSUME Settled(cm_file'), cm_root' = cm_file', cm_pc' = "server",
             cm_before = Config!Nothing \/ (cm_file' = cm_file /\ cm_migrated' = cm_migrated)
      PROVE  SecondInv'
  <2>1. Is(AtServer(cm_file'), cm_root', cm_options')
    BY <1>1, <1>3 DEF Is, AtServer
  <2>2. Reached(cm_pc', cm_file', cm_root', cm_options')
    BY <1>3, <2>1 DEF Reached
  <2>3. cm_before # Config!Nothing => AtAccepted(cm_file').ok /\ cm_before =
       AtAccepted(cm_file').options
    BY <1>3 DEF SecondInv
  <2>4. cm_before' # Config!Nothing =>
          /\ cm_starts' = 2 /\ ~cm_migrated' /\ ~cm_created'
          /\ AtAccepted(cm_file').ok /\ cm_before' = AtAccepted(cm_file').options
    BY <1>1, <1>3, <2>3 DEF SecondInv
  <2> QED BY <1>1, <1>3, <2>2, <2>4 DEF SecondInv, Place, Validating
<1>4. cm_before # Config!Nothing => Settled(cm_root) /\ Config!Present(cm_root, <<"server">>)
  BY <1>1, SettledIsThere DEF SecondInv
<1>5. CASE ~Config!Present(cm_root, <<"server">>)
  BY <1>2, <1>4, <1>5 DEF Config!migrate, Config!Refuse
<1>6. CASE Config!Present(cm_root, <<"server">>)
  <2>1. Config!Text(cm_root, Udn) # ""
    BY <1>1, <1>6 DEF SecondInv
  <2>2. CASE version = ""
    <3>1. cm_before = Config!Nothing
      BY <1>4, <2>2 DEF Settled
    <3>2. CASE Config!CanMigrate(cm_root)
      <4>1. /\ cm_root' = Config!ToVersion2(Config!ToVersion1(cm_root))
            /\ (cm_file' = cm_root' /\ cm_pc' = "server") \/ cm_pc' = "refused"
        BY <1>6, <2>2, <3>2 DEF Config!migrate, Config!Saves, Config!Refuse, Version
      <4>2. Settled(cm_root')
        BY <2>1, <4>1, Migrated
      <4> QED BY <1>2, <1>3, <3>1, <4>1, <4>2
    <3>3. CASE ~Config!CanMigrate(cm_root)
      BY <1>2, <1>6, <2>2, <3>1, <3>3 DEF Config!migrate, Config!Refuse, Version
    <3> QED BY <3>2, <3>3
  <2>3. CASE version # "" /\ Config!toInt(version) = 1
    <3>1. cm_before = Config!Nothing
      BY <1>4, <2>3 DEF Settled
    <3>2. /\ cm_root' = Config!ToVersion2(cm_root)
          /\ (cm_file' = cm_root' /\ cm_pc' = "server") \/ cm_pc' = "refused"
      BY <1>6, <2>3 DEF Config!migrate, Config!Saves, Config!Refuse, Version
    <3>3. Settled(cm_root')
      BY <2>1, <3>2, Migrated
    <3> QED BY <1>2, <1>3, <3>1, <3>2, <3>3
  <2>4. CASE version # "" /\ Config!toInt(version) # 1
    <3>1. /\ IF Config!toInt(version) > 2 THEN cm_pc' = "refused" ELSE cm_pc' = "server"
          /\ UNCHANGED <<cm_file, cm_root, cm_migrated>>
      BY <1>6, <2>4 DEF Config!migrate, Config!Refuse, Version
    <3>2. CASE Config!toInt(version) > 2
      <4>1. cm_before = Config!Nothing
        BY <1>4, <3>2 DEF Settled
      <4> QED BY <1>2, <3>1, <3>2, <4>1
    <3>3. CASE ~(Config!toInt(version) > 2)
      <4>1. Settled(cm_root)
        BY <2>1, <2>4, <3>3 DEF Settled
      <4> QED BY <1>1, <1>3, <3>1, <3>3, <4>1
    <3> QED BY <3>2, <3>3
  <2> QED BY <2>2, <2>3, <2>4
<1> QED BY <1>5, <1>6

LEMMA RestartAgain == SecondInv /\ Config!Restart => SecondInv'
<1> SUFFICES ASSUME SecondInv, Config!Restart PROVE SecondInv'
  OBVIOUS
<1>1. /\ cm_pc \in {"accepted", "refused"} /\ cm_starts < 2 /\ cm_starts' = cm_starts + 1
      /\ cm_pc' = "find" /\ cm_options' = Config!Nothing
      /\ cm_migrated' = FALSE /\ cm_created' = FALSE /\ cm_file' = cm_file
      /\ cm_before' = IF cm_pc = "accepted" THEN cm_options ELSE cm_before
  BY DEF Config!Restart, Config!MaxStarts
<1>2. cm_before = Config!Nothing
  <2>1. cm_before # Config!Nothing => cm_starts = 2
    BY DEF SecondInv
  <2> QED BY <1>1, <2>1
<1>3. cm_pc = "accepted" => /\ Settled(cm_file) /\ AtAccepted(cm_file).ok
                           /\ cm_options = AtAccepted(cm_file).options
  BY DEF SecondInv, Reached, Is, Validating
<1>4. cm_starts' = 2
  <2>1. cm_starts \in 1 .. 2
    BY DEF SecondInv
  <2> QED BY <1>1, <2>1
<1>5. cm_before' # Config!Nothing =>
        Settled(cm_file') /\ AtAccepted(cm_file').ok /\ cm_before' = AtAccepted(cm_file').options
  BY <1>1, <1>2, <1>3
<1>6. cm_pc' = "find" /\ cm_options' = Config!Nothing /\ ~cm_migrated' /\ ~cm_created'
  BY <1>1
<1>7. Reached("find", cm_file', cm_root', cm_options')
  BY DEF Reached
<1>8. /\ "find" \in DOMAIN Place /\ 2 \in 1 .. 2 /\ "find" \notin Validating
  BY DEF Place, Validating
<1> QED BY <1>4, <1>5, <1>6, <1>7, <1>8 DEF SecondInv

(* A second start of what was accepted: it is accepted again, with the     *)
(* same options, and nothing is migrated or created                        *)
(* (migrate() and validate(), config_manager.cc:647-870).                  *)
THEOREM AcceptedAgain == Config!Spec => []SecondStartAgrees
<1>1. Config!Init => SecondInv
  BY DEF Config!Init, SecondInv, Reached, Place, Validating
<1>2. SecondInv /\ [Config!Next]_cm_vars => SecondInv'
  <2> SUFFICES ASSUME SecondInv, [Config!Next]_cm_vars PROVE SecondInv'
    OBVIOUS
  <2>1. CASE Config!createDefaultConfig
    BY <2>1, CreateAgain
  <2>2. CASE Config!load
    BY <2>2, LoadAgain
  <2>3. CASE Config!prepare_udn
    BY <2>3, UdnAgain
  <2>4. CASE Config!migrate
    BY <2>4, MigrateAgain
  <2>5. CASE Config!validate
    BY <2>5, ServerAgain, StorageAgain, UIAgain, ImportAgain, NetworkAgain, ScriptingAgain,
         AliveAgain, AutoscanAgain, TranscodingAgain, LibrariesAgain, MarkPlayedAgain,
         LastfmAgain, YouTubeAgain, ServicesAgain DEF Config!validate
  <2>6. CASE Config!Restart
    BY <2>6, RestartAgain
  <2>7. CASE UNCHANGED cm_vars
    <3>1. UNCHANGED <<cm_file, cm_root, cm_options, cm_pc, cm_starts, cm_migrated, cm_created,
                      cm_before>>
      BY <2>7 DEF cm_vars
    <3>2. Reached(cm_pc', cm_file', cm_root', cm_options')
      BY <3>1 DEF SecondInv
    <3> QED BY <3>1, <3>2 DEF SecondInv
  <2> QED BY <2>1, <2>2, <2>3, <2>4, <2>5, <2>6, <2>7 DEF Config!Next
<1>3. SecondInv => SecondStartAgrees
  BY DEF SecondInv, Reached, Is, SecondStartAgrees, Config!SecondStartAgrees
<1>4. [Config!Next]_(Config!vars) => [Config!Next]_cm_vars
  BY DEF Config!vars, cm_vars
<1> QED BY <1>1, <1>2, <1>3, <1>4, PTL DEF Config!Spec

(***************************************************************************)
(* Objects added and edited in the web interface.  What the cache knows of *)
(* an object may differ from its row in what a link takes from the object  *)
(* it refers to, and in nothing else (Agrees).                             *)
(***************************************************************************)
Fields == {"id", "type", "ref", "parent", "title", "class", "meta", "res", "location", "mime",
           "action", "state", "virt", "online", "useRef"}
Metas == Editing!Metas \cup {Null}
Resources == Seq(Editing!Infos) \cup {Null}
Names == EditTexts \cup {"files"}

(* A row that is an object of its own, and one that is a link to an item.  *)
OwnRow(row) ==
  /\ row.ref = 0
  /\ row.type # "container" => row.meta \in Metas /\ row.res \in Seq(Editing!Infos) \ {<< >>}
  /\ row.type = "container" => row.location \in Seq(Names)
RefersTo(r, ref) == ref \in DOMAIN r /\ r[ref].ref = 0 /\ r[ref].type # "container"
LinkRow(r, row) ==
  /\ row.ref # 0 /\ row.type # "container" /\ RefersTo(r, row.ref)
  /\ row.meta \in Metas /\ row.res \in Resources
RowFits(r, id, row) ==
  /\ DOMAIN row = Fields /\ row.id = id /\ row.type \in Editing!Types
  /\ row.useRef = FALSE /\ row.mime \in EditTexts
  /\ OwnRow(row) \/ LinkRow(r, row)
RowsFit(r) ==
  /\ \E n \in Nat : DOMAIN r \subseteq 0 .. n
  /\ {0, 1} \subseteq DOMAIN r /\ r[0].type = "container" /\ r[1].type = "container"
  /\ \A id \in DOMAIN r : RowFits(r, id, r[id])

(* What an object of the cache has in common with its row.                 *)
AsTheRow(o, row) ==
  /\ o.type = row.type /\ o.title = row.title /\ o.mime = row.mime
  /\ o.action = row.action /\ o.state = row.state /\ o.online = row.online
  /\ o.virt = IF row.type = "container" THEN row.virt ELSE row.type # "item" \/ row.ref > 0
AsTheOwnRow(o, row) ==
  /\ o.ref = 0 /\ o.class = row.class /\ o.location = row.location
  /\ row.type # "container" =>
        /\ o.meta = IF row.meta = Null THEN Editing!NoMeta ELSE row.meta
        /\ o.res = row.res
IsObject(o, id) ==
  /\ DOMAIN o = Fields /\ o.id = id /\ o.useRef = FALSE
  /\ o.type # "container" => o.meta \in Editing!Metas /\ o.res \in Seq(Editing!Infos)
Agrees(o, r, id) ==
  /\ IsObject(o, id) /\ AsTheRow(o, r[id])
  /\ r[id].ref = 0 => AsTheOwnRow(o, r[id])
  /\ r[id].ref # 0 /\ r[id].type # "item" => o.ref = r[id].ref
  /\ o.ref # 0 => RefersTo(r, o.ref)
CacheFits(c, r) ==
  /\ DOMAIN c \subseteq DOMAIN r /\ (~CachesObjects => DOMAIN c = {})
  /\ \A id \in DOMAIN c : Agrees(c[id], r, id)
ObjectsFit(r, c) == RowsFit(r) /\ CacheFits(c, r)
EditInv == ObjectsFit(oe_rows, oe_cache)

LEMMA EditConstants ==
  /\ {"", "octet", "file"} \subseteq EditTexts /\ EditFiles \subseteq EditTexts
  /\ ResourceProtocols \in Seq(EditTexts) /\ ResourceProtocols # << >>
  /\ Null \notin Editing!Metas /\ Null \notin Seq(Editing!Infos)
  /\ \A p \in ObjectAdditions :
        /\ p.type \in Editing!Types
        /\ p.parent \in Int /\ p.title \in Editing!OrNull /\ p.class \in Editing!OrNull
        /\ p.location \in Editing!OrNull /\ p.desc \in Editing!OrNull
        /\ p.mime \in Editing!OrNull /\ p.protocol \in Editing!OrNull
        /\ p.action \in Editing!OrNull /\ p.state \in Editing!OrNull
  /\ \A p \in ObjectEdits :
        /\ p.title \in Editing!OrNull /\ p.class \in Editing!OrNull
        /\ p.location \in Editing!OrNull /\ p.desc \in Editing!OrNull
        /\ p.mime \in Editing!OrNull /\ p.protocol \in Editing!OrNull
        /\ p.action \in Editing!OrNull /\ p.state \in Editing!OrNull
  BY ServerDataAssumption DEF ServerDataAssumption, Editing!EditingAssumption

LEMMA NoMetaIsOne == Editing!NoMeta \in Editing!Metas
  BY EditConstants DEF Editing!NoMeta, Editing!Metas

LEMMA NoMetaIsEmpty == Editing!NoMeta.desc = ""
  BY DEF Editing!NoMeta

-----------------------------------------------------------------------------
(* An object that is read.                                                 *)
Below(r, id) == IF r[id].ref \in DOMAIN r /\ r[id].ref > 0 THEN r[r[id].ref] ELSE r[id]

LEMMA ReadFields ==
  ASSUME NEW r, NEW id, DOMAIN r[id] = Fields
  PROVE  LET o == Editing!FromRow(r, id)
             row == r[id]
             ref == Below(r, id)
         IN  /\ DOMAIN o = Fields
             /\ o.id = row.id /\ o.type = row.type /\ o.ref = row.ref /\ o.parent = row.parent
             /\ o.title = row.title /\ o.mime = row.mime /\ o.action = row.action
             /\ o.state = row.state /\ o.online = row.online /\ o.useRef = row.useRef
             /\ o.class = Editing!fallbackString(row.class, ref.class)
             /\ o.meta = IF row.meta = Null
                         THEN (IF ref.meta = Null THEN Editing!NoMeta ELSE ref.meta) ELSE row.meta
             /\ o.res = IF row.type = "container" THEN << >>
                        ELSE IF row.res = Null THEN ref.res ELSE row.res
             /\ o.location = Editing!fallbackString(row.location, ref.location)
             /\ o.virt = IF row.type = "container" THEN row.virt
                         ELSE row.type # "item" \/ row.ref > 0
<1> DEFINE row == r[id]
           ref == Below(r, id)
           class == Editing!fallbackString(row.class, ref.class)
           meta == IF row.meta = Null THEN (IF ref.meta = Null THEN Editing!NoMeta ELSE ref.meta)
                   ELSE row.meta
           res == IF row.type = "container" THEN << >> ELSE IF row.res = Null THEN ref.res ELSE row.res
           location == Editing!fallbackString(row.location, ref.location)
           virt == IF row.type = "container" THEN row.virt ELSE row.type # "item" \/ row.ref > 0
<1>1. Editing!FromRow(r, id) =
        [row EXCEPT !.class = class, !.meta = meta, !.res = res, !.location = location, !.virt = virt]
  BY DEF Editing!FromRow, Below, Editing!IsContainer, Editing!IsPure
<1> HIDE DEF class, meta, res, location, virt
<1>2. LET o == Editing!FromRow(r, id)
      IN  /\ DOMAIN o = Fields
          /\ o.id = row.id /\ o.type = row.type /\ o.ref = row.ref /\ o.parent = row.parent
          /\ o.title = row.title /\ o.mime = row.mime /\ o.action = row.action
          /\ o.state = row.state /\ o.online = row.online /\ o.useRef = row.useRef
          /\ o.class = class /\ o.meta = meta /\ o.res = res /\ o.location = location
          /\ o.virt = virt
  BY <1>1 DEF Fields
<1> QED BY <1>2 DEF class, meta, res, location, virt

LEMMA ReadAgrees ==
  ASSUME NEW r, RowsFit(r), NEW id \in DOMAIN r
  PROVE  Agrees(Editing!FromRow(r, id), r, id)
<1> DEFINE o == Editing!FromRow(r, id)
           row == r[id]
<1>1. RowFits(r, id, row) /\ row.ref \in Nat
  BY DEF RowsFit, RowFits, OwnRow, LinkRow, RefersTo
<1>2. DOMAIN row = Fields
  BY <1>1 DEF RowFits
<1> DEFINE Read ==
             /\ DOMAIN o = Fields
             /\ o.id = row.id /\ o.type = row.type /\ o.ref = row.ref
             /\ o.useRef = row.useRef
             /\ o.class = Editing!fallbackString(row.class, Below(r, id).class)
             /\ o.meta = IF row.meta = Null
                         THEN (IF Below(r, id).meta = Null THEN Editing!NoMeta ELSE Below(r, id).meta)
                         ELSE row.meta
             /\ o.res = IF row.type = "container" THEN << >>
                        ELSE IF row.res = Null THEN Below(r, id).res ELSE row.res
             /\ o.location = Editing!fallbackString(row.location, Below(r, id).location)
<1>3. Read /\ AsTheRow(o, row)
  BY <1>2, ReadFields DEF AsTheRow
<1> SUFFICES Agrees(o, r, id)
  OBVIOUS
<1> HIDE DEF o
<1>4. CASE OwnRow(row)
  <2>1. Below(r, id) = row /\ row.ref = 0
    BY <1>4 DEF Below, OwnRow
  <2>2. AsTheOwnRow(o, row)
    BY <1>3, <1>4, <2>1, EditConstants DEF AsTheOwnRow, OwnRow, Editing!fallbackString
  <2>3. IsObject(o, id)
    BY <1>1, <1>3, <1>4, <2>1, <2>2, NoMetaIsOne DEF IsObject, AsTheOwnRow, OwnRow, RowFits, Metas
  <2> QED BY <1>3, <2>1, <2>2, <2>3 DEF Agrees, AsTheOwnRow
<1>5. CASE LinkRow(r, row)
  <2> DEFINE ref == r[row.ref]
  <2>1. row.ref # 0 /\ RefersTo(r, row.ref) /\ RowFits(r, row.ref, ref)
    BY <1>5 DEF LinkRow, RefersTo, RowsFit
  <2>2. Below(r, id) = ref
    BY <1>1, <2>1 DEF Below, RefersTo
  <2>3. OwnRow(ref) /\ ref.type # "container"
    BY <2>1 DEF RowFits, LinkRow, RefersTo
  <2>4. ref.meta \in Metas /\ ref.res \in Seq(Editing!Infos)
    BY <2>3 DEF OwnRow
  <2> HIDE DEF ref
  <2>5. o.meta \in Editing!Metas /\ o.res \in Seq(Editing!Infos)
    BY <1>3, <1>5, <2>2, <2>4, NoMetaIsOne DEF LinkRow, Metas, Resources
  <2>6. IsObject(o, id)
    BY <1>1, <1>3, <2>5 DEF IsObject, RowFits
  <2> QED BY <1>3, <2>1, <2>6 DEF Agrees
<1> QED BY <1>1, <1>4, <1>5 DEF RowFits

LEMMA LoadAgrees ==
  ASSUME NEW r, NEW c, ObjectsFit(r, c), NEW id \in DOMAIN r
  PROVE  Agrees(Editing!loadObject(r, c, id), r, id)
  BY ReadAgrees DEF Editing!loadObject, ObjectsFit, CacheFits

(* What is put into the cache agrees with its row.                         *)
LEMMA PutFits ==
  ASSUME NEW r, NEW c, CacheFits(c, r), NEW o, NEW id \in DOMAIN r, Agrees(o, r, id)
  PROVE  CacheFits(Editing!Put(c, o), r)
<1>1. o.id = id
  BY DEF Agrees, IsObject
<1>2. CASE CachesObjects
  <2> DEFINE d == Editing!Put(c, o)
  <2>1. d = [i \in DOMAIN c \cup {id} |-> IF i = id THEN o ELSE c[i]]
    BY <1>1, <1>2 DEF Editing!Put
  <2> HIDE DEF d
  <2>2. ASSUME NEW i \in DOMAIN d PROVE Agrees(d[i], r, i)
    <3>1. CASE i = id
      BY <2>1, <3>1
    <3>2. CASE i # id
      BY <2>1, <3>2 DEF CacheFits
    <3> QED BY <3>1, <3>2
  <2>3. DOMAIN d \subseteq DOMAIN r
    BY <2>1 DEF CacheFits
  <2>4. CacheFits(d, r)
    BY <1>2, <2>2, <2>3 DEF CacheFits
  <2> QED BY <2>4 DEF d
<1>3. CASE ~CachesObjects
  BY <1>3 DEF Editing!Put
<1> QED BY <1>2, <1>3

-----------------------------------------------------------------------------
(* The object that another one refers to.                                  *)
LEMMA RefersFacts ==
  ASSUME NEW r, RowsFit(r), NEW id, RefersTo(r, id)
  PROVE  /\ id \in Nat /\ id > 1 /\ OwnRow(r[id])
         /\ r[id].meta \in Metas /\ r[id].res \in Seq(Editing!Infos)
<1>1. RowFits(r, id, r[id])
  BY DEF RowsFit, RefersTo
<1>2. OwnRow(r[id])
  BY <1>1 DEF RowFits, RefersTo, LinkRow
<1>3. id \in Nat /\ id # 0 /\ id # 1
  BY DEF RowsFit, RefersTo
<1> QED BY <1>2, <1>3 DEF OwnRow, RefersTo

LEMMA PathLeadsToRow ==
  ASSUME NEW r, NEW location, Editing!findObjectIDByPath(r, location) # Editing!Invalid
  PROVE  LET id == Editing!findObjectIDByPath(r, location)
         IN  RefersTo(r, id) /\ r[id].type = "item"
<1> DEFINE found == {id \in DOMAIN r : Editing!IsPure(r[id]) /\ r[id].ref = 0 /\ r[id].location = location}
           id == Editing!findObjectIDByPath(r, location)
<1>1. id = IF found = {} THEN Editing!Invalid ELSE CHOOSE x \in found : TRUE
  BY DEF Editing!findObjectIDByPath
<1>2. id \in found
  BY <1>1
<1> QED BY <1>2 DEF RefersTo, Editing!IsPure

LEMMA RefOf ==
  ASSUME NEW s, RowsFit(s.rows), NEW o, o.ref # 0 => RefersTo(s.rows, o.ref) /\ o.type # "container"
  PROVE  LET ref == Editing!checkRefID(s, o)
         IN  /\ ref = Editing!Invalid \/ ref = 0 \/ RefersTo(s.rows, ref)
             /\ o.type = "item" /\ o.virt => ref # 0
             /\ ~(o.type = "item" /\ o.virt) => ref \in {Editing!Invalid, o.ref}
<1> DEFINE ref == Editing!checkRefID(s, o)
           found == Editing!findObjectIDByPath(s.rows, o.location)
<1>1. o.ref # 0 => o.ref \in Nat /\ o.ref > 0
  BY RefersFacts
<1>2. CASE o.type = "item" /\ o.virt
  <2>1. ref \in {o.ref, found} /\ (ref = o.ref => o.ref > 0 \/ ref = found)
    BY <1>2 DEF Editing!checkRefID, Editing!IsPure
  <2>2. found = Editing!Invalid \/ RefersTo(s.rows, found)
    BY PathLeadsToRow
  <2>3. found # 0
    BY <2>2, RefersFacts DEF Editing!Invalid
  <2>4. ref = found \/ (ref = o.ref /\ o.ref # 0)
    <3>1. o.ref = 0 => ~(o.ref > 0)
      OBVIOUS
    <3> HIDE DEF ref, found
    <3> QED BY <2>1, <3>1
  <2> QED BY <1>2, <2>2, <2>3, <2>4
<1>3. CASE ~(o.type = "item" /\ o.virt)
  <2>1. ref = IF o.ref > 0 /\ ~o.online /\ o.type # "container" THEN Editing!Invalid
              ELSE IF o.online THEN o.ref ELSE 0
    BY <1>3 DEF Editing!checkRefID, Editing!IsPure, Editing!IsItem, Editing!IsContainer
  <2>2. ref \in {Editing!Invalid, o.ref}
    BY <1>1, <2>1
  <2>3. ref = Editing!Invalid \/ ref = 0 \/ RefersTo(s.rows, ref)
    BY <2>2
  <2> QED BY <1>3, <2>2, <2>3
<1> QED BY <1>2, <1>3

(* The columns that are written for an object.                             *)
Known(meta) == IF meta = Null THEN Editing!NoMeta ELSE meta
Carried(row, o) ==
  /\ DOMAIN row = Fields /\ row.useRef = FALSE /\ row.type = o.type /\ row.title = o.title
  /\ row.mime = o.mime /\ row.action = o.action /\ row.state = o.state
  /\ row.online = o.online /\ row.virt = o.virt
OwnColumns(row, o) ==
  /\ row.class = o.class /\ row.location = o.location
  /\ row.meta = IF o.meta = Editing!NoMeta THEN Null ELSE o.meta
  /\ row.res = IF o.res = << >> THEN Null ELSE o.res
LinkColumns(row, o, ref) ==
  /\ row.class = IF ref.class = o.class THEN Null ELSE o.class
  /\ row.meta = IF o.meta \in {Editing!NoMeta, Known(ref.meta)} THEN Null ELSE o.meta
  /\ row.res = IF o.useRef \/ o.res \in {<< >>, ref.res} THEN Null ELSE o.res
Written(row, o, r) ==
  /\ Carried(row, o)
  /\ row.ref = 0 => OwnColumns(row, o)
  /\ row.ref # 0 => RefersTo(r, row.ref) /\ LinkColumns(row, o, r[row.ref])

LEMMA ColumnsWritten ==
  ASSUME NEW s, ObjectsFit(s.rows, s.cache), NEW o, DOMAIN o = Fields,
         NEW refID, refID = 0 \/ RefersTo(s.rows, refID)
  PROVE  LET row == Editing!Columns(s, o, refID)
         IN  Written(row, o, s.rows) /\ row.ref = refID /\ row.id = o.id
<1> DEFINE row == Editing!Columns(s, o, refID)
           ref == IF refID > 0 THEN Editing!loadObject(s.rows, s.cache, refID) ELSE Editing!NoRef
           old == IF o.id \in DOMAIN s.rows THEN s.rows[o.id].class ELSE Null
           linked == refID > 0
           class == Editing!ClassColumn(o, ref, old)
           meta == IF o.meta = Editing!NoMeta \/ (linked /\ ref.meta = o.meta) THEN Null ELSE o.meta
           res == IF (linked /\ (o.useRef \/ ref.res = o.res)) \/ o.res = << >> THEN Null ELSE o.res
           location == IF linked THEN Null ELSE o.location
<1>1. row = [o EXCEPT !.ref = refID, !.class = class, !.meta = meta, !.res = res,
                      !.location = location, !.useRef = FALSE]
  BY DEF Editing!Columns
<1> HIDE DEF row, class, meta, res, location
<1>2. /\ Carried(row, o) /\ row.ref = refID /\ row.id = o.id /\ row.class = class
      /\ row.meta = meta /\ row.res = res /\ row.location = location
  BY <1>1 DEF Fields, Carried
<1> SUFFICES Written(row, o, s.rows) /\ row.ref = refID /\ row.id = o.id
  BY DEF row
<1>3. CASE refID = 0
  <2>1. ~linked /\ ref.id = 0
    BY <1>3 DEF Editing!NoRef, Editing!createObject
  <2> HIDE DEF ref, linked
  <2>2. class = o.class /\ location = o.location
    BY <2>1 DEF class, location, Editing!ClassColumn
  <2>3. /\ meta = IF o.meta = Editing!NoMeta THEN Null ELSE o.meta
        /\ res = IF o.res = << >> THEN Null ELSE o.res
    BY <2>1 DEF meta, res
  <2> QED BY <1>2, <1>3, <2>2, <2>3 DEF Written, OwnColumns
<1>4. CASE RefersTo(s.rows, refID)
  <2> DEFINE target == s.rows[refID]
  <2>1. linked /\ refID # 0
    BY <1>4, RefersFacts DEF ObjectsFit
  <2>2. Agrees(ref, s.rows, refID)
    BY <1>4, <2>1, LoadAgrees DEF RefersTo
  <2>3. ref.id = refID /\ AsTheOwnRow(ref, target) /\ target.type # "container"
    BY <1>4, <2>2 DEF Agrees, IsObject, RefersTo
  <2>4. ref.class = target.class /\ ref.meta = Known(target.meta) /\ ref.res = target.res
    BY <2>3 DEF AsTheOwnRow, Known
  <2> HIDE DEF ref, target
  <2>5. ref.id > 0
    BY <2>1, <2>3
  <2> HIDE DEF linked
  <2>6. class = IF target.class = o.class THEN Null ELSE o.class
    BY <2>4, <2>5 DEF class, Editing!ClassColumn
  <2>7. /\ meta = IF o.meta \in {Editing!NoMeta, Known(target.meta)} THEN Null ELSE o.meta
        /\ res = IF o.useRef \/ o.res \in {<< >>, target.res} THEN Null ELSE o.res
    BY <2>1, <2>4 DEF meta, res
  <2>8. LinkColumns(row, o, target)
    BY <1>2, <2>6, <2>7 DEF LinkColumns
  <2> QED BY <1>2, <1>4, <2>1, <2>8 DEF Written, target
<1> QED BY <1>3, <1>4

(* A row is set: a new one, or one that stays a link or an object.         *)
RowSet(r, t, id) ==
  /\ id \in Nat /\ DOMAIN t = DOMAIN r \cup {id}
  /\ \A k \in DOMAIN r \ {id} : t[k] = r[k]
  /\ id \in DOMAIN r => (t[id].ref = 0 <=> r[id].ref = 0) /\ t[id].type = r[id].type

LEMMA StillRefers ==
  ASSUME NEW r, NEW t, NEW id, RowSet(r, t, id), NEW ref, RefersTo(r, ref)
  PROVE  RefersTo(t, ref)
<1>1. CASE ref = id
  BY <1>1 DEF RowSet, RefersTo
<1>2. CASE ref # id
  BY <1>2 DEF RowSet, RefersTo
<1> QED BY <1>1, <1>2

LEMMA RowSetFits ==
  ASSUME NEW r, RowsFit(r), NEW t, NEW id, RowSet(r, t, id), RowFits(t, id, t[id])
  PROVE  RowsFit(t)
<1>1. ASSUME NEW k \in DOMAIN t PROVE RowFits(t, k, t[k])
  <2>1. CASE k = id
    BY <2>1
  <2>2. CASE k # id
    <3>1. k \in DOMAIN r /\ t[k] = r[k] /\ RowFits(r, k, r[k])
      BY <2>2 DEF RowSet, RowsFit
    <3>2. LinkRow(r, r[k]) => LinkRow(t, r[k])
      BY StillRefers DEF LinkRow
    <3> QED BY <3>1, <3>2 DEF RowFits
  <2> QED BY <2>1, <2>2
<1>2. \E n \in Nat : DOMAIN t \subseteq 0 .. n
  <2>1. PICK n \in Nat : DOMAIN r \subseteq 0 .. n
    BY DEF RowsFit
  <2>2. id \in Nat /\ DOMAIN t = DOMAIN r \cup {id}
    BY DEF RowSet
  <2>3. DOMAIN t \subseteq 0 .. (n + id)
    BY <2>1, <2>2
  <2> QED BY <2>2, <2>3
<1>3. {0, 1} \subseteq DOMAIN t /\ t[0].type = "container" /\ t[1].type = "container"
  BY DEF RowsFit, RowSet
<1> QED BY <1>1, <1>2, <1>3 DEF RowsFit

LEMMA RowSetAgrees ==
  ASSUME NEW r, NEW t, NEW id, RowSet(r, t, id), NEW k \in DOMAIN r, k # id,
         NEW o, Agrees(o, r, k)
  PROVE  Agrees(o, t, k)
<1>1. t[k] = r[k]
  BY DEF RowSet
<1>2. o.ref # 0 => RefersTo(t, o.ref)
  BY StillRefers DEF Agrees
<1> QED BY <1>1, <1>2 DEF Agrees

LEMMA NewRowCache ==
  ASSUME NEW r, NEW t, NEW id, RowSet(r, t, id), id \notin DOMAIN r, NEW c, CacheFits(c, r)
  PROVE  CacheFits(c, t)
<1>1. \A k \in DOMAIN c : k \in DOMAIN r /\ k # id /\ Agrees(c[k], r, k)
  BY DEF CacheFits
<1>2. \A k \in DOMAIN c : Agrees(c[k], t, k)
  BY <1>1, RowSetAgrees
<1> QED BY <1>2 DEF CacheFits, RowSet

LEMMA RowSetCache ==
  ASSUME NEW r, NEW t, NEW id, RowSet(r, t, id), NEW c, CacheFits(c, r),
         NEW o, Agrees(o, t, id)
  PROVE  CacheFits(Editing!Put(c, o), t)
<1> DEFINE d == Editing!Put(c, o)
<1>1. o.id = id
  BY DEF Agrees, IsObject
<1>2. d = IF CachesObjects THEN [i \in DOMAIN c \cup {id} |-> IF i = id THEN o ELSE c[i]] ELSE c
  BY <1>1 DEF Editing!Put
<1> SUFFICES CacheFits(d, t)
  OBVIOUS
<1> HIDE DEF d
<1>3. ASSUME NEW k \in DOMAIN d PROVE Agrees(d[k], t, k)
  <2>1. CASE k = id
    BY <1>2, <1>3, <2>1 DEF CacheFits
  <2>2. CASE k # id
    <3>1. k \in DOMAIN c /\ d[k] = c[k]
      BY <1>2, <1>3, <2>2
    <3>2. k \in DOMAIN r /\ Agrees(c[k], r, k)
      BY <3>1 DEF CacheFits
    <3> QED BY <2>2, <3>1, <3>2, RowSetAgrees
  <2> QED BY <2>1, <2>2
<1>4. DOMAIN d \subseteq DOMAIN t /\ (~CachesObjects => DOMAIN d = {})
  BY <1>2 DEF CacheFits, RowSet
<1> QED BY <1>3, <1>4 DEF CacheFits

(* What can be written: what the columns are made of.                      *)
Storable(o) ==
  /\ DOMAIN o = Fields /\ o.type \in Editing!Types /\ o.mime \in EditTexts
  /\ o.type # "container" => o.meta \in Editing!Metas /\ o.res \in Seq(Editing!Infos)
  /\ o.type = "container" => o.location \in Seq(Names)
SameObject(o, copy) == \A f \in Fields \ {"id", "useRef"} : o[f] = copy[f]

LEMMA WrittenFits ==
  ASSUME NEW r, NEW t, NEW id, RowSet(r, t, id), NEW o, Storable(o),
         NEW row, Written(row, o, r), row.id = id,
         row.ref = 0 /\ o.type # "container" => o.res # << >>,
         o.type = "container" => row.ref = 0
  PROVE  RowFits(t, id, row)
<1>1. /\ DOMAIN row = Fields /\ row.type \in Editing!Types /\ row.useRef = FALSE
      /\ row.mime \in EditTexts /\ row.type = o.type
  BY DEF Written, Carried, Storable
<1>2. CASE row.ref = 0
  <2>1. OwnColumns(row, o)
    BY <1>2 DEF Written
  <2>2. OwnRow(row)
    BY <1>1, <1>2, <2>1 DEF OwnRow, OwnColumns, Storable, Metas
  <2> QED BY <1>1, <2>2 DEF RowFits
<1>3. CASE row.ref # 0
  <2>1. RefersTo(r, row.ref) /\ LinkColumns(row, o, r[row.ref])
    BY <1>3 DEF Written
  <2>2. RefersTo(t, row.ref)
    BY <2>1, StillRefers
  <2>3. row.meta \in Metas /\ row.res \in Resources
    BY <1>1, <1>3, <2>1 DEF LinkColumns, Storable, Metas, Resources
  <2>4. LinkRow(t, row)
    BY <1>1, <1>3, <2>2, <2>3 DEF LinkRow
  <2> QED BY <1>1, <2>4 DEF RowFits
<1> QED BY <1>2, <1>3

LEMMA WrittenAgrees ==
  ASSUME NEW r, NEW t, NEW id, RowSet(r, t, id), NEW o, Storable(o),
         NEW row, Written(row, o, r), t[id] = row, row.ref \in Nat,
         row.ref = 0 => o.ref = 0 /\ (o.type # "container" => o.res # << >>),
         o.type = "container" => row.ref = 0,
         o.type # "container" => o.virt = (o.type # "item" \/ row.ref > 0),
         row.ref # 0 /\ o.type # "item" => o.ref = row.ref,
         o.ref # 0 => RefersTo(r, o.ref),
         NEW copy, DOMAIN copy = Fields, copy.id = id, copy.useRef = FALSE, SameObject(copy, o)
  PROVE  Agrees(copy, t, id)
<1>1. /\ copy.type = o.type /\ copy.title = o.title /\ copy.mime = o.mime
      /\ copy.action = o.action /\ copy.state = o.state /\ copy.online = o.online
      /\ copy.virt = o.virt /\ copy.ref = o.ref /\ copy.class = o.class /\ copy.meta = o.meta
      /\ copy.res = o.res /\ copy.location = o.location
  BY DEF SameObject, Fields
<1>2. IsObject(copy, id)
  BY <1>1 DEF IsObject, Storable
<1>3. AsTheRow(copy, row)
  BY <1>1 DEF AsTheRow, Written, Carried
<1>4. row.ref = 0 => AsTheOwnRow(copy, row)
  <2> SUFFICES ASSUME row.ref = 0 PROVE AsTheOwnRow(copy, row)
    OBVIOUS
  <2>1. OwnColumns(row, o) /\ row.type = o.type
    BY DEF Written, Carried
  <2>2. o.type # "container" => o.meta # Null /\ o.res # << >>
    BY EditConstants DEF Storable
  <2> QED BY <1>1, <2>1, <2>2 DEF AsTheOwnRow, OwnColumns
<1>5. copy.ref # 0 => RefersTo(t, copy.ref)
  BY <1>1, StillRefers
<1>6. row.type = o.type
  BY DEF Written, Carried
<1> QED BY <1>1, <1>2, <1>3, <1>4, <1>5, <1>6 DEF Agrees

(* What is read back is what was written.                                  *)
ReadsAs(o, copy) ==
  /\ o.title = copy.title /\ o.class = copy.class /\ o.mime = copy.mime
  /\ o.action = copy.action /\ o.state = copy.state
  /\ copy.type # "container" /\ copy.meta # Editing!NoMeta => o.meta = copy.meta
  /\ copy.type # "container" /\ copy.res # << >> => o.res = copy.res

LocatedAs(o, copy, row) == row.ref = 0 /\ copy.location # Null => o.location = copy.location

LEMMA WrittenReads ==
  ASSUME NEW r, NEW t, NEW id, RowsFit(r), RowSet(r, t, id), NEW o, Storable(o),
         NEW row, Written(row, o, r), t[id] = row, row.ref # id,
         o.class # Null, o.useRef = FALSE
  PROVE  /\ ReadsAs(Editing!FromRow(t, id), o)
         /\ LocatedAs(Editing!FromRow(t, id), o, row)
<1> DEFINE n == Editing!FromRow(t, id)
           ref == Below(t, id)
<1>1. DOMAIN t[id] = Fields
  BY DEF Written, Carried
<1>2. /\ n.title = row.title /\ n.mime = row.mime /\ n.action = row.action /\ n.state = row.state
      /\ n.class = Editing!fallbackString(row.class, ref.class)
      /\ n.meta = IF row.meta = Null
                  THEN (IF ref.meta = Null THEN Editing!NoMeta ELSE ref.meta) ELSE row.meta
      /\ n.res = IF row.type = "container" THEN << >>
                 ELSE IF row.res = Null THEN ref.res ELSE row.res
      /\ n.location = Editing!fallbackString(row.location, ref.location)
  BY <1>1, ReadFields
<1> SUFFICES ReadsAs(n, o) /\ LocatedAs(n, o, row)
  OBVIOUS
<1> HIDE DEF n
<1>3. /\ n.title = o.title /\ n.mime = o.mime /\ n.action = o.action /\ n.state = o.state
      /\ row.type = o.type
  BY <1>2 DEF Written, Carried
<1>4. o.type # "container" => o.meta # Null /\ o.res # Null
  BY EditConstants DEF Storable
<1>5. CASE row.ref = 0
  <2>1. OwnColumns(row, o)
    BY <1>5 DEF Written
  <2>2. ref = row
    BY <1>5 DEF Below
  <2> QED BY <1>2, <1>3, <1>4, <1>5, <2>1, <2>2
     DEF ReadsAs, LocatedAs, OwnColumns, Editing!fallbackString
<1>6. CASE row.ref # 0
  <2> DEFINE target == r[row.ref]
  <2>1. RefersTo(r, row.ref) /\ LinkColumns(row, o, target)
    BY <1>6 DEF Written
  <2>2. row.ref \in DOMAIN t /\ t[row.ref] = target /\ row.ref > 0
    BY <2>1, RefersFacts DEF RowSet, RefersTo
  <2>3. ref = target
    BY <2>2 DEF Below
  <2> HIDE DEF target, ref
  <2>4. n.class = o.class
    BY <1>2, <2>1, <2>3 DEF LinkColumns, Editing!fallbackString
  <2>5. o.type # "container" /\ o.meta # Editing!NoMeta => n.meta = o.meta
    BY <1>2, <1>4, <2>1, <2>3 DEF LinkColumns, Known
  <2>6. o.type # "container" /\ o.res # << >> => n.res = o.res
    BY <1>2, <1>3, <1>4, <2>1, <2>3 DEF LinkColumns
  <2> QED BY <1>3, <1>6, <2>4, <2>5, <2>6 DEF ReadsAs, LocatedAs
<1> QED BY <1>5, <1>6

(* Only the object itself and the links to it are read differently.        *)
LEMMA OthersRead ==
  ASSUME NEW r, NEW t, NEW id, RowsFit(r), RowSet(r, t, id), NEW k \in DOMAIN r, k # id,
         Editing!FromRow(t, k) # Editing!FromRow(r, k)
  PROVE  (id \in DOMAIN r => r[k].ref = id) /\ t[k] = r[k]
<1>1. t[k] = r[k]
  BY DEF RowSet
<1>2. r[k].ref = 0 \/ RefersTo(r, r[k].ref)
  BY DEF RowsFit, RowFits, OwnRow, LinkRow
<1>3. ASSUME r[k].ref # id PROVE Below(t, k) = Below(r, k)
  BY <1>1, <1>2, <1>3 DEF Below, RowSet, RefersTo
<1>4. \A x : Below(x, k) = (IF x[k].ref \in DOMAIN x /\ x[k].ref > 0 THEN x[x[k].ref] ELSE x[k])
  BY DEF Below
<1>5. r[k].ref = id
  <2> SUFFICES ASSUME r[k].ref # id PROVE Editing!FromRow(t, k) = Editing!FromRow(r, k)
    OBVIOUS
  <2>1. Below(t, k) = Below(r, k)
    BY <1>3
  <2> QED BY <1>1, <2>1, Zenon DEF Editing!FromRow, Below, Editing!IsContainer, Editing!IsPure
<1> QED BY <1>1, <1>5

-----------------------------------------------------------------------------
(* An edit.  What is loaded, and what its copies are made of; it may be    *)
(* behind its row by then in what a copy of it has written.                *)
Loaded(o, r, id) ==
  /\ id \in DOMAIN r /\ Storable(o) /\ o.id = id /\ o.useRef = FALSE /\ o.type = r[id].type
  /\ o.type # "container" => o.virt = (o.type # "item" \/ r[id].ref > 0)
  /\ r[id].ref = 0 => o.ref = 0 /\ (o.type # "container" => o.res # << >>)
  /\ r[id].ref # 0 /\ o.type # "item" => o.ref = r[id].ref
  /\ o.ref # 0 => RefersTo(r, o.ref)
Copied(o, copy) ==
  /\ o.id = copy.id /\ o.type = copy.type /\ o.ref = copy.ref /\ o.virt = copy.virt
  /\ o.useRef = copy.useRef /\ (o.res = << >> <=> copy.res = << >>)

LEMMA AgreesLoaded ==
  ASSUME NEW r, RowsFit(r), NEW id \in DOMAIN r, NEW o, Agrees(o, r, id)
  PROVE  Loaded(o, r, id)
<1>1. RowFits(r, id, r[id])
  BY DEF RowsFit
<1>2. o.type # "container" => o.virt = (o.type # "item" \/ r[id].ref > 0)
  BY DEF Agrees, AsTheRow
<1>3. r[id].ref = 0 => AsTheOwnRow(o, r[id]) /\ OwnRow(r[id])
  BY <1>1 DEF Agrees, RowFits, LinkRow
<1>4. o.type = r[id].type /\ o.mime = r[id].mime
  BY DEF Agrees, AsTheRow
<1>5. o.type = "container" => o.location \in Seq(Names)
  BY <1>1, <1>3, <1>4 DEF AsTheOwnRow, OwnRow, RowFits, LinkRow
<1>6. Storable(o)
  BY <1>1, <1>4, <1>5 DEF Storable, Agrees, IsObject, RowFits
<1>7. r[id].ref = 0 => o.ref = 0 /\ (o.type # "container" => o.res # << >>)
  BY <1>3, <1>4 DEF AsTheOwnRow, OwnRow
<1> QED BY <1>2, <1>4, <1>6, <1>7 DEF Loaded, Agrees, IsObject

LEMMA CopyLoaded ==
  ASSUME NEW o, NEW r, NEW id, Loaded(o, r, id), NEW copy, Copied(o, copy), Storable(copy)
  PROVE  Loaded(copy, r, id)
  BY DEF Loaded, Copied

(* What requests work on.                                                  *)
IsWork(s) == DOMAIN s = {"rows", "cache", "answer", "upnp", "ui"}
WorkFits(s) == IsWork(s) /\ ObjectsFit(s.rows, s.cache)

LEMMA ThrowFits ==
  ASSUME NEW s, WorkFits(s), NEW error
  PROVE  LET t == Editing!Throws(s, error)
         IN  WorkFits(t) /\ t.answer = error /\ t.rows = s.rows /\ t.cache = s.cache /\ t.upnp = s.upnp
<1> SUFFICES ASSUME NEW t, t = [s EXCEPT !.answer = error]
             PROVE  WorkFits(t) /\ t.answer = error /\ t.rows = s.rows /\ t.cache = s.cache
                    /\ t.upnp = s.upnp
  BY DEF Editing!Throws
<1> QED BY DEF WorkFits, IsWork

LEMMA ReportFits ==
  ASSUME NEW s, WorkFits(s), NEW upnp, NEW ui
  PROVE  LET t == Editing!Report(s, upnp, ui)
         IN  /\ WorkFits(t) /\ t.answer = s.answer /\ t.rows = s.rows /\ t.cache = s.cache
             /\ t.upnp = s.upnp \cup (upnp \ {Editing!Invalid})
<1> SUFFICES ASSUME NEW more, NEW shown, NEW t, t = [s EXCEPT !.upnp = more, !.ui = shown]
             PROVE  /\ WorkFits(t) /\ t.answer = s.answer /\ t.rows = s.rows /\ t.cache = s.cache
                    /\ t.upnp = more
  BY DEF Editing!Report
<1> QED BY DEF WorkFits, IsWork

(* What an object refers to is found again when it is written.             *)
LEMMA RefStays ==
  ASSUME NEW s, WorkFits(s), NEW id, id # 0, NEW o, Loaded(o, s.rows, id),
         Editing!checkRefID(s, o) # Editing!Invalid
  PROVE  LET ref == Editing!checkRefID(s, o)
         IN  /\ ref = 0 \/ RefersTo(s.rows, ref)
             /\ ref = 0 <=> s.rows[id].ref = 0
             /\ o.type # "item" => o.ref = ref
             /\ o.type = "container" => ref = 0
             /\ ref \in Nat /\ ref # id
<1> DEFINE r == s.rows
           ref == Editing!checkRefID(s, o)
<1>1. RowsFit(r) /\ RowFits(r, id, r[id]) /\ id \in DOMAIN r
  BY DEF WorkFits, ObjectsFit, RowsFit, Loaded
<1>2. o.type = "container" => r[id].ref = 0 /\ o.ref = 0
  BY <1>1 DEF RowFits, LinkRow, OwnRow, Loaded
<1>3. /\ ref = 0 \/ RefersTo(r, ref)
      /\ o.type = "item" /\ o.virt => ref # 0
      /\ ~(o.type = "item" /\ o.virt) => ref = o.ref
  <2>1. o.ref # 0 => RefersTo(r, o.ref) /\ o.type # "container"
    BY <1>2 DEF Loaded
  <2> QED BY <1>1, <2>1, RefOf
<1> SUFFICES /\ ref = 0 \/ RefersTo(s.rows, ref)
             /\ ref = 0 <=> s.rows[id].ref = 0
             /\ o.type # "item" => o.ref = ref
             /\ o.type = "container" => ref = 0
             /\ ref \in Nat /\ ref # id
  OBVIOUS
<1> HIDE DEF ref
<1>4. r[id].ref \in Nat
  BY <1>1, RefersFacts DEF RowFits, OwnRow, LinkRow
<1>5. CASE r[id].ref = 0
  <2>1. ~(o.type = "item" /\ o.virt) /\ o.ref = 0
    <3>1. o.type = "item" => o.virt = (r[id].ref > 0)
      BY DEF Loaded
    <3>2. (r[id].ref > 0) = FALSE
      BY <1>5
    <3> QED BY <1>5, <3>1, <3>2, Zenon DEF Loaded
  <2>2. ref = 0
    BY <1>3, <2>1
  <2> QED BY <1>2, <1>3, <1>5, <2>1, <2>2
<1>6. CASE r[id].ref # 0
  <2>1. ref # 0
    <3>1. o.type = "item" => o.virt = (r[id].ref > 0)
      BY DEF Loaded
    <3>2. (r[id].ref > 0) = TRUE
      BY <1>4, <1>6
    <3>3. o.type = "item" => o.virt
      BY <3>1, <3>2, Zenon
    <3>4. o.type # "item" => o.ref = r[id].ref
      BY <1>6 DEF Loaded
    <3> QED BY <1>3, <1>6, <3>3, <3>4
  <2>2. ref # id /\ ref \in Nat
    BY <1>1, <1>3, <1>6, <2>1, RefersFacts DEF RefersTo
  <2> QED BY <1>2, <1>3, <1>6, <2>1, <2>2 DEF Loaded
<1> QED BY <1>5, <1>6

(* An object is written, other than the root of the files.                 *)
LEMMA WriteFits ==
  ASSUME NEW s, WorkFits(s), NEW id, id > 1, NEW o, Loaded(o, s.rows, id), o.class # Null,
         NEW t, t = Editing!updateRow(s, o), t.answer = s.answer, s.answer = "success"
  PROVE  /\ WorkFits(t) /\ t.upnp = s.upnp
         /\ RowSet(s.rows, t.rows, id) /\ id \in DOMAIN s.rows
         /\ Loaded(o, t.rows, id)
         /\ ReadsAs(Editing!FromRow(t.rows, id), o)
         /\ LocatedAs(Editing!FromRow(t.rows, id), o, s.rows[id])
<1> DEFINE r == s.rows
           ref == Editing!checkRefID(s, o)
           row == Editing!Columns(s, o, ref)
<1>1. /\ RowsFit(r) /\ CacheFits(s.cache, r) /\ RowFits(r, id, r[id]) /\ id \in DOMAIN r
      /\ o.id = id /\ id \in Nat
  BY DEF WorkFits, ObjectsFit, RowsFit, Loaded
<1>2. /\ ref # Editing!Invalid
      /\ t = [s EXCEPT !.rows = [r EXCEPT ![id] = row], !.cache = Editing!Put(@, o)]
  <2>1. o.id # Editing!FsRoot
    BY <1>1 DEF Editing!FsRoot
  <2>2. Editing!Throws(s, "error").answer # s.answer
    BY ThrowFits
  <2> QED BY <1>1, <2>1, <2>2 DEF Editing!updateRow
<1>3. /\ ref = 0 \/ RefersTo(r, ref)
      /\ ref = 0 <=> r[id].ref = 0
      /\ o.type # "item" => o.ref = ref
      /\ o.type = "container" => ref = 0
      /\ ref \in Nat /\ ref # id
  BY <1>1, <1>2, RefStays
<1>4. Written(row, o, r) /\ row.ref = ref /\ row.id = id
  <2>1. DOMAIN o = Fields
    BY DEF Loaded, Storable
  <2> QED BY <1>1, <1>3, <2>1, ColumnsWritten DEF WorkFits
<1> HIDE DEF row, ref
<1>5. /\ t.rows = [r EXCEPT ![id] = row] /\ t.cache = Editing!Put(s.cache, o) /\ IsWork(t)
      /\ t.upnp = s.upnp
  BY <1>2 DEF WorkFits, IsWork
<1>6. t.rows[id] = row /\ RowSet(r, t.rows, id)
  BY <1>1, <1>3, <1>4, <1>5 DEF RowSet, Written, Carried, Loaded
<1>7. Storable(o) /\ o.useRef = FALSE /\ (row.ref = 0 /\ o.type # "container" => o.res # << >>)
  BY <1>3, <1>4 DEF Loaded
<1>8. RowFits(t.rows, id, row)
  BY <1>3, <1>4, <1>6, <1>7, WrittenFits
<1>9. RowsFit(t.rows)
  BY <1>1, <1>6, <1>8, RowSetFits
<1>10. Agrees(o, t.rows, id)
  <2>1. /\ row.ref = 0 => o.ref = 0 /\ (o.type # "container" => o.res # << >>)
        /\ row.ref # 0 /\ o.type # "item" => o.ref = row.ref
        /\ o.ref # 0 => RefersTo(r, o.ref)
        /\ o.id = id /\ DOMAIN o = Fields
    BY <1>3, <1>4 DEF Loaded, Storable
  <2>2. r[id].ref \in Nat
    BY <1>1, RefersFacts DEF RowFits, OwnRow, LinkRow
  <2>3. o.type # "container" => o.virt = (o.type # "item" \/ row.ref > 0)
    BY <1>3, <1>4, <2>2 DEF Loaded
  <2>4. SameObject(o, o) /\ row.ref \in Nat /\ (o.type = "container" => row.ref = 0)
    BY <1>3, <1>4 DEF SameObject
  <2> QED BY <1>4, <1>6, <1>7, <2>1, <2>3, <2>4, WrittenAgrees
<1>11. WorkFits(t)
  BY <1>1, <1>5, <1>6, <1>9, <1>10, RowSetCache DEF WorkFits, ObjectsFit
<1>12. Loaded(o, t.rows, id)
  BY <1>6, <1>9, <1>10, AgreesLoaded DEF RowSet
<1>13. /\ ReadsAs(Editing!FromRow(t.rows, id), o)
       /\ LocatedAs(Editing!FromRow(t.rows, id), o, row)
  <2>1. row.ref # id
    BY <1>3, <1>4
  <2> DEFINE u == t.rows
  <2>2. RowsFit(r) /\ RowSet(r, u, id) /\ Storable(o) /\ Written(row, o, r) /\ u[id] = row
        /\ row.ref # id /\ o.useRef = FALSE
    BY <1>1, <1>4, <1>6, <1>7, <2>1
  <2> HIDE DEF u
  <2>3. /\ ReadsAs(Editing!FromRow(u, id), o)
        /\ LocatedAs(Editing!FromRow(u, id), o, row)
    BY <2>2, WrittenReads
  <2> QED BY <2>3 DEF u
<1>14. LocatedAs(Editing!FromRow(t.rows, id), o, s.rows[id])
  BY <1>3, <1>4, <1>13 DEF LocatedAs
<1> QED BY <1>1, <1>5, <1>6, <1>11, <1>12, <1>13, <1>14

(* The root of the files, of which the title and the class are written.    *)
LEMMA RootWriteFits ==
  ASSUME NEW s, WorkFits(s), NEW o, Agrees(o, s.rows, 1),
         NEW copy, DOMAIN copy = Fields, \A f \in Fields \ {"title", "class"} : copy[f] = o[f],
         copy.class # Null, NEW t, t = Editing!updateRow(s, copy)
  PROVE  /\ WorkFits(t) /\ t.upnp = s.upnp /\ RowSet(s.rows, t.rows, 1) /\ 1 \in DOMAIN s.rows
         /\ ReadsAs(Editing!FromRow(t.rows, 1), copy)
<1> DEFINE r == s.rows
           row == [r[1] EXCEPT !.title = copy.title, !.class = copy.class]
<1>1. /\ RowsFit(r) /\ CacheFits(s.cache, r) /\ RowFits(r, 1, r[1]) /\ 1 \in DOMAIN r
      /\ r[1].type = "container" /\ DOMAIN r[1] = Fields
  BY DEF WorkFits, ObjectsFit, RowsFit, RowFits
<1>2. OwnRow(r[1])
  BY <1>1 DEF RowFits, LinkRow
<1>3. /\ copy.id = 1 /\ copy.type = o.type /\ copy.ref = o.ref /\ copy.location = o.location
      /\ copy.mime = o.mime /\ copy.action = o.action /\ copy.state = o.state
      /\ copy.online = o.online /\ copy.virt = o.virt /\ copy.useRef = o.useRef
  BY DEF Fields, Agrees, IsObject
<1>4. t = [s EXCEPT !.rows = [r EXCEPT ![1] = row], !.cache = Editing!Put(@, copy)]
  BY <1>1, <1>3 DEF Editing!updateRow, Editing!FsRoot
<1>5. /\ DOMAIN row = Fields /\ row.title = copy.title /\ row.class = copy.class
      /\ \A f \in Fields \ {"title", "class"} : row[f] = r[1][f]
  <2>1. {"title", "class"} \subseteq DOMAIN r[1] /\ "title" # "class"
    BY <1>1 DEF Fields
  <2>2. DOMAIN row = Fields /\ row.title = copy.title /\ row.class = copy.class
    BY <1>1, <2>1
  <2>3. ASSUME NEW f \in Fields, f # "title", f # "class" PROVE row[f] = r[1][f]
    BY <1>1, <2>3
  <2> QED BY <2>2, <2>3
<1> HIDE DEF row
<1>6. /\ row.id = r[1].id /\ row.type = "container" /\ row.ref = 0 /\ row.location = r[1].location
      /\ row.mime = r[1].mime /\ row.action = r[1].action /\ row.state = r[1].state
      /\ row.online = r[1].online /\ row.virt = r[1].virt /\ row.useRef = r[1].useRef
  BY <1>1, <1>2, <1>5 DEF Fields, OwnRow
<1>7. /\ t.rows = [r EXCEPT ![1] = row] /\ t.cache = Editing!Put(s.cache, copy) /\ IsWork(t)
      /\ t.upnp = s.upnp
  BY <1>4 DEF WorkFits, IsWork
<1>8. t.rows[1] = row /\ RowSet(r, t.rows, 1)
  BY <1>1, <1>2, <1>6, <1>7 DEF RowSet, OwnRow
<1>9. RowFits(t.rows, 1, row)
  BY <1>1, <1>2, <1>5, <1>6 DEF RowFits, OwnRow
<1>10. AsTheRow(o, r[1]) /\ AsTheOwnRow(o, r[1]) /\ IsObject(o, 1)
  BY <1>2 DEF Agrees, OwnRow
<1>11. Agrees(copy, t.rows, 1)
  <2>1. IsObject(copy, 1) /\ copy.type = "container" /\ copy.ref = 0
    BY <1>1, <1>3, <1>10 DEF IsObject, AsTheRow, AsTheOwnRow
  <2>2. AsTheRow(copy, row)
    BY <1>1, <1>3, <1>5, <1>6, <1>10 DEF AsTheRow
  <2>3. AsTheOwnRow(copy, row)
    BY <1>1, <1>3, <1>5, <1>6, <1>10 DEF AsTheOwnRow
  <2> QED BY <1>6, <1>8, <2>1, <2>2, <2>3 DEF Agrees
<1>12. WorkFits(t)
  BY <1>1, <1>7, <1>8, <1>9, <1>11, RowSetFits, RowSetCache DEF WorkFits, ObjectsFit
<1>13. ReadsAs(Editing!FromRow(t.rows, 1), copy)
  <2>1. AsTheRow(copy, row) /\ copy.type = "container"
    BY <1>8, <1>11, <1>6 DEF Agrees, AsTheRow
  <2>2. /\ Editing!FromRow(t.rows, 1).title = row.title /\ Editing!FromRow(t.rows, 1).mime = row.mime
        /\ Editing!FromRow(t.rows, 1).action = row.action /\ Editing!FromRow(t.rows, 1).state = row.state
        /\ Editing!FromRow(t.rows, 1).class = Editing!fallbackString(row.class, Below(t.rows, 1).class)
    BY <1>5, <1>8, ReadFields
  <2> QED BY <1>5, <2>1, <2>2 DEF ReadsAs, AsTheRow, Editing!fallbackString
<1> QED BY <1>1, <1>7, <1>8, <1>12, <1>13

(* The copies of updateObject().                                           *)
SameBut(o, copy, fields) ==
  DOMAIN copy = Fields /\ \A f \in Fields \ fields : copy[f] = o[f]
TitledCopy(o, p, copy) ==
  copy.title = Editing!Given(p.title, o.title) /\ copy.class = Editing!Given(p.class, o.class)
ItemCopy(o, p, copy) ==
  /\ copy.location = Editing!Given(p.location, o.location)
  /\ copy.mime = Editing!Given(p.mime, o.mime)
  /\ copy.meta = [o.meta EXCEPT !.desc = Editing!Given(p.desc, "")]
  /\ copy.res = Editing!EditedResources(o, p)
ActiveCopy(o, p, copy) ==
  /\ copy.mime = Editing!Given(p.mime, o.mime)
  /\ copy.meta = [o.meta EXCEPT !.desc = Editing!Given(p.desc, "")]
  /\ copy.action = Editing!Given(p.action, o.action)
  /\ copy.state = IF p.state = Null THEN o.state ELSE p.state

LEMMA TitledFields ==
  ASSUME NEW o, DOMAIN o = Fields, NEW p
  PROVE  LET copy == Editing!Titled(o, p)
         IN  SameBut(o, copy, {"title", "class"}) /\ TitledCopy(o, p, copy)
<1> DEFINE title == Editing!Given(p.title, o.title)
           class == Editing!Given(p.class, o.class)
<1> SUFFICES ASSUME NEW copy, copy = [o EXCEPT !.title = title, !.class = class]
             PROVE  SameBut(o, copy, {"title", "class"}) /\ TitledCopy(o, p, copy)
  BY DEF Editing!Titled
<1> HIDE DEF title, class
<1>1. {"title", "class"} \subseteq DOMAIN o
  BY DEF Fields
<1>2. copy.title = title /\ copy.class = class /\ DOMAIN copy = Fields
  BY <1>1
<1>3. SameBut(o, copy, {"title", "class"})
  BY <1>2 DEF SameBut
<1> QED BY <1>2, <1>3 DEF TitledCopy, title, class

LEMMA DescribedFields ==
  ASSUME NEW o, DOMAIN o = Fields, NEW p
  PROVE  LET copy == Editing!Described(Editing!Titled(o, p), p)
         IN  /\ SameBut(o, copy, {"title", "class", "meta"}) /\ TitledCopy(o, p, copy)
             /\ copy.meta = [o.meta EXCEPT !.desc = Editing!Given(p.desc, "")]
<1> DEFINE q == Editing!Titled(o, p)
           meta == [o.meta EXCEPT !.desc = Editing!Given(p.desc, "")]
<1>1. SameBut(o, q, {"title", "class"}) /\ TitledCopy(o, p, q)
  BY TitledFields
<1> HIDE DEF q
<1>2. q.meta = o.meta
  BY <1>1 DEF SameBut, Fields
<1> SUFFICES ASSUME NEW copy, copy = [q EXCEPT !.meta = meta]
             PROVE  /\ SameBut(o, copy, {"title", "class", "meta"}) /\ TitledCopy(o, p, copy)
                    /\ copy.meta = meta
  <2>1. Editing!Described(q, p) = [q EXCEPT !.meta = meta]
    BY <1>2 DEF Editing!Described
  <2> QED BY <2>1 DEF q
<1> HIDE DEF meta
<1>3. DOMAIN copy = Fields /\ copy.meta = meta /\ copy.title = q.title /\ copy.class = q.class
  BY <1>1 DEF SameBut, Fields
<1>4. ASSUME NEW f \in Fields, f \notin {"title", "class", "meta"} PROVE copy[f] = o[f]
  BY <1>1, <1>4 DEF SameBut
<1> QED BY <1>1, <1>3, <1>4 DEF SameBut, TitledCopy

LEMMA EditedItemFields ==
  ASSUME NEW o, DOMAIN o = Fields, NEW p
  PROVE  LET copy == Editing!EditedItem(o, p)
         IN  /\ SameBut(o, copy, {"title", "class", "meta", "location", "mime", "res"})
             /\ TitledCopy(o, p, copy) /\ ItemCopy(o, p, copy)
<1> DEFINE q == Editing!Described(Editing!Titled(o, p), p)
           location == Editing!Given(p.location, o.location)
           mime == Editing!Given(p.mime, o.mime)
           res == Editing!EditedResources(o, p)
<1>1. /\ SameBut(o, q, {"title", "class", "meta"}) /\ TitledCopy(o, p, q)
      /\ q.meta = [o.meta EXCEPT !.desc = Editing!Given(p.desc, "")]
  BY DescribedFields
<1> HIDE DEF q
<1>2. q.location = o.location /\ q.mime = o.mime /\ q.res = o.res
  BY <1>1 DEF SameBut, Fields
<1>3. Editing!EditedItem(o, p) = [q EXCEPT !.location = location, !.mime = mime, !.res = res]
  <2>1. Editing!EditedItem(o, p) =
          [q EXCEPT !.location = Editing!Given(p.location, q.location),
                    !.mime = Editing!Given(p.mime, q.mime),
                    !.res = res]
    BY DEF Editing!EditedItem, q
  <2> QED BY <1>2, <2>1
<1> SUFFICES ASSUME NEW copy, copy = [q EXCEPT !.location = location, !.mime = mime, !.res = res]
             PROVE  /\ SameBut(o, copy, {"title", "class", "meta", "location", "mime", "res"})
                    /\ TitledCopy(o, p, copy) /\ ItemCopy(o, p, copy)
  BY <1>3
<1> HIDE DEF location, mime, res
<1>5. /\ DOMAIN copy = Fields /\ copy.location = location /\ copy.mime = mime /\ copy.res = res
      /\ copy.title = q.title /\ copy.class = q.class /\ copy.meta = q.meta
  BY <1>1 DEF SameBut, Fields
<1>6. ASSUME NEW f \in Fields, f \notin {"title", "class", "meta", "location", "mime", "res"}
      PROVE copy[f] = o[f]
  BY <1>1, <1>6 DEF SameBut
<1>7. ItemCopy(o, p, copy)
  BY <1>1, <1>5 DEF ItemCopy, location, mime, res
<1> QED BY <1>1, <1>5, <1>6, <1>7 DEF SameBut, TitledCopy

LEMMA EditedActiveFields ==
  ASSUME NEW o, DOMAIN o = Fields, NEW p
  PROVE  LET copy == Editing!EditedActive(o, p)
         IN  /\ SameBut(o, copy, {"title", "class", "meta", "mime", "action", "state"})
             /\ TitledCopy(o, p, copy) /\ ActiveCopy(o, p, copy)
<1> DEFINE q == Editing!Described(Editing!Titled(o, p), p)
           state == IF p.state = Null THEN o.state ELSE p.state
           mime == Editing!Given(p.mime, o.mime)
           action == Editing!Given(p.action, o.action)
<1>1. /\ SameBut(o, q, {"title", "class", "meta"}) /\ TitledCopy(o, p, q)
      /\ q.meta = [o.meta EXCEPT !.desc = Editing!Given(p.desc, "")]
  BY DescribedFields
<1> HIDE DEF q
<1>2. q.state = o.state /\ q.mime = o.mime /\ q.action = o.action
  BY <1>1 DEF SameBut, Fields
<1>3. Editing!EditedActive(o, p) = [q EXCEPT !.state = state, !.mime = mime, !.action = action]
  BY <1>2 DEF Editing!EditedActive, q
<1> SUFFICES ASSUME NEW copy, copy = [q EXCEPT !.state = state, !.mime = mime, !.action = action]
             PROVE  /\ SameBut(o, copy, {"title", "class", "meta", "mime", "action", "state"})
                    /\ TitledCopy(o, p, copy) /\ ActiveCopy(o, p, copy)
  BY <1>3
<1> HIDE DEF state, mime, action
<1>5. /\ DOMAIN copy = Fields /\ copy.state = state /\ copy.mime = mime /\ copy.action = action
      /\ copy.title = q.title /\ copy.class = q.class /\ copy.meta = q.meta
  BY <1>1 DEF SameBut, Fields
<1>6. ASSUME NEW f \in Fields, f \notin {"title", "class", "meta", "mime", "action", "state"}
      PROVE copy[f] = o[f]
  BY <1>1, <1>6 DEF SameBut
<1>7. ActiveCopy(o, p, copy)
  BY <1>1, <1>5 DEF ActiveCopy, state, mime, action
<1> QED BY <1>1, <1>5, <1>6, <1>7 DEF SameBut, TitledCopy

(* The copies can be written.                                              *)
LEMMA GivenIsText ==
  ASSUME NEW s \in Editing!OrNull, NEW old
  PROVE  /\ Editing!StringOK(s) => s \in EditTexts /\ s # Null /\ s # "" /\ Editing!Given(s, old) = s
         /\ ~Editing!StringOK(s) => Editing!Given(s, old) = old
         /\ old \in EditTexts => Editing!Given(s, old) \in EditTexts
  BY DEF Editing!Given, Editing!StringOK, Editing!OrNull

LEMMA CopyStorable ==
  ASSUME NEW o, Storable(o), NEW p \in ObjectEdits, ~Editing!Crashes(o, p)
  PROVE  /\ LET copy == Editing!Titled(o, p)
            IN  o.type = "container" => Storable(copy) /\ Copied(o, copy)
         /\ LET copy == Editing!EditedItem(o, p)
            IN  o.type # "container" => Storable(copy) /\ Copied(o, copy)
         /\ LET copy == Editing!EditedActive(o, p)
            IN  o.type # "container" => Storable(copy) /\ Copied(o, copy)
<1>1. DOMAIN o = Fields /\ o.type \in Editing!Types /\ o.mime \in EditTexts
  BY DEF Storable
<1>2. /\ p.mime \in Editing!OrNull /\ p.protocol \in Editing!OrNull /\ p.desc \in Editing!OrNull
  BY EditConstants
<1>3. Editing!Given(p.mime, o.mime) \in EditTexts /\ Editing!Given(p.desc, "") \in EditTexts
  BY <1>1, <1>2, GivenIsText, EditConstants
<1>4. ASSUME o.type # "container"
      PROVE  [o.meta EXCEPT !.desc = Editing!Given(p.desc, "")] \in Editing!Metas
  BY <1>3, <1>4 DEF Storable, Editing!Metas
<1>5. ASSUME o.type = "container" PROVE Storable(Editing!Titled(o, p)) /\ Copied(o, Editing!Titled(o, p))
  <2> DEFINE copy == Editing!Titled(o, p)
  <2>1. SameBut(o, copy, {"title", "class"})
    BY <1>1, TitledFields
  <2> HIDE DEF copy
  <2>2. /\ copy.type = o.type /\ copy.mime = o.mime /\ copy.location = o.location /\ copy.id = o.id
        /\ copy.ref = o.ref /\ copy.virt = o.virt /\ copy.useRef = o.useRef /\ copy.res = o.res
        /\ DOMAIN copy = Fields
    BY <2>1 DEF SameBut, Fields
  <2>3. Storable(copy) /\ Copied(o, copy)
    BY <1>5, <2>2 DEF Storable, Copied
  <2> QED BY <2>3 DEF copy
<1>6. ASSUME o.type # "container"
      PROVE  Storable(Editing!EditedItem(o, p)) /\ Copied(o, Editing!EditedItem(o, p))
  <2> DEFINE copy == Editing!EditedItem(o, p)
  <2>1. SameBut(o, copy, {"title", "class", "meta", "location", "mime", "res"}) /\ ItemCopy(o, p, copy)
    BY <1>1, EditedItemFields
  <2> HIDE DEF copy
  <2>2. /\ copy.type = o.type /\ copy.id = o.id /\ copy.ref = o.ref /\ copy.virt = o.virt
        /\ copy.useRef = o.useRef /\ DOMAIN copy = Fields
    BY <2>1 DEF SameBut, Fields
  <2>3. copy.res \in Seq(Editing!Infos) /\ (o.res = << >> <=> copy.res = << >>)
    <3>1. o.res \in Seq(Editing!Infos)
      BY <1>6 DEF Storable
    <3>2. CASE ~Editing!Typed(p)
      BY <2>1, <3>1, <3>2 DEF ItemCopy, Editing!EditedResources
    <3>3. CASE Editing!Typed(p)
      <4>1. o.res # << >>
        BY <1>6, <3>3 DEF Editing!Crashes, Editing!IsItem, Editing!IsContainer, Editing!Typed
      <4>2. 1 \in DOMAIN o.res /\ o.res[1] \in Editing!Infos
        BY <3>1, <4>1
      <4>3. o.res[1].protocol \in EditTexts
        BY <4>2 DEF Editing!Infos
      <4> DEFINE protocol == Editing!Given(p.protocol, o.res[1].protocol)
                 mime == Editing!Given(p.mime, o.mime)
                 info == Editing!ProtocolInfo(mime, protocol)
      <4>4. protocol \in EditTexts
        BY <1>2, <4>3, GivenIsText
      <4> HIDE DEF protocol
      <4>5. info \in Editing!Infos
        BY <1>3, <4>4 DEF Editing!ProtocolInfo, Editing!Infos
      <4>6. copy.res = [o.res EXCEPT ![1] = info]
        BY <2>1, <3>3 DEF ItemCopy, protocol, Editing!EditedResources
      <4> HIDE DEF info
      <4>7. copy.res \in Seq(Editing!Infos) /\ Len(copy.res) = Len(o.res)
        BY <3>1, <4>2, <4>5, <4>6
      <4>8. Len(o.res) # 0
        BY <3>1, <4>1
      <4> QED BY <4>1, <4>7, <4>8
    <3> QED BY <3>2, <3>3
  <2>4. copy.meta \in Editing!Metas /\ copy.mime \in EditTexts
    BY <1>3, <1>4, <1>6, <2>1 DEF ItemCopy
  <2>5. Storable(copy) /\ Copied(o, copy)
    BY <1>1, <1>6, <2>2, <2>3, <2>4 DEF Storable, Copied
  <2> QED BY <2>5 DEF copy
<1>7. ASSUME o.type # "container"
      PROVE  Storable(Editing!EditedActive(o, p)) /\ Copied(o, Editing!EditedActive(o, p))
  <2> DEFINE copy == Editing!EditedActive(o, p)
  <2>1. SameBut(o, copy, {"title", "class", "meta", "mime", "action", "state"}) /\ ActiveCopy(o, p, copy)
    BY <1>1, EditedActiveFields
  <2> HIDE DEF copy
  <2>2. /\ copy.type = o.type /\ copy.id = o.id /\ copy.ref = o.ref /\ copy.virt = o.virt
        /\ copy.useRef = o.useRef /\ copy.res = o.res /\ DOMAIN copy = Fields
    BY <2>1 DEF SameBut, Fields
  <2>3. copy.meta \in Editing!Metas /\ copy.mime \in EditTexts
    BY <1>3, <1>4, <1>7, <2>1 DEF ActiveCopy
  <2>4. Storable(copy) /\ Copied(o, copy)
    BY <1>1, <1>7, <2>2, <2>3 DEF Storable, Copied
  <2> QED BY <2>4 DEF copy
<1> QED BY <1>5, <1>6, <1>7

(* The end of a branch of updateObject(): nothing is written, or the copy. *)
Reported(s, t, o) == s.upnp \cup ({o.parent} \ {Editing!Invalid}) \subseteq t.upnp
Saved(s, t, o, copy, id) ==
  \/ t = s /\ o = copy
  \/ /\ RowSet(s.rows, t.rows, id) /\ id \in DOMAIN s.rows /\ Reported(s, t, o)
     /\ ReadsAs(Editing!FromRow(t.rows, id), copy)
     /\ id # 1 => LocatedAs(Editing!FromRow(t.rows, id), copy, s.rows[id])

LEMMA UpdateCases ==
  ASSUME NEW s, WorkFits(s), NEW o, o.id \in Nat, o.id # 1
  PROVE  LET t == Editing!updateRow(s, o)
         IN  \/ t = Editing!Throws(s, "error")
             \/ o.id > 1 /\ t.answer = s.answer
<1> DEFINE rows == [s.rows EXCEPT ![o.id] = Editing!Columns(s, o, Editing!checkRefID(s, o))]
           cache == Editing!Put(s.cache, o)
           t == Editing!updateRow(s, o)
<1>1. t = Editing!Throws(s, "error") \/ (o.id > 1 /\ t = [s EXCEPT !.rows = rows, !.cache = cache])
  BY DEF Editing!updateRow, Editing!FsRoot
<1> HIDE DEF rows, cache
<1>2. [s EXCEPT !.rows = rows, !.cache = cache].answer = s.answer
  BY DEF WorkFits, IsWork
<1> QED BY <1>1, <1>2

LEMMA SaveFacts ==
  ASSUME NEW s, WorkFits(s), s.answer = "success", NEW id, NEW o, NEW copy,
         NEW t, t = Editing!SaveChanged(s, o, copy),
         \/ id = 1 /\ Agrees(o, s.rows, 1) /\ SameBut(o, copy, {"title", "class"})
         \/ id # 1 /\ Loaded(o, s.rows, id) /\ Copied(o, copy) /\ Storable(copy)
  PROVE  /\ WorkFits(t)
         /\ t.answer = "success" => Saved(s, t, o, copy, id) /\ (id # 1 => Loaded(o, t.rows, id))
<1> DEFINE u == Editing!updateRow(s, copy)
           e == Editing!Throws(s, "error")
           done == Editing!Report(u, {o.parent}, IF Editing!IsContainer(o) THEN {o.parent} ELSE {})
<1>1. WorkFits(e) /\ e.answer = "error"
  BY ThrowFits
<1>2. \/ o = copy /\ t = s
      \/ o # copy /\ t = e
      \/ o # copy /\ Editing!validate(copy) /\ t = IF u.answer = "success" THEN done ELSE u
  BY DEF Editing!SaveChanged, Editing!equals, Editing!Going
<1> HIDE DEF e, u
<1>3. CASE o = copy /\ t = s
  BY <1>3 DEF Saved
<1>4. CASE t = e
  BY <1>1, <1>4
<1>5. CASE Editing!validate(copy) /\ t = IF u.answer = "success" THEN done ELSE u
  <2>1. copy.class # Null
    BY <1>5 DEF Editing!validate, Editing!StringOK
  <2>2. ASSUME WorkFits(u), u.upnp = s.upnp
        PROVE  WorkFits(t) /\ t.rows = u.rows /\ (t.answer = "success" => Reported(s, t, o))
    <3>1. CASE u.answer = "success"
      <4>1. t = done
        BY <1>5, <3>1
      <4> QED BY <2>2, <4>1, ReportFits DEF Reported
    <3>2. CASE u.answer # "success"
      BY <1>5, <2>2, <3>2
    <3> QED BY <3>1, <3>2
  <2>3. ASSUME id = 1, Agrees(o, s.rows, 1), SameBut(o, copy, {"title", "class"})
        PROVE  WorkFits(t) /\ (t.answer = "success" => Saved(s, t, o, copy, id))
    <3>1. /\ WorkFits(u) /\ u.upnp = s.upnp /\ RowSet(s.rows, u.rows, 1) /\ 1 \in DOMAIN s.rows
          /\ ReadsAs(Editing!FromRow(u.rows, 1), copy)
      BY <2>1, <2>3, RootWriteFits DEF u, SameBut
    <3> QED BY <2>2, <2>3, <3>1 DEF Saved
  <2>4. ASSUME id # 1, Loaded(o, s.rows, id), Copied(o, copy), Storable(copy)
        PROVE  WorkFits(t) /\ (t.answer = "success" => Saved(s, t, o, copy, id) /\ Loaded(o, t.rows, id))
    <3>1. Loaded(copy, s.rows, id) /\ copy.id = id /\ id \in Nat
      <4>1. Loaded(copy, s.rows, id)
        BY <2>4, CopyLoaded
      <4> QED BY <4>1 DEF Loaded, WorkFits, ObjectsFit, RowsFit
    <3>2. CASE u = e
      BY <1>1, <1>5, <3>2
    <3>3. CASE id > 1 /\ u.answer = s.answer
      <4>1. /\ WorkFits(u) /\ u.upnp = s.upnp /\ RowSet(s.rows, u.rows, id) /\ id \in DOMAIN s.rows
            /\ Loaded(copy, u.rows, id) /\ ReadsAs(Editing!FromRow(u.rows, id), copy)
            /\ LocatedAs(Editing!FromRow(u.rows, id), copy, s.rows[id])
        BY <2>1, <3>1, <3>3, WriteFits DEF u
      <4>2. Copied(copy, o) /\ Storable(o)
        BY <2>4 DEF Copied, Loaded
      <4>3. Loaded(o, u.rows, id)
        BY <4>1, <4>2, CopyLoaded
      <4>4. t.rows = u.rows /\ WorkFits(t) /\ (t.answer = "success" => Reported(s, t, o))
        BY <2>2, <4>1
      <4> QED BY <4>1, <4>3, <4>4 DEF Saved
    <3>4. u = e \/ (id > 1 /\ u.answer = s.answer)
      BY <2>4, <3>1, UpdateCases DEF u, e
    <3> QED BY <3>2, <3>3, <3>4
  <2> QED BY <2>3, <2>4
<1> QED BY <1>2, <1>3, <1>4, <1>5

(* What AsAsked() says, field by field.                                    *)
NamedAs(n, p, o) ==
  /\ n.title = Editing!Given(p.title, o.title) /\ n.class = Editing!Given(p.class, o.class)
  /\ o.type = "container" => n.mime = o.mime
  /\ o.type # "container" => n.mime = Editing!Given(p.mime, o.mime)
ActsAs(n, p, o) ==
  /\ o.type # "active" => n.action = o.action /\ n.state = o.state
  /\ o.type = "active" =>
        /\ n.action = Editing!Given(p.action, o.action)
        /\ n.state = IF p.state = Null THEN o.state ELSE p.state
DetailedAs(n, p, o) ==
  /\ o.type # "container" /\ Editing!StringOK(p.desc) => n.meta.desc = p.desc
  /\ o.type \in {"external", "internal"} /\ Editing!StringOK(p.protocol) => n.res[1].protocol = p.protocol
  /\ o.type \in {"external", "internal"} /\ Editing!StringOK(p.location) /\ o.ref = 0 =>
        n.location = p.location
Asked(n, p, o) == NamedAs(n, p, o) /\ ActsAs(n, p, o) /\ DetailedAs(n, p, o)

LEMMA AskedIsAsAsked ==
  ASSUME NEW n, NEW p \in ObjectEdits, NEW o, o.type \in Editing!Types, Asked(n, p, o)
  PROVE  Editing!AsAsked(n, p, o)
<1>1. /\ p.title \in Editing!OrNull /\ p.class \in Editing!OrNull /\ p.mime \in Editing!OrNull
      /\ p.action \in Editing!OrNull /\ p.state \in Editing!OrNull
  BY EditConstants
<1>2. ASSUME NEW f \in Editing!Editable(o), Editing!StringOK(p[f]),
             f = "location" => o.type # "active" /\ o.ref = 0
      PROVE  Editing!Field(n, f) = p[f]
  <2>1. f \in {"class", "title", "desc", "mime", "location", "protocol", "action", "state"}
    BY DEF Editing!Editable
  <2>2. CASE f = "title"
    <3>1. Editing!Field(n, f) = n.title /\ p[f] = p.title
      BY <2>2 DEF Editing!Field
    <3> QED BY <1>1, <1>2, <3>1, GivenIsText DEF Asked, NamedAs
  <2>3. CASE f = "class"
    <3>1. Editing!Field(n, f) = n.class /\ p[f] = p.class
      BY <2>3 DEF Editing!Field
    <3> QED BY <1>1, <1>2, <3>1, GivenIsText DEF Asked, NamedAs
  <2>4. CASE f = "mime"
    <3>1. Editing!Field(n, f) = n.mime /\ p[f] = p.mime /\ o.type # "container"
      BY <1>2, <2>4 DEF Editing!Field, Editing!Editable, Editing!IsItem, Editing!IsContainer
    <3> QED BY <1>1, <1>2, <3>1, GivenIsText DEF Asked, NamedAs
  <2>5. CASE f = "desc"
    <3>1. Editing!Field(n, f) = n.meta.desc /\ p[f] = p.desc /\ o.type # "container"
      BY <1>2, <2>5 DEF Editing!Field, Editing!Editable, Editing!IsItem, Editing!IsContainer
    <3> QED BY <1>2, <3>1 DEF Asked, DetailedAs
  <2>6. CASE f = "protocol"
    <3>1. Editing!Field(n, f) = n.res[1].protocol /\ p[f] = p.protocol
      BY <2>6 DEF Editing!Field
    <3>2. o.type \in {"external", "internal"}
      BY <1>2, <2>6 DEF Editing!Editable, Editing!IsURL
    <3> QED BY <1>2, <3>1, <3>2 DEF Asked, DetailedAs
  <2>7. CASE f = "location"
    <3>1. Editing!Field(n, f) = n.location /\ p[f] = p.location
      BY <2>7 DEF Editing!Field
    <3>2. o.type \in {"external", "internal"}
      BY <1>2, <2>7 DEF Editing!Editable, Editing!Types, Editing!IsItem, Editing!IsContainer, Editing!IsPure
    <3> QED BY <1>2, <2>7, <3>1, <3>2 DEF Asked, DetailedAs
  <2>8. CASE f = "action"
    <3>1. Editing!Field(n, f) = n.action /\ p[f] = p.action /\ o.type = "active"
      BY <1>2, <2>8 DEF Editing!Field, Editing!Editable
    <3> QED BY <1>1, <1>2, <3>1, GivenIsText DEF Asked, ActsAs
  <2>9. CASE f = "state"
    <3>1. Editing!Field(n, f) = n.state /\ p[f] = p.state /\ o.type = "active"
      BY <1>2, <2>9 DEF Editing!Field, Editing!Editable
    <3> QED BY <1>1, <1>2, <3>1, GivenIsText DEF Asked, ActsAs
  <2> QED BY <2>1, <2>2, <2>3, <2>4, <2>5, <2>6, <2>7, <2>8, <2>9
<1>3. ASSUME NEW f \in {"title", "class", "mime", "action", "state"}, p[f] = Null
      PROVE  n[f] = o[f]
  <2>1. ~Editing!StringOK(Null)
    BY DEF Editing!StringOK
  <2>2. \A old : Editing!Given(Null, old) = old
    BY <2>1 DEF Editing!Given
  <2>3. CASE f = "title"
    BY <1>3, <2>2, <2>3 DEF Asked, NamedAs
  <2>4. CASE f = "class"
    BY <1>3, <2>2, <2>4 DEF Asked, NamedAs
  <2>5. CASE f = "mime"
    BY <1>3, <2>2, <2>5 DEF Asked, NamedAs
  <2>6. CASE f = "action"
    BY <1>3, <2>2, <2>6 DEF Asked, ActsAs
  <2>7. CASE f = "state"
    BY <1>3, <2>7 DEF Asked, ActsAs
  <2> QED BY <2>3, <2>4, <2>5, <2>6, <2>7
<1> QED BY <1>2, <1>3 DEF Editing!AsAsked

(* The copies say what was asked for, and what is read back of them too.   *)
LEMMA ItemAsked ==
  ASSUME NEW o, Storable(o), o.type # "container", NEW p \in ObjectEdits, ~Editing!Crashes(o, p),
         NEW copy, copy = Editing!EditedItem(o, p),
         NEW n, \/ n = copy
                \/ /\ ReadsAs(n, copy)
                   /\ (o.ref = 0 /\ o.type # "item" /\ copy.location # Null) => n.location = copy.location
  PROVE  /\ NamedAs(n, p, o) /\ DetailedAs(n, p, o)
         /\ n.action = o.action /\ n.state = o.state
<1>1. /\ SameBut(o, copy, {"title", "class", "meta", "location", "mime", "res"})
      /\ TitledCopy(o, p, copy) /\ ItemCopy(o, p, copy) /\ Storable(copy)
  BY EditedItemFields, CopyStorable DEF Storable
<1>2. copy.action = o.action /\ copy.state = o.state /\ copy.type = o.type
  BY <1>1 DEF SameBut, Fields
<1>3. NamedAs(n, p, o) /\ n.action = o.action /\ n.state = o.state
  BY <1>1, <1>2 DEF NamedAs, TitledCopy, ItemCopy, ReadsAs
<1>4. p.desc \in Editing!OrNull /\ p.protocol \in Editing!OrNull /\ p.location \in Editing!OrNull
  BY EditConstants
<1>5. ASSUME Editing!StringOK(p.desc) PROVE n.meta.desc = p.desc
  <2>1. Editing!Given(p.desc, "") = p.desc /\ p.desc # "" /\ o.meta \in Editing!Metas
    BY <1>4, <1>5, GivenIsText DEF Storable
  <2>2. copy.meta.desc = p.desc
    BY <1>1, <2>1 DEF ItemCopy, Editing!Metas
  <2>3. copy.meta # Editing!NoMeta
    BY <2>1, <2>2, NoMetaIsEmpty
  <2> QED BY <1>2, <2>2, <2>3 DEF ReadsAs
<1>6. ASSUME Editing!StringOK(p.protocol) PROVE n.res[1].protocol = p.protocol
  <2>1. Editing!Typed(p) /\ o.res # << >> /\ o.res \in Seq(Editing!Infos)
    BY <1>6 DEF Editing!Typed, Editing!Crashes, Editing!IsItem, Editing!IsContainer, Storable
  <2>2. 1 \in DOMAIN o.res
    BY <2>1
  <2> DEFINE info == Editing!ProtocolInfo(Editing!Given(p.mime, o.mime),
                                          Editing!Given(p.protocol, o.res[1].protocol))
  <2>3. info.protocol = p.protocol
    BY <1>4, <1>6, GivenIsText DEF Editing!ProtocolInfo
  <2>4. copy.res = [o.res EXCEPT ![1] = info]
    BY <1>1, <2>1 DEF ItemCopy, Editing!EditedResources
  <2> HIDE DEF info
  <2>5. copy.res[1].protocol = p.protocol /\ copy.res # << >>
    BY <2>2, <2>3, <2>4
  <2> QED BY <1>2, <2>5 DEF ReadsAs
<1>7. ASSUME o.type \in {"external", "internal"}, Editing!StringOK(p.location), o.ref = 0
      PROVE  n.location = p.location
  <2>1. copy.location = p.location /\ p.location # Null
    BY <1>1, <1>4, <1>7, GivenIsText DEF ItemCopy
  <2> QED BY <1>7, <2>1
<1> QED BY <1>3, <1>5, <1>6, <1>7 DEF DetailedAs

LEMMA ActiveAsked ==
  ASSUME NEW o, Storable(o), o.type = "active", NEW p \in ObjectEdits, ~Editing!Crashes(o, p),
         NEW copy, copy = Editing!EditedActive(o, p),
         NEW n, n = copy \/ ReadsAs(n, copy)
  PROVE  Asked(n, p, o)
<1>1. /\ SameBut(o, copy, {"title", "class", "meta", "mime", "action", "state"})
      /\ TitledCopy(o, p, copy) /\ ActiveCopy(o, p, copy)
  BY EditedActiveFields DEF Storable
<1>2. copy.type = o.type
  BY <1>1 DEF SameBut, Fields
<1>3. NamedAs(n, p, o) /\ ActsAs(n, p, o)
  BY <1>1, <1>2 DEF NamedAs, ActsAs, TitledCopy, ActiveCopy, ReadsAs
<1>4. ASSUME Editing!StringOK(p.desc) PROVE n.meta.desc = p.desc
  <2>1. p.desc \in Editing!OrNull
    BY EditConstants
  <2>2. Editing!Given(p.desc, "") = p.desc /\ p.desc # "" /\ o.meta \in Editing!Metas
    BY <1>4, <2>1, GivenIsText DEF Storable
  <2>3. copy.meta.desc = p.desc
    BY <1>1, <2>2 DEF ActiveCopy, Editing!Metas
  <2>4. copy.meta # Editing!NoMeta
    BY <2>2, <2>3, NoMetaIsEmpty
  <2> QED BY <1>2, <2>3, <2>4 DEF ReadsAs
<1> QED BY <1>3, <1>4 DEF Asked, DetailedAs

LEMMA ContainerAsked ==
  ASSUME NEW o, DOMAIN o = Fields, o.type = "container", NEW p,
         NEW copy, copy = Editing!Titled(o, p), NEW n, n = copy \/ ReadsAs(n, copy)
  PROVE  Asked(n, p, o)
<1>1. SameBut(o, copy, {"title", "class"}) /\ TitledCopy(o, p, copy)
  BY TitledFields
<1>2. copy.mime = o.mime /\ copy.action = o.action /\ copy.state = o.state
  BY <1>1 DEF SameBut, Fields
<1> QED BY <1>1, <1>2 DEF Asked, NamedAs, ActsAs, DetailedAs, TitledCopy, ReadsAs

(* The whole of updateObject(): nothing is written if the object looks as  *)
(* it was asked for, and otherwise it is read that way afterwards.         *)
Edited(s, u, p, o, id) ==
  \/ u = s /\ Asked(o, p, o)
  \/ /\ RowSet(s.rows, u.rows, id) /\ id \in DOMAIN s.rows /\ Reported(s, u, o)
     /\ Asked(Editing!FromRow(u.rows, id), p, o)

LEMMA RowSetTwice ==
  ASSUME NEW r, NEW t, NEW u, NEW id, RowSet(r, t, id), RowSet(t, u, id), id \in DOMAIN r
  PROVE  RowSet(r, u, id)
  BY DEF RowSet

LEMMA UpdateObjectFacts ==
  ASSUME NEW s, WorkFits(s), s.answer = "success", NEW id \in DOMAIN s.rows, NEW o,
         Agrees(o, s.rows, id), NEW p \in ObjectEdits, ~Editing!Crashes(o, p),
         NEW u, u = Editing!updateObject(s, o, p)
  PROVE  WorkFits(u) /\ (u.answer = "success" => Edited(s, u, p, o, id))
<1>1. Loaded(o, s.rows, id) /\ Storable(o) /\ DOMAIN o = Fields /\ o.type = s.rows[id].type
      /\ RowFits(s.rows, id, s.rows[id])
  <2>1. RowsFit(s.rows)
    BY DEF WorkFits, ObjectsFit
  <2>2. Loaded(o, s.rows, id)
    BY <2>1, AgreesLoaded
  <2> QED BY <2>1, <2>2 DEF RowsFit, Loaded, Storable
<1>2. CASE o.type = "container"
  <2> DEFINE copy == Editing!Titled(o, p)
  <2>1. u = Editing!SaveChanged(s, o, copy)
    BY <1>2 DEF Editing!updateObject, Editing!IsContainer
  <2>2. SameBut(o, copy, {"title", "class"}) /\ Storable(copy) /\ Copied(o, copy)
    BY <1>1, <1>2, TitledFields, CopyStorable
  <2>3. \A n : n = copy \/ ReadsAs(n, copy) => Asked(n, p, o)
    BY <1>1, <1>2, ContainerAsked
  <2> HIDE DEF copy
  <2>4. WorkFits(u) /\ (u.answer = "success" => Saved(s, u, o, copy, id))
    BY <1>1, <2>1, <2>2, SaveFacts
  <2> QED BY <2>3, <2>4 DEF Saved, Edited
<1>3. CASE o.type # "container"
  <2> DEFINE first == Editing!EditedItem(o, p)
             second == Editing!EditedActive(o, p)
             t == Editing!SaveChanged(s, o, first)
  <2>1. u = IF o.type = "active" THEN Editing!SaveChanged(t, o, second) ELSE t
    BY <1>3 DEF Editing!updateObject, Editing!IsContainer
  <2>2. Storable(first) /\ Copied(o, first) /\ Storable(second) /\ Copied(o, second)
    BY <1>1, <1>3, CopyStorable
  <2>3. id # 1
    BY <1>1, <1>3 DEF WorkFits, ObjectsFit, RowsFit
  <2>4. \A n : n = first
                 \/ (ReadsAs(n, first)
                     /\ (o.ref = 0 /\ o.type # "item" /\ first.location # Null => n.location = first.location)) =>
               NamedAs(n, p, o) /\ DetailedAs(n, p, o) /\ n.action = o.action /\ n.state = o.state
    BY <1>1, <1>3, ItemAsked
  <2>5. o.type = "active" => \A n : n = second \/ ReadsAs(n, second) => Asked(n, p, o)
    BY <1>1, ActiveAsked
  <2>6. WorkFits(t) /\ (t.answer = "success" => Saved(s, t, o, first, id) /\ Loaded(o, t.rows, id))
    BY <1>1, <2>2, <2>3, SaveFacts
  <2> HIDE DEF first, second, t
  <2>7. ASSUME t.answer = "success"
        PROVE  \/ t = s /\ NamedAs(o, p, o) /\ DetailedAs(o, p, o)
               \/ /\ RowSet(s.rows, t.rows, id) /\ Reported(s, t, o)
                  /\ LET n == Editing!FromRow(t.rows, id)
                     IN  NamedAs(n, p, o) /\ DetailedAs(n, p, o) /\ n.action = o.action /\ n.state = o.state
    <3>1. CASE t = s /\ o = first
      BY <2>4, <3>1
    <3>2. CASE ~(t = s /\ o = first)
      <4> DEFINE n == Editing!FromRow(t.rows, id)
      <4>1. /\ RowSet(s.rows, t.rows, id) /\ Reported(s, t, o) /\ ReadsAs(n, first)
            /\ LocatedAs(n, first, s.rows[id])
        BY <2>3, <2>6, <2>7, <3>2 DEF Saved
      <4> HIDE DEF n
      <4>2. o.ref = 0 /\ o.type # "item" => s.rows[id].ref = 0
        BY <1>1 DEF Loaded
      <4>3. o.ref = 0 /\ o.type # "item" /\ first.location # Null => n.location = first.location
        BY <4>1, <4>2 DEF LocatedAs
      <4>4. NamedAs(n, p, o) /\ DetailedAs(n, p, o) /\ n.action = o.action /\ n.state = o.state
        BY <2>4, <4>1, <4>3
      <4> QED BY <4>1, <4>4 DEF n
    <3> QED BY <3>1, <3>2
  <2>8. CASE o.type # "active"
    <3>1. u = t
      BY <2>1, <2>8
    <3>2. ASSUME NEW n, n.action = o.action, n.state = o.state PROVE ActsAs(n, p, o)
      BY <2>8, <3>2 DEF ActsAs
    <3> QED BY <2>6, <2>7, <3>1, <3>2 DEF Edited, Asked
  <2>9. CASE o.type = "active"
    <3>1. u = Editing!SaveChanged(t, o, second)
      BY <2>1, <2>9
    <3>2. CASE t.answer # "success"
      <4>1. u = t
        BY <3>1, <3>2 DEF Editing!SaveChanged, Editing!Going
      <4> QED BY <2>6, <3>2, <4>1
    <3>3. CASE t.answer = "success"
      <4>1. WorkFits(u) /\ (u.answer = "success" => Saved(t, u, o, second, id))
        BY <2>2, <2>3, <2>6, <3>1, <3>3, SaveFacts
      <4>2. ASSUME u.answer = "success" PROVE Edited(s, u, p, o, id)
        <5>1. CASE u = t /\ o = second
          <6>1. Asked(o, p, o)
            BY <2>5, <2>9, <5>1
          <6>2. ASSUME NEW n, n.action = o.action, n.state = o.state PROVE ActsAs(n, p, o)
            BY <6>1, <6>2 DEF Asked, ActsAs
          <6> QED BY <2>7, <3>3, <5>1, <6>1, <6>2 DEF Edited, Asked
        <5>2. CASE ~(u = t /\ o = second)
          <6>1. /\ RowSet(t.rows, u.rows, id) /\ Reported(t, u, o)
                /\ ReadsAs(Editing!FromRow(u.rows, id), second)
            BY <4>1, <4>2, <5>2 DEF Saved
          <6>2. Asked(Editing!FromRow(u.rows, id), p, o)
            BY <2>5, <2>9, <6>1
          <6>3. t = s \/ (RowSet(s.rows, t.rows, id) /\ Reported(s, t, o))
            BY <2>7, <3>3
          <6>4. RowSet(s.rows, u.rows, id) /\ Reported(s, u, o)
            BY <6>1, <6>3, RowSetTwice DEF Reported
          <6> QED BY <6>2, <6>4 DEF Edited
        <5> QED BY <5>1, <5>2
      <4> QED BY <4>1, <4>2
    <3> QED BY <3>2, <3>3
  <2> QED BY <2>8, <2>9
<1> QED BY <1>2, <1>3

(* If nothing is written, the row says what was asked for, or the object   *)
(* in the cache is behind the one it refers to.                            *)
Behind(r, c, id) ==
  /\ id \in DOMAIN c /\ r[id].ref > 0
  /\ \E f \in {"class", "desc", "protocol"} \cap Editing!Editable(c[id]) :
        Editing!Field(c[id], f) # Editing!Field(Editing!FromRow(r, id), f)

LEMMA UnwrittenAsked ==
  ASSUME NEW r, NEW c, ObjectsFit(r, c), NEW id \in DOMAIN r, NEW o,
         o = Editing!loadObject(r, c, id), NEW p, Asked(o, p, o), ~Behind(r, c, id)
  PROVE  Asked(Editing!FromRow(r, id), p, o)
<1> DEFINE n == Editing!FromRow(r, id)
           row == r[id]
<1> SUFFICES Asked(n, p, o)
  OBVIOUS
<1>1. CASE id \notin DOMAIN c
  BY <1>1 DEF Editing!loadObject
<1>2. CASE id \in DOMAIN c
  <2>1. o = c[id] /\ Agrees(o, r, id) /\ RowsFit(r)
    BY <1>2 DEF Editing!loadObject, ObjectsFit, CacheFits
  <2>2. Agrees(n, r, id)
    BY <2>1, ReadAgrees
  <2>3. RowFits(r, id, row)
    BY <2>1 DEF RowsFit
  <2> HIDE DEF n
  <2>4. /\ n.title = o.title /\ n.mime = o.mime /\ n.action = o.action /\ n.state = o.state
        /\ o.type = row.type
    BY <2>1, <2>2 DEF Agrees, AsTheRow
  <2>5. CASE row.ref = 0
    <3>1. AsTheOwnRow(o, row) /\ AsTheOwnRow(n, row)
      BY <2>1, <2>2, <2>5 DEF Agrees
    <3>2. n.class = o.class /\ (o.type # "container" => n.meta = o.meta /\ n.res = o.res)
          /\ n.location = o.location
      BY <2>4, <3>1 DEF AsTheOwnRow
    <3>3. NamedAs(n, p, o) /\ ActsAs(n, p, o)
      BY <2>4, <3>2 DEF Asked, NamedAs, ActsAs
    <3>4. DetailedAs(n, p, o)
      BY <3>2 DEF Asked, DetailedAs
    <3> QED BY <3>3, <3>4 DEF Asked
  <2>6. CASE row.ref # 0
    <3>1. row.ref > 0 /\ o.type # "container"
      BY <2>1, <2>3, <2>4, <2>6, RefersFacts DEF RowFits, OwnRow, LinkRow
    <3>2. \A f \in {"class", "desc", "protocol"} \cap Editing!Editable(o) :
             Editing!Field(o, f) = Editing!Field(n, f)
      BY <1>2, <2>1, <3>1 DEF Behind, n
    <3>3. n.class = o.class
      <4>1. "class" \in Editing!Editable(o)
        BY DEF Editing!Editable
      <4>2. \A x : Editing!Field(x, "class") = x.class
        BY DEF Editing!Field
      <4> QED BY <3>2, <4>1, <4>2
    <3>4. n.meta.desc = o.meta.desc
      <4>1. "desc" \in Editing!Editable(o)
        BY <3>1 DEF Editing!Editable, Editing!IsItem, Editing!IsContainer
      <4>2. \A x : Editing!Field(x, "desc") = x.meta.desc
        BY DEF Editing!Field
      <4> QED BY <3>2, <4>1, <4>2
    <3>5. o.type \in {"external", "internal"} => n.res[1].protocol = o.res[1].protocol
      <4>1. o.type \in {"external", "internal"} => "protocol" \in Editing!Editable(o)
        BY DEF Editing!Editable, Editing!IsURL
      <4>2. \A x : Editing!Field(x, "protocol") = x.res[1].protocol
        BY DEF Editing!Field
      <4> QED BY <3>2, <4>1, <4>2
    <3>6. o.type # "item" => o.ref # 0
      BY <2>1, <2>4, <2>6 DEF Agrees
    <3>7. NamedAs(n, p, o) /\ ActsAs(n, p, o)
      BY <2>4, <3>3 DEF Asked, NamedAs, ActsAs
    <3>8. DetailedAs(n, p, o)
      BY <3>4, <3>5, <3>6 DEF Asked, DetailedAs
    <3> QED BY <3>7, <3>8 DEF Asked
  <2> QED BY <2>3, <2>5, <2>6
<1> QED BY <1>1, <1>2

LEMMA StartFits ==
  ASSUME EditInv
  PROVE  WorkFits(Editing!Start) /\ Editing!Start.answer = "success" /\ Editing!Start.rows = oe_rows
         /\ Editing!Start.cache = oe_cache
  BY DEF Editing!Start, WorkFits, IsWork, EditInv

(* A request that loads an object into the cache.                          *)
LEMMA CachedFits ==
  ASSUME EditInv, NEW id \in DOMAIN oe_rows, NEW s,
         s = [Editing!Start EXCEPT !.cache = Editing!Put(@, Editing!loadObject(oe_rows, oe_cache, id))]
  PROVE  WorkFits(s) /\ s.answer = "success" /\ s.rows = oe_rows
<1> DEFINE o == Editing!loadObject(oe_rows, oe_cache, id)
           cache == Editing!Put(oe_cache, o)
<1>1. Agrees(o, oe_rows, id)
  BY LoadAgrees DEF EditInv
<1>2. CacheFits(cache, oe_rows)
  BY <1>1, PutFits DEF EditInv, ObjectsFit
<1>3. s = [Editing!Start EXCEPT !.cache = cache]
  BY StartFits
<1> HIDE DEF cache
<1>4. IsWork(s) /\ s.answer = "success" /\ s.rows = oe_rows /\ s.cache = cache
  BY <1>3, StartFits DEF WorkFits, IsWork
<1> QED BY <1>2, <1>4 DEF WorkFits, ObjectsFit, EditInv

(* What a step does that edits an object.                                  *)
LEMMA EditStep ==
  ASSUME EditInv, NEW id \in 0 .. EditRows, NEW p \in ObjectEdits, Editing!EditSavePage(id, p)
  PROVE  /\ EditInv'
         /\ oe_up' /\ oe_answer' = "success" /\ oe_request'.page = "edit_save" =>
              LET o == Editing!loadObject(oe_rows, oe_cache, id)
              IN  /\ oe_request'.id = id /\ oe_request'.p = p /\ id \in DOMAIN oe_rows
                  /\ \/ oe_rows' = oe_rows /\ Asked(o, p, o)
                     \/ /\ RowSet(oe_rows, oe_rows', id)
                        /\ {o.parent} \ {Editing!Invalid} \subseteq oe_told'.upnp
                        /\ Asked(Editing!FromRow(oe_rows', id), p, o)
<1> DEFINE o == Editing!loadObject(oe_rows, oe_cache, id)
           s == [Editing!Start EXCEPT !.cache = Editing!Put(@, o)]
           u == Editing!updateObject(s, o, p)
<1>1. id \in DOMAIN oe_rows
  BY DEF Editing!EditSavePage
<1>2. WorkFits(s) /\ s.answer = "success" /\ s.rows = oe_rows
  BY <1>1, CachedFits
<1>3. Agrees(o, oe_rows, id)
  BY <1>1, LoadAgrees DEF EditInv
<1>4. CASE Editing!Crashes(o, p)
  <2>1. oe_up' = FALSE /\ UNCHANGED << oe_rows, oe_cache >>
    BY <1>4 DEF Editing!EditSavePage
  <2> QED BY <2>1 DEF EditInv
<1>5. CASE ~Editing!Crashes(o, p)
  <2>1. /\ oe_rows' = u.rows /\ oe_cache' = u.cache /\ oe_answer' = u.answer
        /\ oe_told' = [upnp |-> u.upnp, ui |-> u.ui]
        /\ oe_request' = [page |-> "edit_save", id |-> id, p |-> p]
    BY <1>5 DEF Editing!EditSavePage, Editing!Change, Editing!Answers
  <2>2. WorkFits(u) /\ (u.answer = "success" => Edited(s, u, p, o, id))
    <3> HIDE DEF s, o
    <3> QED BY <1>1, <1>2, <1>3, <1>5, UpdateObjectFacts
  <2> HIDE DEF s, o, u
  <2>3. EditInv'
    BY <2>1, <2>2 DEF EditInv, WorkFits
  <2>4. ASSUME u.answer = "success"
        PROVE  \/ oe_rows' = oe_rows /\ Asked(o, p, o)
               \/ /\ RowSet(oe_rows, oe_rows', id)
                  /\ {o.parent} \ {Editing!Invalid} \subseteq oe_told'.upnp
                  /\ Asked(Editing!FromRow(oe_rows', id), p, o)
    BY <1>2, <2>1, <2>2, <2>4 DEF Edited, Reported
  <2>5. oe_request'.id = id /\ oe_request'.p = p
    BY <2>1
  <2> QED BY <1>1, <2>1, <2>3, <2>4, <2>5 DEF o
<1> QED BY <1>4, <1>5

-----------------------------------------------------------------------------
(* A new row.                                                              *)
LEMMA GreatestExists ==
  ASSUME NEW n \in Nat, NEW S \in SUBSET (0 .. n), S # {}
  PROVE  \E x \in S : \A y \in S : x >= y
<1> DEFINE T == {k \in Nat : \A U \in SUBSET (0 .. k) : U # {} => \E x \in U : \A y \in U : x >= y}
<1>1. 0 \in T
  <2>1. ASSUME NEW U \in SUBSET (0 .. 0), U # {} PROVE \E x \in U : \A y \in U : x >= y
    <3>1. \A y \in U : y = 0
      OBVIOUS
    <3>2. 0 \in U
      BY <2>1, <3>1
    <3> QED BY <3>1, <3>2
  <2> QED BY <2>1
<1>2. ASSUME NEW k \in Nat, k \in T PROVE k + 1 \in T
  <2>1. ASSUME NEW U \in SUBSET (0 .. (k + 1)), U # {} PROVE \E x \in U : \A y \in U : x >= y
    <3>1. CASE k + 1 \in U
      BY <2>1, <3>1
    <3>2. CASE k + 1 \notin U
      <4>1. U \in SUBSET (0 .. k)
        BY <2>1, <3>2
      <4> QED BY <1>2, <2>1, <4>1
    <3> QED BY <3>1, <3>2
  <2> QED BY <2>1
<1> HIDE DEF T
<1>3. n \in T
  BY <1>1, <1>2, NatSetInduction
<1> QED BY <1>3 DEF T

LEMMA NextIDIsNew ==
  ASSUME NEW r, RowsFit(r)
  PROVE  Editing!getNextID(r) \in Nat /\ Editing!getNextID(r) \notin DOMAIN r
<1> DEFINE x == Editing!Max(DOMAIN r)
<1>1. PICK n \in Nat : DOMAIN r \subseteq 0 .. n
  BY DEF RowsFit
<1>2. \E y \in DOMAIN r : \A z \in DOMAIN r : y >= z
  BY <1>1, GreatestExists DEF RowsFit
<1>3. x \in DOMAIN r /\ \A z \in DOMAIN r : x >= z
  BY <1>2 DEF Editing!Max
<1>4. Editing!getNextID(r) = x + 1
  BY DEF Editing!getNextID
<1> HIDE DEF x
<1> QED BY <1>1, <1>3, <1>4

LEMMA NewRowFields ==
  ASSUME NEW r, RowsFit(r), NEW row, DOMAIN row = Fields
  PROVE  LET id == Editing!getNextID(r)
             t == Editing!NewRow(r, row)
         IN  /\ RowSet(r, t, id) /\ id \notin DOMAIN r /\ id \in DOMAIN t
             /\ DOMAIN t[id] = Fields /\ t[id].id = id
             /\ \A f \in Fields \ {"id"} : t[id][f] = row[f]
<1> DEFINE id == Editing!getNextID(r)
           t == Editing!NewRow(r, row)
           new == [row EXCEPT !.id = id]
<1>1. id \in Nat /\ id \notin DOMAIN r
  BY NextIDIsNew
<1>2. t = [i \in DOMAIN r \cup {id} |-> IF i = id THEN new ELSE r[i]]
  BY DEF Editing!NewRow
<1>3. DOMAIN new = Fields /\ new.id = id /\ \A f \in Fields \ {"id"} : new[f] = row[f]
  BY DEF Fields
<1> HIDE DEF id, t, new
<1>4. t[id] = new /\ RowSet(r, t, id) /\ id \in DOMAIN t
  BY <1>1, <1>2 DEF RowSet
<1>5. /\ RowSet(r, t, id) /\ id \notin DOMAIN r /\ id \in DOMAIN t
      /\ DOMAIN t[id] = Fields /\ t[id].id = id
      /\ \A f \in Fields \ {"id"} : t[id][f] = row[f]
  BY <1>1, <1>3, <1>4
<1> QED BY <1>5 DEF id, t

LEMMA CreatedFields ==
  ASSUME NEW type
  PROVE  LET o == Editing!createObject(type)
         IN  /\ DOMAIN o = Fields /\ o.type = type /\ o.ref = 0 /\ o.meta = Editing!NoMeta
             /\ o.res = << >> /\ o.mime = "octet" /\ o.virt = FALSE /\ o.online = FALSE
             /\ o.useRef = FALSE
  BY DEF Editing!createObject, Fields

GrownTo(r, t, c) == ObjectsFit(t, c) /\ \A ref : RefersTo(r, ref) => RefersTo(t, ref)

LEMMA ContainerFits ==
  ASSUME NEW r, NEW c, NEW parent, NEW title, NEW location, NEW virt, NEW class,
         ObjectsFit(r, c), location \in Seq(Names)
  PROVE  GrownTo(r, Editing!createContainer(r, parent, title, location, virt, class), c)
<1> DEFINE object == Editing!createObject("container")
           named == IF Editing!StringOK(class) THEN class ELSE "container"
           row == [object EXCEPT !.parent = parent, !.title = title, !.location = location,
                                 !.virt = virt, !.class = named]
           id == Editing!getNextID(r)
           t == Editing!createContainer(r, parent, title, location, virt, class)
<1>1. t = Editing!NewRow(r, row)
  BY DEF Editing!createContainer
<1>2. /\ DOMAIN object = Fields /\ object.type = "container" /\ object.ref = 0
      /\ object.mime = "octet" /\ object.useRef = FALSE
  BY CreatedFields
<1> HIDE DEF object, named
<1>3. /\ DOMAIN row = Fields /\ row.type = "container" /\ row.ref = 0 /\ row.location = location
      /\ row.mime = "octet" /\ row.useRef = FALSE
  BY <1>2 DEF Fields
<1> HIDE DEF row
<1>4. /\ RowSet(r, t, id) /\ id \notin DOMAIN r
      /\ DOMAIN t[id] = Fields /\ t[id].id = id
      /\ \A f \in Fields \ {"id"} : t[id][f] = row[f]
  BY <1>1, <1>3, NewRowFields DEF ObjectsFit
<1> HIDE DEF id, t
<1>5. /\ t[id].type = "container" /\ t[id].ref = 0 /\ t[id].location = location
      /\ t[id].mime = "octet" /\ t[id].useRef = FALSE
  BY <1>3, <1>4 DEF Fields
<1>6. RowFits(t, id, t[id])
  BY <1>4, <1>5, EditConstants DEF RowFits, OwnRow, Editing!Types
<1>7. ObjectsFit(t, c)
  BY <1>4, <1>6, RowSetFits, NewRowCache DEF ObjectsFit
<1>8. \A ref : RefersTo(r, ref) => RefersTo(t, ref)
  BY <1>4, StillRefers
<1> QED BY <1>7, <1>8 DEF GrownTo, t

(* The rows of a request are replaced.                                     *)
LEMMA RowsReplaced ==
  ASSUME NEW s, IsWork(s), NEW r, ObjectsFit(r, s.cache), NEW t, t = [s EXCEPT !.rows = r]
  PROVE  WorkFits(t) /\ t.rows = r /\ t.cache = s.cache /\ t.answer = s.answer
  BY DEF IsWork, WorkFits

LEMMA DirectoryIsPath == Editing!Directory \in Seq(Names)
<1>1. "files" \in Names
  BY DEF Names
<1> QED BY <1>1 DEF Editing!Directory

LEMMA EnsuredFits ==
  ASSUME NEW s, WorkFits(s), NEW t, t = Editing!ensurePathExistence(s)
  PROVE  WorkFits(t) /\ t.answer = s.answer /\ \A ref : RefersTo(s.rows, ref) => RefersTo(t.rows, ref)
<1> DEFINE r == Editing!createContainer(s.rows, Editing!FsRoot, "files", Editing!Directory, FALSE, Null)
           u == [s EXCEPT !.rows = r]
<1>1. CASE t = s
  BY <1>1
<1>2. CASE t = Editing!Report(u, {Editing!FsRoot}, {Editing!FsRoot})
  <2>1. ObjectsFit(r, s.cache) /\ \A ref : RefersTo(s.rows, ref) => RefersTo(r, ref)
    <3>1. ObjectsFit(s.rows, s.cache)
      BY DEF WorkFits
    <3>2. GrownTo(s.rows, r, s.cache)
      BY <3>1, ContainerFits, DirectoryIsPath
    <3> HIDE DEF r
    <3> QED BY <3>2 DEF GrownTo
  <2> HIDE DEF r
  <2>2. WorkFits(u) /\ u.rows = r /\ u.answer = s.answer
    BY <2>1, RowsReplaced DEF WorkFits
  <2> HIDE DEF u
  <2>3. WorkFits(t) /\ t.rows = u.rows /\ t.answer = u.answer
    BY <1>2, <2>2, ReportFits
  <2> QED BY <2>1, <2>2, <2>3
<1>3. t = s \/ t = Editing!Report(u, {Editing!FsRoot}, {Editing!FsRoot})
  BY DEF Editing!ensurePathExistence
<1> QED BY <1>1, <1>2, <1>3

(* An object that can be added: a file, a link to one, or another item.    *)
Addable(o, r) ==
  /\ Storable(o) /\ o.type # "container" /\ o.online = FALSE /\ o.virt \in BOOLEAN
  /\ o.type # "item" => o.virt = TRUE
  /\ ~(o.type = "item" /\ o.virt = TRUE) => o.ref = 0 /\ o.res # << >>
  /\ o.ref # 0 => RefersTo(r, o.ref)

(* The requests that add leave a file behind that can be found.            *)
HasFile(s, o) ==
  s.answer = "success" /\ o.type = "item" /\ o.virt = FALSE =>
    \E id \in DOMAIN s.rows :
       /\ s.rows[id].type = "item" /\ s.rows[id].ref = 0
       /\ s.rows[id].location = o.location

LEMMA InsertFits ==
  ASSUME NEW s, NEW o, NEW u, u = Editing!insertRow(s, o), WorkFits(s), Addable(o, s.rows)
  PROVE  WorkFits(u) /\ HasFile(u, o)
<1> DEFINE real == o.type = "item" /\ ~o.virt
           t == IF real THEN Editing!ensurePathExistence(s) ELSE s
           placed == IF real THEN [o EXCEPT !.parent = Editing!Container(t.rows, Editing!Directory, FALSE)]
                     ELSE o
           ref == Editing!checkRefID(s, o)
           columns == Editing!Columns(s, placed, ref)
           id == Editing!getNextID(t.rows)
           rows == Editing!NewRow(t.rows, columns)
           object == [placed EXCEPT !.id = id, !.useRef = FALSE]
           cache == Editing!Put(t.cache, object)
<1>1. \/ u = Editing!Throws(s, "error")
      \/ u = s /\ ref > 0
      \/ ref # Editing!Invalid /\ u = [t EXCEPT !.rows = rows, !.cache = cache]
  BY DEF Editing!insertRow, Editing!IsPure
<1>2. /\ ref = Editing!Invalid \/ ref = 0 \/ RefersTo(s.rows, ref)
      /\ o.type = "item" /\ o.virt => ref # 0
      /\ ~(o.type = "item" /\ o.virt) => ref \in {Editing!Invalid, o.ref}
  <2>1. o.ref # 0 => RefersTo(s.rows, o.ref) /\ o.type # "container"
    BY DEF Addable
  <2> QED BY <2>1, RefOf DEF WorkFits, ObjectsFit
<1>3. WorkFits(t) /\ \A x : RefersTo(s.rows, x) => RefersTo(t.rows, x)
  BY EnsuredFits
<1>4. /\ DOMAIN placed = Fields /\ \A f \in Fields \ {"parent"} : placed[f] = o[f]
  BY DEF Addable, Storable
<1> HIDE DEF ref, columns, id, rows, placed
<1>5. CASE u = Editing!Throws(s, "error")
  BY <1>5, ThrowFits DEF HasFile
<1>6. CASE u = s /\ ref > 0
  <2>1. ref # 0 /\ ref # Editing!Invalid
    BY <1>6 DEF Editing!Invalid
  <2>2. ~(o.type = "item" /\ o.virt = FALSE)
    BY <1>2, <2>1 DEF Addable
  <2> QED BY <1>6, <2>2 DEF HasFile
<1>7. CASE ref # Editing!Invalid /\ u = [t EXCEPT !.rows = rows, !.cache = cache]
  <2>1. /\ ref = 0 \/ RefersTo(s.rows, ref)
        /\ o.type = "item" /\ o.virt = TRUE => ref # 0
        /\ ~(o.type = "item" /\ o.virt = TRUE) => ref = 0 /\ o.ref = 0 /\ o.res # << >>
        /\ real => ref = 0
    BY <1>2, <1>7 DEF Addable
  <2>2. /\ placed.type = o.type /\ placed.mime = o.mime /\ placed.meta = o.meta /\ placed.res = o.res
        /\ placed.location = o.location /\ placed.ref = o.ref /\ placed.virt = o.virt
        /\ placed.online = o.online
    BY <1>4 DEF Fields
  <2>3. Written(columns, placed, s.rows) /\ columns.ref = ref /\ DOMAIN columns = Fields
    <3>1. Written(columns, placed, s.rows) /\ columns.ref = ref
      BY <1>4, <2>1, ColumnsWritten DEF WorkFits, columns
    <3> QED BY <3>1 DEF Written, Carried
  <2>4. /\ RowSet(t.rows, rows, id) /\ id \notin DOMAIN t.rows /\ id \in DOMAIN rows
        /\ DOMAIN rows[id] = Fields /\ rows[id].id = id
        /\ \A f \in Fields \ {"id"} : rows[id][f] = columns[f]
    BY <1>3, <2>3, NewRowFields DEF WorkFits, ObjectsFit, id, rows
  <2> DEFINE row == rows[id]
  <2>5. Written(row, placed, s.rows) /\ row.ref = ref
    <3>1. /\ row.type = columns.type /\ row.title = columns.title /\ row.mime = columns.mime
          /\ row.action = columns.action /\ row.state = columns.state /\ row.online = columns.online
          /\ row.virt = columns.virt /\ row.useRef = columns.useRef /\ row.ref = columns.ref
          /\ row.class = columns.class /\ row.location = columns.location /\ row.meta = columns.meta
          /\ row.res = columns.res
      BY <2>4 DEF Fields
    <3>2. DOMAIN row = Fields
      BY <2>4
    <3> HIDE DEF row
    <3>3. Carried(row, placed)
      BY <2>3, <3>1, <3>2 DEF Written, Carried
    <3>4. OwnColumns(columns, placed) => OwnColumns(row, placed)
      BY <3>1 DEF OwnColumns
    <3>5. \A x : LinkColumns(columns, placed, x) => LinkColumns(row, placed, x)
      BY <3>1 DEF LinkColumns
    <3> QED BY <2>3, <3>1, <3>3, <3>4, <3>5 DEF Written
  <2>6. Written(row, placed, t.rows)
    <3>1. CASE real
      BY <2>1, <2>5, <3>1 DEF Written
    <3>2. CASE ~real
      BY <2>5, <3>2
    <3> QED BY <3>1, <3>2
  <2>7. Storable(placed)
    BY <1>4, <2>2 DEF Addable, Storable
  <2>8. ref \in Nat
    BY <2>1, RefersFacts DEF WorkFits, ObjectsFit
  <2>9. RowFits(rows, id, row)
    <3>1. /\ row.ref = 0 /\ placed.type # "container" => placed.res # << >>
          /\ placed.type = "container" => row.ref = 0
          /\ row.id = id
      BY <2>1, <2>2, <2>4, <2>5 DEF Addable
    <3> HIDE DEF row
    <3> QED BY <2>4, <2>6, <2>7, <3>1, WrittenFits
  <2>10. Agrees(object, rows, id)
    <3>1. /\ DOMAIN object = Fields /\ object.id = id /\ object.useRef = FALSE
          /\ SameObject(object, placed)
      BY <1>4 DEF SameObject, Fields
    <3>2. /\ row.ref = 0 => placed.ref = 0 /\ (placed.type # "container" => placed.res # << >>)
          /\ placed.type = "container" => row.ref = 0
          /\ row.ref # 0 /\ placed.type # "item" => placed.ref = row.ref
      BY <2>1, <2>2, <2>5 DEF Addable
    <3>3. placed.ref # 0 => RefersTo(t.rows, placed.ref)
      BY <1>3, <2>2 DEF Addable
    <3>4. placed.type # "container" => placed.virt = (placed.type # "item" \/ row.ref > 0)
      <4>1. row.ref > 0 <=> ref # 0
        BY <2>5, <2>8
      <4>2. CASE placed.virt = TRUE
        <5>1. placed.type # "item" \/ row.ref > 0
          BY <2>1, <2>2, <4>1, <4>2
        <5> QED BY <4>2, <5>1
      <4>3. CASE placed.virt = FALSE
        <5>1. placed.type = "item" /\ ref = 0
          BY <2>1, <2>2, <4>3 DEF Addable
        <5>2. ~(placed.type # "item" \/ row.ref > 0)
          BY <4>1, <5>1
        <5> QED BY <4>3, <5>2
      <4> QED BY <2>2, <4>2, <4>3 DEF Addable
    <3>5. row.ref \in Nat /\ rows[id] = row
      BY <2>5, <2>8
    <3> HIDE DEF row, object
    <3> QED BY <2>4, <2>6, <2>7, <3>1, <3>2, <3>3, <3>4, <3>5, WrittenAgrees
  <2>11. RowsFit(rows)
    BY <1>3, <2>4, <2>9, RowSetFits DEF WorkFits, ObjectsFit
  <2>12. CacheFits(cache, rows)
    <3> HIDE DEF object
    <3> QED BY <1>3, <2>4, <2>10, RowSetCache DEF WorkFits, ObjectsFit
  <2> HIDE DEF t, cache
  <2>13. u.rows = rows /\ WorkFits(u)
    BY <1>3, <1>7, <2>11, <2>12 DEF WorkFits, IsWork, ObjectsFit
  <2>14. o.type = "item" /\ o.virt = FALSE =>
           row.type = "item" /\ row.ref = 0 /\ row.location = o.location
    BY <2>1, <2>2, <2>5 DEF Written, Carried, OwnColumns
  <2> QED BY <2>4, <2>13, <2>14 DEF HasFile
<1> QED BY <1>1, <1>5, <1>6, <1>7

LEMMA AddFits ==
  ASSUME NEW s, NEW o, NEW u, u = Editing!addObject(s, o), WorkFits(s), Addable(o, s.rows)
  PROVE  WorkFits(u) /\ HasFile(u, o)
<1> DEFINE t == Editing!insertRow(s, o)
           parent == IF t.rows = s.rows \/ o.virt THEN o.parent
                     ELSE Editing!Container(t.rows, Editing!Directory, FALSE)
           first == Editing!Cardinality(Editing!Children(t.rows, parent)) = 1
           told == {parent} \cup (IF first THEN {t.rows[parent].parent} ELSE {})
<1>1. \/ u = s /\ s.answer # "success"
      \/ u = Editing!Throws(s, "error")
      \/ u = t
      \/ u = Editing!Report(t, told, {})
  BY DEF Editing!addObject, Editing!Going
<1>2. WorkFits(t) /\ HasFile(t, o)
  <2>1. t = Editing!insertRow(s, o)
    OBVIOUS
  <2> HIDE DEF t
  <2> QED BY <2>1, InsertFits
<1> HIDE DEF t, told
<1>3. CASE u = s /\ s.answer # "success"
  BY <1>3 DEF HasFile
<1>4. CASE u = Editing!Throws(s, "error")
  BY <1>4, ThrowFits DEF HasFile
<1>5. CASE u = t
  BY <1>2, <1>5
<1>6. CASE u = Editing!Report(t, told, {})
  <2>1. WorkFits(u) /\ u.answer = t.answer /\ u.rows = t.rows
    BY <1>2, <1>6, ReportFits
  <2> QED BY <1>2, <2>1 DEF HasFile
<1> QED BY <1>1, <1>3, <1>4, <1>5, <1>6

LEMMA HttpGetIsText == Editing!HttpGet \in EditTexts
<1>1. ResourceProtocols \in Seq(EditTexts) /\ ResourceProtocols # << >>
  BY EditConstants
<1>2. 1 \in DOMAIN ResourceProtocols
  BY <1>1
<1> QED BY <1>1, <1>2 DEF Editing!HttpGet

LEMMA InfoIsOne ==
  ASSUME NEW mime \in EditTexts, NEW protocol \in EditTexts
  PROVE  LET res == << Editing!ProtocolInfo(mime, protocol) >>
         IN  res \in Seq(Editing!Infos) /\ res # << >>
<1> DEFINE info == Editing!ProtocolInfo(mime, protocol)
<1>1. info \in Editing!Infos
  BY DEF Editing!ProtocolInfo, Editing!Infos
<1> HIDE DEF info
<1>2. << info >> \in Seq(Editing!Infos) /\ << info >> # << >>
  BY <1>1
<1> QED BY <1>2 DEF info

LEMMA FileIsAddable ==
  ASSUME NEW f, NEW r
  PROVE  LET o == Editing!createObjectFromFile(f)
         IN  Addable(o, r) /\ o.type = "item" /\ o.virt = FALSE /\ o.location = f
<1> DEFINE object == Editing!createObject("item")
           meta == [object.meta EXCEPT !.other = TRUE]
           res == << Editing!ProtocolInfo("file", Editing!HttpGet) >>
           o == [object EXCEPT !.title = f, !.location = f, !.mime = "file", !.meta = meta, !.res = res]
<1>1. Editing!createObjectFromFile(f) = o
  BY DEF Editing!createObjectFromFile
<1>2. res \in Seq(Editing!Infos) /\ res # << >>
  BY HttpGetIsText, EditConstants, InfoIsOne
<1>3. meta \in Editing!Metas
  <2>1. object.meta \in Editing!Metas
    BY CreatedFields, NoMetaIsOne
  <2> QED BY <2>1 DEF Editing!Metas
<1> HIDE DEF object, meta, res
<1>4. /\ DOMAIN object = Fields /\ object.type = "item" /\ object.ref = 0
      /\ object.virt = FALSE /\ object.online = FALSE
  BY CreatedFields DEF object
<1>5. /\ DOMAIN o = Fields /\ o.type = "item" /\ o.ref = 0 /\ o.virt = FALSE /\ o.online = FALSE
      /\ o.mime = "file" /\ o.meta = meta /\ o.res = res /\ o.location = f
  BY <1>4 DEF Fields
<1> HIDE DEF o
<1>6. Addable(o, r)
  BY <1>2, <1>3, <1>5, EditConstants DEF Addable, Storable, Editing!Types
<1> QED BY <1>1, <1>5, <1>6

LEMMA PathIsFound ==
  ASSUME NEW r, RowsFit(r), NEW location,
         \E id \in DOMAIN r : r[id].type = "item" /\ r[id].ref = 0 /\ r[id].location = location
  PROVE  Editing!findObjectIDByPath(r, location) # Editing!Invalid
<1> DEFINE found == {id \in DOMAIN r : Editing!IsPure(r[id]) /\ r[id].ref = 0 /\ r[id].location = location}
<1>1. found # {} /\ found \subseteq Nat
  BY DEF Editing!IsPure, RowsFit
<1>2. Editing!findObjectIDByPath(r, location) \in found
  <2>1. Editing!findObjectIDByPath(r, location) = CHOOSE id \in found : TRUE
    BY <1>1 DEF Editing!findObjectIDByPath
  <2> HIDE DEF found
  <2> QED BY <1>1, <2>1
<1> HIDE DEF found
<1> QED BY <1>1, <1>2 DEF Editing!Invalid

(* A link to a file, which is added first if it is not known.              *)
LEMMA VirtualItemFits ==
  ASSUME NEW s, WorkFits(s), NEW o, Addable(o, s.rows), o.type = "item", o.virt = TRUE, o.ref = 0
  PROVE  WorkFits(Editing!addVirtualItem(s, o))
<1> DEFINE file == Editing!createObjectFromFile(o.location)
           t == Editing!addObject(s, file)
           found == Editing!findObjectIDByPath(t.rows, o.location)
           link == [o EXCEPT !.ref = found]
           u == Editing!addVirtualItem(s, o)
<1>1. \/ u = Editing!Throws(s, "error")
      \/ u = Editing!addObject(s, o)
      \/ u = t
      \/ t.answer = "success" /\ u = Editing!addObject(t, link)
  BY DEF Editing!addVirtualItem, Editing!Going
<1>2. Addable(file, s.rows) /\ file.type = "item" /\ file.virt = FALSE /\ file.location = o.location
  BY FileIsAddable
<1> HIDE DEF file
<1>3. /\ WorkFits(t)
      /\ t.answer = "success" =>
           \E id \in DOMAIN t.rows :
              /\ t.rows[id].type = "item" /\ t.rows[id].ref = 0
              /\ t.rows[id].location = o.location
  <2>1. t = Editing!addObject(s, file)
    OBVIOUS
  <2> HIDE DEF t
  <2>2. WorkFits(t) /\ HasFile(t, file)
    BY <1>2, <2>1, AddFits
  <2> QED BY <1>2, <2>2 DEF HasFile
<1> HIDE DEF t
<1>4. ASSUME t.answer = "success" PROVE Addable(link, t.rows)
  <2>1. found # Editing!Invalid
    BY <1>3, <1>4, PathIsFound DEF WorkFits, ObjectsFit
  <2>2. RefersTo(t.rows, found)
    BY <2>1, PathLeadsToRow
  <2> HIDE DEF found
  <2>3. /\ DOMAIN link = Fields /\ link.ref = found /\ link.type = o.type /\ link.mime = o.mime
        /\ link.meta = o.meta /\ link.res = o.res /\ link.online = o.online /\ link.virt = o.virt
        /\ link.location = o.location
    BY DEF Addable, Storable, Fields
  <2> HIDE DEF link
  <2>4. Storable(link)
    BY <2>3 DEF Addable, Storable
  <2> QED BY <2>2, <2>3, <2>4 DEF Addable
<1> HIDE DEF link, u
<1>5. WorkFits(u)
  BY <1>1, <1>3, <1>4, AddFits, ThrowFits
<1> QED BY <1>5 DEF u

(* What the page add_object builds.                                        *)
LEMMA RequestedIsAddable ==
  ASSUME NEW p \in ObjectAdditions, p.type # "container", NEW r
  PROVE  LET o == Editing!Requested(p)
         IN  Addable(o, r) /\ o.type = p.type /\ o.virt = TRUE /\ o.ref = 0
<1> DEFINE mime == Editing!Given(p.mime, "octet")
           object == Editing!createObject(p.type)
           meta == [object.meta EXCEPT !.desc = Editing!Given(p.desc, "")]
           o == [object EXCEPT !.parent = p.parent, !.title = p.title, !.class = p.class, !.virt = TRUE,
                               !.location = p.location, !.mime = mime, !.meta = meta]
           state == Editing!Given(p.state, "")
           local == << Editing!ProtocolInfo(mime, Editing!HttpGet) >>
           remote == << Editing!ProtocolInfo(mime, Editing!Given(p.protocol, Editing!HttpGet)) >>
           q == Editing!Requested(p)
<1>1. /\ p.type \in Editing!Types /\ p.mime \in Editing!OrNull /\ p.desc \in Editing!OrNull
      /\ p.protocol \in Editing!OrNull
  BY EditConstants
<1>2. /\ p.type = "item" => q = [o EXCEPT !.useRef = TRUE]
      /\ p.type = "active" => q = [o EXCEPT !.action = p.action, !.state = state, !.res = local]
      /\ p.type = "external" => q = [o EXCEPT !.res = remote]
      /\ p.type = "internal" => q = [o EXCEPT !.res = local]
  BY DEF Editing!Requested
<1>3. mime \in EditTexts /\ Editing!Given(p.desc, "") \in EditTexts
      /\ Editing!Given(p.protocol, Editing!HttpGet) \in EditTexts
  BY <1>1, GivenIsText, EditConstants, HttpGetIsText
<1>4. /\ local \in Seq(Editing!Infos) /\ local # << >>
      /\ remote \in Seq(Editing!Infos) /\ remote # << >>
  BY <1>3, HttpGetIsText, InfoIsOne
<1>5. meta \in Editing!Metas
  <2>1. object.meta \in Editing!Metas
    BY CreatedFields, NoMetaIsOne
  <2> QED BY <1>3, <2>1 DEF Editing!Metas
<1>6. /\ DOMAIN object = Fields /\ object.type = p.type /\ object.ref = 0 /\ object.online = FALSE
      /\ object.res = << >>
  BY CreatedFields
<1> SUFFICES Addable(q, r) /\ q.type = p.type /\ q.virt = TRUE /\ q.ref = 0
  OBVIOUS
<1> HIDE DEF mime, object, meta, state, local, remote, q
<1>7. /\ DOMAIN o = Fields /\ o.type = p.type /\ o.ref = 0 /\ o.online = FALSE /\ o.res = << >>
      /\ o.virt = TRUE /\ o.mime = mime /\ o.meta = meta
  BY <1>6 DEF Fields
<1> HIDE DEF o
<1>8. /\ DOMAIN q = Fields /\ q.type = p.type /\ q.ref = 0 /\ q.online = FALSE
      /\ q.virt = TRUE /\ q.mime = mime /\ q.meta = meta
      /\ q.res \in Seq(Editing!Infos) /\ (q.type # "item" => q.res # << >>)
  <2>1. CASE p.type = "item"
    <3>1. << >> \in Seq(Editing!Infos)
      OBVIOUS
    <3>2. q = [o EXCEPT !.useRef = TRUE]
      BY <1>2, <2>1
    <3>3. /\ DOMAIN q = Fields /\ q.type = o.type /\ q.ref = o.ref /\ q.online = o.online
          /\ q.virt = o.virt /\ q.mime = o.mime /\ q.meta = o.meta /\ q.res = o.res
      BY <1>7, <3>2 DEF Fields
    <3> QED BY <1>7, <2>1, <3>1, <3>3
  <2>2. CASE p.type = "active"
    BY <1>2, <1>4, <1>7, <2>2 DEF Fields
  <2>3. CASE p.type = "external"
    BY <1>2, <1>4, <1>7, <2>3 DEF Fields
  <2>4. CASE p.type = "internal"
    BY <1>2, <1>4, <1>7, <2>4 DEF Fields
  <2> QED BY <1>1, <2>1, <2>2, <2>3, <2>4 DEF Editing!Types
<1>9. Storable(q)
  BY <1>1, <1>3, <1>5, <1>8 DEF Storable
<1> QED BY <1>8, <1>9 DEF Addable

(* Containers: one for each element of the path.                           *)
LEMMA AddContainerFits ==
  ASSUME NEW s, NEW t, WorkFits(t), NEW at \in Seq(Names), NEW class
  PROVE  WorkFits(Editing!AddContainer(s, t, at, class))
<1> DEFINE parent == IF Len(at) = 1 THEN Editing!Root
                     ELSE Editing!Container(t.rows, Editing!Front(at), TRUE)
           title == Editing!Last(at)
           rows == Editing!createContainer(t.rows, parent, title, at, TRUE, class)
           added == [t EXCEPT !.rows = rows]
           u == Editing!AddContainer(s, t, at, class)
<1>1. u = t \/ u = Editing!Report(added, {parent}, {parent}) \/ u = added
  BY DEF Editing!AddContainer
<1>2. ObjectsFit(t.rows, t.cache) /\ IsWork(t)
  BY DEF WorkFits
<1> HIDE DEF parent, title, u
<1>3. GrownTo(t.rows, rows, t.cache)
  BY <1>2, ContainerFits
<1> HIDE DEF rows
<1>4. ObjectsFit(rows, t.cache)
  BY <1>3 DEF GrownTo
<1>5. WorkFits(added)
  BY <1>2, <1>4, RowsReplaced
<1> HIDE DEF added
<1>6. WorkFits(u)
  BY <1>1, <1>5, ReportFits
<1> QED BY <1>6 DEF u

(* The recursive function of addContainerChain() is there.                 *)
AddedAt(s, t, path, class, n, k) ==
  Editing!AddContainer(s, t, SubSeq(path, 1, k), IF k = n THEN class ELSE Null)
Containers(s, path, class, n, m, f) ==
  f = [k \in 0 .. m |-> IF k = 0 THEN s ELSE AddedAt(s, f[k - 1], path, class, n, k)]

LEMMA ContainersExist ==
  ASSUME NEW s, NEW path, NEW class, NEW n, NEW m \in Nat
  PROVE  \E f : Containers(s, path, class, n, m, f)
<1> DEFINE T == {k \in Nat : \E f : Containers(s, path, class, n, k, f)}
<1>1. 0 \in T
  <2>1. Containers(s, path, class, n, 0, [i \in 0 .. 0 |-> s])
    BY DEF Containers
  <2> QED BY <2>1
<1>2. ASSUME NEW k \in Nat, k \in T PROVE k + 1 \in T
  <2>1. PICK f : Containers(s, path, class, n, k, f)
    BY <1>2
  <2> DEFINE g == [i \in 0 .. (k + 1) |-> IF i = k + 1 THEN AddedAt(s, f[k], path, class, n, i) ELSE f[i]]
  <2>2. ASSUME NEW i \in 0 .. (k + 1)
        PROVE  g[i] = IF i = 0 THEN s ELSE AddedAt(s, g[i - 1], path, class, n, i)
    <3>1. CASE i = k + 1
      BY <3>1
    <3>2. CASE i # k + 1
      <4>1. i \in 0 .. k /\ g[i] = f[i] /\ (i # 0 => g[i - 1] = f[i - 1])
        BY <3>2
      <4>2. f[i] = IF i = 0 THEN s ELSE AddedAt(s, f[i - 1], path, class, n, i)
        BY <2>1, <4>1 DEF Containers
      <4> QED BY <4>1, <4>2
    <3> QED BY <3>1, <3>2
  <2>3. g = [i \in 0 .. (k + 1) |-> IF i = 0 THEN s ELSE AddedAt(s, g[i - 1], path, class, n, i)]
    BY <2>2
  <2> HIDE DEF g
  <2>4. Containers(s, path, class, n, k + 1, g)
    BY <2>3 DEF Containers
  <2> QED BY <2>4
<1> HIDE DEF T
<1>3. m \in T
  BY <1>1, <1>2, NatSetInduction
<1> QED BY <1>3 DEF T

LEMMA ChainFits ==
  ASSUME NEW s, WorkFits(s), NEW path \in Seq(Names), NEW class
  PROVE  WorkFits(Editing!addContainerChain(s, path, class))
<1> DEFINE m == Len(path)
           f == CHOOSE f : Containers(s, path, class, m, m, f)
           T == {k \in Nat : k <= m => WorkFits(f[k])}
<1>1. Containers(s, path, class, m, m, f)
  BY ContainersExist
<1>2. Editing!addContainerChain(s, path, class) = f[m]
  BY DEF Editing!addContainerChain, Containers, AddedAt
<1>3. m \in Nat
  OBVIOUS
<1> HIDE DEF f, m
<1>4. 0 \in T
  <2>1. f[0] = s
    BY <1>1, <1>3 DEF Containers
  <2> QED BY <2>1
<1>5. ASSUME NEW k \in Nat, k \in T PROVE k + 1 \in T
  <2> SUFFICES ASSUME k + 1 <= m PROVE WorkFits(f[k + 1])
    OBVIOUS
  <2>1. WorkFits(f[k])
    BY <1>3, <1>5
  <2> DEFINE at == SubSeq(path, 1, k + 1)
             named == IF k + 1 = m THEN class ELSE Null
  <2>2. f[k + 1] = Editing!AddContainer(s, f[k], at, named)
    BY <1>1, <1>3 DEF Containers, AddedAt
  <2>3. at \in Seq(Names)
    BY <1>3, SubSeqProperties DEF m
  <2> HIDE DEF at, named
  <2> QED BY <2>1, <2>2, <2>3, AddContainerFits
<1> HIDE DEF T
<1>6. m \in T
  BY <1>3, <1>4, <1>5, NatSetInduction
<1> QED BY <1>2, <1>3, <1>6 DEF T

LEMMA ContainerAdded ==
  ASSUME NEW s, WorkFits(s), NEW p \in ObjectAdditions, Editing!Complete(p), p.parent \in DOMAIN s.rows
  PROVE  WorkFits(Editing!addContainer(s, p))
<1>1. p.title \in Names
  BY EditConstants DEF Editing!Complete, Editing!StringOK, Editing!OrNull, Names
<1>2. CASE p.parent = Editing!Root
  <2> DEFINE path == << p.title >>
  <2>1. Editing!addContainer(s, p) = Editing!addContainerChain(s, path, p.class)
    BY <1>2 DEF Editing!addContainer
  <2>2. path \in Seq(Names)
    BY <1>1
  <2> HIDE DEF path
  <2> QED BY <2>1, <2>2, ChainFits
<1>3. CASE p.parent # Editing!Root /\ Editing!IsContainer(s.rows[p.parent]) /\ s.rows[p.parent].virt
  <2> DEFINE above == s.rows[p.parent].location
             path == Append(above, p.title)
  <2>1. Editing!addContainer(s, p) = Editing!addContainerChain(s, path, p.class)
    BY <1>3 DEF Editing!addContainer
  <2>2. above \in Seq(Names)
    <3>1. RowFits(s.rows, p.parent, s.rows[p.parent])
      BY DEF WorkFits, ObjectsFit, RowsFit
    <3> QED BY <1>3, <3>1 DEF RowFits, OwnRow, LinkRow, Editing!IsContainer
  <2> HIDE DEF above
  <2>3. path \in Seq(Names)
    BY <1>1, <2>2
  <2> HIDE DEF path
  <2> QED BY <2>1, <2>3, ChainFits
<1>4. CASE ~(p.parent = Editing!Root)
           /\ ~(Editing!IsContainer(s.rows[p.parent]) /\ s.rows[p.parent].virt)
  BY <1>4, ThrowFits DEF Editing!addContainer
<1> QED BY <1>2, <1>3, <1>4

-----------------------------------------------------------------------------
(* The other steps keep the invariant, and confirm no edit.                *)
LEMMA AddObjectStep ==
  ASSUME EditInv, NEW p \in ObjectAdditions, Editing!AddObjectPage(p)
  PROVE  EditInv' /\ oe_request'.page = "add_object"
<1> DEFINE s == Editing!Start
           o == Editing!Requested(p)
           u == IF ~Editing!Complete(p) THEN Editing!Throws(s, "error")
                ELSE IF p.type = "container" THEN Editing!addContainer(s, p)
                ELSE IF p.type = "item" THEN Editing!addVirtualItem(s, o)
                ELSE Editing!addObject(s, o)
<1>1. Editing!Change("add_object", Editing!Invalid, p, u) /\ p.parent \in DOMAIN oe_rows
  BY DEF Editing!AddObjectPage
<1>2. WorkFits(s) /\ s.rows = oe_rows
  BY StartFits
<1>3. p.type # "container" => Addable(o, s.rows) /\ o.type = p.type /\ o.virt = TRUE /\ o.ref = 0
  BY RequestedIsAddable
<1> HIDE DEF s, o
<1>4. WorkFits(u)
  <2>1. CASE ~Editing!Complete(p)
    BY <1>2, <2>1, ThrowFits
  <2>2. CASE Editing!Complete(p) /\ p.type = "container"
    BY <1>1, <1>2, <2>2, ContainerAdded
  <2>3. CASE Editing!Complete(p) /\ p.type = "item"
    BY <1>2, <1>3, <2>3, VirtualItemFits
  <2>4. CASE Editing!Complete(p) /\ p.type \notin {"container", "item"}
    BY <1>2, <1>3, <2>4, AddFits
  <2> QED BY <2>1, <2>2, <2>3, <2>4
<1> HIDE DEF u
<1>5. oe_rows' = u.rows /\ oe_cache' = u.cache /\ oe_request'.page = "add_object"
  BY <1>1 DEF Editing!Change, Editing!Answers
<1> QED BY <1>4, <1>5 DEF EditInv, WorkFits

LEMMA AddFileStep ==
  ASSUME EditInv, NEW f, Editing!AddFile(f)
  PROVE  EditInv' /\ oe_changes' = oe_changes
<1> DEFINE s == Editing!Start
           o == Editing!createObjectFromFile(f)
           u == Editing!addObject(s, o)
<1>1. Editing!Change("add", Editing!Invalid, Null, u) /\ oe_changes' = oe_changes
  BY DEF Editing!AddFile
<1>2. WorkFits(s)
  BY StartFits
<1>3. Addable(o, s.rows)
  BY FileIsAddable
<1> HIDE DEF s, o
<1>4. WorkFits(u)
  BY <1>2, <1>3, AddFits
<1> HIDE DEF u
<1>5. oe_rows' = u.rows /\ oe_cache' = u.cache
  BY <1>1 DEF Editing!Change, Editing!Answers
<1> QED BY <1>1, <1>4, <1>5 DEF EditInv, WorkFits

(* A page that shows something.                                            *)
LEMMA PageFits ==
  ASSUME EditInv, NEW id, NEW found, NEW s, WorkFits(s), s.rows = oe_rows,
         Editing!Page(id, found, s)
  PROVE  EditInv' /\ oe_changes' = oe_changes
  BY DEF Editing!Page, Editing!Answers, EditInv, WorkFits

LEMMA LoadPageStep ==
  ASSUME EditInv, NEW id, Editing!EditLoadPage(id)
  PROVE  EditInv' /\ oe_changes' = oe_changes
<1> DEFINE s == [Editing!Start EXCEPT
                   !.cache = Editing!Put(@, Editing!loadObject(oe_rows, oe_cache, id))]
           e == Editing!Throws(Editing!Start, "notfound")
<1>1. WorkFits(e) /\ e.rows = oe_rows
  BY StartFits, ThrowFits
<1>2. id \in DOMAIN oe_rows => WorkFits(s) /\ s.rows = oe_rows
  BY CachedFits
<1>3. IF id \in DOMAIN oe_rows THEN Editing!Page(id, Editing!NothingListed, s)
      ELSE Editing!Page(id, Editing!NothingListed, e)
  BY DEF Editing!EditLoadPage
<1> HIDE DEF s, e
<1> QED BY <1>1, <1>2, <1>3, PageFits

(* The objects that are listed are read from their rows.                   *)
LEMMA ListsFits ==
  ASSUME EditInv, NEW c, CacheFits(c, oe_rows), NEW id, NEW found, Editing!Lists(id, found, c)
  PROVE  EditInv' /\ oe_changes' = oe_changes
<1> DEFINE shown == {k \in DOMAIN oe_rows : \E n \in DOMAIN found.ids : found.ids[n] = k}
           more == [k \in DOMAIN c \cup shown |-> IF k \in shown THEN Editing!FromRow(oe_rows, k) ELSE c[k]]
           cache == IF CachesObjects THEN more ELSE c
           s == [Editing!Start EXCEPT !.cache = cache]
<1>1. Editing!Page(id, found, s)
  BY DEF Editing!Lists
<1>2. shown \subseteq DOMAIN oe_rows
  OBVIOUS
<1> HIDE DEF shown
<1>3. \A k \in DOMAIN more : Agrees(more[k], oe_rows, k)
  BY <1>2, ReadAgrees DEF EditInv, ObjectsFit, CacheFits
<1>4. DOMAIN more \subseteq DOMAIN oe_rows
  BY <1>2 DEF CacheFits
<1> HIDE DEF more
<1>5. CacheFits(cache, oe_rows)
  BY <1>3, <1>4 DEF CacheFits
<1> HIDE DEF cache
<1>6. WorkFits(s) /\ s.rows = oe_rows
  BY <1>5, StartFits DEF WorkFits, IsWork, ObjectsFit, EditInv
<1> HIDE DEF s
<1> QED BY <1>1, <1>6, PageFits

LEMMA ContainersPageStep ==
  ASSUME EditInv, NEW id, Editing!ContainersPage(id)
  PROVE  EditInv' /\ oe_changes' = oe_changes
<1> DEFINE found == Editing!browse(oe_rows, id, 0, 0, TRUE, FALSE)
<1>1. Editing!Lists(id, found, oe_cache)
  BY DEF Editing!ContainersPage
<1> HIDE DEF found
<1> QED BY <1>1, ListsFits DEF EditInv, ObjectsFit

LEMMA ItemsPageStep ==
  ASSUME EditInv, NEW id, NEW start, NEW count, Editing!ItemsPage(id, start, count)
  PROVE  EditInv' /\ oe_changes' = oe_changes
<1> DEFINE found == Editing!browse(oe_rows, id, start, count, FALSE, TRUE)
           o == Editing!loadObject(oe_rows, oe_cache, id)
           c == Editing!Put(oe_cache, o)
           e == Editing!Throws(Editing!Start, "error")
<1>1. \/ Editing!Page(id, Editing!NothingListed, e)
      \/ Editing!Lists(id, found, c)
  BY DEF Editing!ItemsPage
<1>2. id \in DOMAIN oe_rows
  BY DEF Editing!ItemsPage
<1>3. WorkFits(e) /\ e.rows = oe_rows
  BY StartFits, ThrowFits
<1>4. CacheFits(c, oe_rows)
  <2>1. Agrees(o, oe_rows, id)
    BY <1>2, LoadAgrees DEF EditInv
  <2> HIDE DEF o
  <2> QED BY <1>2, <2>1, PutFits DEF EditInv, ObjectsFit
<1> HIDE DEF found, c, e
<1>5. CASE Editing!Page(id, Editing!NothingListed, e)
  BY <1>3, <1>5, PageFits
<1>6. CASE Editing!Lists(id, found, c)
  BY <1>4, <1>6, ListsFits
<1> QED BY <1>1, <1>5, <1>6

LEMMA EmptyCacheFits ==
  ASSUME NEW r
  PROVE  CacheFits(<< >>, r)
<1>1. DOMAIN << >> = {}
  OBVIOUS
<1> QED BY <1>1 DEF CacheFits

(* The rows that are there at the beginning.                               *)
LEMMA EditInit == Editing!Init => EditInv
<1> SUFFICES ASSUME Editing!Init PROVE EditInv
  OBVIOUS
<1> DEFINE row(id) == [Editing!createObject("container") EXCEPT
                         !.id = id, !.parent = IF id = Editing!Root THEN Editing!Invalid ELSE Editing!Root,
                         !.title = IF id = Editing!Root THEN "Root" ELSE "PC Directory",
                         !.location = << >>, !.meta = Null, !.res = Null]
           r == Editing!InitialRows
<1>1. /\ EditRows \in Nat /\ DOMAIN OnlineRows \subseteq 2 .. EditRows
      /\ \A id \in DOMAIN OnlineRows :
            LET o == OnlineRows[id]
            IN  /\ o.id = id /\ o.type \in Editing!Types /\ o.useRef = FALSE
                /\ DOMAIN o = DOMAIN Editing!createObject(o.type)
                /\ o.mime \in EditTexts
                /\ o.type = "container" => o.location \in Seq(EditTexts)
                /\ IF o.ref = 0
                   THEN o.type # "container" =>
                          o.meta \in Metas /\ o.res \in Seq(Editing!Infos) \ {<< >>}
                   ELSE /\ o.type # "container" /\ RefersTo(OnlineRows, o.ref)
                        /\ o.meta \in Metas /\ o.res \in Resources
  BY ServerDataAssumption DEF ServerDataAssumption, Editing!EditingAssumption, Metas, Resources, RefersTo
<1>2. /\ DOMAIN r = {0, 1} \cup DOMAIN OnlineRows
      /\ \A id \in DOMAIN OnlineRows : r[id] = OnlineRows[id]
      /\ r[0] = row(0) /\ r[1] = row(1)
  <2>1. 0 \notin DOMAIN OnlineRows /\ 1 \notin DOMAIN OnlineRows
    BY <1>1
  <2>2. r = [id \in {0, 1} \cup DOMAIN OnlineRows |->
               IF id \in DOMAIN OnlineRows THEN OnlineRows[id] ELSE row(id)]
    BY DEF Editing!InitialRows, Editing!Root, Editing!FsRoot
  <2> HIDE DEF row, r
  <2> QED BY <2>1, <2>2
<1>3. ASSUME NEW id \in {0, 1} PROVE RowFits(r, id, r[id]) /\ r[id].type = "container"
  <2> DEFINE object == Editing!createObject("container")
             parent == IF id = Editing!Root THEN Editing!Invalid ELSE Editing!Root
             title == IF id = Editing!Root THEN "Root" ELSE "PC Directory"
             new == [object EXCEPT !.id = id, !.parent = parent, !.title = title,
                                   !.location = << >>, !.meta = Null, !.res = Null]
  <2>1. r[id] = new
    BY <1>2
  <2>2. /\ DOMAIN object = Fields /\ object.type = "container" /\ object.ref = 0
        /\ object.mime = "octet" /\ object.useRef = FALSE
    BY CreatedFields
  <2> HIDE DEF object, parent, title
  <2>3. /\ DOMAIN new = Fields /\ new.id = id /\ new.type = "container" /\ new.ref = 0
        /\ new.mime = "octet" /\ new.useRef = FALSE /\ new.location = << >>
    BY <2>2 DEF Fields
  <2> HIDE DEF new, r
  <2>4. << >> \in Seq(Names)
    OBVIOUS
  <2>5. OwnRow(new)
    BY <2>3, <2>4 DEF OwnRow
  <2> QED BY <2>1, <2>3, <2>5, EditConstants DEF RowFits, Editing!Types
<1> HIDE DEF row, r
<1>4. ASSUME NEW id \in DOMAIN OnlineRows PROVE RowFits(r, id, r[id])
  <2> DEFINE o == OnlineRows[id]
  <2>1. r[id] = o /\ o.id = id /\ o.type \in Editing!Types /\ o.useRef = FALSE /\ o.mime \in EditTexts
    BY <1>1, <1>2
  <2>2. DOMAIN o = Fields
    BY <1>1, CreatedFields
  <2>3. CASE o.ref = 0
    <3>1. o.type = "container" => o.location \in Seq(Names)
      <4>1. ASSUME o.type = "container" PROVE o.location \in Seq(Names)
        <5>1. o.location \in Seq(EditTexts)
          BY <1>1, <4>1
        <5> QED BY <5>1 DEF Names
      <4> QED BY <4>1
    <3>2. OwnRow(o)
      BY <1>1, <2>3, <3>1 DEF OwnRow
    <3> QED BY <2>1, <2>2, <3>2 DEF RowFits
  <2>4. CASE o.ref # 0
    <3>1. /\ o.type # "container" /\ RefersTo(OnlineRows, o.ref)
          /\ o.meta \in Metas /\ o.res \in Resources
      BY <1>1, <2>4
    <3>2. RefersTo(r, o.ref)
      BY <1>2, <3>1 DEF RefersTo
    <3>3. LinkRow(r, o)
      BY <2>4, <3>1, <3>2 DEF LinkRow
    <3> QED BY <2>1, <2>2, <3>3 DEF RowFits
  <2> QED BY <2>3, <2>4
<1>5. \E n \in Nat : DOMAIN r \subseteq 0 .. n
  <2>1. DOMAIN r \subseteq 0 .. (EditRows + 1) /\ EditRows + 1 \in Nat
    BY <1>1, <1>2
  <2> QED BY <2>1
<1>6. RowsFit(r)
  BY <1>2, <1>3, <1>4, <1>5 DEF RowsFit
<1>7. oe_rows = r /\ oe_cache = << >>
  BY DEF Editing!Init, r
<1> QED BY <1>6, <1>7, EmptyCacheFits DEF EditInv, ObjectsFit

LEMMA EditNext ==
  ASSUME EditInv, [Editing!Next]_oe_vars
  PROVE  EditInv'
<1>1. CASE \E p \in ObjectAdditions : Editing!AddObjectPage(p)
  BY <1>1, AddObjectStep
<1>2. CASE \E f \in EditFiles : Editing!AddFile(f)
  BY <1>2, AddFileStep
<1>3. CASE \E id \in 0 .. EditRows : Editing!EditLoadPage(id)
  BY <1>3, LoadPageStep
<1>4. CASE \E id \in 0 .. EditRows, p \in ObjectEdits : Editing!EditSavePage(id, p)
  BY <1>4, EditStep
<1>5. CASE \E id \in 0 .. EditRows : Editing!ContainersPage(id)
  BY <1>5, ContainersPageStep
<1>6. CASE \E id \in 0 .. EditRows, start \in -1 .. 1, count \in -1 .. 1 : Editing!ItemsPage(id, start, count)
  BY <1>6, ItemsPageStep
<1>7. CASE Editing!CacheClears
  BY <1>7, EmptyCacheFits DEF Editing!CacheClears, EditInv, ObjectsFit
<1>8. CASE UNCHANGED oe_vars
  BY <1>8 DEF oe_vars, EditInv
<1> QED BY <1>1, <1>2, <1>3, <1>4, <1>5, <1>6, <1>7, <1>8 DEF Editing!Next

(* Only the page that edits confirms an edit.                              *)
LEMMA ConfirmedIsEdit ==
  ASSUME EditInv, [Editing!Next]_oe_vars, Editing!Confirmed
  PROVE  \E id \in 0 .. EditRows, p \in ObjectEdits : Editing!EditSavePage(id, p)
<1>1. oe_request'.page = "edit_save" /\ oe_changes' # oe_changes
  BY DEF Editing!Confirmed
<1>2. CASE \E p \in ObjectAdditions : Editing!AddObjectPage(p)
  BY <1>1, <1>2, AddObjectStep
<1>3. CASE \E f \in EditFiles : Editing!AddFile(f)
  BY <1>1, <1>3, AddFileStep
<1>4. CASE \E id \in 0 .. EditRows : Editing!EditLoadPage(id)
  BY <1>1, <1>4, LoadPageStep
<1>5. CASE \E id \in 0 .. EditRows : Editing!ContainersPage(id)
  BY <1>1, <1>5, ContainersPageStep
<1>6. CASE \E id \in 0 .. EditRows, start \in -1 .. 1, count \in -1 .. 1 : Editing!ItemsPage(id, start, count)
  BY <1>1, <1>6, ItemsPageStep
<1>7. CASE Editing!CacheClears
  BY <1>1, <1>7 DEF Editing!CacheClears
<1>8. CASE UNCHANGED oe_vars
  BY <1>1, <1>8 DEF oe_vars
<1> QED BY <1>2, <1>3, <1>4, <1>5, <1>6, <1>7, <1>8 DEF Editing!Next

(* An edit that is confirmed does what it says.                            *)
LEMMA ConfirmedTakesEffect ==
  ASSUME EditInv, [Editing!Next]_oe_vars, Editing!Confirmed
  PROVE  Editing!EffectOf(oe_request'.id)
<1>1. PICK id \in 0 .. EditRows : \E p \in ObjectEdits : Editing!EditSavePage(id, p)
  BY ConfirmedIsEdit
<1>2. PICK p \in ObjectEdits : Editing!EditSavePage(id, p)
  BY <1>1
<1> DEFINE o == Editing!loadObject(oe_rows, oe_cache, id)
           n == Editing!FromRow(oe_rows', id)
<1>3. /\ oe_request'.id = id /\ oe_request'.p = p /\ id \in DOMAIN oe_rows
      /\ \/ oe_rows' = oe_rows /\ Asked(o, p, o)
         \/ /\ RowSet(oe_rows, oe_rows', id)
            /\ {o.parent} \ {Editing!Invalid} \subseteq oe_told'.upnp
            /\ Asked(n, p, o)
  BY <1>2, EditStep DEF Editing!Confirmed
<1>4. o.type \in Editing!Types
  <2>1. Agrees(o, oe_rows, id) /\ RowFits(oe_rows, id, oe_rows[id])
    BY <1>3, LoadAgrees DEF EditInv, ObjectsFit, RowsFit
  <2> HIDE DEF o
  <2> QED BY <2>1 DEF Agrees, AsTheRow, RowFits
<1>5. Editing!TakesEffect <=> Editing!AsAsked(n, p, o)
  BY <1>3 DEF Editing!TakesEffect
<1>6. ASSUME Asked(n, p, o) PROVE Editing!TakesEffect
  <2> HIDE DEF n, o
  <2> QED BY <1>4, <1>5, <1>6, AskedIsAsAsked
<1>7. CASE oe_rows' = oe_rows /\ Asked(o, p, o)
  <2>1. Editing!Outdated(id) <=> Behind(oe_rows, oe_cache, id)
    BY DEF Editing!Outdated, Behind
  <2>2. CASE Behind(oe_rows, oe_cache, id)
    BY <1>3, <1>7, <2>1, <2>2 DEF Editing!EffectOf
  <2>3. CASE ~Behind(oe_rows, oe_cache, id)
    <3>1. Asked(Editing!FromRow(oe_rows, id), p, o)
      BY <1>3, <1>7, <2>3, UnwrittenAsked DEF EditInv
    <3>2. Asked(n, p, o)
      BY <1>7, <3>1
    <3> QED BY <1>3, <1>6, <1>7, <3>2 DEF Editing!EffectOf
  <2> QED BY <2>2, <2>3
<1>8. CASE /\ RowSet(oe_rows, oe_rows', id)
           /\ {o.parent} \ {Editing!Invalid} \subseteq oe_told'.upnp
           /\ Asked(n, p, o)
  <2>1. ASSUME NEW k \in DOMAIN oe_rows \ {id},
               Editing!FromRow(oe_rows', k) # Editing!FromRow(oe_rows, k)
        PROVE  oe_rows[k].ref = id /\ oe_rows'[k] = oe_rows[k]
    BY <1>3, <1>8, <2>1, OthersRead DEF EditInv, ObjectsFit
  <2> HIDE DEF n
  <2>2. o.parent \in oe_told'.upnp \cup {Editing!Invalid}
    BY <1>8
  <2>3. Editing!EffectOf(id)
    BY <1>6, <1>8, <2>1, <2>2 DEF Editing!EffectOf
  <2> QED BY <1>3, <2>3
<1> QED BY <1>3, <1>7, <1>8

(* An edit that the page confirms is what the rows say from then on, unless *)
(* it makes no difference to an outdated copy of a link; the other objects  *)
(* look as before, but the links to the edited one, and the container of an *)
(* object that looks different is reported.  The rows, the requests and the *)
(* number of them are any; the storage may cache objects or not.            *)
\* web::edit_save::process(), ContentManager::updateObject() (content_manager.cc),
\* SQLStorage::_addUpdateObject(), checkRefID() and createObjectFromRow() (sql_storage.cc)
THEOREM EditsTakeEffect == Editing!Spec => EditTakesEffect
<1>1. Editing!Init => EditInv
  BY EditInit
<1>2. EditInv /\ [Editing!Next]_oe_vars => EditInv'
  BY EditNext
<1>3. EditInv /\ [Editing!Next]_oe_vars =>
        [Editing!Confirmed => Editing!EffectOf(oe_request'.id)]_(Editing!vars)
  BY ConfirmedTakesEffect
<1>4. [Editing!Next]_(Editing!vars) => [Editing!Next]_oe_vars
  BY DEF Editing!vars, oe_vars
<1> QED
  BY <1>1, <1>2, <1>3, <1>4, PTL DEF Editing!Spec, EditTakesEffect, Editing!EditTakesEffect
=============================================================================

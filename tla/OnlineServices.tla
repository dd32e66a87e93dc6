--------------------------- MODULE OnlineServices ---------------------------
(***************************************************************************)
(* The services that fill the database with links to remote media:         *)
(* YouTube, SopCast and Apple Trailers.  The thread of the task processor  *)
(* calls refreshServiceData() until it answers that there is no more to    *)
(* get, and then removes the objects that were not seen for a while.       *)
(*                                                                         *)
(* YouTube works through a list of tasks made from config.xml, one page of *)
(* results per call, and remembers in each task how far it got.  A task    *)
(* for subscriptions or playlists appends a task for every feed it finds,  *)
(* which is to be removed again at the end of the list.                    *)
(***************************************************************************)
EXTENDS Integers, SequencesExt

CONSTANTS
    Configs,    \* what config.xml can say: sequences of task elements
    Remote,     \* feed -> the nodes of its items
    SubFeeds,   \* feed -> the feeds that it links to
    Channels,   \* what SopCast can send: groups of channels
    TrailerFeeds, \* what Apple Trailers can send
    Amount_All, \* 1000 in the code
    PerPage,    \* 50 in the code
    Purge,      \* the age at which an object is removed, 0: never
    MaxTime,    \* bound: refreshes that time is counted for
    None

VARIABLES
    tasklist,   \* tasks of YouTube
    current,    \* index of the next one, from 0
    service,    \* whose refreshServiceData() runs, or None
    page,       \* objects that are still to be stored
    objects,    \* service ID -> time of the last update
    answer,     \* what refreshServiceData() returned last, or "exception"
    now,
    stopping    \* the server is shutting down

vars == << tasklist, current, service, page, objects, answer, now, stopping >>

\* A task element names a list that there is, and numbers.
OnlineAssumption ==
    /\ \A c \in Configs :
         /\ Len(c) \in Nat /\ DOMAIN c = 1 .. Len(c)
         /\ \A k \in DOMAIN c : /\ c[k].feed \in DOMAIN Remote
                                /\ c[k].amount \in Int \cup {None} /\ c[k].start \in Int \cup {None}
    /\ \A f \in DOMAIN Remote : SubFeeds[f] \in Seq(DOMAIN Remote)
    /\ Amount_All \in Nat \ {0}
    /\ None \notin Int \cup {"YouTube", "SopCast", "Trailers"}

-----------------------------------------------------------------------------
(* The task elements of config.xml: [tag, user, query, std, region, time,  *)
(* amount, start, feed], where feed names the remote list they ask for.    *)
OneFeed == {"standardfeed", "search", "favorites", "uploads"}
ManyFeeds == {"subscriptions", "playlists"}
PerUser == {"favorites", "uploads"} \cup ManyFeeds

Untimed == {"most_recent", "recently_featured", "watch_on_mobile"}

\* An attribute is absent or at least 1.
PositiveOr(x, default) == IF x = None THEN default ELSE x
BadCount(x) == x # None /\ PositiveOr(x, 1) < 1

\* An element with any of these faults stops the start of the server.
BadTask(x) ==
    \/ x.tag \notin OneFeed \cup ManyFeeds
    \/ x.tag \in PerUser /\ x.user = None
    \/ x.tag = "search" /\ x.query = None
    \/ x.tag = "standardfeed" /\ x.std \in {None, "unknown"}
    \/ x.tag = "standardfeed" /\ x.std # "watch_on_mobile" /\ x.region = "unknown"
    \/ x.tag = "standardfeed" /\ x.std \notin Untimed /\ x.time = "unknown"
    \/ x.tag \in OneFeed /\ (BadCount(x.amount) \/ BadCount(x.start))

Task(feed, tag, amount, start, kill) ==
    [feed |-> feed, request |-> tag, amount |-> amount, fetched |-> 0,
     cfg_start_index |-> start, kill |-> kill]

defineServiceTask(x) ==
    LET wanted == IF x.tag \in ManyFeeds THEN Amount_All ELSE PositiveOr(x.amount, Amount_All)
        start == IF x.tag \in ManyFeeds THEN 1 ELSE PositiveOr(x.start, 1)
    IN  Task(x.feed, x.tag, IF wanted > Amount_All THEN Amount_All ELSE wanted, start, FALSE)

-----------------------------------------------------------------------------
(* Nodes of the replies: [kind, id, lacks], lacks the parts that are not   *)
(* there.  Text between the elements is a node as well.                    *)
Item(id, lacks) == [kind |-> "item", id |-> id, lacks |-> lacks]
Blank == [kind |-> "text", id |-> None, lacks |-> {}]

\* What makes getNextObject() skip a node.  The MIME type is never missing:
\* the object begins with one.
SkippedVideo(n) ==
    n.kind # "item" \/ n.lacks \cap {"link", "media:group", "media:title"} # {}

SkippedTrailer(n) ==
    n.kind # "item" \/ n.lacks \cap {"info", "id", "preview", "large"} # {}

SkippedChannel(n) ==
    n.kind # "item" \/ n.lacks \cap {"id", "stream_type", "sop_address", "name"} # {}

Ids(nodes, skipped) == LET taken == SelectSeq(nodes, LAMBDA n : n \notin skipped)
                       IN  [k \in DOMAIN taken |-> taken[k].id]

HasItems(nodes) == \E k \in DOMAIN nodes : nodes[k].kind = "item"

\* A page of a feed, as the service sends it.
RemotePage(feed, start, max) ==
    SubSeq(Remote[feed], start, IF start + max - 1 > Len(Remote[feed]) THEN Len(Remote[feed])
                                ELSE start + max - 1)

\* The channels of the groups.  The loop over the groups ends when the last
\* node was taken: of a group that is the last node only the first channel
\* is returned.
IsGroup(g) == g.kind = "group" /\ g.nodes # << >>

GroupIds(g) == IF IsGroup(g) THEN Ids(g.nodes, {n \in ToSet(g.nodes) : SkippedChannel(n)}) ELSE << >>

FirstOf(s) == IF s = << >> THEN s ELSE << s[1] >>

ChannelIds(groups) ==
    FlattenSeq([k \in DOMAIN groups |->
        IF k = Len(groups) THEN FirstOf(GroupIds(groups[k])) ELSE GroupIds(groups[k])])

-----------------------------------------------------------------------------
(* The list of tasks.                                                      *)

\* removeUnordered(): the last element takes the place of the removed one.
removeUnordered(s, n) ==
    LET last == s[Len(s)] IN [k \in 1 .. Len(s) - 1 |-> IF k = n THEN last ELSE s[k]]

\* Mutant of killOneTimeTasks: the task that takes the place of a removed one
\* is passed over.
killOneTimeTasksOnce(s) ==
    FoldLeft(LAMBDA rest, n : IF n <= Len(rest) /\ rest[n].kill THEN removeUnordered(rest, n) ELSE rest,
             s, [n \in DOMAIN s |-> n])

\* The loop looks at the place of a removed task again: the last task that is
\* kept fills the first gap, the one before it the second, until the gaps are
\* behind the tasks that are left.
killOneTimeTasks(s) ==
    LET kept == {k \in DOMAIN s : ~s[k].kill}
        gaps(n) == Cardinality({k \in 1 .. n : s[k].kill})
        filler(n) == CHOOSE k \in kept : Cardinality({j \in kept : j >= k}) = gaps(n)
    IN  [n \in 1 .. Cardinality(kept) |-> IF s[n].kill THEN s[filler(n)] ELSE s[n]]

\* The next task is due; behind the last one the list begins anew.
Ends(s) == current + 1 >= Len(s)
Advance(s) ==
    /\ current' = IF Ends(s) THEN 0 ELSE current + 1
    /\ tasklist' = IF Ends(s) THEN killOneTimeTasks(s) ELSE s

Now == tasklist[current + 1]

PageSize(t) == IF t.amount - t.fetched >= PerPage THEN PerPage ELSE t.amount - t.fetched

-----------------------------------------------------------------------------
Store(id) == IF id \in DOMAIN objects THEN [objects EXCEPT ![id] = now]
             ELSE [i \in DOMAIN objects \cup {id} |-> IF i = id THEN now ELSE objects[i]]

\* cleanupOnlineServiceObjects(): what was not seen for too long is removed.
Cleaned(obs) ==
    IF Purge = 0 THEN obs
    ELSE [i \in {j \in DOMAIN obs : now - obs[j] <= Purge} |-> obs[i]]

\* The call is over: there is more to get, or there is not.
Returns(more, obs) ==
    /\ answer' = more /\ service' = None /\ page' = << >>
    /\ objects' = IF more = "more" THEN obs ELSE Cleaned(obs)

Throws == answer' = "exception" /\ service' = None /\ page' = << >> /\ UNCHANGED objects

Idle == service = None

Init ==
    /\ \E c \in Configs :
         /\ \A k \in DOMAIN c : ~BadTask(c[k])
         /\ tasklist = [k \in DOMAIN c |-> defineServiceTask(c[k])]
    /\ current = 0 /\ service = None /\ page = << >>
    /\ objects = << >> /\ answer = "none" /\ now = 0 /\ stopping = FALSE

\* The reply does not come, or cannot be parsed: nothing was changed yet.
RefreshFails ==
    /\ Idle /\ Throws
    /\ UNCHANGED << tasklist, current, now, stopping >>

\* A task that finds feeds appends a task for each.
RefreshSubFeeds ==
    /\ Idle /\ tasklist # << >> /\ Now.request \in ManyFeeds
    /\ LET new == [k \in DOMAIN SubFeeds[Now.feed] |->
                      Task(SubFeeds[Now.feed][k], "sub", Amount_All, 1, TRUE)]
           all == tasklist \o new
       IN  Advance(all) /\ Returns(IF Ends(all) THEN "done" ELSE "more", objects)
    /\ UNCHANGED << now, stopping >>

\* A page without items: paging of the task begins anew.
Reset(n) == [tasklist EXCEPT ![n].fetched = 0]

\* A page of a feed.
RefreshVideos ==
    /\ Idle /\ tasklist # << >> /\ Now.request \notin ManyFeeds
    /\ LET nodes == RemotePage(Now.feed, Now.cfg_start_index + Now.fetched, PageSize(Now))
       IN  IF HasItems(nodes)
           THEN /\ service' = "YouTube" /\ page' = Ids(nodes, {n \in ToSet(nodes) : SkippedVideo(n)})
                /\ UNCHANGED << tasklist, current, objects, answer >>
           ELSE /\ Advance(Reset(current + 1))
                /\ Returns(IF Ends(tasklist) THEN "done" ELSE "more", objects)
    /\ UNCHANGED << now, stopping >>

RefreshChannels ==
    /\ Idle /\ service' = "SopCast"
    /\ \E c \in Channels : page' = ChannelIds(c)
    /\ UNCHANGED << tasklist, current, objects, answer, now, stopping >>

RefreshTrailers ==
    /\ Idle /\ service' = "Trailers"
    /\ \E t \in TrailerFeeds : page' = Ids(t, {n \in ToSet(t) : SkippedTrailer(n)})
    /\ UNCHANGED << tasklist, current, objects, answer, now, stopping >>

\* The next object is added to the database, or updated there.  In a task of
\* YouTube that reaches its amount the next one becomes due at once, though
\* the rest of this page is stored first.
Counted == [tasklist EXCEPT ![current + 1].fetched = @ + 1]
AmountReached == Now.fetched + 1 >= Now.amount

NextObject ==
    /\ page # << >>
    /\ LET stored == Store(Head(page))
           last == service = "YouTube" /\ AmountReached /\ Ends(tasklist)
       IN  /\ IF service # "YouTube" THEN UNCHANGED << tasklist, current >>
              ELSE IF AmountReached THEN Advance(Reset(current + 1))
              ELSE tasklist' = Counted /\ UNCHANGED current
           /\ IF last \/ stopping THEN Returns("done", stored)
              ELSE page' = Tail(page) /\ objects' = stored /\ UNCHANGED << service, answer >>
    /\ UNCHANGED << now, stopping >>

\* No more objects in this page.
PageEnds ==
    /\ ~Idle /\ page = << >>
    /\ IF service = "YouTube"
       THEN Advance(tasklist) /\ Returns(IF Ends(tasklist) THEN "done" ELSE "more", objects)
       ELSE Returns("done", objects) /\ UNCHANGED << tasklist, current >>
    /\ UNCHANGED << now, stopping >>

Tick ==
    /\ Idle /\ now < MaxTime /\ now' = now + 1
    /\ UNCHANGED << tasklist, current, service, page, objects, answer, stopping >>

Shutdown ==
    /\ ~stopping /\ stopping' = TRUE
    /\ UNCHANGED << tasklist, current, service, page, objects, answer, now >>

Next ==
    \/ RefreshFails \/ RefreshSubFeeds \/ RefreshVideos
    \/ RefreshChannels \/ RefreshTrailers
    \/ NextObject \/ PageEnds
    \/ Tick \/ Shutdown

Spec == Init /\ [][Next]_vars

-----------------------------------------------------------------------------
TypeOK ==
    /\ current \in 0 .. Len(tasklist)
    /\ service \in {None, "YouTube", "SopCast", "Trailers"}
    /\ answer \in {"none", "more", "done", "exception"}
    /\ now \in 0 .. MaxTime /\ stopping \in BOOLEAN

(* "autoremove after one time execution" (youtube_service.cc:717): when    *)
(* the list begins anew, the tasks are those of config.xml in their order; *)
(* nothing that subscriptions and playlists appended stays behind, and the *)
(* index always points to a task.                                          *)
OneTimeTasksGo ==
    /\ tasklist # << >> => current < Len(tasklist)
    /\ current = 0 /\ Idle => \A k \in DOMAIN tasklist : ~tasklist[k].kill
    /\ \A j, k \in DOMAIN tasklist : j < k /\ tasklist[j].kill => tasklist[k].kill

(* No task fetches more than its amount of objects, whatever happened      *)
(* before: replies that failed, a shutdown in a page, other tasks.         *)
NeverBeyondAmount == \A k \in DOMAIN tasklist : tasklist[k].fetched < tasklist[k].amount

(* Every task of config.xml gets its turn.  It does not: after a task that *)
(* reached its amount in the middle of the list the next one is skipped    *)
(* (youtube_service.cc:844-857: "break to next task" does not break, and   *)
(* the end of the page advances again), in every round.                    *)
Turns == \A n \in 0 .. 2 : []<>(current = n \/ n >= Len(tasklist))
FairSpec == Spec /\ WF_vars(RefreshVideos \/ RefreshSubFeeds) /\ WF_vars(NextObject \/ PageEnds)
=============================================================================

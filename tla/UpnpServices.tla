---------------------------- MODULE UpnpServices ----------------------------
(***************************************************************************)
(* The UPnP side of the server (server.cc, upnp_cds.cc, upnp_cm.cc,        *)
(* upnp_mrreg.cc): one request at a time, under the mutex of the device,   *)
(* goes to the service it names.  A Browse is several queries, and the     *)
(* reply is rendered with more of them (upnp_xml.cc), while the task       *)
(* thread and the web interface add and remove objects: each query sees    *)
(* the database of its own moment.  The update thread notifies subscribers *)
(* without that mutex.                                                     *)
(*                                                                         *)
(* A control point reads a container page by page: it asks for the next    *)
(* PageSize children until it has TotalMatches of them or gets none.       *)
(***************************************************************************)
EXTENDS Integers, FiniteSetsExt, SequencesExt

CONSTANTS
    Databases,  \* rows at the start: functions from IDs
    NewRows,    \* rows that can be added
    HideFsRoot, \* CFG_SERVER_HIDE_PC_DIRECTORY: the values it takes
    PageSize,   \* children the control point asks for at once
    MaxChanges, \* bound: additions and removals
    None

VARIABLES
    hide,    \* HideFsRoot as configured
    rows,    \* ID -> row
    changed, \* containers the update manager has to report
    browse,  \* the Browse in progress, or None
    answer,  \* the last answer of the device: [result, code], None during a Browse
    reading, \* what the control point reads
    told,    \* service -> the last event of its subscribers, or None
    changes  \* changes so far

vars == << hide, rows, changed, browse, answer, reading, told, changes >>

Root == 0
FsRoot == 1
Services == {"cds", "cm", "mrreg"}
Evented == {"cds", "cm"}
Codes == {"SUCCESS", "BAD_REQUEST", "INVALID_ACTION", "NOT_EXIST", "ACTION_FAILED",
          "NO_SUCH_ID", "INVALID_ARGS"}

\* What a row says.
Fields == {"parent", "container", "class", "title", "track", "mime", "artOf", "cover", "ref",
           "played", "updateID"}

UpnpAssumption ==
    /\ \A r \in Databases : IsFiniteSet(DOMAIN r) /\ \A o \in DOMAIN r : DOMAIN r[o] = Fields
    /\ \A row \in NewRows : DOMAIN row = Fields
    /\ PageSize \in Nat

-----------------------------------------------------------------------------
(* Queries.                                                                *)
Children(r, id) == {c \in DOMAIN r : r[c].parent = id}

Listed(r, id, hiding) ==
    IF id = Root /\ hiding THEN Children(r, id) \ {FsRoot} ELSE Children(r, id)

\* Mutant of getChildCount: the hidden directory is counted.
getChildCountOfAll(r, id, hiding) == Cardinality(Children(r, id))

getChildCount(r, id, hiding) == Cardinality(Listed(r, id, hiding))

(* ORDER BY: containers first, then the track number if asked for, then    *)
(* the title; rows that are equal in all of it keep the order of their IDs *)
Key(r, id, byTrack) ==
    << IF r[id].container THEN 0 ELSE 1, IF byTrack THEN r[id].track ELSE 0, r[id].title, id >>

Before(a, b) ==
    \E n \in DOMAIN a : a[n] < b[n] /\ \A m \in 1 .. n - 1 : a[m] = b[m]

\* The n-th one has n - 1 others before it.
Sorted(ids, key) ==
    [n \in 1 .. Cardinality(ids) |->
        CHOOSE o \in ids : Cardinality({p \in ids : Before(key[p], key[o])}) = n - 1]
InOrder(r, ids, byTrack) == Sorted(ids, [o \in ids |-> Key(r, o, byTrack)])

\* LIMIT count OFFSET start; a count of 0 is no limit.
Page(s, start, count) ==
    IF count = 0 THEN SubSeq(s, start + 1, Len(s))
    ELSE SubSeq(s, start + 1, IF start + count < Len(s) THEN start + count ELSE Len(s))

Select(r, b) ==
    IF b.direct /\ b.container
    THEN Page(InOrder(r, Listed(r, b.id, b.hide), b.byTrack), b.start, b.count)
    ELSE IF b.id \in DOMAIN r THEN << b.id >> ELSE << >>

getMimeTypes(r) == { r[o].mime : o \in DOMAIN r } \ {None}

(* An image whose title is that of a cover (0) or that of the track, in    *)
(* the container or beside the files that the links in it refer to; any    *)
(* of them is taken.                                                       *)
findFolderImage(r, id, track) ==
    LET linked == { r[o].ref : o \in {c \in Children(r, id) : ~r[c].container} }
        places == {id} \cup { r[o].parent : o \in {t \in DOMAIN r : t \in linked /\ r[t].class = "track"} }
    IN  {o \in DOMAIN r : r[o].parent \in places /\ r[o].artOf \cap {0, track} # {}}

\* Items of a container, for the search of a track with artwork.
getObjects(r, id) == {o \in Children(r, id) : ~r[o].container}

-----------------------------------------------------------------------------
(* The answer to an action: update() keeps the code that a handler set     *)
(* only if there is a response as well.                                    *)
Answered == [result |-> TRUE, code |-> "SUCCESS"]
Refused(code) == [result |-> FALSE, code |-> code]
NoResponse(code) == IF code = "SUCCESS" THEN Refused("ACTION_FAILED") ELSE Refused("SUCCESS")

Reading(id, hiding) ==
    [id |-> id, got |-> << >>, total |-> -1, done |-> FALSE, quiet |-> TRUE, byTrack |-> FALSE]

Init ==
    /\ hide \in HideFsRoot
    /\ rows \in Databases
    /\ changed = {}
    /\ browse = None
    /\ answer = Answered
    /\ \E id \in {o \in DOMAIN rows : rows[o].container} : reading = Reading(id, hide)
    /\ told = [s \in Evented |-> None]
    /\ changes = 0

Idle == browse = None

-----------------------------------------------------------------------------
(* Actions and subscriptions that are one query or none.                   *)
ConnectionManager(action) ==
    CASE action \in {"GetCurrentConnectionIDs", "GetProtocolInfo"} -> Answered
      [] action = "GetCurrentConnectionInfo" -> NoResponse("NOT_EXIST")
      [] OTHER -> NoResponse("INVALID_ACTION")

ContentDirectory(action) ==
    IF action \in {"GetSearchCapabilities", "GetSortCapabilities", "GetSystemUpdateID"} THEN Answered
    ELSE NoResponse("INVALID_ACTION")

Registrar(action) ==
    CASE action \in {"IsAuthorized", "IsValidated"} -> Answered
      [] action = "RegisterDevice" -> NoResponse("NOT_EXIST")
      [] OTHER -> NoResponse("INVALID_ACTION")

ActionNames ==
    {"GetCurrentConnectionIDs", "GetCurrentConnectionInfo", "GetProtocolInfo", "IsAuthorized",
     "RegisterDevice", "IsValidated", "GetSearchCapabilities", "GetSortCapabilities",
     "GetSystemUpdateID", "Search"}

\* An action for this device and a service of it, or neither.
upnp_actions(forUs, service, action) ==
    /\ Idle
    /\ answer' = CASE forUs /\ service = "cm" -> ConnectionManager(action)
                   [] forUs /\ service = "cds" -> ContentDirectory(action)
                   [] forUs /\ service = "mrreg" -> Registrar(action)
                   [] OTHER -> Refused("BAD_REQUEST")
    /\ UNCHANGED << hide, rows, changed, browse, reading, told, changes >>

UnsupportedEvent ==
    /\ Idle
    /\ answer' = Refused("BAD_REQUEST")
    /\ UNCHANGED << hide, rows, changed, browse, reading, told, changes >>

\* The first event of a subscriber; the registrar's never changes.
CdsEvent == [ids |-> << <<Root, rows[Root].updateID>> >>, types |-> {}]
CmEvent == [ids |-> << >>, types |-> getMimeTypes(rows)]

upnp_subscriptions(forUs, service) ==
    /\ Idle
    /\ told' = CASE forUs /\ service = "cds" -> [told EXCEPT !["cds"] = CdsEvent]
                 [] forUs /\ service = "cm" -> [told EXCEPT !["cm"] = CmEvent]
                 [] OTHER -> told
    /\ answer' = IF forUs THEN answer ELSE Refused("BAD_REQUEST")
    /\ UNCHANGED << hide, rows, changed, browse, reading, changes >>

(* The update thread: the IDs go out as SourceProtocolInfo of the          *)
(* connection manager service.  Nobody calls subscription_update() of the  *)
(* content directory, so systemUpdateID, the UpdateID of every reply,      *)
(* stays 0.                                                                *)
Counted == [o \in DOMAIN rows |-> IF o \in changed THEN [rows[o] EXCEPT !.updateID = @ + 1] ELSE rows[o]]

IDsAndCounts(r, ids) == LET s == SetToSeq(ids) IN [n \in DOMAIN s |-> << s[n], r[s[n]].updateID >>]

send_subscription_update ==
    /\ changed # {}
    /\ rows' = Counted
    /\ told' = IF told["cm"] # None /\ changed \cap DOMAIN rows # {}
               THEN [told EXCEPT !["cm"] = [ids |-> IDsAndCounts(Counted, changed \cap DOMAIN rows), types |-> {}]]
               ELSE told
    /\ changed' = {}
    /\ UNCHANGED << hide, browse, answer, reading, changes >>

-----------------------------------------------------------------------------
(* Browse.  stage is the next query.                                       *)
Begin(id, direct, start, count) ==
    [stage |-> "load", id |-> id, direct |-> direct, start |-> start, count |-> count,
     hide |-> hide, byTrack |-> FALSE, container |-> FALSE, total |-> 0, ids |-> << >>,
     objects |-> << >>, search |-> {}]

\* The control point asks for the next page, or for the metadata of an object.
AskNextPage ==
    /\ Idle /\ ~reading.done
    /\ browse' = Begin(reading.id, TRUE, Len(reading.got), PageSize)
    /\ answer' = None
    /\ UNCHANGED << hide, rows, changed, reading, told, changes >>

AskMetadata(id) ==
    /\ Idle
    /\ browse' = Begin(id, FALSE, 0, 0)
    /\ answer' = None
    /\ UNCHANGED << hide, rows, changed, reading, told, changes >>

\* No ObjectID, or a flag that is none of the two.
AskWrong(code) ==
    /\ Idle
    /\ answer' = Refused(code)
    /\ UNCHANGED << hide, rows, changed, browse, reading, told, changes >>

(* The device refuses: the control point gives up the container it reads.  *)
Fail(code) ==
    /\ browse' = None
    /\ answer' = Refused(code)
    /\ reading' = IF browse.direct THEN [reading EXCEPT !.done = TRUE, !.quiet = FALSE] ELSE reading
    /\ UNCHANGED << hide, rows, changed, told, changes >>

Continue(b) ==
    /\ browse' = b
    /\ UNCHANGED << hide, rows, changed, answer, reading, told, changes >>

At(stage) == browse # None /\ browse.stage = stage

\* An object that is gone here is an exception without a code of UPnP.
Load ==
    /\ At("load")
    /\ IF browse.id \in DOMAIN rows
       THEN Continue([browse EXCEPT !.stage = "type", !.byTrack = rows[browse.id].class \in {"album", "playlist"}])
       ELSE Fail("SUCCESS")

ReadType ==
    /\ At("type")
    /\ IF browse.id \in DOMAIN rows
       THEN Continue([browse EXCEPT !.stage = "count", !.container = rows[browse.id].container])
       ELSE Fail("NO_SUCH_ID")

CountMatches ==
    /\ At("count")
    /\ Continue([browse EXCEPT !.stage = "rows",
                               !.total = IF browse.direct /\ browse.container
                                         THEN getChildCount(rows, browse.id, browse.hide) ELSE 1])

Shown(id) ==
    [id |-> id, count |-> -1, art |-> None, marked |-> rows[id].played,
     class |-> rows[id].class, container |-> rows[id].container, parent |-> rows[id].parent,
     title |-> rows[id].title]

SelectRows ==
    /\ At("rows")
    /\ LET ids == Select(rows, browse)
       IN  Continue([browse EXCEPT !.stage = "counts", !.ids = ids,
                                   !.objects = [n \in DOMAIN ids |-> Shown(ids[n])]])

CountChildren ==
    /\ At("counts")
    /\ LET counted(o) == IF o.container THEN [o EXCEPT !.count = getChildCount(rows, o.id, browse.hide)] ELSE o
       IN  Continue([browse EXCEPT !.stage = "render",
                                   !.objects = [n \in DOMAIN browse.objects |-> counted(browse.objects[n])]])

\* The objects that are rendered already are those before the first in ids.
Current == Len(browse.objects) - Len(browse.ids) + 1
Rendered(art) ==
    [browse EXCEPT !.stage = "render", !.ids = Tail(@), !.objects[Current].art = art, !.search = {}]

\* A track looks beside itself, with its own title, a container inside.
HasArt(o) == o.class \in {"track", "album", "plain"}
FolderImages(o) ==
    IF o.container THEN findFolderImage(rows, o.id, 0) ELSE findFolderImage(rows, o.parent, o.title)

Render ==
    /\ At("render") /\ browse.ids # << >>
    /\ LET o == browse.objects[Current]
           images == FolderImages(o)
       IN  IF ~HasArt(o) THEN Continue(Rendered(None))
           ELSE IF images # {} THEN \E i \in images : Continue(Rendered(i))
           ELSE IF o.class = "album" THEN Continue([browse EXCEPT !.stage = "tracks", !.search = getObjects(rows, o.id)])
           ELSE Continue(Rendered(None))

\* One object after the other is loaded until one is a track with artwork.
LookAtTrack ==
    /\ At("tracks")
    /\ IF browse.search = {} THEN Continue(Rendered(None))
       ELSE \E t \in browse.search :
              IF t \notin DOMAIN rows THEN Fail("SUCCESS")
              ELSE IF rows[t].class = "track" /\ rows[t].cover THEN Continue(Rendered(t))
              ELSE Continue([browse EXCEPT !.search = @ \ {t}])

\* What the control point has after a page.
Received(b) ==
    LET got == reading.got \o [n \in DOMAIN b.objects |-> b.objects[n].id]
    IN  [reading EXCEPT !.got = got, !.total = b.total, !.byTrack = b.byTrack,
                        !.done = b.objects = << >> \/ Len(got) >= b.total]

Reply ==
    /\ At("render") /\ browse.ids = << >>
    /\ answer' = Answered
    /\ reading' = IF browse.direct THEN Received(browse) ELSE reading
    /\ browse' = None
    /\ UNCHANGED << hide, rows, changed, told, changes >>

\* The control point turns to another container.
ReadAnother ==
    /\ Idle /\ reading.done
    /\ \E id \in {o \in DOMAIN rows : rows[o].container} : reading' = Reading(id, hide)
    /\ UNCHANGED << hide, rows, changed, browse, answer, told, changes >>

-----------------------------------------------------------------------------
(* The other threads.                                                      *)
DatabaseChanges(r, containers) ==
    /\ changes < MaxChanges
    /\ changes' = changes + 1
    /\ rows' = r
    /\ changed' = changed \cup containers
    /\ reading' = [reading EXCEPT !.quiet = FALSE]
    /\ UNCHANGED << hide, browse, answer, told >>

Add(row) ==
    /\ row.parent \in DOMAIN rows
    /\ LET id == 1 + Max(DOMAIN rows)
       IN  DatabaseChanges([o \in DOMAIN rows \cup {id} |-> IF o = id THEN row ELSE rows[o]], {row.parent})

\* An object with its children and the links to them.
Below(ids) == {o \in DOMAIN rows : o \in ids \/ rows[o].parent \in ids \/ rows[o].ref \in ids}

RemoveObject(id) ==
    /\ id \in DOMAIN rows \ {Root, FsRoot}
    /\ LET gone == Below(Below({id}))
       IN  DatabaseChanges([o \in DOMAIN rows \ gone |-> rows[o]], { rows[o].parent : o \in gone } \ gone)

Next ==
    \/ \E forUs \in BOOLEAN, s \in Services \cup {"none"}, a \in ActionNames : upnp_actions(forUs, s, a)
    \/ UnsupportedEvent
    \/ \E forUs \in BOOLEAN, s \in Services : upnp_subscriptions(forUs, s)
    \/ send_subscription_update
    \/ AskNextPage
    \/ \E id \in DOMAIN rows : AskMetadata(id)
    \/ \E code \in {"NO_SUCH_ID", "INVALID_ARGS"} : AskWrong(code)
    \/ Load
    \/ ReadType
    \/ CountMatches
    \/ SelectRows
    \/ CountChildren
    \/ Render
    \/ LookAtTrack
    \/ Reply
    \/ ReadAnother
    \/ \E row \in NewRows : Add(row)
    \/ \E id \in DOMAIN rows : RemoveObject(id)

Spec == Init /\ [][Next]_vars

-----------------------------------------------------------------------------
(* Every variable has a value of its kind: an answer has a known code, and *)
(* a control point never has more pages than it asked for.                 *)
TypeOK ==
    /\ hide \in BOOLEAN
    /\ \A o \in DOMAIN rows : o = Root \/ rows[o].parent \in Int
    /\ answer # None => answer.code \in Codes /\ answer.result \in BOOLEAN
    /\ DOMAIN told = Evented
    /\ changes \in 0 .. MaxChanges
    /\ browse # None => Len(browse.ids) <= Len(browse.objects)

(* A control point that reads a container by pages while nothing changes   *)
(* has every child once, in order, and stops because it has as many as it  *)
(* was told: the count, the pages and the hidden directory agree           *)
(* (SQLStorage::browse(), getChildCount(), upnp_action_Browse()).          *)
PagesFit ==
    reading.done /\ reading.quiet =>
        /\ reading.got = InOrder(rows, Listed(rows, reading.id, hide), reading.byTrack)
        /\ reading.total = Len(reading.got)

(* What a handler or an exception decided reaches the control point: an    *)
(* answer without a result has the code of an error                        *)
(* (ActionRequest::update(), upnp_callback()).                             *)
ErrorsAreAnswered == answer # None => answer.result \/ answer.code # "SUCCESS"

(* After the update thread has reported the changes, a subscriber of the   *)
(* content directory knows the count of every container that changed       *)
(* (UpdateManager, Server::send_subscription_update()).                    *)
SubscribersKnowChanges ==
    changed = {} /\ told["cds"] # None =>
        \A o \in DOMAIN rows : rows[o].updateID > 0 => \E e \in ToSet(told["cds"].ids) : e = << o, rows[o].updateID >>

(* SourceProtocolInfo lists protocols, whatever else is reported           *)
(* (ConnectionManagerService::subscription_update()).                      *)
ProtocolsStay == told["cm"] # None => told["cm"].ids = << >>

=============================================================================

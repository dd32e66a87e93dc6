------------------------------- MODULE Import -------------------------------
(***************************************************************************)
(* Adding files to the database and arranging them in virtual containers   *)
(* (content_manager.cc, layout/, scripting/, and the default scripts in    *)
(* scripts/js).                                                            *)
(*                                                                         *)
(* A file becomes an item below the container of its directory.  The       *)
(* layout, built in or a script, then adds links to that item below        *)
(* virtual containers, and the playlist script adds what a playlist lists. *)
(* A directory that is added once more goes through the layout again, and  *)
(* only the check for a duplicate keeps the links single.                  *)
(***************************************************************************)
EXTENDS Integers, SequencesExt

CONSTANTS
    Disks,       \* the contents that the disk may have: files by location
    Paths,       \* files and directories that a task may add
    Configs,     \* the settings: layout, scripts that load, link, ignore
    Videos,      \* what online services offer
    Hidden,      \* locations of files with a leading dot
    ConfigFile,  \* the location of config.xml
    Stem,        \* the title of a playlist without its extension
    Dates,       \* year, month and first seven characters of a date, or ""
    Genres,      \* the names in a genre
    Requests,    \* the names of the requests to YouTube, by their numbers
    MaxTasks,    \* bound: tasks started
    MaxEvents,   \* bound: changes of the disk, restarts and videos
    Undefined    \* undefined of a script, and NULL of the database

VARIABLES
    rows,        \* cds_object: a function on the IDs
    disk,        \* the files that exist
    conf,        \* the settings of this run of the server
    task,        \* the directories that the task is in, the innermost first
    valid,       \* the task has not been cancelled
    stuck,       \* the playlist parser still holds its line
    arranged,    \* the IDs that went through a layout to its end (history)
    tasks, events

vars == << rows, disk, conf, task, valid, stuck, arranged, tasks, events >>

Root == 0
FsRoot == 1
Invalid == -1

IsItem(o) == o.type # "container"
Has(x) == x \notin {"", Undefined}
Tag(o, key) == IF key \in DOMAIN o.meta THEN o.meta[key] ELSE ""
Or(x, default) == IF Has(x) THEN x ELSE default
Put(f, key, x) == [k \in DOMAIN f \cup {key} |-> IF k = key THEN x ELSE f[k]]
NoTags == [k \in {} |-> ""]

NewObject(type) ==
    [type |-> type, id |-> Invalid, ref |-> Invalid, parent |-> Invalid, title |-> << >>,
     class |-> "item", location |-> << >>, mime |-> "octet", meta |-> NoTags, aux |-> NoTags,
     res |-> "", theora |-> FALSE, online |-> FALSE, service |-> "", virt |-> FALSE,
     useRef |-> FALSE, playlistRef |-> FALSE]

-----------------------------------------------------------------------------
(* The database.  s is what a task works on: the rows, the state of the    *)
(* parser, the items arranged, and whether an exception is under way.      *)

Throws(s) == [s EXCEPT !.ok = FALSE]
Caught(s) == [s EXCEPT !.ok = TRUE]

getNextID(r) == Cardinality(DOMAIN r)
NewRow(r, row) == LET id == getNextID(r) IN [i \in DOMAIN r \cup {id} |-> IF i = id THEN row ELSE r[i]]

ContainerAt(r, path, virt) ==
    LET at == {id \in DOMAIN r : ~IsItem(r[id]) /\ r[id].virt = virt /\ r[id].location = path}
    IN  IF at = {} THEN Invalid ELSE CHOOSE id \in at : TRUE

createContainer(r, parent, path, virt, class, ref) ==
    NewRow(r, [NewObject("container") EXCEPT
                  !.parent = parent, !.title = << Last(path) >>, !.location = path, !.virt = virt,
                  !.class = Or(class, "container"), !.ref = IF ref > 0 THEN ref ELSE Invalid])

\* The containers of a path that are missing are created, from the top; the
\* class and the reference are for the last one.
CreatePath(r, path, top, virt, class, ref) ==
    LET Step(q, k) ==
            LET at == SubSeq(path, 1, k)
                parent == IF k = 1 THEN top ELSE ContainerAt(q, Front(at), virt)
                last == k = Len(path)
            IN  IF ContainerAt(q, at, virt) # Invalid THEN q
                ELSE createContainer(q, parent, at, virt, IF last THEN class ELSE Undefined,
                                     IF last THEN ref ELSE Invalid)
    IN  FoldLeft(Step, r, [k \in DOMAIN path |-> k])

addContainerChain(r, path, class, ref) == CreatePath(r, path, Root, TRUE, class, ref)
ensurePathExistence(r, dir) == CreatePath(r, dir, FsRoot, FALSE, Undefined, Invalid)

\* The item of a file; its links do not have a location of their own.
findObjectIDByPath(r, location) ==
    LET found == {id \in DOMAIN r : r[id].type = "item" /\ r[id].ref = Invalid /\ r[id].location = location}
    IN  IF found = {} THEN Invalid ELSE CHOOSE id \in found : TRUE

loadObject(r, id) == [r[id] EXCEPT !.id = id]

\* The object that o refers to, Invalid if it has none and may not have one.
checkRefID(r, o) ==
    IF o.type = "item" /\ o.virt
    THEN IF o.ref \in DOMAIN r /\ r[o.ref].location = o.location THEN o.ref
         ELSE findObjectIDByPath(r, o.location)
    ELSE o.ref

Linked(o) == (o.type = "item" /\ o.virt) \/ (o.online /\ o.ref > 0)
Illegal(r, o) ==
    IF o.playlistRef THEN o.type = "item" \/ o.ref <= 0
    ELSE IF Linked(o) THEN checkRefID(r, o) = Invalid ELSE o.ref > 0

\* Mutant of Twin: nothing is a duplicate.
TwinNever(r, o, ref) == FALSE

\* A link with the same title below the same container.
Twin(r, o, ref) == \E id \in DOMAIN r : r[id].parent = o.parent /\ r[id].ref = ref /\ r[id].title = o.title

\* The columns of a link that agree with what it refers to are NULL.
Columns(r, o, ref) ==
    LET same == Linked(o)
    IN  [o EXCEPT !.id = Invalid, !.ref = IF same \/ o.playlistRef THEN ref ELSE Invalid,
                  !.class = IF same /\ r[ref].class = @ THEN Undefined ELSE @,
                  !.meta = IF same /\ r[ref].meta = @ THEN NoTags ELSE @,
                  !.aux = IF same /\ r[ref].aux = @ THEN NoTags ELSE @,
                  !.res = IF same /\ (o.useRef \/ r[ref].res = @) THEN "" ELSE @,
                  !.location = IF same THEN << >> ELSE @,
                  !.useRef = FALSE]

validate(s, o) ==
    /\ o.title # << >> /\ Has(o.class) /\ Has(o.mime) /\ o.location # << >>
    /\ o.type = "item" => o.location \in DOMAIN s.disk

Insert(s, r, o, ref) ==
    IF Linked(o) /\ Twin(r, o, ref) THEN [s EXCEPT !.last = Invalid]
    ELSE [s EXCEPT !.rows = NewRow(r, Columns(r, o, ref)), !.last = getNextID(r)]

\* The item of a file goes below the container of its directory.
InsertFile(s, r, o, dir) == Insert(s, r, [o EXCEPT !.parent = ContainerAt(r, dir, FALSE)], o.ref)

\* ContentManager::addObject(), SQLStorage::addObject(): s.last is the ID that
\* the object has afterwards.  A duplicate is dropped, and has none.
addObject(s, o) ==
    IF ~validate(s, o) \/ Illegal(s.rows, o) THEN Throws(s)
    ELSE IF o.type = "item" /\ ~o.virt
    THEN InsertFile(s, ensurePathExistence(s.rows, Front(o.location)), o, Front(o.location))
    ELSE Insert(s, s.rows, o, checkRefID(s.rows, o))

\* An object below the virtual container at a path, created if it is missing.
AddBelow(s, o, path) == addObject(s, [o EXCEPT !.parent = ContainerAt(s.rows, path, TRUE)])
AddTo(s, o, path, class, ref) ==
    AddBelow([s EXCEPT !.rows = addContainerChain(@, path, class, ref)], o, path)

-----------------------------------------------------------------------------
(* The places of an item, in the order in which they are visited: the path *)
(* of the container, its class, and the title of the link there.           *)

Place(path, class, title) == [path |-> path, class |-> class, title |-> title]

\* The directories below the one that was added, with that one itself; the
\* last directory if a single file was added.
DirectoriesOf(location, rootpath) ==
    IF rootpath = << >> THEN SubSeq(location, Len(location) - 1, Len(location) - 1)
    ELSE SubSeq(location, Len(rootpath), Len(location) - 1)

InDirectories(kind, o, rootpath) ==
    LET dir == DirectoriesOf(o.location, rootpath)
    IN  IF dir = << >> THEN << >>
        ELSE << Place(<< kind, "Directories" >> \o dir, Undefined, o.title) >>

VideoPlaces(o, rootpath) ==
    << Place(<< "Video", "All Video" >>, Undefined, o.title) >> \o InDirectories("Video", o, rootpath)

ImagePlaces(o, rootpath, class) ==
    LET date == Tag(o, "date")
        At(path) == Place(<< "Photos" >> \o path, class, o.title)
    IN  << At(<< "All Photos" >>) >>
        \o (IF Has(date) /\ Dates[date].month # ""
            THEN << At(<< "Year", Dates[date].year, Dates[date].month >>) >> ELSE << >>)
        \o (IF Has(date) THEN << At(<< "Date", date >>) >> ELSE << >>)
        \o InDirectories("Photos", o, rootpath)

\* What both layouts gather of a song before they add it.
Song(o) ==
    LET date == Tag(o, "date")
    IN  [title |-> IF Has(Tag(o, "title")) THEN << Tag(o, "title") >> ELSE o.title,
         artist |-> Or(Tag(o, "artist"), "Unknown"), album |-> Or(Tag(o, "album"), "Unknown"),
         genre |-> Or(Tag(o, "genre"), "Unknown"),
         year |-> IF Has(date) THEN Dates[date].year ELSE "Unknown",
         full |-> << Tag(o, "artist"), Tag(o, "album") >>]

\* The description that is made up of the tags, if the file has none.
Described(o) == IF Has(Tag(o, "description")) THEN o ELSE [o EXCEPT !.meta = Put(@, "description", "generated")]

SongPlace(song, place) ==
    LET At(path, class) == Place(<< "Audio" >> \o path, class, song.title)
        Full(path) == Place(<< "Audio" >> \o path, Undefined, song.full \o song.title)
        by == << "Artists", song.artist >>
    IN  CASE place = "all" -> At(<< "All Audio" >>, Undefined)
          [] place = "songs" -> At(Append(by, "All Songs"), Undefined)
          [] place = "artist" -> At(Append(by, song.album), "album")
          [] place = "album" -> At(<< "Albums", song.album >>, "album")
          [] place = "genre" -> At(<< "Genres", song.genre >>, "genre")
          [] place = "year" -> At(<< "Year", song.year >>, Undefined)
          [] place = "full" -> Full(<< "All - full name" >>)
          [] place = "by full" -> Full(Append(by, "All - full name"))

SongPlaces(o, places) == [k \in DOMAIN places |-> SongPlace(Song(o), places[k])]

Service(path, o) == Place(<< "Online Services" >> \o path, Undefined, o.title)
Optional(x) == IF Has(x) THEN << x >> ELSE << >>
Aux(o, key) == IF key \in DOMAIN o.aux THEN o.aux[key] ELSE ""

\* The rating is in tenths; request is the name of the request.
YouTubePlaces(o, request) ==
    (IF "rating" \in DOMAIN o.aux /\ o.aux.rating \div 10 > 3
     THEN << Service(<< "YouTube", "Rating", ToString(o.aux.rating \div 10) >>, o) >> ELSE << >>)
    \o (IF Has(request)
        THEN << Service(<< "YouTube", request >> \o Optional(Aux(o, "subrequest"))
                        \o Optional(Aux(o, "feed")) \o Optional(Aux(o, "region")), o) >>
        ELSE << >>)

SopCastPlaces(o) ==
    << Service(<< "SopCast", "All Channels" >>, o) >>
    \o (IF Has(Aux(o, "group")) THEN << Service(<< "SopCast", "Groups", Aux(o, "group") >>, o) >> ELSE << >>)

TrailerPlaces(o) ==
    LET names == IF Has(Tag(o, "genre")) THEN Genres[Tag(o, "genre")] ELSE << >>
        In(kind, date) == IF Has(date) /\ Dates[date].seven # ""
                          THEN << Service(<< "Apple Trailers", kind, Dates[date].seven >>, o) >> ELSE << >>
    IN  << Service(<< "Apple Trailers", "All Trailers" >>, o) >>
        \o [k \in DOMAIN names |-> Service(<< "Apple Trailers", "Genres", names[k] >>, o)]
        \o In("Release Date", Tag(o, "date")) \o In("Post Date", Aux(o, "post"))

-----------------------------------------------------------------------------
(* The layout that is built in works on a clone of the item.               *)

BuiltinOrder == << "all", "songs", "artist", "album", "genre", "year", "full", "by full" >>

BuiltinPlaces(o, rootpath) ==
    CASE o.service = "YouTube" -> YouTubePlaces(o, IF "request" \in DOMAIN o.aux THEN Requests[o.aux.request] ELSE "")
      [] o.service = "SopCast" -> SopCastPlaces(o)
      [] o.service = "Trailers" -> TrailerPlaces(o)
      [] ~o.online /\ (o.mime = "video" \/ (o.mime = "ogg" /\ o.theora)) -> VideoPlaces(o, rootpath)
      [] ~o.online /\ o.mime = "image" -> ImagePlaces(o, rootpath, Undefined)
      [] ~o.online /\ (o.mime = "audio" \/ (o.mime = "ogg" /\ ~o.theora)) -> SongPlaces(o, BuiltinOrder)
      [] OTHER -> << >>

IsSong(o) == o.mime = "audio" \/ (o.mime = "ogg" /\ ~o.theora)

\* Links refer to the item; for an item that is not in the database, to the
\* first of them.  An album refers to the link that was added last.
AddPlace(s, o, p, first) ==
    AddTo(s, [o EXCEPT !.title = p.title, !.ref = s.ref, !.useRef = ~first],
          p.path, p.class, IF p.class = "album" THEN s.last ELSE Invalid)

RefersTo(s, first) == [s EXCEPT !.ref = IF first THEN s.last ELSE @]

BuiltinAdd(s, clone, places, new) ==
    LET Add(t, k) == IF t.ok THEN RefersTo(AddPlace(t, clone, places[k], new /\ k = 1), new /\ k = 1) ELSE t
    IN  FoldLeft(Add, s, [k \in DOMAIN places |-> k])

BuiltinLayout(s, o, rootpath) ==
    BuiltinAdd([s EXCEPT !.ref = o.id],
               [(IF IsSong(o) THEN Described(o) ELSE o) EXCEPT !.virt = TRUE, !.id = Invalid],
               BuiltinPlaces(o, rootpath), o.id = Invalid)

-----------------------------------------------------------------------------
(* Objects of a script, and the objects they are made of and become.       *)

Defined(id) == IF id = Invalid THEN Undefined ELSE id
IdOf(x) == IF x = Undefined THEN Invalid ELSE x
Exported(x, default) == IF x = Undefined THEN default ELSE x

\* What the script sees of the request to YouTube is its name; the auxiliary
\* data of the object itself are changed by that.
Named(o) == IF "request" \in DOMAIN o.aux THEN [o EXCEPT !.aux.request = Requests[@]] ELSE o

\* Script::cdsObject2dukObject(): neither the reference nor the flags and the
\* resources are shown to a script.
cdsObject2dukObject(o) ==
    [objectType |-> o.type, id |-> Defined(o.id), refID |-> Undefined, parentID |-> Defined(o.parent),
     title |-> o.title, upnpclass |-> o.class, location |-> o.location,
     theora |-> o.theora, onlineservice |-> o.service,
     meta |-> o.meta, aux |-> Named(o).aux, mimetype |-> o.mime, serviceID |-> o.service,
     description |-> Undefined]

\* The part of Script::dukObject2cdsObject() that any object has; pcd is the
\* object to complete it from, or Undefined.
ObjectOf(js, pcd) ==
    LET o == [NewObject(js.objectType) EXCEPT
                 !.virt = TRUE, !.id = IdOf(js.id), !.ref = IdOf(js.refID), !.parent = IdOf(js.parentID),
                 !.title = Exported(js.title, IF pcd = Undefined THEN << >> ELSE pcd.title),
                 !.class = Exported(js.upnpclass, IF pcd = Undefined THEN @ ELSE pcd.class),
                 !.meta = js.meta]
    IN  IF pcd = Undefined THEN o
        ELSE [o EXCEPT !.theora = pcd.theora, !.online = pcd.online, !.playlistRef = pcd.playlistRef,
                       !.useRef = pcd.useRef, !.res = pcd.res, !.aux = pcd.aux]

\* What an item has besides.  The description is that of pcd, whatever the
\* script has put into the metadata.
Completed(o, js, pcd) ==
    [o EXCEPT
        !.mime = Exported(js.mimetype, IF pcd = Undefined THEN @ ELSE pcd.mime),
        !.service = Exported(js.serviceID, ""),
        !.meta = IF js.description # Undefined THEN Put(@, "description", js.description)
                 ELSE IF pcd # Undefined THEN Put(@, "description", Tag(pcd, "description")) ELSE @,
        !.location = Exported(js.location, IF pcd = Undefined THEN @ ELSE pcd.location),
        !.res = IF o.type = "external" /\ @ = "" THEN "url" ELSE @]

dukObject2cdsObject(js, pcd) == Completed(ObjectOf(js, pcd), js, pcd)

-----------------------------------------------------------------------------
(* The import script.                                                      *)

Link(o, ref) == [o EXCEPT !.id = Invalid, !.ref = ref, !.useRef = TRUE]

\* addCdsObject() of the import script; an exception is only logged.
Imported(o, ref) == IF o.type = "external" THEN [o EXCEPT !.id = Invalid] ELSE Link(o, ref)

addCdsObject(s, js, processed, place) ==
    Caught(AddTo(s, Imported(dukObject2cdsObject([js EXCEPT !.title = place.title],
                                                 dukObject2cdsObject(js, processed)), IdOf(js.id)),
                 place.path, place.class, Invalid))

ScriptOrder == << "all", "songs", "full", "by full", "artist", "album", "genre", "year" >>

\* Without a root path the script does not get to the directories.
ScriptPlaces(js, o, rootpath) ==
    CASE o.mime = "video" /\ js.onlineservice = "YouTube" -> YouTubePlaces(o, Aux(js, "request"))
      [] o.mime = "video" /\ js.onlineservice = "Trailers" -> TrailerPlaces(o)
      [] (o.mime = "video" /\ js.onlineservice \in {"", "SopCast"}) \/ (o.mime = "ogg" /\ js.theora)
            -> IF rootpath = << >> THEN << Head(VideoPlaces(o, rootpath)) >> ELSE VideoPlaces(o, rootpath)
      [] o.mime = "image" -> IF rootpath = << >> THEN Front(ImagePlaces(o, rootpath, "container"))
                             ELSE ImagePlaces(o, rootpath, "container")
      [] IsSong(o) -> SongPlaces(o, ScriptOrder)
      [] OTHER -> << >>

\* The root path is null then, and reading its length ends the script.
Fails(o, rootpath) ==
    /\ rootpath = << >>
    /\ o.mime \in {"image", "video"} \/ (o.mime = "ogg" /\ o.theora)
    /\ o.service \notin {"YouTube", "Trailers"}

ScriptAdd(s, js, o, places) ==
    LET Add(t, k) == addCdsObject(t, js, Named(o), places[k])
    IN  FoldLeft(Add, s, [k \in DOMAIN places |-> k])

ScriptRuns(s, js, o, rootpath) ==
    [ScriptAdd(s, js, o, ScriptPlaces(js, o, rootpath)) EXCEPT !.ok = ~Fails(o, rootpath)]

\* The script works on the object itself: it refers to the file, and a song
\* gets a description.
Original(o) ==
    [cdsObject2dukObject(o) EXCEPT !.refID = Defined(o.id),
                                   !.meta = IF IsSong(o) THEN Described(o).meta ELSE @]

ScriptLayout(s, o, rootpath) ==
    IF s.conf.common THEN ScriptRuns(s, Original(o), o, rootpath) ELSE Throws(s)

\* ContentManager::initLayout(): without its script there is no layout.
Layout(c) == IF c.layout = "js" /\ ~c.import THEN "none" ELSE c.layout

processCdsObject(s, o, rootpath) ==
    IF Layout(s.conf) = "builtin" THEN BuiltinLayout(s, o, rootpath) ELSE ScriptLayout(s, o, rootpath)

-----------------------------------------------------------------------------
(* One file.                                                               *)

\* extension2mimetype() and mimetype2upnpclass() of a type that is mapped.
Typed(o, mime) == IF mime = "unknown" THEN o ELSE [o EXCEPT !.mime = mime, !.class = mime]

\* MetadataHandler::setMetadata(): the resource of the file itself, its tags,
\* and whether an ogg file is a video.
setMetadata(o, f) == [o EXCEPT !.res = "file", !.meta = f.tags, !.theora = f.mime = "ogg" /\ f.theora]

\* createObjectFromFile(): Undefined if the file is ignored.
createObjectFromFile(s, location) ==
    LET f == s.disk[location]
        o == [NewObject("item") EXCEPT !.title = << Last(location) >>, !.location = location]
    IN  IF f.mime = "unknown" /\ s.conf.ignore THEN Undefined ELSE setMetadata(Typed(o, f.mime), f)

\* The layout for an item that is in the database; s.id is its ID.
Finished(s) == [s EXCEPT !.arranged = IF s.ok THEN @ \cup {s.id} ELSE @]
Arrange(s, rootpath) ==
    IF Layout(s.conf) = "none" THEN s
    ELSE Finished(processCdsObject(s, loadObject(s.rows, s.id), rootpath))

\* A file that is not known; s.id stays Invalid if it is not added.
Added(s, rootpath) == IF s.ok THEN Arrange([s EXCEPT !.id = s.last], rootpath) ELSE s
AddNew(s, location, rootpath) ==
    IF location \notin DOMAIN s.disk THEN Throws(s)
    ELSE IF createObjectFromFile(s, location) = Undefined THEN s
    ELSE Added(addObject(s, createObjectFromFile(s, location)), rootpath)

IsPlaylist(o) == o.mime \in {"m3u", "pls"}

\* _addFile() for an entry of a playlist: a new playlist among the entries is
\* added, and then it fails, as only one can be parsed at a time.
FailsIfPlaylist(s) == IF s.ok /\ s.id # Invalid /\ IsPlaylist(s.rows[s.id]) THEN Throws(s) ELSE s
AddEntry(s, location) ==
    IF findObjectIDByPath(s.rows, location) # Invalid
    THEN [s EXCEPT !.id = findObjectIDByPath(s.rows, location)]
    ELSE FailsIfPlaylist(AddNew([s EXCEPT !.id = Invalid], location, << >>))

-----------------------------------------------------------------------------
(* The playlist script.                                                    *)

AllPlaylists(o) == << "Playlists", "All Playlists", Stem[Head(o.title)] >>
PlaylistsByDirectory(o) == << "Playlists", "Directories", Last(Front(o.location)), Stem[Head(o.title)] >>

\* addPlaylistItem(): what the script makes of a line.
ScriptObject(line) ==
    [objectType |-> IF line.url THEN "external" ELSE "item",
     id |-> Undefined, refID |-> Undefined, parentID |-> Undefined,
     title |-> IF line.title # "" THEN << line.title >>
               ELSE IF line.url THEN line.location ELSE << Last(line.location) >>,
     upnpclass |-> IF line.url THEN "track" ELSE Undefined,
     location |-> line.location, theora |-> FALSE, onlineservice |-> "",
     meta |-> NoTags, aux |-> NoTags, mimetype |-> IF line.url THEN "audio" ELSE Undefined,
     serviceID |-> Undefined, description |-> IF line.url THEN "song from" ELSE Undefined]

\* addCdsObject() of the playlist script: the file of a line is added before
\* the link to it; an exception only loses this link.
AddURL(s, js, playlist, path) ==
    AddTo(s, [dukObject2cdsObject(js, Undefined) EXCEPT !.ref = IF s.conf.link THEN playlist ELSE @,
                                                        !.playlistRef = s.conf.link],
          path, "playlist", IF s.conf.link THEN playlist ELSE Invalid)

AddLink(s, js, playlist, path) ==
    IF ~s.ok \/ s.id = Invalid THEN s
    ELSE AddTo(s, Link(dukObject2cdsObject(js, loadObject(s.rows, s.id)), s.id),
               path, "playlist", IF s.conf.link THEN playlist ELSE Invalid)

AddFromPlaylist(s, line, playlist, path) ==
    Caught(IF line.url THEN AddURL(s, ScriptObject(line), playlist, path)
           ELSE AddLink(AddEntry(s, line.location), ScriptObject(line), playlist, path))

\* n of the lines are read, and each of them is added to two containers.  The
\* script fails if there is none.
ParsePlaylist(s, o, n) ==
    LET Add(t, line) == LET In(u, path) == AddFromPlaylist(u, line, o.id, path)
                        IN  FoldLeft(In, t, << AllPlaylists(o), PlaylistsByDirectory(o) >>)
    IN  FoldLeft(Add, s, SubSeq(s.disk[o.location].lines, 1, n))

RunPlaylist(s, playlist, n) ==
    IF s.conf.common /\ n > 0 THEN ParsePlaylist(s, loadObject(s.rows, playlist), n) ELSE Throws(s)

\* A playlist that cannot be opened leaves the line allocated, so that the
\* parser takes every later one for a recursion.
processPlaylistObject(s, id, n) ==
    IF s.stuck THEN Throws(s)
    ELSE IF ~s.disk[s.rows[id].location].readable THEN [Throws(s) EXCEPT !.stuck = TRUE]
    ELSE RunPlaylist(s, id, n)

\* The file with this ID has been added or found: its layout has run.
ThenPlaylist(s, n) ==
    IF s.ok /\ s.id # Invalid /\ IsPlaylist(s.rows[s.id]) /\ Layout(s.conf) # "none"
    THEN processPlaylistObject(s, s.id, n) ELSE s

-----------------------------------------------------------------------------
Start == [rows |-> rows, disk |-> disk, conf |-> conf, arranged |-> arranged, stuck |-> stuck,
          ok |-> TRUE, last |-> Invalid, id |-> Invalid, ref |-> Invalid]

Ends(s) == rows' = s.rows /\ stuck' = s.stuck /\ arranged' = s.arranged

Skipped(location, hidden) == location = ConfigFile \/ (~hidden /\ location \in Hidden)

Within(dir, location) == Len(location) > Len(dir) /\ SubSeq(location, 1, Len(dir)) = dir
Entries(dir) == {SubSeq(f, 1, Len(dir) + 1) : f \in {g \in DOMAIN disk : Within(dir, g)}}

\* A directory that addRecursive() is in; known says whether it is in the
\* database, so that its files may be, too.
Frame(dir, root, hidden) ==
    [dir |-> dir, left |-> Entries(dir), root |-> root, hidden |-> hidden,
     known |-> ContainerAt(rows, dir, FALSE) > 0]

\* How many lines of a playlist are read: less if the task is cancelled.
LinesOf(location) ==
    IF location \in DOMAIN disk THEN 0 .. Len(disk[location].lines) ELSE {0}
AllLines(location, n) == location \in DOMAIN disk => n = Len(disk[location].lines)

Idle == task = << >>

\* ContentManager::_addFile(), run by a task of its own.  Nothing is added if
\* the playlist script cannot be loaded.
AddFile(path, hidden) ==
    LET runs == ~Skipped(path, hidden) /\ conf.playlists
        new == findObjectIDByPath(rows, path) = Invalid
    IN  /\ Idle /\ tasks < MaxTasks /\ tasks' = tasks + 1
        /\ IF runs /\ path \notin DOMAIN disk /\ Entries(path) # {}
           THEN /\ task' = << Frame(path, path, hidden) >> /\ valid' = TRUE
                /\ UNCHANGED << rows, stuck, arranged >>
           ELSE \E n \in LinesOf(path) :
                   /\ Ends(IF runs /\ new THEN ThenPlaylist(AddNew(Start, path, << >>), n) ELSE Start)
                   /\ UNCHANGED << task, valid >>
        /\ UNCHANGED << disk, conf, events >>

\* One round of the loop of addRecursive() with a file: also a file that is
\* known goes through the layout.  An exception skips it.
AddChild ==
    /\ ~Idle /\ valid
    /\ LET f == Head(task)
       IN  \E location \in f.left \cap DOMAIN disk : \E n \in LinesOf(location) :
              LET known == IF f.known THEN findObjectIDByPath(rows, location) ELSE Invalid
                  skipped == Skipped(location, f.hidden)
              IN  /\ Ends(IF skipped THEN Start
                          ELSE ThenPlaylist(IF known # Invalid THEN Arrange([Start EXCEPT !.id = known], f.root)
                                            ELSE AddNew(Start, location, f.root), n))
                  /\ task' = << [f EXCEPT !.left = @ \ {location},
                                          !.known = @ \/ DOMAIN rows' # DOMAIN rows] >> \o Tail(task)
                  /\ valid' = AllLines(location, n)
    /\ UNCHANGED << disk, conf, tasks, events >>

\* The same with a directory, or with a file that is gone by now.
EnterChild ==
    /\ ~Idle /\ valid
    /\ LET f == Head(task)
       IN  \E dir \in f.left \ DOMAIN disk :
              LET rest == << [f EXCEPT !.left = @ \ {dir}] >> \o Tail(task)
              IN  task' = IF Skipped(dir, f.hidden) \/ Entries(dir) = {} THEN rest
                          ELSE << Frame(dir, f.root, f.hidden) >> \o rest
    /\ UNCHANGED << rows, disk, conf, valid, stuck, arranged, tasks, events >>

LeaveDirectory ==
    /\ ~Idle /\ (~valid \/ Head(task).left = {})
    /\ task' = Tail(task)
    /\ UNCHANGED << rows, disk, conf, valid, stuck, arranged, tasks, events >>

invalidateTask ==
    /\ ~Idle /\ valid /\ valid' = FALSE
    /\ UNCHANGED << rows, disk, conf, task, stuck, arranged, tasks, events >>

\* A video of an online service that is not known yet goes to the layout, and
\* nowhere else.
AddVideo ==
    /\ events < MaxEvents /\ events' = events + 1
    /\ \E o \in Videos :
          /\ \A id \in DOMAIN rows : rows[id].service # o.service
          /\ Ends(IF Layout(conf) = "none" THEN Start ELSE processCdsObject(Start, o, << >>))
    /\ UNCHANGED << disk, conf, task, valid, tasks >>

ChangeDisk ==
    /\ events < MaxEvents /\ events' = events + 1
    /\ disk' \in Disks \ {disk}
    /\ UNCHANGED << rows, conf, task, valid, stuck, arranged, tasks >>

\* The server ends in the middle of a task, and starts with other settings.
Restart ==
    /\ events < MaxEvents /\ events' = events + 1
    /\ conf' \in Configs
    /\ task' = << >> /\ valid' = TRUE /\ stuck' = FALSE
    /\ UNCHANGED << rows, disk, arranged, tasks >>

Init ==
    /\ rows = [id \in {Root, FsRoot} |->
                  [NewObject("container") EXCEPT !.parent = IF id = Root THEN Invalid ELSE Root,
                                                 !.title = << id >>]]
    /\ disk \in Disks /\ conf \in Configs
    /\ task = << >> /\ valid = TRUE /\ stuck = FALSE
    /\ arranged = {} /\ tasks = 0 /\ events = 0

Next ==
    \/ \E path \in Paths, hidden \in BOOLEAN : AddFile(path, hidden)
    \/ AddChild
    \/ EnterChild
    \/ LeaveDirectory
    \/ invalidateTask
    \/ AddVideo
    \/ ChangeDisk
    \/ Restart

Spec == Init /\ [][Next]_vars

-----------------------------------------------------------------------------
(* Properties.                                                             *)

Files == UNION {DOMAIN d : d \in Disks}

\* Type correctness of the rows and of the task.
TypeOK ==
    /\ \A id \in DOMAIN rows :
          /\ rows[id].type \in {"container", "item", "external"}
          /\ id > Root => rows[id].parent \in DOMAIN rows /\ ~IsItem(rows[rows[id].parent])
          /\ rows[id].ref # Invalid => rows[id].ref \in DOMAIN rows
    /\ disk \in Disks /\ conf \in Configs
    /\ \A k \in DOMAIN task : task[k].left \subseteq Entries(task[k].dir) \cup Files
    /\ valid \in BOOLEAN /\ stuck \in BOOLEAN /\ arranged \subseteq DOMAIN rows
    /\ tasks \in 0 .. MaxTasks /\ events \in 0 .. MaxEvents

\* The containers outside the directories that a song, a video or a picture
\* belongs to.
Belongs(o) ==
    LET artist == Or(Tag(o, "artist"), "Unknown")
        album == Or(Tag(o, "album"), "Unknown")
        date == Tag(o, "date")
    IN  IF IsSong(o)
        THEN {<< "Audio" >> \o p : p \in {
                 << "All Audio" >>, << "All - full name" >>, << "Albums", album >>,
                 << "Artists", artist, "All Songs" >>, << "Artists", artist, "All - full name" >>,
                 << "Artists", artist, album >>, << "Genres", Or(Tag(o, "genre"), "Unknown") >>,
                 << "Year", IF Has(date) THEN Dates[date].year ELSE "Unknown" >>}}
        ELSE IF o.mime = "image"
        THEN {<< "Photos" >> \o p : p \in {<< "All Photos" >>}
                 \cup (IF Has(date) THEN {<< "Date", date >>} ELSE {})
                 \cup (IF Has(date) /\ Dates[date].month # ""
                       THEN {<< "Year", Dates[date].year, Dates[date].month >>} ELSE {})}
        ELSE IF o.mime \in {"video", "ogg"} THEN {<< "Video", "All Video" >>} ELSE {}

LinksTo(id) == {l \in DOMAIN rows : rows[l].type = "item" /\ rows[l].ref = id}
PathOf(l) == rows[rows[l].parent].location
ByLayout(l) == Head(PathOf(l)) # "Playlists"
ByDirectory(l) == PathOf(l)[2] = "Directories"

\* An item that has been through a layout has one link in each container that
\* it belongs to, and no other link but those by its directory, one in each
\* container, however often and from wherever the file is added again, also
\* after a cancelled task or a restart with the other layout
\* (FallbackLayout::processCdsObject(), import.js, the check for duplicates of
\* SQLStorage::_addUpdateObject()).
InItsPlaces ==
    \A id \in DOMAIN rows : rows[id].type = "item" /\ rows[id].ref = Invalid =>
        LET links == {l \in LinksTo(id) : ByLayout(l)}
            at == {PathOf(l) : l \in links}
        IN  /\ Cardinality(at) = Cardinality(links)
            /\ {PathOf(l) : l \in {k \in links : ~ByDirectory(k)}} \subseteq Belongs(rows[id])
            /\ id \in arranged => Belongs(rows[id]) \subseteq at

\* A file is one item, and what refers to an item refers to that one.
OneItemPerFile ==
    \A id \in DOMAIN rows : rows[id].type = "item" =>
        IF rows[id].ref = Invalid
        THEN \A other \in DOMAIN rows \ {id} : rows[other].type = "item" /\ rows[other].ref = Invalid =>
                rows[other].location # rows[id].location
        ELSE rows[rows[id].ref].type = "item" /\ rows[rows[id].ref].ref = Invalid

\* Not so in the code: a stream that a playlist lists is one item in each of
\* the containers of the playlist; it is added anew whenever the directory is.
StreamsAreSingle ==
    \A a \in DOMAIN rows : \A b \in DOMAIN rows \ {a} :
        rows[a].type = "external" /\ rows[b].type = "external" /\ ~rows[a].online =>
            rows[a].parent # rows[b].parent \/ rows[a].title # rows[b].title

\* Not so in the code: between two tasks the playlist parser is free (the early
\* exit of PlaylistParserScript::processPlaylistObject()).
ParserIsFree == Idle => ~stuck

\* Not so in the code: a link shows the tags of its file (a link from a
\* playlist has nothing but a description).
LinksShowTags ==
    \A l \in DOMAIN rows : rows[l].type = "item" /\ rows[l].ref # Invalid /\ rows[l].meta # NoTags =>
        DOMAIN rows[rows[l].ref].meta \subseteq DOMAIN rows[l].meta

\* Not so in the code: each item has been through the layout once no task runs
\* (the import script fails for a video or picture that is added by itself).
EachIsArranged ==
    Idle /\ valid => \A id \in DOMAIN rows : rows[id].type = "item" /\ rows[id].ref = Invalid => id \in arranged
=============================================================================

---------------------------- MODULE ObjectEditing ----------------------------
(***************************************************************************)
(* The objects of the database, and the pages of the web interface that    *)
(* show, add and edit them (web/*.cc, content_manager.cc, cds_objects.cc,  *)
(* the rows of sql_storage.cc).                                            *)
(*                                                                         *)
(* An item below a virtual container is a link to the item of the file: in *)
(* its row, a column is NULL where the link agrees with the object it      *)
(* refers to, and a query fills it in from there.  loadObject() answers    *)
(* from the cache of objects, the pages that list read the rows.           *)
(***************************************************************************)
EXTENDS Integers, SequencesExt

CONSTANTS
    Texts,       \* what a field may hold
    Files,       \* files that exist, all of them in one directory
    HttpLinks,   \* addresses that begin with http://
    Additions,   \* requests that add an object
    Edits,       \* parameters of a request that edits one
    Protocols,   \* of a resource; the first of them is http-get
    OnlineObjects, \* the rows of an online service, and a link to one of them
    MaxID,       \* bound: rows of the table, and the IDs that are asked for
    MaxChanges,  \* bound: requests that add or edit
    MaxPages,    \* bound: requests that only show something, before the last change
    CacheOn,     \* the option storage caching
    Null         \* NULL of the database, and a parameter that is not there

VARIABLES
    rows,        \* cds_object and cds_active_item: a function on the IDs
    cache,       \* the objects of the storage cache
    up,          \* the server runs
    request,     \* the last request: its page, object and parameters
    answer,      \* "success", or the class of the error
    listed,      \* what the last page that lists objects has shown
    told,        \* the containers reported by the last request
    pages,       \* pages shown so far
    changes      \* requests so far that add or edit

vars == << rows, cache, up, request, answer, listed, told, pages, changes >>

Types == {"container", "item", "active", "external", "internal"}
OrNull == Texts \cup {Null}
Metas == [desc : Texts, other : BOOLEAN]
Infos == [protocol : Texts, mime : Texts]

Root == 0
FsRoot == 1
Invalid == -1

IsContainer(o) == o.type = "container"
IsItem(o) == ~IsContainer(o)
IsPure(o) == o.type = "item"
IsURL(o) == o.type \in {"external", "internal"}

StringOK(s) == s \notin {Null, ""}
Given(s, old) == IF StringOK(s) THEN s ELSE old
fallbackString(s, other) == IF s = Null THEN other ELSE s

NoMeta == [desc |-> "", other |-> FALSE]
ProtocolInfo(mime, protocol) == [protocol |-> protocol, mime |-> mime]
HttpGet == Protocols[1]

\* A new object: the constructors of CdsObject and of its descendants.
createObject(type) ==
    [id |-> Invalid, type |-> type, ref |-> 0, parent |-> Invalid, title |-> "", class |-> type,
     meta |-> NoMeta, res |-> << >>, location |-> "", mime |-> "octet", action |-> "",
     state |-> "", virt |-> FALSE, online |-> FALSE, useRef |-> FALSE]

\* The requests are texts, and the rows that are there at the beginning are
\* as an online service leaves them: whole objects, and links to them.
\* What the constants are, ASSUMEd where they have values.
EditingAssumption ==
    /\ {"", "octet", "file"} \subseteq Texts /\ Files \subseteq Texts
    /\ Protocols \in Seq(Texts) /\ Protocols # << >>
    /\ Null \notin Metas /\ Null \notin Seq(Infos)
    /\ \A p \in Additions :
          /\ p.type \in Types /\ p.parent \in Int
          /\ {p.title, p.class, p.location, p.desc, p.mime, p.protocol, p.action, p.state} \subseteq OrNull
    /\ \A p \in Edits :
          {p.title, p.class, p.location, p.desc, p.mime, p.protocol, p.action, p.state} \subseteq OrNull
    /\ MaxID \in Nat /\ DOMAIN OnlineObjects \subseteq 2 .. MaxID
    /\ \A id \in DOMAIN OnlineObjects :
          LET o == OnlineObjects[id]
          IN  /\ o.id = id /\ o.type \in Types /\ o.useRef = FALSE
              /\ DOMAIN o = DOMAIN createObject(o.type)
              /\ o.mime \in Texts
              /\ o.type = "container" => o.location \in Seq(Texts)
              /\ IF o.ref = 0
                 THEN o.type # "container" => o.meta \in Metas \cup {Null} /\ o.res \in Seq(Infos) \ {<< >>}
                 ELSE /\ o.type # "container"
                      /\ o.ref \in DOMAIN OnlineObjects /\ OnlineObjects[o.ref].ref = 0
                      /\ OnlineObjects[o.ref].type # "container"
                      /\ o.meta \in Metas \cup {Null} /\ o.res \in Seq(Infos) \cup {Null}

-----------------------------------------------------------------------------
(* Reading.  The row of the object a link refers to is joined as it is:    *)
(* its own NULLs are not filled in.                                        *)

FromRow(r, id) ==
    LET row == r[id]
        ref == IF row.ref \in DOMAIN r /\ row.ref > 0 THEN r[row.ref] ELSE row
    IN  [row EXCEPT !.class = fallbackString(@, ref.class),
                    !.meta = IF @ = Null THEN (IF ref.meta = Null THEN NoMeta ELSE ref.meta) ELSE @,
                    !.res = IF IsContainer(row) THEN << >> ELSE IF @ = Null THEN ref.res ELSE @,
                    !.location = fallbackString(@, ref.location),
                    !.virt = IF IsContainer(row) THEN @ ELSE ~IsPure(row) \/ row.ref > 0]

Put(c, o) == IF CacheOn THEN [i \in DOMAIN c \cup {o.id} |-> IF i = o.id THEN o ELSE c[i]] ELSE c

loadObject(r, c, id) == IF id \in DOMAIN c THEN c[id] ELSE FromRow(r, id)

findObjectIDByPath(r, location) ==
    LET found == {id \in DOMAIN r : IsPure(r[id]) /\ r[id].ref = 0 /\ r[id].location = location}
    IN  IF found = {} THEN Invalid ELSE CHOOSE id \in found : TRUE

-----------------------------------------------------------------------------
(* Writing.  s is what a request works on: the rows, the cache, the        *)
(* containers to report, and the error that ended it, if any.              *)

Throws(s, error) == [s EXCEPT !.answer = error]
Going(s) == s.answer = "success"

Report(s, upnp, ui) == [s EXCEPT !.upnp = @ \cup (upnp \ {Invalid}), !.ui = @ \cup (ui \ {Invalid})]

\* The object that o refers to: 0 if it has none, Invalid if it should.
checkRefID(s, o) ==
    IF IsPure(o) /\ o.virt
    THEN IF o.ref > 0 /\ loadObject(s.rows, s.cache, o.ref).location = o.location
         THEN o.ref
         ELSE findObjectIDByPath(s.rows, o.location)
    ELSE IF o.ref > 0 /\ ~o.online /\ IsItem(o) THEN Invalid
    ELSE IF o.online THEN o.ref ELSE 0

\* Mutant of ClassColumn: the column is left alone where nothing differs.
ClassColumnKept(o, ref, old) == IF ref.id > 0 /\ ref.class = o.class THEN old ELSE o.class

\* A column of a link that agrees with what it refers to.
ClassColumn(o, ref, old) == IF ref.id > 0 /\ ref.class = o.class THEN Null ELSE o.class

NoRef == [createObject("item") EXCEPT !.id = 0]

Columns(s, o, refID) ==
    LET ref == IF refID > 0 THEN loadObject(s.rows, s.cache, refID) ELSE NoRef
        linked == refID > 0
        old == IF o.id \in DOMAIN s.rows THEN s.rows[o.id].class ELSE Null
    IN  [o EXCEPT !.ref = refID,
                  !.class = ClassColumn(o, ref, old),
                  !.meta = IF @ = NoMeta \/ (linked /\ ref.meta = @) THEN Null ELSE @,
                  !.res = IF (linked /\ (o.useRef \/ ref.res = @)) \/ @ = << >> THEN Null ELSE @,
                  !.location = IF linked THEN Null ELSE @,
                  !.useRef = FALSE]

-----------------------------------------------------------------------------
getNextID(r) == Max(DOMAIN r) + 1

NewRow(r, row) == LET id == getNextID(r)
                  IN  [i \in DOMAIN r \cup {id} |-> IF i = id THEN [row EXCEPT !.id = id] ELSE r[i]]

createContainer(r, parent, title, location, virt, class) ==
    NewRow(r, [createObject("container") EXCEPT
                  !.parent = parent, !.title = title, !.location = location, !.virt = virt,
                  !.class = IF StringOK(class) THEN class ELSE "container"])

Container(r, location, virt) ==
    LET found == {id \in DOMAIN r : /\ IsContainer(r[id]) /\ id > FsRoot
                                    /\ r[id].virt = virt /\ r[id].location = location}
    IN  IF found = {} THEN Invalid ELSE CHOOSE id \in found : TRUE

\* The directory of the files.
Directory == << "files" >>

ensurePathExistence(s) ==
    IF Container(s.rows, Directory, FALSE) # Invalid THEN s
    ELSE Report([s EXCEPT !.rows = createContainer(@, FsRoot, "files", Directory, FALSE, Null)],
                {FsRoot}, {FsRoot})

\* The virtual container at a path, created with those above it; the parent
\* of the first one created is reported.
AddContainer(s, t, at, class) ==
    LET parent == IF Len(at) = 1 THEN Root ELSE Container(t.rows, Front(at), TRUE)
        added == [t EXCEPT !.rows = createContainer(@, parent, Last(at), at, TRUE, class)]
    IN  IF Container(t.rows, at, TRUE) # Invalid THEN t
        ELSE IF t.rows = s.rows THEN Report(added, {parent}, {parent}) ELSE added

addContainerChain(s, path, class) ==
    LET below[k \in 0 .. Len(path)] ==
            IF k = 0 THEN s
            ELSE AddContainer(s, below[k - 1], SubSeq(path, 1, k), IF k = Len(path) THEN class ELSE Null)
    IN  below[Len(path)]

-----------------------------------------------------------------------------
(* What validate() asks of an object before it is written.                 *)
ItemValid(o) == StringOK(o.mime) /\ StringOK(o.location) /\ o.location \in Files
ActiveValid(o) == ItemValid(o) /\ o.action \in Files
ExternalValid(o) == StringOK(o.mime) /\ StringOK(o.location)
InternalValid(o) == ExternalValid(o) /\ o.location \notin HttpLinks

validate(o) ==
    /\ StringOK(o.title) /\ StringOK(o.class)
    /\ CASE o.type = "item" -> ItemValid(o)
         [] o.type = "active" -> ActiveValid(o)
         [] o.type = "external" -> ExternalValid(o)
         [] o.type = "internal" -> InternalValid(o)
         [] OTHER -> TRUE

\* SQLStorage::updateObject().
updateRow(s, o) ==
    LET refID == checkRefID(s, o)
    IN  IF o.id = FsRoot
        THEN [s EXCEPT !.rows[FsRoot].title = o.title, !.rows[FsRoot].class = o.class, !.cache = Put(@, o)]
        ELSE IF o.id < FsRoot \/ refID = Invalid \/ (IsContainer(o) /\ ~o.virt)
        THEN Throws(s, "error")
        ELSE [s EXCEPT !.rows[o.id] = Columns(s, o, refID), !.cache = Put(@, o)]

equals(o, copy) == o = copy

\* The end of each branch of updateObject(): a changed copy is written.
SaveChanged(s, o, copy) ==
    IF equals(o, copy) \/ ~Going(s) THEN s
    ELSE IF ~validate(copy) THEN Throws(s, "error")
    ELSE LET written == updateRow(s, copy)
         IN  IF Going(written)
             THEN Report(written, {o.parent}, IF IsContainer(o) THEN {o.parent} ELSE {})
             ELSE written

Titled(o, p) == [o EXCEPT !.title = Given(p.title, @), !.class = Given(p.class, @)]
Described(o, p) == [o EXCEPT !.meta.desc = Given(p.desc, "")]

\* The first resource of an item follows its type and its protocol.
Typed(p) == StringOK(p.mime) \/ StringOK(p.protocol)
EditedResources(o, p) ==
    IF Typed(p)
    THEN [o.res EXCEPT ![1] = ProtocolInfo(Given(p.mime, o.mime), Given(p.protocol, o.res[1].protocol))]
    ELSE o.res

EditedItem(o, p) ==
    [Described(Titled(o, p), p) EXCEPT !.location = Given(p.location, @),
                                       !.mime = Given(p.mime, @),
                                       !.res = EditedResources(o, p)]

EditedActive(o, p) ==
    [Described(Titled(o, p), p) EXCEPT !.state = IF p.state = Null THEN @ ELSE p.state,
                                       !.mime = Given(p.mime, @),
                                       !.action = Given(p.action, @)]

\* The first resource of an object without any is a null pointer.
Crashes(o, p) == IsItem(o) /\ Typed(p) /\ o.res = << >>

\* ContentManager::updateObject(): an active item goes through two branches,
\* both of which start from the object as it was loaded.
updateObject(s, o, p) ==
    IF IsContainer(o) THEN SaveChanged(s, o, Titled(o, p))
    ELSE LET item == SaveChanged(s, o, EditedItem(o, p))
         IN  IF o.type = "active" THEN SaveChanged(item, o, EditedActive(o, p)) ELSE item

-----------------------------------------------------------------------------
(* Adding.                                                                 *)

Children(r, parent) == {id \in DOMAIN r : r[id].parent = parent /\ id # parent}

\* SQLStorage::addObject(): a second link with the same title below the same
\* container is dropped without a word.
insertRow(s, o) ==
    LET real == IsPure(o) /\ ~o.virt
        t == IF real THEN ensurePathExistence(s) ELSE s
        placed == IF real THEN [o EXCEPT !.parent = Container(t.rows, Directory, FALSE)] ELSE o
        refID == checkRefID(s, o)
        twin == \E id \in DOMAIN s.rows : /\ s.rows[id].parent = o.parent
                                          /\ s.rows[id].ref = refID /\ s.rows[id].title = o.title
    IN  IF refID = Invalid \/ (o.parent = Invalid /\ ~real) THEN Throws(s, "error")
        ELSE IF refID > 0 /\ twin THEN s
        ELSE LET id == getNextID(t.rows)
             IN  [t EXCEPT !.rows = NewRow(@, Columns(s, placed, refID)),
                           !.cache = Put(@, [placed EXCEPT !.id = id, !.useRef = FALSE])]

\* ContentManager::addObject(): a first child changes its grandparent too.
addObject(s, o) ==
    LET t == insertRow(s, o)
        parent == IF t.rows = s.rows \/ o.virt THEN o.parent ELSE Container(t.rows, Directory, FALSE)
        first == Cardinality(Children(t.rows, parent)) = 1
    IN  IF ~Going(s) THEN s
        ELSE IF ~validate(o) THEN Throws(s, "error")
        ELSE IF ~Going(t) THEN t
        ELSE Report(t, {parent} \cup (IF first THEN {t.rows[parent].parent} ELSE {}), {})

\* ContentManager::createObjectFromFile() of a file with a known type.
createObjectFromFile(f) ==
    [createObject("item") EXCEPT !.title = f, !.location = f, !.mime = "file",
                                 !.meta.other = TRUE, !.res = << ProtocolInfo("file", HttpGet) >>]

\* The file itself is added if it is not known yet.
addVirtualItem(s, o) ==
    IF ~validate(o) THEN Throws(s, "error")
    ELSE IF findObjectIDByPath(s.rows, o.location) # Invalid THEN addObject(s, o)
    ELSE LET t == addObject(s, createObjectFromFile(o.location))
         IN  IF Going(t) THEN addObject(t, [o EXCEPT !.ref = findObjectIDByPath(t.rows, o.location)]) ELSE t

\* addItem(), addActiveItem() and addUrl() of the page add_object.
Requested(p) ==
    LET mime == Given(p.mime, "octet")
        o == [createObject(p.type) EXCEPT
                 !.parent = p.parent, !.title = p.title, !.class = p.class, !.virt = TRUE,
                 !.location = p.location, !.mime = mime, !.meta.desc = Given(p.desc, "")]
    IN  CASE p.type = "item" -> [o EXCEPT !.useRef = TRUE]
          [] p.type = "active" -> [o EXCEPT !.action = p.action, !.state = Given(p.state, ""),
                                            !.res = << ProtocolInfo(mime, HttpGet) >>]
          [] p.type = "external" -> [o EXCEPT !.res = << ProtocolInfo(mime, Given(p.protocol, HttpGet)) >>]
          [] p.type = "internal" -> [o EXCEPT !.res = << ProtocolInfo(mime, HttpGet) >>]

\* What the page checks before it builds the object.
Complete(p) ==
    /\ StringOK(p.title) /\ StringOK(p.class)
    /\ p.type # "container" => StringOK(p.location)
    /\ p.type \in {"item", "active"} => p.location \in Files
    /\ p.type = "active" => StringOK(p.action)

\* The path of a container to add; only the root and virtual containers have
\* one.
addContainer(s, p) ==
    IF p.parent = Root THEN addContainerChain(s, << p.title >>, p.class)
    ELSE IF IsContainer(s.rows[p.parent]) /\ s.rows[p.parent].virt
    THEN addContainerChain(s, Append(s.rows[p.parent].location, p.title), p.class)
    ELSE Throws(s, "error")

-----------------------------------------------------------------------------
(* Listing: what SQLStorage::browse() finds, in its order, and the number  *)
(* of matches that getChildCount() counts in a query of its own.           *)

Chosen(r, parent, containers, items) ==
    {id \in Children(r, parent) : IF IsContainer(r[id]) THEN containers ELSE items}

getChildCount(r, parent, containers, items) ==
    IF ~containers /\ ~items THEN 0 ELSE Cardinality(Chosen(r, parent, containers, items))

\* The order of the titles is that of the IDs here.
InOrder(r, ids) == SetToSortSeq(ids, LAMBDA a, b : IF IsContainer(r[a]) # IsContainer(r[b])
                                                   THEN IsContainer(r[a]) ELSE a < b)

\* LIMIT and OFFSET; a count of 0 asks for everything behind start.
Window(list, start, count) ==
    IF count = 0 THEN SubSeq(list, start + 1, Len(list))
    ELSE SubSeq(list, start + 1, IF start + count < Len(list) THEN start + count ELSE Len(list))

browse(r, id, start, count, containers, items) ==
    IF IsContainer(r[id])
    THEN [ids |-> Window(InOrder(r, Chosen(r, id, containers, items)), start, count),
          total |-> getChildCount(r, id, containers, items)]
    ELSE [ids |-> << id >>, total |-> 1]

NothingListed == [ids |-> << >>, total |-> 0]

-----------------------------------------------------------------------------
Start == [rows |-> rows, cache |-> cache, answer |-> "success", upnp |-> {}, ui |-> {}]

\* WebRequestHandler::open(): an exception becomes the error of the answer;
\* what was written before it stays.
Answers(page, id, p, s) ==
    /\ rows' = s.rows /\ cache' = s.cache /\ answer' = s.answer
    /\ told' = [upnp |-> s.upnp, ui |-> s.ui]
    /\ request' = [page |-> page, id |-> id, p |-> p]
    /\ up' = up

\* A page that only shows something; found is what it lists.  It is asked for
\* while a change may follow, which finds what the page put into the cache.
Page(id, found, s) ==
    /\ pages < MaxPages /\ pages' = pages + 1 /\ changes < MaxChanges
    /\ Answers("show", id, Null, s)
    /\ listed' = found
    /\ UNCHANGED changes

\* A request that adds or edits.
Change(page, id, p, s) ==
    /\ Answers(page, id, p, s)
    /\ listed' = NothingListed
    /\ UNCHANGED pages

AddObjectPage(p) ==
    /\ up /\ changes < MaxChanges
    /\ p.parent \in DOMAIN rows /\ Cardinality(DOMAIN rows) + 3 <= MaxID
    /\ Change("add_object", Invalid, p,
               IF ~Complete(p) THEN Throws(Start, "error")
               ELSE IF p.type = "container" THEN addContainer(Start, p)
               ELSE IF p.type = "item" THEN addVirtualItem(Start, Requested(p))
               ELSE addObject(Start, Requested(p)))
    /\ changes' = changes + 1

\* A scan finds a file.
AddFile(f) ==
    /\ up /\ findObjectIDByPath(rows, f) = Invalid /\ Cardinality(DOMAIN rows) + 2 <= MaxID
    /\ LET s == addObject(Start, createObjectFromFile(f))
       IN  Change("add", Invalid, Null, s)
    /\ UNCHANGED changes

\* The fields that the page lets the user edit.
Editable(o) ==
    {"class"} \cup (IF o.virt \/ o.id = FsRoot THEN {"title"} ELSE {})
    \cup (IF IsItem(o) THEN {"desc", "mime"} ELSE {})
    \cup (IF IsItem(o) /\ ~IsPure(o) THEN {"location"} ELSE {})
    \cup (IF IsURL(o) THEN {"protocol"} ELSE {})
    \cup (IF o.type = "active" THEN {"action", "state"} ELSE {})

EditLoadPage(id) ==
    /\ up
    /\ IF id \in DOMAIN rows
       THEN Page(id, NothingListed, [Start EXCEPT !.cache = Put(@, loadObject(rows, cache, id))])
       ELSE Page(id, NothingListed, Throws(Start, "notfound"))

EditSavePage(id, p) ==
    /\ up /\ changes < MaxChanges /\ id \in DOMAIN rows
    /\ LET o == loadObject(rows, cache, id)
           s == [Start EXCEPT !.cache = Put(@, o)]
       IN  IF Crashes(o, p)
           THEN up' = FALSE /\ UNCHANGED << rows, cache, answer, told, request, listed, pages >>
           ELSE Change("edit_save", id, p, updateObject(s, o, p))
    /\ changes' = changes + 1

\* Every object that a page lists is read from its row.
Lists(id, found, c) ==
    LET shown == {k \in DOMAIN rows : \E n \in DOMAIN found.ids : found.ids[n] = k}
    IN  Page(id, found,
             [Start EXCEPT !.cache =
                  IF CacheOn THEN [k \in DOMAIN c \cup shown |-> IF k \in shown THEN FromRow(rows, k) ELSE c[k]]
                  ELSE c])

ContainersPage(id) ==
    /\ up /\ id \in DOMAIN rows
    /\ Lists(id, browse(rows, id, 0, 0, TRUE, FALSE), cache)

ItemsPage(id, start, count) ==
    /\ up /\ id \in DOMAIN rows
    /\ IF start < 0 \/ count < 0 THEN Page(id, NothingListed, Throws(Start, "error"))
       ELSE Lists(id, browse(rows, id, start, count, FALSE, TRUE), Put(cache, loadObject(rows, cache, id)))

\* The cache is full and drops everything.
CacheClears == /\ cache # << >> /\ cache' = << >>
               /\ UNCHANGED << rows, up, request, answer, listed, told, pages, changes >>

InitialRows ==
    [id \in {Root, FsRoot} \cup DOMAIN OnlineObjects |->
        IF id \in DOMAIN OnlineObjects THEN OnlineObjects[id]
        ELSE [createObject("container") EXCEPT !.id = id, !.parent = IF id = Root THEN Invalid ELSE Root,
                                               !.title = IF id = Root THEN "Root" ELSE "PC Directory",
                                               !.location = << >>, !.meta = Null, !.res = Null]]

Init == /\ rows = InitialRows
        /\ cache = << >> /\ up = TRUE /\ changes = 0 /\ pages = 0
        /\ request = [page |-> Null, id |-> Invalid, p |-> Null]
        /\ answer = "success" /\ listed = NothingListed
        /\ told = [upnp |-> {}, ui |-> {}]

Next == \/ \E p \in Additions : AddObjectPage(p)
        \/ \E f \in Files : AddFile(f)
        \/ \E id \in 0 .. MaxID : EditLoadPage(id)
        \/ \E id \in 0 .. MaxID, p \in Edits : EditSavePage(id, p)
        \/ \E id \in 0 .. MaxID : ContainersPage(id)
        \/ \E id \in 0 .. MaxID, start \in -1 .. 1, count \in -1 .. 1 : ItemsPage(id, start, count)
        \/ CacheClears

Spec == Init /\ [][Next]_vars

-----------------------------------------------------------------------------
TypeOK ==
    /\ DOMAIN rows \subseteq 0 .. MaxID /\ DOMAIN cache \subseteq DOMAIN rows
    /\ \A id \in DOMAIN rows : rows[id].id = id /\ rows[id].ref \in DOMAIN rows
    /\ \A id \in DOMAIN cache : cache[id].id = id
    /\ up \in BOOLEAN /\ changes \in 0 .. MaxChanges /\ pages \in 0 .. MaxPages
    /\ answer \in {"success", "error", "notfound"}

Field(o, f) == CASE f = "desc" -> o.meta.desc
                 [] f = "protocol" -> o.res[1].protocol
                 [] OTHER -> o[f]

\* What the page offers and the user fills in is there afterwards, and the
\* rest is as it was; the location of an active item, of which the second
\* branch of updateObject() restores the old value, and that of a link to an
\* online item, which has none of its own, are left out.
AsAsked(o, p, old) ==
    /\ \A f \in Editable(old) :
          /\ StringOK(p[f])
          /\ f = "location" => old.type # "active" /\ old.ref = 0
          => Field(o, f) = p[f]
    /\ \A f \in {"title", "class", "mime", "action", "state"} : p[f] = Null => o[f] = old[f]

\* The cache has a link as it was before the object it refers to was edited.
Outdated(id) ==
    /\ id \in DOMAIN cache /\ rows[id].ref > 0
    /\ \E f \in {"class", "desc", "protocol"} \cap Editable(cache[id]) :
          Field(cache[id], f) # Field(FromRow(rows, id), f)

\* An edit that the page confirms.
Confirmed == request'.page = "edit_save" /\ changes' # changes /\ up' /\ answer' = "success"
TakesEffect ==
    LET id == request'.id IN AsAsked(FromRow(rows', id), request'.p, loadObject(rows, cache, id))

EffectOf(id) ==
    /\ TakesEffect \/ (rows' = rows /\ Outdated(id))
    /\ \A k \in DOMAIN rows \ {id} :
          FromRow(rows', k) # FromRow(rows, k) => rows[k].ref = id /\ rows'[k] = rows[k]
    /\ FromRow(rows', id) # FromRow(rows, id) =>
          loadObject(rows, cache, id).parent \in told'.upnp \cup {Invalid}

\* An edit that the page confirms is what the rows say from then on, for the
\* object itself as it was loaded, and no other object looks different but
\* the links to it, whose own columns say nothing; the container of the
\* object is reported if the object looks different.  Only an edit that makes
\* no difference to an outdated copy of a link is dropped.
\* web::edit_save::process(), ContentManager::updateObject() (content_manager.cc),
\* SQLStorage::_addUpdateObject() and createObjectFromRow() (sql_storage.cc)
EditTakesEffect == [][Confirmed => EffectOf(request'.id)]_vars

\* Not so in the code: every edit that the page confirms takes effect.  A link
\* that is in the cache is not written if the edit asks for what it was like
\* before the object that it refers to was edited.
NoEditIsDropped == [][Confirmed => TakesEffect]_vars

\* What the cache knows of an object is what its row says.  This does not
\* hold: a link stays in the cache as it was when the object it refers to is
\* edited, and a link is cached without the resources it will have.
CacheShowsRows == \A id \in DOMAIN cache : cache[id] = FromRow(rows, id)

\* An item whose description was removed has none.  This does not hold for
\* a link with nothing but the description of the object it refers to.
DescriptionGoes ==
    [][ Confirmed =>
           LET id == request'.id
           IN  IsItem(rows[id]) /\ ~StringOK(request'.p.desc) => FromRow(rows', id).meta.desc = "" ]_vars

\* The server survives every edit.  This does not hold: see Crashes.
Survives == up
=============================================================================

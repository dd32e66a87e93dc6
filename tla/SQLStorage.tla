----------------------------- MODULE SQLStorage -----------------------------
(***************************************************************************)
(* storage/sql_storage.cc: the tree of objects and the table of autoscan   *)
(* directories in the database, without the cache and the insert buffer    *)
(* (StorageCache.tla).                                                     *)
(*                                                                         *)
(* An object is a row with an ID: a directory or a file of the disk, a     *)
(* virtual container, or a reference to a file in a virtual container.     *)
(* Locations are members of small sets.  No operation is a transaction:    *)
(* every SELECT, INSERT or DELETE is a step, and the operations of two     *)
(* threads may interleave when Concurrent is TRUE.  The task thread is the *)
(* only one that removes; the thread of a request adds and updates.        *)
(***************************************************************************)
EXTENDS Integers, Sequences, FiniteSets, FiniteSetsExt

CONSTANTS
  Dirs, Files, Virts,   \* locations of directories, files, virtual containers
  Linked,               \* virtual containers that are created with a refID
  Up,                   \* the location above a location; Top is the uppermost
  Top,
  ScanDirs,             \* directories that may get an autoscan; may hold Top
  ConfigDirs,           \* directories that config.xml may list as autoscan
  Concurrent,           \* a second thread adds while the first one works
  MaxID, MaxScans       \* bounds on object IDs and autoscan IDs

ASSUME SQLStorageAssumption ==
  /\ Linked \subseteq Virts
  /\ Dirs \intersect Files = {} /\ (Dirs \union Files) \intersect Virts = {}
  /\ Top \notin Dirs \union Files \union Virts
  /\ Up \in [Dirs \union Files \union Virts -> Dirs \union Virts \union {Top}]
  /\ \A l \in Dirs \union Files : Up[l] \in Dirs \union {Top}
  /\ \A v \in Virts : Up[v] \in Virts \union {Top}
  /\ ScanDirs \subseteq Dirs \union {Top} /\ ConfigDirs \subseteq ScanDirs
  /\ Concurrent \in BOOLEAN
  /\ MaxID \in Nat \ {0} /\ MaxScans \in Nat

VARIABLES
  row,                  \* cds_object: ID -> row
  lastID,
  scan,                 \* autoscan: ID -> row
  call,                 \* the calls that ensure a path and then add
  rm,                   \* the removal in progress
  cut,                  \* history: containers deleted as references
  owed,                 \* history: containers whose children changed in a call
  told                  \* history: containers reported by the call

vars == <<row, lastID, scan, call, rm, cut, owed, told>>

CDS_ID_ROOT    == 0
CDS_ID_FS_ROOT == 1
None           == -1                    \* NULL and INVALID_OBJECT_ID
Threads        == IF Concurrent THEN {"task", "http"} ELSE {"task"}
Roots          == {CDS_ID_ROOT, CDS_ID_FS_ROOT}

Container(i) == row[i].kind \in {"dir", "virt"}
Children(S)  == {i \in DOMAIN row : row[i].parent \in S}
RefsTo(S)    == {i \in DOMAIN row : row[i].ref \in S}
Parents(S)   == {row[i].parent : i \in S \intersect DOMAIN row}

(* What is reached from S along the pairs of a finite relation.            *)
Grown(R, S) == S \union {p[2] : p \in {q \in R : q[1] \in S}}
Reach(R, S) ==
  LET level[n \in 0..Cardinality(R)] == IF n = 0 THEN S ELSE Grown(R, level[n - 1])
  IN level[Cardinality(R)]

(* A persistent row outlives purging; the roots are created like that.     *)
NewRow(parent, kind, path, ref) ==
  [parent |-> parent, kind |-> kind, path |-> path, ref |-> ref, keep |-> FALSE]
RootRow(parent, kind) == [NewRow(parent, kind, Top, None) EXCEPT !.keep = TRUE]

(* A table with one more row.                                              *)
Inserted(table, id, new) ==
  [i \in DOMAIN table \union {id} |-> IF i = id THEN new ELSE table[i]]

NoCall == [op |-> "none"]
Nobody == [upnp |-> {}, ui |-> {}]
NoRemoval ==
  [phase |-> "idle", all |-> FALSE, items |-> {}, conts |-> {}, parents |-> {},
   del |-> {}, upnp |-> {}, ui |-> {}, ret |-> Nobody, due |-> {}, rest |-> {},
   mixed |-> {}]

Init ==
  /\ row = [i \in Roots |-> IF i = CDS_ID_ROOT THEN RootRow(None, "virt")
                            ELSE RootRow(CDS_ID_ROOT, "dir")]
  /\ lastID = CDS_ID_FS_ROOT
  /\ scan = <<>>
  /\ call = [t \in Threads |-> NoCall]
  /\ rm = NoRemoval
  /\ cut = {} /\ owed = Nobody /\ told = Nobody

Idle(t) == call[t].op = "none" /\ (t = "task" => rm.phase \in {"idle", "returned"})

(* A thread may begin a call: without concurrency, when nobody works.      *)
MayBegin(t) == Idle(t) /\ (Concurrent \/ \A u \in Threads : Idle(u))

(* Every call starts its own account of changed containers.                *)
Begin(t, op, goal, arg, link) ==
  /\ MayBegin(t)
  /\ call' = [call EXCEPT ![t] =
       [op |-> op, goal |-> goal, arg |-> arg, link |-> link, look |-> goal,
        down |-> <<>>, at |-> None, changed |-> None, last |-> lastID]]
  /\ rm' = IF t = "task" THEN NoRemoval ELSE rm
  /\ owed' = Nobody /\ told' = Nobody
  /\ UNCHANGED <<row, lastID, scan, cut>>

(***************************************************************************)
(* ensurePathExistence() and addContainerChain(): look for the container,  *)
(* then for the one above it, until one is found; then create downwards.   *)
(***************************************************************************)
FindContainer(p) ==
  {i \in DOMAIN row : row[i].path = p /\ Container(i)
                      /\ (row[i].kind = "dir" => row[i].ref = None)}
FindFile(f) == {i \in DOMAIN row : row[i].kind = "file" /\ row[i].path = f}

RootOf(goal) == IF goal \in Virts THEN CDS_ID_ROOT ELSE CDS_ID_FS_ROOT

LookUp(t) ==
  LET c == call[t] IN
  /\ c.op # "none" /\ c.at = None
  /\ \/ /\ c.look = Top
        /\ call' = [call EXCEPT ![t].at = RootOf(c.goal)]
     \/ /\ c.look # Top
        /\ \E i \in FindContainer(c.look) : call' = [call EXCEPT ![t].at = i]
     \/ /\ c.look # Top
        /\ FindContainer(c.look) = {}
        /\ call' = [call EXCEPT ![t].look = Up[c.look], ![t].down = <<c.look>> \o @]
  /\ UNCHANGED <<row, lastID, scan, rm, cut, owed, told>>

(* Only the last container of a chain gets the ID of the object it stands   *)
(* for.  That object exists: loadObject() would throw, but only the thread  *)
(* that makes such links removes objects.                                  *)
Links(c) == c.op = "ref" /\ Len(c.down) = 1 /\ Head(c.down) \in Linked

createContainer(t) ==
  LET c == call[t]
      p == Head(c.down) IN
  /\ c.op # "none" /\ c.at # None /\ c.down # <<>>
  /\ lastID < MaxID
  /\ Links(c) => c.link \in DOMAIN row
  /\ row' = Inserted(row, lastID + 1, NewRow(c.at, IF p \in Virts THEN "virt" ELSE "dir", p,
                                            IF Links(c) THEN c.link ELSE None))
  /\ lastID' = lastID + 1
  /\ call' = [call EXCEPT ![t].down = Tail(@), ![t].at = lastID + 1,
                          ![t].changed = IF @ = None THEN c.at ELSE @]
  /\ owed' = LET old == {c.at} \intersect (0..c.last) IN
             [upnp |-> owed.upnp \union old, ui |-> owed.ui \union old]
  /\ UNCHANGED <<scan, rm, cut, told>>

(* The path exists now; the callers in content_manager.cc report what was  *)
(* created and the container the object is in.                             *)
Ensured(t, op) == call[t].op = op /\ call[t].at # None /\ call[t].down = <<>>

Return(t) ==
  /\ call' = [call EXCEPT ![t] = NoCall]
  /\ told' = [upnp |-> {call[t].changed, call[t].at}, ui |-> {call[t].changed}]
  /\ UNCHANGED <<rm, cut>>

Insert(t, kind, path, ref) ==
  /\ lastID < MaxID
  /\ lastID' = lastID + 1
  /\ row' = Inserted(row, lastID + 1, NewRow(call[t].at, kind, path, ref))
  /\ owed' = [owed EXCEPT !.upnp = @ \union {call[t].at}]

(***************************************************************************)
(* addObject(), updateObject() and addContainerChain()                     *)
(***************************************************************************)
BeginAddFile(t) == \E f \in Files : FindFile(f) = {} /\ Begin(t, "file", Up[f], f, None)

AddFile(t) ==
  /\ Ensured(t, "file")
  /\ Insert(t, "file", call[t].arg, None)
  /\ Return(t)
  /\ UNCHANGED scan

(* A layout makes a chain of containers and adds a reference to a file.    *)
BeginAddRef(t) ==
  \E v \in Virts, i \in DOMAIN row, l \in DOMAIN row \union {None} :
    /\ row[i].kind = "file"
    /\ IF v \in Linked THEN l # None /\ ~Container(l) ELSE l = None
    /\ Begin(t, "ref", v, i, l)

(* checkRefID() throws when the file is gone; a second reference to the    *)
(* same file in the same container is ignored.                             *)
AddRef(t) ==
  LET c == call[t]
      same == {i \in DOMAIN row : row[i].parent = c.at /\ row[i].ref = c.arg
                                  /\ row[i].kind = "ref"} IN
  /\ Ensured(t, "ref")
  /\ IF c.arg \in DOMAIN row /\ same = {}
     THEN Insert(t, "ref", row[c.arg].path, c.arg)
     ELSE UNCHANGED <<row, lastID, owed>>
  /\ Return(t)
  /\ UNCHANGED scan

BeginAddChain(t) == \E v \in Virts \ Linked : Begin(t, "cont", v, None, None)
AddChain(t) == Ensured(t, "cont") /\ Return(t) /\ UNCHANGED <<row, lastID, scan, owed>>

(* An update makes sure that the directory of the file is there.           *)
BeginUpdate(t) ==
  \E i \in DOMAIN row : row[i].kind = "file" /\ Begin(t, "update", Up[row[i].path], i, None)

UpdateObject(t) ==
  LET c == call[t] IN
  /\ Ensured(t, "update")
  /\ row' = IF c.arg \in DOMAIN row THEN [row EXCEPT ![c.arg].parent = c.at] ELSE row
  /\ Return(t)
  /\ UNCHANGED <<lastID, scan, owed>>

(***************************************************************************)
(* removeObject() and removeObjects(): _recursiveRemove() collects by      *)
(* levels, _removeObjects() deletes.                                       *)
(***************************************************************************)
BelowIn(table, S) == Reach({<<table[i].parent, i>> : i \in DOMAIN table}, S)
Below(S) == BelowIn(row, S)

(* What storage.h says is removed: the objects, what is below containers,  *)
(* with "all" the files that are referred to, and references to all these. *)
DueIn(table, asked, all) ==
  LET below == BelowIn(table, asked)
      refs  == {i \in below : i \in DOMAIN table /\ table[i].kind = "ref"}
      main  == IF all THEN {table[i].ref : i \in refs} ELSE {}
      files == {i \in below \union main : i \in DOMAIN table /\ table[i].kind = "file"}
  IN below \union main \union {i \in DOMAIN table : table[i].ref \in files}
Due(asked, all) == DueIn(row, asked, all)

BeginRemoval(asked, all, items, conts) ==
  /\ MayBegin("task")
  /\ rm' = [NoRemoval EXCEPT
       !.phase = "parents", !.all = all, !.items = items, !.conts = conts,
       !.del = conts,
       !.parents = IF conts = {} THEN items ELSE {},
       !.ui = IF conts = {} THEN {} ELSE Parents(items \union conts),
       !.due = Due(asked, all),
       !.rest = {i \in DOMAIN row : ~Container(i)} \ Due(asked, all),
       !.mixed = IF conts = {} THEN {} ELSE items]
  /\ owed' = Nobody /\ told' = Nobody
  /\ UNCHANGED <<row, lastID, scan, call, cut>>

removeObject ==
  \E i \in DOMAIN row \ Roots, all \in BOOLEAN :
    IF Container(i) THEN BeginRemoval({i}, all, {}, {i})
    ELSE BeginRemoval({i}, all, {IF all /\ row[i].ref # None THEN row[i].ref ELSE i}, {})

(* A rescan removes what it did not find: objects of one directory.        *)
removeObjects ==
  \E c \in DOMAIN row : \E S \in SUBSET (Children({c}) \ Roots) :
    /\ row[c].kind = "dir" /\ S # {}
    /\ BeginRemoval(S, FALSE, {i \in S : ~Container(i)}, {i \in S : Container(i)})

SelectParents ==
  /\ rm.phase = "parents"
  /\ rm' = [rm EXCEPT !.phase = "items", !.parents = {}, !.del = @ \union rm.parents,
                      !.upnp = @ \union Parents(rm.parents)]
  /\ UNCHANGED <<row, lastID, scan, call, cut, owed, told>>

(* A reference may also be a container: nobody looks at its children.      *)
SelectReferences ==
  /\ rm.phase = "items"
  /\ rm' = [rm EXCEPT !.phase = "conts", !.items = {}, !.del = @ \union RefsTo(rm.items),
                      !.upnp = @ \union Parents(RefsTo(rm.items))]
  /\ cut' = cut \union {i \in RefsTo(rm.items) : Container(i)}
  /\ UNCHANGED <<row, lastID, scan, call, owed, told>>

(* Mutants: references to the main objects are forgotten; main objects go  *)
(* without being asked for.                                                *)
SelectChildrenForgets ==
  LET found == Children(rm.conts)
      conts == {i \in found : Container(i)}
      refs  == {i \in found \ conts : rm.all /\ row[i].ref # None}
      main  == {row[i].ref : i \in refs}
      plain == found \ (conts \union refs) IN
  /\ rm.phase = "conts"
  /\ rm' = [rm EXCEPT !.phase = "flush", !.conts = conts, !.items = @ \union plain,
                      !.del = @ \union conts \union plain, !.parents = @ \union main]
  /\ UNCHANGED <<row, lastID, scan, call, cut, owed, told>>

SelectChildren ==
  LET found == Children(rm.conts)
      conts == {i \in found : Container(i)}
      refs  == {i \in found \ conts : rm.all /\ row[i].ref # None}
      main  == {row[i].ref : i \in refs}
      plain == found \ (conts \union refs) IN
  /\ rm.phase = "conts"
  /\ rm' = [rm EXCEPT !.phase = "flush", !.conts = conts,
                      !.del = @ \union conts \union plain,
                      !.parents = @ \union main,
                      !.items = @ \union main \union plain]
  /\ UNCHANGED <<row, lastID, scan, call, cut, owed, told>>

(* Mutant: the autoscan rows are forgotten.                                *)
DeleteOnlyRows(S) ==
  /\ row' = [i \in DOMAIN row \ S |-> row[i]]
  /\ owed' = [upnp |-> owed.upnp \union Parents(S),
              ui   |-> owed.ui \union Parents({i \in S \ cut : i \in DOMAIN row /\ Container(i)})]
  /\ UNCHANGED <<lastID, scan, call, cut, told>>

(* _removeObjects(): rows of autoscan directories go with their container, *)
(* unless they are persistent.                                             *)
DeleteRows(S) ==
  /\ row' = [i \in DOMAIN row \ S |-> row[i]]
  /\ scan' = [s \in {s \in DOMAIN scan : ~(scan[s].obj \in S \intersect DOMAIN row
                                           /\ ~scan[s].persistent)} |-> scan[s]]
  /\ owed' = [upnp |-> owed.upnp \union Parents(S),
              ui   |-> owed.ui \union Parents({i \in S \ cut : i \in DOMAIN row /\ Container(i)})]
  /\ UNCHANGED <<lastID, call, cut, told>>

(* Lists that get long are deleted before the next round.                  *)
More == rm.items \union rm.parents \union rm.conts # {}

NextRound ==
  /\ rm.phase = "flush" /\ More
  /\ \/ /\ rm' = [rm EXCEPT !.phase = "parents"]
        /\ UNCHANGED <<row, lastID, scan, call, cut, owed, told>>
     \/ /\ rm' = [rm EXCEPT !.phase = "parents", !.del = {}]
        /\ DeleteRows(rm.del)

DeleteRest ==
  /\ rm.phase = "flush" /\ ~More
  /\ rm' = [rm EXCEPT !.phase = "upnp", !.del = {}]
  /\ DeleteRows(rm.del)

(* _purgeEmptyContainers(): of the containers that changed, those that are *)
(* empty go, unless they are persistent, and then the ones above them.     *)
Changed(S) == {i \in S \intersect DOMAIN row : Container(i)}
Kept(S)    == {i \in Changed(S) : row[i].keep}
Empty(S) == {i \in Changed(S) \ Kept(S) : Children({i}) = {}}

(* Mutant: containers that stay are dropped from the list.                 *)
PurgeUpnpDrops ==
  LET sel == rm.upnp IN
  /\ rm.phase = "upnp"
  /\ rm' = [rm EXCEPT !.phase = "ui", !.ret.upnp = @ \union Kept(sel), !.upnp = {},
                      !.del = Empty(sel), !.ui = @ \union Parents(Empty(sel))]
  /\ UNCHANGED <<row, lastID, scan, call, cut, owed, told>>

PurgeUpnp ==
  LET sel == rm.upnp IN
  /\ rm.phase = "upnp"
  /\ rm' = [rm EXCEPT !.phase = "ui", !.ret.upnp = @ \union Kept(sel),
                      !.del = Empty(sel), !.ui = @ \union Parents(Empty(sel)),
                      !.upnp = Changed(sel) \ (Kept(sel) \union Empty(sel))]
  /\ UNCHANGED <<row, lastID, scan, call, cut, owed, told>>

PurgeUI ==
  LET sel == rm.ui IN
  /\ rm.phase = "ui"
  /\ rm' = [rm EXCEPT !.phase = "purge",
                      !.ret.upnp = @ \union Kept(sel), !.ret.ui = @ \union Kept(sel),
                      !.del = @ \union Empty(sel),
                      !.ui = (Changed(sel) \ (Kept(sel) \union Empty(sel)))
                             \union Parents(Empty(sel))]
  /\ UNCHANGED <<row, lastID, scan, call, cut, owed, told>>

PurgeDelete ==
  /\ rm.phase = "purge" /\ rm.del # {}
  /\ rm' = [rm EXCEPT !.phase = IF rm.ui \union rm.upnp # {} THEN "upnp" ELSE "purge", !.del = {}]
  /\ DeleteRows(rm.del)

RemovalReturns ==
  /\ rm.phase = "purge" /\ rm.del = {}
  /\ rm' = [NoRemoval EXCEPT !.phase = "returned", !.due = rm.due, !.rest = rm.rest, !.mixed = rm.mixed]
  /\ told' = [upnp |-> rm.ret.upnp \union rm.ui \union rm.upnp, ui |-> rm.ret.ui \union rm.ui]
  /\ UNCHANGED <<row, lastID, scan, call, cut, owed>>

(***************************************************************************)
(* The table of autoscan directories                                       *)
(***************************************************************************)
(* getPathIDs(): a container and those above it, without the root.         *)
AboveIn(table, i) == Reach({<<j, table[j].parent>> : j \in DOMAIN table}, {i})
PathIDs(i) == AboveIn(row, i) \ {CDS_ID_ROOT, None}

(* Mutant: directories below a recursive one are not looked for.           *)
OverlapsAbove(s, obj, recursive) ==
  \E o \in DOMAIN scan \ {s} :
    \/ scan[o].obj = obj
    \/ scan[o].recursive /\ scan[o].obj \in PathIDs(obj)

(* _checkOverlappingAutoscans(), for the row s or, with None, a new one.   *)
Overlaps(s, obj, recursive) ==
  \E o \in DOMAIN scan \ {s} :
    \/ scan[o].obj = obj
    \/ recursive /\ obj \in scan[o].pathIDs
    \/ scan[o].recursive /\ scan[o].obj \in PathIDs(obj)

(* _autoscanChangePersistentFlag()                                         *)
Flag(rows, i, on) == IF i \in DOMAIN rows THEN [rows EXCEPT ![i].keep = on] ELSE rows

FreeScans == (1..MaxScans) \ DOMAIN scan

(* A client makes a container an autoscan directory (mode timed, not       *)
(* persistent).                                                            *)
addAutoscanDirectory ==
  \E p \in ScanDirs, recursive \in BOOLEAN :
  \E i \in (IF p = Top THEN {CDS_ID_FS_ROOT} ELSE FindContainer(p)) :
    /\ \A t \in Threads : Idle(t)
    /\ FreeScans # {}
    /\ ~Overlaps(None, i, recursive)
    /\ scan' = Inserted(scan, Min(FreeScans),
                 [obj |-> i, path |-> p, recursive |-> recursive, persistent |-> FALSE,
                  pathIDs |-> PathIDs(i)])
    /\ row' = Flag(row, i, TRUE)
    /\ UNCHANGED <<lastID, call, rm, cut, owed, told>>

(* updateAutoscanDirectory(): the container may have changed.  Without a   *)
(* container nothing can overlap.                                          *)
Moved(s, obj) == IF scan[s].obj = obj THEN row ELSE Flag(Flag(row, scan[s].obj, FALSE), obj, TRUE)

updateAutoscanDirectory(s, obj, recursive) ==
  /\ obj # None => ~Overlaps(s, obj, recursive)
  /\ row' = Moved(s, obj)
  /\ scan' = [scan EXCEPT ![s].obj = obj, ![s].recursive = recursive,
                         ![s].pathIDs = IF obj = None THEN {} ELSE PathIDs(obj)]

EditAutoscan ==
  \E s \in DOMAIN scan, recursive \in BOOLEAN :
    /\ \A t \in Threads : Idle(t)
    /\ recursive # scan[s].recursive
    /\ updateAutoscanDirectory(s, scan[s].obj, recursive)
    /\ UNCHANGED <<lastID, call, rm, cut, owed, told>>

removeAutoscanDirectory ==
  \E s \in DOMAIN scan :
    /\ \A t \in Threads : Idle(t)
    /\ scan' = [o \in DOMAIN scan \ {s} |-> scan[o]]
    /\ row' = Flag(row, scan[s].obj, FALSE)
    /\ UNCHANGED <<lastID, call, rm, cut, owed, told>>

(* A scan of a persistent directory whose container is not there: when the *)
(* directory is not there either, the row loses its container; otherwise   *)
(* the scan makes the container and writes its ID in the row.              *)
Lost(s) ==
  /\ scan[s].persistent /\ scan[s].path # Top
  /\ scan[s].obj \in DOMAIN row => row[scan[s].obj].kind # "dir"

ScanForgets ==
  \E s \in DOMAIN scan :
    /\ MayBegin("task") /\ Lost(s)
    /\ updateAutoscanDirectory(s, None, scan[s].recursive)
    /\ UNCHANGED <<lastID, call, rm, cut, owed, told>>

BeginScan == \E s \in DOMAIN scan : Lost(s) /\ Begin("task", "scan", scan[s].path, s, None)

ScanFinds ==
  LET c == call["task"] IN
  /\ Ensured("task", "scan")
  /\ \/ c.arg \in DOMAIN scan /\ updateAutoscanDirectory(c.arg, c.at, scan[c.arg].recursive)
     \/ /\ c.arg \in DOMAIN scan => Overlaps(c.arg, c.at, scan[c.arg].recursive)
        /\ UNCHANGED <<row, scan>>
  /\ Return("task")
  /\ UNCHANGED <<lastID, owed>>

(***************************************************************************)
(* A restart: IDs go on from the greatest one in the table, config.xml may *)
(* list other directories, updateAutoscanPersistentList() brings the rows  *)
(* up to date and getAutoscanList() drops those without a directory.       *)
(***************************************************************************)
ByPath(p) == IF p = Top THEN {} ELSE FindContainer(p)
Match(p) ==
  {s \in DOMAIN scan : IF ByPath(p) = {} THEN scan[s].obj = None /\ scan[s].path = p
                       ELSE scan[s].obj \in ByPath(p)}
ObjectAt(p) ==
  IF p = Top THEN CDS_ID_FS_ROOT ELSE IF ByPath(p) = {} THEN None ELSE Min(ByPath(p))

(* A row of a listed directory is written anew, without its container.     *)
Listed(s, p) ==
  [scan[s] EXCEPT !.obj = None, !.path = p, !.persistent = TRUE, !.pathIDs = {}]

(* getAutoscanList() keeps what has no container, or one that is there.    *)
Usable(obj) == obj = None \/ (obj \in DOMAIN row \ Roots /\ row[obj].kind = "dir")

(* Of the directories in config.xml, those without a row; the rows of the  *)
(* others; the rows that are not deleted.                                  *)
Fresh(config) == {p \in config : Match(p) = {}}
Old(config)   == UNION {Match(p) : p \in config}
Stay(config)  == {s \in DOMAIN scan : s \in Old(config) \/ ~scan[s].persistent}

ScanTable(config, slot, rec) ==
  [s \in Stay(config) \union {slot[p] : p \in Fresh(config)} |->
     IF s \in Old(config) THEN Listed(s, CHOOSE p \in config : s \in Match(p))
     ELSE IF s \in Stay(config) THEN scan[s]
     ELSE LET p == CHOOSE q \in Fresh(config) : slot[q] = s IN
          [obj |-> ObjectAt(p), path |-> p, recursive |-> rec[p], persistent |-> TRUE,
           pathIDs |-> {}]]

Restarted(config, slot, rec) ==
  LET all == ScanTable(config, slot, rec)
      bad == {s \in DOMAIN all : ~Usable(all[s].obj)} IN
  /\ \A p, q \in Fresh(config) : slot[p] = slot[q] => p = q
  /\ \A p, q \in Fresh(config) : ObjectAt(p) = ObjectAt(q) => p = q \/ ObjectAt(p) = None
  /\ scan' = [s \in DOMAIN all \ bad |-> all[s]]
  /\ row' = [i \in DOMAIN row |->
       [row[i] EXCEPT !.keep = IF \E s \in bad : all[s].obj = i THEN FALSE
                               ELSE IF \E p \in Fresh(config) : ObjectAt(p) = i THEN TRUE
                               ELSE IF \E s \in Old(config) : scan[s].obj = i THEN FALSE ELSE @]]

Restart ==
  /\ \A t \in Threads : Idle(t)
  /\ lastID' = Max(DOMAIN row)
  /\ \E config \in SUBSET ConfigDirs :
     \E slot \in [Fresh(config) -> (1..MaxScans) \ Stay(config)], rec \in [Fresh(config) -> BOOLEAN] :
       Restarted(config, slot, rec)
  /\ rm' = NoRemoval /\ owed' = Nobody /\ told' = Nobody
  /\ UNCHANGED <<call, cut>>

Adding(t) ==
  \/ BeginAddFile(t) \/ BeginAddRef(t) \/ BeginAddChain(t) \/ BeginUpdate(t)
  \/ LookUp(t) \/ createContainer(t)
  \/ AddFile(t) \/ AddRef(t) \/ AddChain(t) \/ UpdateObject(t)

Removing ==
  \/ removeObject \/ removeObjects
  \/ SelectParents \/ SelectReferences \/ SelectChildren \/ NextRound \/ DeleteRest
  \/ PurgeUpnp \/ PurgeUI \/ PurgeDelete \/ RemovalReturns

Scanning ==
  \/ addAutoscanDirectory \/ EditAutoscan \/ removeAutoscanDirectory
  \/ ScanForgets \/ BeginScan \/ ScanFinds

Next == (\E t \in Threads : Adding(t)) \/ Removing \/ Scanning \/ Restart

Spec == Init /\ [][Next]_vars

-----------------------------------------------------------------------------
AllIdle == \A t \in Threads : Idle(t)

TypeOK ==
  /\ DOMAIN row \subseteq 0..MaxID /\ lastID \in 1..MaxID
  /\ \A i \in DOMAIN row : row[i].kind \in {"dir", "file", "virt", "ref"}
  /\ DOMAIN scan \subseteq 1..MaxScans
  /\ rm.del \union rm.conts \union rm.items \subseteq 0..MaxID \ Roots

(* removeObject() and removeObjects() remove all that storage.h says, by   *)
(* levels and with deletions in between (sql_storage.cc:1461-1612); items  *)
(* in one list with containers are left out here (RemovesAllInList).       *)
RemovesWhatIsDue == rm.phase = "returned" => (rm.due \ rm.mixed) \intersect DOMAIN row = {}

(* They remove nothing else but containers: no file or reference           *)
(* disappears that nobody asked for.                                       *)
RemovesNothingElse == rm.phase = "returned" => rm.rest \subseteq DOMAIN row

(* A removal takes exactly what it has to.                                 *)
RemovesExactly == RemovesWhatIsDue /\ RemovesNothingElse

(* storage.h: "Remove all objects found in list".                          *)
RemovesAllInList == rm.phase = "returned" => rm.due \intersect DOMAIN row = {}

(* When a call is over, each container that is still there and got or lost *)
(* a child was reported to the UPnP side, and each one that got or lost a  *)
(* container, to the web UI (sql_storage.cc:1614-1712, :880-905).          *)
ReportsChanges ==
  AllIdle => /\ owed.upnp \intersect DOMAIN row \subseteq told.upnp
             /\ owed.ui \intersect DOMAIN row \subseteq told.ui

(* Every object is in a container that exists, except the children of      *)
(* containers that were deleted as references (sql_storage.cc:1557).       *)
NoOrphans ==
  AllIdle => \A i \in DOMAIN row \ {CDS_ID_ROOT} : row[i].parent \in (DOMAIN row) \union cut

(* storage.h: "If the object is a container, all children will be also     *)
(* removed automatically".                                                 *)
ChildrenGoWithContainers ==
  AllIdle => \A i \in DOMAIN row \ {CDS_ID_ROOT} : row[i].parent \in DOMAIN row

(* A reference is one to the file it was made for, though IDs are given    *)
(* again after a restart.                                                  *)
ReferencesHold ==
  AllIdle => \A i \in DOMAIN row :
    row[i].kind = "ref" => row[i].ref \in DOMAIN row /\ row[row[i].ref].path = row[i].path

(* The container of an autoscan directory does not go when it is empty,    *)
(* and a row that a client made goes with its container.                   *)
ScansKeepTheirContainer ==
  \A s \in DOMAIN scan :
    /\ scan[s].obj \in DOMAIN row => row[scan[s].obj].kind = "dir" /\ row[scan[s].obj].keep
    /\ ~scan[s].persistent => scan[s].obj \in DOMAIN row

(* Two directories that clients made autoscan directories do not overlap.  *)
NoOverlap ==
  \A s, o \in DOMAIN scan :
    (s # o /\ ~scan[s].persistent /\ ~scan[o].persistent /\ scan[s].recursive) =>
      scan[s].obj \notin PathIDs(scan[o].obj)

(* The two roots stay.                                                     *)
RootsStay == Roots \subseteq DOMAIN row

(* Nothing refers to what is gone: parents, references and the containers  *)
(* of autoscan directories are there.                                      *)
NothingDangles == NoOrphans /\ ReferencesHold /\ ScansKeepTheirContainer /\ RootsStay

(***************************************************************************)
(* Inductive (SQLStorage_proof), when one thread works at a time.          *)
(***************************************************************************)
Locations == Dirs \union Files \union Virts \union {Top}

(* The rows that INSERT makes, besides the two roots that are there from   *)
(* the beginning and that nothing changes.                                 *)
Rows ==
  [parent : Nat \union {None}, kind : {"dir", "file", "virt", "ref"}, path : Locations,
   ref : Nat \union {None}, keep : BOOLEAN]

IsRow(r) ==
  /\ r \in Rows /\ r.parent \in Nat
  /\ r.kind = "dir" => r.path \in Dirs /\ r.ref = None
  /\ r.kind = "file" => r.path \in Files /\ r.ref = None
  /\ r.kind = "virt" => r.path \in Virts
  /\ r.kind = "ref" => r.path \in Files /\ r.ref \in Nat \ Roots

RowsInv ==
  /\ lastID \in Nat /\ DOMAIN row \subseteq 0..lastID /\ Roots \subseteq DOMAIN row
  /\ row[CDS_ID_ROOT] = RootRow(None, "virt")
  /\ row[CDS_ID_FS_ROOT] = RootRow(CDS_ID_ROOT, "dir")
  /\ \A i \in DOMAIN row \ Roots : IsRow(row[i])

(* The file of a reference stays, unless the reference goes or is about to *)
(* be selected.                                                            *)
RefInv ==
  \A i \in DOMAIN row : row[i].kind = "ref" =>
    LET f == row[i].ref IN
    /\ f \in DOMAIN row => row[f].kind = "file" /\ row[f].path = row[i].path
    /\ f \in DOMAIN row \ rm.del \/ i \in rm.del \/ f \in rm.items

(* The container of a row stays, unless the row goes, is about to be       *)
(* selected, or the container was deleted as a reference; its ID is not    *)
(* given to another object.                                                *)
OnDisk(kind) == kind \in {"dir", "file"}

TreeInv ==
  \A i \in DOMAIN row \ Roots :
    LET p == row[i].parent IN
    /\ p \in DOMAIN row => row[p].kind = IF OnDisk(row[i].kind) THEN "dir" ELSE "virt"
    /\ row[i].kind # "file" => p < i
    /\ \/ p \in DOMAIN row \ rm.del
       \/ i \in rm.del
       \/ p \in rm.conts
       \/ ~OnDisk(row[i].kind) /\ p \in cut
       \/ row[i].kind = "ref" /\ row[i].ref \in rm.items

Collecting == rm.phase \in {"parents", "items", "conts", "flush"}
Purging    == rm.phase \in {"upnp", "ui", "purge"}

RmType ==
  rm \in [phase : {"idle", "parents", "items", "conts", "flush", "upnp", "ui", "purge", "returned"},
          all : BOOLEAN, items : SUBSET (Nat \ Roots), conts : SUBSET (Nat \ Roots),
          parents : SUBSET (Nat \ Roots), del : SUBSET (Nat \ Roots),
          upnp : SUBSET Int, ui : SUBSET Int, ret : [upnp : SUBSET Int, ui : SUBSET Int],
          due : SUBSET Int, rest : SUBSET Int, mixed : SUBSET Int]

RmInv ==
  /\ RmType
  /\ ~Collecting => rm.items = {} /\ rm.conts = {} /\ rm.parents = {}
  /\ ~Collecting /\ rm.phase \notin {"ui", "purge"} => rm.del = {}
  /\ rm.phase \in {"items", "conts"} => rm.parents = {}
  /\ rm.phase = "conts" => rm.items = {}
  /\ rm.parents \subseteq rm.items
  /\ \A i \in rm.items \intersect DOMAIN row : ~Container(i)
  /\ \A i \in rm.conts \intersect DOMAIN row : Container(i) /\ i \in rm.del
  /\ Purging => \A i \in rm.del : i \in DOMAIN row /\ Container(i) /\ Children({i}) = {}

Calls ==
  [op : {"file", "ref", "cont", "update", "scan"}, goal : Locations, arg : Files \union Int,
   link : Int, look : Locations, down : Seq(Locations), at : Int, changed : Int, last : Int]

(* The places a call looks for, and the kind of the containers there.      *)
Places(c) == IF c.op \in {"ref", "cont"} THEN Virts ELSE Dirs
Kind(c)   == IF c.op \in {"ref", "cont"} THEN "virt" ELSE "dir"

CallOK(c) ==
  /\ rm = NoRemoval
  /\ c.goal \in Places(c) \/ (c.op \in {"file", "update"} /\ c.goal = Top)
  /\ c.look \in Places(c) \union {Top} /\ c.down \in Seq(Places(c))
  /\ c.op = "file" => c.arg \in Files
  /\ c.op \in {"ref", "update"} => c.arg \in DOMAIN row /\ row[c.arg].kind = "file"
  /\ c.op = "scan" => c.arg \in DOMAIN scan /\ scan[c.arg].persistent
  /\ c.down = <<>> /\ c.at = None => c.look = c.goal
  /\ c.at # None => c.at \in DOMAIN row /\ row[c.at].kind = Kind(c)
  /\ c.at # None /\ c.down = <<>> /\ c.goal # Top => c.at \notin Roots

CallInv ==
  /\ call \in [Threads -> {NoCall} \union Calls]
  /\ \A t \in Threads : call[t] # NoCall => CallOK(call[t])

ScanRow ==
  [obj : (Nat \ Roots) \union {None}, path : ScanDirs, recursive : BOOLEAN,
   persistent : BOOLEAN, pathIDs : SUBSET Int]

ScanRows ==
  /\ DOMAIN scan \subseteq 1..MaxScans
  /\ \A s \in DOMAIN scan : scan[s] \in ScanRow /\ scan[s].obj <= lastID

StructureInv == RowsInv /\ RefInv /\ TreeInv /\ RmInv /\ CallInv /\ ScanRows

(* What is owed is in one of the lists of the removal, or is the container *)
(* the first new one was made in.                                          *)
Reported == rm.upnp \union rm.ui \union rm.ret.upnp \union rm.del
ShownUI  == rm.ui \union rm.ret.ui \union rm.del

ReportInv ==
  /\ owed \in [upnp : SUBSET Int, ui : SUBSET Int]
  /\ \A i \in (rm.upnp \union rm.ui) \intersect DOMAIN row : Container(i)
  /\ Collecting \/ Purging =>
       /\ (owed.upnp \union Parents(rm.del)) \intersect DOMAIN row \subseteq Reported
       /\ owed.ui \intersect DOMAIN row \subseteq ShownUI
       /\ \A d \in (rm.del \ cut) \intersect DOMAIN row :
            Container(d) /\ row[d].parent \in DOMAIN row => row[d].parent \in ShownUI
  /\ \A t \in Threads : call[t] # NoCall =>
       LET c == call[t] IN
       /\ owed.upnp \union owed.ui \subseteq {c.changed} \ {None}
       /\ c.last \in 0..lastID
       /\ c.changed # None => c.at > c.last
  /\ ReportsChanges

(* The rows that a removal takes without looking further.                  *)
Taken == rm.del \union rm.parents \union RefsTo(rm.items)

DueInv ==
  /\ rm.rest \subseteq DOMAIN row
  /\ \A i \in rm.rest : ~Container(i) /\ i \notin rm.due
  /\ \A i \in Taken \intersect DOMAIN row : ~Container(i) => i \in rm.due
  /\ Collecting => Due(rm.conts, rm.all) \subseteq rm.due

(* Without linked containers nothing that is due is forgotten: containers  *)
(* below others are looked at before they go.                              *)
LeftInv ==
  /\ cut = {}
  /\ \A i \in DOMAIN row : row[i].kind = "virt" => row[i].ref = None
  /\ (rm.due \ rm.mixed) \intersect DOMAIN row \subseteq
       IF Collecting THEN Taken \union Due(rm.conts, rm.all) ELSE {}
  /\ \A i \in rm.del \intersect DOMAIN row :
       Container(i) => i \in rm.conts \/ Children({i}) \subseteq Taken
  /\ rm.all =>
       /\ rm.items \intersect DOMAIN row \subseteq rm.del \union rm.parents
       /\ \A i \in rm.parents \intersect DOMAIN row : row[i].kind = "file"
       /\ \A i \in rm.del \intersect DOMAIN row :
            row[i].kind = "ref" /\ row[i].ref \in DOMAIN row =>
              row[i].ref \in rm.del \union rm.parents

(* Autoscan directories are at different containers, those that clients    *)
(* made do not overlap, and their rows know at least the containers above  *)
(* their own.  A scan that makes a container has a row without one.        *)
Watched(s) ==
  scan[s].obj \in DOMAIN row => row[scan[s].obj].kind = "dir" /\ row[scan[s].obj].keep
Anchored(s) ==
  ~scan[s].persistent =>
    scan[s].obj \in DOMAIN row /\ PathIDs(scan[s].obj) \subseteq scan[s].pathIDs
Apart(s, o) == s # o => scan[s].obj = None \/ scan[s].obj # scan[o].obj
Disjoint(s, o) ==
  (s # o /\ ~scan[s].persistent /\ ~scan[o].persistent /\ scan[s].recursive) =>
    scan[s].obj \notin PathIDs(scan[o].obj)
Searched == \A t \in Threads : call[t].op = "scan" => scan[call[t].arg].obj \notin DOMAIN row

ScanInv ==
  /\ \A s \in DOMAIN scan : Watched(s) /\ Anchored(s)
  /\ \A s, o \in DOMAIN scan : Apart(s, o) /\ Disjoint(s, o)
  /\ Searched
=============================================================================

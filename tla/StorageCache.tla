--------------------------- MODULE StorageCache ---------------------------
(***************************************************************************)
(* The object cache and the insert buffer of sql_storage.cc, with          *)
(* storage_cache.cc and cache_object.cc.                                   *)
(*                                                                         *)
(* A new row is not written at once: the INSERT waits in a buffer, and the *)
(* cache must know the object as long as it waits, since loadObject() and  *)
(* _findObjectByPath() query the database without flushing the buffer.     *)
(* The buffer and the cache have a mutex each; an operation takes them for *)
(* one section at a time and runs its SQL outside of both.                 *)
(*                                                                         *)
(* The model follows the files of one directory.  A file has one row when  *)
(* it is in the database, whose ID is the file's; what an update changes   *)
(* is its version.                                                         *)
(***************************************************************************)
EXTENDS Naturals, FiniteSets

CONSTANTS
    Files,       \* the files of the directory
    Threads,     \* the threads that use the storage
    Does,        \* the operations each thread calls
    MaxFill,     \* STORAGE_CACHE_MAXFILL
    MaxVersion,  \* bound on the updates of a file
    MayFail      \* a flush may fail in the middle of its transaction

\* What the constants are, ASSUMEd where they have values.
StorageCacheAssumption ==
    /\ Does \in [Threads -> SUBSET {"add", "update", "remove", "count"}]
    /\ MaxFill \in Nat \ {0} /\ MaxVersion \in Nat /\ MayFail \in BOOLEAN

Absent == 0                  \* no row, no object
Versions == 1..MaxVersion
Unknown == Cardinality(Files) * 3   \* a number of children that is not known

VARIABLES
    row,      \* the version in the database, by file
    buffered, \* the version whose INSERT waits in the insert buffer, by file
    broken,   \* a failed flush left its transaction open
    cached,   \* the version of the object in the cache, by file
    located,  \* the files whose object the location hash leads to
    children, \* the number of children the cache knows for the directory
    entry,    \* the cache has an entry for the directory
    op        \* the operation each thread is in, its step and what it read

vars == <<row, buffered, broken, cached, located, children, entry, op>>
cache == <<cached, located, children, entry>>

Idle == [name |-> "none", at |-> "idle", file |-> "none", got |-> 0]

Init ==
    /\ row = [f \in Files |-> Absent] /\ buffered = [f \in Files |-> Absent]
    /\ broken = FALSE
    /\ cached = [f \in Files |-> Absent] /\ located = {}
    /\ children = Unknown /\ entry = FALSE
    /\ op = [t \in Threads |-> Idle]

Pending == {f \in Files : buffered[f] # Absent}
Rows == {f \in Files : row[f] # Absent}
Known == {f \in Files : cached[f] # Absent}

At(t, name, at) == op[t].name = name /\ op[t].at = at
To(t, at) == op' = [op EXCEPT ![t].at = at]
Reads(t, at, v) == op' = [op EXCEPT ![t].at = at, ![t].got = v]
Done(t) == op' = [op EXCEPT ![t] = Idle]
Begin(t, name, f, at) ==
    /\ op[t] = Idle /\ name \in Does[t]
    /\ op' = [op EXCEPT ![t] = [Idle EXCEPT !.name = name, !.file = f, !.at = at]]

\* The version of a new object.
Created == 1

(***************************************************************************)
(* The insert buffer.                                                      *)
(***************************************************************************)
\* What the buffered statements make of the rows.
Written == [f \in Files |-> IF buffered[f] # Absent THEN buffered[f] ELSE row[f]]

\* _flushInsertBuffer(): the whole buffer is one batch, BEGIN ... COMMIT.  When it
\* fails, the exception leaves the batch in the buffer and the transaction open,
\* and the next batch fails at its BEGIN.
FlushOK == ~broken /\ row' = Written /\ buffered' = [f \in Files |-> Absent]
           /\ UNCHANGED broken
FlushFails == /\ Pending # {} /\ (MayFail \/ broken)
              /\ broken' = TRUE /\ UNCHANGED <<row, buffered>>
NoFlush == UNCHANGED <<row, buffered, broken>>

\* flushInsertBuffer() as the first step of an operation.
FlushFirst(t, next) == \/ FlushOK /\ To(t, next)
                       \/ FlushFails /\ Done(t)

(***************************************************************************)
(* The cache.                                                              *)
(***************************************************************************)
Entries == Cardinality(Known) + IF entry THEN 1 ELSE 0

\* getObjectDefinitely() empties a full cache before it adds an entry, and its
\* caller flushes the buffer when that happened.
MustEmpty == Entries >= MaxFill
\* Mutant of FlushIf: the flag of the cache is not looked at.
FlushNever(emptied) == NoFlush
\* The buffer is flushed because the cache was emptied.
FlushIf(emptied) == IF emptied THEN FlushOK \/ FlushFails ELSE NoFlush

\* addChild(): only a number that is known is counted on.
OneMore(n) == IF n = Unknown THEN Unknown ELSE n + 1

\* The object of a file comes into the cache, as setObject() and checkLocation()
\* leave it.
Remember(f, v) ==
    LET emptied == f \notin Known /\ MustEmpty IN
    /\ cached' = IF emptied THEN [g \in Files |-> IF g = f THEN v ELSE Absent]
                 ELSE [cached EXCEPT ![f] = v]
    /\ located' = (IF emptied THEN {} ELSE located) \cup {f}
    /\ entry' = (entry /\ ~emptied)
    /\ FlushIf(emptied)

(***************************************************************************)
(* addObject(), after the search of _addFile() for the path.               *)
(***************************************************************************)
\* _findObjectByPath(): the cache first.
FindInCache(t) ==
    /\ \E f \in Files : Begin(t, "add", f, IF f \in located THEN "idle" ELSE "query")
    /\ UNCHANGED <<row, buffered, broken, cache>>

\* Then the database, without the rows that wait.
FindInRows(t) ==
    /\ At(t, "add", "query")
    /\ IF op[t].file \in Rows THEN Done(t) ELSE To(t, "insert")
    /\ UNCHANGED <<row, buffered, broken, cache>>

\* addToInsertBuffer().  A second INSERT for a file is a second row.
Insert(t) ==
    /\ At(t, "add", "insert")
    /\ buffered' = [buffered EXCEPT ![op[t].file] = @ + Created]
    /\ To(t, "remember")
    /\ UNCHANGED <<row, broken, cache>>

\* The section of addObject() that tells the cache.
RememberNew(t) ==
    /\ At(t, "add", "remember")
    /\ Remember(op[t].file, Created)
    /\ children' = IF op[t].file \notin Known /\ MustEmpty THEN Unknown
                   ELSE OneMore(children)
    /\ Done(t)

(***************************************************************************)
(* updateObject().                                                         *)
(***************************************************************************)
UpdateFlush(t) ==
    \/ \E f \in Known \cup Rows :
         Begin(t, "update", f, "flush") /\ UNCHANGED <<row, buffered, broken, cache>>
    \/ At(t, "update", "flush") /\ FlushFirst(t, "exec") /\ UNCHANGED cache

UpdateRow(t) ==
    /\ At(t, "update", "exec")
    /\ LET f == op[t].file IN
         \E v \in Versions \ {row[f]} :
           /\ row' = IF f \in Rows THEN [row EXCEPT ![f] = v] ELSE row
           /\ Reads(t, "remember", v)
    /\ UNCHANGED <<buffered, broken, cache>>

UpdateCache(t) ==
    /\ At(t, "update", "remember")
    /\ Remember(op[t].file, op[t].got)
    /\ children' = IF op[t].file \notin Known /\ MustEmpty THEN Unknown ELSE children
    /\ Done(t)

(***************************************************************************)
(* removeObject(), whose end clears the whole cache.                       *)
(***************************************************************************)
RemoveFlush(t) ==
    \/ \E f \in Files :
         Begin(t, "remove", f, "flush") /\ UNCHANGED <<row, buffered, broken, cache>>
    \/ At(t, "remove", "flush") /\ FlushFirst(t, "delete") /\ UNCHANGED cache

DeleteRow(t) ==
    /\ At(t, "remove", "delete")
    /\ row' = [row EXCEPT ![op[t].file] = Absent]
    /\ To(t, "clear")
    /\ UNCHANGED <<buffered, broken, cache>>

\* Mutant of Cleared: the cache keeps what it has.
NotCleared(c) == c
\* StorageCache::clear().
Cleared(c) == [f \in Files |-> Absent]

ClearCache(t) ==
    /\ At(t, "remove", "clear")
    /\ cached' = Cleared(cached)
    /\ located' = {f \in located : cached'[f] # Absent}
    /\ children' = Unknown /\ entry' = FALSE
    /\ Done(t)
    /\ UNCHANGED <<row, buffered, broken>>

(***************************************************************************)
(* getChildCount().                                                        *)
(***************************************************************************)
CountFlush(t) ==
    \/ /\ children = Unknown
       /\ \E f \in Files : Begin(t, "count", f, "flush")
       /\ UNCHANGED <<row, buffered, broken, cache>>
    \/ At(t, "count", "flush") /\ FlushFirst(t, "query") /\ UNCHANGED cache

CountRows(t) ==
    /\ At(t, "count", "query")
    /\ Reads(t, "remember", Cardinality(Rows))
    /\ UNCHANGED <<row, buffered, broken, cache>>

RememberCount(t) ==
    /\ At(t, "count", "remember")
    /\ LET emptied == ~entry /\ MustEmpty IN
         /\ cached' = IF emptied THEN [f \in Files |-> Absent] ELSE cached
         /\ located' = IF emptied THEN {} ELSE located
         /\ FlushIf(emptied)
    /\ entry' = TRUE /\ children' = op[t].got
    /\ Done(t)

\* A call that ended in its first section is over.
Return(t) ==
    /\ op[t].name # "none" /\ op[t].at = "idle" /\ Done(t)
    /\ UNCHANGED <<row, buffered, broken, cache>>

Next ==
    \E t \in Threads :
        \/ FindInCache(t) \/ FindInRows(t) \/ Insert(t) \/ RememberNew(t)
        \/ UpdateFlush(t) \/ UpdateRow(t) \/ UpdateCache(t)
        \/ RemoveFlush(t) \/ DeleteRow(t) \/ ClearCache(t)
        \/ CountFlush(t) \/ CountRows(t) \/ RememberCount(t)
        \/ Return(t)

Spec == Init /\ [][Next]_vars

(***************************************************************************)
(* Properties.                                                             *)
(***************************************************************************)
Busy(f, names, steps) ==
    \E t \in Threads : op[t].file = f /\ op[t].name \in names /\ op[t].at \in steps

\* Every variable has a value of its kind.
TypeOK ==
    /\ row \in [Files -> 0..(MaxVersion + 2)]
    /\ buffered \in [Files -> 0..(MaxVersion + 2)]
    /\ cached \in [Files -> 0..MaxVersion] /\ located \subseteq Known
    /\ children \in 0..Unknown /\ entry \in BOOLEAN /\ broken \in BOOLEAN
    /\ \A t \in Threads : op[t].got \in 0..Unknown

\* A row that waits in the insert buffer is known to the cache, so that the
\* queries that do not flush ("not needed if correctly in cache") miss nothing:
\* not even when the cache was emptied because it was full, or by a removal.
PendingKnown ==
    \A f \in Pending : f \in located \/ Busy(f, {"add"}, {"remember"})

\* No search misses a file that is there: a file never gets a second row.
OneRowPerFile ==
    \A f \in Pending : buffered[f] = Created /\ row[f] = Absent

\* The cache never disagrees with the database: an object it answers with is the
\* one that a query after a flush would read, once the operation on that file
\* that is under way has ended.
CacheIsCurrent ==
    \A f \in Known :
        Busy(f, {"update"}, {"remember"}) \/ Busy(f, {"remove"}, {"clear"})
        \/ cached[f] = Written[f]

\* The number of children the cache knows is the number of rows.
CountIsCurrent ==
    children # Unknown /\ (\A t \in Threads : op[t].at = "idle") =>
        children = Cardinality({f \in Files : Written[f] # Absent})

\* A flush that failed is not the last one that can succeed.
FlushRecovers == ~broken
==========================================================================

--------------------------- MODULE StorageThreads ---------------------------
(***************************************************************************)
(* The components below the content manager that have threads of their     *)
(* own: the driver of the database, which is the module this one extends,  *)
(* the cache in front of it, the task processor and a transcoder.  They    *)
(* share no state, so that one of them moves in a behaviour.               *)
(***************************************************************************)
EXTENDS Sqlite3Storage, FiniteSets

CONSTANTS
  Services, Refreshers, MaxFetches, MaxPages,           \* of TaskProcessor
  OutputLen, PipeSize, Chunk, MaxTimeouts,              \* of Transcoding
  Users, Does, CacheFiles, MaxFill, MaxVersion, MayFail \* of StorageCache

VARIABLE part   \* the component that moves

(* The task processor and the online services.                             *)
VARIABLES tp_taskQueue, tp_taskID, tp_currentTask, tp_shutdownFlag, tp_mutex,
    tp_tpc, tp_stopper, tp_contentQueue, tp_asker, tp_taskCount, tp_read,
    tp_subscribed, tp_fetches, tp_pages
tp_vars == << tp_taskQueue, tp_taskID, tp_currentTask, tp_shutdownFlag, tp_mutex,
    tp_tpc, tp_stopper, tp_contentQueue, tp_asker, tp_taskCount, tp_read,
    tp_subscribed, tp_fetches, tp_pages >>
Processor == INSTANCE TaskProcessor WITH
    Askers <- Refreshers, taskQueue <- tp_taskQueue, taskID <- tp_taskID,
    currentTask <- tp_currentTask, shutdownFlag <- tp_shutdownFlag,
    mutex <- tp_mutex, tpc <- tp_tpc, stopper <- tp_stopper,
    contentQueue <- tp_contentQueue, asker <- tp_asker, taskCount <- tp_taskCount,
    read <- tp_read, subscribed <- tp_subscribed, fetches <- tp_fetches,
    pages <- tp_pages

(* A transcoder behind its fifos, with or without the chainer.             *)
VARIABLES tr_chained, tr_main, tr_status, tr_reads, tr_writes, tr_source, tr_fifo1,
    tr_eaten, tr_again, tr_made, tr_fifo2, tr_rpc, tr_got, tr_timeouts, tr_result,
    tr_delivered, tr_cpc, tr_chunk, tr_sent, tr_threadRunning, tr_threadShutdown,
    tr_closing, tr_fd, tr_stolen
tr_vars == << tr_chained, tr_main, tr_status, tr_reads, tr_writes, tr_source,
    tr_fifo1, tr_eaten, tr_again, tr_made, tr_fifo2, tr_rpc, tr_got, tr_timeouts,
    tr_result, tr_delivered, tr_cpc, tr_chunk, tr_sent, tr_threadRunning,
    tr_threadShutdown, tr_closing, tr_fd, tr_stolen >>
Transcoding == INSTANCE Transcoding WITH
    N <- OutputLen, chained <- tr_chained,
    main <- tr_main, status <- tr_status, reads <- tr_reads, writes <- tr_writes,
    source <- tr_source, fifo1 <- tr_fifo1, eaten <- tr_eaten, again <- tr_again,
    made <- tr_made, fifo2 <- tr_fifo2, rpc <- tr_rpc, got <- tr_got,
    timeouts <- tr_timeouts, result <- tr_result, delivered <- tr_delivered,
    cpc <- tr_cpc, chunk <- tr_chunk, sent <- tr_sent,
    threadRunning <- tr_threadRunning, threadShutdown <- tr_threadShutdown,
    closing <- tr_closing, fd <- tr_fd, stolen <- tr_stolen

(* The cache and the insert buffer, with the threads that use the storage. *)
VARIABLES sc_row, sc_buffered, sc_broken, sc_cached, sc_located, sc_children,
    sc_entry, sc_op
sc_vars == << sc_row, sc_buffered, sc_broken, sc_cached, sc_located, sc_children,
    sc_entry, sc_op >>
Cache == INSTANCE StorageCache WITH
    Files <- CacheFiles, Threads <- Users, row <- sc_row, buffered <- sc_buffered,
    broken <- sc_broken, cached <- sc_cached, located <- sc_located,
    children <- sc_children, entry <- sc_entry, op <- sc_op

ASSUME StorageThreadsAssumption ==
    /\ SqliteAssumption
    /\ Processor!TaskProcessorAssumption
    /\ Transcoding!TranscodingAssumption
    /\ Cache!StorageCacheAssumption

allVars == <<part, vars, tp_vars, tr_vars, sc_vars>>

Others(p) ==
    /\ UNCHANGED part
    /\ p # "sqlite" => UNCHANGED vars
    /\ p # "tasks" => UNCHANGED tp_vars
    /\ p # "transcoding" => UNCHANGED tr_vars
    /\ p # "cache" => UNCHANGED sc_vars

\* The components that do not move stay in an initial state.
ThreadsInit ==
    /\ part \in {"sqlite", "tasks", "transcoding", "cache"}
    /\ Init
    /\ part # "sqlite" => restoreOption /\ db = "good" /\ backup = "good"
    /\ Processor!Init
    /\ Transcoding!Init
    /\ part # "transcoding" => tr_chained
    /\ Cache!Init

ThreadsNext ==
    \/ part = "sqlite" /\ Next /\ Others("sqlite")
    \/ part = "tasks" /\ Processor!Next /\ Others("tasks")
    \/ part = "transcoding" /\ Transcoding!Next /\ Others("transcoding")
    \/ part = "cache" /\ Cache!Next /\ Others("cache")

ThreadsSpec ==
    /\ ThreadsInit /\ [][ThreadsNext]_allVars
    /\ WF_vars(part = "sqlite" /\ InitStep)
    /\ WF_vars(part = "sqlite" /\ GivesUp)
    /\ WF_vars(part = "sqlite" /\ Joined)
    /\ WF_vars(part = "sqlite" /\ ThreadStep)
    /\ \A c \in Askers : WF_vars(part = "sqlite" /\ Waiting(c))
    /\ WF_tp_vars(part = "tasks" /\ Processor!Thread)
    /\ WF_tp_vars(part = "tasks" /\ Processor!HandOver)
    /\ WF_tp_vars(part = "tasks" /\ Processor!ShutdownSignals)
    /\ WF_tp_vars(part = "tasks" /\ Processor!Join)
    /\ \A a \in Refreshers : WF_tp_vars(part = "tasks" /\ Processor!Count(a))
    /\ WF_tr_vars(part = "transcoding" /\ Transcoding!Reading)
    /\ WF_tr_vars(part = "transcoding" /\ Transcoding!Chaining)
    /\ WF_tr_vars(part = "transcoding" /\ Transcoding!Closing)

\* A queued task is taken.
TasksTaken == Processor!TasksTaken
\* After close() the transcoder is dead and the chainer gone.
NothingLeftBehind == Transcoding!NothingLeftBehind
\* A file never gets a second row.
OneRowPerFile == Cache!OneRowPerFile
\* The cache answers what a query after a flush would read.
CacheIsCurrent == Cache!CacheIsCurrent
=============================================================================

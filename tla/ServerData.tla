----------------------------- MODULE ServerData -----------------------------
(***************************************************************************)
(* Components that other threads of the server call: the URLs of online    *)
(* videos, which are the module this one extends, the configuration, the   *)
(* online services, the UPnP services, media requests, and the pages of    *)
(* the web interface that edit objects.  They share no state.              *)
(***************************************************************************)
EXTENDS CachedURLs

CONSTANTS
    OldSettings, FileChanges, HasInotify,                        \* of ConfigManager
    FeedTasks, Feeds, LinkedFeeds, ChannelLists, TrailerLists,   \* of OnlineServices
    AmountAll, VideosPerPage, PurgeAfter, Refreshes,
    UpnpDatabases, UpnpNewRows, ChildrenPerPage, UpnpChanges,    \* of UpnpServices
    MediaItems, MediaConfigs, MediaFiles, MediaChanges,          \* of MediaServing
    EditTexts, EditFiles, WebLinks, ObjectAdditions, ObjectEdits,   \* of ObjectEditing
    ResourceProtocols, OnlineRows, EditRows, EditChanges, EditPages, CachesObjects, Null

\* The configuration, over two starts.
VARIABLES cm_file, cm_root, cm_options, cm_pc, cm_starts, cm_migrated, cm_created,
    cm_before
cm_vars == << cm_file, cm_root, cm_options, cm_pc, cm_starts, cm_migrated,
    cm_created, cm_before >>
Config == INSTANCE ConfigManager WITH
    Old <- OldSettings, Changes <- FileChanges, InotifySupported <- HasInotify,
    file <- cm_file, root <- cm_root, options <- cm_options, pc <- cm_pc,
    starts <- cm_starts, migrated <- cm_migrated, created <- cm_created,
    before <- cm_before

\* YouTube, SopCast and Apple Trailers.
VARIABLES os_tasklist, os_current, os_service, os_page, os_objects, os_answer,
    os_now, os_stopping
os_vars == << os_tasklist, os_current, os_service, os_page, os_objects, os_answer,
    os_now, os_stopping >>
Services == INSTANCE OnlineServices WITH
    Configs <- FeedTasks, Remote <- Feeds, SubFeeds <- LinkedFeeds,
    Channels <- ChannelLists, TrailerFeeds <- TrailerLists, Amount_All <- AmountAll,
    PerPage <- VideosPerPage, Purge <- PurgeAfter, MaxTime <- Refreshes,
    tasklist <- os_tasklist, current <- os_current, service <- os_service,
    page <- os_page, objects <- os_objects, answer <- os_answer, now <- os_now,
    stopping <- os_stopping

\* The UPnP services, with changes of the database during a Browse.
VARIABLES up_hide, up_rows, up_changed, up_browse, up_answer, up_reading, up_told,
    up_changes
up_vars == << up_hide, up_rows, up_changed, up_browse, up_answer, up_reading,
    up_told, up_changes >>
Upnp == INSTANCE UpnpServices WITH
    Databases <- UpnpDatabases, NewRows <- UpnpNewRows, HideFsRoot <- BOOLEAN,
    PageSize <- ChildrenPerPage, MaxChanges <- UpnpChanges, hide <- up_hide,
    rows <- up_rows, changed <- up_changed, browse <- up_browse,
    answer <- up_answer, reading <- up_reading, told <- up_told,
    changes <- up_changes

\* An item from its description to its bytes.
VARIABLES ms_config, ms_item, ms_disk, ms_links, ms_shown, ms_request, ms_obj,
    ms_changes
ms_vars == << ms_config, ms_item, ms_disk, ms_links, ms_shown, ms_request, ms_obj,
    ms_changes >>
Serving == INSTANCE MediaServing WITH
    Items <- MediaItems, Configs <- MediaConfigs, Files <- MediaFiles,
    MaxChanges <- MediaChanges, config <- ms_config, item <- ms_item,
    disk <- ms_disk, links <- ms_links, shown <- ms_shown, request <- ms_request,
    obj <- ms_obj, changes <- ms_changes

\* Objects added and edited in the web interface.
VARIABLES oe_rows, oe_cache, oe_up, oe_request, oe_answer, oe_listed, oe_told,
    oe_pages, oe_changes
oe_vars == << oe_rows, oe_cache, oe_up, oe_request, oe_answer, oe_listed, oe_told,
    oe_pages, oe_changes >>
Editing == INSTANCE ObjectEditing WITH
    Texts <- EditTexts, Files <- EditFiles, HttpLinks <- WebLinks,
    Additions <- ObjectAdditions, Edits <- ObjectEdits, Protocols <- ResourceProtocols,
    OnlineObjects <- OnlineRows, MaxID <- EditRows, MaxChanges <- EditChanges,
    MaxPages <- EditPages, CacheOn <- CachesObjects, rows <- oe_rows, cache <- oe_cache,
    up <- oe_up, request <- oe_request, answer <- oe_answer, listed <- oe_listed,
    told <- oe_told, pages <- oe_pages, changes <- oe_changes

ASSUME ServerDataAssumption ==
    /\ URLCacheAssumption
    /\ Services!OnlineAssumption
    /\ Upnp!UpnpAssumption
    /\ Serving!MediaAssumption
    /\ Editing!EditingAssumption

\* An accepted file sets every option that is read.
AcceptedIsComplete == Config!AcceptedIsComplete
\* A migrated or completed file is read back with the same options.
SecondStartAgrees == Config!SecondStartAgrees
\* A one-time task is gone when its round is over.
OneTimeTasksGo == Services!OneTimeTasksGo
\* Pages that are read while nothing changes are the whole container.
PagesFit == Upnp!PagesFit
\* A link that was shown leads to the resource it was rendered for.
LinksReachTheirResource == Serving!LinksReachTheirResource
\* What a confirmed edit asked for is in the row.
EditTakesEffect == Editing!EditTakesEffect
=============================================================================

---------------------------- MODULE MCServerData ----------------------------
(*****************************************************************************)
(* Components that the other threads call, one of which moves in a           *)
(* behaviour: they share no state.  Some of them are in ServerData, which    *)
(* this module extends.                                                      *)
(*****************************************************************************)
EXTENDS ConfigDocument, ServerData

CONSTANT Undefined

VARIABLE part   \* the component that moves

-----------------------------------------------------------------------------
\* The configuration: what old files say, and what users change.
Set(path, text) == <<path, text>>
OldSqlite == {Storage(<<"@driver">>) :> "sqlite3" @@ Storage(<<"database-file">>) :> "relative"}
OldSettingsDef ==
    {Storage(<<"@driver">>) :> "sqlite3" @@ Storage(<<"database-file">>) :> "relative",
     Storage(<<"@driver">>) :> "mysql" @@ Storage(<<"host">>) :> "localhost" @@
         Storage(<<"username">>) :> "gerbera" @@ Storage(<<"database">>) :> "gerbera" @@
         Storage(<<"password">>) :> "good",
     Storage(<<"@driver">>) :> "mysql" @@ Storage(<<"host">>) :> "localhost",
     Storage(<<"database-file">>) :> "relative"}
Texts == {Missing, "", "0", "1", "-3", "10", "yes", "no", "good", Odd}
Single == { {Set(p, t)} : p \in DOMAIN DefaultConfig, t \in Texts }
Related == {
  {Set(<<"@version">>, "1")}, {Set(<<"@version">>, "3")}, {Set(<<"server">>, Missing)},
  {Set(<<"server", "home">>, "lost")}, {Set(<<"server", "servedir">>, "relative")},
  {Set(<<"server", "storage">>, Missing)}, {Set(Sqlite(<<>>), Missing)},
  {Set(Sqlite(<<"@enabled">>), "no"), Set(Mysql(<<"@enabled">>), "yes")},
  {Set(Sqlite(<<"synchronous">>), "full")},
  {Set(UI(<<"items-per-page", "@default">>), "10")},
  {Set(UI(<<"items-per-page", "@default">>), "11")},
  {Set(UI(<<"items-per-page", "@default">>), "11"), Set(UI(<<"items-per-page", "option">>), "11")},
  {Set(<<"server", "interface">>, "eth0")},
  {Set(<<"server", "interface">>, "eth0"), Set(<<"server", "ip">>, "ip")},
  {Set(<<"server", "presentationURL", "@append-to">>, "ip")},
  {Set(<<"server", "presentationURL", "@append-to">>, "ip"), Set(<<"server", "presentationURL">>, "good")},
  {Set(<<"server", "upnp-string-limit">>, "3")},
  {Set(LayoutType, "js")}, {Set(LayoutType, "js"), Set(ImportScript, "relative")},
  {Set(LayoutType, "js"), Set(ImportScript, "lost")},
  {Set(<<"server", "alive">>, "61")},
  {Set(TranscodingOn, "yes"), Set(<<"transcoding", "@fetch-buffer-size">>, "8")},
  {Set(Thumbnailer(<<"@enabled">>), "yes"), Set(Thumbnailer(<<"image-quality">>), "11")},
  {Set(MarkOn, "yes"), Set(Mark(<<"mark">>), Missing)},
  {Set(MarkOn, "yes"), Set(MarkContent, "audio")},
  {Set(Lastfm(<<"@enabled">>), "yes"), Set(Lastfm(<<"password">>), Missing)},
  {Set(YouTube(<<"@enabled">>), "yes")},
  {Set(YouTube(<<"@enabled">>), "yes"), Set(YouTube(<<"task">>), Missing)},
  {Set(YouTube(<<"@purge-after">>), "10")},
  {Set(SopCast(<<"@refresh">>), "10"), Set(SopCast(<<"@purge-after">>), "5")},
  {Set(Trailers(<<"@resolution">>), "720p")} }
Autoscanned == { {Set(AutoscanPath, d), Set(UseInotify, u)} :
    d \in {"timed", "inotify", "same", "twice", "timedBad", "inotifyBad", Odd},
    u \in {"yes", "no", "auto", Odd} }
Transcoded == { {Set(TranscodingOn, "yes"), Set(<<"transcoding", "profiles", "profile">>, p),
                 Set(MappingPath, q)} : p \in DOMAIN Profile, q \in {"good", Odd, Missing} }
FileChangesDef == Single \cup Related \cup Autoscanned \cup Transcoded \cup {{}}

-----------------------------------------------------------------------------
\* Links: the resources and kinds of items that the code tells apart, up to
\* two profiles, of which the second may be missing or for other streams.
Res(h) == [handler |-> h, rct |-> None, rh |-> FALSE, pr |-> None, fcc |-> None, sized |-> FALSE]
Picture == [Res("default") EXCEPT !.sized = TRUE]
Art(h) == [Res(h) EXCEPT !.rct = "aa"]
Media == [kind |-> "item", proxy |-> FALSE, video |-> FALSE, theora |-> FALSE, track |-> FALSE,
          ct |-> "none", ext |-> "", file |-> "a", res |-> <<Picture>>, embedded |-> {"art"}, played |-> FALSE]
MediaItemsDef ==
    { [Media EXCEPT !.track = TRUE, !.ct = "mp3", !.res = r] :
        r \in { <<Picture>>, <<Picture, Art("id3"), Art("fanart")>>, <<Picture, Art("fanart")>> } }
    \cup { [Media EXCEPT !.video = TRUE, !.ct = "avi", !.res = << [Picture EXCEPT !.fcc = f] >>] :
             f \in {None, "XVID", "DIVX"} }
    \cup { [Media EXCEPT !.ct = "ogg", !.theora = t] : t \in BOOLEAN }
    \cup { [Media EXCEPT !.ct = "jpg",
                         !.res = << Picture, [Res("libexif") EXCEPT !.rct = "EX_TH"], Art("fanart") >>] }
    \cup { [Media EXCEPT !.ext = e, !.kind = k] : e \in {"", "sub"}, k \in {"item", "active"} }
    \cup { [Media EXCEPT !.kind = k, !.ct = "mp3", !.res = << Res("default") >>] : k \in {"internal", "external"} }
    \cup { [Media EXCEPT !.kind = "external", !.proxy = p, !.video = TRUE, !.ct = "flv",
                         !.res = << Res("default"), [Res("exturl") EXCEPT !.rct = "th"] >>] : p \in BOOLEAN }
One == [name |-> "one", theora |-> FALSE, first |-> TRUE, hide |-> TRUE, installed |-> TRUE,
        fccMode |-> "none", fccs |-> {"XVID"}]
MediaProfiles ==
    { << >>, << [One EXCEPT !.first = FALSE, !.hide = FALSE] >>, << One >>,
      << [One EXCEPT !.fccMode = "process"],
         [One EXCEPT !.name = "two", !.fccMode = "ignore", !.installed = FALSE, !.theora = TRUE] >> }
MediaConfigsDef ==
    { [profiles |-> p, thumbs |-> Len(p) # 1, samsung |-> b, serveDir |-> b, mark |-> b] :
        p \in MediaProfiles, b \in BOOLEAN }

\* Online services: feeds of up to three videos, one of them incomplete.
Clip(id, lacks) == [kind |-> "item", id |-> id, lacks |-> lacks]
TextNode == [kind |-> "text", id |-> None, lacks |-> {}]
Asked(tag, amount, feed) ==
    [tag |-> tag, user |-> "u", query |-> "q", std |-> "top_rated", region |-> None,
     time |-> None, amount |-> amount, start |-> None, feed |-> feed]
FeedsDef == [a |-> << Clip("v1", {}), Clip("v2", {"link"}), Clip("v3", {}) >>,
          b |-> << Clip("v3", {}) >>, c |-> << >>, d |-> << Clip("v4", {}), TextNode, Clip("v5", {}) >>]
LinkedFeedsDef == [a |-> << "b", "d" >>, b |-> << >>, c |-> << >>, d |-> << "a" >>]
FeedTasksDef ==
    { << >>, << Asked("standardfeed", 1, "a"), Asked("uploads", None, "d") >>,
      << Asked("subscriptions", None, "a"), Asked("favorites", 2, "a") >>,
      << [Asked("search", 4, "a") EXCEPT !.start = 2], Asked("search", 5, "b") >> }
ChannelListsDef ==
    { << >>, << [kind |-> "group", nodes |-> << Clip("s1", {}), TextNode, Clip("s2", {"id"}) >>],
                [kind |-> "text", nodes |-> << >>] >> }
TrailerListsDef == { << >>, << Clip("t1", {}), Clip("t2", {"info"}), TextNode >> }

\* Edits of the web interface, on an online item and a link to it as well.
NoEdit == [title |-> Null, class |-> Null, mime |-> Null, desc |-> Null, location |-> Null,
           protocol |-> Null, action |-> Null, state |-> Null]
ObjectEditsDef ==
    { [NoEdit EXCEPT !.title = "b", !.class = "item"], [NoEdit EXCEPT !.class = "photo", !.desc = "d"],
      [NoEdit EXCEPT !.protocol = "rtsp", !.location = "u"],
      [NoEdit EXCEPT !.location = "http", !.mime = "text", !.state = ""], [NoEdit EXCEPT !.action = "g"],
      [NoEdit EXCEPT !.class = "video", !.desc = "d"] }
EditTextsDef ==
    {"", "octet", "file", "item", "photo", "video", "a", "b", "d", "f", "g", "u", "v", "nofile", "http",
     "http-get", "rtsp", "text", "on", "O"}
NewObjectOf(type, parent, location) ==
    [type |-> type, parent |-> parent, title |-> "a", class |-> "item", location |-> location,
     desc |-> Null, mime |-> Null, protocol |-> Null, action |-> "f", state |-> "on"]
ObjectAdditionsDef ==
    { NewObjectOf("container", 0, Null), [NewObjectOf("container", 0, Null) EXCEPT !.class = ""],
      [NewObjectOf("item", 2, "f") EXCEPT !.class = "photo", !.desc = "d"],
      NewObjectOf("item", 0, "nofile"), NewObjectOf("active", 0, "f"),
      NewObjectOf("external", 0, "http"), NewObjectOf("internal", 0, "u") }
OldRow(id, type, parent, title, location) ==
    [id |-> id, type |-> type, ref |-> 0, parent |-> parent, title |-> title, class |-> type,
     meta |-> Null, res |-> Null, location |-> location, mime |-> "octet", action |-> "",
     state |-> "", virt |-> TRUE, online |-> FALSE, useRef |-> FALSE]
ResourceProtocolsDef == << "http-get", "rtsp" >>
OnlineRowsDef ==
    (2 :> OldRow(2, "container", 0, "O", << "O" >>))
    @@ (3 :> [OldRow(3, "external", 2, "v", "http") EXCEPT
                  !.class = "video", !.mime = "video", !.meta = [desc |-> "d", other |-> FALSE],
                  !.res = << [protocol |-> "http-get", mime |-> "video"] >>, !.online = TRUE])
    @@ (4 :> [OldRow(4, "external", 0, "v", Null) EXCEPT
                  !.ref = 3, !.class = Null, !.mime = "video", !.online = TRUE])

\* Files to import: a song, a picture or a film, a playlist with a line and a
\* URL, a hidden one that lists a playlist; /m and one of the files are added.
Plain == [mime |-> "unknown", tags |-> << >>, theora |-> FALSE, lines |-> << >>, readable |-> TRUE]
Song(artist) ==
    [Plain EXCEPT !.mime = "audio",
                  !.tags = [artist |-> artist, album |-> "al", date |-> "d1", title |-> "t"]]
ListLine(at, title) == [url |-> FALSE, title |-> title, location |-> at]
UrlLine == [url |-> TRUE, title |-> "", location |-> << "http" >>]
FileA == << "m", "d", "a" >>
FileV == << "m", "d", "v" >>
FileP == << "m", "p" >>
FileL == << "m", "l" >>
FileN == << "m", "n" >>
ImportDisks ==
    { (FileA :> Song("ar")) @@ (FileP :> [Plain EXCEPT !.mime = "image", !.tags = [date |-> "d1"]])
          @@ (FileL :> [Plain EXCEPT !.mime = "m3u", !.lines = << ListLine(FileA, ""), UrlLine >>]),
      (FileA :> Song("br")) @@ (FileV :> [Plain EXCEPT !.mime = "ogg", !.theora = TRUE])
          @@ (FileN :> [Plain EXCEPT !.mime = "pls", !.lines = << ListLine(FileV, "w") >>]) }
ImportPaths == { << "m" >>, FileP }
JsLayout == [layout |-> "js", common |-> TRUE, import |-> TRUE, playlists |-> TRUE, link |-> TRUE, ignore |-> TRUE]
ImportConfigs == { JsLayout, [JsLayout EXCEPT !.layout = "builtin", !.link = FALSE] }
OnlineVideo(service) ==
    [type |-> "external", id |-> -1, ref |-> -1, parent |-> -1, title |-> << service >>,
     class |-> "item", location |-> << "u", service >>, mime |-> "video", meta |-> << >>, aux |-> << >>,
     res |-> "url", theora |-> FALSE, online |-> TRUE, service |-> service, virt |-> TRUE,
     useRef |-> FALSE, playlistRef |-> FALSE]
ImportVideos ==
    { [OnlineVideo("YouTube") EXCEPT !.aux = [rating |-> 47, request |-> 1, feed |-> "top"]],
      [OnlineVideo("SopCast") EXCEPT !.aux = [group |-> "g"]],
      [OnlineVideo("Trailers") EXCEPT !.aux = [post |-> "d1"], !.meta = [genre |-> "x,y", date |-> "d1"]] }
ImportStem == [a |-> "a", p |-> "p", l |-> "l", n |-> "n", v |-> "v"]
ImportDates == [d1 |-> [year |-> "2001", month |-> "02", seven |-> "2001-02"]]
ImportGenres == ("x,y" :> << "x", "y" >>)

\* UPnP: an album with a link to a track, a cover beside the file.
Row(parent, container, class, title) ==
    [parent |-> parent, container |-> container, class |-> class, title |-> title, track |-> 0,
     mime |-> None, artOf |-> {}, cover |-> FALSE, ref |-> -2, played |-> FALSE, updateID |-> 0]
TrackRow(parent, title, number) ==
    [Row(parent, FALSE, "track", title) EXCEPT !.track = number, !.mime = "audio"]
UpnpDatabasesDef ==
    { (0 :> Row(-1, TRUE, "plain", 0)) @@ (1 :> Row(0, TRUE, "plain", 1)) @@ (2 :> Row(0, TRUE, "album", 1))
      @@ (3 :> TrackRow(1, 2, 1))
      @@ (4 :> [TrackRow(2, 2, 2) EXCEPT !.ref = 3, !.cover = TRUE, !.played = TRUE])
      @@ (5 :> [Row(1, FALSE, "image", 3) EXCEPT !.mime = "image", !.artOf = {0}]) }
UpnpNewRowsDef == { [TrackRow(2, 1, 1) EXCEPT !.ref = 3] }

-----------------------------------------------------------------------------
\* Files, playlists and online videos imported by both layouts.
VARIABLES im_rows, im_disk, im_conf, im_task, im_valid, im_stuck, im_arranged,
    im_tasks, im_events
im_vars == << im_rows, im_disk, im_conf, im_task, im_valid, im_stuck, im_arranged,
    im_tasks, im_events >>
Importing == INSTANCE Import WITH
    Disks <- ImportDisks, Paths <- ImportPaths, Configs <- ImportConfigs,
    Videos <- ImportVideos, Hidden <- {FileN}, ConfigFile <- None,
    Stem <- ImportStem, Dates <- ImportDates, Genres <- ImportGenres,
    Requests <- << "favorites" >>, MaxTasks <- 2, MaxEvents <- 1,
    Undefined <- Undefined, rows <- im_rows, disk <- im_disk, conf <- im_conf,
    task <- im_task, valid <- im_valid, stuck <- im_stuck, arranged <- im_arranged,
    tasks <- im_tasks, events <- im_events

-----------------------------------------------------------------------------
allVars == << part, vars, cm_vars, ms_vars, os_vars, oe_vars, im_vars, up_vars >>

Others(p) ==
    /\ UNCHANGED part
    /\ p # "urls" => UNCHANGED vars
    /\ p # "config" => UNCHANGED cm_vars
    /\ p # "media" => UNCHANGED ms_vars
    /\ p # "online" => UNCHANGED os_vars
    /\ p # "edit" => UNCHANGED oe_vars
    /\ p # "import" => UNCHANGED im_vars
    /\ p # "upnp" => UNCHANGED up_vars

\* The components that do not move stay in an initial state.  Each layout starts
\* with a disk of its own, and finds the other one after a restart or a change.
DataInit ==
    /\ part \in {"urls", "config", "media", "online", "edit", "import", "upnp"}
    /\ Init
    /\ Config!Init
    /\ part # "config" => cm_file = Config!NoFile
    /\ Serving!Init
    /\ part # "media" => ms_config.profiles = << >> /\ ~ms_config.mark /\ ms_item = Media /\ ms_disk = {"a", "b"}
    /\ Services!Init
    /\ part # "online" => os_tasklist = << >>
    /\ Editing!Init
    /\ Importing!Init
    /\ im_conf = JsLayout <=> FileP \in DOMAIN im_disk
    /\ part # "import" => im_conf = JsLayout
    /\ Upnp!Init
    /\ part # "upnp" => up_hide /\ up_reading.id = 0

DataNext ==
    \/ part = "urls" /\ Next /\ Others("urls")
    \/ part = "config" /\ Config!Next /\ Others("config")
    \/ part = "media" /\ Serving!Next /\ Others("media")
    \/ part = "online" /\ Services!Next /\ Others("online")
    \/ part = "edit" /\ Editing!Next /\ Others("edit")
    \/ part = "import" /\ Importing!Next /\ Others("import")
    \/ part = "upnp" /\ Upnp!Next /\ Others("upnp")

DataSpec == DataInit /\ [][DataNext]_allVars

\* An imported item is in every place its layout gives it, once.
InItsPlaces == Importing!InItsPlaces
=============================================================================

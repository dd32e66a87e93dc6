----------------------------- MODULE ConfigManager -----------------------------
(*****************************************************************************)
(* The configuration file: found or created, migrated, validated, and read   *)
(* by the components when the server runs (config_manager.cc).               *)
(*                                                                           *)
(* All optional parts of the program are compiled in, and nothing is given   *)
(* on the command line.                                                      *)
(*****************************************************************************)
EXTENDS ConfigDocument, FiniteSets

CONSTANTS
    Old,        \* settings of files older than 0.12: parts of a document
    Changes,    \* what users change in a file: sets of pairs of a path and a text
    InotifySupported

VARIABLES
    file,       \* the document on the disk, NoFile or Truncated
    root,       \* the document in memory, or Nothing
    options,    \* the options validate() has set
    pc,         \* the section that comes next, or how it ended
    starts,     \* how often the program was started
    migrated,   \* whether this start migrated the document
    created,    \* whether this start created the file
    before      \* history: the options of the start before, if it was accepted
vars == <<file, root, options, pc, starts, migrated, created, before>>

YesNo == {"yes", "no"}
MaxStarts == 2

(* What stands at or below a path.                                           *)
Present(dom, path) == \E p \in DOMAIN dom : IsPrefix(path, p)
Without(dom, path) == [p \in {q \in DOMAIN dom : ~IsPrefix(path, q)} |-> dom[p]]
With(dom, path, text) ==
    [p \in DOMAIN dom \cup {path} |-> IF p = path THEN text ELSE dom[p]]
Text(dom, path) == IF path \in DOMAIN dom THEN dom[path] ELSE ""
(* What is said first, and the rest where nothing was said.                  *)
Then(first, rest) ==
    [p \in DOMAIN first \cup DOMAIN rest |-> IF p \in DOMAIN first THEN first[p] ELSE rest[p]]

-----------------------------------------------------------------------------
(* Files as users have them: the default one, that of an older version, and  *)
(* either with a change or two.                                              *)
Changed(dom, cs) ==
    LET gone == {c[1] : c \in {d \in cs : d[2] = Missing}}
        set  == {c \in cs : c[2] # Missing}
        kept == [p \in {q \in DOMAIN dom : \A g \in gone : ~IsPrefix(g, q)} |-> dom[p]]
    IN  [p \in {c[1] : c \in set} |-> (CHOOSE c \in set : c[1] = p)[2]] @@ kept
OldConfig(part) ==
    part @@ Without(Without(Without(DefaultConfig, <<"@version">>), <<"server", "storage">>),
                    <<"transcoding">>)
UserFiles ==
    {Changed(d, cs) : d \in {DefaultConfig} \cup {OldConfig(part) : part \in Old},
                      cs \in Changes}

Init ==
    /\ file \in {NoFile} \cup UserFiles
    /\ root = Nothing /\ options = Nothing /\ pc = "find"
    /\ starts = 1 /\ migrated = FALSE /\ created = FALSE /\ before = Nothing

-----------------------------------------------------------------------------
(* Starting: init(), load(), save().                                         *)
Refuse == pc' = "refused"

(* save_text() empties the file before it writes.                            *)
Saves(dom, next) ==
    \/ file' = dom /\ pc' = next
    \/ Refuse /\ file' \in {file, Truncated}

createDefaultConfig ==
    /\ pc = "find" /\ file = NoFile
    /\ \/ Saves(DefaultConfig, "load") /\ created' = TRUE
       \/ Refuse /\ UNCHANGED <<file, created>>            \* mkdir() fails
    /\ UNCHANGED <<root, options, starts, migrated, before>>

load ==
    /\ pc \in {"find", "load"} /\ file # NoFile
    /\ IF file = Truncated THEN Refuse /\ UNCHANGED root ELSE root' = file /\ pc' = "udn"
    /\ UNCHANGED <<file, options, starts, migrated, created, before>>

prepare_udn ==
    /\ pc = "udn"
    /\ IF ~Present(root, <<"server">>) \/ Text(root, <<"server", "udn">>) # ""
       THEN pc' = "version" /\ UNCHANGED <<file, root>>
       ELSE /\ root' = With(root, <<"server", "udn">>, "uuid")
            /\ Saves(root', "version")
    /\ UNCHANGED <<options, starts, migrated, created, before>>

(* The first half of migrate(): the storage gets an element per driver.      *)
OldStorage(dom) ==
    LET driver == Text(dom, Storage(<<"@driver">>))
        Of(name) == Text(dom, Storage(<<name>>))
        Kept(names, Place(_)) ==
            [p \in {Place(<<n>>) : n \in {m \in names : Storage(<<m>>) \in DOMAIN dom}} |->
                Of(Last(p))]
    IN  CASE driver = "sqlite3" ->
               Sqlite(<<"@enabled">>) :> "yes" @@
               Sqlite(<<"database-file">>) :> Of("database-file")
          [] driver = "mysql" ->
               Mysql(<<"@enabled">>) :> "yes" @@
               Kept({"host", "username", "database"} \cup
                    (IF toInt(Of("port")) > 0 THEN {"port"} ELSE {}), Mysql) @@
               Kept({"socket", "password"}, Storage)
          [] OTHER -> Nothing
Needed(dom) ==
    CASE Text(dom, Storage(<<"@driver">>)) = "sqlite3" -> {"database-file"}
      [] Text(dom, Storage(<<"@driver">>)) = "mysql" -> {"host", "database", "username"}
      [] OTHER -> {}
CanMigrate(dom) ==
    /\ Text(dom, Storage(<<"@driver">>)) # ""
    /\ \A n \in Needed(dom) : Storage(<<n>>) \in DOMAIN dom

Unless(path, dom, section) == IF Present(dom, path) THEN dom ELSE Then(dom, section)
WithOnline(dom) ==
    IF Present(dom, <<"import">>) THEN Unless(Online(<<>>), dom, OnlineSection) ELSE dom
WithAvi(dom) ==
    LET treat == Mappings(<<"mimetype-contenttype", "treat">>)
    IN  IF Text(dom, treat) \in {"", "avi"} THEN dom ELSE With(dom, treat, "avi")

ToVersion1(dom) ==
    LET bare == Without(dom, Storage(<<>>))
        new  == Then(bare, With(OldStorage(dom), Storage(<<>>), ""))
    IN  WithAvi(WithOnline(Unless(<<"transcoding">>, new, TranscodingSection)))

WithAttribute(element, name, text, dom) ==
    IF Present(dom, element) /\ element \o <<name>> \notin DOMAIN dom
    THEN With(dom, element \o <<name>>, text) ELSE dom
\* Mutant of ToVersion2: the version stays what it was.
ToVersion2Unnamed(dom) == WithOnline(Unless(Runtime(<<>>), dom, ExtendedRuntimeSection))
ToVersion2(dom) ==
    With(WithOnline(
           Unless(Runtime(<<>>),
                  WithAttribute(Storage(<<>>), "@caching", "yes",
                      WithAttribute(UI(<<>>), "@show-tooltips", "yes", dom)),
                  ExtendedRuntimeSection)),
         <<"@version">>, "2")

(* The head of validate(), with migrate().  A version that is no number is   *)
(* taken as it is.                                                           *)
migrate ==
    /\ pc = "version"
    /\ LET version == Text(root, <<"@version">>) IN
       IF ~Present(root, <<"server">>) THEN Refuse /\ UNCHANGED <<file, root, migrated>>
       ELSE IF version = "" THEN
            IF CanMigrate(root)
            THEN /\ root' = ToVersion2(ToVersion1(root))
                 /\ Saves(root', "server") /\ migrated' = TRUE
            ELSE Refuse /\ UNCHANGED <<file, root, migrated>>
       ELSE IF toInt(version) = 1 THEN
            /\ root' = ToVersion2(root)
            /\ Saves(root', "server") /\ migrated' = TRUE
       ELSE /\ IF toInt(version) > 2 THEN Refuse ELSE pc' = "server"
            /\ UNCHANGED <<file, root, migrated>>
    /\ UNCHANGED <<options, starts, created, before>>

-----------------------------------------------------------------------------
(* validate(), section by section.  A read looks at one path:                *)
(*   default is what is written to the document where there is no text,      *)
(*           Missing where that is an error,                                 *)
(*   fits    holds the texts that are accepted,                              *)
(*   option  is the option that is set, or NoOption.                         *)
AllTexts == DOMAIN Number \cup
    {"", "path", "relative", "lost", "yes", "no", "off", "normal", "full", "restore", "fail",
     "localhost", "gerbera", "Gerbera", "UTF-8", "uuid", "none", "ip", "port", "js",
     "builtin", "disabled", "auto", "prepend", "append", "* ", "video", "audio", "image",
     "include", "exclude", "mp4", "flv", "720p", "lastfmuser", "lastfmpass", "eth0",
     "good", Odd}
NotEmpty == AllTexts \ {""}
AtLeast(n) == {t \in AllTexts : toInt(t) >= n}
Between(m, n) == {t \in AllTexts : toInt(t) \in m..n}
Existing == {"path", "relative"}
Charsets == {"UTF-8"}
NoOption == "none"

Option(path, default, fits, option) ==
    [path |-> path, default |-> default, fits |-> fits, option |-> option]

(* getOption() in its two forms, checkOptionString(), prepare_path() and     *)
(* construct_path(): a relative path is resolved, in memory only.            *)
Resolved(t) == IF t = "relative" THEN "path" ELSE t
Read(s, r) ==
    LET text   == Text(s.root, r.path)
        found  == text # "" \/ (r.default = Missing /\ r.path \in DOMAIN s.root)
        value  == Resolved(IF found THEN text ELSE r.default)
        filled == IF found /\ value = text THEN s.root ELSE With(s.root, r.path, value)
    IN  IF ~s.ok THEN s
        ELSE IF (~found /\ r.default = Missing) \/ value \notin r.fits
             THEN [s EXCEPT !.ok = FALSE]
        ELSE [s EXCEPT !.root = filled,
                       !.options = IF r.option = NoOption THEN @ ELSE With(@, r.option, value)]

(* Readings one after the other, from a state s on; those that happen only   *)
(* with a text at a path, or within an element that is there.  Then what     *)
(* else a section demands of the document, and the lists it sets.            *)
AllRead(s, reads) ==
    LET after[n \in 0..Len(reads)] == IF n = 0 THEN s ELSE Read(after[n - 1], reads[n])
    IN  after[Len(reads)]
ReadIf(path, text, s, reads) == IF Text(s.root, path) = text THEN AllRead(s, reads) ELSE s
ReadIn(element, s, reads) == IF Present(s.root, element) THEN AllRead(s, reads) ELSE s
Checked(s, Fits(_), More(_)) ==
    IF s.ok /\ Fits(s.root) THEN [s EXCEPT !.options = Then(More(s.root), @)]
    ELSE [s EXCEPT !.ok = FALSE]

Here == [root |-> root, options |-> options, ok |-> TRUE]
Section(here, next, s) ==
    /\ pc = here
    /\ IF s.ok THEN root' = s.root /\ options' = s.options /\ pc' = next
       ELSE Refuse /\ UNCHANGED <<root, options>>
    /\ UNCHANGED <<file, starts, migrated, created, before>>
NoMore(dom) == Nothing
AllFit(dom) == TRUE

ServerOptions ==
    <<Option(<<"server", "home">>, "path", Existing, "SERVER_HOME"),
      Option(<<"server", "webroot">>, Missing, Existing, "SERVER_WEBROOT"),
      Option(<<"server", "tmpdir">>, "path", Existing, "SERVER_TMPDIR"),
      Option(<<"server", "servedir">>, "", Existing \cup {""}, "SERVER_SERVEDIR"),
      Option(<<"server", "udn">>, Missing, NotEmpty, "SERVER_UDN")>>
CheckedServer(s) == Checked(AllRead(s, ServerOptions), AllFit, NoMore)
validateServer == Section("server", "storage", CheckedServer(Here))

(* Exactly one database driver is enabled.                                   *)
Enabled(dom, driver, default) ==
    Present(dom, driver) /\ LET t == Text(dom, Append(driver, "@enabled"))
                            IN  (IF t = "" THEN default ELSE t) = "yes"
OneDriver(dom) == Enabled(dom, Sqlite(<<>>), "yes") # Enabled(dom, Mysql(<<>>), "no")
Driver(dom) ==
    IF Enabled(dom, Mysql(<<>>), "no")
    THEN [STORAGE_DRIVER |-> "mysql", STORAGE_MYSQL_SOCKET |-> Text(dom, Mysql(<<"socket">>)),
          STORAGE_MYSQL_PASSWORD |-> Text(dom, Mysql(<<"password">>))]
    ELSE [STORAGE_DRIVER |-> "sqlite3"]
CachingOptions == <<Option(Storage(<<"@caching">>), "yes", YesNo, "STORAGE_CACHING_ENABLED")>>
MysqlOn == <<Option(Mysql(<<"@enabled">>), "no", YesNo, NoOption)>>
SqliteOn == <<Option(Sqlite(<<"@enabled">>), "yes", YesNo, NoOption)>>
DriverRead(s) ==
    ReadIn(Sqlite(<<>>), ReadIn(Mysql(<<>>), AllRead(s, CachingOptions), MysqlOn), SqliteOn)
MysqlOptions ==
    <<Option(Mysql(<<"host">>), "localhost", NotEmpty, "STORAGE_MYSQL_HOST"),
      Option(Mysql(<<"database">>), "gerbera", NotEmpty, "STORAGE_MYSQL_DATABASE"),
      Option(Mysql(<<"username">>), "gerbera", NotEmpty, "STORAGE_MYSQL_USERNAME"),
      Option(Mysql(<<"port">>), "0", NotEmpty, "STORAGE_MYSQL_PORT")>>
SqliteOptions ==
    <<Option(Sqlite(<<"database-file">>), Missing, NotEmpty, "STORAGE_SQLITE_DATABASE_FILE"),
      Option(Sqlite(<<"synchronous">>), "off", {"off", "normal", "full"},
             "STORAGE_SQLITE_SYNCHRONOUS"),
      Option(Sqlite(<<"on-error">>), "restore", {"restore", "fail"}, "STORAGE_SQLITE_RESTORE"),
      Option(Sqlite(<<"backup", "@enabled">>), "no", YesNo, "STORAGE_SQLITE_BACKUP_ENABLED"),
      Option(Sqlite(<<"backup", "@interval">>), "600", AtLeast(1),
             "STORAGE_SQLITE_BACKUP_INTERVAL")>>
DriversRead(s) ==
    ReadIf(Sqlite(<<"@enabled">>), "yes",
           ReadIf(Mysql(<<"@enabled">>), "yes", DriverRead(s), MysqlOptions), SqliteOptions)
CheckedStorage(s) ==
    IF Present(s.root, Storage(<<>>))
    THEN Checked(DriversRead(s), OneDriver, Driver)
    ELSE [s EXCEPT !.ok = FALSE]
validateStorage == Section("storage", "ui", CheckedStorage(Here))

(* The drop down menu offers the default, and only valid numbers.            *)
MenuPath == UI(<<"items-per-page", "option">>)
MenuFits(dom) ==
    LET default == toInt(Text(dom, UI(<<"items-per-page", "@default">>)))
        menu    == Text(dom, MenuPath)
    IN  IF menu = "" THEN default \in {10, 25, 50, 100}
        ELSE toInt(menu) >= 1 /\ toInt(menu) = default
Menu(dom) == [UI_ITEMS_PER_PAGE_DROPDOWN |-> Text(dom, MenuPath),
              UI_ACCOUNT_LIST |-> Text(dom, UI(<<"accounts", "account">>))]
UIOptions ==
    <<Option(UI(<<"@enabled">>), "yes", YesNo, "UI_ENABLED"),
      Option(UI(<<"@show-tooltips">>), "yes", YesNo, "UI_SHOW_TOOLTIPS"),
      Option(UI(<<"@poll-when-idle">>), "no", YesNo, "UI_POLL_WHEN_IDLE"),
      Option(UI(<<"@poll-interval">>), "2", AtLeast(1), "UI_POLL_INTERVAL"),
      Option(UI(<<"items-per-page", "@default">>), "25", AtLeast(1),
             "UI_DEFAULT_ITEMS_PER_PAGE"),
      Option(UI(<<"accounts", "@enabled">>), "no", YesNo, "UI_ACCOUNTS_ENABLED"),
      Option(UI(<<"accounts", "@session-timeout">>), "30", AtLeast(1),
             "UI_SESSION_TIMEOUT")>>
CheckedUI(s) == Checked(AllRead(s, UIOptions), MenuFits, Menu)
validateUI == Section("ui", "import", CheckedUI(Here))

(* createDictionaryFromNodeset() and createArrayFromNodeset() skip what they *)
(* cannot use.                                                               *)
Entries(dom, path) == IF Text(dom, path) = Odd THEN "" ELSE Text(dom, path)
MappingLists(dom) ==
    [EXTENSION_TO_MIMETYPE_LIST |-> Entries(dom, Mappings(<<"extension-mimetype", "map">>)),
     MIMETYPE_TO_CONTENTTYPE_LIST |->
        IF Present(dom, Mappings(<<"mimetype-contenttype">>))
        THEN Entries(dom, Mappings(<<"mimetype-contenttype", "treat">>)) ELSE "standard"]
ImportOptions ==
    <<Option(<<"import", "@hidden-files">>, "no", YesNo, "HIDDEN_FILES"),
      Option(Mappings(<<"extension-mimetype", "@ignore-unknown">>), "no", YesNo,
             "IGNORE_UNKNOWN_EXTENSIONS"),
      Option(Mappings(<<"extension-mimetype", "@case-sensitive">>), "no", YesNo,
             "EXTENSION_TO_MIMETYPE_CASE_SENSITIVE"),
      Option(<<"import", "filesystem-charset">>, "UTF-8", Charsets, "FILESYSTEM_CHARSET"),
      Option(<<"import", "metadata-charset">>, "UTF-8", Charsets, "METADATA_CHARSET"),
      Option(<<"import", "playlist-charset">>, "UTF-8", Charsets, "PLAYLIST_CHARSET")>>
CheckedImport(s) == Checked(AllRead(s, ImportOptions), AllFit, MappingLists)
validateImport == Section("import", "network", CheckedImport(Here))

(* An interface or an address to bind to, not both; something to append the  *)
(* address to.                                                               *)
NetworkFits(dom) ==
    /\ Text(dom, <<"server", "interface">>) = "" \/ Text(dom, <<"server", "ip">>) = ""
    /\ \/ Text(dom, <<"server", "presentationURL", "@append-to">>) = "none"
       \/ Text(dom, <<"server", "presentationURL">>) # ""
NetworkOptions ==
    <<Option(<<"server", "protocolInfo", "@extend">>, "no", YesNo, "EXTEND_PROTOCOLINFO"),
      Option(<<"server", "protocolInfo", "@samsung-hack">>, "no", YesNo,
             "EXTEND_PROTOCOLINFO_SM_HACK"),
      Option(<<"server", "pc-directory", "@upnp-hide">>, "no", YesNo, "HIDE_PC_DIRECTORY"),
      Option(<<"server", "interface">>, "", AllTexts, "NETWORK_INTERFACE"),
      Option(<<"server", "ip">>, "", AllTexts, "SERVER_IP"),
      Option(<<"server", "bookmark">>, "path", NotEmpty, "BOOKMARK_FILE"),
      Option(<<"server", "name">>, "Gerbera", NotEmpty, "SERVER_NAME"),
      Option(<<"server", "presentationURL">>, "", AllTexts, "PRESENTATION_URL"),
      Option(<<"server", "presentationURL", "@append-to">>, "none", {"none", "ip", "port"},
             "APPEND_PRESENTATION_URL_TO"),
      Option(<<"server", "upnp-string-limit">>, "-1", AtLeast(4) \cup {"-1"},
             "UPNP_TITLE_AND_DESC_STRING_LIMIT")>>
CheckedNetwork(s) == Checked(AllRead(s, NetworkOptions), NetworkFits, NoMore)
validateNetwork == Section("network", "scripting", CheckedNetwork(Here))

ScriptingOptions ==
    <<Option(Scripting(<<"playlist-script">>), "path", Existing, "PLAYLIST_SCRIPT"),
      Option(Scripting(<<"common-script">>), "path", Existing, "COMMON_SCRIPT"),
      Option(Scripting(<<"playlist-script", "@create-link">>), "yes", YesNo,
             "PLAYLIST_SCRIPT_LINK_OBJECTS"),
      Option(LayoutType, "builtin", {"js", "builtin", "disabled"}, "VIRTUAL_LAYOUT_TYPE"),
      Option(Scripting(<<"@script-charset">>), "UTF-8", NotEmpty, "SCRIPTING_CHARSET"),
      Option(ImportScript, "path", NotEmpty, "IMPORT_SCRIPT")>>
JsOptions ==
    <<Option(Scripting(<<"@script-charset">>), "UTF-8", Charsets, "SCRIPTING_CHARSET"),
      Option(ImportScript, "path", Existing, "IMPORT_SCRIPT")>>
CheckedScripting(s) ==
    Checked(ReadIf(LayoutType, "js", AllRead(s, ScriptingOptions), JsOptions),
            AllFit, NoMore)
validateScripting == Section("scripting", "alive", CheckedScripting(Here))

ClassList(dom) ==
    [MIMETYPE_TO_UPNP_CLASS_LIST |-> Entries(dom, Mappings(<<"mimetype-upnpclass", "map">>))]
AliveOptions ==
    <<Option(<<"server", "port">>, "0", AllTexts, "SERVER_PORT"),
      Option(<<"server", "alive">>, "1800", AtLeast(62), "ALIVE_INTERVAL")>>
CheckedAlive(s) == Checked(AllRead(s, AliveOptions), AllFit, ClassList)
validateAlive == Section("alive", "autoscan", CheckedAlive(Here))

(* The directories of a scan mode: "timed" and "inotify" are good ones of    *)
(* that mode, "same" is one location in both modes, "twice" one of two timed *)
(* scans; "timedBad" and "inotifyBad" lack what only that mode asks for.     *)
createAutoscanListFromNodeset(t, scanmode) ==
    IF t = Odd \/ t \in (IF scanmode = "timed" THEN {"timedBad", "twice"} ELSE {"inotifyBad"})
    THEN Odd ELSE IF t \in {scanmode, "same"} THEN t ELSE ""
Inotify(dom) == InotifySupported /\ Text(dom, UseInotify) \in {"auto", "yes"}
TimedList(dom) == createAutoscanListFromNodeset(Text(dom, AutoscanPath), "timed")
InotifyList(dom) == createAutoscanListFromNodeset(Text(dom, AutoscanPath), "inotify")
AutoscanLists(dom) ==
    IF Inotify(dom)
    THEN [AUTOSCAN_TIMED_LIST |-> TimedList(dom), AUTOSCAN_USE_INOTIFY |-> "yes",
          AUTOSCAN_INOTIFY_LIST |-> InotifyList(dom)]
    ELSE [AUTOSCAN_TIMED_LIST |-> TimedList(dom), AUTOSCAN_USE_INOTIFY |-> "no"]
AutoscanFits(dom) ==
    /\ TimedList(dom) # Odd
    /\ Text(dom, UseInotify) = "yes" => InotifySupported
    /\ Inotify(dom) => InotifyList(dom) # Odd
AutoscanOptions ==
    <<Option(UseInotify, "auto", YesNo \cup {"auto"}, NoOption)>>
CheckedAutoscan(s) == Checked(AllRead(s, AutoscanOptions), AutoscanFits, AutoscanLists)
validateAutoscan == Section("autoscan", "transcoding", CheckedAutoscan(Here))

(* createTranscodingProfileListFromNodeset(): the check of the fill size     *)
(* looks at another variable, but as the size is unsigned a negative one     *)
(* exceeds the buffer.                                                       *)
Positive(t) == t \in {"source", "off"} \/ toInt(t) > 0
AgentOK(p) == p.agent /\ p.command = "path" /\ p.arguments # ""
BufferOK(p) ==
    /\ p.buffer /\ toInt(p.size) >= 0
    /\ toInt(p.chunk) \in 0..toInt(p.size) /\ toInt(p.fill) \in 0..toInt(p.size)
ProfileOK(p) ==
    /\ p.type = "external" /\ p.name # "" /\ p.mimetype # "" /\ p.fourcc # Odd
    /\ Positive(p.frequency) /\ Positive(p.channels) /\ p.flags \subseteq YesNo
    /\ AgentOK(p) /\ BufferOK(p)
ProfilesOK(dom) ==
    /\ Text(dom, MappingPath) # Odd
    /\ LET t == Text(dom, <<"transcoding", "profiles", "profile">>) IN
       t = "" \/ /\ t \in DOMAIN Profile
                 /\ Profile[t].enabled \in YesNo
                 /\ Profile[t].enabled = "yes" =>
                      ProfileOK(Profile[t]) /\ Profile[t].mapped /\ Text(dom, MappingPath) # ""
TranscodingFits(dom) == Text(dom, TranscodingOn) = "yes" => ProfilesOK(dom)
ProfileList(dom) ==
    LET t == Text(dom, <<"transcoding", "profiles", "profile">>)
    IN  [TRANSCODING_PROFILE_LIST |->
            IF Text(dom, TranscodingOn) = "yes" /\ t # "" /\ Profile[t].enabled = "yes"
            THEN t ELSE ""]
TranscodingOptions ==
    <<Option(TranscodingOn, "no", YesNo, NoOption)>>
FetchOptions ==
    <<Option(<<"transcoding", "@fetch-buffer-size">>, "262144", AtLeast(CURL_MAX_WRITE_SIZE),
             "TRANSCODING_CURL_BUFFER_SIZE"),
      Option(<<"transcoding", "@fetch-buffer-fill-size">>, "0", AtLeast(0),
             "TRANSCODING_CURL_FILL_SIZE")>>
CheckedTranscoding(s) ==
    Checked(ReadIf(TranscodingOn, "yes", AllRead(s, TranscodingOptions), FetchOptions),
            TranscodingFits, ProfileList)
validateTranscoding == Section("transcoding", "libraries", CheckedTranscoding(Here))

ThumbnailerOn == Thumbnailer(<<"@enabled">>)
AuxData(dom, library) == Entries(dom, <<"import", "library-options", library, "auxdata", "add-data">>)
LibraryLists(dom) ==
    [CUSTOM_HTTP_HEADERS |-> Entries(dom, <<"server", "custom-http-headers", "add">>),
     EXIF_AUXDATA_TAGS_LIST |-> AuxData(dom, "libexif"),
     EXIV2_AUXDATA_TAGS_LIST |-> AuxData(dom, "exiv2"),
     ID3_AUXDATA_TAGS_LIST |-> AuxData(dom, "id3")]
LibrariesOptions ==
    <<Option(ThumbnailerOn, "no", YesNo, "THUMBNAILER_ENABLED")>>
ThumbnailerOptions ==
    <<Option(Thumbnailer(<<"thumbnail-size">>), "128", AtLeast(1), "THUMBNAILER_THUMBSIZE"),
      Option(Thumbnailer(<<"seek-percentage">>), "5", AtLeast(0),
             "THUMBNAILER_SEEK_PERCENTAGE"),
      Option(Thumbnailer(<<"filmstrip-overlay">>), "yes", YesNo,
             "THUMBNAILER_FILMSTRIP_OVERLAY"),
      Option(Thumbnailer(<<"workaround-bugs">>), "no", YesNo, "THUMBNAILER_WORKAROUND_BUGS"),
      Option(Thumbnailer(<<"image-quality">>), "8", Between(0, 10),
             "THUMBNAILER_IMAGE_QUALITY"),
      Option(Thumbnailer(<<"cache-dir">>), "", AllTexts, "THUMBNAILER_CACHE_DIR"),
      Option(Thumbnailer(<<"cache-dir", "@enabled">>), "yes", YesNo,
             "THUMBNAILER_CACHE_DIR_ENABLED")>>
CheckedLibraries(s) ==
    Checked(ReadIf(ThumbnailerOn, "yes", AllRead(s, LibrariesOptions), ThumbnailerOptions),
            AllFit, LibraryLists)
validateLibraries == Section("libraries", "played", CheckedLibraries(Here))

(* The list of contents is set with its first entry, so never if empty.      *)
\* Mutant of MarkFits: marking may be enabled with nothing to mark.
MarkFitsEmpty(dom) ==
    MarkContent \in DOMAIN dom => dom[MarkContent] \in {"video", "audio", "image"}
MarkFits(dom) ==
    IF MarkContent \in DOMAIN dom THEN dom[MarkContent] \in {"video", "audio", "image"}
    ELSE Text(dom, MarkOn) = "no"
MarkList(dom) ==
    IF MarkContent \in DOMAIN dom THEN [MARK_PLAYED_CONTENT_LIST |-> dom[MarkContent]] ELSE Nothing
MarkPlayedOptions ==
    <<Option(MarkOn, "no", YesNo, "MARK_PLAYED_ENABLED"),
      Option(Mark(<<"@suppress-cds-updates">>), "yes", YesNo, "MARK_PLAYED_SUPPRESS_CDS_UPDATES"),
      Option(Mark(<<"string", "@mode">>), "prepend", {"prepend", "append"},
             "MARK_PLAYED_STRING_MODE_PREPEND"),
      Option(Mark(<<"string">>), "* ", NotEmpty, "MARK_PLAYED_STRING")>>
CheckedMarkPlayed(s) == Checked(AllRead(s, MarkPlayedOptions), MarkFits, MarkList)
validateMarkPlayed == Section("played", "lastfm", CheckedMarkPlayed(Here))

(* No location may be scanned in both modes, even if inotify is not used.    *)
ModesDiffer(dom) == Text(dom, AutoscanPath) \notin {"same", "inotifyBad"}
LastfmOptions ==
    <<Option(Lastfm(<<"@enabled">>), "no", YesNo, "LASTFM_ENABLED")>>
AccountOptions ==
    <<Option(Lastfm(<<"username">>), "lastfmuser", NotEmpty, "LASTFM_USERNAME"),
      Option(Lastfm(<<"password">>), "lastfmpass", NotEmpty, "LASTFM_PASSWORD")>>
MagicOptions ==
    <<Option(<<"import", "magic-file">>, "", Existing \cup {""}, "MAGIC_FILE")>>
CheckedLastfm(s) ==
    Checked(AllRead(ReadIf(Lastfm(<<"@enabled">>), "yes", AllRead(s, LastfmOptions), AccountOptions),
                    MagicOptions),
            ModesDiffer, NoMore)
validateLastfm == Section("lastfm", "youtube", CheckedLastfm(Here))

(* Online content.  YouTube is checked whether enabled or not.               *)
PurgeAfterRefresh(dom, purgeAfter, refresh) ==
    LET purge == toInt(Text(dom, purgeAfter))
    IN  toInt(Text(dom, refresh)) >= purge => purge = 0
TasksFit(dom) ==
    /\ PurgeAfterRefresh(dom, YouTube(<<"@purge-after">>), YouTube(<<"@refresh">>))
    /\ Text(dom, YouTube(<<"task">>)) # Odd
    /\ Text(dom, YouTube(<<"@enabled">>)) = "yes" => Text(dom, YouTube(<<"task">>)) # ""
TaskList(dom) == [YOUTUBE_TASK_LIST |-> Text(dom, YouTube(<<"task">>))]
YouTubeOptions ==
    <<Option(YouTube(<<"@enabled">>), "no", YesNo, "YOUTUBE_ENABLED"),
      Option(YouTube(<<"@racy-content">>), "exclude", {"include", "exclude"}, "YOUTUBE_RACY"),
      Option(YouTube(<<"@format">>), "mp4", {"mp4", "flv"}, "YOUTUBE_FORMAT_MP4"),
      Option(YouTube(<<"@hd">>), "no", YesNo, "YOUTUBE_PREFER_HD"),
      Option(YouTube(<<"@refresh">>), "28800", AllTexts, "YOUTUBE_REFRESH"),
      Option(YouTube(<<"@purge-after">>), "604800", AllTexts, "YOUTUBE_PURGE_AFTER"),
      Option(YouTube(<<"@update-at-start">>), "no", YesNo, "YOUTUBE_UPDATE_AT_START")>>
CheckedYouTube(s) == Checked(AllRead(s, YouTubeOptions), TasksFit, TaskList)
validateYouTube == Section("youtube", "services", CheckedYouTube(Here))

ServicesFit(dom) == PurgeAfterRefresh(dom, SopCast(<<"@purge-after">>), SopCast(<<"@refresh">>))
PurgeTrailers(dom) == [ATRAILERS_PURGE_AFTER |-> Text(dom, Trailers(<<"@refresh">>))]
ServicesOptions ==
    <<Option(SopCast(<<"@enabled">>), "no", YesNo, "SOPCAST_ENABLED"),
      Option(SopCast(<<"@refresh">>), "0", AllTexts, "SOPCAST_REFRESH"),
      Option(SopCast(<<"@purge-after">>), "0", AllTexts, "SOPCAST_PURGE_AFTER"),
      Option(SopCast(<<"@update-at-start">>), "no", YesNo, "SOPCAST_UPDATE_AT_START"),
      Option(Trailers(<<"@enabled">>), "no", YesNo, "ATRAILERS_ENABLED"),
      Option(Trailers(<<"@refresh">>), "43200", AllTexts, "ATRAILERS_REFRESH"),
      Option(Trailers(<<"@update-at-start">>), "no", YesNo, "ATRAILERS_UPDATE_AT_START"),
      Option(Trailers(<<"@resolution">>), "640", {"640", "720p"}, "ATRAILERS_RESOLUTION")>>
CheckedServices(s) == Checked(AllRead(s, ServicesOptions), ServicesFit, PurgeTrailers)
validateServices == Section("services", "accepted", CheckedServices(Here))

(* The program is started again, after it ended or gave up.                  *)
Restart ==
    /\ pc \in {"accepted", "refused"} /\ starts < MaxStarts
    /\ starts' = starts + 1 /\ pc' = "find"
    /\ before' = IF pc = "accepted" THEN options ELSE before
    /\ root' = Nothing /\ options' = Nothing /\ migrated' = FALSE /\ created' = FALSE
    /\ UNCHANGED file

validate ==
    \/ validateServer \/ validateStorage \/ validateUI \/ validateImport \/ validateNetwork
    \/ validateScripting \/ validateAlive \/ validateAutoscan \/ validateTranscoding
    \/ validateLibraries \/ validateMarkPlayed \/ validateLastfm \/ validateYouTube
    \/ validateServices
Next == createDefaultConfig \/ load \/ prepare_udn \/ migrate \/ validate \/ Restart
Spec == Init /\ [][Next]_vars

-----------------------------------------------------------------------------
(* Who reads which option without asking whether it is set, and the option   *)
(* (with its value) under which the reader runs: getOption() throws, and the *)
(* getters of lists crash, on an option that validate() has left out.        *)
Readers ==
    [o : {"SERVER_HOME", "SERVER_WEBROOT", "SERVER_TMPDIR", "SERVER_SERVEDIR", "SERVER_UDN",
          "STORAGE_DRIVER", "STORAGE_CACHING_ENABLED", "UI_ENABLED", "UI_POLL_INTERVAL",
          "UI_DEFAULT_ITEMS_PER_PAGE", "UI_ITEMS_PER_PAGE_DROPDOWN", "UI_ACCOUNT_LIST",
          "UI_SESSION_TIMEOUT", "EXTENSION_TO_MIMETYPE_LIST", "MIMETYPE_TO_CONTENTTYPE_LIST",
          "MIMETYPE_TO_UPNP_CLASS_LIST", "AUTOSCAN_TIMED_LIST", "AUTOSCAN_USE_INOTIFY",
          "TRANSCODING_PROFILE_LIST", "CUSTOM_HTTP_HEADERS", "ID3_AUXDATA_TAGS_LIST",
          "MARK_PLAYED_ENABLED", "LASTFM_ENABLED", "YOUTUBE_TASK_LIST", "MAGIC_FILE"},
     when : {<<>>}] \cup
    [o : {"STORAGE_MYSQL_HOST", "STORAGE_MYSQL_PORT", "STORAGE_MYSQL_PASSWORD",
          "STORAGE_MYSQL_SOCKET"}, when : {<<"STORAGE_DRIVER", "mysql">>}] \cup
    [o : {"STORAGE_SQLITE_DATABASE_FILE", "STORAGE_SQLITE_SYNCHRONOUS", "STORAGE_SQLITE_RESTORE",
          "STORAGE_SQLITE_BACKUP_ENABLED", "STORAGE_SQLITE_BACKUP_INTERVAL"},
     when : {<<"STORAGE_DRIVER", "sqlite3">>}] \cup
    [o : {"AUTOSCAN_INOTIFY_LIST"}, when : {<<"AUTOSCAN_USE_INOTIFY", "yes">>}] \cup
    [o : {"TRANSCODING_CURL_BUFFER_SIZE", "TRANSCODING_CURL_FILL_SIZE"},
     when : {<<"TRANSCODING_PROFILE_LIST", "good">>}] \cup
    [o : {"THUMBNAILER_THUMBSIZE", "THUMBNAILER_CACHE_DIR", "THUMBNAILER_CACHE_DIR_ENABLED",
          "THUMBNAILER_IMAGE_QUALITY"}, when : {<<"THUMBNAILER_ENABLED", "yes">>}] \cup
    [o : {"MARK_PLAYED_CONTENT_LIST"}, when : {<<"MARK_PLAYED_ENABLED", "yes">>}] \cup
    [o : {"LASTFM_USERNAME", "LASTFM_PASSWORD"}, when : {<<"LASTFM_ENABLED", "yes">>}]

TypeOK ==
    /\ DOMAIN options \subseteq STRING /\ starts \in 1..MaxStarts
    /\ migrated \in BOOLEAN /\ created \in BOOLEAN

(* What validate() accepts is complete: no component asks for an option that *)
(* was never set (the comment above getOption() promises it for all).        *)
AcceptedIsComplete ==
    pc = "accepted" =>
        \A r \in Readers :
            (r.when = <<>> \/ options[r.when[1]] = r.when[2]) => r.o \in DOMAIN options

(* A configuration that was accepted is accepted by the next start, with the *)
(* same options and without another migration: what migrate() and            *)
(* prepare_udn() wrote to the disk is what they validated.                   *)
SecondStartAgrees ==
    before # Nothing =>
        /\ pc # "refused" /\ ~migrated /\ ~created
        /\ pc = "accepted" => options = before
==============================================================================

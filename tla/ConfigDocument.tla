----------------------------- MODULE ConfigDocument -----------------------------
(*****************************************************************************)
(* The configuration file as a document (config_manager.cc).                 *)
(*                                                                           *)
(* A document is a function from paths to texts: a path is the sequence of   *)
(* its elements, with "@..." for an attribute; elements that may be repeated *)
(* share one path, whose text says what they are.                            *)
(*****************************************************************************)
EXTENDS Integers, Sequences, SequencesExt, TLC

\* Texts: numbers, paths ("path" exists, "relative" does so below the home
\* directory, "lost" does not), words, and "odd", which nothing accepts.
Number == [t \in {"-3", "-1", "0", "1", "2", "3", "4", "5", "8", "10", "11", "25", "30",
                  "61", "62", "128", "600", "640", "1800", "16384", "28800",
                  "43200", "262144", "604800"} |->
    CASE t = "-3" -> -3 [] t = "-1" -> -1 [] t = "0" -> 0 [] t = "1" -> 1
      [] t = "2" -> 2 [] t = "3" -> 3 [] t = "4" -> 4 [] t = "5" -> 5 [] t = "8" -> 8
      [] t = "10" -> 10 [] t = "11" -> 11 [] t = "25" -> 25 [] t = "30" -> 30
      [] t = "61" -> 61 [] t = "62" -> 62 [] t = "128" -> 128 [] t = "600" -> 600
      [] t = "640" -> 640 [] t = "1800" -> 1800 [] t = "16384" -> 16384
      [] t = "28800" -> 28800 [] t = "43200" -> 43200 [] t = "262144" -> 262144
      [] OTHER -> 604800]
toInt(t) == IF t \in DOMAIN Number THEN Number[t] ELSE 0
CURL_MAX_WRITE_SIZE == 16384

\* The transcoding profiles that the text of <profiles> may stand for.
GoodProfile ==
    [enabled |-> "yes", type |-> "external", name |-> "vlcmpeg", mimetype |-> "video/mpeg",
     fourcc |-> "none", frequency |-> "source", channels |-> "off",
     flags |-> {"yes", "no"}, agent |-> TRUE, command |-> "path",
     arguments |-> "%in %out", buffer |-> TRUE,
     size |-> "128", chunk |-> "8", fill |-> "10", mapped |-> TRUE]
Profile ==
    [good |-> GoodProfile,
     off |-> [GoodProfile EXCEPT !.enabled = "no", !.command = "lost"],
     untyped |-> [GoodProfile EXCEPT !.type = "remote"],
     flagged |-> [GoodProfile EXCEPT !.flags = {"yes", "odd"}],
     lost |-> [GoodProfile EXCEPT !.command = "lost"],
     overfull |-> [GoodProfile EXCEPT !.fill = "600"],
     negative |-> [GoodProfile EXCEPT !.fill = "-3"],
     unmapped |-> [GoodProfile EXCEPT !.mapped = FALSE]]

Nothing == <<>>                     \* an empty function: no document, no options
NoFile == Nothing
Truncated == [p \in {<<>>} |-> "truncated"]    \* a file that does not parse
Missing == "missing"                \* the text of what is not there
Odd == "odd"

-----------------------------------------------------------------------------
(* renderTranscodingSection(), renderExtendedRuntimeSection(),               *)
(* renderOnlineSection().                                                    *)
TranscodingSection ==
    <<"transcoding", "@enabled">> :> "no" @@
    <<"transcoding", "mimetype-profile-mappings", "transcode">> :> "good" @@
    <<"transcoding", "profiles", "profile">> :> "off"

Runtime(path) == <<"server", "extended-runtime-options">> \o path
Thumbnailer(path) == Runtime(<<"ffmpegthumbnailer">> \o path)
Mark(path) == Runtime(<<"mark-played-items">> \o path)
Lastfm(path) == Runtime(<<"lastfm">> \o path)

ExtendedRuntimeSection ==
    Thumbnailer(<<"@enabled">>) :> "no" @@ Thumbnailer(<<"thumbnail-size">>) :> "128" @@
    Thumbnailer(<<"seek-percentage">>) :> "5" @@
    Thumbnailer(<<"filmstrip-overlay">>) :> "yes" @@
    Thumbnailer(<<"workaround-bugs">>) :> "no" @@ Thumbnailer(<<"image-quality">>) :> "8" @@
    Mark(<<"@enabled">>) :> "no" @@ Mark(<<"@suppress-cds-updates">>) :> "yes" @@
    Mark(<<"string", "@mode">>) :> "prepend" @@ Mark(<<"string">>) :> "* " @@
    Mark(<<"mark", "content">>) :> "video" @@
    Lastfm(<<"@enabled">>) :> "no" @@ Lastfm(<<"username">>) :> "lastfmuser" @@
    Lastfm(<<"password">>) :> "lastfmpass"

Online(path) == <<"import", "online-content">> \o path
YouTube(path) == Online(<<"YouTube">> \o path)
SopCast(path) == Online(<<"SopCast">> \o path)
Trailers(path) == Online(<<"AppleTrailers">> \o path)

OnlineSection ==
    YouTube(<<"@enabled">>) :> "no" @@ YouTube(<<"@refresh">>) :> "28800" @@
    YouTube(<<"@update-at-start">>) :> "no" @@ YouTube(<<"@purge-after">>) :> "604800" @@
    YouTube(<<"@racy-content">>) :> "exclude" @@ YouTube(<<"@format">>) :> "mp4" @@
    YouTube(<<"@hd">>) :> "no" @@ YouTube(<<"task">>) :> "good" @@
    Trailers(<<"@enabled">>) :> "no" @@ Trailers(<<"@refresh">>) :> "43200" @@
    Trailers(<<"@update-at-start">>) :> "no" @@ Trailers(<<"@resolution">>) :> "640"

Storage(path) == <<"server", "storage">> \o path
Sqlite(path) == Storage(<<"sqlite3">> \o path)
Mysql(path) == Storage(<<"mysql">> \o path)
UI(path) == <<"server", "ui">> \o path
Scripting(path) == <<"import", "scripting">> \o path
Mappings(path) == <<"import", "mappings">> \o path

(* The document of createDefaultConfig().                                    *)
DefaultConfig ==
    <<"@version">> :> "2" @@ UI(<<"@enabled">>) :> "yes" @@ UI(<<"@show-tooltips">>) :> "yes" @@
    UI(<<"accounts", "@enabled">>) :> "no" @@
    UI(<<"accounts", "@session-timeout">>) :> "30" @@
    UI(<<"accounts", "account">>) :> "gerbera" @@
    <<"server", "name">> :> "Gerbera" @@ <<"server", "udn">> :> "" @@
    <<"server", "home">> :> "path" @@ <<"server", "webroot">> :> "path" @@
    <<"server", "alive">> :> "1800" @@ Sqlite(<<"@enabled">>) :> "yes" @@
    Sqlite(<<"database-file">>) :> "relative" @@ Sqlite(<<"backup", "@enabled">>) :> "yes" @@
    Sqlite(<<"backup", "@interval">>) :> "600" @@ Mysql(<<"@enabled">>) :> "no" @@
    Mysql(<<"host">>) :> "localhost" @@ Mysql(<<"username">>) :> "gerbera" @@
    Mysql(<<"database">>) :> "gerbera" @@
    <<"server", "protocolInfo", "@extend">> :> "no" @@ ExtendedRuntimeSection @@
    <<"import", "@hidden-files">> :> "no" @@ Scripting(<<"@script-charset">>) :> "UTF-8" @@
    Scripting(<<"common-script">>) :> "path" @@ Scripting(<<"playlist-script">>) :> "path" @@
    Scripting(<<"virtual-layout", "@type">>) :> "builtin" @@
    Scripting(<<"virtual-layout", "import-script">>) :> "path" @@
    Mappings(<<"extension-mimetype", "@ignore-unknown">>) :> "no" @@
    Mappings(<<"extension-mimetype", "map">>) :> "good" @@
    Mappings(<<"mimetype-upnpclass", "map">>) :> "good" @@
    Mappings(<<"mimetype-contenttype", "treat">>) :> "avi" @@
    OnlineSection @@ TranscodingSection

(* Paths that several sections ask for.                                      *)
LayoutType == Scripting(<<"virtual-layout", "@type">>)
ImportScript == Scripting(<<"virtual-layout", "import-script">>)
MarkOn == Mark(<<"@enabled">>)
MarkContent == Mark(<<"mark", "content">>)
TranscodingOn == <<"transcoding", "@enabled">>
AutoscanPath == <<"import", "autoscan", "directory">>
UseInotify == <<"import", "autoscan", "@use-inotify">>
MappingPath == <<"transcoding", "mimetype-profile-mappings", "transcode">>

=============================================================================

---------------------------- MODULE MediaServing ----------------------------
(***************************************************************************)
(* From the description of an item to its bytes.  The reply to a Browse    *)
(* gives a link for every resource of an item (cds_resource_manager.cc,    *)
(* upnp_xml.cc); a player asks the web server for a link                   *)
(* (web_callbacks.cc), which asks a request handler twice: get_info() for  *)
(* the headers, then open() for the content.  The two sides agree on a     *)
(* resource by its number among the resources in the database only: the    *)
(* thumbnail and the transcoded resources are added while the reply is     *)
(* rendered, the transcoded ones at the front if the profile says so.      *)
(*                                                                         *)
(* One item, in the database, is rendered, asked for and changed: by a     *)
(* scan of its file, by the script of an active item, and by the mark that *)
(* it was played.  open() loads it once and works with that copy.          *)
(***************************************************************************)
EXTENDS Integers, Sequences, FiniteSets

CONSTANTS
    Items,      \* what the item can be
    Configs,    \* [profiles: of its type, thumbs, samsung, serveDir, mark]
    Files,      \* files that an item can point to
    MaxChanges, \* bound: scans of the file and files that come or go
    None

VARIABLES
    config,
    item,       \* the item in the database
    disk,       \* the files that exist, "subtitles" and "folder.jpg"
    links,      \* of the last reply
    shown,      \* the item and the files when it was rendered
    request,    \* the request in progress: [link, stage, info, content], and
                \* the item as get_info() saw it
    obj,        \* the copy that open() works with
    changes     \* changes so far

vars == << config, item, disk, links, shown, request, obj, changes >>

-----------------------------------------------------------------------------
(* A resource: its handler, the content type and handler among the         *)
(* parameters of its link, the profile, the fourcc, whether a resolution   *)
(* is known.                                                               *)
Resource(h) == [handler |-> h, rct |-> None, rh |-> FALSE, pr |-> None,
                fcc |-> None, sized |-> FALSE]

IsURL(i) == i.kind \in {"internal", "external"}

\* Resources with album art are shown as upnp:albumArtURI.
ArtHandlers == {"id3", "mp4", "flac", "fanart", "exturl"}

\* What the database has: resources without a profile, of which the first is
\* the item itself and the others are pictures.  A track has album art only,
\* an URL the thumbnails of its service, and nobody measures what is behind it.
Resources ==
    [handler : {"default", "libexif"} \cup ArtHandlers, rct : {None, "aa", "th", "EX_TH"},
     rh : {FALSE}, pr : {None}, fcc : STRING \cup {None}, sized : BOOLEAN]

ItemType ==
    [kind : {"item", "active", "internal", "external"}, proxy : BOOLEAN, video : BOOLEAN,
     theora : BOOLEAN, track : BOOLEAN, ct : STRING, ext : STRING, file : Files,
     res : Seq(Resources), embedded : SUBSET {"art"}, played : BOOLEAN]

HasPictures(i) ==
    /\ Len(i.res) >= 1 /\ i.res[1].handler = "default" /\ (IsURL(i) => ~i.res[1].sized)
    /\ \A n \in 2 .. Len(i.res) :
         /\ i.res[n].handler # "default"
         /\ i.res[n].handler = "libexif" => i.res[n].rct = "EX_TH"
         /\ IsURL(i) => i.res[n].handler = "exturl"
         /\ i.track => i.res[n].handler \in ArtHandlers

MediaAssumption ==
    /\ Items \subseteq ItemType /\ \A i \in Items : HasPictures(i)
    /\ \A c \in Configs : /\ Len(c.profiles) \in Nat /\ DOMAIN c.profiles = 1 .. Len(c.profiles)
                          /\ \A k \in 1 .. Len(c.profiles) : c.profiles[k].name \in STRING
    /\ None \notin STRING \cup ItemType

-----------------------------------------------------------------------------
(* The links of an item.                                                   *)

\* The thumbnail of a video, appended behind the resources of the database.
Thumbnail(i, c) ==
    IF c.thumbs /\ (i.video \/ i.theora) /\ i.res[1].sized
    THEN << [Resource("ffth") EXCEPT !.rh = TRUE, !.rct = "th", !.sized = TRUE] >>
    ELSE << >>

\* A profile that is not for this stream; first is the resource that is the
\* first one at that moment.
Skips(tp, i, first) ==
    \/ i.ct = "ogg" /\ i.theora # tp.theora
    \/ /\ i.ct = "avi" /\ tp.fccMode # "none"
       /\ IF first.fcc = None THEN tp.fccMode = "process"
          ELSE (first.fcc \in tp.fccs) # (tp.fccMode = "process")

AddTranscoded(all, tp) ==
    LET t == [Resource("transcode") EXCEPT !.pr = tp.name]
    IN  [res |-> IF tp.first THEN << t >> \o all.res ELSE Append(all.res, t),
         hide |-> all.hide \/ tp.hide,
         original |-> all.original + (IF tp.first THEN 1 ELSE 0)]

WithProfile(all, i, tp) ==
    IF Skips(tp, i, all.res[1]) THEN all ELSE AddTranscoded(all, tp)

\* The resources that are shown, after each of the profiles; original is the
\* place of the item itself.
Shown(i, c) ==
    LET after[n \in 0 .. Len(c.profiles)] ==
            IF n = 0 THEN [res |-> i.res \o Thumbnail(i, c), hide |-> FALSE, original |-> 1]
            ELSE WithProfile(after[n - 1], i, c.profiles[n])
    IN  after[Len(c.profiles)]

\* Mutant of RealCount: the transcoded resources are counted as well.
RealCountAll(res, n) == n - 1

\* How many resources of the database precede the n-th one.
RealCount(res, n) == Cardinality({k \in 1 .. n - 1 : res[k].pr = None})
UrlBase(i, forceLocal) ==
    IF i.kind = "internal" THEN [to |-> "serve", addResID |-> FALSE]
    ELSE IF i.kind = "external" /\ ~i.proxy /\ ~forceLocal THEN [to |-> "direct", addResID |-> FALSE]
    ELSE IF i.kind = "external" THEN [to |-> "online", addResID |-> TRUE]
    ELSE [to |-> "media", addResID |-> TRUE]

SkipURL(i) == IsURL(i) /\ ~i.proxy

\* The file extension at the end of a link: only that of subtitles matters.
Extension(i, r) ==
    IF ~SkipURL(i) /\ r.handler = "default" /\ i.ct = "none" THEN i.ext ELSE ""

\* What a link says in the place of the number: nothing, or "none".
Bare == -2
NoResID == -1

Link(kind, to, res, r) ==
    [kind |-> kind, to |-> to, res |-> res, pr |-> r.pr, rh |-> r.rh, ext |-> "", of |-> r]

\* The address of the n-th resource shown.
Address(i, res, n) ==
    LET r == res[n]
        base == UrlBase(i, r.pr # None /\ SkipURL(i))
    IN  IF r.pr # None THEN Link("res", base.to, NoResID, r)
        ELSE IF n > 1 /\ r.handler = "exturl" /\ r.rct \in {"th", "aa"} THEN Link("res", "direct", Bare, r)
        ELSE [Link("res", base.to, IF base.addResID THEN RealCount(res, n) ELSE Bare, r)
                  EXCEPT !.ext = Extension(i, r)]

IsArt(res, n) == n > 1 /\ res[n].handler \in ArtHandlers /\ res[n].rct = "aa"

addResources(i, c) ==
    LET all == Shown(i, c)
        visible(n) == all.res[n].pr # None \/ ~all.hide \/ n # all.original
    IN  { [Address(i, all.res, n) EXCEPT !.kind = "art"] : n \in {k \in DOMAIN all.res : IsArt(all.res, k)} }
        \cup { Address(i, all.res, n) : n \in {k \in DOMAIN all.res : ~IsArt(all.res, k) /\ visible(k)} }
        \cup { [Address(i, all.res, n) EXCEPT !.kind = "caption", !.ext = "sub"] :
                 n \in {k \in DOMAIN all.res : c.samsung /\ i.video /\ ~IsArt(all.res, k)
                                                /\ all.res[k].handler \in {"default", "transcode"}} }

\* An album shows the art of its first track that has some: its resource 1,
\* whichever resource was found.
getArtworkUrl(i, r) ==
    LET base == UrlBase(i, FALSE)
    IN  Link("cover", base.to, IF base.addResID THEN 1 ELSE Bare, r)

Covers(i) ==
    { getArtworkUrl(i, i.res[n]) :
        n \in {k \in 2 .. Len(i.res) : /\ i.track /\ i.res[k].handler \in ArtHandlers
                                       /\ \A j \in 2 .. k - 1 : i.res[j].handler \notin ArtHandlers} }

UpnpXML_DIDLRenderObject(i, c) == addResources(i, c) \cup Covers(i)

-----------------------------------------------------------------------------
(* The request handlers.  A result is Fail, or what is sent.               *)
Fail == << "fail" >>

Path(i, l) == IF l.ext = "sub" /\ i.ext # "sub" THEN "subtitles" ELSE i.file

\* The numbers that the handlers of media files work with.
ResId(l) == IF l.ext = "sub" THEN 0 ELSE IF l.res >= 0 THEN l.res ELSE -1

ProfileNamed(c, name) == \E k \in DOMAIN c.profiles : c.profiles[k].name = name
Installed(c, name) == \A k \in DOMAIN c.profiles : c.profiles[k].name = name => c.profiles[k].installed

\* The handlers that createHandler() knows, and what they find.
serveContent(h, i, res) ==
    IF \/ h = "ffth"
       \/ h = "libexif" /\ i.res[res + 1].rct = "EX_TH"
       \/ h = "id3" /\ "art" \in i.embedded
       \/ h = "fanart" /\ "folder.jpg" \in disk
    THEN << "resource", h >> ELSE Fail

FromResource(i, l) == ResId(l) > 0 /\ (ResId(l) < Len(i.res) \/ l.rh)

ResourceContent(i, l) ==
    serveContent(IF l.rh THEN "ffth" ELSE i.res[ResId(l) + 1].handler, i, ResId(l))

FileInfo(i, l) ==
    IF Path(i, l) \notin disk THEN Fail
    ELSE IF FromResource(i, l) THEN ResourceContent(i, l)
    ELSE IF l.ext # "sub" /\ l.pr # None
         THEN IF ProfileNamed(config, l.pr) THEN << "transcode", l.pr >> ELSE Fail
    ELSE << "file", Path(i, l) >>

\* The program of the profile is looked for when the content is opened.
Transcoder(name) ==
    IF ProfileNamed(config, name) /\ Installed(config, name) THEN << "transcode", name >> ELSE Fail

\* A link with a profile and a resource, or with neither, is not served.
FileOpen(i, l) ==
    IF Path(i, l) \notin disk \/ ((l.pr # None) # (ResId(l) = -1)) THEN Fail
    ELSE IF FromResource(i, l) THEN ResourceContent(i, l)
    ELSE IF l.ext # "sub" /\ l.pr # None THEN Transcoder(l.pr)
    ELSE << "file", Path(i, l) >>

\* The size of the remote file is asked for; the content comes either way.
UrlInfo(i, l) ==
    IF i.kind # "external" THEN Fail
    ELSE IF l.pr = None THEN << "url", i.file >>
    ELSE IF ProfileNamed(config, l.pr) THEN << "transcode", l.pr >> ELSE Fail

UrlOpen(i, l) ==
    IF i.kind # "external" THEN Fail
    ELSE IF l.pr = None THEN << "url", i.file >> ELSE Transcoder(l.pr)

\* Anything behind the location belongs to the path of the file.
ServeFile(i, l) ==
    IF l.res = Bare /\ ~l.rh /\ i.file \in disk THEN << "file", i.file >> ELSE Fail

get_info(i, l) ==
    CASE l.to = "media"  -> FileInfo(i, l)
      [] l.to = "online" -> UrlInfo(i, l)
      [] l.to = "serve"  -> IF config.serveDir THEN ServeFile(i, l) ELSE Fail

open(i, l) ==
    CASE l.to = "media"  -> FileOpen(i, l)
      [] l.to = "online" -> UrlOpen(i, l)
      [] l.to = "serve"  -> ServeFile(i, l)

\* Played: the content itself was opened, not a picture of it.
Plays(l, content) == l.to # "serve" /\ content # Fail /\ content[1] # "resource"

-----------------------------------------------------------------------------
Idle == [link |-> None, stage |-> "idle", at |-> None, info |-> Fail, content |-> Fail]

Init ==
    /\ config \in Configs
    /\ item \in Items
    /\ disk \in {Files \cup {"subtitles", "folder.jpg"}, Files}
    /\ links = {} /\ shown = None /\ request = Idle /\ obj = None /\ changes = 0

\* A player browses the container of the item.
Browse ==
    /\ request = Idle
    /\ links' = UpnpXML_DIDLRenderObject(item, config)
    /\ shown' = [item |-> item, disk |-> disk]
    /\ UNCHANGED << config, item, disk, request, obj, changes >>

\* The file is scanned again: its resources are those found now.
Rescan ==
    /\ changes < MaxChanges /\ changes' = changes + 1
    /\ \E i \in Items : i.kind = item.kind /\ i.ct = item.ct /\ i # item /\ item' = i
    /\ UNCHANGED << config, disk, links, shown, request, obj >>

\* Files come and go.
Touch ==
    /\ changes < MaxChanges /\ changes' = changes + 1
    /\ \E f \in {"subtitles", "folder.jpg"} \cup Files :
         disk' = IF f \in disk THEN disk \ {f} ELSE disk \cup {f}
    /\ request = Idle
    /\ UNCHANGED << config, item, links, shown, request, obj >>

web_get_info ==
    /\ request = Idle
    /\ \E l \in {x \in links : x.to # "direct"} :
         request' = [link |-> l, stage |-> IF get_info(item, l) = Fail THEN "refused" ELSE "info",
                     at |-> item, info |-> get_info(item, l), content |-> Fail]
    /\ UNCHANGED << config, item, disk, links, shown, obj, changes >>

\* open() loads the item.
web_open ==
    /\ request.stage = "info"
    /\ obj' = item
    /\ request' = [request EXCEPT !.stage = "loaded"]
    /\ UNCHANGED << config, item, disk, links, shown, changes >>

NeedsAction == obj.kind = "active" /\ request.link.to = "media" /\ request.link.res = 0

\* The script of an active item may point it to another file; the copy is
\* written back if it differs from what was loaded.
RunAction ==
    /\ request.stage = "loaded" /\ NeedsAction
    /\ \E f \in Files :
         /\ obj' = [obj EXCEPT !.file = f]
         /\ item' = IF f # obj.file THEN obj' ELSE item
    /\ request' = [request EXCEPT !.stage = "run"]
    /\ UNCHANGED << config, disk, links, shown, changes >>

OpenContent ==
    /\ request.stage \in {"loaded", "run"}
    /\ request.stage = "loaded" => ~NeedsAction
    /\ request' = [request EXCEPT !.stage = "open", !.content = open(obj, request.link)]
    /\ UNCHANGED << config, item, disk, links, shown, obj, changes >>

\* PlayHook::trigger(): the copy is marked and written back as it is.
Marks == config.mark /\ Plays(request.link, request.content) /\ ~obj.played

trigger ==
    /\ request.stage = "open"
    /\ item' = IF Marks THEN [obj EXCEPT !.played = TRUE] ELSE item
    /\ request' = [request EXCEPT !.stage = "sent"]
    /\ UNCHANGED << config, disk, links, shown, obj, changes >>

Done ==
    /\ request.stage \in {"refused", "sent"}
    /\ request' = Idle /\ obj' = None
    /\ UNCHANGED << config, item, disk, links, shown, changes >>

Next ==
    \/ Browse \/ Rescan \/ Touch
    \/ web_get_info \/ web_open \/ RunAction \/ OpenContent \/ trigger
    \/ Done

Spec == Init /\ [][Next]_vars

-----------------------------------------------------------------------------
Stages == {"idle", "info", "refused", "loaded", "run", "open", "sent"}

TypeOK ==
    /\ config \in Configs
    /\ disk \subseteq Files \cup {"subtitles", "folder.jpg"}
    /\ request.stage \in Stages
    /\ request.stage \in {"loaded", "run", "open", "sent"} <=> obj # None

\* What the player was promised.
Promised(i, l) ==
    IF l.pr # None THEN << "transcode", l.pr >>
    ELSE IF l.of.handler # "default" THEN << "resource", l.of.handler >>
    ELSE IF i.kind = "external" THEN << "url", i.file >> ELSE << "file", i.file >>

\* The content can be had: the program is there, the art is in the file.
Available(i, l) ==
    /\ l.pr # None => Installed(config, l.pr)
    /\ l.of.handler = "id3" => "art" \in i.embedded
    /\ l.of.handler = "fanart" => "folder.jpg" \in disk

(* The links on which the two sides agree: resources, album art and covers.*)
(* A transcoded resource of an internal URL has a link that leads nowhere  *)
(* (cds_resource_manager.cc:493-500), and mp4, flac and exturl resources   *)
(* that are no thumbnails have no handler (metadata_handler.cc:180-201).   *)
Supported(i, l) ==
    /\ l.kind # "caption"
    /\ i.kind = "internal" => l.pr = None
    /\ l.of.handler \notin {"mp4", "flac", "exturl"}

\* Nothing but the place of an active item has changed since the reply.
AsShown ==
    /\ shown.disk = disk /\ [shown.item EXCEPT !.file = item.file] = item
    /\ obj # None => obj = item
    /\ obj = None => request.at = item

(* A player that asks for a link, while the item is still as it was shown  *)
(* and its files exist, is sent the resource that the link was shown for:  *)
(* the numbers in the links (cds_resource_manager.cc:300-330) are those    *)
(* that open() looks up (file_request_handler.cc:475-505).                 *)
LinksReachTheirResource ==
    ( /\ request.stage \in {"open", "refused"}
      /\ AsShown /\ item.file \in disk
      /\ Supported(item, request.link) /\ Available(item, request.link)
      /\ item.kind = "internal" => config.serveDir )
    => request.stage = "open" /\ request.content = Promised(item, request.link)

(* The headers fit the content: when the item did not change between the   *)
(* two calls, what get_info() announced is what open() delivers.           *)
HeadersFitContent ==
    request.stage = "open" /\ request.content # Fail /\ obj = request.at /\ obj.kind # "active"
    => request.info = request.content

(* What is written back never undoes a change made since it was loaded.    *)
(* Neither the mark (play_hook.cc:60) nor the script of an active item     *)
(* (file_request_handler.cc:420) keeps this: it is not checked by a run.   *)
NoChangeUndone ==
    [][ request.stage \in {"loaded", "open"} /\ item' # item /\ request'.stage # request.stage
        => item'.res = item.res ]_vars
=============================================================================

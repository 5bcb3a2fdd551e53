-------------------------------- MODULE Layout --------------------------------
(***************************************************************************)
(* From a type and a name to destinations: the fields of a type (enrich,   *)
(* parse.go) and the layout of its library (layout.go, sanitize.go).  A    *)
(* path component is a sequence of words; <<>> is the empty one.  A word   *)
(* of Long fills a component by itself, one of Odd is not allowed under    *)
(* strict names.                                                           *)
(***************************************************************************)
EXTENDS Classify

CONSTANT Numeral  \* the word for a number

Long == {"Long"}
Odd == {"a?", "a:"}
Samples == {"sample"}

\* Two numbers are not written alike (%02d), nor is one cut or replaced.
ASSUME NumeralAssumption ==
    /\ DOMAIN Numeral \subseteq Nat /\ {0, 1} \subseteq DOMAIN Numeral
    /\ \A m, n \in DOMAIN Numeral : Numeral[m] = Numeral[n] => m = n
    /\ \A n \in DOMAIN Numeral : Numeral[n] \notin Long \cup Odd

\* Words that end in a number: a series and its volume.
Indexed == {"saga1"}

\* The elements at some positions, in their order, and those that are not empty.
NthOf(at, k) == CHOOSE i \in at : Cardinality({j \in at : j <= i}) = k
ElementsAt(s, at) == [k \in 1 .. Cardinality(at) |-> s[NthOf(at, k)]]
Filled(s, empty) == ElementsAt(s, {i \in DOMAIN s : s[i] # empty})

Component(words) == Filled(words, "")
Year(p) == IF p.year THEN "(year)" ELSE ""
TitleYear(p) == Component(<<p.title, Year(p)>>)

-----------------------------------------------------------------------------
(* enrich *)

\* toParsed, and what is empty for every type.
Episode(eps) == IF eps = <<>> THEN 0 ELSE eps[1]
EpisodeEnd(eps) == IF eps = <<>> THEN 0 ELSE eps[Len(eps)]
ToParsed(info) ==
    [title |-> info.title, year |-> info.year, tv |-> info.tv, conf |-> info.conf,
     artist |-> "", album |-> "", author |-> "", series |-> "", narrator |-> "", platform |-> "",
     volume |-> 0, issue |-> FALSE]

\* The directories of the first file, below the name of the torrent.
PathSegments(n, files) ==
    IF files = <<>> THEN <<>> ELSE <<n.name>> \o files[1].dir

Or(s, otherwise) == IF s # "" THEN s ELSE otherwise

EnrichMusic(p, n) ==
    [p EXCEPT !.artist = IF "various" \in n.marks THEN "Various Artists" ELSE Or(n.left, "Unknown Artist"),
              !.album = Or(IF n.left # "" THEN n.right ELSE n.title, Or(p.title, "Unknown Album")),
              !.year = @ \/ n.year = "paren"]

\* The tree of the torrent goes before its name.
EnrichAudiobook(p, n, files) ==
    LET segs == PathSegments(n, files)
        series == IF Len(segs) >= 3 THEN segs[2] ELSE ""
    IN  [p EXCEPT !.narrator = IF n.marks \cap {"braces", "person"} # {} THEN "{narrator}" ELSE "",
                  !.author = IF Len(segs) >= 2 THEN segs[1] ELSE n.left,
                  !.series = series,
                  !.volume = IF series \in Indexed THEN 1 ELSE 0,
                  !.title = Or(n.right, Or(@, n.title))]

\* "Last, First" tells the author from the title.
EnrichEbook(p, n, files) ==
    LET segs == PathSegments(n, files)
        first == IF Len(segs) >= 2 THEN segs[1] ELSE ""
        swapped == "titlefirst" \in n.marks
        left == IF "authorfirst" \in n.marks THEN n.left ELSE Or(first, n.left)
        title == IF n.left = "" THEN Or(p.title, n.title) ELSE IF swapped THEN n.left ELSE n.right
        indexed == title \in Indexed
    IN  [p EXCEPT !.author = IF n.left = "" THEN first ELSE IF swapped THEN n.right ELSE left,
                  !.series = IF indexed THEN title ELSE "",
                  !.volume = IF indexed THEN 1 ELSE 0,
                  !.title = IF indexed THEN "book" ELSE title]

EnrichComic(p, n) ==
    [p EXCEPT !.issue = "chapter" \in n.marks \/ ("number" \in n.marks /\ "volume" \notin n.marks),
              !.volume = IF "volume" \in n.marks THEN 1 ELSE 0,
              !.series = Or(n.title, p.title),
              !.title = Or(@, n.title)]

\* A directory that names a platform, or an extension that implies one.
EnrichROM(p, n, files) ==
    LET dirs == ToSet(PathSegments(n, files)) \cap Platforms
        exts == {f.ext : f \in FilesOf(files)} \cap DOMAIN RomPlatform
    IN  [p EXCEPT !.title = n.title,
                  !.platform = IF dirs # {} THEN CHOOSE d \in dirs : TRUE
                               ELSE IF exts # {} THEN RomPlatform[CHOOSE e \in exts : TRUE] ELSE ""]

Enrich(type, n, files) ==
    LET p == ToParsed(Parse(n)) IN
    CASE type = "music" -> EnrichMusic(p, n)
      [] type = "audiobook" -> EnrichAudiobook(p, n, files)
      [] type = "ebook" -> EnrichEbook(p, n, files)
      [] type = "comic" -> EnrichComic(p, n)
      [] type = "rom" -> EnrichROM(p, n, files)
      [] OTHER -> p

-----------------------------------------------------------------------------
(* Names *)

IsSample(f) == ToSet(f.dir \o f.base) \cap Samples # {}

Sanitize(c, lib) == [i \in DOMAIN c |-> IF lib.strict /\ c[i] \in Odd THEN "_" ELSE c[i]]

\* TruncateComponent, whose marker no caller gives: a word too long leaves
\* room for nothing after it but the extension.
Truncate(c) == IF \E i \in DOMAIN c : c[i] \in Long
               THEN SubSeq(c, 1, Min({i \in DOMAIN c : c[i] \in Long}))
               ELSE c

\* join: empty folders are left out, a directory of the payload never is, and
\* all are sanitised.
Join(lib, folders, tail, name, ext) ==
    LET dirs == Filled(folders, <<>>) \o tail
    IN  [dirs |-> [i \in DOMAIN dirs |-> Sanitize(dirs[i], lib)],
         name |-> Sanitize(name, lib), ext |-> ext]

-----------------------------------------------------------------------------
(* A builder for each type: the destination of each file *)

Cut(lib, folders, name, ext) == Join(lib, folders, <<>>, Truncate(name), ext)

\* The first of the largest; no file when all are empty.
Largest(files) ==
    {i \in DOMAIN files : /\ files[i].size > 0
                          /\ \A j \in DOMAIN files : files[j].size <= files[i].size
                          /\ \A j \in 1 .. i - 1 : files[j].size < files[i].size}

\* What a companion's name adds to the main one's.
SuffixFor(f, main) ==
    IF Len(f.base) > Len(main) /\ SubSeq(f.base, 1, Len(main)) = main
    THEN SubSeq(f.base, Len(main) + 1, Len(f.base)) ELSE f.base

BuildMovie(p, files, lib) ==
    LET main == Largest(files)
        base == IF main = {} THEN <<>> ELSE files[CHOOSE i \in main : TRUE].base
        suffix(i) == IF i \in main THEN <<>> ELSE SuffixFor(files[i], base)
    IN  [i \in DOMAIN files |-> Cut(lib, <<TitleYear(p)>>, TitleYear(p) \o suffix(i), files[i].ext)]

\* The season, first and last episode of a file: its own, or those of a
\* torrent that names one; the torrent's could be all that counts.
TorrentPosition(p) ==
    LET first == Episode(p.tv.eps)
        last == EpisodeEnd(p.tv.eps)
    IN  IF first > 0 \/ (p.tv.season > 0 /\ last > 0)
        THEN <<p.tv.season, first, IF last > first THEN last ELSE first>> ELSE <<>>
OwnPosition(f) ==
    LET own == ParseTV(f.code)
    IN  IF own.season >= 0 /\ own.eps # <<>>
        THEN <<own.season, Episode(own.eps), EpisodeEnd(own.eps)>> ELSE <<>>
EpisodeFor_torrent(p, f) == TorrentPosition(p)
EpisodeFor(p, f) == IF OwnPosition(f) # <<>> THEN OwnPosition(f) ELSE TorrentPosition(p)

Marker(at) == <<"S", Numeral[at[1]], "E", Numeral[at[2]]>>
              \o (IF at[3] # at[2] THEN <<"-E", Numeral[at[3]]>> ELSE <<>>)

\* A date has a name of its own in season 0.
BuildTV(p, files, lib) ==
    [i \in DOMAIN files |->
        LET at == EpisodeFor(p, files[i])
            season == IF at = <<>> THEN 0 ELSE at[1]
            marker == IF at = <<>> THEN <<"date">> ELSE Marker(at)
        IN  Cut(lib, <<TitleYear(p), <<"Season", Numeral[season]>>>>,
                Component(<<p.title, "-">>) \o marker, files[i].ext)]

\* The trailing directories of discs.
PayloadTail(f) ==
    LET discs == {i \in DOMAIN f.dir : \A j \in i .. Len(f.dir) : f.dir[j] \in Discs}
    IN  IF discs = {} THEN <<>> ELSE SubSeq(f.dir, Min(discs), Len(f.dir))

MusicFolder(p) == <<<<p.artist>>, Component(<<p.album, Year(p)>>)>>
AudiobookFolder(p) ==
    <<<<Or(p.author, "Unknown Author")>>, Component(<<p.series>>),
      Component(<<IF p.year /\ p.volume > 0 THEN Numeral[p.volume] ELSE "", Year(p), p.title, p.narrator>>)>>

\* Nothing is renamed, and no name is cut.
BuildVerbatim(files, lib, folder) ==
    [i \in DOMAIN files |->
        LET tail == PayloadTail(files[i])
        IN  Join(lib, folder, [j \in DOMAIN tail |-> <<tail[j]>>], files[i].base, files[i].ext)]

BuildComic(p, files, lib) ==
    LET oneshot == p.volume = 0 /\ ~p.issue /\ lib.oneshots # ""
        folder == IF oneshot THEN lib.oneshots ELSE Or(p.series, p.title)
    IN  [i \in DOMAIN files |-> Cut(lib, <<Component(<<folder>>)>>, files[i].base, files[i].ext)]

BuildEbook(p, files, lib) ==
    LET folder == Or(p.series, Or(lib.oneshots, p.title))
        volume == IF p.volume > 0 THEN Numeral[p.volume] ELSE ""
        author == IF lib.oneshots # "" THEN p.author ELSE ""
        stem == IF p.series # "" THEN <<p.series, volume, "-", p.title>> ELSE <<author, p.title>>
    IN  [i \in DOMAIN files |-> Cut(lib, <<Component(<<folder>>)>>, Component(stem), files[i].ext)]

\* A game of several files is a folder.
BuildROM(p, files, lib) ==
    LET game == IF Len(files) > 1 THEN Component(<<p.title>>) ELSE <<>>
    IN  [i \in DOMAIN files |->
            Cut(lib, <<<<"roms">>, <<p.platform>>, game>>, files[i].base, files[i].ext)]

-----------------------------------------------------------------------------
(* Build *)

Accepts(lib, f) == lib.accepted = {} \/ f.ext \in lib.accepted
Kept(files, lib) == {i \in DOMAIN files : ~IsSample(files[i]) /\ Accepts(lib, files[i])}

Payload(files, lib) == ElementsAt(files, Kept(files, lib))

\* What the plan leaves out, and says so.
Skipped(files, lib) == ElementsAt(files, DOMAIN files \ Kept(files, lib))

\* Why a file is not in the plan.
SkipReason(f) == IF IsSample(f) THEN "SKIP_SAMPLE" ELSE "SKIP_UNSUPPORTED_FORMAT"

\* What a builder refuses: a file without an episode, a one-shots directory
\* named in the root's own path, a game for no platform.
Refuses(type, p, files, lib) ==
    CASE type = "tv" -> ~p.tv.date /\ \E f \in FilesOf(files) : EpisodeFor(p, f) = <<>>
      [] type \in {"comic", "ebook"} -> lib.oneshots # "" /\ lib.inroot
      [] type = "rom" -> p.platform = ""
      [] OTHER -> FALSE

Destinations(type, p, files, lib) ==
    CASE type = "movie" -> BuildMovie(p, files, lib)
      [] type = "tv" -> BuildTV(p, files, lib)
      [] type = "music" -> BuildVerbatim(files, lib, MusicFolder(p))
      [] type = "audiobook" -> BuildVerbatim(files, lib, AudiobookFolder(p))
      [] type = "comic" -> BuildComic(p, files, lib)
      [] type = "ebook" -> BuildEbook(p, files, lib)
      [] type = "rom" -> BuildROM(p, files, lib)

\* What the layout itself leaves to a review.
ReviewReason(type, p, payload) ==
    IF payload = <<>> THEN "no ingestible files"
    ELSE IF type = "tv" /\ p.tv.absolute THEN "absolute numbering"
    ELSE IF type = "tv" /\ p.tv.date THEN "date-based episode" ELSE ""

Build(type, p, files, lib) ==
    LET payload == Payload(files, lib)
        refused == payload # <<>> /\ Refuses(type, p, payload, lib)
        dsts == Destinations(type, p, payload, lib)
    IN  [refused |-> refused,
         skipped |-> Skipped(files, lib),
         placed |-> IF refused \/ payload = <<>> THEN <<>>
                    ELSE [i \in DOMAIN payload |-> [src |-> payload[i], dst |-> dsts[i]]],
         why |-> ReviewReason(type, p, payload)]
=============================================================================

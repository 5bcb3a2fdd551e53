------------------------------- MODULE Classify -------------------------------
(***************************************************************************)
(* Classify (classify.go, signals.go, parse.go): a pure function from what *)
(* the name of an orphan and its files show to a media type, or to none.   *)
(* A name says which patterns match it ("marks"); a file has the path      *)
(* components [dir, base] it is found by, an extension and a size.         *)
(* Weights and thresholds are in hundredths, so that sums are exact as     *)
(* the epsilon of the code makes them.                                     *)
(***************************************************************************)
EXTENDS Release, FiniteSets, FiniteSetsExt, SequencesExt

AllTypes == <<"movie", "tv", "music", "ebook", "audiobook", "comic", "rom">>
Types == {AllTypes[i] : i \in DOMAIN AllTypes}

\* One extension for each that is told apart.
FamilyOf == [mkv |-> "video", flac |-> "audio", mp3 |-> "audio", m4b |-> "audio",
             epub |-> "book", mobi |-> "book", cbz |-> "comic", sfc |-> "rom", pdf |-> "pdf",
             bin |-> "other", srt |-> "subtitle", nfo |-> "sidecar", opf |-> "sidecar",
             jpg |-> "image", rar |-> "archive"]
Primary == {"video", "audio", "book", "comic", "rom", "pdf"}
RomPlatform == [sfc |-> "snes"]

\* Path components that patterns look for.
Discs == {"cd1", "cd2"}
Parts == {"part1", "part2"} \cup Discs
Platforms == {"snes"}

FilesOf(files) == {files[i] : i \in DOMAIN files}
HasExt(files, e) == \E f \in FilesOf(files) : f.ext = e
CountIf(files, P(_)) == Cardinality({i \in DOMAIN files : P(files[i])})
CountFamilies(files) ==
    [m \in {FamilyOf[e] : e \in DOMAIN FamilyOf} |-> CountIf(files, LAMBDA f : FamilyOf[f.ext] = m)]
PrimaryCount(counts) == MapThenSumSet(LAMBDA m : counts[m], Primary)

\* Two families with two files and 30% each, or three of any size.
DetectMixed(counts) ==
    LET total == PrimaryCount(counts)
        present == {m \in Primary : counts[m] > 0}
        significant == {m \in present : counts[m] >= 2 /\ 10 * counts[m] >= 3 * total}
    IN  Cardinality(present) >= 3 \/ Cardinality(significant) >= 2

-----------------------------------------------------------------------------
(* Signals: <<name, type, weight>> *)

When(c, name, type, weight) == IF c THEN {<<name, type, weight>>} ELSE {}

\* A PDF alone is a comic or a book by its markers, or by the default.
PDFSignal(n, default) ==
    IF n.marks \cap {"volume", "chapter", "scene"} # {} THEN {<<"pdf-comic-marker", "comic", 80>>}
    ELSE IF "edition" \in n.marks THEN {<<"pdf-book-marker", "ebook", 80>>}
    ELSE When(default # "unknown", "pdf-default", default, 60)

ExtensionSignals(files, n, counts, default) ==
    When(counts["comic"] > 0, "ext-comic", "comic", 90) \cup
    When(counts["book"] > 0, "ext-book", "ebook", 90) \cup
    When(HasExt(files, "m4b"), "ext-m4b", "audiobook", 90) \cup
    When(counts["rom"] > 0, "ext-rom", "rom", 85) \cup
    (IF counts["pdf"] > 0 /\ counts["comic"] = 0 /\ counts["book"] = 0
     THEN PDFSignal(n, default) ELSE {})

TVSignal(info) ==
    IF ~info.tv.isTV \/ info.title = "" THEN {}
    ELSE IF info.tv.date THEN {<<"name-tv-date", "tv", 90>>}
    ELSE IF info.tv.absolute THEN {<<"name-tv-absolute", "tv", 90>>}
    ELSE {<<"name-tv", "tv", 95>>}

\* "Format" is a tag in brackets, "fields" a scene field; the first counts.
FormatSignal(n) ==
    IF "format" \in n.marks THEN {<<"name-audio-format", "music", 85>>}
    ELSE When("fields" \in n.marks, "name-audio-format-scene", "music", 80)
HasFormat(n) == n.marks \cap {"format", "fields"} # {}

AudioSignals(n, info, counts) ==
    When("audiobook" \in n.marks, "name-audiobook", "audiobook", 90) \cup
    When("braces" \in n.marks /\ counts["comic"] = 0, "name-narrator", "audiobook", 85) \cup
    FormatSignal(n) \cup
    When("various" \in n.marks, "name-various-artists", "music", 85) \cup
    When("discography" \in n.marks, "name-discography", "music", 85) \cup
    When(/\ ~info.tv.isTV /\ info.year /\ n.left # ""
         /\ counts["video"] = 0 /\ counts["comic"] = 0 /\ counts["book"] = 0,
         "name-artist-album", "music", 70) \cup
    When(/\ ~HasFormat(n) /\ counts["comic"] = 0 /\ counts["book"] = 0
         /\ "person" \in n.marks /\ ~info.year,
         "name-narrator-paren", "audiobook", 85)

ComicSignals(n, counts) ==
    When("scene" \in n.marks, "name-comic-scene", "comic", 85) \cup
    (IF counts["video"] = 0 /\ counts["audio"] = 0 /\ ~HasFormat(n)
     THEN When("volume" \in n.marks, "name-comic-volume", "comic", 70) \cup
          When("chapter" \in n.marks, "name-comic-chapter", "comic", 85) \cup
          When("range" \in n.marks, "name-comic-range", "comic", 80)
     ELSE {})

RomSignals(n, counts) ==
    When("region" \in n.marks, "name-rom-region", "rom", 85) \cup
    When("romset" \in n.marks, "name-romset", "rom", 85) \cup
    When("bios" \in n.marks, "name-bios", "rom", 85) \cup
    When("romtags" \in n.marks /\ counts["video"] = 0, "name-rom-tags", "rom", 55)

NameSignals(n, info, counts) ==
    TVSignal(info) \cup AudioSignals(n, info, counts) \cup ComicSignals(n, counts) \cup
    RomSignals(n, counts) \cup
    When(~info.tv.isTV /\ info.year /\ info.title # "", "name-year", "movie", 55)

IsPart(f) == \E c \in ToSet(f.dir \o f.base) : c \in Parts
Numbered(f) == f.base[1] \in {"01", "02"}
PairForm(f) == "-" \in ToSet(f.base)

\* A payload of audio files: parts make a book, and so does a lone file in
\* the form Name - Title without a track number.
AudioStructure(files, counts) ==
    LET audio == {i \in DOMAIN files : FamilyOf[files[i].ext] = "audio"}
        parts == {i \in audio : IsPart(files[i])}
        only  == files[CHOOSE i \in audio : \A j \in audio : i <= j]
        lone  == Cardinality(audio) = 1 /\ parts = {}
    IN  {<<"struct-audio", "music", 45>>} \cup
        When(parts = audio, "struct-audio-parts", "audiobook", 70) \cup
        When(lone /\ Numbered(only), "struct-track-number", "music", 25) \cup
        When(lone /\ ~Numbered(only) /\ PairForm(only), "struct-single-audio", "audiobook", 60)

StructureSignals(files, counts, info) ==
    LET total == PrimaryCount(counts)
        dominant(m) == counts[m] > 0 /\ 2 * counts[m] >= total
    IN  When(dominant("video") /\ info.tv.isTV, "struct-video-tv", "tv", 35) \cup
        When(dominant("video") /\ ~info.tv.isTV /\ info.year, "struct-video-movie", "movie", 35) \cup
        (IF dominant("audio") THEN AudioStructure(files, counts) ELSE {}) \cup
        When(counts["book"] > 0 /\ HasExt(files, "opf"), "struct-opf", "ebook", 35)

Signals(files, n, info, counts, default) ==
    ExtensionSignals(files, n, counts, default) \cup NameSignals(n, info, counts) \cup
    StructureSignals(files, counts, info)

Score(signals, t) == MapThenSumSet(LAMBDA s : s[3], {s \in signals : s[2] = t})

-----------------------------------------------------------------------------
(* The decision *)

\* One type more in the race; the type it displaces could be forgotten.
Overtakes_forgets(r, t, s) ==
    IF s > r.score THEN [r EXCEPT !.best = t, !.score = s]
    ELSE IF s > r.second THEN [r EXCEPT !.runner = t, !.second = s] ELSE r
Overtakes(r, t, s) ==
    IF s > r.score THEN [best |-> t, score |-> s, runner |-> r.best, second |-> r.score]
    ELSE IF s > r.second THEN [r EXCEPT !.runner = t, !.second = s] ELSE r

\* top2, in the order of AllTypes.
Top2(signals) ==
    FoldLeft(LAMBDA r, t : Overtakes(r, t, Score(signals, t)),
             [best |-> "unknown", score |-> 0, runner |-> "unknown", second |-> 0], AllTypes)

Feature(f) == FamilyOf[f.ext] = "video" /\ f.size >= 3
Cardinal(files, n, counts, info) ==
    IF \/ info.tv.pack \/ "discography" \in n.marks
       \/ counts["book"] >= 3 \/ counts["comic"] >= 3
       \/ ~info.tv.isTV /\ CountIf(files, Feature) >= 3
    THEN "multi" ELSE "single"

Verdict(type, score, card, reason) ==
    [type |-> type, score |-> score, card |-> card, reason |-> reason]

\* The name and the files, the thresholds, the default for PDFs.
Decide(n, files, rules) ==
    LET info == Parse(n)
        counts == CountFamilies(files)
        top == Top2(Signals(files, n, info, counts, rules.pdf))
        card == Cardinal(files, n, counts, info)
    IN  IF counts["archive"] > 0 /\ PrimaryCount(counts) = 0
        THEN Verdict("unknown", 0, "single", "needs_extraction")
        ELSE IF DetectMixed(counts) THEN Verdict("unknown", 0, "mixed", "multi-type")
        ELSE IF "generic" \in n.marks /\ PrimaryCount(counts) = 0
        THEN Verdict("unknown", 0, "single", "no_signal")
        ELSE IF top.best = "unknown" \/ top.score < rules.review
        THEN Verdict("unknown", top.score, card, "below_review_threshold")
        ELSE IF top.score - top.second < rules.margin /\ top.second > 0
        THEN Verdict("unknown", top.score, card, "ambiguous")
        ELSE Verdict(top.best, top.score, card, "")
=============================================================================

---------------------------- MODULE MCPlanMaking ----------------------------
(* A payload of each shape the rules tell apart, under names that match one *)
(* or two of the patterns. *)
EXTENDS PlanMaking

Code(ns, s, es) == [notation |-> ns, season |-> s, eps |-> es]
F(dir, base, ext, size) == [dir |-> dir, base |-> base, ext |-> ext, size |-> size, code |-> NoCode]
E(base, ext, e) == [dir |-> <<"r">>, base |-> base, ext |-> ext, size |-> 1, code |-> Code({"std"}, 1, <<e>>)]
R(base, ext, size) == F(<<"r">>, base, ext, size)

MCNumeral == [n \in 0 .. 9 |-> ToString(n)]
MCPayloads == {
    <<F(<<>>, <<"mov">>, "mkv", 3)>>,
    <<R(<<"mov">>, "mkv", 3), R(<<"mov", "en">>, "srt", 1), F(<<"r", "subs">>, <<"en">>, "srt", 1)>>,
    <<R(<<"mov">>, "mkv", 0), R(<<"mov">>, "srt", 0)>>,
    <<R(<<"mov">>, "mkv", 3), R(<<"sample", "mov">>, "mkv", 1), R(<<"x">>, "nfo", 1)>>,
    <<R(<<"sample">>, "mkv", 1)>>,
    <<R(<<"a">>, "mkv", 3), R(<<"b">>, "mkv", 3), R(<<"c">>, "mkv", 4)>>,
    <<F(<<>>, <<"a">>, "mkv", 3), F(<<>>, <<"b">>, "srt", 1)>>,
    <<E(<<"one">>, "mkv", 1), E(<<"two">>, "mkv", 2)>>,
    <<E(<<"one">>, "mkv", 1), R(<<"en">>, "srt", 1), R(<<"fr">>, "srt", 1)>>,
    <<E(<<"pilot">>, "mkv", 0), [E(<<"two">>, "mkv", 2) EXCEPT !.code = Code({"list"}, 1, <<1, 2>>)]>>,
    <<E(<<"one">>, "mkv", 1), R(<<"two">>, "mkv", 1)>>,
    <<[E(<<"one">>, "mkv", 1) EXCEPT !.code = Code({"span"}, 1, <<1, 3>>)],
      [E(<<"two">>, "mkv", 1) EXCEPT !.code = Code({"list"}, 1, <<1, 3>>)]>>,
    <<F(<<"r", "cd1", "bonus">>, <<"01">>, "flac", 1), F(<<"r", "cd2", "bonus">>, <<"01">>, "flac", 1)>>,
    <<F(<<"r", "cd1">>, <<"01">>, "flac", 1), F(<<"r", "cd2">>, <<"01">>, "flac", 1), R(<<"x">>, "jpg", 1)>>,
    <<R(<<"01">>, "flac", 1), R(<<"02">>, "flac", 1), R(<<"clip">>, "mkv", 4)>>,
    <<R(<<"a">>, "mkv", 1), R(<<"b">>, "mkv", 1), R(<<"01">>, "flac", 1), R(<<"02">>, "flac", 1)>>,
    <<F(<<>>, <<"01", "x">>, "mp3", 1)>>,
    <<F(<<>>, <<"x", "-", "y">>, "mp3", 1)>>,
    <<R(<<"part1">>, "mp3", 1), R(<<"part2">>, "mp3", 1)>>,
    <<F(<<"r", "saga1">>, <<"x">>, "m4b", 1)>>,
    <<R(<<"a?">>, "cbz", 1), R(<<"a:">>, "cbz", 1)>>,
    <<R(<<"a">>, "cbz", 1), R(<<"b">>, "cbz", 1), R(<<"c">>, "cbz", 1)>>,
    <<R(<<"Long", "1">>, "cbz", 1), R(<<"Long", "2">>, "cbz", 1)>>,
    <<R(<<"a">>, "epub", 1), R(<<"a">>, "mobi", 1), R(<<"m">>, "opf", 1)>>,
    <<R(<<"a">>, "epub", 1), R(<<"b">>, "epub", 1)>>,
    <<F(<<>>, <<"a">>, "pdf", 1)>>,
    <<R(<<"a">>, "pdf", 1), R(<<"b">>, "mkv", 1), R(<<"c">>, "flac", 1)>>,
    <<F(<<>>, <<"g">>, "sfc", 1)>>,
    <<R(<<"d1">>, "bin", 1), F(<<"r", "snes">>, <<"d2">>, "bin", 1)>>,
    <<F(<<"snes">>, <<"d">>, "bin", 1), F(<<"snes">>, <<"e">>, "bin", 1)>>,
    <<R(<<"x">>, "rar", 1)>>,
    <<R(<<"01">>, "flac", 1), F(<<"r", "bonus">>, <<"01">>, "flac", 1)>>,
    <<R(<<"x">>, "jpg", 1)>> }

Name(marks, code, year, title, left) ==
    [name |-> "torrent", marks |-> marks, code |-> code, year |-> year, title |-> title, left |-> left,
     right |-> IF left = "" THEN "" ELSE IF title = "Long" THEN "saga1" ELSE "album",
     imdb |-> title = "Long"]

Marks == {"volume", "chapter", "number", "scene", "range", "edition", "audiobook", "braces", "person",
          "format", "fields", "various", "discography", "region", "romset", "bios", "romtags",
          "titlefirst", "authorfirst"}
Codes1 == {NoCode, Code({"std"}, 1, <<1>>), Code({"season"}, 1, <<>>), Code({"date"}, 0, <<>>)}
Codes2 == {Code({"anime"}, 0, <<>>), Code({"list", "std"}, 1, <<1, 2>>), Code({"span"}, 1, <<1, 3>>),
           Code({"span"}, 1, <<3, 1>>), Code({"word"}, 1, <<2>>), Code({"std", "date"}, 1, <<0>>),
           Code({"alt", "season"}, 1, <<2>>),
           Code({"series"}, 0, <<>>), Code({"seasonword"}, 2, <<>>)}
Telling == {"volume", "chapter", "number", "scene", "edition", "audiobook", "person", "format",
            "region", "romtags"}
Pairs == {{a, b} : a, b \in Telling} \cup {{}, {"generic"}}
Singles == {{a} : a \in Marks} \cup {{}}
MCNames ==
    {Name(m, c, y, t, l) : m \in Singles, c \in Codes1, y \in {"none", "end"},
                           t \in {"t", "Long"}, l \in {"", "artist"}}
    \cup {Name(m, NoCode, y, "t", "") : m \in Pairs, y \in {"none", "end"}}
    \cup {Name({}, c, y, t, "") : c \in Codes1 \cup Codes2, y \in Years, t \in {"", "t", "Long"}}

Lib(accepted, oneshots, inroot, strict) ==
    [accepted |-> accepted, oneshots |-> oneshots, inroot |-> inroot, strict |-> strict]
MCLibraries == {Lib({}, "", FALSE, FALSE), Lib({}, "oneshots", TRUE, FALSE),
                Lib({"mkv", "epub", "cbz", "flac"}, "oneshots", FALSE, TRUE)}
Rule(a, default) == [auto |-> a, review |-> 50, margin |-> 10, pdf |-> default]
MCRules == {Rule(85, "unknown"), Rule(60, "comic")}
=============================================================================

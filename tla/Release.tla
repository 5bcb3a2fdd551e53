------------------------------- MODULE Release -------------------------------
(***************************************************************************)
(* The release grammar (classify/release): what a name yields.  A name is  *)
(* given by what its patterns find in it; the regular expressions and the  *)
(* cleaning of a title are left out, the order in which they are asked and *)
(* what each of them decides is not.  Confidence is in hundredths.         *)
(***************************************************************************)
EXTENDS Integers, Sequences

\* Episode notations, the most specific first: anime, S01E01E02, S01E01-E03,
\* Season 1 Episode 1, S01E01, 1x01, a date, COMPLETE SERIES, Season 1, S01.
Rank == [anime |-> 1, list |-> 2, span |-> 3, word |-> 4, std |-> 5, alt |-> 6, date |-> 7,
         series |-> 8, seasonword |-> 9, season |-> 10]

\* What the patterns find in a name: the notations, and the numbers they hold.
NoCode == [notation |-> {}, season |-> 0, eps |-> <<>>]

\* Season -1: HasSeason is false.
NotTV == [isTV |-> FALSE, season |-> -1, eps |-> <<>>, date |-> FALSE, absolute |-> FALSE,
          pack |-> FALSE]
SomeTV == [NotTV EXCEPT !.isTV = TRUE]

\* An upside-down span is its first episode.
SpanOf(eps) == IF eps[2] >= eps[1] THEN [i \in 1 .. eps[2] - eps[1] + 1 |-> eps[1] + i - 1]
               ELSE <<eps[1]>>

\* The most specific notation decides.  Only S01E00 is sent to season 0.
ParseTV(c) ==
    IF c.notation = {} THEN NotTV ELSE
    LET by == CHOOSE n \in c.notation : \A m \in c.notation : Rank[n] <= Rank[m]
        In(season, eps) == [SomeTV EXCEPT !.season = season, !.eps = eps]
    IN  CASE by = "anime" -> [SomeTV EXCEPT !.absolute = TRUE]
          [] by = "list" -> In(c.season, c.eps)
          [] by = "span" -> In(c.season, SpanOf(c.eps))
          [] by \in {"word", "alt"} -> In(c.season, <<c.eps[1]>>)
          [] by = "std" -> In(IF c.eps[1] = 0 THEN 0 ELSE c.season, <<c.eps[1]>>)
          [] by = "date" -> [SomeTV EXCEPT !.date = TRUE]
          [] by = "series" -> [SomeTV EXCEPT !.pack = TRUE]
          [] by \in {"seasonword", "season"} -> In(c.season, <<>>)

\* Where a year stands: in parentheses, at the end of the title, there but
\* beyond maxSeriesYear, or with no title before it.
Years == {"none", "paren", "end", "future", "alone"}

\* A film's year leaves a title standing, unless it is in parentheses; that of
\* a series stands right before the episode and is not in the future.
HasYear(tv, y) ==
    IF tv.isTV THEN ~tv.absolute /\ y \in {"end", "alone"} ELSE y \in {"paren", "end", "future"}

\* A title that is a year is taken from a series, and kept by a film.
TitleOf(n, tv) == IF tv.isTV /\ ~tv.absolute /\ n.year = "alone" THEN "" ELSE n.title

\* How sure the parse is, not the classification; a film's title could count
\* for as much without a year as with one.
Confidence_titled(tv, year, title, imdb) ==
    IF title = "" THEN 0 ELSE IF tv.isTV THEN 95 ELSE 90

Confidence(tv, year, title, imdb) ==
    IF tv.absolute THEN 55
    ELSE IF title = "" THEN 0
    ELSE (CASE tv.season >= 0 /\ tv.eps # <<>> -> 95
            [] tv.season >= 0 /\ tv.eps = <<>> -> 85
            [] tv.date -> 60
            [] tv.pack -> 70
            [] ~tv.isTV -> IF year THEN 90 ELSE 20) + (IF imdb THEN 5 ELSE 0)

\* Parse: info of a name.
Parse(n) ==
    LET tv == ParseTV(n.code)
        year == HasYear(tv, n.year)
        title == TitleOf(n, tv)
    IN  [tv |-> tv, year |-> year, title |-> title,
         conf |-> Confidence(tv, year, title, n.imdb)]
=============================================================================

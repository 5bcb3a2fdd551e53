------------------------------ MODULE PlanMaking ------------------------------
(***************************************************************************)
(* What ScanNow makes of one item that the predicate and the overlap gate  *)
(* have passed: its verdict, its layout, whether a review is due and why,  *)
(* and the plan that is saved.  Settings may be applied between any two of *)
(* these steps: the thresholds are those the scan began with, while        *)
(* AutoFile is read, twice, from the settings as they are.                 *)
(***************************************************************************)
EXTENDS Layout

CONSTANTS
    Names,      \* what items are called
    Payloads,   \* the files of an item
    Libraries,  \* what the library of an item's type may be like
    Rules,      \* thresholds, in hundredths, and the default for PDFs
    MaxChanges  \* settings applied in a behaviour

\* The patterns that match, and the numbers they hold.
WellFormed(c) ==
    /\ c.notation \subseteq DOMAIN Rank /\ c.season \in DOMAIN Numeral /\ c.eps \in Seq(DOMAIN Numeral)
    /\ c.notation \cap {"list", "word", "std", "alt"} # {} => Len(c.eps) >= 1
    /\ "span" \in c.notation => Len(c.eps) >= 2
ASSUME PayloadsAssumption ==
    \A files \in Payloads :
        /\ files # <<>> /\ files \in Seq(FilesOf(files))
        /\ \A f \in FilesOf(files) : /\ f.dir \in Seq(STRING) /\ f.base \in Seq(STRING)
                                    /\ f.size \in Nat /\ WellFormed(f.code)
        /\ \A i, j \in DOMAIN files :
              i # j => <<files[i].dir, files[i].base, files[i].ext>>
                         # <<files[j].dir, files[j].base, files[j].ext>>
ASSUME NamesAssumption == \A n \in Names : WellFormed(n.code)
\* What pdf_default says is one of two types, or none.
ASSUME RulesAssumption ==
    \A r \in Rules : /\ r.review \in 0 .. 100 /\ r.auto \in r.review .. 100 /\ r.margin \in 0 .. 100
                     /\ r.pdf \in {"unknown", "comic", "ebook"}
ASSUME BoundsAssumption == MaxChanges \in Nat

VARIABLES
    item, rules, lib,   \* what the loop is at, and works with
    auto,               \* Pipeline.cfg.AutoFile
    pc,                 \* the step of the loop
    verdict, parsed,    \* Classify's results
    result,             \* Build's
    needs, reason,      \* needsReview and its reason
    plan,               \* the plan saved
    said,               \* the event, counter or error the item leaves
    changes             \* settings applied meanwhile

madeVars == <<verdict, parsed, result, needs, reason>>
vars == <<item, rules, lib, auto, pc, madeVars, plan, said, changes>>

NoParse == ToParsed([tv |-> NotTV, year |-> FALSE, title |-> "", conf |-> 0])
NoVerdict == Verdict("unknown", 0, "single", "")
NoLib == [accepted |-> {}, oneshots |-> "", inroot |-> FALSE, strict |-> FALSE]
NoResult == [refused |-> FALSE, skipped |-> <<>>, placed |-> <<>>, why |-> ""]
NoPlan == [made |-> FALSE, needs |-> FALSE, reason |-> "", steps |-> <<>>]
Reasons == {"", "no ingestible files", "absolute numbering", "date-based episode", "rootless",
            "cardinality", "score", "confidence", "auto-file is off"}
Codes == {"", "error", "CLASSIFY_UNKNOWN", "SKIP_NO_LIBRARY", "LAYOUT_REFUSED", "SKIP_PLAN_LIMIT",
          "SKIP_PLAN_AWAITING_USER", "PLAN_READY", "PLAN_NEEDS_REVIEW"}

IsPlaced(s) == s.src \in FilesOf(item.files) /\ s.dst.ext = s.src.ext

TypeOK ==
    /\ DOMAIN item = {"name", "files"}
    /\ rules \in Rules /\ lib \in Libraries \cup {NoLib} /\ auto \in BOOLEAN
    /\ pc \in {"classify", "library", "decide", "explain", "save", "done"}
    /\ verdict.type \in Types \cup {"unknown"} /\ verdict.score \in Nat
    /\ verdict.card \in {"single", "multi", "mixed"}
    /\ (verdict.reason # "" => verdict.type = "unknown" /\ said = "CLASSIFY_UNKNOWN")
    /\ (pc \in {"decide", "explain", "save"} => ~result.refused)
    /\ parsed.conf \in 0 .. 100 /\ needs \in BOOLEAN /\ reason \in Reasons
    /\ ToSet(result.skipped) \subseteq FilesOf(item.files)
    /\ \A s \in FilesOf(result.placed) : IsPlaced(s)
    /\ said \in Codes /\ (said = "" <=> pc # "done")
    /\ changes \in 0 .. MaxChanges

Init ==
    /\ item \in [name : Names, files : Payloads] /\ rules \in Rules /\ lib = NoLib /\ auto \in BOOLEAN
    /\ pc = "classify" /\ verdict = NoVerdict /\ parsed = NoParse /\ result = NoResult
    /\ needs = FALSE /\ reason = "" /\ plan = NoPlan /\ said = "" /\ changes = 0

-----------------------------------------------------------------------------
(* The loop of ScanNow *)

\* sharesRoot: a payload of several files has one directory above them all.
Rootless(files) ==
    Len(files) > 1 /\ (\E f \in FilesOf(files) : f.dir = <<>>
                       \/ \E g \in FilesOf(files) : g.dir = <<>> \/ f.dir[1] # g.dir[1])

Ends(code) == pc' = "done" /\ said' = code
Goes(to) == pc' = to /\ UNCHANGED said

\* Classify, and the upsert of what it found.
ClassifyItem ==
    /\ pc = "classify"
    /\ verdict' = Decide(item.name, item.files, rules)
    /\ parsed' = Enrich(verdict'.type, item.name, item.files)
    /\ IF verdict'.type = "unknown" THEN Ends("CLASSIFY_UNKNOWN") ELSE Goes("library")
    /\ UNCHANGED <<item, rules, lib, auto, result, needs, reason, plan, changes>>

\* A write to the store fails.
Fails ==
    /\ pc \in {"classify", "save"} /\ Ends("error")
    /\ UNCHANGED <<item, rules, lib, auto, madeVars, plan, changes>>

NoLibrary ==
    /\ pc = "library" /\ Ends("SKIP_NO_LIBRARY")
    /\ UNCHANGED <<item, rules, lib, auto, madeVars, plan, changes>>

\* The error of the layout could be logged and forgotten.
BuildItem_logged ==
    /\ pc = "library" /\ Goes("decide")
    /\ lib' \in Libraries
    /\ result' = Build(verdict.type, parsed, item.files, lib')
    /\ UNCHANGED <<item, rules, auto, verdict, parsed, needs, reason, plan, changes>>

BuildItem ==
    /\ pc = "library"
    /\ lib' \in Libraries
    /\ result' = Build(verdict.type, parsed, item.files, lib')
    /\ IF result'.refused THEN Ends("LAYOUT_REFUSED") ELSE Goes("decide")
    /\ UNCHANGED <<item, rules, auto, verdict, parsed, needs, reason, plan, changes>>

\* Whether a review is due; the confidence of the parse could be forgotten.
NeedsReview_score(on) ==
    \/ result.why # "" \/ verdict.score < rules.auto
    \/ verdict.card # "single" \/ Rootless(item.files) \/ ~on
NeedsReview(on) ==
    \/ result.why # "" \/ verdict.score < rules.auto \/ parsed.conf < rules.auto
    \/ verdict.card # "single" \/ Rootless(item.files) \/ ~on

NeedReview ==
    /\ pc = "decide" /\ Goes("explain")
    /\ needs' = NeedsReview(auto)
    /\ UNCHANGED <<item, rules, lib, auto, verdict, parsed, result, reason, plan, changes>>

ReasonFor(on) ==
    IF result.why # "" THEN result.why
    ELSE IF Rootless(item.files) THEN "rootless"
    ELSE IF verdict.card # "single" THEN "cardinality"
    ELSE IF verdict.score < rules.auto THEN "score"
    ELSE IF parsed.conf < rules.auto THEN "confidence"
    ELSE IF ~on THEN "auto-file is off" ELSE ""

Explain ==
    /\ pc = "explain" /\ Goes("save")
    /\ reason' = ReasonFor(auto)
    /\ UNCHANGED <<item, rules, lib, auto, verdict, parsed, result, needs, plan, changes>>

\* max_plans_per_run, and a plan that waits on the user.
Skips ==
    /\ pc = "save" /\ \E code \in {"SKIP_PLAN_LIMIT", "SKIP_PLAN_AWAITING_USER"} : Ends(code)
    /\ UNCHANGED <<item, rules, lib, auto, madeVars, plan, changes>>

\* savePlan: a step for each file that is placed.
SavePlan ==
    /\ pc = "save" /\ Ends(IF needs THEN "PLAN_NEEDS_REVIEW" ELSE "PLAN_READY")
    /\ plan' = [made |-> TRUE, needs |-> needs, reason |-> reason, steps |-> result.placed]
    /\ UNCHANGED <<item, rules, lib, auto, madeVars, changes>>

\* ApplyConfig of a request.
SetConfig ==
    /\ pc # "done" /\ changes < MaxChanges /\ changes' = changes + 1
    /\ auto' = ~auto
    /\ UNCHANGED <<item, rules, lib, pc, madeVars, plan, said>>

Next == ClassifyItem \/ Fails \/ NoLibrary \/ BuildItem \/ NeedReview \/ Explain \/ Skips \/ SavePlan
        \/ SetConfig
Spec == Init /\ [][Next]_vars

-----------------------------------------------------------------------------
(* Properties *)

\* The directories of discs right above a file, each with how far above.
DiscsAbove(f) ==
    LET n == Len(f.dir)
        discs == {i \in DOMAIN f.dir : \A j \in i .. n : f.dir[j] \in Discs}
    IN  {<<n - i, f.dir[i]>> : i \in discs}

\* What tells two files apart but a builder does not carry into the name, by
\* the type of their plan.
Alike(f, g) ==
    LET a == Sanitize(f.base, lib)
        b == Sanitize(g.base, lib)
    IN  CASE verdict.type = "movie" -> IsSuffix(a, b) \/ IsSuffix(b, a)
          [] verdict.type = "tv" ->
                \/ OwnPosition(f) = OwnPosition(g)
                \/ {OwnPosition(f), OwnPosition(g)} = {<<>>, TorrentPosition(parsed)}
          [] verdict.type \in {"music", "audiobook"} -> a = b /\ DiscsAbove(f) = DiscsAbove(g)
          [] verdict.type \in {"comic", "rom"} -> a = b
          [] verdict.type = "ebook" -> TRUE

\* Whether TruncateComponent cut the name.
IsCut(s) == \E w \in ToSet(s.dst.name) : w \in Long

\* Each file of the payload is in the plan or left out for a reason, once
\* (layout.go, Build).
NoFileForgotten ==
    pc \in {"decide", "explain", "save"} =>
        /\ Len(result.placed) + Len(result.skipped) = Len(item.files)
        /\ {s.src : s \in FilesOf(result.placed)} \cup FilesOf(result.skipped) = FilesOf(item.files)

\* No file is forgotten, and two are sent to one destination, where the second
\* would find the first in its way, only if a name was cut or the layout drops
\* what tells them apart: companions of a film in different directories, files
\* of the same episode, disc or book (layout.go, the builders).
NamesKeptApart ==
    /\ NoFileForgotten
    /\ pc \in {"decide", "explain", "save"} =>
          \A s, t \in FilesOf(result.placed) :
              s # t /\ s.dst = t.dst =>
                  \/ Alike(s.src, t.src)
                  \/ IsCut(s) /\ verdict.type \notin {"music", "audiobook"}

\* The thresholds as shipped.
Shipped == rules.auto = 85 /\ rules.review = 50 /\ rules.margin = 10

\* A plan is for a type no other one comes near.  One that needs no review has
\* an episode or a year in its name, and a film has video for half of what it
\* holds: the weights of the signals let no name alone make a film
\* (signals.go, scoreConfidence).
PlansAreSure ==
    plan.made =>
        LET info == Parse(item.name)
            counts == CountFamilies(item.files)
            all == Signals(item.files, item.name, info, counts, rules.pdf)
        IN  /\ \A t \in Types \ {verdict.type} :
                  Score(all, t) = 0 \/ Score(all, t) + rules.margin <= Score(all, verdict.type)
            /\ Shipped /\ ~plan.needs =>
                  /\ info.tv.season >= 0 \/ item.name.year \in {"paren", "end", "future"}
                  /\ verdict.type = "movie" => 2 * counts["video"] >= PrimaryCount(counts)

\* A plan has a reason exactly if it needs a review, whatever settings are
\* applied between the two readings, but for those of AutoFile itself; an item
\* that gets no plan says why.
ReviewReasoned ==
    /\ plan.made /\ (plan.needs <=> plan.reason = "") =>
          changes > 0 /\ plan.reason \in {"", "auto-file is off"}
    /\ said = "CLASSIFY_UNKNOWN" => verdict.reason # ""

\* "The extension and the structural marker are both preserved": the name of
\* an episode holds its number.
EpisodeSurvives ==
    plan.made /\ verdict.type = "tv" =>
        \A s \in FilesOf(plan.steps) : EpisodeFor(parsed, s.src) # <<>> =>
            IsSuffix(Marker(EpisodeFor(parsed, s.src)), s.dst.name)
=============================================================================

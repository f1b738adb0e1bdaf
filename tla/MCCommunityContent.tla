-------------------- MODULE MCCommunityContent --------------------
(***************************************************************************)
(* What a community takes in and gives out, one part in each behaviour:    *)
(* the verdict of its challenges, exclusions, publication rules, comment   *)
(* figures, pages, purges, migrations, exports, and the community lists    *)
(* its owner publishes. The parts share no state, so that each behaviour   *)
(* picks one and leaves the others at their first state.                   *)
(***************************************************************************)
EXTENDS ChallengeVerdict, ChallengeExcludes, PublicationRules, CommentFigures, PageGeneration,
        PageSizes, PurgeCleanup, DbMigration, CommunityExport, CommunityLists, TLC

CONSTANTS x1, x2, x3, x4, x5, x6, x7, x8, e1, e2, e3, e4, d1, d2

VARIABLE part

----------------------------------------
(* Challenges: every set of exclusion rules of at most one rule each, every *)
(* outcome, three assignments of right answers. *)
OneRule(i) == {{}} \cup {{r} : r \in SUBSET (Slots \ {i}) \ {{}}}
VerdictRules == {f \in [Slots -> UNION {OneRule(i) : i \in Slots}] : \A i \in Slots : f[i] \in OneRule(i)}
VerdictWork ==
    {[rules |-> r, says |-> s, right |-> [i \in Slots |-> i \in t], excused |-> [i \in Slots |-> FALSE],
      approval |-> [i \in Slots |-> i = 2]] :
        r \in VerdictRules, s \in [Slots -> {"ok", "fail", "ask"}], t \in {{2, 3}, {1, 2}}}

ExRule(rate, key, name, friend) == [rate |-> rate, key |-> key, name |-> name, friend |-> friend]
EachRequest(x) == [r \in Requests |-> x]
TwoSigners == [r \in Requests |-> IF r = "r1" THEN "s" ELSE "t"]
ExJob(rule, signer, name, cid) ==
    [rule |-> rule, signer |-> signer, name |-> name, cid |-> EachRequest(cid),
     home |-> [c \in Cids |-> "friendly"], writer |-> [c \in Cids |-> "s"]]
ByN1 == EachRequest("n1")
N1AndN2 == [r \in Requests |-> IF r = "r1" THEN "n1" ELSE "n2"]
ExcludeWork ==
    {ExJob(ExRule(TRUE, "none", "none", FALSE), EachRequest("s"), EachRequest("none"), "none"),
     ExJob(ExRule(TRUE, "none", "none", FALSE), EachRequest("s"), N1AndN2, "none"),
     ExJob(ExRule(TRUE, "none", "n1", FALSE), TwoSigners, ByN1, "none"),
     ExJob(ExRule(FALSE, "none", "none", TRUE), TwoSigners, EachRequest("none"), "c1"),
     ExJob(ExRule(TRUE, "t", "n1", TRUE), TwoSigners, ByN1, "c1")}

----------------------------------------
(* Publication rules: a thread c1, its reply c2 under an alias of kb, and *)
(* another post c3; km is a moderator by the name n1, ka the owner. *)
BoardRow(d, pa, po, s, o) ==
    [depth |-> d, parent |-> pa, post |-> po, signer |-> s, original |-> o, traits |-> {}, removed |-> FALSE,
     locked |-> FALSE, archived |-> FALSE, deleted |-> FALSE, pending |-> FALSE, disapproved |-> FALSE, voters |-> {}]
Thread1 == [c1 |-> BoardRow(0, "none", "c1", "ka", "nobody"), c2 |-> BoardRow(1, "c1", "c1", "alias", "kb"),
            c3 |-> BoardRow(0, "none", "c3", "kb", "nobody")]
LockedThread == [Thread1 EXCEPT !["c1"].locked = TRUE]
PendingReply == [Thread1 EXCEPT !["c2"].pending = TRUE]
PubBy(k, s, n, t, po, q, tr, a, c) ==
    [kind |-> k, signer |-> s, name |-> n, wire |-> "ok", target |-> t, post |-> po, quotes |-> q, traits |-> tr,
     vote |-> 1, act |-> a, cid |-> c, early |-> FALSE]
By(k, s, t, a) == PubBy(k, s, IF s = "km" THEN "n1" ELSE "none", t, IF t = "c3" THEN "c3" ELSE "c1", {}, {}, a, "x")
Reply(s, t, q, c) == [By("reply", s, t, "") EXCEPT !.quotes = q, !.cid = c]
EditTo(s, t, tr) == [By("edit", s, t, "") EXCEPT !.traits = tr]
PrJobOf(b, f, p, a) ==
    [board |-> b, features |-> f, roles |-> [n1 |-> "moderator", ka |-> "owner"], txt |-> [n1 |-> "km"],
     pub |-> p, acts |-> a]
Repoint == [op |-> "point", of |-> "n1", to |-> "kx"]
PointBack == [op |-> "point", of |-> "n1", to |-> "km"]
Dismiss == [op |-> "dismiss", of |-> "n1", to |-> "none"]
PurgeReply == [op |-> "purge", of |-> "c2", to |-> "none"]
ThreePubs == 1..3
RulesWork ==
    {PrJobOf(Thread1, {}, <<By("moderation", "km", "c2", "remove"), Reply("kb", "c2", {"c1"}, "n2"), By("vote", "kb", "c2", "")>>, {Repoint, Dismiss, PointBack}),
     PrJobOf(LockedThread, {}, <<Reply("km", "c2", {"c2"}, "n1"), Reply("kb", "c2", {}, "n2"), By("moderation", "ka", "c1", "archive")>>,
             {Repoint, Dismiss, PointBack, PurgeReply}),
     PrJobOf(Thread1, {"noSpoilerReplies", "postFlairs"},
             <<EditTo("kb", "c2", {"spoiler"}), EditTo("alias", "c2", {"flair"}), EditTo("kb", "c3", {"spoiler", "flair"})>>, {}),
     PrJobOf(PendingReply, {}, <<Reply("kb", "c1", {"c3"}, "n1"), Reply("kb", "c1", {"c2"}, "n2"), By("moderation", "ka", "c2", "approve")>>, {}),
     PrJobOf(PendingReply, {}, <<[By("edit", "kb", "c2", "delete") EXCEPT !.cid = "n1"], Reply("kb", "c2", {}, "n2"),
                                By("moderation", "km", "c2", "disapprove")>>, {Dismiss}),
     PrJobOf(Thread1, {}, <<[By("communityEdit", "km", "none", "roles") EXCEPT !.post = "none"],
                            [By("communityEdit", "ka", "none", "roles") EXCEPT !.post = "none"],
                            PubBy("post", "kb", "none", "none", "n3", {}, {"image"}, "", "n3")>>, {Dismiss}),
     PrJobOf(Thread1, {"noImageReplies", "requirePostFlairs", "postFlairs", "noUpvotes", "noNestedReplies"},
             <<[Reply("kb", "c1", {}, "n1") EXCEPT !.traits = {"image"}], PubBy("post", "kb", "none", "none", "n2", {}, {"flair"}, "", "n2"),
               Reply("kb", "c2", {}, "x")>>, {}),
     PrJobOf([Thread1 EXCEPT !["c3"].voters = {"kb"}], {"noUpvotes"},
             <<By("vote", "kb", "c1", ""), [By("vote", "kb", "c3", "") EXCEPT !.vote = 0, !.post = "c1"],
               [By("vote", "kb", "c3", "") EXCEPT !.wire = "bad", !.post = "c1"]>>, {})}

----------------------------------------
(* Comment figures: a chain of four comments, or two threads. *)
FourComments == 1..4
Chain == <<{}, {1}, {1, 2}, {1, 2, 3}>>
TwoThreads == <<{}, {1}, {1, 2}, {}>>
Plain == [c \in FgComment |-> ""]
WriteOf(op, c, by, v) == [op |-> op, on |-> c, by |-> by, v |-> v]
UpVote(c) == WriteOf("vote", c, "v", "up")
Moderate(c, field, v) == WriteOf("moderate", c, field, v)
WindowedJob(above, author, original, sent, first, writes, latePurge, maxAge) ==
    [above |-> above, author |-> author, original |-> original, sent |-> sent, first |-> first,
     writes |-> writes, latePurge |-> latePurge, maxAge |-> maxAge]
FgJobOf(above, author, original, sent, first, writes, latePurge) ==
    WindowedJob(above, author, original, sent, first, writes, latePurge, 0)
FiguresWork ==
    LET abab == <<"a", "b", "a", "b">>
        inOrder == <<1, 2, 3, 4>>
    IN {FgJobOf(Chain, abab, Plain, inOrder, {1, 2}, {UpVote(1), Moderate(2, "removed", "yes")}, FALSE),
        FgJobOf(Chain, <<"a", "b", "c", "b">>, Plain, <<1, 3, 2, 4>>, {1, 2},
                {WriteOf("comment", 3, "", ""), WriteOf("edit", 2, "deleted", "yes")}, FALSE),
        FgJobOf(TwoThreads, abab, Plain, inOrder, {1, 2}, {WriteOf("comment", 4, "", "pending"), Moderate(4, "approved", "no")}, FALSE),
        FgJobOf(Chain, abab, Plain, inOrder, {1, 2, 3}, {WriteOf("purge", 3, "", ""), UpVote(1)}, FALSE),
        FgJobOf(TwoThreads, <<"a", "b", "b", "a">>, Plain, inOrder, {1, 2, 4}, {Moderate(1, "ban", "")}, FALSE),
        FgJobOf(Chain, abab, Plain, inOrder, {1, 2, 3}, {WriteOf("purge", 3, "", ""), UpVote(3)}, TRUE),
        FgJobOf(TwoThreads, <<"a", "b", "x", "b">>, <<"", "", "a", "">>, inOrder, {1, 2, 3}, {UpVote(3)}, FALSE),
        FgJobOf(Chain, abab, Plain, inOrder, {1, 2}, {WriteOf("edit", 2, "deleted", "yes"), WriteOf("edit", 2, "content", "")}, FALSE),
        WindowedJob(Chain, <<"a", "b", "c", "d">>, Plain, <<0 - 1, 0, 1, 2>>, {1, 2}, {UpVote(2)}, FALSE, 1)}

----------------------------------------
(* Pages: four entries of mixed sizes, sorts that agree, disagree or tie. *)
SortOf(preloaded, flat, score, window, broken) ==
    [set |-> FourComments, preloaded |-> preloaded, flat |-> flat, score |-> score, window |-> window, broken |-> broken]
Excluding(hidden, sort) == [sort EXCEPT !.set = @ \ hidden]
Rising == [c \in FourComments |-> c]
Falling == [c \in FourComments |-> 5 - c]
Tied == [c \in FourComments |-> 1]
NoScore == [c \in FourComments |-> 0]
EntryOf(size, pinned, age) == [size |-> size, pinned |-> pinned, age |-> age]
MixedEntries == <<EntryOf(1, FALSE, 9), EntryOf(2, FALSE, 1), EntryOf(1, TRUE, 9), EntryOf(3, FALSE, 1)>>
EvenEntries == [c \in FourComments |-> EntryOf(2, FALSE, 0)]
GenJobOf(sorts, entry, preload, rounds, edited, faults) ==
    [sorts |-> sorts, entry |-> entry, preload |-> preload, rounds |-> rounds, edits |-> edited, faults |-> faults]
PagesWork ==
    {GenJobOf(<<SortOf(TRUE, FALSE, Rising, 10, FALSE), SortOf(FALSE, FALSE, Falling, 5, FALSE), SortOf(FALSE, TRUE, Tied, 10, FALSE)>>,
              MixedEntries, 3, 2, {2}, {}),
     GenJobOf(<<SortOf(TRUE, FALSE, Rising, 5, FALSE), SortOf(FALSE, FALSE, Falling, 10, FALSE), SortOf(FALSE, FALSE, Tied, 10, TRUE)>>,
              MixedEntries, 9, 1, {}, {"add"}),
     GenJobOf(<<SortOf(TRUE, FALSE, Rising, 10, FALSE), SortOf(FALSE, FALSE, Falling, 10, FALSE)>>, MixedEntries, 9, 1, {}, {}),
     GenJobOf(<<SortOf(FALSE, FALSE, Rising, 10, FALSE), SortOf(FALSE, FALSE, Falling, 10, FALSE), SortOf(FALSE, TRUE, Tied, 10, FALSE)>>,
              EvenEntries, 9, 1, {}, {"add"}),
     GenJobOf(<<SortOf(TRUE, FALSE, NoScore, 10, FALSE), SortOf(TRUE, FALSE, Rising, 10, TRUE)>>, MixedEntries, 9, 1, {}, {}),
     GenJobOf(<<SortOf(TRUE, FALSE, NoScore, 10, FALSE)>>, MixedEntries, 9, 1, {}, {}),
     GenJobOf(<<Excluding({3}, SortOf(TRUE, FALSE, Rising, 10, FALSE)), SortOf(FALSE, FALSE, Falling, 10, FALSE)>>, MixedEntries, 9, 1, {}, {}),
     GenJobOf(<<Excluding({3}, SortOf(TRUE, FALSE, Rising, 5, FALSE)), SortOf(TRUE, FALSE, Falling, 10, FALSE),
                Excluding({2, 3}, SortOf(FALSE, TRUE, Tied, 10, FALSE))>>, MixedEntries, 9, 1, {}, {})}

(* Entries of one size, from a few bytes to most of a first page. *)
PzJobOf(entry, n, first, embed) == [entry |-> entry, count |-> n, first |-> first, embed |-> embed]
SizesWork ==
    {PzJobOf(700, 6000, MiB, FALSE), PzJobOf(700, 6000, 131072, TRUE), PzJobOf(30000, 500, MiB, FALSE),
     PzJobOf(900000, 6, MiB, FALSE), PzJobOf(100, 9, MiB, FALSE), PzJobOf(60000, 150, 131072, TRUE)}

----------------------------------------
(* Purges, a migration with duplicates of duplicates, exports, lists. *)
PgJobOf(r, s, n, f, l) == [rows |-> r, stores |-> s, records |-> n, fails |-> f, losesPins |-> l]
PurgeWork == {PgJobOf({1}, {}, 2, TRUE, FALSE), PgJobOf({1}, {2}, 2, FALSE, FALSE), PgJobOf({1, 2, 3}, {}, 0, TRUE, TRUE)}

MigratedTables == <<"comments", "edits">>
MigratedRows == [t \in TableSet |-> IF t = "comments" THEN {x1, x2, x3, x4, x5, x6, x7, x8} ELSE {e1, e2, e3, e4}]
MigratedParents ==
    x1 :> NoRow @@ x2 :> NoRow @@ x3 :> NoRow @@ x4 :> x3 @@ x5 :> x3 @@ x6 :> NoRow @@ x7 :> x6 @@ x8 :> x6
    @@ e1 :> x1 @@ e2 :> x2 @@ e3 :> x1 @@ e4 :> x1
MigratedIds ==
    x1 :> 1 @@ x2 :> 2 @@ x3 :> 3 @@ x4 :> 4 @@ x5 :> 5 @@ x6 :> 6 @@ x7 :> 7 @@ x8 :> 8
    @@ e1 :> 1 @@ e2 :> 2 @@ e3 :> 3 @@ e4 :> 4
MigratedSignatures ==
    x1 :> "s1" @@ x2 :> "s2" @@ x3 :> "s1" @@ x4 :> "s4" @@ x5 :> "s4" @@ x6 :> "s1" @@ x7 :> "s7" @@ x8 :> "s7"
    @@ e1 :> "t1" @@ e2 :> "t2" @@ e3 :> "t3" @@ e4 :> "t3"

XpJobOf(c, k, f) == [cancels |-> c, crashes |-> k, faults |-> f]
ExportWork == {XpJobOf(TRUE, FALSE, FALSE), XpJobOf(FALSE, TRUE, FALSE), XpJobOf(FALSE, FALSE, TRUE)}

ClJobOf(c, ci, lo, ba, do, ve) == [calls |-> c, cid |-> ci, loaded |-> lo, bad |-> ba, domain |-> do, verdict |-> ve]
ListWork ==
    {ClJobOf({"publish", "update", "stop"}, FALSE, FALSE, FALSE, TRUE, "yes"), ClJobOf({"update", "stop"}, TRUE, FALSE, TRUE, TRUE, "no"),
     ClJobOf({"get", "update", "stop"}, TRUE, FALSE, FALSE, TRUE, "unhandled"), ClJobOf({"update", "stop"}, TRUE, TRUE, FALSE, FALSE, "no")}

----------------------------------------
(* The job of a part that does not run is any one of its workload. *)
Fix(p, job, S) == IF part = p THEN TRUE ELSE job = CHOOSE w \in S : TRUE

ContentInit ==
    /\ part \in {"verdict", "excludes", "rules", "figures", "pages", "sizes", "purge", "migration", "export", "lists"}
    /\ Fix("excludes", exJob, ExWorkload) /\ ExInit /\ Fix("excludes", txt, [Names -> Keys])
    /\ Fix("rules", prJob, PrWorkload) /\ PrInit
    /\ Fix("figures", fgJob, FgWorkload) /\ FgInit
    /\ Fix("pages", gnJob, GenWorkload) /\ GenInit
    /\ Fix("sizes", pzJob, PzWorkload) /\ PzInit
    /\ Fix("purge", pgJob, PgWorkload) /\ PgInit
    /\ MigInit
    /\ Fix("export", xpJob, XpWorkload) /\ XpInit
    /\ Fix("lists", clJob, ClWorkload) /\ ClInit
    /\ Fix("verdict", cvJob, CvWorkload) /\ CvInit

VerdictStep == part = "verdict" /\ CvNext /\ UNCHANGED <<part, exVars, prVars, fgVars, genVars, pzVars, pgVars, migVars, xpVars, clVars>>
ExcludesStep == part = "excludes" /\ ExNext /\ UNCHANGED <<part, cvVars, prVars, fgVars, genVars, pzVars, pgVars, migVars, xpVars, clVars>>
RulesStep == part = "rules" /\ PrNext /\ UNCHANGED <<part, cvVars, exVars, fgVars, genVars, pzVars, pgVars, migVars, xpVars, clVars>>
FiguresStep == part = "figures" /\ FgNext /\ UNCHANGED <<part, cvVars, exVars, prVars, genVars, pzVars, pgVars, migVars, xpVars, clVars>>
PagesStep == part = "pages" /\ GenNext /\ UNCHANGED <<part, cvVars, exVars, prVars, fgVars, pzVars, pgVars, migVars, xpVars, clVars>>
SizesStep == part = "sizes" /\ PzNext /\ UNCHANGED <<part, cvVars, exVars, prVars, fgVars, genVars, pgVars, migVars, xpVars, clVars>>
PurgeStep == part = "purge" /\ PgNext /\ UNCHANGED <<part, cvVars, exVars, prVars, fgVars, genVars, pzVars, migVars, xpVars, clVars>>
MigrationStep == part = "migration" /\ MigNext /\ UNCHANGED <<part, cvVars, exVars, prVars, fgVars, genVars, pzVars, pgVars, xpVars, clVars>>
ExportStep == part = "export" /\ XpNext /\ UNCHANGED <<part, cvVars, exVars, prVars, fgVars, genVars, pzVars, pgVars, migVars, clVars>>
ListsStep == part = "lists" /\ ClNext /\ UNCHANGED <<part, cvVars, exVars, prVars, fgVars, genVars, pzVars, pgVars, migVars, xpVars>>

ContentNext ==
    \/ VerdictStep \/ ExcludesStep \/ RulesStep \/ FiguresStep \/ PagesStep
    \/ SizesStep \/ PurgeStep \/ MigrationStep \/ ExportStep \/ ListsStep

ContentSpec == ContentInit /\ [][ContentNext]_<<part, cvVars, exVars, prVars, fgVars, genVars, pzVars, pgVars, migVars, xpVars, clVars>>

(* What the page generator publishes can be read in full: every sort through *)
(* pages that hold the current entries and fit the limit, built within the *)
(* budget and without two sorts waiting for each other. *)
PagesAreSound ==
    BudgetHolds /\ SomebodyMakesProgress /\ EverySortIsReadable /\ PagesHoldTheirEntries /\ PagesFit

(* Work that was called off has no late effect: a cancelled export does not *)
(* end as complete, and a stopped run of a list neither changes it nor *)
(* emits. *)
EndedStaysEnded ==
    CancelledIsNotCompleted /\ StoppedRunIsQuiet
========================================

----------------------------- MODULE MCProfile ------------------------------
(* Two plans whose slugs collide; two versions of a tool and an incomplete *)
(* one; two changes that call for a common memory; messages within and     *)
(* over the cap; two chats under one name; result files that name a word   *)
(* twice and a word nobody knows; steps of every kind, fanned out or with  *)
(* a reference or neither, sound or not; packs with and without rules that *)
(* do not all fit, one of them under the id of a shipped one; a secret and *)
(* two names that share a word, hidden one way, another, or by a pattern;  *)
(* students enrolled for good, later, or no longer; a request whose file   *)
(* depends on the folder it is made in, and some that are refused; lessons *)
(* under another name of their subject, or with a field missing.           *)
EXTENDS Profile, TLC
CONSTANTS p1, p2, p3, a1, a2, k1, k2, x1, d1, d2, m1, m2, n1, c1, c2, w1, w2, f1, f2,
  sx, wa, wb, wc, n2, n3, i1, i2, cl0, cl1

MCIdOf == (p1 :> a1) @@ (p2 :> a1) @@ (p3 :> a2)
MCObligationsOf ==
  (d1 :> {[key |-> k1, text |-> x1]}) @@
  (d2 :> {[key |-> k1, text |-> x1], [key |-> k2, text |-> x1]})
MCChunksOf == (m1 :> 2) @@ (m2 :> 3)
MCChatsNamed == n1 :> <<c1, c2>>
Rec(word, status, correct, wrong, known) ==
  [word |-> word, status |-> status, correct |-> correct, wrong |-> wrong, known |-> known]
MCRecordsOf ==
  (f1 :> <<Rec(w1, "memorized", {}, {}, {}), Rec(w1, "", {}, {2}, {})>>) @@
  (f2 :> <<Rec(w1, "", {1}, {}, {TRUE}), Rec(w2, "wrong", {}, {}, {})>>)
Step(op, set, match, captures) ==
  [op |-> op, set |-> set, match |-> match, captures |-> captures, listed |-> TRUE, key |-> "none"]
MCSteps ==
  {Step("resolve", <<>>, <<"value">>, TRUE), Step("insert", <<"ref", "each">>, <<>>, TRUE),
   [Step("ensure", <<"ref", "value">>, <<"ref">>, TRUE) EXCEPT !.key = "sound"],
   [Step("ensure", <<"each", "value">>, <<"each">>, FALSE) EXCEPT !.key = "unindexed"],
   [Step("ensure", <<"each">>, <<"each">>, TRUE) EXCEPT !.listed = FALSE],
   Step("ensure", <<"each", "value">>, <<"each">>, TRUE),
   Step("update_stub", <<"ref">>, <<"each", "value">>, FALSE)}
MCShippedTemplate ==
  [steps |-> <<Step("resolve", <<>>, <<"value">>, TRUE),
               Step("update_stub", <<"value">>, <<"ref">>, FALSE)>>,
   rule |-> "none", default |-> [kind |-> "absent", length |-> 0]]
Pack(id, source, bucket, words, rules, size) ==
  [id |-> id, source |-> source, bucket |-> bucket, required |-> words,
   any |-> IF source = "profile" THEN Tokens ELSE {}, rules |-> rules, size |-> size]
MCShippedPacks ==
  {Pack(1, "repo", "trigger", {"x"}, TRUE, 2), Pack(3, "repo", "trigger", {"y"}, FALSE, 2)}
MCProfilePacks ==
  {Pack(id, "profile", "trigger", {"x"}, rules, size) :
     id \in {1, 2, 4}, rules \in BOOLEAN, size \in {1, 3}}
  \cup {Pack(id, "profile", "always_inject", {}, rules, size) :
     id \in {1, 2, 4}, rules \in BOOLEAN, size \in {1, 3}}
  \cup {Pack(id, "profile", "listed_lazy", {}, FALSE, 1) : id \in {1, 2, 4}}
Entry(match, mode, names, shown) ==
  [match |-> match, mode |-> mode, names |-> names, shown |-> shown]
MCSaid == {<<sx, wa, wb, wc>>}
MCEntryLists ==
  {<<Entry(n1, "reversible", {<<wa, wb>>}, <<wa, wb>>),
     Entry(n2, "oneway", {<<wb, wc>>}, <<wb, wc>>)>>,
   <<Entry(n2, "reversible", {<<wb, wc>>}, <<wb, wc>>),
     Entry(n3, "reversible", {<<wa, wb>>, <<wc, wc>>}, <<n3, n3>>)>>}
MCPeriods == {<<0, 0>>, <<3, 0>>, <<0, 1>>}
Request(kind, given, classes, file, execute) ==
  [kind |-> kind, given |-> given, classes |-> classes, file |-> file, execute |-> execute]
MCRequests ==
  {Request("write-action", {}, FALSE, "relative", execute) : execute \in BOOLEAN}
  \cup {Request("daily-management", {"from", "date"}, classes, "absolute", FALSE) :
           classes \in BOOLEAN}
  \cup {Request("daily-management", {"from"}, FALSE, "absolute", FALSE),
        Request("daily-lesson-homework", {"date", "to"}, TRUE, "absolute", FALSE)}
MCLineSize == <<1, 2, 3>>
Lesson(subject, homework, progress) ==
  [subject |-> subject, homework |-> homework, progress |-> progress]
MCLessons ==
  {Lesson("none", "given", TRUE), Lesson("reading", "given", TRUE), Lesson("alias", "given", TRUE),
   Lesson("reading", "blank", TRUE), Lesson("reading", "missing", TRUE), Lesson("none", "given", FALSE)}
MCLabelOf == [subject \in {"reading", "alias", "grammar"} |->
                IF subject = "grammar" THEN "G" ELSE "R"]
MCTimetables == {<<"reading", "reading">>, <<"reading", "none">>, <<"reading", "grammar">>}
Grant(client, account, allScopes) ==
  [client |-> client, account |-> account, allScopes |-> allScopes]
MCGrants == {Grant(cl0, "first", TRUE), Grant(cl1, "second", FALSE)}
MCFollowed == {<<cl0, "first">>}
\* Two values that stand for processes, teachers or students, as the part has
\* them.
Pair == {i1, i2}
Symmetry == Permutations(Pair)
=============================================================================

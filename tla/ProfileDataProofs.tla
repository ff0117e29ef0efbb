------------------------- MODULE ProfileDataProofs --------------------------
(***************************************************************************)
(* The promises of those parts of the profile that compute something: the  *)
(* totals of study results, the statements of a template, the texts shown  *)
(* without names and the lists cut to a budget.  An invariant says what    *)
(* the part has at hand, and the promise follows from what the operators   *)
(* compute: folds over finite sets, sequences that are joined, orders.     *)
(***************************************************************************)
EXTENDS ProfileProofs

-----------------------------------------------------------------------------
(* Folds over finite sets.  A fold is a function on the subsets of the     *)
(* set: each takes one element away.                                       *)

LEMMA Smallest ==
  ASSUME NEW S, IsFiniteSet(S), NEW B, B \subseteq SUBSET S, B # {}
  PROVE  \E T \in B : \A U \in B : ~(Cardinality(U) < Cardinality(T))
  <1> DEFINE sizes == {Cardinality(T) : T \in B}
  <1>1. \A T \in B : Cardinality(T) \in Nat
    BY FS_Subset, FS_CardinalityType
  <1>2. PICK n \in sizes : \A m \in sizes : n <= m
    <2>1. sizes \subseteq Nat
      BY <1>1
    <2>2. sizes # {}
      <3>1. PICK T \in B : TRUE
        OBVIOUS
      <3>2. Cardinality(T) \in sizes
        OBVIOUS
      <3> QED BY <3>2
    <2> HIDE DEF sizes
    <2> QED BY <2>1, <2>2, HasLeast
  <1>3. PICK T \in B : n = Cardinality(T)
    BY <1>2
  <1>4. \A U \in B : Cardinality(T) <= Cardinality(U)
    BY <1>2, <1>3
  <1> QED BY <1>1, <1>4

LEMMA OneLess ==
  ASSUME NEW S, IsFiniteSet(S), NEW T \in SUBSET S, NEW x \in T
  PROVE  /\ IsFiniteSet(T) /\ T \ {x} \in SUBSET S
         /\ Cardinality(T) \in Nat /\ Cardinality(T \ {x}) = Cardinality(T) - 1
         /\ Cardinality(T \ {x}) < Cardinality(T) /\ Cardinality(T) > 0
  <1>1. IsFiniteSet(T)
    BY FS_Subset
  <1>2. /\ Cardinality(T) \in Nat /\ Cardinality(T \ {x}) \in Nat
        /\ Cardinality(T \ {x}) = Cardinality(T) - 1
    BY <1>1, FS_RemoveElement, FS_CardinalityType
  <1> QED BY <1>1, <1>2

IsFold(it, S, base, step, pick) ==
  it = [s \in SUBSET S |-> IF s = {} THEN base ELSE step[pick[s]][it[s \ {pick[s]}]]]

HasFold(S, V, base, step, pick) ==
  \E it : it \in [SUBSET S -> V] /\ IsFold(it, S, base, step, pick)

LEMMA FoldExists ==
  ASSUME NEW S, IsFiniteSet(S), NEW V, NEW base \in V,
         NEW step, \A x \in S : \A v \in V : step[x][v] \in V,
         NEW pick, \A s \in SUBSET S : s # {} => pick[s] \in s
  PROVE  HasFold(S, V, base, step, pick)
  <1> DEFINE Upto(n) == {s \in SUBSET S : Cardinality(s) <= n}
             Good(g, n) == \A s \in Upto(n) :
                             g[s] = IF s = {} THEN base ELSE step[pick[s]][g[s \ {pick[s]}]]
             Has(n) == \E g : g \in [Upto(n) -> V] /\ Good(g, n)
  <1>0. \A s \in SUBSET S : Cardinality(s) \in Nat /\ IsFiniteSet(s)
    BY FS_Subset, FS_CardinalityType
  <1>1. Has(0)
    <2> DEFINE g == [s \in Upto(0) |-> base]
    <2>1. \A s \in Upto(0) : s = {}
      <3> SUFFICES ASSUME NEW s \in SUBSET S, Cardinality(s) <= 0 PROVE s = {}
        OBVIOUS
      <3>1. Cardinality(s) = 0
        BY <1>0
      <3> QED BY <1>0, <3>1, FS_EmptySet
    <2>2. Good(g, 0) /\ g \in [Upto(0) -> V]
      BY <2>1
    <2> QED BY <2>2
  <1>2. ASSUME NEW n \in Nat, Has(n) PROVE Has(n + 1)
    <2>1. PICK g : g \in [Upto(n) -> V] /\ Good(g, n)
      BY <1>2
    <2> DEFINE h == [s \in Upto(n + 1) |-> IF s = {} THEN base ELSE step[pick[s]][g[s \ {pick[s]}]]]
    <2>2. ASSUME NEW s \in Upto(n + 1), s # {} PROVE pick[s] \in S /\ s \ {pick[s]} \in Upto(n)
      <3>1. pick[s] \in s /\ s \in SUBSET S /\ Cardinality(s) <= n + 1
        BY <2>2
      <3>2. s \ {pick[s]} \in SUBSET S /\ Cardinality(s \ {pick[s]}) = Cardinality(s) - 1
        BY <3>1, OneLess
      <3>3. Cardinality(s \ {pick[s]}) <= n
        BY <1>0, <3>1, <3>2
      <3> QED BY <3>1, <3>2, <3>3
    <2>3. h \in [Upto(n + 1) -> V]
      <3> SUFFICES ASSUME NEW s \in Upto(n + 1)
                   PROVE  (IF s = {} THEN base ELSE step[pick[s]][g[s \ {pick[s]}]]) \in V
        OBVIOUS
      <3>1. CASE s = {}
        BY <3>1
      <3>2. CASE s # {}
        <4>1. pick[s] \in S /\ g[s \ {pick[s]}] \in V
          BY <2>1, <2>2, <3>2
        <4> QED BY <3>2, <4>1
      <3> QED BY <3>1, <3>2
    <2>4. \A s \in Upto(n) : s \in Upto(n + 1) /\ h[s] = g[s]
      <3>1. \A s \in Upto(n) : s \in Upto(n + 1)
        BY <1>0
      <3> QED BY <2>1, <3>1
    <2>5. Good(h, n + 1)
      <3> SUFFICES ASSUME NEW s \in Upto(n + 1)
                   PROVE  h[s] = IF s = {} THEN base ELSE step[pick[s]][h[s \ {pick[s]}]]
        OBVIOUS
      <3>1. CASE s = {}
        BY <3>1
      <3>2. CASE s # {}
        <4>1. h[s \ {pick[s]}] = g[s \ {pick[s]}]
          BY <2>2, <2>4, <3>2
        <4>2. h[s] = step[pick[s]][g[s \ {pick[s]}]]
          BY <3>2
        <4> HIDE DEF h
        <4> QED BY <3>2, <4>1, <4>2
      <3> QED BY <3>1, <3>2
    <2> HIDE DEF h
    <2> QED BY <2>3, <2>5
  <1>3. \A n \in Nat : Has(n)
    <2> DEFINE missing == {n \in Nat : ~Has(n)}
    <2> HIDE DEF Has
    <2>1. SUFFICES ASSUME missing # {} PROVE FALSE
      OBVIOUS
    <2>2. PICK n \in missing : \A m \in missing : n <= m
      BY <2>1, HasLeast
    <2>3. n # 0 /\ n - 1 \in Nat /\ ~(n <= n - 1)
      BY <1>1
    <2>4. Has(n - 1)
      BY <2>2, <2>3
    <2>5. Has(n - 1 + 1)
      BY <1>2, <2>3, <2>4
    <2> QED BY <2>3, <2>5
  <1>4. PICK g : g \in [Upto(Cardinality(S)) -> V] /\ Good(g, Cardinality(S))
    BY <1>0, <1>3
  <1>5. Upto(Cardinality(S)) = SUBSET S
    BY FS_Subset
  <1>6. g \in [SUBSET S -> V] /\ Good(g, Cardinality(S))
    BY <1>4, <1>5
  <1>7. \A s \in SUBSET S : g[s] = IF s = {} THEN base ELSE step[pick[s]][g[s \ {pick[s]}]]
    BY <1>5, <1>6
  <1>8. IsFold(g, S, base, step, pick)
    BY <1>6, <1>7 DEF IsFold
  <1> QED BY <1>6, <1>8 DEF HasFold

\* Every fold is of its type.
LEMMA FoldTyped ==
  ASSUME NEW S, IsFiniteSet(S), NEW V, NEW base \in V,
         NEW step, \A x \in S : \A v \in V : step[x][v] \in V,
         NEW pick, \A s \in SUBSET S : s # {} => pick[s] \in s,
         NEW it, IsFold(it, S, base, step, pick)
  PROVE  it \in [SUBSET S -> V]
  <1>1. it = [s \in SUBSET S |-> IF s = {} THEN base ELSE step[pick[s]][it[s \ {pick[s]}]]]
    BY DEF IsFold
  <1> DEFINE B == {s \in SUBSET S : it[s] \notin V}
  <1>2. SUFFICES ASSUME B # {} PROVE FALSE
    <2>1. \A s \in SUBSET S : it[s] \in V
      BY <1>2
    <2>2. it = [s \in SUBSET S |-> it[s]]
      BY <1>1
    <2> QED BY <2>1, <2>2
  <1>3. PICK s \in B : \A u \in B : ~(Cardinality(u) < Cardinality(s))
    BY <1>2, Smallest
  <1>4. CASE s = {}
    BY <1>1, <1>4
  <1>5. CASE s # {}
    <2>1. pick[s] \in s /\ s \in SUBSET S
      BY <1>5
    <2>2. s \ {pick[s]} \in SUBSET S /\ Cardinality(s \ {pick[s]}) < Cardinality(s)
      BY <2>1, OneLess
    <2>3. it[s \ {pick[s]}] \in V
      BY <1>3, <2>2
    <2>4. it[s] = step[pick[s]][it[s \ {pick[s]}]]
      BY <1>1, <1>5
    <2> QED BY <2>1, <2>3, <2>4
  <1> QED BY <1>4, <1>5

\* Sums of natural numbers, taking the elements in any order.
Chosen(S) == [s \in SUBSET S |-> CHOOSE x \in s : TRUE]
IsSum(it, f, S) == IsFold(it, S, 0, [x \in S |-> [v \in Nat |-> f[x] + v]], Chosen(S))

LEMMA SumExists ==
  ASSUME NEW S, IsFiniteSet(S), NEW f \in [S -> Nat]
  PROVE  /\ \E it : IsSum(it, f, S)
         /\ \A it : IsSum(it, f, S) => it \in [SUBSET S -> Nat]
  <1> DEFINE step == [x \in S |-> [v \in Nat |-> f[x] + v]]
             pick == Chosen(S)
  <1>1. \A x \in S : \A v \in Nat : step[x][v] \in Nat
    OBVIOUS
  <1>2. \A s \in SUBSET S : s # {} => pick[s] \in s
    BY DEF Chosen
  <1>3. 0 \in Nat
    OBVIOUS
  <1> HIDE DEF step, pick
  <1>4. \E it : it \in [SUBSET S -> Nat] /\ IsFold(it, S, 0, step, pick)
    <2> DEFINE V == Nat
               base == 0
    <2>1. base \in V /\ \A x \in S : \A v \in V : step[x][v] \in V
      BY <1>1
    <2> HIDE DEF V, base
    <2>2. HasFold(S, V, base, step, pick)
      BY <1>2, <2>1, FoldExists
    <2> QED BY <2>2 DEF V, base, HasFold
  <1>5. \A it : IsFold(it, S, 0, step, pick) => it \in [SUBSET S -> Nat]
    BY <1>1, <1>2, <1>3, FoldTyped
  <1> QED BY <1>4, <1>5 DEF IsSum, step, pick

\* The equations of a sum: any element may go first.
IsTotal(it, f, S) ==
  /\ it \in [SUBSET S -> Nat] /\ it[{}] = 0
  /\ \A s \in SUBSET S : \A x \in s : it[s] = f[x] + it[s \ {x}]

LEMMA SumTakes ==
  ASSUME NEW S, IsFiniteSet(S), NEW f \in [S -> Nat], NEW it, IsSum(it, f, S)
  PROVE  IsTotal(it, f, S)
  <1>1. it \in [SUBSET S -> Nat]
    BY SumExists
  <1>2. it[{}] = 0
    <2>1. {} \in SUBSET S
      OBVIOUS
    <2> QED BY <2>1 DEF IsSum, IsFold
  <1>3. \A s \in SUBSET S : s # {} =>
          Chosen(S)[s] \in s /\ it[s] = f[Chosen(S)[s]] + it[s \ {Chosen(S)[s]}]
    <2> SUFFICES ASSUME NEW s \in SUBSET S, s # {}
                 PROVE  Chosen(S)[s] \in s /\ it[s] = f[Chosen(S)[s]] + it[s \ {Chosen(S)[s]}]
      OBVIOUS
    <2> DEFINE c == Chosen(S)[s]
    <2>1. c \in s
      BY DEF Chosen
    <2>2. it[s] = [x \in S |-> [v \in Nat |-> f[x] + v]][c][it[s \ {c}]]
      BY DEF IsSum, IsFold
    <2> HIDE DEF c
    <2>3. it[s \ {c}] \in Nat /\ c \in S
      BY <1>1, <2>1
    <2>4. it[s] = f[c] + it[s \ {c}]
      BY <2>2, <2>3
    <2> QED BY <2>1, <2>4 DEF c
  <1> DEFINE pick == Chosen(S)
  <1> HIDE DEF pick
  <1>4. \A s \in SUBSET S : \A x \in s : it[s] = f[x] + it[s \ {x}]
    <2> DEFINE B == {s \in SUBSET S : \E x \in s : it[s] # f[x] + it[s \ {x}]}
    <2> SUFFICES ASSUME B # {} PROVE FALSE
      OBVIOUS
    <2>1. PICK s \in B : \A u \in B : ~(Cardinality(u) < Cardinality(s))
      BY Smallest
    <2>2. PICK x \in s : it[s] # f[x] + it[s \ {x}]
      OBVIOUS
    <2> DEFINE c == pick[s]
    <2>3. s \in SUBSET S /\ s # {} /\ c \in s /\ it[s] = f[c] + it[s \ {c}]
      BY <1>3, <2>2 DEF pick
    <2> HIDE DEF B, c
    <2>4. c # x
      BY <2>2, <2>3
    <2>5. /\ s \ {c} \in SUBSET S /\ Cardinality(s \ {c}) < Cardinality(s)
          /\ s \ {x} \in SUBSET S /\ Cardinality(s \ {x}) < Cardinality(s)
          /\ x \in s \ {c} /\ c \in s \ {x} /\ (s \ {c}) \ {x} = (s \ {x}) \ {c}
      BY <2>2, <2>3, <2>4, OneLess
    <2>6. \A u \in SUBSET S : Cardinality(u) < Cardinality(s) =>
            \A y \in u : it[u] = f[y] + it[u \ {y}]
      BY <2>1 DEF B
    <2>7. /\ it[s \ {c}] = f[x] + it[(s \ {c}) \ {x}]
          /\ it[s \ {x}] = f[c] + it[(s \ {c}) \ {x}]
      BY <2>5, <2>6
    <2>8. /\ f[x] \in Nat /\ f[c] \in Nat /\ it[(s \ {c}) \ {x}] \in Nat
      <3>1. x \in S /\ c \in S /\ (s \ {c}) \ {x} \in SUBSET S
        BY <2>2, <2>3
      <3> QED BY <1>1, <3>1
    <2> QED BY <2>2, <2>3, <2>7, <2>8
  <1> QED BY <1>1, <1>2, <1>4 DEF IsTotal

\* An element more, of a function that is the same elsewhere.
LEMMA SumAdds ==
  ASSUME NEW S, IsFiniteSet(S), NEW x, x \notin S, NEW R, R = S \cup {x},
         NEW f \in [S -> Nat], NEW g \in [R -> Nat], \A y \in S : g[y] = f[y],
         NEW it, IsTotal(it, f, S), NEW jt, IsTotal(jt, g, R)
  PROVE  jt[R] = g[x] + it[S]
  <1>1. /\ it \in [SUBSET S -> Nat] /\ it[{}] = 0
        /\ \A s \in SUBSET S : \A y \in s : it[s] = f[y] + it[s \ {y}]
    BY DEF IsTotal
  <1>2. /\ jt \in [SUBSET R -> Nat] /\ jt[{}] = 0
        /\ \A s \in SUBSET R : \A y \in s : jt[s] = g[y] + jt[s \ {y}]
    BY DEF IsTotal
  <1>3. \A s \in SUBSET S : jt[s] = it[s]
    <2> DEFINE B == {s \in SUBSET S : jt[s] # it[s]}
    <2> SUFFICES ASSUME B # {} PROVE FALSE
      OBVIOUS
    <2>1. PICK s \in B : \A u \in B : ~(Cardinality(u) < Cardinality(s))
      BY Smallest
    <2>2. CASE s = {}
      BY <1>1, <1>2, <2>2
    <2>3. CASE s # {}
      <3>1. PICK y \in s : TRUE
        BY <2>3
      <3>2. s \ {y} \in SUBSET S /\ Cardinality(s \ {y}) < Cardinality(s) /\ y \in S /\ s \in SUBSET R
        BY <3>1, OneLess
      <3>3. jt[s \ {y}] = it[s \ {y}]
        BY <2>1, <3>2
      <3>4. it[s] = f[y] + it[s \ {y}] /\ jt[s] = g[y] + jt[s \ {y}] /\ g[y] = f[y]
        BY <1>1, <1>2, <3>2
      <3> QED BY <3>3, <3>4
    <2> QED BY <2>2, <2>3
  <1>4. R \ {x} = S /\ x \in R /\ R \in SUBSET R /\ S \in SUBSET S
    OBVIOUS
  <1>5. jt[R] = g[x] + jt[S]
    BY <1>2, <1>4
  <1> QED BY <1>3, <1>4, <1>5

\* There is one sum, and it is what MapThenSumSet chooses.
Sums(it, f, S) ==
  it = [s \in SUBSET S |-> IF s = {} THEN 0
                           ELSE f[CHOOSE x \in s : TRUE] + it[s \ {CHOOSE x \in s : TRUE}]]

OnlySum(jt, f, S) == IsTotal(jt, f, S) /\ \A it : Sums(it, f, S) <=> it = jt

LEMMA OneSum ==
  ASSUME NEW S, IsFiniteSet(S), NEW f \in [S -> Nat]
  PROVE  \E jt : OnlySum(jt, f, S)
  <1>1. PICK jt : IsTotal(jt, f, S)
    BY SumExists, SumTakes
  <1>2. Sums(jt, f, S)
    <2>1. ASSUME NEW s \in SUBSET S, s # {}
          PROVE  jt[s] = f[CHOOSE x \in s : TRUE] + jt[s \ {CHOOSE x \in s : TRUE}]
      <3>1. (CHOOSE x \in s : TRUE) \in s
        BY <2>1
      <3> QED BY <1>1, <3>1 DEF IsTotal
    <2>2. jt[{}] = 0 /\ jt = [s \in SUBSET S |-> jt[s]]
      BY <1>1 DEF IsTotal
    <2> QED BY <2>1, <2>2 DEF Sums
  <1>3. ASSUME NEW it, Sums(it, f, S) PROVE it = jt
    <2>1. it = [s \in SUBSET S |-> it[s]] /\ jt = [s \in SUBSET S |-> jt[s]]
      BY <1>2, <1>3 DEF Sums
    <2> DEFINE B == {s \in SUBSET S : it[s] # jt[s]}
    <2>2. B = {}
      <3> SUFFICES ASSUME B # {} PROVE FALSE
        OBVIOUS
      <3>1. PICK s \in B : \A u \in B : ~(Cardinality(u) < Cardinality(s))
        BY Smallest
      <3>2. CASE s = {}
        BY <1>2, <1>3, <3>2 DEF Sums
      <3>3. CASE s # {}
        <4> DEFINE c == CHOOSE x \in s : TRUE
        <4>1. c \in s
          BY <3>3
        <4>2. it[s] = f[c] + it[s \ {c}] /\ jt[s] = f[c] + jt[s \ {c}]
          BY <1>2, <1>3, <3>3 DEF Sums
        <4> HIDE DEF c
        <4>3. s \ {c} \in SUBSET S /\ Cardinality(s \ {c}) < Cardinality(s)
          BY <4>1, OneLess
        <4>4. it[s \ {c}] = jt[s \ {c}]
          BY <3>1, <4>3
        <4> QED BY <4>2, <4>4
      <3> QED BY <3>2, <3>3
    <2> QED BY <2>1, <2>2
  <1> QED BY <1>1, <1>2, <1>3 DEF OnlySum

-----------------------------------------------------------------------------
(* The results of study.  What an import still holds are lists of answers  *)
(* for words that it found in the word list or creates with them.          *)

StudyLists ==
  UNION {[known -> [word : Study!Words, correct : Nat, wrong : Nat]] :
           known \in UNION {SUBSET DOMAIN RecordsOf[f] : f \in Results}}

StudySteps ==
  {Study!Idle} \cup
  [step : {"create", "save", "end"}, student : Students, dryRun : BOOLEAN,
   new : SUBSET Study!Words, items : StudyLists]

StudyTypeOK ==
  /\ studyState \in [Students -> [Study!Words -> [correct : Nat, wrong : Nat]]]
  /\ studyProc \in [Procs -> StudySteps]
  /\ IsFiniteSet(studySessions)
  /\ \A q \in studySessions :
       q.items \in StudyLists /\ q.nr \in Nat /\ q.nr < Cardinality(studySessions)

\* An import saves no word that it does not know or create.
WordsAtHand ==
  \A p \in Procs : studyProc[p].step \in {"create", "save"} =>
    Study!WordsOf(studyProc[p].items) \subseteq studyEntries \cup studyProc[p].new

\* The answers that some sessions list for a word.
Listed(of, w) ==
  [correct |-> Study!MapThenSumSet(LAMBDA q : Study!Answers(q.items, w).correct, of),
   wrong   |-> Study!MapThenSumSet(LAMBDA q : Study!Answers(q.items, w).wrong, of)]

Of(s) == {q \in studySessions : q.student = s}

Explained ==
  \A s \in Students, w \in Study!Words :
    /\ studyState[s][w] = Listed(Of(s), w)
    /\ studyState[s][w] # Study!NoAnswers => w \in studyEntries /\ w \in Study!WordsSeen(s)

StudyInv == StudyTypeOK /\ WordsAtHand /\ Explained

LEMMA ListIsFinite ==
  ASSUME NEW items \in StudyLists
  PROVE  /\ IsFiniteSet(DOMAIN items)
         /\ \A i \in DOMAIN items : /\ items[i].word \in Study!Words
                                    /\ items[i].correct \in Nat /\ items[i].wrong \in Nat
  <1>1. PICK f \in Results : \E known \in SUBSET DOMAIN RecordsOf[f] :
          items \in [known -> [word : Study!Words, correct : Nat, wrong : Nat]]
    BY DEF StudyLists
  <1>2. IsFiniteSet(DOMAIN items)
    BY <1>1, StudyAssumption, FS_Subset
  <1> QED BY <1>1, <1>2

\* What a record says of its word.
LEMMA ItemIsCounted ==
  ASSUME NEW r, r.correct \subseteq Nat, r.wrong \subseteq Nat
  PROVE  Study!ItemOf(r) = [word |-> r.word, correct |-> Study!ItemOf(r).correct,
                            wrong |-> Study!ItemOf(r).wrong]
         /\ Study!ItemOf(r).correct \in Nat /\ Study!ItemOf(r).wrong \in Nat
  <1>1. \A given \in SUBSET Nat : given # {} => (CHOOSE n \in given : TRUE) \in Nat
    OBVIOUS
  <1>2. /\ Study!CountsFromStatus(r.status).correct \in Nat
        /\ Study!CountsFromStatus(r.status).wrong \in Nat
    BY DEF Study!CountsFromStatus
  <1> QED BY <1>1, <1>2 DEF Study!ItemOf

LEMMA ListIsKept ==
  ASSUME NEW f \in Results, NEW known \in SUBSET DOMAIN Study!Items(f)
  PROVE  [i \in known |-> Study!Items(f)[i]] \in StudyLists
  <1>1. DOMAIN Study!Items(f) = DOMAIN RecordsOf[f]
    BY DEF Study!Items
  <1>2. ASSUME NEW i \in known
        PROVE  Study!Items(f)[i] \in [word : Study!Words, correct : Nat, wrong : Nat]
    <2>1. i \in DOMAIN RecordsOf[f] /\ Study!Items(f)[i] = Study!ItemOf(RecordsOf[f][i])
      BY <1>1 DEF Study!Items
    <2>2. RecordsOf[f][i].correct \subseteq Nat /\ RecordsOf[f][i].wrong \subseteq Nat
      BY <2>1, StudyAssumption
    <2>3. Study!Items(f)[i].word \in Study!Words
      BY <1>1, <2>1 DEF Study!Words, Study!WordsOf
    <2>4. Study!Items(f)[i] = [word |-> Study!Items(f)[i].word, correct |-> Study!Items(f)[i].correct,
                               wrong |-> Study!Items(f)[i].wrong]
          /\ Study!Items(f)[i].correct \in Nat /\ Study!Items(f)[i].wrong \in Nat
      BY <2>1, <2>2, ItemIsCounted
    <2> QED BY <2>3, <2>4
  <1> QED BY <1>1, <1>2 DEF StudyLists

LEMMA AnswersAreCounted ==
  ASSUME NEW items \in StudyLists, NEW w
  PROVE  /\ Study!Answers(items, w) \in [correct : Nat, wrong : Nat]
         /\ Study!Answers(items, w) # Study!NoAnswers => w \in Study!WordsOf(items)
  <1> DEFINE of == {i \in DOMAIN items : items[i].word = w}
             f == [i \in of |-> items[i].correct]
             g == [i \in of |-> items[i].wrong]
             C(it) == it = [s \in SUBSET of |-> IF s = {} THEN 0
                        ELSE items[CHOOSE x \in s : TRUE].correct + it[s \ {CHOOSE x \in s : TRUE}]]
             W(it) == it = [s \in SUBSET of |-> IF s = {} THEN 0
                        ELSE items[CHOOSE x \in s : TRUE].wrong + it[s \ {CHOOSE x \in s : TRUE}]]
  <1>1. IsFiniteSet(of) /\ f \in [of -> Nat] /\ g \in [of -> Nat]
    BY ListIsFinite, FS_Subset
  <1>2. \A s \in SUBSET of : s # {} =>
          /\ f[CHOOSE x \in s : TRUE] = items[CHOOSE x \in s : TRUE].correct
          /\ g[CHOOSE x \in s : TRUE] = items[CHOOSE x \in s : TRUE].wrong
    OBVIOUS
  <1>3. \A it : (C(it) <=> Sums(it, f, of)) /\ (W(it) <=> Sums(it, g, of))
    <2> HIDE DEF of, f, g
    <2> QED BY <1>2 DEF Sums
  <1>4. PICK jt : OnlySum(jt, f, of)
    <2> HIDE DEF of, f
    <2> QED BY <1>1, OneSum
  <1>5. PICK kt : OnlySum(kt, g, of)
    <2> HIDE DEF of, g
    <2> QED BY <1>1, OneSum
  <1>6. (CHOOSE it : C(it)) = jt /\ (CHOOSE it : W(it)) = kt
    <2> HIDE DEF of, f, g, C, W
    <2> QED BY <1>3, <1>4, <1>5 DEF OnlySum
  <1>7. Study!Answers(items, w) = [correct |-> (CHOOSE it : C(it))[of], wrong |-> (CHOOSE it : W(it))[of]]
    BY DEF Study!Answers, Study!MapThenSumSet, Study!MapThenFoldSet
  <1>8. Study!Answers(items, w) = [correct |-> jt[of], wrong |-> kt[of]]
    BY <1>6, <1>7
  <1>9. jt[of] \in Nat /\ kt[of] \in Nat /\ (of = {} => jt[of] = 0 /\ kt[of] = 0)
    BY <1>4, <1>5 DEF OnlySum, IsTotal
  <1>10. of # {} => w \in Study!WordsOf(items)
    BY DEF Study!WordsOf
  <1> HIDE DEF of
  <1> QED BY <1>8, <1>9, <1>10 DEF Study!NoAnswers

LEMMA ListedIsASum ==
  ASSUME NEW of, IsFiniteSet(of), \A q \in of : q.items \in StudyLists, NEW w
  PROVE  \E jt, kt : /\ IsTotal(jt, [q \in of |-> Study!Answers(q.items, w).correct], of)
                     /\ IsTotal(kt, [q \in of |-> Study!Answers(q.items, w).wrong], of)
                     /\ Listed(of, w) = [correct |-> jt[of], wrong |-> kt[of]]
  <1> DEFINE f == [q \in of |-> Study!Answers(q.items, w).correct]
             g == [q \in of |-> Study!Answers(q.items, w).wrong]
             C(it) == it = [s \in SUBSET of |-> IF s = {} THEN 0
                        ELSE Study!Answers((CHOOSE x \in s : TRUE).items, w).correct
                               + it[s \ {CHOOSE x \in s : TRUE}]]
             W(it) == it = [s \in SUBSET of |-> IF s = {} THEN 0
                        ELSE Study!Answers((CHOOSE x \in s : TRUE).items, w).wrong
                               + it[s \ {CHOOSE x \in s : TRUE}]]
  <1>1. f \in [of -> Nat] /\ g \in [of -> Nat]
    BY AnswersAreCounted
  <1>2. \A s \in SUBSET of : s # {} =>
          /\ f[CHOOSE x \in s : TRUE] = Study!Answers((CHOOSE x \in s : TRUE).items, w).correct
          /\ g[CHOOSE x \in s : TRUE] = Study!Answers((CHOOSE x \in s : TRUE).items, w).wrong
    OBVIOUS
  <1>3. \A it : (C(it) <=> Sums(it, f, of)) /\ (W(it) <=> Sums(it, g, of))
    <2> HIDE DEF f, g
    <2> QED BY <1>2 DEF Sums
  <1>4. PICK jt : OnlySum(jt, f, of)
    <2> HIDE DEF f
    <2> QED BY <1>1, OneSum
  <1>5. PICK kt : OnlySum(kt, g, of)
    <2> HIDE DEF g
    <2> QED BY <1>1, OneSum
  <1>6. (CHOOSE it : C(it)) = jt /\ (CHOOSE it : W(it)) = kt
    <2> HIDE DEF f, g, C, W
    <2> QED BY <1>3, <1>4, <1>5 DEF OnlySum
  <1>7. Listed(of, w) = [correct |-> (CHOOSE it : C(it))[of], wrong |-> (CHOOSE it : W(it))[of]]
    BY DEF Listed, Study!MapThenSumSet, Study!MapThenFoldSet
  <1>8. Listed(of, w) = [correct |-> jt[of], wrong |-> kt[of]]
    BY <1>6, <1>7
  <1>9. IsTotal(jt, f, of) /\ IsTotal(kt, g, of)
    BY <1>4, <1>5 DEF OnlySum
  <1> QED BY <1>8, <1>9

\* Nothing is listed by no session, and a session more adds its answers.
LEMMA NothingListed ==
  ASSUME NEW w PROVE Listed({}, w) = Study!NoAnswers
  <1>1. IsFiniteSet({})
    BY FS_EmptySet
  <1>2. \A q \in {} : q.items \in StudyLists
    OBVIOUS
  <1>3. PICK jt, kt : /\ IsTotal(jt, [q \in {} |-> Study!Answers(q.items, w).correct], {})
                      /\ IsTotal(kt, [q \in {} |-> Study!Answers(q.items, w).wrong], {})
                      /\ Listed({}, w) = [correct |-> jt[{}], wrong |-> kt[{}]]
    BY <1>1, <1>2, ListedIsASum
  <1> QED BY <1>3 DEF IsTotal, Study!NoAnswers

LEMMA ListedAdds ==
  ASSUME NEW of, IsFiniteSet(of), \A q \in of : q.items \in StudyLists,
         NEW r, r \notin of, r.items \in StudyLists, NEW w
  PROVE  Listed(of \cup {r}, w) = Study!Plus(Listed(of, w), Study!Answers(r.items, w))
  <1> DEFINE F(S) == [q \in S |-> Study!Answers(q.items, w).correct]
             G(S) == [q \in S |-> Study!Answers(q.items, w).wrong]
             more == of \cup {r}
  <1>1. IsFiniteSet(more) /\ \A q \in more : q.items \in StudyLists
    BY FS_AddElement
  <1>2. /\ F(of) \in [of -> Nat] /\ G(of) \in [of -> Nat]
        /\ F(more) \in [more -> Nat] /\ G(more) \in [more -> Nat]
    BY AnswersAreCounted
  <1>3. /\ \A q \in of : F(more)[q] = F(of)[q] /\ G(more)[q] = G(of)[q]
        /\ F(more)[r] = Study!Answers(r.items, w).correct
        /\ G(more)[r] = Study!Answers(r.items, w).wrong
    OBVIOUS
  <1>4. PICK it, lt : /\ IsTotal(it, F(of), of) /\ IsTotal(lt, G(of), of)
                      /\ Listed(of, w) = [correct |-> it[of], wrong |-> lt[of]]
    BY ListedIsASum
  <1>5. PICK jt, kt : /\ IsTotal(jt, F(more), more) /\ IsTotal(kt, G(more), more)
                      /\ Listed(more, w) = [correct |-> jt[more], wrong |-> kt[more]]
    <2> HIDE DEF more
    <2> QED BY <1>1, ListedIsASum
  <1> HIDE DEF F, G
  <1>6. jt[more] = F(more)[r] + it[of]
    <2> DEFINE f == F(of)
               g == F(more)
    <2>1. /\ f \in [of -> Nat] /\ g \in [more -> Nat] /\ \A q \in of : g[q] = f[q]
          /\ IsTotal(it, f, of) /\ IsTotal(jt, g, more) /\ more = of \cup {r}
      BY <1>2, <1>3, <1>4, <1>5
    <2> HIDE DEF f, g, more
    <2>2. jt[more] = g[r] + it[of]
      BY <2>1, SumAdds
    <2> QED BY <2>2 DEF g
  <1>7. kt[more] = G(more)[r] + lt[of]
    <2> DEFINE f == G(of)
               g == G(more)
    <2>1. /\ f \in [of -> Nat] /\ g \in [more -> Nat] /\ \A q \in of : g[q] = f[q]
          /\ IsTotal(lt, f, of) /\ IsTotal(kt, g, more) /\ more = of \cup {r}
      BY <1>2, <1>3, <1>4, <1>5
    <2> HIDE DEF f, g, more
    <2>2. kt[more] = g[r] + lt[of]
      BY <2>1, SumAdds
    <2> QED BY <2>2 DEF g
  <1>8. /\ it[of] \in Nat /\ lt[of] \in Nat
        /\ Study!Answers(r.items, w).correct \in Nat /\ Study!Answers(r.items, w).wrong \in Nat
    BY <1>4, AnswersAreCounted DEF IsTotal
  <1> HIDE DEF more
  <1>9. Study!Plus(Listed(of, w), Study!Answers(r.items, w)) =
          [correct |-> it[of] + Study!Answers(r.items, w).correct,
           wrong |-> lt[of] + Study!Answers(r.items, w).wrong]
    BY <1>4 DEF Study!Plus
  <1>10. /\ it[of] + Study!Answers(r.items, w).correct = jt[more]
         /\ lt[of] + Study!Answers(r.items, w).wrong = kt[more]
    BY <1>3, <1>6, <1>7, <1>8
  <1>11. Listed(more, w) = Study!Plus(Listed(of, w), Study!Answers(r.items, w))
    BY <1>5, <1>9, <1>10
  <1> QED BY <1>11 DEF more

LEMMA StudyInit == Study!Init => StudyInv
  <1> SUFFICES ASSUME Study!Init PROVE StudyInv
    OBVIOUS
  <1>1. /\ studyEntries = FirstEntries /\ studySessions = {}
        /\ studyState = [s \in Students |-> [w \in Study!Words |-> Study!NoAnswers]]
        /\ studyProc = [p \in Procs |-> Study!Idle]
    BY DEF Study!Init
  <1>2. StudyTypeOK
    <2>1. studyState \in [Students -> [Study!Words -> [correct : Nat, wrong : Nat]]]
      BY <1>1 DEF Study!NoAnswers
    <2>2. studyProc \in [Procs -> StudySteps]
      BY <1>1 DEF StudySteps
    <2>3. IsFiniteSet(studySessions) /\ \A q \in studySessions :
            q.items \in StudyLists /\ q.nr \in Nat /\ q.nr < Cardinality(studySessions)
      BY <1>1, FS_EmptySet
    <2> QED BY <2>1, <2>2, <2>3 DEF StudyTypeOK
  <1>3. WordsAtHand
    BY <1>1 DEF WordsAtHand, Study!Idle
  <1>4. Explained
    <2>1. \A s \in Students, w \in Study!Words : studyState[s][w] = Study!NoAnswers
      BY <1>1
    <2>2. \A s : Of(s) = {}
      BY <1>1 DEF Of
    <2> QED BY <2>1, <2>2, NothingListed DEF Explained
  <1> QED BY <1>2, <1>3, <1>4 DEF StudyInv

\* A step that only moves an import along, or ends it.
LEMMA ImportMoves ==
  ASSUME StudyInv, NEW p \in Procs, NEW c \in StudySteps,
         studyProc' = [studyProc EXCEPT ![p] = c],
         c.step \in {"create", "save"} => Study!WordsOf(c.items) \subseteq studyEntries \cup c.new,
         UNCHANGED <<studyEntries, studySessions, studyState>>
  PROVE  StudyInv'
  <1>1. StudyTypeOK'
    BY DEF StudyInv, StudyTypeOK
  <1>2. WordsAtHand'
    <2>1. studyProc \in [Procs -> StudySteps]
      BY DEF StudyInv, StudyTypeOK
    <2> SUFFICES ASSUME NEW q \in Procs, studyProc'[q].step \in {"create", "save"}
                 PROVE  Study!WordsOf(studyProc'[q].items) \subseteq studyEntries \cup studyProc'[q].new
      BY DEF WordsAtHand
    <2>2. CASE q = p
      BY <2>1, <2>2
    <2>3. CASE q # p
      BY <2>1, <2>3 DEF StudyInv, WordsAtHand
    <2> QED BY <2>2, <2>3
  <1>3. Explained'
    BY DEF StudyInv, Explained, Of, Study!WordsSeen
  <1> QED BY <1>1, <1>2, <1>3 DEF StudyInv

LEMMA EndMoves ==
  ASSUME StudyInv, NEW p \in Procs, Study!End(p),
         UNCHANGED <<studyEntries, studySessions, studyState>>
  PROVE  StudyInv'
  <1>1. Study!Idle \in StudySteps /\ Study!Idle.step = "none"
    BY DEF StudySteps, Study!Idle
  <1>2. studyProc' = [studyProc EXCEPT ![p] = Study!Idle]
    BY DEF Study!End
  <1> HIDE DEF Study!Idle
  <1> QED BY <1>1, <1>2, ImportMoves

LEMMA SaveExplains ==
  ASSUME StudyInv, NEW p \in Procs, Study!SaveResult(p)
  PROVE  StudyInv'
  <1> DEFINE c == studyProc[p]
             nr == Cardinality(studySessions)
             r == [nr |-> nr, student |-> c.student, items |-> c.items]
  <1>0. studyProc \in [Procs -> StudySteps] /\ IsFiniteSet(studySessions)
    BY DEF StudyInv, StudyTypeOK
  <1>1. c \in [step : {"create", "save", "end"}, student : Students, dryRun : BOOLEAN,
               new : SUBSET Study!Words, items : StudyLists]
    BY <1>0 DEF Study!SaveResult, StudySteps, Study!Idle
  <1>2. /\ c.step = "save" /\ studyEntries' = studyEntries \cup c.new
        /\ studySessions' = studySessions \cup {r}
        /\ studyState' = Study!UpsertWordState(studyState, c.student, c.items)
        /\ studyProc' = [studyProc EXCEPT ![p] = Study!Idle]
    BY Zenon, SameCardinality DEF Study!SaveResult, Study!End
  <1>3. c.student \in Students /\ c.items \in StudyLists
    BY <1>1
  <1> HIDE DEF c
  <1>4. nr \in Nat /\ r \notin studySessions /\ r.items \in StudyLists /\ r.student = c.student
    BY <1>0, <1>3, FS_CardinalityType DEF StudyInv, StudyTypeOK
  <1>5. /\ IsFiniteSet(studySessions') /\ Cardinality(studySessions') = nr + 1
        /\ \A q \in studySessions' :
             q.items \in StudyLists /\ q.nr \in Nat /\ q.nr < Cardinality(studySessions')
    <2>1. IsFiniteSet(studySessions') /\ Cardinality(studySessions') = nr + 1
      BY <1>0, <1>2, <1>4, FS_AddElement
    <2>2. \A q \in studySessions : q.items \in StudyLists /\ q.nr \in Nat /\ q.nr < nr
      BY DEF StudyInv, StudyTypeOK
    <2>3. r.nr = nr
      OBVIOUS
    <2> HIDE DEF r, nr
    <2>4. \A q \in studySessions' : q \in studySessions \/ q = r
      BY <1>2
    <2>5. \A q \in studySessions' : q.items \in StudyLists /\ q.nr \in Nat /\ q.nr <= nr
      BY <1>4, <2>2, <2>3, <2>4
    <2>6. \A n \in Nat : n <= nr => n < nr + 1
      BY <1>4
    <2> QED BY <2>1, <2>5, <2>6
  <1> HIDE DEF r, nr
  <1>6. studyState \in [Students -> [Study!Words -> [correct : Nat, wrong : Nat]]]
    BY DEF StudyInv, StudyTypeOK
  <1>7. \A w : /\ Study!Answers(c.items, w) \in [correct : Nat, wrong : Nat]
               /\ Study!Answers(c.items, w) # Study!NoAnswers => w \in Study!WordsOf(c.items)
    BY <1>3, AnswersAreCounted
  <1>8. \A a, b \in [correct : Nat, wrong : Nat] :
          /\ Study!Plus(a, b) \in [correct : Nat, wrong : Nat]
          /\ Study!Plus(a, b) # Study!NoAnswers => a # Study!NoAnswers \/ b # Study!NoAnswers
    BY DEF Study!Plus, Study!NoAnswers
  <1>9. \A s \in Students : \A w \in Study!Words :
          studyState'[s][w] = IF s = c.student THEN Study!Plus(studyState[s][w], Study!Answers(c.items, w))
                              ELSE studyState[s][w]
    BY <1>2, <1>3, <1>6 DEF Study!UpsertWordState
  <1>10. studyState' \in [Students -> [Study!Words -> [correct : Nat, wrong : Nat]]]
    <2> DEFINE new == [w \in Study!Words |-> Study!Plus(studyState[c.student][w], Study!Answers(c.items, w))]
    <2>1. new \in [Study!Words -> [correct : Nat, wrong : Nat]]
      BY <1>3, <1>6, <1>7, <1>8
    <2>2. studyState' = [studyState EXCEPT ![c.student] = new]
      BY <1>2 DEF Study!UpsertWordState
    <2> HIDE DEF new
    <2> QED BY <1>6, <2>1, <2>2
  <1>11. Study!Idle \in StudySteps /\ Study!Idle.step = "none"
    BY DEF StudySteps, Study!Idle
  <1>12. StudyTypeOK'
    <2>1. studyProc' \in [Procs -> StudySteps]
      BY <1>0, <1>2, <1>11
    <2> QED BY <1>5, <1>10, <2>1 DEF StudyTypeOK
  <1>13. WordsAtHand'
    <2> SUFFICES ASSUME NEW q \in Procs, studyProc'[q].step \in {"create", "save"}
                 PROVE  Study!WordsOf(studyProc'[q].items) \subseteq studyEntries' \cup studyProc'[q].new
      BY DEF WordsAtHand
    <2>1. q # p /\ studyProc'[q] = studyProc[q]
      BY <1>0, <1>2, <1>11
    <2> QED BY <1>2, <2>1 DEF StudyInv, WordsAtHand
  <1>14. Explained'
    <2> SUFFICES ASSUME NEW s \in Students, NEW w \in Study!Words
                 PROVE  /\ studyState'[s][w] = Listed({q \in studySessions' : q.student = s}, w)
                        /\ studyState'[s][w] # Study!NoAnswers =>
                             w \in studyEntries' /\ \E q \in studySessions' :
                               q.student = s /\ w \in Study!WordsOf(q.items)
      BY DEF Explained, Of, Study!WordsSeen
    <2>1. /\ studyState[s][w] = Listed(Of(s), w)
          /\ studyState[s][w] # Study!NoAnswers =>
               w \in studyEntries /\ \E q \in studySessions :
                 q.student = s /\ w \in Study!WordsOf(q.items)
          /\ studyState[s][w] \in [correct : Nat, wrong : Nat]
      BY <1>6 DEF StudyInv, Explained, Study!WordsSeen
    <2>2. CASE s # c.student
      <3>1. {q \in studySessions' : q.student = s} = Of(s)
        BY <1>2, <1>4, <2>2 DEF Of
      <3> QED BY <1>2, <1>9, <2>1, <2>2, <3>1
    <2>3. CASE s = c.student
      <3>1. {q \in studySessions' : q.student = s} = Of(s) \cup {r} /\ r \notin Of(s)
        BY <1>2, <1>4, <2>3 DEF Of
      <3>2. IsFiniteSet(Of(s)) /\ \A q \in Of(s) : q.items \in StudyLists
        BY <1>0, FS_Subset DEF Of, StudyInv, StudyTypeOK
      <3>3. r.items = c.items
        BY DEF r
      <3>4. Listed(Of(s) \cup {r}, w) = Study!Plus(Listed(Of(s), w), Study!Answers(c.items, w))
        BY <1>4, <3>1, <3>2, <3>3, ListedAdds
      <3>5. studyState'[s][w] = Study!Plus(studyState[s][w], Study!Answers(c.items, w))
        BY <1>9, <2>3
      <3>6. Study!WordsOf(c.items) \subseteq studyEntries'
        BY <1>2 DEF StudyInv, WordsAtHand, c
      <3>7. studyState'[s][w] # Study!NoAnswers =>
              studyState[s][w] # Study!NoAnswers \/ w \in Study!WordsOf(c.items)
        BY <1>7, <1>8, <2>1, <3>5
      <3>8. w \in Study!WordsOf(c.items) =>
              \E q \in studySessions' : q.student = s /\ w \in Study!WordsOf(q.items)
        BY <1>2, <1>4, <2>3, <3>3
      <3>9. studyState'[s][w] # Study!NoAnswers =>
              w \in studyEntries' /\ \E q \in studySessions' :
                q.student = s /\ w \in Study!WordsOf(q.items)
        BY <1>2, <2>1, <3>6, <3>7, <3>8
      <3> QED BY <2>1, <3>1, <3>4, <3>5, <3>9
    <2> QED BY <2>2, <2>3
  <1> QED BY <1>12, <1>13, <1>14 DEF StudyInv

LEMMA StudyStep == StudyInv /\ [Study!Next]_studyVars => StudyInv'
  <1> SUFFICES ASSUME StudyInv, [Study!Next]_studyVars PROVE StudyInv'
    OBVIOUS
  <1>0. studyProc \in [Procs -> StudySteps]
    BY DEF StudyInv, StudyTypeOK
  <1>1. ASSUME NEW p \in Procs, NEW student \in Students, NEW f \in Results,
               NEW dryRun \in BOOLEAN, NEW createMissing \in BOOLEAN,
               Study!MatchItems(p, student, f, dryRun, createMissing)
        PROVE  StudyInv'
    <2> DEFINE missing == Study!WordsOf(Study!Items(f)) \ studyEntries
               known == {i \in DOMAIN Study!Items(f) :
                           createMissing \/ Study!Items(f)[i].word \in studyEntries}
               c == [step |-> IF createMissing /\ missing # {} THEN "create"
                              ELSE IF dryRun THEN "end" ELSE "save",
                     student |-> student, dryRun |-> dryRun, new |-> IF createMissing THEN missing ELSE {},
                     items |-> [i \in known |-> Study!Items(f)[i]]]
    <2>1. /\ studyProc' = [studyProc EXCEPT ![p] = c]
          /\ UNCHANGED <<studyEntries, studySessions, studyState>>
      BY <1>1 DEF Study!MatchItems
    <2>2. missing \in SUBSET Study!Words
      BY DEF Study!Words
    <2>3. [i \in known |-> Study!Items(f)[i]] \in StudyLists
      BY ListIsKept
    <2>4. Study!WordsOf([i \in known |-> Study!Items(f)[i]])
            \subseteq studyEntries \cup (IF createMissing THEN missing ELSE {})
      <3>1. ASSUME NEW i \in known
            PROVE  Study!Items(f)[i].word \in studyEntries \cup (IF createMissing THEN missing ELSE {})
        BY DEF Study!WordsOf
      <3> HIDE DEF known, missing
      <3> QED BY <3>1 DEF Study!WordsOf
    <2> HIDE DEF missing, known
    <2>5. c \in StudySteps
      BY <2>2, <2>3 DEF StudySteps
    <2>6. Study!WordsOf(c.items) \subseteq studyEntries \cup c.new
      BY <2>4
    <2> HIDE DEF c
    <2> QED BY <2>1, <2>5, <2>6, ImportMoves
  <1>2. ASSUME NEW p \in Procs, Study!CreateMissing(p) PROVE StudyInv'
    <2>1. CASE Study!FirstMissing(studyProc[p]) \notin studyEntries
      <3> DEFINE c == [studyProc[p] EXCEPT !.step = IF studyProc[p].dryRun THEN "end" ELSE "save"]
      <3>1. /\ studyProc[p].step = "create" /\ studyProc' = [studyProc EXCEPT ![p] = c]
            /\ UNCHANGED <<studyEntries, studySessions, studyState>>
        BY <1>2, <2>1 DEF Study!CreateMissing
      <3>2. studyProc[p] \in [step : {"create", "save", "end"}, student : Students, dryRun : BOOLEAN,
                              new : SUBSET Study!Words, items : StudyLists]
        BY <1>0, <3>1 DEF StudySteps, Study!Idle
      <3>3. c \in StudySteps /\ c.items = studyProc[p].items /\ c.new = studyProc[p].new
        BY <3>2 DEF StudySteps
      <3>4. Study!WordsOf(c.items) \subseteq studyEntries \cup c.new
        BY <3>1, <3>3 DEF StudyInv, WordsAtHand
      <3> HIDE DEF c
      <3> QED BY <3>1, <3>3, <3>4, ImportMoves
    <2>2. CASE Study!FirstMissing(studyProc[p]) \in studyEntries
      <3>1. Study!End(p) /\ UNCHANGED <<studyEntries, studySessions, studyState>>
        BY <1>2, <2>2 DEF Study!CreateMissing
      <3> QED BY <3>1, EndMoves
    <2> QED BY <2>1, <2>2
  <1>3. ASSUME NEW p \in Procs, Study!SaveResult(p) PROVE StudyInv'
    BY <1>3, SaveExplains
  <1>4. ASSUME NEW p \in Procs, Study!EndDryRun(p) \/ Study!Kill(p) PROVE StudyInv'
    BY <1>4, EndMoves DEF Study!EndDryRun, Study!Kill
  <1>5. CASE UNCHANGED studyVars
    <2>1. UNCHANGED <<studyEntries, studySessions, studyState, studyProc>>
      BY <1>5 DEF studyVars
    <2>2. StudyTypeOK'
      BY <2>1 DEF StudyInv, StudyTypeOK
    <2>3. WordsAtHand' /\ Explained'
      BY <2>1 DEF StudyInv, WordsAtHand, Explained, Of, Study!WordsSeen
    <2> QED BY <2>2, <2>3 DEF StudyInv
  <1> QED BY <1>1, <1>2, <1>3, <1>4, <1>5 DEF Study!Next

\* One more right answer makes no word due that was not.
LEMMA BetterIsNotDue ==
  ASSUME NEW a \in [correct : Nat, wrong : Nat],
         a = Study!NoAnswers \/ ~Study!IsDue(a, 2)
  PROVE  ~Study!IsDue(Study!Plus(a, [correct |-> 1, wrong |-> 0]), 2)
  <1> DEFINE b == Study!Plus(a, [correct |-> 1, wrong |-> 0])
  <1>1. b.correct = a.correct + 1 /\ b.wrong = a.wrong + 0 /\ a.correct \in Nat /\ a.wrong \in Nat
    BY DEF Study!Plus
  <1> HIDE DEF b
  <1>2. \/ a.wrong = 0
        \/ a.correct >= 2 /\ 5 * a.correct >= 4 * (a.correct + a.wrong)
    <2>1. CASE a = Study!NoAnswers
      BY <2>1 DEF Study!NoAnswers
    <2>2. CASE ~Study!IsDue(a, 2)
      BY <1>1, <2>2 DEF Study!IsDue, Study!MasteryStatus
    <2> QED BY <2>1, <2>2
  <1> DEFINE c == b.correct
             n == b.wrong
             attempts == c + n
  <1>3. Study!MasteryStatus(b, 2) =
          CASE attempts = 0 -> "new"
            [] c >= 2 /\ 5 * c >= 4 * attempts -> "mastered"
            [] attempts > 0 /\ n >= c -> "weak"
            [] OTHER -> IF n > 0 THEN "review" ELSE "learning"
    BY DEF Study!MasteryStatus
  <1>4. /\ c \in Nat /\ n \in Nat /\ attempts # 0 /\ ~(n >= c)
        /\ n > 0 => c >= 2 /\ 5 * c >= 4 * attempts
    <2>1. CASE a.wrong = 0
      BY <1>1, <2>1
    <2>2. CASE a.correct >= 2 /\ 5 * a.correct >= 4 * (a.correct + a.wrong)
      BY <1>1, <2>2
    <2> QED BY <1>2, <2>1, <2>2
  <1> HIDE DEF c, n
  <1>5. ~Study!IsDue(b, 2)
    BY <1>3, <1>4 DEF Study!IsDue
  <1> QED BY <1>5 DEF b

(* The totals of a word are what the sessions of the student list for it,  *)
(* every word of them is in the word list, and one more right answer never *)
(* makes a word due (import_study_result, _upsert_word_state,              *)
(* _mastery_status).                                                       *)
THEOREM TotalsHold == ProfileSpec => []TotalsExplained
  <1>1. ASSUME StudyInv PROVE Study!TotalsExplained
    <2> SUFFICES ASSUME NEW s \in Students, NEW w \in Study!Words, NEW assigned \in SUBSET Study!Words
                 PROVE  /\ studyState[s][w] = Listed(Of(s), w)
                        /\ studyState[s][w] # Study!NoAnswers => w \in studyEntries
                        /\ w \notin Study!DueWords(s, 2, assigned) =>
                             ~Study!IsDue(Study!Plus(studyState[s][w], [correct |-> 1, wrong |-> 0]), 2)
      BY DEF Study!TotalsExplained, Listed, Of
    <2>1. studyState[s][w] \in [correct : Nat, wrong : Nat]
      BY <1>1 DEF StudyInv, StudyTypeOK
    <2>2. w \notin Study!DueWords(s, 2, assigned) =>
            studyState[s][w] = Study!NoAnswers \/ ~Study!IsDue(studyState[s][w], 2)
      BY <1>1 DEF Study!DueWords, StudyInv, Explained
    <2> QED BY <1>1, <2>1, <2>2, BetterIsNotDue DEF StudyInv, Explained
  <1>2. StudyInv => TotalsExplained
    BY <1>1 DEF TotalsExplained
  <1>3. ProfileInit => StudyInv
    BY StudyInit DEF ProfileInit
  <1> QED BY <1>2, <1>3, StudyStep, PartsRun, PTL DEF ProfileSpec

-----------------------------------------------------------------------------
(* Sequences that are joined, of which each is told by the one before it.  *)

Flattens(ft, seqs) ==
  ft = [i \in 1..Len(seqs) |-> IF i = 1 THEN seqs[i] ELSE ft[i - 1] \o seqs[i]]

LEMMA FlattensSteps ==
  ASSUME NEW S, NEW seqs \in Seq(Seq(S)), NEW ft, Flattens(ft, seqs), NEW i \in 1..Len(seqs)
  PROVE  /\ i = 1 => ft[i] = seqs[i]
         /\ i # 1 => ft[i] = ft[i - 1] \o seqs[i]
         /\ seqs[i] \in Seq(S)
  <1>1. seqs[i] \in Seq(S)
    BY ElementOfSeq
  <1>2. ft[i] = IF i = 1 THEN seqs[i] ELSE ft[i - 1] \o seqs[i]
    BY Zenon DEF Flattens
  <1> QED BY <1>1, <1>2

LEMMA FlattensTyped ==
  ASSUME NEW S, NEW seqs \in Seq(Seq(S)), NEW ft, Flattens(ft, seqs)
  PROVE  \A i \in 1..Len(seqs) : ft[i] \in Seq(S)
  <1> DEFINE B == {i \in 1..Len(seqs) : ft[i] \notin Seq(S)}
  <1>1. SUFFICES ASSUME B # {} PROVE FALSE
    OBVIOUS
  <1>2. PICK i \in B : \A j \in B : i <= j
    <2>1. B \subseteq Nat
      OBVIOUS
    <2> HIDE DEF B
    <2> QED BY <1>1, <2>1, HasLeast
  <1>3. /\ i = 1 => ft[i] = seqs[i]
        /\ i # 1 => ft[i] = ft[i - 1] \o seqs[i]
        /\ seqs[i] \in Seq(S)
    BY FlattensSteps
  <1>4. CASE i = 1
    BY <1>3, <1>4
  <1>5. CASE i # 1
    <2>1. i - 1 \in 1..Len(seqs) /\ ~(i <= i - 1)
      BY <1>5
    <2>2. ft[i - 1] \in Seq(S)
      BY <1>2, <2>1
    <2>3. ft[i - 1] \o seqs[i] \in Seq(S)
      BY <1>3, <2>2, ConcatProperties
    <2> QED BY <1>3, <1>5, <2>3
  <1> QED BY <1>4, <1>5

LEMMA FlattensExists ==
  ASSUME NEW S, NEW seqs \in Seq(Seq(S)) PROVE \E ft : Flattens(ft, seqs)
  <1> DEFINE Good(g, m) == g = [i \in 1..m |-> IF i = 1 THEN seqs[i] ELSE g[i - 1] \o seqs[i]]
             Has(m) == \E g : Good(g, m)
  <1>1. Has(0)
    <2> DEFINE g == [i \in 1..0 |-> IF i = 1 THEN seqs[i] ELSE <<>> \o seqs[i]]
    <2>1. Good(g, 0)
      OBVIOUS
    <2> QED BY <2>1
  <1>2. ASSUME NEW m \in Nat, Has(m) PROVE Has(m + 1)
    <2>1. PICK g : Good(g, m)
      BY <1>2
    <2> DEFINE h == [i \in 1..(m + 1) |-> IF i = 1 THEN seqs[i] ELSE g[i - 1] \o seqs[i]]
    <2>2. \A i \in 1..m : h[i] = g[i]
      <3> SUFFICES ASSUME NEW i \in 1..m PROVE h[i] = g[i]
        OBVIOUS
      <3>1. i \in 1..(m + 1)
        OBVIOUS
      <3>2. h[i] = IF i = 1 THEN seqs[i] ELSE g[i - 1] \o seqs[i]
        BY Zenon, <3>1
      <3>3. g[i] = IF i = 1 THEN seqs[i] ELSE g[i - 1] \o seqs[i]
        BY Zenon, <2>1
      <3> QED BY <3>2, <3>3
    <2>3. \A i \in 1..(m + 1) : i # 1 => h[i - 1] = g[i - 1]
      <3>1. \A i \in 1..(m + 1) : i # 1 => i - 1 \in 1..m
        OBVIOUS
      <3> HIDE DEF h
      <3> QED BY <2>2, <3>1
    <2>4. Good(h, m + 1)
      <3>1. \A i \in 1..(m + 1) : h[i] = IF i = 1 THEN seqs[i] ELSE h[i - 1] \o seqs[i]
        BY <2>3
      <3>2. h = [i \in 1..(m + 1) |-> h[i]]
        OBVIOUS
      <3> HIDE DEF h
      <3> QED BY <3>1, <3>2
    <2> HIDE DEF Good, h
    <2> QED BY <2>4
  <1>3. \A m \in Nat : Has(m)
    <2> DEFINE missing == {m \in Nat : ~Has(m)}
    <2> HIDE DEF Has
    <2>1. SUFFICES ASSUME missing # {} PROVE FALSE
      OBVIOUS
    <2>2. PICK m \in missing : \A k \in missing : m <= k
      BY <2>1, HasLeast
    <2>3. m # 0 /\ m - 1 \in Nat /\ ~(m <= m - 1)
      BY <1>1
    <2>4. Has(m - 1)
      BY <2>2, <2>3
    <2>5. Has(m - 1 + 1)
      BY <1>2, <2>3, <2>4
    <2> QED BY <2>3, <2>5
  <1>4. Has(Len(seqs))
    BY <1>3, LenProperties
  <1> QED BY <1>4 DEF Flattens

LEMMA FlattenIsTheLast ==
  ASSUME NEW S, NEW seqs \in Seq(Seq(S))
  PROVE  /\ Len(seqs) = 0 => Write!FlattenSeq(seqs) = <<>>
         /\ Len(seqs) # 0 => \E ft : Flattens(ft, seqs) /\ Write!FlattenSeq(seqs) = ft[Len(seqs)]
         /\ Write!FlattenSeq(seqs) \in Seq(S)
  <1>1. CASE Len(seqs) = 0
    BY <1>1 DEF Write!FlattenSeq
  <1>2. CASE Len(seqs) # 0
    <2> DEFINE ft == CHOOSE ft : ft = [i \in 1..Len(seqs) |-> IF i = 1 THEN seqs[i]
                                                              ELSE ft[i - 1] \o seqs[i]]
    <2>1. Flattens(ft, seqs)
      BY FlattensExists DEF Flattens
    <2>2. Write!FlattenSeq(seqs) = ft[Len(seqs)]
      BY <1>2 DEF Write!FlattenSeq
    <2> HIDE DEF ft
    <2>3. ft[Len(seqs)] \in Seq(S)
      BY <1>2, <2>1, FlattensTyped
    <2> QED BY <1>2, <2>1, <2>2, <2>3
  <1> QED BY <1>1, <1>2

\* Sequences of which the elements at each place are related.
Alike(s, t, R) == Len(s) = Len(t) /\ \A k \in 1..Len(s) : <<s[k], t[k]>> \in R

LEMMA AlikeJoined ==
  ASSUME NEW S, NEW T, NEW R, NEW s \in Seq(S), NEW s2 \in Seq(S), NEW t \in Seq(T), NEW t2 \in Seq(T),
         Alike(s, t, R), Alike(s2, t2, R)
  PROVE  Alike(s \o s2, t \o t2, R)
  <1>1. /\ Len(s \o s2) = Len(s) + Len(s2) /\ Len(t \o t2) = Len(t) + Len(t2)
        /\ Len(s) = Len(t) /\ Len(s2) = Len(t2) /\ Len(s) \in Nat /\ Len(s2) \in Nat
    BY ConcatProperties, LenProperties DEF Alike
  <1>2. /\ \A k \in 1..(Len(s) + Len(s2)) :
             (s \o s2)[k] = IF k <= Len(s) THEN s[k] ELSE s2[k - Len(s)]
        /\ \A k \in 1..(Len(t) + Len(t2)) :
             (t \o t2)[k] = IF k <= Len(t) THEN t[k] ELSE t2[k - Len(t)]
    BY ConcatProperties
  <1>3. ASSUME NEW k \in 1..Len(s \o s2) PROVE <<(s \o s2)[k], (t \o t2)[k]>> \in R
    <2>1. CASE k <= Len(s)
      <3>1. k \in 1..Len(s) /\ (s \o s2)[k] = s[k] /\ (t \o t2)[k] = t[k]
        BY <1>1, <1>2, <2>1
      <3> QED BY <3>1 DEF Alike
    <2>2. CASE ~(k <= Len(s))
      <3>1. k - Len(s) \in 1..Len(s2) /\ (s \o s2)[k] = s2[k - Len(s)] /\ (t \o t2)[k] = t2[k - Len(s)]
        BY <1>1, <1>2, <2>2
      <3> QED BY <3>1 DEF Alike
    <2> QED BY <2>1, <2>2
  <1> QED BY <1>1, <1>3 DEF Alike

LEMMA AlikeFlattened ==
  ASSUME NEW S, NEW T, NEW R, NEW a \in Seq(Seq(S)), NEW b \in Seq(Seq(T)), Len(a) = Len(b),
         \A i \in 1..Len(a) : Alike(a[i], b[i], R)
  PROVE  Alike(Write!FlattenSeq(a), Write!FlattenSeq(b), R)
  <1>1. CASE Len(a) = 0
    <2>1. Write!FlattenSeq(a) = <<>> /\ Write!FlattenSeq(b) = <<>>
      BY <1>1, FlattenIsTheLast
    <2> QED BY <2>1 DEF Alike
  <1>2. CASE Len(a) # 0
    <2>1. PICK ft : Flattens(ft, a) /\ Write!FlattenSeq(a) = ft[Len(a)]
      BY <1>2, FlattenIsTheLast
    <2>2. PICK gt : Flattens(gt, b) /\ Write!FlattenSeq(b) = gt[Len(a)]
      BY <1>2, FlattenIsTheLast
    <2> DEFINE B == {i \in 1..Len(a) : ~Alike(ft[i], gt[i], R)}
    <2>3. SUFFICES ASSUME B # {} PROVE FALSE
      <3>1. Len(a) \in 1..Len(a)
        BY <1>2, LenProperties
      <3>2. Alike(ft[Len(a)], gt[Len(a)], R)
        BY <2>3, <3>1
      <3> QED BY <2>1, <2>2, <3>2
    <2>4. PICK i \in B : \A j \in B : i <= j
      <3>1. B \subseteq Nat
        OBVIOUS
      <3> HIDE DEF B
      <3> QED BY <2>3, <3>1, HasLeast
    <2>a. /\ i = 1 => ft[i] = a[i]
          /\ i # 1 => ft[i] = ft[i - 1] \o a[i]
          /\ a[i] \in Seq(S)
      BY <2>1, FlattensSteps
    <2>b. /\ i = 1 => gt[i] = b[i]
          /\ i # 1 => gt[i] = gt[i - 1] \o b[i]
          /\ b[i] \in Seq(T)
      BY <2>2, FlattensSteps
    <2>5. Alike(a[i], b[i], R)
      OBVIOUS
    <2>6. i # 1
      BY <2>a, <2>b, <2>5
    <2>7. i - 1 \in 1..Len(a) /\ ~(i <= i - 1)
      BY <2>6
    <2>8. Alike(ft[i - 1], gt[i - 1], R)
      BY <2>4, <2>7
    <2>9. ft[i - 1] \in Seq(S) /\ gt[i - 1] \in Seq(T)
      BY <2>1, <2>2, <2>7, FlattensTyped
    <2> HIDE DEF B
    <2>10. Alike(ft[i - 1] \o a[i], gt[i - 1] \o b[i], R)
      BY <2>a, <2>b, <2>5, <2>8, <2>9, AlikeJoined
    <2> QED BY <2>a, <2>b, <2>6, <2>10 DEF B
  <1> QED BY <1>1, <1>2

LEMMA JoinedLength ==
  ASSUME NEW S, NEW s \in Seq(S), NEW t \in Seq(S)
  PROVE  Len(s \o t) = Len(s) + Len(t) /\ Len(s) \in Nat /\ Len(t) \in Nat
  BY ConcatProperties, LenProperties

\* The longer the parts, the longer the whole.
LEMMA LongerFlattened ==
  ASSUME NEW S, NEW T, NEW a \in Seq(Seq(S)), NEW b \in Seq(Seq(T)), Len(a) = Len(b),
         \A i \in 1..Len(a) : Len(a[i]) <= Len(b[i]),
         NEW l \in 1..Len(a), Len(a[l]) < Len(b[l])
  PROVE  Len(Write!FlattenSeq(a)) < Len(Write!FlattenSeq(b))
  <1>1. Len(a) # 0 /\ Len(a) \in Nat
    BY LenProperties
  <1>2. PICK ft : Flattens(ft, a) /\ Write!FlattenSeq(a) = ft[Len(a)]
    BY <1>1, FlattenIsTheLast
  <1>3. PICK gt : Flattens(gt, b) /\ Write!FlattenSeq(b) = gt[Len(a)]
    BY <1>1, FlattenIsTheLast
  <1> DEFINE Less(i) == /\ Len(ft[i]) <= Len(gt[i])
                        /\ l <= i => Len(ft[i]) < Len(gt[i])
             B == {i \in 1..Len(a) : ~Less(i)}
  <1>4. SUFFICES ASSUME B # {} PROVE FALSE
    <2>1. Len(a) \in 1..Len(a) /\ l <= Len(a)
      BY <1>1
    <2> QED BY <1>2, <1>3, <1>4, <2>1
  <1>5. PICK i \in B : \A j \in B : i <= j
    <2>1. B \subseteq Nat
      OBVIOUS
    <2> HIDE DEF B
    <2> QED BY <1>4, <2>1, HasLeast
  <1>a. /\ i = 1 => ft[i] = a[i]
        /\ i # 1 => ft[i] = ft[i - 1] \o a[i]
        /\ a[i] \in Seq(S)
    BY <1>2, FlattensSteps
  <1>b. /\ i = 1 => gt[i] = b[i]
        /\ i # 1 => gt[i] = gt[i - 1] \o b[i]
        /\ b[i] \in Seq(T)
    BY <1>3, FlattensSteps
  <1>6. Len(a[i]) \in Nat /\ Len(b[i]) \in Nat
    BY <1>a, <1>b, LenProperties
  <1>7. /\ Len(a[i]) <= Len(b[i]) /\ (i = l => Len(a[i]) < Len(b[i]))
        /\ i \in Nat /\ l \in Nat /\ 1 <= l
    OBVIOUS
  <1>8. CASE i = 1
    BY <1>a, <1>b, <1>6, <1>7, <1>8
  <1>9. CASE i # 1
    <2>1. i - 1 \in 1..Len(a) /\ ~(i <= i - 1)
      BY <1>9
    <2>2. Less(i - 1)
      BY <1>5, <2>1
    <2>3. ft[i - 1] \in Seq(S) /\ gt[i - 1] \in Seq(T)
      BY <1>2, <1>3, <2>1, FlattensTyped
    <2>4. /\ Len(ft[i - 1] \o a[i]) = Len(ft[i - 1]) + Len(a[i])
          /\ Len(ft[i - 1]) \in Nat
      BY <1>a, <2>3, JoinedLength
    <2>c. /\ Len(gt[i - 1] \o b[i]) = Len(gt[i - 1]) + Len(b[i])
          /\ Len(gt[i - 1]) \in Nat
      BY <1>b, <2>3, JoinedLength
    <2>5. /\ Len(ft[i]) = Len(ft[i - 1]) + Len(a[i])
          /\ Len(gt[i]) = Len(gt[i - 1]) + Len(b[i])
      BY <1>a, <1>b, <1>9, <2>4, <2>c
    <2>6. /\ Len(ft[i - 1]) <= Len(gt[i - 1])
          /\ l <= i - 1 => Len(ft[i - 1]) < Len(gt[i - 1])
      BY <2>2
    <2>7. Less(i)
      <3> DEFINE p == Len(ft[i - 1])
                 q == Len(gt[i - 1])
                 x == Len(a[i])
                 y == Len(b[i])
      <3>1. p \in Nat /\ q \in Nat /\ x \in Nat /\ y \in Nat /\ p <= q /\ x <= y
        BY <1>6, <1>7, <2>4, <2>c, <2>6
      <3>2. Len(ft[i]) = p + x /\ Len(gt[i]) = q + y
        BY <2>5
      <3>3. (l <= i - 1 => p < q) /\ (i = l => x < y) /\ i \in Nat /\ l \in Nat
        BY <1>7, <2>6
      <3> HIDE DEF p, q, x, y
      <3>4. p + x <= q + y /\ (p < q \/ x < y => p + x < q + y)
        BY <3>1
      <3>5. l <= i => p < q \/ x < y
        BY <3>3
      <3> QED BY <3>2, <3>4, <3>5
    <2> QED BY <2>7
  <1> QED BY <1>8, <1>9

-----------------------------------------------------------------------------
(* Templates.  The statements and the metadata of a step are alike place   *)
(* by place; so are the lists, where both repeat it as often.              *)

Binds == {"value", "each", "ref"}
TemplateSteps ==
  [op : {"resolve", "insert", "ensure", "update_stub"}, set : Seq(Binds), match : Seq(Binds),
   captures : BOOLEAN, listed : BOOLEAN, key : {"none", "sound", "unindexed"}]
Statements ==
  [op : {"select", "insert", "ignore", "update"}, binds : Seq(Binds), captures : BOOLEAN]

LEMMA RepeatIsFlat ==
  ASSUME NEW S, NEW s \in Seq(S), NEW n \in Nat
  PROVE  /\ [i \in 1..n |-> s] \in Seq(Seq(S)) /\ Len([i \in 1..n |-> s]) = n
         /\ \A i \in 1..n : [j \in 1..n |-> s][i] = s
         /\ Write!Repeat(s, n) = Write!FlattenSeq([i \in 1..n |-> s])
         /\ Write!Repeat(s, n) \in Seq(S)
  <1> DEFINE a == [i \in 1..n |-> s]
  <1>1. a \in Seq(Seq(S)) /\ Len(a) = n /\ \A i \in 1..n : a[i] = s
    OBVIOUS
  <1>2. Write!Repeat(s, n) = Write!FlattenSeq(a)
    BY Zenon DEF Write!Repeat
  <1> HIDE DEF a
  <1>3. Write!FlattenSeq(a) \in Seq(S)
    BY <1>1, FlattenIsTheLast
  <1> QED BY <1>1, <1>2, <1>3 DEF a

LEMMA RepeatTyped ==
  ASSUME NEW S, NEW s \in Seq(S), NEW n \in Nat PROVE Write!Repeat(s, n) \in Seq(S)
  BY RepeatIsFlat

LEMMA RepeatAlike ==
  ASSUME NEW S, NEW T, NEW R, NEW s \in Seq(S), NEW t \in Seq(T), Alike(s, t, R), NEW n \in Nat
  PROVE  Alike(Write!Repeat(s, n), Write!Repeat(t, n), R)
  <1> DEFINE a == [i \in 1..n |-> s]
             b == [i \in 1..n |-> t]
  <1>1. /\ a \in Seq(Seq(S)) /\ Len(a) = n /\ \A i \in 1..n : a[i] = s
        /\ Write!Repeat(s, n) = Write!FlattenSeq(a)
    BY RepeatIsFlat
  <1>2. /\ b \in Seq(Seq(T)) /\ Len(b) = n /\ \A i \in 1..n : b[i] = t
        /\ Write!Repeat(t, n) = Write!FlattenSeq(b)
    BY RepeatIsFlat
  <1> HIDE DEF a, b
  <1>3. \A i \in 1..Len(a) : Alike(a[i], b[i], R)
    BY <1>1, <1>2
  <1> QED BY <1>1, <1>2, <1>3, AlikeFlattened

\* A sequence repeated never is shorter than once, and twice or more longer.
LEMMA RepeatLength ==
  ASSUME NEW S, NEW s \in Seq(S), NEW n \in Nat, Len(s) > 0
  PROVE  /\ n = 0 => Len(Write!Repeat(s, n)) = 0
         /\ n = 1 => Write!Repeat(s, n) = s
         /\ n > 1 => Len(s) < Len(Write!Repeat(s, n))
  <1> DEFINE a == [i \in 1..n |-> s]
  <1>1. /\ a \in Seq(Seq(S)) /\ Len(a) = n /\ \A i \in 1..n : a[i] = s
        /\ Write!Repeat(s, n) = Write!FlattenSeq(a)
    BY RepeatIsFlat
  <1> HIDE DEF a
  <1>2. CASE n = 0
    <2>1. Write!FlattenSeq(a) = <<>>
      BY <1>1, <1>2, FlattenIsTheLast
    <2> QED BY <1>1, <1>2, <2>1
  <1>3. CASE n > 0
    <2>1. PICK ft : Flattens(ft, a) /\ Write!Repeat(s, n) = ft[n]
      BY <1>1, <1>3, FlattenIsTheLast
    <2>2. ft[1] = s
      <3>1. 1 \in 1..Len(a)
        BY <1>1, <1>3
      <3>2. ft[1] = a[1]
        <4>1. ft[1] = IF 1 = 1 THEN a[1] ELSE ft[1 - 1] \o a[1]
          BY Zenon, <2>1, <3>1 DEF Flattens
        <4> QED BY <4>1
      <3> QED BY <1>1, <1>3, <3>2
    <2>3. ASSUME n > 1 PROVE Len(s) < Len(ft[n])
      <3> DEFINE B == {i \in 2..n : ~(Len(s) < Len(ft[i]))}
      <3>1. SUFFICES ASSUME B # {} PROVE FALSE
        <4>1. n \in 2..n
          BY <2>3
        <4> QED BY <3>1, <4>1
      <3>2. PICK i \in B : \A j \in B : i <= j
        <4>1. B \subseteq Nat
          OBVIOUS
        <4> HIDE DEF B
        <4> QED BY <3>1, <4>1, HasLeast
      <3>3. i \in 1..Len(a) /\ i # 1 /\ i - 1 \in 1..Len(a) /\ i \in 1..n
        BY <1>1
      <3>4. ft[i] = ft[i - 1] \o s
        <4> HIDE DEF B
        <4>1. a \in Seq(Seq(S)) /\ Flattens(ft, a)
          BY <1>1, <2>1
        <4>2. ft[i] = ft[i - 1] \o a[i]
          BY ONLY <3>3, <4>1, FlattensSteps
        <4> QED BY <1>1, <3>3, <4>2
      <3>5. ft[i - 1] \in Seq(S)
        BY <1>1, <2>1, <3>3, FlattensTyped
      <3>6. Len(ft[i]) = Len(ft[i - 1]) + Len(s) /\ Len(ft[i - 1]) \in Nat /\ Len(s) \in Nat
        BY <3>4, <3>5, JoinedLength
      <3>7. CASE i = 2
        BY <2>2, <3>6, <3>7
      <3>8. CASE i # 2
        <4>1. i - 1 \in 2..n /\ ~(i <= i - 1)
          BY <3>3, <3>8
        <4>2. Len(s) < Len(ft[i - 1])
          BY <3>2, <4>1
        <4> QED BY <3>6, <4>2
      <3> QED BY <3>7, <3>8
    <2>4. n = 1 => Write!Repeat(s, n) = s
      BY <2>1, <2>2
    <2>5. n > 1 => Len(s) < Len(Write!Repeat(s, n))
      BY <2>1, <2>3
    <2> QED BY <1>3, <2>4, <2>5
  <1> QED BY <1>2, <1>3

Keeps(p, q) ==
  /\ \A j \in DOMAIN p : \E i \in DOMAIN (p \o q) : (p \o q)[i] = p[j]
  /\ \A j \in DOMAIN q : \E i \in DOMAIN (p \o q) : (p \o q)[i] = q[j]

LEMMA JoinedKeeps ==
  ASSUME NEW S, NEW p \in Seq(S), NEW q \in Seq(S) PROVE Keeps(p, q)
  <1>1. /\ p \o q \in Seq(S) /\ Len(p \o q) = Len(p) + Len(q)
        /\ \A i \in 1..(Len(p) + Len(q)) :
             (p \o q)[i] = IF i <= Len(p) THEN p[i] ELSE q[i - Len(p)]
    BY ConcatProperties
  <1>2. /\ DOMAIN p = 1..Len(p) /\ DOMAIN q = 1..Len(q) /\ DOMAIN (p \o q) = 1..(Len(p) + Len(q))
        /\ Len(p) \in Nat /\ Len(q) \in Nat
    BY <1>1, LenProperties
  <1>3. \A j \in 1..Len(p) : j \in 1..(Len(p) + Len(q)) /\ (p \o q)[j] = p[j]
    BY <1>1, <1>2
  <1>4. \A j \in 1..Len(q) : j + Len(p) \in 1..(Len(p) + Len(q)) /\ (p \o q)[j + Len(p)] = q[j]
    <2> SUFFICES ASSUME NEW j \in 1..Len(q)
                 PROVE  j + Len(p) \in 1..(Len(p) + Len(q)) /\ (p \o q)[j + Len(p)] = q[j]
      OBVIOUS
    <2>1. j + Len(p) \in 1..(Len(p) + Len(q)) /\ ~(j + Len(p) <= Len(p)) /\ j + Len(p) - Len(p) = j
      BY <1>2
    <2> QED BY <1>1, <2>1
  <1> QED BY <1>2, <1>3, <1>4 DEF Keeps

LEMMA StatementsOfAStep ==
  ASSUME NEW step \in TemplateSteps
  PROVE  /\ Write!StatementsOf(step) \in Seq(Statements) /\ Len(Write!StatementsOf(step)) > 0
         /\ \A k \in 1..Len(Write!StatementsOf(step)) :
              /\ Write!StatementsOf(step)[k].op # "select" <=>
                   \/ step.op \in {"insert", "update_stub"}
                   \/ step.op = "ensure" /\ k = 1
              /\ \A j \in DOMAIN Write!StatementsOf(step)[k].binds :
                   Write!StatementsOf(step)[k].binds[j] = "ref" =>
                     "ref" \in Write!ToSet(step.set \o step.match)
  <1> DEFINE st == Write!StatementsOf(step)
             refs == Write!ToSet(step.set \o step.match)
             Named(binds) == \A j \in DOMAIN binds : binds[j] = "ref" => "ref" \in refs
  <1>1. step.set \in Seq(Binds) /\ step.match \in Seq(Binds) /\ step.captures \in BOOLEAN
    BY DEF TemplateSteps
  <1>2. step.set \o step.match \in Seq(Binds)
    BY <1>1, ConcatProperties
  <1>3. Named(step.set \o step.match)
    BY DEF Write!ToSet
  <1>4. Named(step.set) /\ Named(step.match)
    <2>1. Keeps(step.set, step.match)
      BY <1>1, JoinedKeeps
    <2> HIDE DEF refs
    <2> QED BY <1>3, <2>1 DEF Keeps
  <1> HIDE DEF refs
  <1>5. CASE step.op = "resolve"
    <2>1. st = <<[op |-> "select", binds |-> step.match, captures |-> step.captures]>>
      BY <1>5 DEF Write!StatementsOf, Write!Statement
    <2> HIDE DEF st, Named
    <2>2. st \in Seq(Statements) /\ Len(st) = 1 /\ st[1].op = "select" /\ st[1].binds = step.match
      BY <1>1, <2>1 DEF Statements
    <2> QED BY <1>4, <1>5, <2>2 DEF st, Named, refs
  <1>6. CASE step.op = "insert"
    <2>1. st = <<[op |-> "insert", binds |-> step.set, captures |-> step.captures]>>
      BY <1>6 DEF Write!StatementsOf, Write!Statement
    <2> HIDE DEF st, Named
    <2>2. st \in Seq(Statements) /\ Len(st) = 1 /\ st[1].op = "insert" /\ st[1].binds = step.set
      BY <1>1, <2>1 DEF Statements
    <2> QED BY <1>4, <1>6, <2>2 DEF st, Named, refs
  <1>7. CASE step.op = "ensure"
    <2>1. st = <<[op |-> "ignore", binds |-> step.set, captures |-> FALSE],
                 [op |-> "select", binds |-> step.match, captures |-> step.captures]>>
      BY <1>7 DEF Write!StatementsOf, Write!Statement
    <2> HIDE DEF st, Named
    <2>2. /\ st \in Seq(Statements) /\ Len(st) = 2 /\ st[1].op = "ignore" /\ st[1].binds = step.set
          /\ st[2].op = "select" /\ st[2].binds = step.match
      BY <1>1, <2>1 DEF Statements
    <2> QED BY <1>4, <1>7, <2>2 DEF st, Named, refs
  <1>8. CASE step.op = "update_stub"
    <2> DEFINE all == step.set \o step.match
    <2>1. st = <<[op |-> "update", binds |-> all, captures |-> step.captures]>>
      BY <1>8 DEF Write!StatementsOf, Write!Statement
    <2>2. all \in Seq(Binds) /\ Named(all)
      BY <1>2, <1>3
    <2> HIDE DEF st, Named, all
    <2>3. st \in Seq(Statements) /\ Len(st) = 1 /\ st[1].op = "update" /\ st[1].binds = all
      BY <1>1, <2>1, <2>2 DEF Statements
    <2> QED BY <1>8, <2>2, <2>3 DEF st, Named, refs
  <1> QED BY <1>5, <1>6, <1>7, <1>8 DEF TemplateSteps

\* What a run uses: the template's steps and default, and the payload.
LEMMA PayloadsTyped ==
  ASSUME NEW payload \in Write!Payloads
  PROVE  /\ payload.kind \in {"absent", "list", "other"} /\ payload.length \in Nat
         /\ payload.kind = "absent" => payload = Write!Absent
  <1>1. Lengths \subseteq Nat
    BY TemplateAssumption
  <1>2. \/ payload \in [kind : {"list"}, length : Lengths]
        \/ payload = [kind |-> "absent", length |-> 0]
        \/ payload = [kind |-> "other", length |-> 0]
    BY DEF Write!Payloads, Write!Arrays, Write!Absent
  <1>3. CASE payload \in [kind : {"list"}, length : Lengths]
    <2>1. payload.kind = "list" /\ payload.length \in Lengths
      BY <1>3
    <2> QED BY <1>1, <2>1
  <1>4. CASE payload = [kind |-> "absent", length |-> 0]
    <2>1. payload.kind = "absent" /\ payload.length = 0
      BY <1>4
    <2> QED BY <1>4, <2>1 DEF Write!Absent
  <1>5. CASE payload = [kind |-> "other", length |-> 0]
    <2>1. payload.kind = "other" /\ payload.length = 0
      BY <1>5
    <2> QED BY <2>1
  <1> QED BY <1>2, <1>3, <1>4, <1>5

CustomIsATemplate == templateCustom \subseteq Write!Templates

LEMMA LoadedTyped ==
  ASSUME CustomIsATemplate
  PROVE  /\ Write!Loaded.steps \in Seq(TemplateSteps)
         /\ Write!Loaded.default \in Write!Arrays \cup {Write!Absent}
  <1>1. CASE templateCustom = {}
    BY <1>1, TemplateAssumption DEF Write!Loaded, TemplateSteps, Binds, Write!Arrays, Write!Absent
  <1>2. CASE templateCustom # {}
    <2> DEFINE t == CHOOSE t \in templateCustom : TRUE
    <2>1. t \in Write!Templates
      BY <1>2 DEF CustomIsATemplate
    <2>2. Write!Loaded = t
      BY <1>2 DEF Write!Loaded
    <2> HIDE DEF t
    <2>3. t.steps \in UNION {[1..n -> Steps] : n \in 1..MaxSteps}
          /\ t.default \in Write!Arrays \cup {Write!Absent}
      BY <2>1 DEF Write!Templates
    <2>4. PICK n \in 1..MaxSteps : t.steps \in [1..n -> Steps]
      BY <2>3
    <2>5. Steps \subseteq TemplateSteps
      BY TemplateAssumption DEF TemplateSteps, Binds
    <2>6. t.steps \in Seq(TemplateSteps)
      BY <2>4, <2>5
    <2> QED BY <2>2, <2>3, <2>6
  <1> QED BY <1>1, <1>2

\* How often a step is made, and how often the metadata take it for made.
Made(step, default, payload) ==
  IF Write!FansOut(step)
  THEN IF payload.kind = "absent" THEN default.length ELSE payload.length ELSE 1

Related == {c \in Statements \X Seq(BOOLEAN) :
              c[2] = [j \in DOMAIN c[1].binds |-> c[1].binds[j] = "ref"]}
Told == {c \in Statements \X BOOLEAN : c[2] <=> c[1].op # "select"}

LEMMA RefsOfAStep ==
  ASSUME NEW steps \in Seq(TemplateSteps), NEW i \in 1..Len(steps), ~Write!StepErrors(steps, i)
  PROVE  LET st == Write!StatementsOf(steps[i])
             refs == [k \in DOMAIN st |-> Write!CaptureRefs(st[k], Write!Produced(steps, i))]
         IN  refs \in Seq(Seq(BOOLEAN)) /\ Alike(st, refs, Related)
  <1> DEFINE step == steps[i]
             st == Write!StatementsOf(step)
             produced == Write!Produced(steps, i)
             refs == [k \in DOMAIN st |-> Write!CaptureRefs(st[k], produced)]
  <1>1. step \in TemplateSteps
    BY ElementOfSeq
  <1>2. "ref" \in Write!ToSet(step.set \o step.match) => produced
    BY DEF Write!StepErrors
  <1>3. /\ st \in Seq(Statements)
        /\ \A k \in 1..Len(st) : \A j \in DOMAIN st[k].binds :
             st[k].binds[j] = "ref" => "ref" \in Write!ToSet(step.set \o step.match)
    BY <1>1, StatementsOfAStep
  <1>4. DOMAIN st = 1..Len(st) /\ Len(st) \in Nat
    BY <1>3, LenProperties
  <1> HIDE DEF produced, st, step
  <1>5. ASSUME NEW k \in 1..Len(st)
        PROVE  /\ refs[k] = [j \in DOMAIN st[k].binds |-> st[k].binds[j] = "ref"]
               /\ refs[k] \in Seq(BOOLEAN) /\ st[k] \in Statements
    <2>1. st[k] \in Statements
      BY <1>3, ElementOfSeq
    <2>2. st[k].binds \in Seq(Binds)
      BY <2>1 DEF Statements
    <2> DEFINE binds == st[k].binds
    <2>3. \A j \in DOMAIN binds : (produced /\ binds[j] = "ref") = (binds[j] = "ref")
      BY <1>2, <1>3
    <2>4. refs[k] = [j \in DOMAIN binds |-> produced /\ binds[j] = "ref"]
      BY <1>4 DEF Write!CaptureRefs
    <2>5. DOMAIN binds = 1..Len(binds) /\ Len(binds) \in Nat
      BY <2>2, LenProperties
    <2> HIDE DEF binds, refs
    <2>6. refs[k] = [j \in DOMAIN binds |-> binds[j] = "ref"]
      BY <2>3, <2>4
    <2>7. [j \in 1..Len(binds) |-> binds[j] = "ref"] \in Seq(BOOLEAN)
      BY <2>5
    <2> QED BY <2>1, <2>5, <2>6, <2>7 DEF binds
  <1>6. DOMAIN refs = 1..Len(st)
    BY <1>4
  <1>7. refs = [k \in 1..Len(st) |-> refs[k]]
    BY <1>4
  <1> HIDE DEF refs
  <1>8. refs \in Seq(Seq(BOOLEAN)) /\ Len(refs) = Len(st)
    BY <1>4, <1>5, <1>7
  <1>9. Alike(st, refs, Related)
    BY <1>5, <1>8 DEF Alike, Related
  <1> QED BY <1>8, <1>9 DEF refs, st, step, produced

LEMMA WritesOfAStep ==
  ASSUME NEW step \in TemplateSteps
  PROVE  LET st == Write!StatementsOf(step)
             writes == [k \in DOMAIN st |-> step.op \in {"insert", "update_stub"}
                                              \/ (step.op = "ensure" /\ k = 1)]
         IN  writes \in Seq(BOOLEAN) /\ Alike(st, writes, Told)
  <1> DEFINE st == Write!StatementsOf(step)
             writes == [k \in DOMAIN st |-> step.op \in {"insert", "update_stub"}
                                              \/ (step.op = "ensure" /\ k = 1)]
  <1>1. /\ st \in Seq(Statements)
        /\ \A k \in 1..Len(st) : st[k].op # "select" <=>
             \/ step.op \in {"insert", "update_stub"}
             \/ step.op = "ensure" /\ k = 1
    BY StatementsOfAStep
  <1>2. DOMAIN st = 1..Len(st) /\ Len(st) \in Nat /\ \A k \in 1..Len(st) : st[k] \in Statements
    BY <1>1, LenProperties, ElementOfSeq
  <1> HIDE DEF st
  <1>3. writes \in Seq(BOOLEAN) /\ Len(writes) = Len(st)
    BY <1>2
  <1>4. \A k \in 1..Len(st) : writes[k] \in BOOLEAN /\ (writes[k] <=> st[k].op # "select")
    BY <1>1, <1>2
  <1> HIDE DEF writes
  <1>5. Alike(st, writes, Told)
    BY <1>2, <1>3, <1>4 DEF Alike, Told
  <1> QED BY <1>3, <1>5 DEF st, writes

\* The statements of an accepted run, and two lists that follow its steps.
LEMMA ListsOfARun ==
  ASSUME CustomIsATemplate, NEW payload \in Write!Payloads, Write!Accepted(payload),
         NEW T, NEW R, NEW parts, DOMAIN parts = 1..Len(Write!Loaded.steps),
         \A i \in 1..Len(Write!Loaded.steps) :
           parts[i] \in Seq(T) /\ Alike(Write!StatementsOf(Write!Loaded.steps[i]), parts[i], R),
         NEW list,
         list = Write!FlattenSeq([i \in DOMAIN Write!Loaded.steps |->
                  Write!Repeat(parts[i], Write!FanoutCount(Write!Loaded.steps[i], payload))])
  PROVE  LET plan == Write!Compiled(Write!Loaded, payload)
         IN  /\ plan \in Seq(Statements) /\ list \in Seq(T)
             /\ \/ Alike(plan, list, R)
                \/ /\ payload.kind = "absent" /\ Write!Loaded.default # Write!Absent
                   /\ Write!Loaded.default.length # 1 /\ Len(plan) # Len(list)
  <1> DEFINE steps == Write!Loaded.steps
             default == Write!Loaded.default
             st(i) == Write!StatementsOf(steps[i])
             C(i) == IF Write!FansOut(steps[i])
                     THEN Write!WithDefaults(Write!Loaded, payload).length ELSE 1
             F(i) == Write!FanoutCount(steps[i], payload)
             a == [i \in DOMAIN steps |-> Write!Repeat(st(i), C(i))]
             b == [i \in DOMAIN steps |-> Write!Repeat(parts[i], F(i))]
             plan == Write!Compiled(Write!Loaded, payload)
  <1>1. /\ steps \in Seq(TemplateSteps) /\ default \in Write!Arrays \cup {Write!Absent}
        /\ Len(steps) \in Nat /\ DOMAIN steps = 1..Len(steps)
    BY LoadedTyped, LenProperties
  <1>2. plan = Write!FlattenSeq(a)
    BY DEF Write!Compiled
  <1>3. list = Write!FlattenSeq(b)
    OBVIOUS
  <1>4. \A i \in 1..Len(steps) : st(i) \in Seq(Statements) /\ Len(st(i)) > 0
    <2>1. \A i \in 1..Len(steps) : steps[i] \in TemplateSteps
      BY <1>1, ElementOfSeq
    <2> QED BY <2>1, StatementsOfAStep
  <1>5. /\ payload.kind \in {"absent", "list", "other"} /\ payload.length \in Nat
        /\ payload.kind = "absent" => payload = Write!Absent
    BY PayloadsTyped
  <1>6. default.length \in Nat /\ default.kind \in {"absent", "list"} /\ (default.kind = "list" => default # Write!Absent)
    <2>1. Lengths \subseteq Nat
      BY TemplateAssumption
    <2>2. default \in [kind : {"list"}, length : Lengths] \/ default = [kind |-> "absent", length |-> 0]
      BY <1>1 DEF Write!Arrays, Write!Absent
    <2>3. CASE default \in [kind : {"list"}, length : Lengths]
      <3>1. default.kind = "list" /\ default.length \in Lengths /\ Write!Absent.kind = "absent"
        BY <2>3 DEF Write!Absent
      <3> QED BY <2>1, <3>1
    <2>4. CASE default = [kind |-> "absent", length |-> 0]
      <3>1. default.kind = "absent" /\ default.length = 0
        BY <2>4
      <3> QED BY <3>1
    <2> QED BY <2>2, <2>3, <2>4
  <1>7. \A i \in 1..Len(steps) :
          /\ C(i) \in Nat /\ F(i) \in Nat
          /\ ~Write!FansOut(steps[i]) => C(i) = 1 /\ F(i) = 1
          /\ Write!FansOut(steps[i]) =>
               \/ payload.kind = "list" /\ C(i) = F(i)
               \/ /\ payload.kind = "absent" /\ default # Write!Absent
                  /\ C(i) = default.length /\ F(i) = 1
    <2> SUFFICES ASSUME NEW i \in 1..Len(steps)
                 PROVE  /\ C(i) \in Nat /\ F(i) \in Nat
                        /\ ~Write!FansOut(steps[i]) => C(i) = 1 /\ F(i) = 1
                        /\ Write!FansOut(steps[i]) =>
                             \/ payload.kind = "list" /\ C(i) = F(i)
                             \/ /\ payload.kind = "absent" /\ default # Write!Absent
                                /\ C(i) = default.length /\ F(i) = 1
      OBVIOUS
    <2> DEFINE effective == Write!WithDefaults(Write!Loaded, payload)
    <2>1. effective = IF payload.kind = "absent" THEN default ELSE payload
      BY DEF Write!WithDefaults
    <2>2. Write!FansOut(steps[i]) => effective.kind = "list"
      BY <1>1 DEF Write!Accepted, Write!Compilable, Write!MatchesType
    <2>3. F(i) = IF Write!FansOut(steps[i]) /\ payload.kind = "list" THEN payload.length ELSE 1
      BY DEF Write!FanoutCount
    <2>4. C(i) = IF Write!FansOut(steps[i]) THEN effective.length ELSE 1
      OBVIOUS
    <2> HIDE DEF effective, C, F, steps, default
    <2> QED BY <1>5, <1>6, <2>1, <2>2, <2>3, <2>4
  <1> HIDE DEF C, F
  <1>8. \A i \in 1..Len(steps) :
          /\ a[i] = Write!Repeat(st(i), C(i)) /\ a[i] \in Seq(Statements)
          /\ b[i] = Write!Repeat(parts[i], F(i)) /\ b[i] \in Seq(T)
    <2> SUFFICES ASSUME NEW i \in 1..Len(steps)
                 PROVE  /\ a[i] = Write!Repeat(st(i), C(i)) /\ a[i] \in Seq(Statements)
                        /\ b[i] = Write!Repeat(parts[i], F(i)) /\ b[i] \in Seq(T)
      OBVIOUS
    <2>1. a[i] = Write!Repeat(st(i), C(i)) /\ b[i] = Write!Repeat(parts[i], F(i))
      BY <1>1
    <2>2. st(i) \in Seq(Statements) /\ parts[i] \in Seq(T) /\ C(i) \in Nat /\ F(i) \in Nat
      BY <1>4, <1>7
    <2> HIDE DEF a, b, st, steps
    <2> QED BY <2>1, <2>2, RepeatTyped
  <1>9. /\ a \in Seq(Seq(Statements)) /\ b \in Seq(Seq(T)) /\ Len(a) = Len(steps) /\ Len(b) = Len(steps)
    <2>1. a = [i \in 1..Len(steps) |-> a[i]] /\ b = [i \in 1..Len(steps) |-> b[i]]
      BY <1>1
    <2> HIDE DEF a, b, steps
    <2> QED BY <1>1, <1>8, <2>1
  <1>10. \A i \in 1..Len(steps) : Alike(st(i), parts[i], R) /\ parts[i] \in Seq(T) /\ Len(parts[i]) = Len(st(i))
    BY DEF Alike
  <1>11. plan \in Seq(Statements) /\ list \in Seq(T)
    <2> HIDE DEF a, b, plan
    <2> QED BY <1>2, <1>3, <1>9, FlattenIsTheLast
  <1> HIDE DEF a, b, steps, st, plan, default
  <1>12. CASE \A i \in 1..Len(steps) : C(i) = F(i)
    <2>1. ASSUME NEW i \in 1..Len(steps) PROVE Alike(a[i], b[i], R)
      <3>1. st(i) \in Seq(Statements) /\ parts[i] \in Seq(T) /\ Alike(st(i), parts[i], R) /\ C(i) \in Nat
        BY <1>4, <1>7, <1>10
      <3>2. Alike(Write!Repeat(st(i), C(i)), Write!Repeat(parts[i], C(i)), R)
        BY <3>1, RepeatAlike
      <3> QED BY <1>8, <1>12, <3>2
    <2>2. Alike(plan, list, R)
      BY <1>2, <1>3, <1>9, <2>1, AlikeFlattened
    <2> QED BY <1>11, <2>2 DEF plan
  <1>13. ASSUME NEW l \in 1..Len(steps), C(l) # F(l)
         PROVE  /\ payload.kind = "absent" /\ default # Write!Absent
                /\ default.length # 1 /\ Len(plan) # Len(list)
    <2>1. /\ payload.kind = "absent" /\ default # Write!Absent /\ default.length # 1
          /\ C(l) = default.length /\ F(l) = 1
      BY <1>7, <1>13
    <2>2. \A i \in 1..Len(steps) :
            \/ C(i) = 1 /\ F(i) = 1
            \/ C(i) = default.length /\ F(i) = 1
      BY <1>7, <2>1
    <2>3. \A i \in 1..Len(steps) :
            /\ Len(b[i]) = Len(st(i)) /\ Len(st(i)) \in Nat
            /\ C(i) = 1 => Len(a[i]) = Len(st(i))
            /\ C(i) = 0 => Len(a[i]) = 0 /\ Len(a[i]) < Len(b[i])
            /\ C(i) > 1 => Len(b[i]) < Len(a[i])
      <3> SUFFICES ASSUME NEW i \in 1..Len(steps)
                   PROVE  /\ Len(b[i]) = Len(st(i)) /\ Len(st(i)) \in Nat
                          /\ C(i) = 1 => Len(a[i]) = Len(st(i))
                          /\ C(i) = 0 => Len(a[i]) = 0 /\ Len(a[i]) < Len(b[i])
                          /\ C(i) > 1 => Len(b[i]) < Len(a[i])
        OBVIOUS
      <3>1. /\ st(i) \in Seq(Statements) /\ Len(st(i)) > 0 /\ C(i) \in Nat /\ F(i) \in Nat
            /\ parts[i] \in Seq(T) /\ Len(parts[i]) = Len(st(i)) /\ F(i) = 1
        BY <1>4, <1>7, <1>10, <2>2
      <3>2. /\ C(i) = 0 => Len(a[i]) = 0
            /\ C(i) = 1 => a[i] = st(i)
            /\ C(i) > 1 => Len(st(i)) < Len(a[i])
        BY <1>8, <3>1, RepeatLength
      <3>3. b[i] = parts[i]
        BY <1>8, <3>1, RepeatLength
      <3> QED BY <3>1, <3>2, <3>3, LenProperties
    <2>4. default.length \in Nat
      BY <1>6
    <2>5. \A i \in 1..Len(steps) : Len(a[i]) \in Nat /\ Len(b[i]) \in Nat
      BY <1>8, LenProperties
    <2>6. CASE default.length = 0
      <3>1. \A i \in 1..Len(a) : Len(a[i]) <= Len(b[i])
        BY <1>9, <2>2, <2>3, <2>5, <2>6
      <3>2. l \in 1..Len(a) /\ Len(a[l]) < Len(b[l])
        BY <1>9, <2>1, <2>3, <2>6
      <3>3. Len(plan) < Len(list)
        BY <1>2, <1>3, <1>9, <3>1, <3>2, LongerFlattened
      <3> QED BY <1>11, <2>1, <3>3, LenProperties
    <2>7. CASE default.length > 1
      <3>1. \A i \in 1..Len(b) : Len(b[i]) <= Len(a[i])
        BY <1>9, <2>2, <2>3, <2>5, <2>7
      <3>2. l \in 1..Len(b) /\ Len(b[l]) < Len(a[l])
        BY <1>9, <2>1, <2>3, <2>7
      <3>3. Len(list) < Len(plan)
        BY <1>2, <1>3, <1>9, <3>1, <3>2, LongerFlattened
      <3> QED BY <1>11, <2>1, <3>3, LenProperties
    <2> QED BY <2>1, <2>4, <2>6, <2>7
  <1> QED BY <1>11, <1>12, <1>13 DEF plan, default

TemplateInv == CustomIsATemplate /\ Write!EveryReferenceIsReplaced

LEMMA TemplateInit == Write!Init => TemplateInv
  <1> SUFFICES ASSUME Write!Init PROVE TemplateInv
    OBVIOUS
  <1>1. templateCustom = {} /\ templateRun.kind = "none"
    BY DEF Write!Init, Write!NoRun
  <1> QED BY <1>1 DEF TemplateInv, CustomIsATemplate, Write!EveryReferenceIsReplaced

LEMMA ApplyReplaces ==
  ASSUME TemplateInv, NEW payload \in Write!Payloads, Write!Apply(payload)
  PROVE  TemplateInv'
  <1> DEFINE steps == Write!Loaded.steps
             plan == Write!Compiled(Write!Loaded, payload)
             meta == Write!Metadata(steps, payload)
             parts == [i \in DOMAIN steps |->
                         [k \in DOMAIN Write!StatementsOf(steps[i]) |->
                            Write!CaptureRefs(Write!StatementsOf(steps[i])[k], Write!Produced(steps, i))]]
             result == Write!Executed(plan, meta)
  <1>1. /\ Write!Accepted(payload) /\ templateCustom' = templateCustom
        /\ templateRun' = [kind |-> "apply", payload |-> payload, statements |-> plan, result |-> result]
    BY DEF Write!Apply
  <1>2. CustomIsATemplate
    BY DEF TemplateInv
  <1>3. steps \in Seq(TemplateSteps) /\ DOMAIN steps = 1..Len(steps)
    BY <1>2, LoadedTyped, LenProperties
  <1>4. \A i \in 1..Len(steps) : ~Write!StepErrors(steps, i)
    BY <1>1, <1>3 DEF Write!Accepted, Write!Valid
  <1>5. \A i \in 1..Len(steps) :
          parts[i] \in Seq(Seq(BOOLEAN)) /\ Alike(Write!StatementsOf(steps[i]), parts[i], Related)
    <2> HIDE DEF steps
    <2> QED BY <1>3, <1>4, RefsOfAStep
  <1>6. meta = Write!FlattenSeq([i \in DOMAIN steps |->
                 Write!Repeat(parts[i], Write!FanoutCount(steps[i], payload))])
    <2>1. \A i \in DOMAIN steps : parts[i] =
            [k \in DOMAIN Write!StatementsOf(steps[i]) |->
               Write!CaptureRefs(Write!StatementsOf(steps[i])[k], Write!Produced(steps, i))]
      OBVIOUS
    <2> HIDE DEF steps, parts
    <2> QED BY <2>1 DEF Write!Metadata
  <1>7. DOMAIN parts = 1..Len(steps)
    BY <1>3
  <1> HIDE DEF meta, parts
  <1>8. /\ plan \in Seq(Statements) /\ meta \in Seq(Seq(BOOLEAN))
        /\ \/ Alike(plan, meta, Related)
           \/ /\ payload.kind = "absent" /\ Write!Loaded.default # Write!Absent
              /\ Write!Loaded.default.length # 1
    BY <1>1, <1>2, <1>5, <1>6, <1>7, ListsOfARun
  <1> HIDE DEF plan, steps
  <1>9. ASSUME Alike(plan, meta, Related), result.status = "done",
               NEW k \in DOMAIN plan, NEW j \in DOMAIN plan[k].binds
        PROVE  result.bound[k][j] = IF plan[k].binds[j] = "ref" THEN "id" ELSE plan[k].binds[j]
    <2>1. k \in 1..Len(plan) /\ k \in DOMAIN meta /\ <<plan[k], meta[k]>> \in Related
      BY <1>8, <1>9, LenProperties DEF Alike
    <2>2. meta[k] = [i \in DOMAIN plan[k].binds |-> plan[k].binds[i] = "ref"]
      BY <2>1 DEF Related
    <2>3. result.bound[k] = Write!Substituted(plan[k].binds, meta[k])
      BY <1>9, <2>1 DEF Write!Executed
    <2>4. result.bound[k][j] = IF j \in DOMAIN meta[k] /\ meta[k][j] THEN "id" ELSE plan[k].binds[j]
      BY <2>3 DEF Write!Substituted
    <2> QED BY <2>2, <2>4
  <1> HIDE DEF result
  <1>10. Write!Loaded' = Write!Loaded
    BY <1>1 DEF Write!Loaded
  <1>11. /\ templateRun'.kind = "apply" /\ templateRun'.payload = payload
         /\ templateRun'.statements = plan /\ templateRun'.result = result
    BY <1>1
  <1>12. Write!EveryReferenceIsReplaced'
    <2>1. ASSUME ~(payload.kind = "absent" /\ Write!Loaded.default.length # 1
                   /\ Write!Loaded.default # Write!Absent),
                 result.status = "done", NEW k \in DOMAIN plan, NEW j \in DOMAIN plan[k].binds
          PROVE  result.bound[k][j] = IF plan[k].binds[j] = "ref" THEN "id" ELSE plan[k].binds[j]
      BY <1>8, <1>9, <2>1
    <2> QED BY <1>10, <1>11, <2>1 DEF Write!EveryReferenceIsReplaced
  <1> QED BY <1>1, <1>2, <1>12 DEF TemplateInv, CustomIsATemplate

LEMMA PreviewTells ==
  ASSUME TemplateInv, NEW payload \in Write!Payloads, Write!Preview(payload)
  PROVE  TemplateInv'
  <1> DEFINE steps == Write!Loaded.steps
             plan == Write!Compiled(Write!Loaded, payload)
             parts == [i \in DOMAIN steps |->
                         [k \in DOMAIN Write!StatementsOf(steps[i]) |->
                            steps[i].op \in {"insert", "update_stub"}
                              \/ (steps[i].op = "ensure" /\ k = 1)]]
             list == Write!FlattenSeq([i \in DOMAIN steps |->
                       Write!Repeat(parts[i], Write!FanoutCount(steps[i], payload))])
             shown == Write!PreviewItems(Write!Loaded, payload)
  <1>1. /\ Write!Accepted(payload) /\ templateCustom' = templateCustom
        /\ templateRun' = [kind |-> "plan", payload |-> payload, statements |-> plan, items |-> shown]
    BY DEF Write!Preview
  <1>2. CustomIsATemplate
    BY DEF TemplateInv
  <1>3. /\ steps \in Seq(TemplateSteps) /\ DOMAIN steps = 1..Len(steps)
        /\ \A i \in 1..Len(steps) : steps[i] \in TemplateSteps
    BY <1>2, LoadedTyped, LenProperties, ElementOfSeq
  <1>4. \A i \in 1..Len(steps) :
          parts[i] \in Seq(BOOLEAN) /\ Alike(Write!StatementsOf(steps[i]), parts[i], Told)
    <2> HIDE DEF steps
    <2> QED BY <1>3, WritesOfAStep
  <1>5. DOMAIN parts = 1..Len(steps)
    BY <1>3
  <1>6. shown = IF Len(list) = Len(plan) THEN list ELSE [k \in DOMAIN plan |-> plan[k].op # "select"]
    <2>1. \A i \in DOMAIN steps : parts[i] =
            [k \in DOMAIN Write!StatementsOf(steps[i]) |->
               steps[i].op \in {"insert", "update_stub"} \/ (steps[i].op = "ensure" /\ k = 1)]
      OBVIOUS
    <2> HIDE DEF parts, plan
    <2> QED BY <2>1 DEF Write!PreviewItems, plan
  <1> HIDE DEF parts
  <1>7. /\ plan \in Seq(Statements) /\ list \in Seq(BOOLEAN)
        /\ Alike(plan, list, Told) \/ Len(plan) # Len(list)
    BY <1>1, <1>2, <1>4, <1>5, ListsOfARun
  <1> HIDE DEF plan, list, shown
  <1>8. shown = [k \in DOMAIN plan |-> plan[k].op # "select"]
    <2>1. CASE Len(list) = Len(plan)
      <3>1. \A k \in 1..Len(plan) : <<plan[k], list[k]>> \in Told
        BY <1>7, <2>1 DEF Alike
      <3>2. \A k \in 1..Len(plan) : list[k] = (plan[k].op # "select")
        BY <3>1 DEF Told
      <3>3. DOMAIN plan = 1..Len(plan) /\ list = [k \in 1..Len(plan) |-> list[k]]
        BY <1>7, <2>1, LenProperties
      <3> QED BY <1>6, <2>1, <3>2, <3>3
    <2>2. CASE Len(list) # Len(plan)
      BY <1>6, <2>2
    <2> QED BY <2>1, <2>2
  <1>9. /\ templateRun'.kind = "plan" /\ templateRun'.statements = plan /\ templateRun'.items = shown
    BY <1>1
  <1>10. Write!EveryReferenceIsReplaced'
    BY <1>8, <1>9 DEF Write!EveryReferenceIsReplaced
  <1> QED BY <1>1, <1>2, <1>10 DEF TemplateInv, CustomIsATemplate

LEMMA TemplateStep == TemplateInv /\ [Write!Next]_templateVars => TemplateInv'
  <1> SUFFICES ASSUME TemplateInv, [Write!Next]_templateVars PROVE TemplateInv'
    OBVIOUS
  <1>1. ASSUME Write!RemoveTemplate PROVE TemplateInv'
    <2>1. templateCustom' = {} /\ templateRun'.kind = "none"
      BY <1>1 DEF Write!RemoveTemplate, Write!NoRun
    <2> QED BY <2>1 DEF TemplateInv, CustomIsATemplate, Write!EveryReferenceIsReplaced
  <1>2. ASSUME NEW template \in Write!Templates, Write!SaveTemplate(template) PROVE TemplateInv'
    <2>1. templateCustom' = {template} /\ templateRun'.kind = "none"
      BY <1>2 DEF Write!SaveTemplate, Write!NoRun
    <2> QED BY <2>1 DEF TemplateInv, CustomIsATemplate, Write!EveryReferenceIsReplaced
  <1>3. ASSUME NEW payload \in Write!Payloads, Write!Apply(payload) PROVE TemplateInv'
    BY <1>3, ApplyReplaces
  <1>4. ASSUME NEW payload \in Write!Payloads, Write!Preview(payload) PROVE TemplateInv'
    BY <1>4, PreviewTells
  <1>5. CASE UNCHANGED templateVars
    BY <1>5 DEF templateVars, TemplateInv, CustomIsATemplate, Write!EveryReferenceIsReplaced,
       Write!Loaded
  <1> QED BY <1>1, <1>2, <1>3, <1>4, <1>5 DEF Write!Next

(* A run that is accepted puts the captured id for every reference and     *)
(* leaves every other bind, and a preview tells rightly what writes, for   *)
(* any template and payload (compile_plan, _compiled_step_metadata,        *)
(* _substituted_binds, _compiled_step_items).                              *)
THEOREM ReferencesHold == ProfileSpec => []EveryReferenceIsReplaced
  <1>1. TemplateInv => EveryReferenceIsReplaced
    BY DEF TemplateInv, EveryReferenceIsReplaced
  <1>2. ProfileInit => TemplateInv
    BY TemplateInit DEF ProfileInit
  <1> QED BY <1>1, <1>2, TemplateStep, PartsRun, PTL DEF ProfileSpec

-----------------------------------------------------------------------------
(* Privacy.  Marks are put for names that were said, one name after the    *)
(* other; a text stays faithful to what was said.                          *)

Registered == UNION {{list[n] : n \in DOMAIN list} : list \in EntryLists}
Matches == {e.match : e \in Registered}
Marks == {Private!Hidden} \cup {<<m, 1>> : m \in Matches} \cup {<<m, 2>> : m \in Matches}
Text == Seq(Vocabulary \cup Marks)

\* What a placeholder restores to; the map that does so for some of them.
ShownAs(m) == (CHOOSE e \in Registered : e.match = m).shown
Maps == {[m \in D |-> ShownAs(m)] : D \in SUBSET Matches}

IsWhole(t, i, m) == t[i] = <<m, 1>> /\ t[i + 1] = <<m, 2>>

\* In place of names of e there are marks, and nothing else is new.
Masks(t, u, e) ==
  /\ u \in Text /\ Len(u) = Len(t)
  /\ \A i \in 1..Len(t) : u[i] \in Vocabulary => u[i] = t[i]
  /\ \A i \in 1..(Len(t) - 1) : \A m \in Matches : IsWhole(u, i, m) =>
       \/ IsWhole(t, i, m)
       \/ e.mode = "reversible" /\ m = e.match /\ <<t[i], t[i + 1]>> \in e.names

\* No mark is said, and marks are told apart.
LEMMA MarksAreNew ==
  /\ \A x \in Marks : x \notin Vocabulary
  /\ \A m, k \in Matches : /\ <<m, 1>> # <<k, 2>> /\ <<m, 1>> # Private!Hidden /\ <<m, 2>> # Private!Hidden
                           /\ (<<m, 1>> = <<k, 1>> => m = k) /\ (<<m, 2>> = <<k, 2>> => m = k)
  <1>1. ASSUME NEW m \in Matches PROVE <<m, 1>> \notin Vocabulary /\ <<m, 2>> \notin Vocabulary
    <2>1. PICK e \in Registered : m = e.match
      BY DEF Matches
    <2> QED BY <2>1, PrivacyAssumption DEF Registered
  <1>2. Private!Hidden \notin Vocabulary
    BY PrivacyAssumption DEF Private!Hidden
  <1>3. \A x \in Marks : x \notin Vocabulary
    BY <1>1, <1>2 DEF Marks
  <1>4. \A m : <<m, 1>> # Private!Hidden /\ <<m, 2>> # Private!Hidden
    BY DEF Private!Hidden
  <1>5. \A m, k : /\ <<m, 1>> # <<k, 2>>
                  /\ (<<m, 1>> = <<k, 1>> => m = k) /\ (<<m, 2>> = <<k, 2>> => m = k)
    OBVIOUS
  <1> QED BY <1>3, <1>4, <1>5

LEMMA EntryOfList ==
  ASSUME NEW list \in Seq(Registered), NEW n \in 1..Len(list)
  PROVE  /\ list[n] \in Registered /\ list[n].match \in Matches
         /\ list[n].mode \in {"reversible", "oneway"}
         /\ list[n].names \subseteq Vocabulary \X Vocabulary
  <1>1. list[n] \in Registered
    BY ElementOfSeq
  <1> QED BY <1>1, PrivacyAssumption DEF Registered, Matches

\* Two tokens of a text are replaced.
Replaced(t, k, a, b) == SubSeq(t, 1, k - 1) \o <<a, b>> \o SubSeq(t, k + 2, Len(t))
LEMMA PairReplaced ==
  ASSUME NEW S, NEW t \in Seq(S), NEW k \in 1..(Len(t) - 1), NEW a \in S, NEW b \in S
  PROVE  /\ Replaced(t, k, a, b) \in Seq(S) /\ Len(Replaced(t, k, a, b)) = Len(t)
         /\ Replaced(t, k, a, b)[k] = a /\ Replaced(t, k, a, b)[k + 1] = b
         /\ \A i \in 1..Len(t) : i # k /\ i # k + 1 => Replaced(t, k, a, b)[i] = t[i]
  <1> DEFINE l == SubSeq(t, 1, k - 1)
             r == SubSeq(t, k + 2, Len(t))
             u == l \o <<a, b>> \o r
  <1>1. Len(t) \in Nat /\ k \in Nat /\ k >= 1 /\ k + 1 <= Len(t)
    OBVIOUS
  <1>2. l \in Seq(S) /\ Len(l) = k - 1 /\ \A i \in 1..(k - 1) : l[i] = t[i]
    <2>1. k - 1 \in 0..Len(t)
      BY <1>1
    <2>2. \A i \in 1..(k - 1) : i \in 1..Len(t)
      BY <1>1
    <2> QED BY <1>1, <2>1, <2>2, SubSeqProperties
  <1>3. r \in Seq(S) /\ Len(r) = Len(t) - k - 1
        /\ \A i \in 1..(Len(t) - k - 1) : r[i] = t[i + k + 1]
    <2>1. CASE k + 2 <= Len(t)
      <3>1. \A i \in (k + 2)..Len(t) : i \in 1..Len(t)
        BY <1>1
      <3>2. r = [i \in 1..(Len(t) - (k + 2) + 1) |-> t[i + (k + 2) - 1]]
        BY <1>1
      <3> QED BY <1>1, <2>1, <3>2
    <2>2. CASE k + 2 > Len(t)
      <3>1. r = <<>> /\ Len(t) - k - 1 = 0
        BY <1>1, <2>2
      <3> QED BY <3>1
    <2> QED BY <1>1, <2>1, <2>2
  <1> HIDE DEF l, r
  <1> DEFINE h == l \o <<a, b>>
  <1>4. /\ h \in Seq(S) /\ Len(h) = k + 1 /\ h[k] = a /\ h[k + 1] = b
        /\ \A i \in 1..(k - 1) : h[i] = t[i]
    <2> DEFINE c == <<a, b>>
    <2>1. c \in Seq(S) /\ Len(c) = 2 /\ c[1] = a /\ c[2] = b
      OBVIOUS
    <2> HIDE DEF c
    <2>2. h \in Seq(S) /\ Len(h) = k + 1
      BY <1>1, <1>2, <2>1 DEF c
    <2>3. \A i \in 1..(k + 1) : h[i] = IF i <= k - 1 THEN l[i] ELSE c[i - (k - 1)]
      BY <1>1, <1>2, <2>1, ConcatProperties DEF c
    <2>4. k - (k - 1) = 1 /\ k + 1 - (k - 1) = 2 /\ k \in 1..(k + 1) /\ k + 1 \in 1..(k + 1)
          /\ ~(k <= k - 1) /\ ~(k + 1 <= k - 1)
          /\ \A i \in 1..(k - 1) : i \in 1..(k + 1) /\ i <= k - 1
      BY <1>1
    <2> HIDE DEF h
    <2>5. h[k] = a /\ h[k + 1] = b
      BY <2>1, <2>3, <2>4
    <2>6. \A i \in 1..(k - 1) : h[i] = t[i]
      BY <1>2, <2>3, <2>4
    <2> QED BY <2>2, <2>5, <2>6
  <1> HIDE DEF h
  <1>5. u = h \o r /\ u \in Seq(S) /\ Len(u) = Len(t)
    <2>1. u = h \o r
      BY DEF h
    <2>2. h \o r \in Seq(S) /\ Len(h \o r) = Len(h) + Len(r)
      BY ONLY <1>3, <1>4, ConcatProperties
    <2>3. Len(h) + Len(r) = Len(t)
      BY ONLY <1>1, <1>3, <1>4
    <2> QED BY <2>1, <2>2, <2>3
  <1>6. \A i \in 1..(k + 1) : u[i] = h[i]
    BY <1>1, <1>3, <1>4, <1>5
  <1>7. \A i \in (k + 2)..Len(t) : u[i] = r[i - k - 1]
    BY <1>1, <1>3, <1>4, <1>5
  <1>8. \A i \in (k + 2)..Len(t) : i - k - 1 \in 1..(Len(t) - k - 1) /\ (i - k - 1) + k + 1 = i
    BY <1>1
  <1>9. \A i \in (k + 2)..Len(t) : u[i] = t[i]
    <2> SUFFICES ASSUME NEW i \in (k + 2)..Len(t) PROVE u[i] = t[i]
      OBVIOUS
    <2>1. r[i - k - 1] = t[(i - k - 1) + k + 1]
      BY <1>3, <1>8
    <2> QED BY <1>7, <1>8, <2>1
  <1>10. \A i \in 1..Len(t) : i # k /\ i # k + 1 => i \in 1..(k - 1) \/ i \in (k + 2)..Len(t)
    BY <1>1
  <1>11. k \in 1..(k + 1) /\ k + 1 \in 1..(k + 1) /\ \A i \in 1..(k - 1) : i \in 1..(k + 1)
    BY <1>1
  <1> HIDE DEF u
  <1> QED BY <1>4, <1>5, <1>6, <1>9, <1>10, <1>11 DEF u, h, l, r, Replaced

LEMMA EntryIsSound ==
  ASSUME NEW e \in Registered
  PROVE  /\ e.match \in Matches /\ e.mode \in {"reversible", "oneway"}
         /\ \A x \in e.names : x[1] \in Vocabulary /\ x[2] \in Vocabulary
  BY PrivacyAssumption DEF Registered, Matches

\* What _apply puts in place of a name.
MarkOf(e, half) == IF e.mode = "oneway" THEN Private!Hidden ELSE <<e.match, half>>
PutAt(e, t, k) ==
  IF <<t[k], t[k + 1]>> \in e.names
  THEN Replaced(t, k, MarkOf(e, 1), MarkOf(e, 2))
  ELSE t

LEMMA OneMasked ==
  ASSUME NEW e \in Registered, NEW t \in Text, NEW u, Masks(t, u, e),
         NEW k \in 1..(Len(t) - 1),
         \A i \in 1..(k - 1) : <<u[i], u[i + 1]>> \notin e.names
  PROVE  /\ Masks(t, PutAt(e, u, k), e)
         /\ \A i \in 1..k : <<PutAt(e, u, k)[i], PutAt(e, u, k)[i + 1]>> \notin e.names
  <1> DEFINE v == PutAt(e, u, k)
             a == MarkOf(e, 1)
             b == MarkOf(e, 2)
  <1>1. /\ u \in Text /\ Len(u) = Len(t)
        /\ \A i \in 1..Len(t) : u[i] \in Vocabulary => u[i] = t[i]
        /\ \A i \in 1..(Len(t) - 1) : \A m \in Matches : IsWhole(u, i, m) =>
             \/ IsWhole(t, i, m)
             \/ e.mode = "reversible" /\ m = e.match /\ <<t[i], t[i + 1]>> \in e.names
    BY DEF Masks
  <1>2. \A i \in 1..k : i \in 1..(k - 1) \/ i = k
    OBVIOUS
  <1>3. CASE <<u[k], u[k + 1]>> \notin e.names
    <2>1. PutAt(e, u, k) = u
      BY <1>3 DEF PutAt
    <2>2. \A i \in 1..k : <<u[i], u[i + 1]>> \notin e.names
      BY <1>2, <1>3
    <2> QED BY <2>1, <2>2
  <1>4. CASE <<u[k], u[k + 1]>> \in e.names
    <2>1. /\ a \in Marks /\ b \in Marks
          /\ \A m \in Matches : a # <<m, 2>> /\ b # <<m, 1>>
          /\ \A m \in Matches : a = <<m, 1>> => e.mode = "reversible" /\ m = e.match
      <3>1. e.match \in Matches /\ e.mode \in {"reversible", "oneway"}
        BY EntryIsSound
      <3> QED BY <3>1, MarksAreNew DEF MarkOf, Marks
    <2>2. a \notin Vocabulary /\ b \notin Vocabulary
      BY <2>1, MarksAreNew
    <2>3. v = Replaced(u, k, a, b)
      BY <1>4 DEF PutAt
    <2>4. k \in 1..(Len(u) - 1)
      BY <1>1
    <2> HIDE DEF a, b, v
    <2>5. /\ v \in Text /\ Len(v) = Len(t) /\ v[k] = a /\ v[k + 1] = b
          /\ \A i \in 1..Len(t) : i # k /\ i # k + 1 => v[i] = u[i]
      <3> DEFINE S == Vocabulary \cup Marks
      <3>1. a \in S /\ b \in S /\ u \in Seq(S) /\ Text = Seq(S)
        BY <1>1, <2>1 DEF Text
      <3> HIDE DEF S
      <3>2. /\ v \in Seq(S) /\ Len(v) = Len(u) /\ v[k] = a /\ v[k + 1] = b
            /\ \A i \in 1..Len(u) : i # k /\ i # k + 1 => v[i] = u[i]
        <4> DEFINE r == Replaced(u, k, a, b)
        <4>1. u \in Seq(S) /\ k \in 1..(Len(u) - 1) /\ a \in S /\ b \in S
          BY <2>4, <3>1
        <4>2. /\ r \in Seq(S) /\ Len(r) = Len(u) /\ r[k] = a /\ r[k + 1] = b
              /\ \A i \in 1..Len(u) : i # k /\ i # k + 1 => r[i] = u[i]
          BY ONLY <4>1, PairReplaced
        <4> QED BY <2>3, <4>2
      <3> QED BY <1>1, <3>1, <3>2
    <2>6. \A i \in 1..Len(t) : v[i] \in Vocabulary => v[i] = t[i]
      BY <1>1, <2>2, <2>5
    <2>7. t[k] = u[k] /\ t[k + 1] = u[k + 1]
      <3>1. u[k] \in Vocabulary /\ u[k + 1] \in Vocabulary
        BY <1>4, EntryIsSound
      <3>2. k \in 1..Len(t) /\ k + 1 \in 1..Len(t)
        BY <1>1
      <3> QED BY <1>1, <3>1, <3>2
    <2>8. ASSUME NEW i \in 1..(Len(t) - 1), NEW m \in Matches, IsWhole(v, i, m)
          PROVE  \/ IsWhole(t, i, m)
                 \/ e.mode = "reversible" /\ m = e.match /\ <<t[i], t[i + 1]>> \in e.names
      <3>1. i # k + 1 /\ i + 1 # k
        BY <2>1, <2>5, <2>8 DEF IsWhole
      <3>2. CASE i = k
        BY <1>4, <2>1, <2>5, <2>7, <2>8, <3>2 DEF IsWhole
      <3>3. CASE i # k
        <4>1. i \in 1..Len(t) /\ i + 1 \in 1..Len(t) /\ i + 1 # k + 1
          BY <1>1, <3>3
        <4>2. v[i] = u[i] /\ v[i + 1] = u[i + 1]
          BY <2>5, <3>1, <3>3, <4>1
        <4>3. IsWhole(u, i, m)
          BY <2>8, <4>2 DEF IsWhole
        <4> QED BY <1>1, <4>3
      <3> QED BY <3>2, <3>3
    <2>9. ASSUME NEW i \in 1..k PROVE <<v[i], v[i + 1]>> \notin e.names
      <3>1. \A x, y : x \notin Vocabulary => <<x, y>> \notin e.names
        BY EntryIsSound
      <3>2. \A x, y : y \notin Vocabulary => <<x, y>> \notin e.names
        BY EntryIsSound
      <3>3. CASE i = k
        BY <2>2, <2>5, <3>1, <3>3
      <3>4. CASE i + 1 = k
        BY <2>2, <2>5, <3>2, <3>4
      <3>5. CASE i # k /\ i + 1 # k
        <4>1. i \in 1..Len(t) /\ i + 1 \in 1..Len(t) /\ i + 1 # k + 1 /\ i # k + 1 /\ i \in 1..(k - 1)
          BY <1>1, <3>5
        <4>2. v[i] = u[i] /\ v[i + 1] = u[i + 1]
          BY <2>5, <3>5, <4>1
        <4> QED BY <4>1, <4>2
      <3> QED BY <3>3, <3>4, <3>5
    <2> QED BY <2>5, <2>6, <2>8, <2>9 DEF Masks, v
  <1> QED BY <1>3, <1>4

LEMMA HasGreatest ==
  ASSUME NEW n \in Nat, NEW s \in SUBSET (1..n), s # {}
  PROVE  Private!Max(s) \in s /\ \A y \in s : Private!Max(s) >= y
  <1>1. Private!Max(s) = Journal!Max(s)
    BY Zenon DEF Private!Max, Journal!Max
  <1>2. Journal!Max(s) \in s /\ \A y \in s : y <= Journal!Max(s)
    BY LastOne
  <1> QED BY <1>1, <1>2

LEMMA LastOfRange ==
  ASSUME NEW n \in Nat, NEW k \in 1..n
  PROVE  /\ 1..k \in SUBSET (1..n) /\ 1..k # {} /\ Private!Max(1..k) = k
         /\ (1..k) \ {k} = 1..(k - 1) /\ 1..(k - 1) \in SUBSET (1..n)
  <1>1. 1..k \in SUBSET (1..n) /\ 1..k # {} /\ (1..k) \ {k} = 1..(k - 1) /\ k \in 1..k
        /\ 1..(k - 1) \in SUBSET (1..n)
    OBVIOUS
  <1>2. Private!Max(1..k) \in 1..k /\ Private!Max(1..k) >= k
    BY <1>1, HasGreatest
  <1> QED BY <1>1, <1>2

\* _apply is a fold over the places of the text.
Places(t) == [i \in 1..(Len(t) - 1) |-> i]
AppliesTo(it, e, t) ==
  it = [s \in SUBSET DOMAIN Places(t) |->
          IF s = {} THEN t ELSE PutAt(e, it[s \ {Private!Max(s)}], Places(t)[Private!Max(s)])]

LEMMA ApplyIsAFold ==
  ASSUME NEW list \in Seq(Registered), NEW n \in 1..Len(list), NEW t \in Text
  PROVE  Private!Apply(list, n, t) = (CHOOSE it : AppliesTo(it, list[n], t))[DOMAIN Places(t)]
  BY DEF Private!Apply, Private!FoldLeft, Private!MapThenFoldSet, Private!Placeholder,
         AppliesTo, Places, PutAt, Replaced, MarkOf

LEMMA ApplyExists ==
  ASSUME NEW e \in Registered, NEW t \in Text
  PROVE  \E it : AppliesTo(it, e, t)
  <1> DEFINE S == 1..(Len(t) - 1)
             V == {v \in Text : Len(v) = Len(t)}
             step == [i \in S |-> [v \in V |-> PutAt(e, v, i)]]
             pick == [s \in SUBSET S |-> Private!Max(s)]
             n == IF Len(t) = 0 THEN 0 ELSE Len(t) - 1
  <1>1. n \in Nat /\ S = 1..n /\ IsFiniteSet(S)
    <2>1. Len(t) \in Nat
      BY DEF Text
    <2>2. n \in Nat /\ S = 1..n
      BY <2>1
    <2> QED BY <2>2, FS_Interval
  <1>2. DOMAIN Places(t) = S /\ \A i \in S : Places(t)[i] = i
    BY DEF Places
  <1>3. \A s \in SUBSET S : s # {} => pick[s] \in s
    BY <1>1, HasGreatest
  <1>4. ASSUME NEW i \in S, NEW v \in V PROVE PutAt(e, v, i) \in V
    <2> DEFINE tokens == Vocabulary \cup Marks
               a == MarkOf(e, 1)
               b == MarkOf(e, 2)
    <2>1. v \in Seq(tokens) /\ i \in 1..(Len(v) - 1) /\ a \in tokens /\ b \in tokens
      BY EntryIsSound DEF Text, MarkOf, Marks
    <2> HIDE DEF tokens, a, b
    <2>2. Replaced(v, i, a, b) \in Seq(tokens) /\ Len(Replaced(v, i, a, b)) = Len(v)
      BY ONLY <2>1, PairReplaced
    <2> QED BY <2>2 DEF PutAt, Text, tokens, a, b
  <1>5. t \in V /\ \A i \in S : \A v \in V : step[i][v] \in V
    BY <1>4
  <1> HIDE DEF step, pick, V, S
  <1>6. HasFold(S, V, t, step, pick)
    BY <1>1, <1>3, <1>5, FoldExists
  <1>7. PICK it : it \in [SUBSET S -> V] /\ IsFold(it, S, t, step, pick)
    BY <1>6 DEF HasFold
  <1>8. ASSUME NEW s \in SUBSET S
        PROVE  it[s] = IF s = {} THEN t
                       ELSE PutAt(e, it[s \ {Private!Max(s)}], Places(t)[Private!Max(s)])
    <2>1. CASE s = {}
      BY <1>7, <2>1 DEF IsFold
    <2>2. CASE s # {}
      <3> DEFINE x == Private!Max(s)
                 w == it[s \ {x}]
      <3>1. x = pick[s]
        BY DEF pick
      <3>2. x \in s /\ x \in S /\ s \ {x} \in SUBSET S
        BY <1>3, <2>2, <3>1
      <3>3. w \in V
        BY <1>7, <3>2
      <3>4. it[s] = step[x][w]
        BY <1>7, <2>2, <3>1 DEF IsFold
      <3>5. step[x][w] = PutAt(e, w, x)
        BY <3>2, <3>3 DEF step
      <3>6. Places(t)[x] = x
        BY <1>2, <3>2
      <3> QED BY <2>2, <3>4, <3>5, <3>6
    <2> QED BY <2>1, <2>2
  <1>9. it = [s \in SUBSET S |-> it[s]]
    BY <1>7
  <1>10. it = [s \in SUBSET S |->
                IF s = {} THEN t
                ELSE PutAt(e, it[s \ {Private!Max(s)}], Places(t)[Private!Max(s)])]
    BY <1>8, <1>9
  <1>11. AppliesTo(it, e, t)
    BY Zenon, <1>2, <1>10 DEF AppliesTo
  <1> QED BY <1>11

(* An entry leaves marks in place of its names and none of them.           *)
LEMMA ApplyMasks ==
  ASSUME NEW list \in Seq(Registered), NEW n \in 1..Len(list), NEW t \in Text
  PROVE  /\ Masks(t, Private!Apply(list, n, t), list[n])
         /\ \A i \in 1..(Len(t) - 1) :
              <<Private!Apply(list, n, t)[i], Private!Apply(list, n, t)[i + 1]>> \notin list[n].names
  <1> DEFINE e == list[n]
             it == CHOOSE it : AppliesTo(it, e, t)
             last == IF Len(t) = 0 THEN 0 ELSE Len(t) - 1
             Good(k) == /\ Masks(t, it[1..k], e)
                        /\ \A i \in 1..k : <<it[1..k][i], it[1..k][i + 1]>> \notin e.names
  <1>1. e \in Registered
    BY EntryOfList
  <1>2. AppliesTo(it, e, t)
    BY <1>1, ApplyExists
  <1>3. Private!Apply(list, n, t) = it[DOMAIN Places(t)]
    BY ApplyIsAFold
  <1> HIDE DEF e, it
  <1>4. last \in Nat /\ 1..(Len(t) - 1) = 1..last /\ DOMAIN Places(t) = 1..last
    <2>1. Len(t) \in Nat
      BY DEF Text
    <2>2. 1..(Len(t) - 1) = 1..last
      BY <2>1
    <2> QED BY <2>1, <2>2 DEF Places
  <1>5. \A i \in 1..last : Places(t)[i] = i
    BY <1>4 DEF Places
  <1> HIDE DEF last
  <1>6. \A s \in SUBSET (1..last) :
          it[s] = IF s = {} THEN t ELSE PutAt(e, it[s \ {Private!Max(s)}], Places(t)[Private!Max(s)])
    BY <1>2, <1>4 DEF AppliesTo
  <1>7. Good(0)
    <2>1. 1..0 = {} /\ 1..0 \in SUBSET (1..last)
      OBVIOUS
    <2>2. it[1..0] = t
      BY <1>6, <2>1
    <2>3. Masks(t, t, e)
      BY DEF Masks
    <2> QED BY <2>1, <2>2, <2>3
  <1>8. ASSUME NEW k \in 1..last, Good(k - 1) PROVE Good(k)
    <2>1. it[1..k] = PutAt(e, it[1..(k - 1)], k)
      <3>1. /\ 1..k \in SUBSET (1..last) /\ 1..k # {} /\ Private!Max(1..k) = k
            /\ (1..k) \ {k} = 1..(k - 1)
        BY <1>4, LastOfRange
      <3> QED BY <1>5, <1>6, <3>1
    <2> DEFINE u == it[1..(k - 1)]
    <2>2. /\ Masks(t, u, e) /\ k \in 1..(Len(t) - 1)
          /\ \A i \in 1..(k - 1) : <<u[i], u[i + 1]>> \notin e.names
      BY <1>4, <1>8
    <2> HIDE DEF u
    <2>3. /\ Masks(t, PutAt(e, u, k), e)
          /\ \A i \in 1..k : <<PutAt(e, u, k)[i], PutAt(e, u, k)[i + 1]>> \notin e.names
      BY <1>1, <2>2, OneMasked
    <2> QED BY <2>1, <2>3 DEF u
  <1>9. Good(last)
    <2> DEFINE B == {k \in 0..last : ~Good(k)}
    <2> HIDE DEF Good
    <2>1. SUFFICES ASSUME B # {} PROVE FALSE
      BY <1>4
    <2>2. PICK k \in B : \A j \in B : k <= j
      <3>1. B \subseteq Nat
        OBVIOUS
      <3> HIDE DEF B
      <3> QED BY <2>1, <3>1, HasLeast
    <2>3. k # 0 /\ k \in 0..last /\ ~Good(k)
      BY <1>7, <2>2
    <2>4. k \in 1..last /\ k - 1 \in 0..last /\ ~(k <= k - 1)
      BY <1>4, <2>3
    <2>5. Good(k - 1)
      BY <2>2, <2>4
    <2> QED BY <1>8, <2>3, <2>4, <2>5
  <1> QED BY <1>3, <1>4, <1>9 DEF e

(* A text that shows nothing but what was said, also where placeholders    *)
(* are restored; and one of which a map knows the placeholders.            *)
Faithful(t, said) ==
  /\ t \in Text /\ Len(t) <= Len(said)
  /\ \A i \in 1..Len(t) : t[i] \in Vocabulary => t[i] = said[i]
  /\ \A i \in 1..(Len(t) - 1) : \A m \in Matches : IsWhole(t, i, m) =>
       /\ ShownAs(m)[1] \in Vocabulary => ShownAs(m)[1] = said[i]
       /\ ShownAs(m)[2] \in Vocabulary => ShownAs(m)[2] = said[i + 1]

Knows(t, D) == \A i \in 1..(Len(t) - 1) : \A m \in Matches : IsWhole(t, i, m) => m \in D

LEMMA ShownIsOne ==
  ASSUME NEW e \in Registered PROVE ShownAs(e.match) = e.shown
  <1> DEFINE f == CHOOSE f \in Registered : f.match = e.match
  <1>1. f \in Registered /\ f.match = e.match
    OBVIOUS
  <1>2. f.shown = e.shown
    BY <1>1, PrivacyAssumption DEF Registered
  <1> QED BY <1>2 DEF ShownAs

LEMMA MaskedIsFaithful ==
  ASSUME NEW e \in Registered, NEW said, NEW t, Faithful(t, said), NEW u, Masks(t, u, e)
  PROVE  Faithful(u, said)
  <1>1. /\ t \in Text /\ Len(t) <= Len(said)
        /\ \A i \in 1..Len(t) : t[i] \in Vocabulary => t[i] = said[i]
        /\ \A i \in 1..(Len(t) - 1) : \A m \in Matches : IsWhole(t, i, m) =>
             /\ ShownAs(m)[1] \in Vocabulary => ShownAs(m)[1] = said[i]
             /\ ShownAs(m)[2] \in Vocabulary => ShownAs(m)[2] = said[i + 1]
    BY DEF Faithful
  <1>2. /\ u \in Text /\ Len(u) = Len(t)
        /\ \A i \in 1..Len(t) : u[i] \in Vocabulary => u[i] = t[i]
        /\ \A i \in 1..(Len(t) - 1) : \A m \in Matches : IsWhole(u, i, m) =>
             \/ IsWhole(t, i, m)
             \/ e.mode = "reversible" /\ m = e.match /\ <<t[i], t[i + 1]>> \in e.names
    BY DEF Masks
  <1>3. \A i \in 1..Len(u) : u[i] \in Vocabulary => u[i] = said[i]
    BY <1>1, <1>2
  <1>4. ASSUME NEW i \in 1..(Len(u) - 1), NEW m \in Matches, IsWhole(u, i, m)
        PROVE  /\ ShownAs(m)[1] \in Vocabulary => ShownAs(m)[1] = said[i]
               /\ ShownAs(m)[2] \in Vocabulary => ShownAs(m)[2] = said[i + 1]
    <2>1. CASE IsWhole(t, i, m)
      BY <1>1, <1>2, <2>1
    <2>2. CASE e.mode = "reversible" /\ m = e.match /\ <<t[i], t[i + 1]>> \in e.names
      <3>1. i \in 1..Len(t) /\ i + 1 \in 1..Len(t)
        BY <1>1, <1>2 DEF Text
      <3>2. t[i] \in Vocabulary /\ t[i + 1] \in Vocabulary
        BY <2>2, EntryIsSound
      <3>3. t[i] = said[i] /\ t[i + 1] = said[i + 1]
        BY <1>1, <3>1, <3>2
      <3>4. \/ e.names = {<<e.shown[1], e.shown[2]>>}
            \/ e.shown[1] \notin Vocabulary /\ e.shown[2] \notin Vocabulary
        BY <2>2, PrivacyAssumption DEF Registered
      <3>5. e.names = {<<e.shown[1], e.shown[2]>>} => t[i] = e.shown[1] /\ t[i + 1] = e.shown[2]
        BY <2>2
      <3>6. ShownAs(m) = e.shown
        BY <2>2, ShownIsOne
      <3> QED BY <3>3, <3>4, <3>5, <3>6
    <2> QED BY <1>2, <1>4, <2>1, <2>2
  <1>5. Len(u) <= Len(said)
    BY <1>1, <1>2
  <1> QED BY <1>2, <1>3, <1>4, <1>5 DEF Faithful

LEMMA MaskedIsKnown ==
  ASSUME NEW e \in Registered, NEW t, NEW u, Masks(t, u, e), NEW D, Knows(t, D)
  PROVE  /\ Knows(u, D \cup {e.match})
         /\ u = t \/ e.mode # "reversible" => Knows(u, D)
  <1>1. /\ Len(u) = Len(t)
        /\ \A i \in 1..(Len(t) - 1) : \A m \in Matches : IsWhole(u, i, m) =>
             \/ IsWhole(t, i, m)
             \/ e.mode = "reversible" /\ m = e.match /\ <<t[i], t[i + 1]>> \in e.names
    BY DEF Masks
  <1> QED BY <1>1 DEF Knows

LEMMA MapsAreJoined ==
  /\ \A a, b \in Maps : Private!Updated(a, b) \in Maps
                        /\ DOMAIN Private!Updated(a, b) = DOMAIN a \cup DOMAIN b
  /\ \A e \in Registered : [m \in {e.match} |-> e.shown] \in Maps
  /\ \A a \in Maps : DOMAIN a \subseteq Matches /\ \A m \in DOMAIN a : a[m] = ShownAs(m)
  /\ <<>> \in Maps
  <1>1. \A a \in Maps : DOMAIN a \subseteq Matches /\ a = [m \in DOMAIN a |-> ShownAs(m)]
    BY DEF Maps
  <1>2. \A D \in SUBSET Matches : [m \in D |-> ShownAs(m)] \in Maps
    BY DEF Maps
  <1>3. ASSUME NEW a \in Maps, NEW b \in Maps
        PROVE  Private!Updated(a, b) \in Maps
               /\ DOMAIN Private!Updated(a, b) = DOMAIN a \cup DOMAIN b
    <2>1. Private!Updated(a, b) = [m \in DOMAIN b \cup DOMAIN a |-> ShownAs(m)]
      <3>1. \A m \in DOMAIN b \cup DOMAIN a : (IF m \in DOMAIN b THEN b[m] ELSE a[m]) = ShownAs(m)
        BY <1>1
      <3> QED BY <3>1 DEF Private!Updated
    <2>2. DOMAIN b \cup DOMAIN a \in SUBSET Matches
      BY <1>1
    <2> QED BY <1>2, <2>1, <2>2
  <1>4. ASSUME NEW e \in Registered PROVE [m \in {e.match} |-> e.shown] \in Maps
    <2>1. [m \in {e.match} |-> e.shown] = [m \in {e.match} |-> ShownAs(m)]
      BY ShownIsOne
    <2>2. {e.match} \in SUBSET Matches
      BY EntryIsSound
    <2> QED BY <1>2, <2>1, <2>2
  <1>5. <<>> \in Maps
    <2>1. <<>> = [m \in {} |-> ShownAs(m)]
      OBVIOUS
    <2> QED BY <1>2, <2>1
  <1> QED BY <1>1, <1>3, <1>4, <1>5

\* pseudonymize_text is a fold over the entries.
Numbers(list) == [n \in DOMAIN list |-> n]
AddTo(list, acc, n) ==
  LET applied == Private!Apply(list, n, acc.text) IN
  [text |-> applied,
   updates |-> IF applied # acc.text /\ list[n].mode = "reversible"
               THEN Private!Updated(acc.updates, [m \in {list[n].match} |-> list[n].shown])
               ELSE acc.updates]
Pseudonymizes(it, list, t) ==
  it = [s \in SUBSET DOMAIN Numbers(list) |->
          IF s = {} THEN [text |-> t, updates |-> <<>>]
          ELSE AddTo(list, it[s \ {Private!Max(s)}], Numbers(list)[Private!Max(s)])]
Accs == [text : Text, updates : Maps]

LEMMA PseudonymizeIsAFold ==
  ASSUME NEW list \in Seq(Registered), NEW t \in Text
  PROVE  Private!Pseudonymize(list, t) =
           (CHOOSE it : Pseudonymizes(it, list, t))[DOMAIN Numbers(list)]
  BY DEF Private!Pseudonymize, Private!FoldLeft, Private!MapThenFoldSet, Private!Placeholder,
         Pseudonymizes, Numbers, AddTo

LEMMA AddToTyped ==
  ASSUME NEW list \in Seq(Registered), NEW n \in 1..Len(list), NEW acc \in Accs
  PROVE  AddTo(list, acc, n) \in Accs
  <1>1. acc.text \in Text /\ acc.updates \in Maps
    BY DEF Accs
  <1>2. Private!Apply(list, n, acc.text) \in Text
    BY <1>1, ApplyMasks DEF Masks
  <1>3. [m \in {list[n].match} |-> list[n].shown] \in Maps
    BY EntryOfList, MapsAreJoined
  <1>4. Private!Updated(acc.updates, [m \in {list[n].match} |-> list[n].shown]) \in Maps
    BY <1>1, <1>3, MapsAreJoined
  <1> QED BY <1>1, <1>2, <1>4 DEF AddTo, Accs

LEMMA PseudonymizeExists ==
  ASSUME NEW list \in Seq(Registered), NEW t \in Text
  PROVE  \E it : Pseudonymizes(it, list, t)
  <1> DEFINE S == 1..Len(list)
             base == [text |-> t, updates |-> <<>>]
             step == [n \in S |-> [v \in Accs |-> AddTo(list, v, n)]]
             pick == [s \in SUBSET S |-> Private!Max(s)]
             size == Len(list)
  <1>1. size \in Nat /\ S = 1..size /\ IsFiniteSet(S)
    <2>1. size \in Nat /\ S = 1..size
      OBVIOUS
    <2> QED BY <2>1, FS_Interval
  <1>2. DOMAIN Numbers(list) = S /\ \A n \in S : Numbers(list)[n] = n
    BY DEF Numbers
  <1>3. \A s \in SUBSET S : s # {} => pick[s] \in s
    BY <1>1, HasGreatest
  <1>4. base \in Accs /\ \A n \in S : \A v \in Accs : step[n][v] \in Accs
    BY AddToTyped, MapsAreJoined DEF Accs
  <1> HIDE DEF base, step, pick, S, size
  <1>5. HasFold(S, Accs, base, step, pick)
    BY <1>1, <1>3, <1>4, FoldExists
  <1>6. PICK it : it \in [SUBSET S -> Accs] /\ IsFold(it, S, base, step, pick)
    BY <1>5 DEF HasFold
  <1>7. ASSUME NEW s \in SUBSET S
        PROVE  it[s] = IF s = {} THEN base
                       ELSE AddTo(list, it[s \ {Private!Max(s)}], Numbers(list)[Private!Max(s)])
    <2>1. CASE s = {}
      BY <1>6, <2>1 DEF IsFold
    <2>2. CASE s # {}
      <3> DEFINE x == Private!Max(s)
                 w == it[s \ {x}]
      <3>1. x = pick[s]
        BY DEF pick
      <3>2. x \in s /\ x \in S /\ s \ {x} \in SUBSET S
        BY <1>3, <2>2, <3>1
      <3>3. w \in Accs
        BY <1>6, <3>2
      <3>4. it[s] = step[x][w]
        BY <1>6, <2>2, <3>1 DEF IsFold
      <3>5. step[x][w] = AddTo(list, w, x)
        BY <3>2, <3>3 DEF step
      <3>6. Numbers(list)[x] = x
        BY <1>2, <3>2
      <3> QED BY <2>2, <3>4, <3>5, <3>6
    <2> QED BY <2>1, <2>2
  <1>8. it = [s \in SUBSET S |-> it[s]]
    BY <1>6
  <1>9. it = [s \in SUBSET S |->
                IF s = {} THEN base
                ELSE AddTo(list, it[s \ {Private!Max(s)}], Numbers(list)[Private!Max(s)])]
    BY <1>7, <1>8
  <1>10. Pseudonymizes(it, list, t)
    BY Zenon, <1>2, <1>9 DEF Pseudonymizes, base
  <1> QED BY <1>10

\* One entry more.
Faultless(acc, list, k, t, said, D) ==
  /\ acc \in Accs /\ Faithful(acc.text, said) /\ Len(acc.text) = Len(t)
  /\ \A i \in 1..Len(t) : acc.text[i] \in Vocabulary => acc.text[i] = t[i]
  /\ Knows(acc.text, D \cup DOMAIN acc.updates)
  /\ \A j \in 1..k : \A i \in 1..(Len(t) - 1) :
       <<acc.text[i], acc.text[i + 1]>> \notin list[j].names

LEMMA StaysFaultless ==
  ASSUME NEW list \in Seq(Registered), NEW k \in 1..Len(list), NEW t \in Text, NEW said, NEW D,
         NEW acc, Faultless(acc, list, k - 1, t, said, D)
  PROVE  Faultless(AddTo(list, acc, k), list, k, t, said, D)
  <1> DEFINE e == list[k]
             v == acc.text
             u == Private!Apply(list, k, v)
             new == AddTo(list, acc, k)
             one == [m \in {e.match} |-> e.shown]
  <1>1. /\ acc \in Accs /\ Faithful(v, said) /\ Len(v) = Len(t)
        /\ \A i \in 1..Len(t) : v[i] \in Vocabulary => v[i] = t[i]
        /\ Knows(v, D \cup DOMAIN acc.updates)
        /\ \A j \in 1..(k - 1) : \A i \in 1..(Len(t) - 1) : <<v[i], v[i + 1]>> \notin list[j].names
    BY DEF Faultless
  <1>2. e \in Registered /\ new \in Accs /\ new.text = u /\ v \in Text /\ acc.updates \in Maps
    BY <1>1, EntryOfList, AddToTyped DEF AddTo, Accs
  <1>3. Masks(v, u, e) /\ \A i \in 1..(Len(v) - 1) : <<u[i], u[i + 1]>> \notin e.names
    BY <1>2, ApplyMasks
  <1>4. new.updates = IF u # v /\ e.mode = "reversible" THEN Private!Updated(acc.updates, one)
                      ELSE acc.updates
    BY DEF AddTo
  <1>5. one \in Maps /\ DOMAIN one = {e.match}
    BY <1>2, MapsAreJoined
  <1>6. DOMAIN Private!Updated(acc.updates, one) = DOMAIN acc.updates \cup {e.match}
    BY <1>2, <1>5, MapsAreJoined
  <1> HIDE DEF e, u, new, one, v
  <1>7. Faithful(u, said)
    BY <1>1, <1>2, <1>3, MaskedIsFaithful
  <1>8. Len(u) = Len(t) /\ \A i \in 1..Len(t) : u[i] \in Vocabulary => u[i] = v[i]
    BY <1>1, <1>3 DEF Masks
  <1>9. Knows(u, D \cup DOMAIN new.updates)
    <2> DEFINE C == D \cup DOMAIN acc.updates
    <2>1. /\ Knows(u, C \cup {e.match})
          /\ u = v \/ e.mode # "reversible" => Knows(u, C)
      <3> HIDE DEF C
      <3>1. Knows(v, C)
        BY <1>1 DEF C
      <3> QED BY <1>2, <1>3, <3>1, MaskedIsKnown
    <2>2. CASE u # v /\ e.mode = "reversible"
      <3>1. D \cup DOMAIN new.updates = C \cup {e.match}
        BY <1>4, <1>6, <2>2
      <3> QED BY <2>1, <3>1
    <2>3. CASE ~(u # v /\ e.mode = "reversible")
      <3>1. D \cup DOMAIN new.updates = C
        BY <1>4, <2>3
      <3> QED BY <2>1, <2>3, <3>1
    <2> QED BY <2>2, <2>3
  <1>10. ASSUME NEW j \in 1..k, NEW i \in 1..(Len(t) - 1)
         PROVE  <<u[i], u[i + 1]>> \notin list[j].names
    <2>1. CASE j = k
      BY <1>1, <1>3, <2>1 DEF e
    <2>2. CASE j # k
      <3>1. j \in 1..(k - 1) /\ j \in 1..Len(list)
        BY <2>2
      <3>2. SUFFICES ASSUME <<u[i], u[i + 1]>> \in list[j].names PROVE FALSE
        OBVIOUS
      <3>3. u[i] \in Vocabulary /\ u[i + 1] \in Vocabulary
        BY <3>1, <3>2, EntryOfList
      <3>4. Len(t) \in Nat
        BY DEF Text
      <3>5. i \in 1..Len(t) /\ i + 1 \in 1..Len(t)
        BY <3>4
      <3>6. u[i] = v[i] /\ u[i + 1] = v[i + 1]
        BY <1>8, <3>3, <3>5
      <3> QED BY <1>1, <3>1, <3>2, <3>6
    <2> QED BY <2>1, <2>2
  <1>11. \A i \in 1..Len(t) : u[i] \in Vocabulary => u[i] = t[i]
    BY <1>1, <1>8
  <1>12. Faultless(new, list, k, t, said, D)
    BY <1>2, <1>7, <1>8, <1>9, <1>10, <1>11 DEF Faultless
  <1> QED BY <1>12 DEF new

(* No registered name is left, and what was put in its place is in the     *)
(* updates of the map.                                                     *)
LEMMA PseudonymsHold ==
  ASSUME NEW list \in Seq(Registered), NEW t, NEW said, Faithful(t, said), NEW D, Knows(t, D)
  PROVE  Faultless(Private!Pseudonymize(list, t), list, Len(list), t, said, D)
  <1> DEFINE it == CHOOSE it : Pseudonymizes(it, list, t)
             last == Len(list)
             Good(k) == Faultless(it[1..k], list, k, t, said, D)
  <1>1. t \in Text /\ last \in Nat
    BY DEF Faithful
  <1>2. Pseudonymizes(it, list, t)
    BY <1>1, PseudonymizeExists
  <1>3. Private!Pseudonymize(list, t) = it[DOMAIN Numbers(list)]
    BY <1>1, PseudonymizeIsAFold
  <1>4. DOMAIN Numbers(list) = 1..last /\ \A n \in 1..last : Numbers(list)[n] = n
    BY DEF Numbers
  <1> HIDE DEF it, last
  <1>5. \A s \in SUBSET (1..last) :
          it[s] = IF s = {} THEN [text |-> t, updates |-> <<>>]
                  ELSE AddTo(list, it[s \ {Private!Max(s)}], Numbers(list)[Private!Max(s)])
    BY <1>2, <1>4 DEF Pseudonymizes
  <1>6. Good(0)
    <2> DEFINE base == [text |-> t, updates |-> <<>>]
    <2>1. 1..0 = {} /\ 1..0 \in SUBSET (1..last)
      OBVIOUS
    <2>2. it[1..0] = base
      BY <1>5, <2>1
    <2>3. base \in Accs /\ base.text = t /\ D \cup DOMAIN base.updates = D
      BY <1>1, MapsAreJoined DEF Accs
    <2> HIDE DEF base
    <2>4. Knows(base.text, D \cup DOMAIN base.updates)
      BY Zenon, <2>3
    <2>5. Faultless(base, list, 0, t, said, D)
      BY <2>3, <2>4 DEF Faultless
    <2> QED BY <2>2, <2>5
  <1>7. ASSUME NEW k \in 1..last, Good(k - 1) PROVE Good(k)
    <2>1. it[1..k] = AddTo(list, it[1..(k - 1)], k)
      <3>1. /\ 1..k \in SUBSET (1..last) /\ 1..k # {} /\ Private!Max(1..k) = k
            /\ (1..k) \ {k} = 1..(k - 1)
        BY <1>1, LastOfRange
      <3> QED BY <1>4, <1>5, <3>1
    <2> DEFINE acc == it[1..(k - 1)]
    <2>2. Faultless(acc, list, k - 1, t, said, D) /\ k \in 1..Len(list)
      BY <1>7 DEF last
    <2> HIDE DEF acc
    <2>3. Faultless(AddTo(list, acc, k), list, k, t, said, D)
      BY <1>1, <2>2, StaysFaultless
    <2> QED BY <2>1, <2>3 DEF acc
  <1>8. Good(last)
    <2> DEFINE B == {k \in 0..last : ~Good(k)}
    <2> HIDE DEF Good
    <2>1. SUFFICES ASSUME B # {} PROVE FALSE
      BY <1>1
    <2>2. PICK k \in B : \A j \in B : k <= j
      <3>1. B \subseteq Nat
        OBVIOUS
      <3> HIDE DEF B
      <3> QED BY <2>1, <3>1, HasLeast
    <2>3. k # 0 /\ k \in 0..last /\ ~Good(k)
      BY <1>6, <2>2
    <2>4. k \in 1..last /\ k - 1 \in 0..last /\ ~(k <= k - 1)
      BY <1>1, <2>3
    <2>5. Good(k - 1)
      BY <2>2, <2>4
    <2> QED BY <1>7, <2>3, <2>4, <2>5
  <1> QED BY <1>3, <1>4, <1>8 DEF last

\* Fewer tokens, and hidden ones, show no more.
LEMMA PrefixHolds ==
  ASSUME NEW t \in Text, NEW n \in 0..Len(t), NEW said, NEW D
  PROVE  /\ SubSeq(t, 1, n) \in Text /\ Len(SubSeq(t, 1, n)) = n
         /\ \A i \in 1..n : SubSeq(t, 1, n)[i] = t[i]
         /\ Faithful(t, said) => Faithful(SubSeq(t, 1, n), said)
         /\ Knows(t, D) => Knows(SubSeq(t, 1, n), D)
         /\ Private!NothingRegisteredIsLeft(t) => Private!NothingRegisteredIsLeft(SubSeq(t, 1, n))
  <1> DEFINE u == SubSeq(t, 1, n)
  <1>1. Len(t) \in Nat /\ \A i \in 1..n : i \in 1..Len(t)
    BY DEF Text
  <1>2. u \in Text /\ Len(u) = n /\ \A i \in 1..n : u[i] = t[i]
    <2>1. \A i \in 1..n : t[i] \in Vocabulary \cup Marks
      BY <1>1 DEF Text
    <2> QED BY <1>1, <2>1, SubSeqProperties DEF Text
  <1> HIDE DEF u
  <1>3. /\ \A i \in 1..(n - 1) : /\ i \in 1..(Len(t) - 1) /\ i \in 1..n /\ i + 1 \in 1..n
                                 /\ u[i] = t[i] /\ u[i + 1] = t[i + 1]
        /\ DOMAIN u = 1..n /\ DOMAIN t = 1..Len(t)
    BY <1>1, <1>2 DEF Text
  <1>4. Faithful(t, said) => Faithful(u, said)
    <2>1. \A i \in 1..(n - 1) : \A m \in Matches : IsWhole(u, i, m) => IsWhole(t, i, m)
      BY <1>3 DEF IsWhole
    <2>2. Faithful(t, said) => n <= Len(said)
      BY <1>1 DEF Faithful
    <2> QED BY <1>1, <1>2, <1>3, <2>1, <2>2 DEF Faithful
  <1>5. Knows(t, D) => Knows(u, D)
    BY <1>2, <1>3 DEF Knows, IsWhole
  <1>6. Private!NothingRegisteredIsLeft(t) => Private!NothingRegisteredIsLeft(u)
    BY <1>1, <1>2, <1>3 DEF Private!NothingRegisteredIsLeft
  <1> QED BY <1>2, <1>4, <1>5, <1>6 DEF u

LEMMA RedactedHolds ==
  ASSUME NEW t, NEW said, Faithful(t, said), NEW D, Knows(t, D)
  PROVE  /\ Faithful(Private!RedactText(t), said) /\ Knows(Private!RedactText(t), D)
         /\ Len(Private!RedactText(t)) = Len(t)
         /\ \A i \in 1..Len(t) : Private!RedactText(t)[i] \notin Secrets
  <1> DEFINE u == Private!RedactText(t)
  <1>1. /\ t \in Text /\ Len(t) <= Len(said)
        /\ \A i \in 1..Len(t) : t[i] \in Vocabulary => t[i] = said[i]
        /\ \A i \in 1..(Len(t) - 1) : \A m \in Matches : IsWhole(t, i, m) =>
             /\ ShownAs(m)[1] \in Vocabulary => ShownAs(m)[1] = said[i]
             /\ ShownAs(m)[2] \in Vocabulary => ShownAs(m)[2] = said[i + 1]
    BY DEF Faithful
  <1>2. DOMAIN t = 1..Len(t) /\ Len(t) \in Nat
    BY <1>1 DEF Text
  <1>3. u = [i \in 1..Len(t) |-> IF t[i] \in Secrets THEN Private!Hidden ELSE t[i]]
    BY <1>2 DEF Private!RedactText
  <1>4. u \in Text /\ Len(u) = Len(t)
    <2>1. \A i \in 1..Len(t) : t[i] \in Vocabulary \cup Marks
      BY <1>1 DEF Text
    <2>2. Private!Hidden \in Marks
      BY DEF Marks
    <2> HIDE DEF u
    <2> QED BY <1>2, <1>3, <2>1, <2>2 DEF Text
  <1>5. \A i \in 1..Len(t) : u[i] = Private!Hidden \/ u[i] = t[i]
    BY <1>3
  <1>6. \A i \in 1..Len(t) : u[i] \notin Secrets
    <2>1. Private!Hidden \notin Secrets
      BY MarksAreNew, PrivacyAssumption DEF Marks
    <2> QED BY <1>3, <2>1
  <1>7. \A i \in 1..Len(t) : u[i] \in Vocabulary => u[i] = t[i]
    BY <1>5, MarksAreNew DEF Marks
  <1>8. \A i \in 1..(Len(t) - 1) : \A m \in Matches : IsWhole(u, i, m) => IsWhole(t, i, m)
    <2> SUFFICES ASSUME NEW i \in 1..(Len(t) - 1), NEW m \in Matches, IsWhole(u, i, m)
                 PROVE  IsWhole(t, i, m)
      OBVIOUS
    <2>1. i \in 1..Len(t) /\ i + 1 \in 1..Len(t)
      BY <1>2
    <2>2. u[i] # Private!Hidden /\ u[i + 1] # Private!Hidden
      BY MarksAreNew DEF IsWhole
    <2>3. u[i] = t[i] /\ u[i + 1] = t[i + 1]
      BY <1>5, <2>1, <2>2
    <2> QED BY <2>3 DEF IsWhole
  <1> HIDE DEF u
  <1>9. Faithful(u, said)
    BY <1>1, <1>4, <1>7, <1>8 DEF Faithful
  <1>10. Knows(u, D)
    BY <1>4, <1>8 DEF Knows
  <1> QED BY <1>4, <1>6, <1>9, <1>10 DEF u

LEMMA SaidIsFaithful ==
  ASSUME NEW said \in Said
  PROVE  said \in Seq(Vocabulary) /\ Faithful(said, said) /\ Knows(said, {})
  <1>1. said \in Seq(Vocabulary)
    BY PrivacyAssumption
  <1>2. said \in Text /\ Len(said) \in Nat
    BY <1>1 DEF Text
  <1>3. \A i \in 1..(Len(said) - 1) : \A m \in Matches : ~IsWhole(said, i, m)
    <2> SUFFICES ASSUME NEW i \in 1..(Len(said) - 1), NEW m \in Matches, IsWhole(said, i, m)
                 PROVE  FALSE
      OBVIOUS
    <2>1. said[i] \in Vocabulary
      BY <1>1
    <2> QED BY <2>1, MarksAreNew DEF IsWhole, Marks
  <1> QED BY <1>1, <1>2, <1>3 DEF Faithful, Knows

\* What a text is cut to before it is scrubbed, and after.
LEMMA CappedHolds ==
  ASSUME NEW said \in Said, NEW surface
  PROVE  Faithful(Private!Capped(surface, said), said) /\ Knows(Private!Capped(surface, said), {})
         /\ (Len(said) >= MaxChars => surface # "session" \/ Len(Private!Capped(surface, said)) >= 1)
  <1>1. said \in Text /\ Len(said) \in Nat /\ Faithful(said, said) /\ Knows(said, {})
    BY SaidIsFaithful DEF Faithful, Text
  <1>2. CASE surface \in {"session", "offload"}
    <2> DEFINE n == Private!Min({MaxChars, Len(said)})
    <2>1. n = MaxChars \/ n = Len(said)
      <3>1. \E x \in {MaxChars, Len(said)} : \A y \in {MaxChars, Len(said)} : x <= y
        BY <1>1, PrivacyAssumption
      <3> QED BY <3>1 DEF Private!Min
    <2>2. n <= Len(said) /\ n <= MaxChars
      <3>1. \E x \in {MaxChars, Len(said)} : \A y \in {MaxChars, Len(said)} : x <= y
        BY <1>1, PrivacyAssumption
      <3> QED BY <3>1 DEF Private!Min
    <2> HIDE DEF n
    <2>3. n \in 0..Len(said) /\ (Len(said) >= MaxChars => n >= 1)
      BY <1>1, <2>1, <2>2, PrivacyAssumption
    <2>4. Private!Capped(surface, said) = SubSeq(said, 1, n)
      BY <1>2 DEF Private!Capped, n
    <2>5. Faithful(SubSeq(said, 1, n), said) /\ Knows(SubSeq(said, 1, n), {})
          /\ Len(SubSeq(said, 1, n)) = n
      BY <1>1, <2>3, PrefixHolds
    <2> QED BY <2>3, <2>4, <2>5
  <1>3. CASE surface \notin {"session", "offload"}
    BY <1>1, <1>3 DEF Private!Capped
  <1> QED BY <1>2, <1>3

LEMMA ScrubbedHolds ==
  ASSUME privacyEntries \in Seq(Registered),
         NEW t, NEW said, Faithful(t, said), NEW D, Knows(t, D),
         NEW r, r = Private!Pseudonymize(privacyEntries, Private!RedactText(t))
  PROVE  /\ r.updates \in Maps /\ Faithful(r.text, said) /\ Len(r.text) = Len(t)
         /\ Knows(r.text, D \cup DOMAIN r.updates) /\ Private!NothingRegisteredIsLeft(r.text)
  <1> DEFINE u == Private!RedactText(t)
  <1>1. Faithful(u, said) /\ Knows(u, D) /\ Len(u) = Len(t)
        /\ \A i \in 1..Len(t) : u[i] \notin Secrets
    BY RedactedHolds
  <1> HIDE DEF u
  <1>2. Faultless(r, privacyEntries, Len(privacyEntries), u, said, D)
    BY <1>1, PseudonymsHold DEF u
  <1>3. /\ r.text \in Text /\ r.updates \in Maps /\ Faithful(r.text, said) /\ Len(r.text) = Len(u)
        /\ \A i \in 1..Len(u) : r.text[i] \in Vocabulary => r.text[i] = u[i]
        /\ Knows(r.text, D \cup DOMAIN r.updates)
        /\ \A n \in 1..Len(privacyEntries) : \A i \in 1..(Len(u) - 1) :
             <<r.text[i], r.text[i + 1]>> \notin privacyEntries[n].names
    BY <1>2 DEF Faultless, Accs
  <1>4. DOMAIN r.text = 1..Len(t) /\ DOMAIN privacyEntries = 1..Len(privacyEntries)
    BY <1>1, <1>3 DEF Text
  <1>5. \A i \in DOMAIN r.text : r.text[i] \notin Secrets
    BY <1>1, <1>3, <1>4, PrivacyAssumption
  <1>6. Private!NothingRegisteredIsLeft(r.text)
    BY <1>1, <1>3, <1>4, <1>5 DEF Private!NothingRegisteredIsLeft
  <1> QED BY <1>1, <1>3, <1>6

PrivacyItems ==
  {item \in [surface : {"session", "trace", "given", "offload"}, texts : SUBSET Text,
             said : Said, hidden : {TRUE}] :
     \A text \in item.texts : Faithful(text, item.said)}
PrivacySteps ==
  {Private!Idle}
    \cup [step : {"save", "done", "open", "fill", "record"}, map : Maps, item : PrivacyItems]

PrivacyTypeOK ==
  /\ privacyEntries \in Seq(Registered) /\ privacyReverse \in Maps
  /\ privacyContent \in [Said -> {"none", "torn", "cut", "whole"}]
  /\ privacyMeta \subseteq Said /\ privacyOverlap \in BOOLEAN
  /\ privacyProc \in [Procs -> PrivacySteps]

\* Once the map is saved, or need not be.
PastTheMap == {"done", "open", "fill", "record"}

\* One command at most is about to save the map, and knows what it put into
\* its text; the placeholders of the others are in the file.
MapIsAtHand ==
  \A p \in Procs :
    /\ privacyProc[p].step = "save" =>
         /\ \A q \in Procs : privacyProc[q].step = "save" => q = p
         /\ DOMAIN privacyReverse \subseteq DOMAIN privacyProc[p].map
         /\ \A text \in privacyProc[p].item.texts : Knows(text, DOMAIN privacyProc[p].map)
    /\ privacyProc[p].step \in PastTheMap =>
         \A text \in privacyProc[p].item.texts : Knows(text, DOMAIN privacyReverse)

\* Written to the end, cut, or being written.
Written(text) ==
  \/ privacyContent[text] \in {"whole", "cut"}
  \/ \E q \in Procs : privacyProc[q].step = "fill" /\ privacyProc[q].item.said = text

OffloadsAreWritten ==
  /\ \A text \in privacyMeta : Written(text)
  /\ \A p \in Procs : privacyProc[p].step = "record" => Written(privacyProc[p].item.said)

PrivacyInv == PrivacyTypeOK /\ (~privacyOverlap => MapIsAtHand) /\ OffloadsAreWritten

LEMMA PrivacyInit == Private!Init => PrivacyInv
  <1> SUFFICES ASSUME Private!Init PROVE PrivacyInv
    OBVIOUS
  <1>1. /\ privacyEntries = <<>> /\ privacyReverse = <<>> /\ privacyMeta = {}
        /\ privacyContent = [t \in Said |-> "none"] /\ privacyOverlap = FALSE
        /\ privacyProc = [p \in Procs |-> Private!Idle]
    BY DEF Private!Init
  <1>2. Private!Idle.step = "none"
    BY DEF Private!Idle
  <1>3. PrivacyTypeOK
    <2>1. <<>> \in Seq(Registered) /\ <<>> \in Maps
      BY MapsAreJoined
    <2>2. privacyProc \in [Procs -> PrivacySteps]
      BY <1>1 DEF PrivacySteps
    <2> QED BY <1>1, <2>1, <2>2 DEF PrivacyTypeOK
  <1>4. MapIsAtHand /\ OffloadsAreWritten
    BY <1>1, <1>2 DEF MapIsAtHand, PastTheMap, OffloadsAreWritten
  <1> QED BY <1>3, <1>4 DEF PrivacyInv

\* What a command that holds an item or an offload looks like.
LEMMA StepsOfPrivacy ==
  ASSUME NEW c \in PrivacySteps
  PROVE  /\ c.step \in {"none", "save", "done", "open", "fill", "record"}
         /\ c.step # "none" =>
              /\ c = [step |-> c.step, map |-> c.map, item |-> c.item]
              /\ c.map \in Maps /\ c.item \in PrivacyItems /\ c.item.said \in Said
  <1>1. CASE c = Private!Idle
    BY <1>1 DEF Private!Idle
  <1>2. CASE c \in [step : {"save", "done", "open", "fill", "record"}, map : Maps, item : PrivacyItems]
    <2>1. c.item \in PrivacyItems
      BY <1>2
    <2>2. c.item.said \in Said
      BY <2>1 DEF PrivacyItems
    <2> QED BY <1>2, <2>1, <2>2
  <1> QED BY <1>1, <1>2 DEF PrivacySteps

\* A command that keeps or gives out what it scrubbed.
LEMMA ScrubStep ==
  ASSUME PrivacyInv, NEW p \in Procs,
         NEW surface \in {"session", "trace", "given", "offload"},
         NEW said \in Said, NEW result, NEW texts, result.updates \in Maps,
         \A text \in texts : /\ Faithful(text, said) /\ Private!NothingRegisteredIsLeft(text)
                             /\ ~privacyOverlap =>
                                  Knows(text, DOMAIN privacyReverse \cup DOMAIN result.updates),
         Private!Scrub(p, surface, said, result, texts)
  PROVE  PrivacyInv'
  <1> DEFINE updates == result.updates
             stale == \E m \in DOMAIN updates :
                        m \notin DOMAIN privacyReverse \/ privacyReverse[m] # updates[m]
             item == [surface |-> surface, texts |-> texts, said |-> said,
                      hidden |-> \A text \in texts : Private!NothingRegisteredIsLeft(text)]
             map == IF stale THEN Private!Updated(privacyReverse, updates) ELSE <<>>
             state == [step |-> IF stale THEN "save" ELSE Private!Then(surface), map |-> map,
                       item |-> item]
  <1>1. /\ privacyProc[p] = Private!Idle
        /\ privacyOverlap' = (privacyOverlap \/ (stale /\ Private!Working # {}))
        /\ privacyProc' = [privacyProc EXCEPT ![p] = state]
        /\ privacyEntries' = privacyEntries /\ privacyReverse' = privacyReverse
        /\ privacyContent' = privacyContent /\ privacyMeta' = privacyMeta
    BY DEF Private!Scrub, Private!GoTo, Private!offloads
  <1>2. /\ privacyReverse \in Maps /\ privacyProc \in [Procs -> PrivacySteps]
        /\ privacyOverlap \in BOOLEAN
    BY DEF PrivacyInv, PrivacyTypeOK
  <1>3. item \in PrivacyItems
    <2>1. item.hidden = TRUE
      OBVIOUS
    <2>2. texts \in SUBSET Text
      BY DEF Faithful
    <2> QED BY <2>1, <2>2 DEF PrivacyItems
  <1>4. stale => map \in Maps /\ DOMAIN map = DOMAIN privacyReverse \cup DOMAIN updates
    BY <1>2, MapsAreJoined
  <1>5. map \in Maps
    BY <1>4, MapsAreJoined
  <1>6. ~stale => DOMAIN updates \subseteq DOMAIN privacyReverse
    OBVIOUS
  <1>7. (state.step = "save" <=> stale) /\ (state.step \in PastTheMap <=> ~stale)
        /\ state.map = map /\ state.item.texts = texts /\ state.step \notin {"fill", "record"}
    BY DEF Private!Then, PastTheMap
  <1>8. state \in PrivacySteps
    BY <1>3, <1>5, <1>7 DEF PrivacySteps, PastTheMap
  <1> HIDE DEF state, map, item, stale
  <1>9. /\ \A q \in Procs : privacyProc'[q] = IF q = p THEN state ELSE privacyProc[q]
        /\ privacyProc' \in [Procs -> PrivacySteps]
    BY <1>1, <1>2, <1>8
  <1>10. privacyOverlap' \in BOOLEAN
    BY <1>1
  <1>11. PrivacyTypeOK'
    BY <1>1, <1>9, <1>10 DEF PrivacyInv, PrivacyTypeOK
  <1>12. OffloadsAreWritten'
    <2>1. \A text : Written(text) => Written(text)'
      <3>1. privacyProc[p].step = "none"
        BY <1>1 DEF Private!Idle
      <3> QED BY <1>1, <1>9, <3>1 DEF Written
    <2>2. \A q \in Procs : privacyProc'[q].step = "record" =>
            privacyProc[q].step = "record" /\ privacyProc'[q].item = privacyProc[q].item
      BY <1>7, <1>9
    <2> QED BY <1>1, <2>1, <2>2 DEF PrivacyInv, OffloadsAreWritten, Written
  <1>13. ASSUME ~privacyOverlap' PROVE MapIsAtHand'
    <2>1. ~privacyOverlap /\ (stale => Private!Working = {})
      BY <1>1, <1>13
    <2>2. MapIsAtHand
      BY <2>1 DEF PrivacyInv
    <2>3. \A text \in texts : Knows(text, DOMAIN privacyReverse \cup DOMAIN updates)
      BY <2>1
    <2>4. CASE stale
      <3>1. \A q \in Procs : privacyProc'[q].step = "save" <=> q = p
        BY <1>7, <1>9, <2>1, <2>4 DEF Private!Working
      <3>2. /\ privacyProc'[p].map = map /\ privacyProc'[p].item.texts = texts
            /\ DOMAIN map = DOMAIN privacyReverse \cup DOMAIN updates
        BY <1>4, <1>7, <1>9, <2>4
      <3>3. \A q \in Procs : privacyProc'[q].step \in PastTheMap =>
              privacyProc'[q] = privacyProc[q]
        BY <1>7, <1>9, <2>4
      <3>4. \A q \in Procs : privacyProc'[q].step \in PastTheMap =>
              \A text \in privacyProc'[q].item.texts : Knows(text, DOMAIN privacyReverse')
        BY <1>1, <2>2, <3>3 DEF MapIsAtHand
      <3>5. \A text \in privacyProc'[p].item.texts : Knows(text, DOMAIN privacyProc'[p].map)
        BY <2>3, <3>2
      <3>6. DOMAIN privacyReverse' \subseteq DOMAIN privacyProc'[p].map
        BY <1>1, <3>2
      <3> QED BY <3>1, <3>4, <3>5, <3>6, Zenon DEF MapIsAtHand
    <2>5. CASE ~stale
      <3>1. DOMAIN privacyReverse \cup DOMAIN updates = DOMAIN privacyReverse
        BY <1>6, <2>5
      <3>2. \A text \in texts : Knows(text, DOMAIN privacyReverse)
        BY <2>3, <3>1
      <3>3. \A q \in Procs : privacyProc'[q].step = "save" =>
              privacyProc'[q] = privacyProc[q]
        BY <1>7, <1>9, <2>5
      <3>4. \A q \in Procs : privacyProc'[q].step \in PastTheMap =>
              \/ privacyProc'[q] = privacyProc[q] \/ privacyProc'[q].item.texts = texts
        BY <1>7, <1>9, <2>5
      <3> QED BY <1>1, <2>2, <3>2, <3>3, <3>4 DEF MapIsAtHand
    <2> QED BY <2>4, <2>5
  <1> QED BY <1>11, <1>12, <1>13 DEF PrivacyInv

\* All fields that take a text are redacted.
LEMMA FilledAreFree ==
  ASSUME NEW line \in DOMAIN Private!Filled PROVE Private!Filled[line] \subseteq Private!FreeTextFields
  <1>1. ASSUME NEW l \in DOMAIN Private!MetaFields
        PROVE  Private!MetaFields[l] \subseteq Private!FreeTextFields
    BY DEF Private!MetaFields, Private!FreeTextFields
  <1>2. ASSUME NEW l \in DOMAIN Private!EventFields
        PROVE  Private!EventFields[l] \subseteq Private!FreeTextFields
    BY DEF Private!EventFields, Private!FreeTextFields
  <1>3. ASSUME NEW l \in DOMAIN Private!ResponseFields
        PROVE  Private!ResponseFields[l] \subseteq Private!FreeTextFields
    BY DEF Private!ResponseFields, Private!FreeTextFields
  <1> QED BY <1>1, <1>2, <1>3 DEF Private!Filled, Private!Updated

\* A record of a session, cut before and after it is scrubbed.
LEMMA IngestStep ==
  ASSUME PrivacyInv, NEW p \in Procs, NEW said \in Said, Private!IngestLine(p, said)
  PROVE  PrivacyInv'
  <1> DEFINE capped == Private!Capped("session", said)
             Kept(r, c, f) == IF f \in Private!FreeTextFields
                              THEN SubSeq(r.text, 1, Len(r.text) - c) ELSE said
  <1>0. PICK result :
          /\ result = Private!Pseudonymize(privacyEntries, Private!RedactText(capped))
          /\ \E c \in IF Len(said) >= MaxChars THEN {0, 1} ELSE {0} :
               \E texts \in {{Kept(result, c, f) : f \in Private!Filled[l]} : l \in DOMAIN Private!Filled} :
                 Private!Scrub(p, "session", said, result, texts)
    BY Zenon DEF Private!IngestLine, Private!Scrubbed
  <1>1. PICK cut \in IF Len(said) >= MaxChars THEN {0, 1} ELSE {0} :
          \E texts \in {{Kept(result, cut, f) : f \in Private!Filled[l]} : l \in DOMAIN Private!Filled} :
            Private!Scrub(p, "session", said, result, texts)
    BY <1>0
  <1> DEFINE kept == SubSeq(result.text, 1, Len(result.text) - cut)
  <1>2. PICK line \in DOMAIN Private!Filled :
          Private!Scrub(p, "session", said, result,
            {IF f \in Private!FreeTextFields THEN kept ELSE said : f \in Private!Filled[line]})
    BY <1>1
  <1>3. /\ result.updates \in Maps /\ Faithful(result.text, said) /\ Len(result.text) = Len(capped)
        /\ Knows(result.text, DOMAIN result.updates) /\ Private!NothingRegisteredIsLeft(result.text)
    <2>1. Faithful(capped, said) /\ Knows(capped, {})
      BY CappedHolds
    <2> HIDE DEF capped
    <2>2. /\ result.updates \in Maps /\ Faithful(result.text, said) /\ Len(result.text) = Len(capped)
          /\ Knows(result.text, {} \cup DOMAIN result.updates)
          /\ Private!NothingRegisteredIsLeft(result.text)
      BY <1>0, <2>1, ScrubbedHolds DEF PrivacyInv, PrivacyTypeOK
    <2> QED BY <2>2 DEF Knows
  <1>4. Len(result.text) - cut \in 0..Len(result.text)
    <2>1. Len(said) >= MaxChars => Len(capped) >= 1
      BY CappedHolds
    <2>2. Len(result.text) \in Nat
      BY <1>3 DEF Faithful, Text
    <2> HIDE DEF capped
    <2> QED BY <1>1, <1>3, <2>1, <2>2
  <1> DEFINE length == Len(result.text) - cut
             texts == {IF f \in Private!FreeTextFields THEN kept ELSE said : f \in Private!Filled[line]}
  <1>5. \A text \in texts : text = kept
    BY FilledAreFree
  <1>6. /\ Faithful(kept, said) /\ Private!NothingRegisteredIsLeft(kept)
        /\ Knows(kept, DOMAIN result.updates)
    <2>1. result.text \in Text
      BY <1>3 DEF Faithful
    <2> DEFINE t == result.text
    <2>2. kept = SubSeq(t, 1, length)
      OBVIOUS
    <2>3. /\ t \in Text /\ length \in 0..Len(t) /\ Faithful(t, said)
          /\ Knows(t, DOMAIN result.updates) /\ Private!NothingRegisteredIsLeft(t)
      BY <1>3, <1>4, <2>1
    <2> HIDE DEF t, length, kept
    <2> QED BY <2>2, <2>3, PrefixHolds
  <1> HIDE DEF capped, kept
  <1>7. \A text \in texts :
          /\ Faithful(text, said) /\ Private!NothingRegisteredIsLeft(text)
          /\ ~privacyOverlap => Knows(text, DOMAIN privacyReverse \cup DOMAIN result.updates)
    BY <1>5, <1>6 DEF Knows
  <1>8. Private!Scrub(p, "session", said, result, texts)
    BY <1>2
  <1> HIDE DEF texts
  <1> QED BY <1>3, <1>7, <1>8, ScrubStep

\* What is kept as it was scrubbed: a trace, what is given out, traces again,
\* the summary of an offload.
LEMMA GiveStep ==
  ASSUME PrivacyInv, NEW p \in Procs, NEW surface \in {"trace", "given", "offload"},
         NEW said \in Said,
         NEW text, Faithful(text, said), ~privacyOverlap => Knows(text, DOMAIN privacyReverse),
         NEW result, result = Private!Pseudonymize(privacyEntries, Private!RedactText(text)),
         Private!Scrub(p, surface, said, result, {result.text})
  PROVE  PrivacyInv'
  <1>1. result = Private!Pseudonymize(privacyEntries, Private!RedactText(text))
    OBVIOUS
  <1>2. privacyEntries \in Seq(Registered)
    BY DEF PrivacyInv, PrivacyTypeOK
  <1>3. Knows(text, Matches)
    BY DEF Knows
  <1>4. /\ result.updates \in Maps /\ Faithful(result.text, said)
        /\ Private!NothingRegisteredIsLeft(result.text)
    BY <1>1, <1>2, <1>3, ScrubbedHolds
  <1>5. ~privacyOverlap => Knows(result.text, DOMAIN privacyReverse \cup DOMAIN result.updates)
    BY <1>1, <1>2, ScrubbedHolds
  <1> DEFINE texts == {result.text}
  <1>6. \A t \in texts :
          /\ Faithful(t, said) /\ Private!NothingRegisteredIsLeft(t)
          /\ ~privacyOverlap => Knows(t, DOMAIN privacyReverse \cup DOMAIN result.updates)
    BY <1>4, <1>5
  <1>7. Private!Scrub(p, surface, said, result, texts)
    OBVIOUS
  <1> HIDE DEF texts
  <1> QED BY <1>4, <1>6, <1>7, ScrubStep

LEMMA TraceStep ==
  ASSUME PrivacyInv, NEW p \in Procs, NEW said \in Said,
         Private!WriteTrace(p, said) \/ Private!GiveOut(p, said)
  PROVE  PrivacyInv'
  <1>1. Faithful(said, said)
    BY SaidIsFaithful
  <1>2. ~privacyOverlap => Knows(said, DOMAIN privacyReverse)
    BY SaidIsFaithful DEF Knows
  <1>3. CASE Private!WriteTrace(p, said)
    <2>1. PICK result : result = Private!Scrubbed("trace", said)
                        /\ Private!Scrub(p, "trace", said, result, {result.text})
      BY <1>3 DEF Private!WriteTrace
    <2>2. result = Private!Pseudonymize(privacyEntries, Private!RedactText(said))
          /\ "trace" \in {"trace", "given", "offload"}
      BY <2>1 DEF Private!Scrubbed, Private!Capped
    <2> QED BY <1>1, <1>2, <2>1, <2>2, GiveStep
  <1>4. CASE Private!GiveOut(p, said)
    <2>1. PICK result : result = Private!Scrubbed("given", said)
                        /\ Private!Scrub(p, "given", said, result, {result.text})
      BY <1>4 DEF Private!GiveOut
    <2>2. result = Private!Pseudonymize(privacyEntries, Private!RedactText(said))
          /\ "given" \in {"trace", "given", "offload"}
      BY <2>1 DEF Private!Scrubbed, Private!Capped
    <2> QED BY <1>1, <1>2, <2>1, <2>2, GiveStep
  <1> QED BY <1>3, <1>4

\* The summary of an offload is cut before it is scrubbed.
LEMMA PutStep ==
  ASSUME PrivacyInv, NEW p \in Procs, NEW said \in Said, Private!PutOffload(p, said)
  PROVE  PrivacyInv'
  <1> DEFINE text == Private!Capped("offload", said)
  <1>1. Faithful(text, said) /\ Knows(text, {})
    BY CappedHolds
  <1>2. PICK result : result = Private!Scrubbed("offload", said)
                      /\ Private!Scrub(p, "offload", said, result, {result.text})
    BY DEF Private!PutOffload
  <1>3. result = Private!Pseudonymize(privacyEntries, Private!RedactText(text))
        /\ "offload" \in {"trace", "given", "offload"}
    BY <1>2 DEF Private!Scrubbed
  <1> HIDE DEF text
  <1>4. ~privacyOverlap => Knows(text, DOMAIN privacyReverse)
    BY <1>1 DEF Knows
  <1> QED BY <1>1, <1>2, <1>3, <1>4, GiveStep

LEMMA ListStep ==
  ASSUME PrivacyInv, NEW p \in Procs, NEW item \in Private!items, Private!ListTraces(p, item)
  PROVE  PrivacyInv'
  <1>1. PICK q \in Procs : privacyProc[q].step = "done" /\ item = privacyProc[q].item
    BY DEF Private!items
  <1>2. item \in PrivacyItems
    <2>1. privacyProc[q] \in PrivacySteps
      BY DEF PrivacyInv, PrivacyTypeOK
    <2> QED BY <1>1, <2>1, StepsOfPrivacy
  <1>3. PICK text \in item.texts : \E result \in {Private!Scrubbed("given", text)} :
          Private!Scrub(p, "given", item.said, result, {result.text})
    BY DEF Private!ListTraces
  <1>4. PICK result : result = Private!Scrubbed("given", text)
                      /\ Private!Scrub(p, "given", item.said, result, {result.text})
    BY <1>3
  <1>5. Faithful(text, item.said) /\ item.said \in Said
    BY <1>2 DEF PrivacyItems
  <1>6. ~privacyOverlap => Knows(text, DOMAIN privacyReverse)
    BY <1>1 DEF PrivacyInv, MapIsAtHand, PastTheMap
  <1>7. result = Private!Pseudonymize(privacyEntries, Private!RedactText(text))
        /\ "given" \in {"trace", "given", "offload"}
    BY <1>4 DEF Private!Scrubbed, Private!Capped
  <1> DEFINE said == item.said
  <1> HIDE DEF said
  <1>8. said \in Said /\ Faithful(text, said)
        /\ Private!Scrub(p, "given", said, result, {result.text})
    BY <1>4, <1>5 DEF said
  <1> QED BY <1>4, <1>6, <1>7, <1>8, GiveStep

\* The map is written as it was read, with what was put in.
LEMMA SaveStep ==
  ASSUME PrivacyInv, NEW p \in Procs, Private!SaveReverse(p) PROVE PrivacyInv'
  <1> DEFINE c == privacyProc[p]
             state == [c EXCEPT !.step = Private!Then(c.item.surface), !.map = <<>>]
  <1>1. /\ c.step = "save" /\ privacyReverse' = c.map
        /\ privacyOverlap' = (privacyOverlap \/ Private!Working # {p})
        /\ privacyProc' = [privacyProc EXCEPT ![p] = state]
        /\ privacyEntries' = privacyEntries
        /\ privacyContent' = privacyContent /\ privacyMeta' = privacyMeta
    BY DEF Private!SaveReverse, Private!GoTo, Private!offloads
  <1>2. /\ privacyProc \in [Procs -> PrivacySteps] /\ privacyOverlap \in BOOLEAN
        /\ c \in PrivacySteps
    BY DEF PrivacyInv, PrivacyTypeOK
  <1>3. c = [step |-> c.step, map |-> c.map, item |-> c.item]
        /\ c.map \in Maps /\ c.item \in PrivacyItems
    BY <1>1, <1>2, StepsOfPrivacy
  <1> DEFINE Held == [step : {"save", "done", "open", "fill", "record"}, map : Maps,
                     item : PrivacyItems]
  <1>4. c \in Held
    BY <1>1, <1>3
  <1> HIDE DEF c
  <1>5. state \in Held /\ state.step \in PastTheMap \ {"save", "fill", "record"} /\ state.item = c.item
    BY <1>4, MapsAreJoined DEF Private!Then, PastTheMap
  <1>6. state \in PrivacySteps
    BY <1>5 DEF PrivacySteps
  <1> HIDE DEF state
  <1>7. /\ \A q \in Procs : privacyProc'[q] = IF q = p THEN state ELSE privacyProc[q]
        /\ privacyProc' \in [Procs -> PrivacySteps]
    BY <1>1, <1>2, <1>6
  <1>8. privacyOverlap' \in BOOLEAN
    BY <1>1
  <1>9. PrivacyTypeOK'
    BY <1>1, <1>3, <1>7, <1>8 DEF PrivacyInv, PrivacyTypeOK
  <1>10. OffloadsAreWritten'
    BY <1>1, <1>5, <1>7 DEF PrivacyInv, OffloadsAreWritten, Written, c
  <1>11. ASSUME ~privacyOverlap' PROVE MapIsAtHand'
    <2>1. ~privacyOverlap /\ Private!Working = {p}
      BY <1>1, <1>11
    <2>2. MapIsAtHand
      BY <2>1 DEF PrivacyInv
    <2>3. /\ DOMAIN privacyReverse \subseteq DOMAIN c.map
          /\ \A text \in c.item.texts : Knows(text, DOMAIN c.map)
      BY <1>1, <2>2 DEF MapIsAtHand, c
    <2>4. \A q \in Procs : privacyProc'[q].step # "save"
      BY <1>5, <1>7, <2>1 DEF Private!Working
    <2>5. ASSUME NEW q \in Procs, privacyProc'[q].step \in PastTheMap,
                 NEW text \in privacyProc'[q].item.texts
          PROVE  Knows(text, DOMAIN privacyReverse')
      <3>1. CASE q = p
        BY <1>1, <1>5, <1>7, <2>3, <2>5, <3>1
      <3>2. CASE q # p
        <4>1. Knows(text, DOMAIN privacyReverse)
          BY <1>7, <2>2, <2>5, <3>2 DEF MapIsAtHand
        <4> QED BY <1>1, <2>3, <4>1 DEF Knows
      <3> QED BY <3>1, <3>2
    <2>6. \A q \in Procs : privacyProc'[q].step \in PastTheMap =>
            \A text \in privacyProc'[q].item.texts : Knows(text, DOMAIN privacyReverse')
      BY <2>5
    <2> QED BY <2>4, <2>6 DEF MapIsAtHand, Knows
  <1> QED BY <1>9, <1>10, <1>11 DEF PrivacyInv

\* An offload's text is written in place before it is recorded.
LEMMA OffloadStep ==
  ASSUME PrivacyInv, NEW p \in Procs,
         Private!OpenOffload(p) \/ Private!FillOffload(p) \/ Private!RecordOffload(p)
  PROVE  PrivacyInv'
  <1> DEFINE c == privacyProc[p]
             said == c.item.said
  <1>1. /\ privacyProc \in [Procs -> PrivacySteps] /\ c \in PrivacySteps
        /\ privacyContent \in [Said -> {"none", "torn", "cut", "whole"}]
        /\ privacyMeta \subseteq Said
    BY DEF PrivacyInv, PrivacyTypeOK
  <1>2. c.step \in {"open", "fill", "record"}
    BY DEF Private!OpenOffload, Private!FillOffload, Private!RecordOffload
  <1>3. /\ c = [step |-> c.step, map |-> c.map, item |-> c.item]
        /\ c.map \in Maps /\ c.item \in PrivacyItems /\ said \in Said
    BY <1>1, <1>2, StepsOfPrivacy
  <1>4. /\ privacyEntries' = privacyEntries /\ privacyReverse' = privacyReverse
        /\ privacyOverlap' = privacyOverlap
    BY DEF Private!OpenOffload, Private!FillOffload, Private!RecordOffload
  <1>5. PICK step \in {"fill", "record", "done"} :
          privacyProc' = [privacyProc EXCEPT ![p] = [c EXCEPT !.step = step]]
    BY DEF Private!OpenOffload, Private!FillOffload, Private!RecordOffload, Private!GoTo
  <1> DEFINE state == [c EXCEPT !.step = step]
  <1>6. state = [step |-> step, map |-> c.map, item |-> c.item]
    BY <1>3
  <1>7. state \in PrivacySteps /\ state.step = step /\ state.item = c.item
    BY <1>3, <1>6 DEF PrivacySteps
  <1> HIDE DEF state
  <1>8. /\ privacyProc' \in [Procs -> PrivacySteps] /\ privacyProc'[p] = state
        /\ \A q \in Procs : q # p => privacyProc'[q] = privacyProc[q]
    BY <1>1, <1>5, <1>7 DEF state
  <1>9. ASSUME MapIsAtHand PROVE MapIsAtHand'
    <2>1. \A text \in c.item.texts : Knows(text, DOMAIN privacyReverse)
      BY <1>2, <1>9 DEF MapIsAtHand, PastTheMap
    <2>2. \A q \in Procs : privacyProc'[q].step = "save" => privacyProc'[q] = privacyProc[q]
      BY <1>7, <1>8
    <2>3. \A q \in Procs : privacyProc'[q].step \in PastTheMap =>
            \/ privacyProc'[q] = privacyProc[q] \/ privacyProc'[q].item.texts = c.item.texts
      BY <1>7, <1>8
    <2> QED BY <1>4, <1>9, <2>1, <2>2, <2>3 DEF MapIsAtHand
  <1>10. ASSUME ~privacyOverlap' PROVE MapIsAtHand'
    BY <1>4, <1>9, <1>10 DEF PrivacyInv
  <1>11. CASE Private!OpenOffload(p)
    <2>1. /\ c.step = "open" /\ privacyMeta' = privacyMeta
          /\ privacyContent' = [privacyContent EXCEPT ![said] = "torn"]
          /\ privacyProc' = [privacyProc EXCEPT ![p] = [c EXCEPT !.step = "fill"]]
      BY <1>11 DEF Private!OpenOffload, Private!GoTo
    <2>2. PrivacyTypeOK'
      BY <1>1, <1>3, <1>4, <1>8, <2>1 DEF PrivacyInv, PrivacyTypeOK
    <2>3. privacyProc'[p].step = "fill" /\ privacyProc'[p].item.said = said
      BY <1>1, <1>3, <2>1
    <2> HIDE DEF c, said
    <2>4. \A t : t # said => privacyContent'[t] = privacyContent[t]
      BY <1>1, <2>1
    <2>5. ASSUME NEW t, Written(t)
          PROVE  \/ privacyContent'[t] \in {"whole", "cut"}
                 \/ \E q \in Procs : privacyProc'[q].step = "fill" /\ privacyProc'[q].item.said = t
      <3>1. CASE t = said
        BY <2>3, <3>1
      <3>2. CASE t # said
        BY <1>8, <2>1, <2>4, <2>5, <3>2 DEF Written, c
      <3> QED BY <3>1, <3>2
    <2>6. \A q \in Procs : privacyProc'[q].step = "record" => privacyProc'[q] = privacyProc[q]
      BY <1>8, <2>3
    <2>7. OffloadsAreWritten'
      BY <2>1, <2>5, <2>6 DEF PrivacyInv, OffloadsAreWritten, Written
    <2> QED BY <1>10, <2>2, <2>7 DEF PrivacyInv
  <1>12. CASE Private!FillOffload(p)
    <2>1. /\ c.step = "fill" /\ privacyMeta' = privacyMeta
          /\ privacyContent' = [privacyContent EXCEPT ![said] = "whole"]
          /\ privacyProc' = [privacyProc EXCEPT ![p] = [c EXCEPT !.step = "record"]]
      BY <1>12 DEF Private!FillOffload, Private!GoTo
    <2>2. PrivacyTypeOK'
      BY <1>1, <1>3, <1>4, <1>8, <2>1 DEF PrivacyInv, PrivacyTypeOK
    <2>3. privacyProc'[p].step = "record" /\ privacyProc'[p].item.said = said
      BY <1>1, <1>3, <2>1
    <2> HIDE DEF c, said
    <2>4. privacyContent'[said] = "whole" /\ \A t : t # said => privacyContent'[t] = privacyContent[t]
      BY <1>1, <1>3, <2>1
    <2>5. ASSUME NEW t, Written(t)
          PROVE  \/ privacyContent'[t] \in {"whole", "cut"}
                 \/ \E q \in Procs : privacyProc'[q].step = "fill" /\ privacyProc'[q].item.said = t
      <3>1. CASE t = said
        BY <2>4, <3>1
      <3>2. CASE t # said
        <4>1. privacyContent'[t] = privacyContent[t]
          BY <2>4, <3>2
        <4>2. ASSUME NEW q \in Procs, privacyProc[q].step = "fill", privacyProc[q].item.said = t
              PROVE  privacyProc'[q] = privacyProc[q]
          BY <1>8, <3>2, <4>2 DEF said, c
        <4> QED BY <2>5, <4>1, <4>2 DEF Written
      <3> QED BY <3>1, <3>2
    <2>6. \A q \in Procs : privacyProc'[q].step = "record" =>
            \/ privacyProc'[q] = privacyProc[q] \/ privacyProc'[q].item.said = said
      BY <1>8, <2>3
    <2>7. OffloadsAreWritten'
      <3>1. ASSUME NEW q \in Procs, privacyProc'[q].step = "record"
            PROVE  LET t == privacyProc'[q].item.said IN
                   \/ privacyContent'[t] \in {"whole", "cut"}
                   \/ \E r \in Procs : privacyProc'[r].step = "fill" /\ privacyProc'[r].item.said = t
        <4>1. CASE privacyProc'[q].item.said = said
          BY <2>4, <4>1
        <4>2. CASE privacyProc'[q] = privacyProc[q]
          <5>1. Written(privacyProc[q].item.said)
            BY <3>1, <4>2 DEF PrivacyInv, OffloadsAreWritten
          <5> QED BY <2>5, <4>2, <5>1
        <4> QED BY <2>6, <3>1, <4>1, <4>2
      <3>2. \A t \in privacyMeta' :
              \/ privacyContent'[t] \in {"whole", "cut"}
              \/ \E r \in Procs : privacyProc'[r].step = "fill" /\ privacyProc'[r].item.said = t
        BY <2>1, <2>5 DEF PrivacyInv, OffloadsAreWritten
      <3> QED BY <3>1, <3>2 DEF OffloadsAreWritten, Written
    <2> QED BY <1>10, <2>2, <2>7 DEF PrivacyInv
  <1>13. CASE Private!RecordOffload(p)
    <2>1. /\ c.step = "record" /\ privacyContent' = privacyContent
          /\ privacyMeta' = privacyMeta \cup {said}
          /\ privacyProc' = [privacyProc EXCEPT ![p] = [c EXCEPT !.step = "done"]]
      BY <1>13 DEF Private!RecordOffload, Private!GoTo
    <2>2. PrivacyTypeOK'
      BY <1>1, <1>3, <1>4, <1>8, <2>1 DEF PrivacyInv, PrivacyTypeOK
    <2>3. privacyProc'[p].step = "done"
      BY <1>1, <1>3, <2>1
    <2>4. ASSUME NEW t, Written(t)
          PROVE  \/ privacyContent'[t] \in {"whole", "cut"}
                 \/ \E q \in Procs : privacyProc'[q].step = "fill" /\ privacyProc'[q].item.said = t
      BY <1>8, <2>1, <2>4 DEF Written
    <2>5. Written(said)
      BY <2>1 DEF PrivacyInv, OffloadsAreWritten
    <2>6. \A q \in Procs : privacyProc'[q].step = "record" => privacyProc'[q] = privacyProc[q]
      BY <1>8, <2>3
    <2> HIDE DEF c, said
    <2>7. OffloadsAreWritten'
      BY <2>1, <2>4, <2>5, <2>6 DEF PrivacyInv, OffloadsAreWritten, Written
    <2> QED BY <1>10, <2>2, <2>7 DEF PrivacyInv
  <1> QED BY <1>11, <1>12, <1>13

\* A command that is killed leaves nothing, or an offload that stays cut.
LEMMA LeaveStep ==
  ASSUME PrivacyInv, NEW p \in Procs, Private!Leave(p) PROVE PrivacyInv'
  <1> DEFINE c == privacyProc[p]
  <1>1. /\ privacyContent' = IF c.step = "fill" THEN [privacyContent EXCEPT ![c.item.said] = "cut"]
                             ELSE privacyContent
        /\ privacyOverlap' = (privacyOverlap /\ \E q \in Procs \ {p} : privacyProc[q] # Private!Idle)
        /\ privacyProc' = [privacyProc EXCEPT ![p] = Private!Idle]
        /\ privacyEntries' = privacyEntries /\ privacyReverse' = privacyReverse
        /\ privacyMeta' = privacyMeta
    BY DEF Private!Leave, Private!GoTo
  <1>2. /\ privacyProc \in [Procs -> PrivacySteps] /\ c \in PrivacySteps
        /\ privacyContent \in [Said -> {"none", "torn", "cut", "whole"}]
        /\ privacyOverlap \in BOOLEAN
    BY DEF PrivacyInv, PrivacyTypeOK
  <1>3. c.step = "fill" => c.item.said \in Said
    BY <1>2, StepsOfPrivacy
  <1>4. Private!Idle \in PrivacySteps /\ Private!Idle.step = "none"
    BY DEF PrivacySteps, Private!Idle
  <1>5. /\ privacyProc' \in [Procs -> PrivacySteps] /\ privacyProc'[p] = Private!Idle
        /\ \A q \in Procs : q # p => privacyProc'[q] = privacyProc[q]
    BY <1>1, <1>2, <1>4
  <1>6. privacyOverlap' \in BOOLEAN
    BY <1>1
  <1>7. PrivacyTypeOK'
    BY <1>1, <1>2, <1>3, <1>5, <1>6 DEF PrivacyInv, PrivacyTypeOK
  <1>8. OffloadsAreWritten'
    <2>1. ASSUME NEW t, Written(t)
          PROVE  \/ privacyContent'[t] \in {"whole", "cut"}
                 \/ \E q \in Procs : privacyProc'[q].step = "fill" /\ privacyProc'[q].item.said = t
      <3>1. CASE c.step = "fill" /\ t = c.item.said
        BY <1>1, <1>2, <1>3, <3>1
      <3>2. CASE ~(c.step = "fill" /\ t = c.item.said)
        <4>1. privacyContent'[t] = privacyContent[t]
          BY <1>1, <1>2, <3>2
        <4> QED BY <1>5, <2>1, <3>2, <4>1 DEF Written
      <3> QED BY <3>1, <3>2
    <2> QED BY <1>1, <1>4, <1>5, <2>1 DEF PrivacyInv, OffloadsAreWritten, Written
  <1>9. ASSUME ~privacyOverlap' PROVE MapIsAtHand'
    <2>1. CASE privacyOverlap
      <3>1. \A q \in Procs : privacyProc'[q] = Private!Idle
        BY <1>1, <1>5, <1>9, <2>1
      <3> QED BY <1>4, <3>1 DEF MapIsAtHand, PastTheMap
    <2>2. CASE ~privacyOverlap
      <3>1. \A q \in Procs : q = p \/ privacyProc'[q] = privacyProc[q]
        BY <1>5
      <3>2. privacyProc'[p].step = "none" /\ "none" \notin PastTheMap
        BY <1>4, <1>5 DEF PastTheMap
      <3> QED BY <1>1, <2>2, <3>1, <3>2 DEF PrivacyInv, MapIsAtHand
    <2> QED BY <2>1, <2>2
  <1> QED BY <1>7, <1>8, <1>9 DEF PrivacyInv

LEMMA PrivacyStep == PrivacyInv /\ [Private!Next]_privacyVars => PrivacyInv'
  <1> SUFFICES ASSUME PrivacyInv, [Private!Next]_privacyVars PROVE PrivacyInv'
    OBVIOUS
  <1>1. CASE \E list \in EntryLists : Private!Register(list)
    <2>1. PICK list \in EntryLists : Private!Register(list)
      BY <1>1
    <2>2. list \in Seq(Registered)
      BY PrivacyAssumption DEF Registered
    <2> QED
      BY <2>1, <2>2 DEF Private!Register, Private!offloads, PrivacyInv, PrivacyTypeOK, MapIsAtHand,
         OffloadsAreWritten, Written
  <1>2. ASSUME NEW p \in Procs, NEW said \in Said,
               \/ Private!IngestLine(p, said) \/ Private!WriteTrace(p, said)
               \/ Private!GiveOut(p, said) \/ Private!PutOffload(p, said)
        PROVE  PrivacyInv'
    BY <1>2, IngestStep, TraceStep, PutStep
  <1>3. ASSUME NEW p \in Procs, NEW item \in Private!items, Private!ListTraces(p, item)
        PROVE  PrivacyInv'
    BY <1>3, ListStep
  <1>4. ASSUME NEW p \in Procs,
               Private!OpenOffload(p) \/ Private!FillOffload(p) \/ Private!RecordOffload(p)
        PROVE  PrivacyInv'
    BY <1>4, OffloadStep
  <1>5. ASSUME NEW p \in Procs, Private!SaveReverse(p) PROVE PrivacyInv'
    BY <1>5, SaveStep
  <1>6. ASSUME NEW p \in Procs, Private!Leave(p) PROVE PrivacyInv'
    BY <1>6, LeaveStep
  <1>7. CASE UNCHANGED privacyVars
    BY <1>7 DEF privacyVars, PrivacyInv, PrivacyTypeOK, MapIsAtHand, OffloadsAreWritten, Written
  <1>8. CASE Private!Next
    BY <1>1, <1>2, <1>3, <1>4, <1>5, <1>6, <1>8 DEF Private!Next
  <1> QED BY <1>7, <1>8

\* What the invariant says of a text that is restored.
LEMMA NobodyElseIsShown ==
  ASSUME PrivacyInv, NEW item \in PrivacyItems PROVE Private!NobodyIsMisnamed(item)
  <1> SUFFICES ASSUME NEW text \in item.texts, NEW i \in DOMAIN text,
                      Private!RestoreText(text)[i] \in Vocabulary
               PROVE  Private!RestoreText(text)[i] = item.said[i]
    BY DEF Private!NobodyIsMisnamed
  <1>1. Faithful(text, item.said)
    BY DEF PrivacyItems
  <1>2. text \in Text /\ DOMAIN text = 1..Len(text) /\ Len(text) \in Nat
    BY <1>1 DEF Faithful, Text
  <1> DEFINE Whole(j) == \E m \in DOMAIN privacyReverse : text[j] = <<m, 1>> /\ text[j + 1] = <<m, 2>>
             shown == Private!RestoreText(text)[i]
  <1>3. shown = IF i < Len(text) /\ Whole(i) THEN privacyReverse[text[i][1]][1]
                ELSE IF i > 1 /\ Whole(i - 1) THEN privacyReverse[text[i - 1][1]][2]
                ELSE text[i]
    BY DEF Private!RestoreText
  <1>4. ASSUME NEW j \in 1..(Len(text) - 1), Whole(j)
        PROVE  LET known == privacyReverse[text[j][1]] IN
               /\ known[1] \in Vocabulary => known[1] = item.said[j]
               /\ known[2] \in Vocabulary => known[2] = item.said[j + 1]
    <2>1. PICK m \in DOMAIN privacyReverse : IsWhole(text, j, m)
      BY <1>4 DEF IsWhole
    <2>2. m \in Matches /\ privacyReverse[m] = ShownAs(m)
      BY <2>1, MapsAreJoined DEF PrivacyInv, PrivacyTypeOK
    <2>3. text[j][1] = m
      BY <2>1 DEF IsWhole
    <2> QED BY <1>1, <2>1, <2>2, <2>3 DEF Faithful
  <1> HIDE DEF Whole, shown
  <1>5. CASE i < Len(text) /\ Whole(i)
    BY <1>2, <1>3, <1>4, <1>5 DEF shown
  <1>6. CASE ~(i < Len(text) /\ Whole(i)) /\ i > 1 /\ Whole(i - 1)
    <2>1. i - 1 \in 1..(Len(text) - 1) /\ (i - 1) + 1 = i
      BY <1>2, <1>6
    <2> DEFINE j == i - 1
    <2>2. j \in 1..(Len(text) - 1) /\ Whole(j) /\ j + 1 = i /\ shown = privacyReverse[text[j][1]][2]
      BY <1>3, <1>6, <2>1
    <2> HIDE DEF j
    <2> QED BY <1>4, <2>2 DEF shown
  <1>7. CASE ~(i < Len(text) /\ Whole(i)) /\ ~(i > 1 /\ Whole(i - 1))
    BY <1>1, <1>2, <1>3, <1>7 DEF shown, Faithful
  <1> QED BY <1>5, <1>6, <1>7

(* What is kept of a session, traced, told of an offload or given out      *)
(* names nobody who was registered and restores to what was said, for any  *)
(* texts, lists, edits, overlaps and kills; unless commands overlapped,    *)
(* all of it; and an offload on record is intact unless it was cut or is   *)
(* being written (pseudonymize_text, restore_text, _redact_record,         *)
(* put_offload).                                                           *)
THEOREM PrivacyHolds == ProfileSpec => []RevealedIsWhatWasSaid
  <1>1. ASSUME PrivacyInv PROVE Private!RevealedIsWhatWasSaid
    <2>1. ASSUME NEW item \in Private!items
          PROVE  /\ item.hidden /\ Private!NobodyIsMisnamed(item)
                 /\ privacyOverlap \/ Private!EveryoneIsRestored(item)
      <3>1. PICK p \in Procs : privacyProc[p].step = "done" /\ item = privacyProc[p].item
        BY <2>1 DEF Private!items
      <3>2. item \in PrivacyItems
        <4>1. privacyProc[p] \in PrivacySteps
          BY <1>1 DEF PrivacyInv, PrivacyTypeOK
        <4> QED BY <3>1, <4>1, StepsOfPrivacy
      <3>3. item.hidden
        BY <3>2 DEF PrivacyItems
      <3>4. Private!NobodyIsMisnamed(item)
        BY <1>1, <3>2, NobodyElseIsShown
      <3>5. ASSUME ~privacyOverlap PROVE Private!EveryoneIsRestored(item)
        <4>1. \A text \in item.texts : Knows(text, DOMAIN privacyReverse)
          BY <1>1, <3>1, <3>5 DEF PrivacyInv, MapIsAtHand, PastTheMap
        <4>2. \A list \in EntryLists : \A n \in DOMAIN list : list[n].match \in Matches
          BY DEF Matches, Registered
        <4> QED
          BY <4>1, <4>2 DEF Private!EveryoneIsRestored, Private!Placeholder, Knows, IsWhole
      <3> QED BY <3>3, <3>4, <3>5
    <2>2. ASSUME NEW text \in privacyMeta
          PROVE  \/ Private!Intact(text) \/ privacyContent[text] = "cut"
                 \/ \E p \in Procs : privacyProc[p].step = "fill" /\ privacyProc[p].item.said = text
      BY <1>1, <2>2 DEF PrivacyInv, OffloadsAreWritten, Written, Private!Intact
    <2> QED BY <2>1, <2>2 DEF Private!RevealedIsWhatWasSaid
  <1>2. PrivacyInv => RevealedIsWhatWasSaid
    BY <1>1 DEF RevealedIsWhatWasSaid
  <1>3. ProfileInit => PrivacyInv
    BY PrivacyInit DEF ProfileInit
  <1> QED BY <1>2, <1>3, PrivacyStep, PartsRun, PTL DEF ProfileSpec

-----------------------------------------------------------------------------
(* The routes.  Packs are told apart by their order, so a list of them     *)
(* sorted is what the ranks of its packs say.                              *)
IsPack(p) == p.id \in Nat /\ p.size \in Nat /\ p.rules \in BOOLEAN /\ p.source \in {"repo", "profile"}

ToldApart(packs) ==
  /\ IsFiniteSet(packs)
  /\ \A p \in packs : IsPack(p) /\ \A q \in packs : p.id = q.id => p = q

RoutesInv == ToldApart(packCustom) /\ packCustom \subseteq ProfilePacks

LEMMA RoutesInit == Packs!Init => RoutesInv
  BY FS_EmptySet DEF Packs!Init, RoutesInv, ToldApart

LEMMA RoutesStep == RoutesInv /\ [Packs!Next]_packVars => RoutesInv'
  <1> SUFFICES ASSUME RoutesInv, [Packs!Next]_packVars PROVE RoutesInv'
    OBVIOUS
  <1>1. CASE \E pack \in ProfilePacks : Packs!SavePack(pack)
    <2>1. PICK pack \in ProfilePacks : Packs!SavePack(pack)
      BY <1>1
    <2>2. packCustom' = {p \in packCustom : p.id # pack.id} \cup {pack} /\ IsPack(pack)
      BY <2>1, RoutesAssumption DEF Packs!SavePack, IsPack
    <2>3. IsFiniteSet({p \in packCustom : p.id # pack.id})
      BY FS_Subset DEF RoutesInv, ToldApart
    <2>4. IsFiniteSet(packCustom')
      BY <2>2, <2>3, FS_AddElement
    <2> QED BY <2>2, <2>4 DEF RoutesInv, ToldApart
  <1>2. CASE \E pack \in packCustom : Packs!RemovePack(pack)
    <2>1. PICK pack \in packCustom : packCustom' = packCustom \ {pack}
      BY <1>2 DEF Packs!RemovePack
    <2>2. IsFiniteSet(packCustom')
      BY <2>1, FS_RemoveElement DEF RoutesInv, ToldApart
    <2> QED BY <2>1, <2>2 DEF RoutesInv, ToldApart
  <1>3. CASE packCustom' = packCustom
    BY <1>3 DEF RoutesInv, ToldApart
  <1> QED BY <1>1, <1>2, <1>3 DEF Packs!Next, Packs!UserPromptSubmit, packVars

LEMMA PacksAreToldApart == RoutesInv => ToldApart(Packs!Packs)
  <1> SUFFICES ASSUME RoutesInv PROVE ToldApart(Packs!Packs)
    OBVIOUS
  <1> DEFINE kept == {p \in ShippedPacks : \A q \in packCustom : q.id # p.id}
  <1>1. IsFiniteSet(kept) /\ IsFiniteSet(packCustom)
    BY FS_Subset, RoutesAssumption DEF RoutesInv, ToldApart
  <1>2. Packs!Packs = packCustom \cup kept
    BY DEF Packs!Packs
  <1>3. \A p \in kept : IsPack(p)
    BY RoutesAssumption DEF IsPack
  <1>4. \A p, q \in kept : p.id = q.id => p = q
    BY RoutesAssumption
  <1>5. \A p \in kept, q \in packCustom : p.id # q.id
    OBVIOUS
  <1> HIDE DEF kept
  <1>6. IsFiniteSet(Packs!Packs)
    BY <1>1, <1>2, FS_Union
  <1> QED BY <1>2, <1>3, <1>4, <1>5, <1>6 DEF RoutesInv, ToldApart

\* In an order the elements have as many before them as their place says.
IsOrder(below, S) ==
  /\ below \in [S -> SUBSET S]
  /\ \A p \in S : p \notin below[p]
  /\ \A p, q \in S : p # q => p \in below[q] \/ q \in below[p]
  /\ \A p, q \in S : p \in below[q] => below[p] \subseteq below[q]

LEMMA Ranks ==
  ASSUME NEW S, IsFiniteSet(S), NEW below, IsOrder(below, S)
  PROVE  /\ \A p \in S : Cardinality(below[p]) + 1 \in 1..Cardinality(S)
         /\ \A p, q \in S : p \in below[q] => Cardinality(below[p]) < Cardinality(below[q])
         /\ \A i \in 1..Cardinality(S) : \E p \in S : Cardinality(below[p]) = i - 1
  <1>1. \A p \in S : IsFiniteSet(below[p]) /\ Cardinality(below[p]) \in Nat
    BY FS_Subset, FS_CardinalityType DEF IsOrder
  <1>2. Cardinality(S) \in Nat
    BY FS_CardinalityType
  <1>3. ASSUME NEW p \in S PROVE Cardinality(below[p]) < Cardinality(S)
    <2>1. below[p] \in SUBSET S /\ below[p] # S
      BY DEF IsOrder
    <2>2. Cardinality(below[p]) <= Cardinality(S) /\ Cardinality(below[p]) # Cardinality(S)
      BY <2>1, FS_Subset
    <2> QED BY <1>1, <1>2, <2>2
  <1>4. ASSUME NEW p \in S, NEW q \in S, p \in below[q]
        PROVE  Cardinality(below[p]) < Cardinality(below[q])
    <2>1. below[p] \in SUBSET below[q] /\ below[p] # below[q] /\ IsFiniteSet(below[q])
      BY <1>1, <1>4 DEF IsOrder
    <2>2. Cardinality(below[p]) <= Cardinality(below[q]) /\ Cardinality(below[p]) # Cardinality(below[q])
      BY <2>1, FS_Subset
    <2> QED BY <1>1, <2>2
  <1> DEFINE n == Cardinality(S)
             rank == [p \in S |-> Cardinality(below[p]) + 1]
  <1>5. \A p \in S : Cardinality(below[p]) + 1 \in 1..n
    BY <1>1, <1>2, <1>3
  <1>6. \A p, q \in S : p # q => rank[p] # rank[q]
    <2> SUFFICES ASSUME NEW p \in S, NEW q \in S, p # q PROVE rank[p] # rank[q]
      OBVIOUS
    <2>1. p \in below[q] \/ q \in below[p]
      BY DEF IsOrder
    <2>2. Cardinality(below[p]) # Cardinality(below[q])
      BY <1>1, <1>4, <2>1
    <2> QED BY <1>1, <2>2
  <1>7. rank \in [S -> 1..n]
    BY <1>5
  <1>8. IsFiniteSet(1..n) /\ Cardinality(1..n) = n
    BY <1>2, FS_Interval
  <1>9. \A i \in 1..n : \E p \in S : rank[p] = i
    <2> DEFINE T == 1..n
    <2>1. rank \in Injection(S, T)
      <3> HIDE DEF rank, n
      <3> QED BY <1>6, <1>7 DEF Injection, IsInjective
    <2>2. IsFiniteSet(T) /\ Cardinality(T) = Cardinality(S)
      BY <1>8
    <2> HIDE DEF rank, T
    <2>3. rank \in Surjection(S, T)
      BY <2>1, <2>2, FS_Injection
    <2>4. \A i \in T : \E p \in S : rank[p] = i
      BY <2>3 DEF Surjection
    <2> QED BY <2>4 DEF T
  <1>10. \A i \in 1..n : \E p \in S : Cardinality(below[p]) = i - 1
    <2> SUFFICES ASSUME NEW i \in 1..n PROVE \E p \in S : Cardinality(below[p]) = i - 1
      OBVIOUS
    <2>1. PICK p \in S : rank[p] = i
      BY <1>9
    <2>2. Cardinality(below[p]) = i - 1
      BY <1>1, <1>2, <2>1
    <2> QED BY <2>2
  <1> QED BY <1>4, <1>5, <1>10

\* The list of the elements of a set in an order.
ListedBy(below, S) ==
  [i \in 1..Cardinality(S) |-> CHOOSE p \in S : Cardinality(below[p]) = i - 1]

LEMMA OrderedList ==
  ASSUME NEW S, IsFiniteSet(S), NEW below, IsOrder(below, S), NEW s, s = ListedBy(below, S)
  PROVE  /\ s \in Seq(S) /\ Len(s) = Cardinality(S) /\ Cardinality(S) \in Nat
         /\ \A p \in S : \E i \in 1..Len(s) : s[i] = p
         /\ \A i, j \in 1..Len(s) : i < j => s[i] \in below[s[j]]
  <1> DEFINE n == Cardinality(S)
  <1>1. n \in Nat /\ \A p \in S : Cardinality(below[p]) \in Nat
    BY FS_Subset, FS_CardinalityType DEF IsOrder
  <1>2. /\ \A p \in S : Cardinality(below[p]) + 1 \in 1..n
        /\ \A p, q \in S : p \in below[q] => Cardinality(below[p]) < Cardinality(below[q])
        /\ \A i \in 1..n : \E p \in S : Cardinality(below[p]) = i - 1
    BY Ranks
  <1>3. \A i \in 1..n : s[i] \in S /\ Cardinality(below[s[i]]) = i - 1
    BY <1>2 DEF ListedBy
  <1>4. DOMAIN s = 1..n /\ s = [i \in 1..n |-> s[i]]
    BY DEF ListedBy
  <1> HIDE DEF n
  <1>5. s \in Seq(S) /\ Len(s) = n
    BY <1>1, <1>3, <1>4
  <1>6. ASSUME NEW p \in S, NEW q \in S, Cardinality(below[p]) < Cardinality(below[q])
        PROVE  p \in below[q]
    <2>1. p # q /\ ~(Cardinality(below[q]) < Cardinality(below[p]))
      BY <1>1, <1>6
    <2>2. q \notin below[p]
      BY <1>2, <2>1
    <2> QED BY <2>1, <2>2 DEF IsOrder
  <1>7. \A p \in S : \E i \in 1..n : s[i] = p
    <2> SUFFICES ASSUME NEW p \in S PROVE \E i \in 1..n : s[i] = p
      OBVIOUS
    <2> DEFINE i == Cardinality(below[p]) + 1
    <2>1. i \in 1..n /\ i - 1 = Cardinality(below[p])
      BY <1>1, <1>2
    <2>2. s[i] \in S /\ Cardinality(below[s[i]]) = Cardinality(below[p])
      BY <1>3, <2>1
    <2>3. s[i] \notin below[p] /\ p \notin below[s[i]]
      BY <1>1, <1>2, <2>2
    <2>4. s[i] = p
      BY <2>2, <2>3 DEF IsOrder
    <2> QED BY <2>1, <2>4
  <1>8. \A i, j \in 1..n : i < j => s[i] \in below[s[j]]
    <2> SUFFICES ASSUME NEW i \in 1..n, NEW j \in 1..n, i < j PROVE s[i] \in below[s[j]]
      OBVIOUS
    <2>1. i - 1 < j - 1
      OBVIOUS
    <2> QED BY <1>3, <1>6, <2>1
  <1> QED BY <1>1, <1>5, <1>7, <1>8 DEF n

\* The lists of the packs, by their ids and by the keys of the index.
Before(p, S) == {q \in S : Packs!ByKey(q, p)}
OfLowerId(p, S) == {q \in S : q.id < p.id}

LEMMA KeysAreAnOrder ==
  ASSUME NEW S, ToldApart(S)
  PROVE  IsOrder([p \in S |-> Before(p, S)], S)
  <1> DEFINE below == [p \in S |-> Before(p, S)]
  <1>1. \A p \in S : p.id \in Nat /\ p.source \in {"repo", "profile"} /\ \A q \in S : p.id = q.id => p = q
    BY DEF ToldApart, IsPack
  <1>2. below \in [S -> SUBSET S]
    BY DEF Before
  <1>3. \A p, q \in S : p \in below[q] <=> Packs!ByKey(p, q)
    BY DEF Before
  <1>4. \A p \in S : ~Packs!ByKey(p, p)
    BY <1>1 DEF Packs!ByKey
  <1>5. \A p, q \in S : p # q => Packs!ByKey(p, q) \/ Packs!ByKey(q, p)
    BY <1>1 DEF Packs!ByKey
  <1>6. \A p, q, r \in S : Packs!ByKey(r, p) /\ Packs!ByKey(p, q) => Packs!ByKey(r, q)
    BY <1>1 DEF Packs!ByKey
  <1> HIDE DEF below
  <1>7. \A p, q \in S : p \in below[q] => below[p] \subseteq below[q]
    <2> SUFFICES ASSUME NEW p \in S, NEW q \in S, p \in below[q], NEW r \in below[p]
                 PROVE  r \in below[q]
      OBVIOUS
    <2>1. r \in S
      BY <1>2
    <2> QED BY <1>3, <1>6, <2>1
  <1>8. IsOrder(below, S)
    BY <1>2, <1>3, <1>4, <1>5, <1>7 DEF IsOrder
  <1> QED BY <1>8 DEF below

LEMMA IdsAreAnOrder ==
  ASSUME NEW S, ToldApart(S)
  PROVE  IsOrder([p \in S |-> OfLowerId(p, S)], S)
  <1> DEFINE below == [p \in S |-> OfLowerId(p, S)]
  <1>1. \A p \in S : p.id \in Nat /\ \A q \in S : p.id = q.id => p = q
    BY DEF ToldApart, IsPack
  <1>2. below \in [S -> SUBSET S]
    BY DEF OfLowerId
  <1>3. \A p, q \in S : p \in below[q] <=> p.id < q.id
    BY DEF OfLowerId
  <1> HIDE DEF below
  <1>4. \A p \in S : p \notin below[p]
    BY <1>1, <1>3
  <1>5. \A p, q \in S : p # q => p \in below[q] \/ q \in below[p]
    <2> SUFFICES ASSUME NEW p \in S, NEW q \in S, p # q PROVE p \in below[q] \/ q \in below[p]
      OBVIOUS
    <2>1. p.id # q.id /\ p.id \in Nat /\ q.id \in Nat
      BY <1>1
    <2>2. p.id < q.id \/ q.id < p.id
      BY <2>1
    <2> QED BY <1>3, <2>2
  <1>6. \A p, q \in S : p \in below[q] => below[p] \subseteq below[q]
    <2> SUFFICES ASSUME NEW p \in S, NEW q \in S, p \in below[q], NEW r \in below[p]
                 PROVE  r \in below[q]
      OBVIOUS
    <2>1. r \in S
      BY <1>2
    <2>2. r.id < p.id /\ p.id < q.id /\ r.id \in Nat /\ p.id \in Nat /\ q.id \in Nat
      BY <1>1, <1>3, <2>1
    <2>3. r.id < q.id
      BY <2>2
    <2> QED BY <1>3, <2>1, <2>3
  <1>7. IsOrder(below, S)
    BY <1>2, <1>4, <1>5, <1>6 DEF IsOrder
  <1> QED BY <1>7 DEF below

LEMMA CountedAlike == ASSUME NEW S PROVE Packs!Cardinality(S) = Cardinality(S)
  BY Zenon DEF Packs!Cardinality, Cardinality

LEMMA SortedById ==
  ASSUME NEW S, ToldApart(S)
  PROVE  LET s == Packs!Sorted(S, Packs!ById) IN
         s \in Seq(S) /\ Len(s) = Cardinality(S) /\ Cardinality(S) \in Nat
  <1> DEFINE below == [p \in S |-> OfLowerId(p, S)]
             s == Packs!Sorted(S, Packs!ById)
  <1>1. s = [i \in 1..Packs!Cardinality(S) |->
               CHOOSE p \in S : Packs!Cardinality({q \in S : q.id < p.id}) = i - 1]
    BY DEF Packs!Sorted, Packs!ById
  <1>2. \A p \in S : {q \in S : q.id < p.id} = below[p]
    BY DEF OfLowerId
  <1>3. s = ListedBy(below, S)
    <2> DEFINE rank(p) == Packs!Cardinality({q \in S : q.id < p.id})
    <2>1. \A p \in S : rank(p) = Cardinality(below[p])
      BY <1>2, CountedAlike
    <2>2. s = [i \in 1..Cardinality(S) |-> CHOOSE p \in S : rank(p) = i - 1]
      BY <1>1, CountedAlike
    <2> HIDE DEF below, s, rank
    <2> QED BY <2>1, <2>2 DEF ListedBy
  <1>4. IsOrder(below, S) /\ IsFiniteSet(S)
    BY IdsAreAnOrder DEF ToldApart
  <1> HIDE DEF below, s
  <1>5. s \in Seq(S) /\ Len(s) = Cardinality(S) /\ Cardinality(S) \in Nat
    BY ONLY <1>3, <1>4, OrderedList
  <1> QED BY <1>5 DEF s

LEMMA IndexIsOrdered ==
  ASSUME ToldApart(Packs!Indexed), NEW order, order = Packs!IndexOrder
  PROVE  /\ order \in Seq(Packs!Indexed)
         /\ \A p \in Packs!Indexed : \E i \in 1..Len(order) : order[i] = p
         /\ \A i, j \in 1..Len(order) : i < j => Packs!ByKey(order[i], order[j])
  <1> DEFINE S == Packs!Indexed
             below == [p \in S |-> Before(p, S)]
  <1>1. order = [i \in 1..Packs!Cardinality(S) |->
                   CHOOSE p \in S : Packs!Cardinality({q \in S : Packs!ByKey(q, p)}) = i - 1]
    BY DEF Packs!Sorted, Packs!IndexOrder
  <1>2. \A p \in S : {q \in S : Packs!ByKey(q, p)} = below[p]
    BY DEF Before
  <1>3. order = ListedBy(below, S)
    <2> HIDE DEF below, S
    <2> QED BY <1>1, <1>2, CountedAlike DEF ListedBy
  <1>4. IsOrder(below, S) /\ IsFiniteSet(S)
    BY KeysAreAnOrder DEF ToldApart
  <1>5. \A p, q \in S : p \in below[q] => Packs!ByKey(p, q)
    BY DEF Before
  <1> HIDE DEF below, S
  <1>6. /\ order \in Seq(S) /\ \A p \in S : \E i \in 1..Len(order) : order[i] = p
        /\ \A i, j \in 1..Len(order) : i < j => order[i] \in below[order[j]]
    BY ONLY <1>3, <1>4, OrderedList
  <1>7. \A i \in 1..Len(order) : order[i] \in S
    BY <1>6
  <1> QED BY <1>5, <1>6, <1>7 DEF S

\* Sizes are sums of natural numbers.
LEMMA WeightIsASum ==
  ASSUME NEW S, IsFiniteSet(S), \A p \in S : p.size \in Nat
  PROVE  \E jt : IsTotal(jt, [p \in S |-> p.size], S) /\ Packs!Weight(S) = jt[S]
  <1> DEFINE f == [p \in S |-> p.size]
             C(it) == it = [s \in SUBSET S |-> IF s = {} THEN 0
                        ELSE (CHOOSE x \in s : TRUE).size + it[s \ {CHOOSE x \in s : TRUE}]]
  <1>1. f \in [S -> Nat]
    OBVIOUS
  <1>2. \A s \in SUBSET S : s # {} => f[CHOOSE x \in s : TRUE] = (CHOOSE x \in s : TRUE).size
    OBVIOUS
  <1>3. \A it : C(it) <=> Sums(it, f, S)
    <2> HIDE DEF f
    <2> QED BY <1>2 DEF Sums
  <1>4. PICK jt : OnlySum(jt, f, S)
    <2> HIDE DEF f
    <2> QED BY <1>1, OneSum
  <1>5. (CHOOSE it : C(it)) = jt
    <2> HIDE DEF f, C
    <2> QED BY <1>3, <1>4 DEF OnlySum
  <1>6. Packs!Weight(S) = (CHOOSE it : C(it))[S]
    BY DEF Packs!Weight, Packs!MapThenSumSet, Packs!MapThenFoldSet
  <1>7. Packs!Weight(S) = jt[S]
    BY <1>5, <1>6
  <1>8. IsTotal(jt, f, S)
    BY <1>4 DEF OnlySum
  <1> QED BY <1>7, <1>8

LEMMA WeightIsCounted ==
  ASSUME NEW S, IsFiniteSet(S), \A p \in S : p.size \in Nat
  PROVE  Packs!Weight(S) \in Nat /\ (S = {} => Packs!Weight(S) = 0)
  <1>1. PICK jt : IsTotal(jt, [p \in S |-> p.size], S) /\ Packs!Weight(S) = jt[S]
    BY WeightIsASum
  <1> QED BY <1>1 DEF IsTotal

LEMMA WeightAdds ==
  ASSUME NEW S, IsFiniteSet(S), \A p \in S : p.size \in Nat, NEW x, x \notin S, x.size \in Nat
  PROVE  Packs!Weight(S \cup {x}) = x.size + Packs!Weight(S)
  <1> DEFINE R == S \cup {x}
             f == [p \in S |-> p.size]
             g == [p \in R |-> p.size]
  <1>1. IsFiniteSet(R) /\ \A p \in R : p.size \in Nat
    BY FS_AddElement
  <1>2. /\ f \in [S -> Nat] /\ g \in [R -> Nat] /\ g[x] = x.size
        /\ \A p \in S : g[p] = f[p]
    BY <1>1
  <1>3. PICK it : IsTotal(it, f, S) /\ Packs!Weight(S) = it[S]
    BY WeightIsASum
  <1>4. PICK jt : IsTotal(jt, g, R) /\ Packs!Weight(R) = jt[R]
    <2> HIDE DEF R
    <2> QED BY <1>1, WeightIsASum
  <1> HIDE DEF f, g
  <1>5. jt[R] = g[x] + it[S]
    BY <1>2, <1>3, <1>4, SumAdds
  <1> QED BY <1>2, <1>3, <1>4, <1>5

LEMMA LessWeighsLess ==
  ASSUME NEW S, IsFiniteSet(S), \A p \in S : p.size \in Nat, NEW T \in SUBSET S
  PROVE  Packs!Weight(T) <= Packs!Weight(S)
  <1> DEFINE B == {U \in SUBSET S : T \subseteq U /\ ~(Packs!Weight(T) <= Packs!Weight(U))}
  <1>1. \A U \in SUBSET S : IsFiniteSet(U) /\ Packs!Weight(U) \in Nat
    <2> SUFFICES ASSUME NEW U \in SUBSET S PROVE IsFiniteSet(U) /\ Packs!Weight(U) \in Nat
      OBVIOUS
    <2>1. IsFiniteSet(U)
      BY FS_Subset
    <2> QED BY <2>1, WeightIsCounted
  <1>2. SUFFICES ASSUME B # {} PROVE FALSE
    OBVIOUS
  <1>3. PICK U \in B : \A V \in B : ~(Cardinality(V) < Cardinality(U))
    <2>1. B \subseteq SUBSET S
      OBVIOUS
    <2> HIDE DEF B
    <2> QED BY <1>2, <2>1, Smallest
  <1>4. U # T
    BY <1>1
  <1>5. PICK x \in U : x \notin T
    BY <1>4
  <1> DEFINE V == U \ {x}
  <1>6. V \in SUBSET S /\ T \subseteq V /\ x \notin V /\ U = V \cup {x} /\ x.size \in Nat
    BY <1>5
  <1>7. Cardinality(V) < Cardinality(U)
    BY OneLess
  <1> HIDE DEF V
  <1>8. Packs!Weight(T) <= Packs!Weight(V)
    BY <1>3, <1>6, <1>7
  <1>9. Packs!Weight(U) = x.size + Packs!Weight(V)
    BY <1>1, <1>6, WeightAdds
  <1>10. ~(Packs!Weight(T) <= Packs!Weight(U))
    OBVIOUS
  <1> QED BY <1>1, <1>6, <1>8, <1>9, <1>10


LEMMA SizeIsCounted ==
  ASSUME NEW items, NEW n \in Nat, DOMAIN items = 1..n, \A i \in 1..n : items[i].size \in Nat
  PROVE  Packs!SizeOf(items) \in Nat
  <1> DEFINE S == 1..n
             f == [i \in S |-> items[i].size]
             C(it) == it = [s \in SUBSET S |-> IF s = {} THEN 0
                        ELSE items[CHOOSE x \in s : TRUE].size + it[s \ {CHOOSE x \in s : TRUE}]]
  <1>1. f \in [S -> Nat] /\ IsFiniteSet(S)
    BY FS_Interval
  <1>2. \A s \in SUBSET S : s # {} => f[CHOOSE x \in s : TRUE] = items[CHOOSE x \in s : TRUE].size
    OBVIOUS
  <1>3. \A it : C(it) <=> Sums(it, f, S)
    <2> HIDE DEF f, S
    <2> QED BY <1>2 DEF Sums
  <1>4. PICK jt : OnlySum(jt, f, S)
    <2> HIDE DEF f, S
    <2> QED BY <1>1, OneSum
  <1>5. (CHOOSE it : C(it)) = jt
    <2> HIDE DEF f, C, S
    <2> QED BY <1>3, <1>4 DEF OnlySum
  <1>6. Packs!SizeOf(items) = (CHOOSE it : C(it))[S]
    BY DEF Packs!SizeOf, Packs!MapThenSumSet, Packs!MapThenFoldSet
  <1>7. Packs!SizeOf(items) = jt[S]
    BY <1>5, <1>6
  <1> HIDE DEF f, S
  <1> QED BY <1>4, <1>7 DEF OnlySum, IsTotal

\* What is kept, and what was dropped, of the entries seen.  An entry with
\* rules was dropped because it does not fit next to those before it.
IndexStates(S) == [kept : SUBSET S, dropped : SUBSET S]

IndexOK(acc, S) ==
  /\ acc \in IndexStates(S) /\ Packs!Fits(acc.kept)
  /\ acc.kept \cap acc.dropped = {} /\ acc.kept \cup acc.dropped = S
  /\ \A x \in acc.dropped :
       x.rules => ~Packs!Fits({e \in acc.kept : e.rules /\ Packs!ByKey(e, x)} \cup {x})

\* Those that make way are the last without rules, as few as are enough.
LEMMA MakesWay ==
  ASSUME NEW S, ToldApart(S), NEW enough, enough \subseteq S, enough # {}
  PROVE  \E x \in enough : \A d \in S :
           ~Packs!ByKey(d, x) <=> \A e \in enough : ~Packs!ByKey(d, e)
  <1>1. \A p \in S : p.id \in Nat /\ p.source \in {"repo", "profile"} /\ \A q \in S : p.id = q.id => p = q
    BY DEF ToldApart, IsPack
  <1>2. \A p, q \in S : p # q => Packs!ByKey(p, q) \/ Packs!ByKey(q, p)
    BY <1>1 DEF Packs!ByKey
  <1>3. \A p, q, r \in S : Packs!ByKey(r, p) /\ Packs!ByKey(p, q) => Packs!ByKey(r, q)
    BY <1>1 DEF Packs!ByKey
  <1>4. \A p \in S : ~Packs!ByKey(p, p)
    BY <1>1 DEF Packs!ByKey
  <1>5. PICK x \in enough : \A e \in enough : ~Packs!ByKey(x, e)
    <2> DEFINE after(e) == {d \in S : Packs!ByKey(e, d)}
               A == {after(e) : e \in enough}
    <2>1. A \subseteq SUBSET S /\ A # {}
      OBVIOUS
    <2>2. PICK a \in A : \A u \in A : ~(Cardinality(u) < Cardinality(a))
      <3> HIDE DEF A
      <3> QED BY <2>1, Smallest DEF ToldApart
    <2>3. PICK x \in enough : a = after(x)
      BY <2>2
    <2>4. ASSUME NEW e \in enough, Packs!ByKey(x, e) PROVE FALSE
      <3>1. after(e) \in SUBSET after(x) /\ after(e) # after(x) /\ IsFiniteSet(after(x))
        <4>1. e \in after(x) /\ e \notin after(e)
          BY <1>4, <2>4
        <4>2. after(e) \subseteq after(x)
          BY <1>3, <2>4
        <4>3. IsFiniteSet(after(x))
          BY FS_Subset DEF ToldApart
        <4> QED BY <4>1, <4>2, <4>3
      <3> DEFINE y == after(x)
                 z == after(e)
      <3>2. z \in SUBSET y /\ z # y /\ IsFiniteSet(y) /\ ~(Cardinality(z) < Cardinality(y))
        BY <2>2, <2>3, <3>1
      <3> HIDE DEF y, z
      <3>3. Cardinality(z) <= Cardinality(y) /\ Cardinality(z) # Cardinality(y)
            /\ IsFiniteSet(z)
        BY <3>2, FS_Subset
      <3>4. Cardinality(z) \in Nat /\ Cardinality(y) \in Nat
        BY <3>2, <3>3, FS_CardinalityType
      <3> QED BY <3>2, <3>3, <3>4
    <2> QED BY <2>3, <2>4
  <1>6. ASSUME NEW d \in S, ~Packs!ByKey(d, x), NEW e \in enough PROVE ~Packs!ByKey(d, e)
    <2>1. e = x \/ Packs!ByKey(e, x)
      BY <1>2, <1>5
    <2> QED BY <1>3, <1>6, <2>1
  <1> QED BY <1>6

\* The same the other way round.
LEMMA TheFirst ==
  ASSUME NEW S, ToldApart(S), NEW some, some \subseteq S, some # {}
  PROVE  \E x \in some : \A e \in some : ~Packs!ByKey(e, x)
  <1> DEFINE below == [p \in S |-> Before(p, S)]
             B == {below[x] : x \in some}
  <1>1. IsOrder(below, S) /\ IsFiniteSet(S)
    BY KeysAreAnOrder DEF ToldApart
  <1>2. \A p, q \in S : p \in below[q] <=> Packs!ByKey(p, q)
    BY DEF Before
  <1> HIDE DEF below
  <1>3. B \subseteq SUBSET S /\ B # {}
    BY <1>1 DEF IsOrder
  <1>4. PICK b \in B : \A u \in B : ~(Cardinality(u) < Cardinality(b))
    <2> HIDE DEF B
    <2> QED BY <1>1, <1>3, Smallest
  <1>5. PICK x \in some : b = below[x]
    BY <1>4
  <1>6. \A p, q \in S : p \in below[q] => Cardinality(below[p]) < Cardinality(below[q])
    BY <1>1, Ranks
  <1>7. ASSUME NEW e \in some PROVE ~Packs!ByKey(e, x)
    <2>1. ~(Cardinality(below[e]) < Cardinality(below[x]))
      BY <1>4, <1>5
    <2> QED BY <1>2, <1>6, <2>1
  <1> QED BY <1>7

LEMMA Evicts ==
  ASSUME NEW S, ToldApart(S), NEW kept, kept \subseteq S, Packs!Fits(kept),
         NEW entry \in S, ~Packs!Fits(kept \cup {entry}),
         NEW after, after = Packs!EvictDroppable(kept, entry)
  PROVE  \E gone \in SUBSET {e \in kept : ~e.rules} :
           \/ /\ after = [kept |-> kept \ gone, dropped |-> gone \cup {entry}]
              /\ ~Packs!Fits({e \in kept : e.rules} \cup {entry}) /\ Packs!Fits(kept \ gone)
           \/ /\ after = [kept |-> (kept \ gone) \cup {entry}, dropped |-> gone]
              /\ Packs!Fits((kept \ gone) \cup {entry})
  <1> DEFINE droppable == {e \in kept : ~e.rules}
             From(e) == {d \in droppable : ~Packs!ByKey(d, e)}
             enough == {e \in droppable : Packs!Fits((kept \ From(e)) \cup {entry})}
             gone == {d \in droppable : \A e \in enough : ~Packs!ByKey(d, e)}
  <1>1. after = IF enough = {} THEN [kept |-> kept \ gone, dropped |-> gone \cup {entry}]
                ELSE [kept |-> (kept \ gone) \cup {entry}, dropped |-> gone]
    BY DEF Packs!EvictDroppable
  <1>2. gone \subseteq droppable /\ droppable \subseteq S /\ enough \subseteq droppable
    OBVIOUS
  <1>3. CASE enough = {}
    <2>1. gone = droppable /\ kept \ gone = {e \in kept : e.rules}
      BY <1>3
    <2>2. ~Packs!Fits({e \in kept : e.rules} \cup {entry})
      <3>1. CASE droppable = {}
        <4>1. {e \in kept : e.rules} = kept
          BY <3>1
        <4> QED BY <4>1
      <3>2. CASE droppable # {}
        <4>1. PICK x \in droppable : \A e \in droppable : ~Packs!ByKey(e, x)
          <5> HIDE DEF droppable
          <5> QED BY <1>2, <3>2, TheFirst
        <4>2. From(x) = droppable
          BY <4>1
        <4>3. kept \ From(x) = {e \in kept : e.rules}
          BY <4>2
        <4>4. ~Packs!Fits((kept \ From(x)) \cup {entry})
          BY <1>3, <4>1
        <4> QED BY <4>3, <4>4
      <3> QED BY <3>1, <3>2
    <2>3. Packs!Fits(kept \ gone)
      <3>1. IsFiniteSet(kept) /\ IsFiniteSet(kept \ gone) /\ kept \ gone \in SUBSET kept
        BY FS_Subset DEF ToldApart
      <3>2. \A p \in kept : p.size \in Nat
        BY DEF ToldApart, IsPack
      <3> DEFINE stay == kept \ gone
      <3>3. stay \in SUBSET kept /\ IsFiniteSet(stay)
        BY <3>1
      <3> HIDE DEF stay, gone
      <3>4. Packs!Weight(stay) <= Packs!Weight(kept)
        BY <3>1, <3>2, <3>3, LessWeighsLess
      <3>5. Packs!Weight(stay) \in Nat /\ Packs!Weight(kept) \in Nat
        BY <3>1, <3>2, <3>3, WeightIsCounted
      <3>6. Packs!Weight(kept) <= IndexBudget /\ IndexBudget \in Nat
        BY RoutesAssumption DEF Packs!Fits
      <3>7. Packs!Weight(stay) <= IndexBudget
        BY <3>4, <3>5, <3>6
      <3> QED BY <3>7 DEF Packs!Fits, stay
    <2> HIDE DEF gone
    <2> QED BY <1>1, <1>2, <1>3, <2>2, <2>3
  <1>4. CASE enough # {}
    <2>1. PICK x \in enough : \A d \in S :
            ~Packs!ByKey(d, x) <=> \A e \in enough : ~Packs!ByKey(d, e)
      <3>1. enough \subseteq S
        BY <1>2
      <3> HIDE DEF enough
      <3> QED BY <1>4, <3>1, MakesWay
    <2>2. gone = From(x)
      BY <1>2, <2>1
    <2>3. Packs!Fits((kept \ From(x)) \cup {entry})
      BY <2>1
    <2>4. Packs!Fits((kept \ gone) \cup {entry})
      BY <2>2, <2>3
    <2> HIDE DEF gone
    <2> QED BY <1>1, <1>2, <1>4, <2>4
  <1> QED BY <1>3, <1>4

LEMMA IndexEntryKeeps ==
  ASSUME NEW S, ToldApart(S), NEW seen, seen \subseteq S, NEW acc, IndexOK(acc, seen),
         NEW entry \in S, entry \notin seen, \A p \in seen : Packs!ByKey(p, entry)
  PROVE  IndexOK(Packs!IndexEntry(acc, entry), seen \cup {entry})
  <1> DEFINE kept == acc.kept
             dropped == acc.dropped
             next == Packs!IndexEntry(acc, entry)
             Before1(k, x) == {e \in k : e.rules /\ Packs!ByKey(e, x)}
  <1>1. /\ acc = [kept |-> kept, dropped |-> dropped]
        /\ kept \subseteq seen /\ dropped \subseteq seen /\ kept \cap dropped = {}
        /\ kept \cup dropped = seen /\ Packs!Fits(kept)
        /\ \A x \in dropped : x.rules => ~Packs!Fits(Before1(kept, x) \cup {x})
    BY DEF IndexOK, IndexStates
  <1>2. \A p \in seen : ~Packs!ByKey(entry, p)
    <2> SUFFICES ASSUME NEW p \in seen PROVE ~Packs!ByKey(entry, p)
      OBVIOUS
    <2>1. /\ p.id \in Nat /\ entry.id \in Nat /\ p.source \in {"repo", "profile"}
          /\ entry.source \in {"repo", "profile"} /\ Packs!ByKey(p, entry)
      BY DEF ToldApart, IsPack
    <2> QED BY <2>1 DEF Packs!ByKey
  <1>3. next = IF Packs!Fits(kept \cup {entry})
               THEN [kept |-> kept \cup {entry}, dropped |-> dropped]
               ELSE IF entry.rules
               THEN [Packs!EvictDroppable(kept, entry) EXCEPT !.dropped = @ \cup dropped]
               ELSE [kept |-> kept, dropped |-> dropped \cup {entry}]
    BY <1>1 DEF Packs!IndexEntry
  <1>4. ASSUME NEW k, NEW gone \in SUBSET {e \in kept : ~e.rules},
               k = kept \ gone \/ k = (kept \ gone) \cup {entry}, NEW x \in dropped
        PROVE  Before1(k, x) = Before1(kept, x)
    <2>1. ~Packs!ByKey(entry, x)
      BY <1>1, <1>2
    <2> QED BY <1>4, <2>1
  <1> HIDE DEF next
  <1>5. CASE Packs!Fits(kept \cup {entry})
    <2> DEFINE k == kept \cup {entry}
    <2>1. next = [kept |-> k, dropped |-> dropped]
      BY <1>3, <1>5
    <2>2. \A x \in dropped : Before1(k, x) = Before1(kept, x)
      <3>1. {} \in SUBSET {e \in kept : ~e.rules} /\ k = (kept \ {}) \cup {entry}
        OBVIOUS
      <3> HIDE DEF k
      <3> QED BY <1>4, <3>1
    <2>3. \A x \in dropped : x.rules => ~Packs!Fits(Before1(k, x) \cup {x})
      BY <1>1, <2>2
    <2>4. /\ k \subseteq seen \cup {entry} /\ dropped \subseteq seen \cup {entry}
          /\ k \cap dropped = {} /\ k \cup dropped = seen \cup {entry}
      BY <1>1
    <2>5. Packs!Fits(k)
      BY <1>5
    <2> HIDE DEF k, dropped
    <2> QED BY <2>1, <2>3, <2>4, <2>5 DEF IndexOK, IndexStates, next
  <1>6. CASE ~Packs!Fits(kept \cup {entry}) /\ ~entry.rules
    <2> DEFINE d == dropped \cup {entry}
    <2>1. next = [kept |-> kept, dropped |-> d]
      BY <1>3, <1>6
    <2>2. \A x \in d : x.rules => ~Packs!Fits(Before1(kept, x) \cup {x})
      BY <1>1, <1>6
    <2>3. /\ kept \subseteq seen \cup {entry} /\ d \subseteq seen \cup {entry}
          /\ kept \cap d = {} /\ kept \cup d = seen \cup {entry}
      BY <1>1
    <2>4. Packs!Fits(kept)
      BY <1>1
    <2> HIDE DEF d, kept
    <2> QED BY <2>1, <2>2, <2>3, <2>4 DEF IndexOK, IndexStates, next
  <1>7. CASE ~Packs!Fits(kept \cup {entry}) /\ entry.rules
    <2> DEFINE after == Packs!EvictDroppable(kept, entry)
    <2>1. PICK gone \in SUBSET {e \in kept : ~e.rules} :
           \/ /\ after = [kept |-> kept \ gone, dropped |-> gone \cup {entry}]
              /\ ~Packs!Fits({e \in kept : e.rules} \cup {entry}) /\ Packs!Fits(kept \ gone)
           \/ /\ after = [kept |-> (kept \ gone) \cup {entry}, dropped |-> gone]
              /\ Packs!Fits((kept \ gone) \cup {entry})
      <3>1. /\ kept \subseteq S /\ Packs!Fits(kept) /\ ~Packs!Fits(kept \cup {entry})
            /\ after = Packs!EvictDroppable(kept, entry)
        BY <1>1, <1>7
      <3> HIDE DEF kept, after
      <3> QED BY <3>1, Evicts
    <2>2. next = [after EXCEPT !.dropped = @ \cup dropped]
      BY <1>3, <1>7
    <2>3. \A x \in gone : ~x.rules
      OBVIOUS
    <2>4. CASE /\ after = [kept |-> kept \ gone, dropped |-> gone \cup {entry}]
               /\ ~Packs!Fits({e \in kept : e.rules} \cup {entry}) /\ Packs!Fits(kept \ gone)
      <3> DEFINE k == kept \ gone
                 d == gone \cup {entry} \cup dropped
      <3>1. next = [kept |-> k, dropped |-> d]
        <4> HIDE DEF after, dropped
        <4> QED BY <2>2, <2>4
      <3>2. Before1(k, entry) = {e \in kept : e.rules}
        BY <1>1, <2>3
      <3>3. ~Packs!Fits(Before1(k, entry) \cup {entry})
        BY <2>4, <3>2
      <3>4. \A x \in dropped : Before1(k, x) = Before1(kept, x)
        BY <1>4
      <3>5. \A x \in d : x.rules => ~Packs!Fits(Before1(k, x) \cup {x})
        BY <1>1, <2>3, <3>3, <3>4
      <3>6. /\ k \subseteq seen \cup {entry} /\ d \subseteq seen \cup {entry}
            /\ k \cap d = {} /\ k \cup d = seen \cup {entry}
        BY <1>1
      <3>7. Packs!Fits(k)
        BY <2>4
      <3> HIDE DEF k, d
      <3> QED BY <3>1, <3>5, <3>6, <3>7 DEF IndexOK, IndexStates, next
    <2>5. CASE /\ after = [kept |-> (kept \ gone) \cup {entry}, dropped |-> gone]
               /\ Packs!Fits((kept \ gone) \cup {entry})
      <3> DEFINE k == (kept \ gone) \cup {entry}
                 d == gone \cup dropped
      <3>1. next = [kept |-> k, dropped |-> d]
        <4> HIDE DEF after, dropped
        <4> QED BY <2>2, <2>5
      <3>2. \A x \in dropped : Before1(k, x) = Before1(kept, x)
        BY <1>4
      <3>3. \A x \in d : x.rules => ~Packs!Fits(Before1(k, x) \cup {x})
        BY <1>1, <2>3, <3>2
      <3>4. /\ k \subseteq seen \cup {entry} /\ d \subseteq seen \cup {entry}
            /\ k \cap d = {} /\ k \cup d = seen \cup {entry}
        BY <1>1
      <3>5. Packs!Fits(k)
        BY <2>5
      <3> HIDE DEF k, d
      <3> QED BY <3>1, <3>3, <3>4, <3>5 DEF IndexOK, IndexStates, next
    <2> QED BY <2>1, <2>4, <2>5
  <1> QED BY <1>5, <1>6, <1>7 DEF next

LEMMA EntryIsTaken ==
  ASSUME NEW S, NEW acc \in IndexStates(S), NEW entry \in S
  PROVE  Packs!IndexEntry(acc, entry) \in IndexStates(S)
  <1> DEFINE kept == acc.kept
             dropped == acc.dropped
             after == Packs!EvictDroppable(kept, entry)
  <1>1. acc = [kept |-> kept, dropped |-> dropped] /\ kept \subseteq S /\ dropped \subseteq S
    BY DEF IndexStates
  <1>2. after \in IndexStates(S)
    <2> DEFINE droppable == {e \in kept : ~e.rules}
               From(e) == {d \in droppable : ~Packs!ByKey(d, e)}
               enough == {e \in droppable : Packs!Fits((kept \ From(e)) \cup {entry})}
               gone == {d \in droppable : \A e \in enough : ~Packs!ByKey(d, e)}
    <2>1. after = IF enough = {} THEN [kept |-> kept \ gone, dropped |-> gone \cup {entry}]
                  ELSE [kept |-> (kept \ gone) \cup {entry}, dropped |-> gone]
      BY DEF Packs!EvictDroppable
    <2>2. gone \subseteq S
      BY <1>1
    <2> HIDE DEF gone, enough, kept
    <2> QED BY <1>1, <2>1, <2>2 DEF IndexStates
  <1>3. CASE Packs!Fits(kept \cup {entry})
    <2>1. Packs!IndexEntry(acc, entry) = [acc EXCEPT !.kept = @ \cup {entry}]
      BY <1>3 DEF Packs!IndexEntry
    <2> QED BY <2>1 DEF IndexStates
  <1>4. CASE ~Packs!Fits(kept \cup {entry}) /\ entry.rules
    <2>1. Packs!IndexEntry(acc, entry) =
            [Packs!EvictDroppable(kept, entry) EXCEPT !.dropped = @ \cup acc.dropped]
      BY <1>4 DEF Packs!IndexEntry
    <2> HIDE DEF kept
    <2>2. Packs!IndexEntry(acc, entry) = [after EXCEPT !.dropped = @ \cup dropped]
      BY <2>1
    <2> HIDE DEF after, dropped
    <2> QED BY <1>1, <1>2, <2>2 DEF IndexStates
  <1>5. CASE ~Packs!Fits(kept \cup {entry}) /\ ~entry.rules
    <2>1. Packs!IndexEntry(acc, entry) = [acc EXCEPT !.dropped = @ \cup {entry}]
      BY <1>5 DEF Packs!IndexEntry
    <2> QED BY <2>1 DEF IndexStates
  <1> QED BY <1>3, <1>4, <1>5

LEMMA FinalPlace ==
  ASSUME NEW n \in Nat
  PROVE  /\ \A s \in SUBSET (1..n) : s # {} => Packs!Max(s) \in s /\ \A y \in s : y <= Packs!Max(s)
         /\ \A k \in 1..n : /\ Packs!Max(1..k) = k /\ (1..k) \ {k} = 1..(k - 1)
                            /\ 1..k \in SUBSET (1..n) /\ 1..k # {}
  <1>1. ASSUME NEW s \in SUBSET (1..n), s # {}
        PROVE  Packs!Max(s) \in s /\ \A y \in s : y <= Packs!Max(s)
    <2>1. Packs!Max(s) = Journal!Max(s)
      BY Zenon DEF Packs!Max, Journal!Max
    <2>2. Journal!Max(s) \in s /\ \A y \in s : y <= Journal!Max(s)
      BY <1>1, LastOne
    <2> QED BY <2>1, <2>2
  <1>2. ASSUME NEW k \in 1..n
        PROVE  /\ Packs!Max(1..k) = k /\ (1..k) \ {k} = 1..(k - 1)
               /\ 1..k \in SUBSET (1..n) /\ 1..k # {}
    <2>1. 1..k \in SUBSET (1..n) /\ k \in 1..k /\ (1..k) \ {k} = 1..(k - 1)
      OBVIOUS
    <2>2. Packs!Max(1..k) \in 1..k /\ k <= Packs!Max(1..k)
      BY <1>1, <2>1
    <2> QED BY <2>1, <2>2
  <1> QED BY <1>1, <1>2

\* _command_index is a fold over the entries in their order.
Indexes(it, order) ==
  it = [s \in SUBSET DOMAIN order |->
          IF s = {} THEN [kept |-> {}, dropped |-> {}]
          ELSE Packs!IndexEntry(it[s \ {Packs!Max(s)}], order[Packs!Max(s)])]

LEMMA IndexIsAFold ==
  ASSUME NEW order
  PROVE  Packs!CommandIndex(order) = (CHOOSE it : Indexes(it, order))[DOMAIN order]
  BY DEF Packs!CommandIndex, Packs!FoldLeft, Packs!MapThenFoldSet, Indexes

LEMMA IndexExists ==
  ASSUME NEW S, NEW n \in Nat, NEW order \in [1..n -> S]
  PROVE  \E it : Indexes(it, order)
  <1> DEFINE T == 1..n
             V == IndexStates(S)
             base == [kept |-> {}, dropped |-> {}]
             step == [i \in T |-> [v \in V |-> Packs!IndexEntry(v, order[i])]]
             pick == [s \in SUBSET T |-> Packs!Max(s)]
  <1>1. IsFiniteSet(T) /\ DOMAIN order = T /\ \A i \in T : order[i] \in S
    BY FS_Interval
  <1>2. \A s \in SUBSET T : s # {} => pick[s] \in s
    BY FinalPlace
  <1>3. base \in V
    BY DEF IndexStates
  <1>4. \A i \in T : \A v \in V : step[i][v] = Packs!IndexEntry(v, order[i]) /\ step[i][v] \in V
    BY <1>1, EntryIsTaken
  <1>5. \A s \in SUBSET T : pick[s] = Packs!Max(s)
    OBVIOUS
  <1> HIDE DEF step, pick, V, T, base
  <1>6. HasFold(T, V, base, step, pick)
    BY <1>1, <1>2, <1>3, <1>4, FoldExists
  <1>7. PICK it : it \in [SUBSET T -> V] /\ IsFold(it, T, base, step, pick)
    BY <1>6 DEF HasFold
  <1>8. ASSUME NEW s \in SUBSET T
        PROVE  it[s] = IF s = {} THEN base
                       ELSE Packs!IndexEntry(it[s \ {Packs!Max(s)}], order[Packs!Max(s)])
    <2>1. CASE s = {}
      BY <1>7, <2>1 DEF IsFold
    <2>2. CASE s # {}
      <3> DEFINE x == Packs!Max(s)
                 w == it[s \ {x}]
      <3>1. x = pick[s] /\ x \in s /\ x \in T /\ s \ {x} \in SUBSET T
        BY <1>2, <1>5, <2>2
      <3>2. w \in V
        BY <1>7, <3>1
      <3>3. it[s] = step[x][w]
        BY <1>7, <2>2, <3>1 DEF IsFold
      <3> HIDE DEF x, w
      <3>4. step[x][w] = Packs!IndexEntry(w, order[x])
        BY <1>4, <3>1, <3>2
      <3> QED BY <2>2, <3>3, <3>4 DEF x, w
    <2> QED BY <2>1, <2>2
  <1>9. it = [s \in SUBSET T |->
                IF s = {} THEN base
                ELSE Packs!IndexEntry(it[s \ {Packs!Max(s)}], order[Packs!Max(s)])]
    <2>1. it = [s \in SUBSET T |-> it[s]]
      BY <1>7
    <2> QED BY <1>8, <2>1
  <1>10. Indexes(it, order)
    BY Zenon, <1>1, <1>9 DEF Indexes, base
  <1> QED BY <1>10

LEMMA IndexHolds ==
  ASSUME NEW S, ToldApart(S), NEW order \in Seq(S),
         \A p \in S : \E i \in 1..Len(order) : order[i] = p,
         \A i, j \in 1..Len(order) : i < j => Packs!ByKey(order[i], order[j])
  PROVE  IndexOK(Packs!CommandIndex(order), S)
  <1> DEFINE n == Len(order)
             Seen(k) == {order[i] : i \in 1..k}
  <1>1. n \in Nat /\ order \in [1..n -> S] /\ DOMAIN order = 1..n
    OBVIOUS
  <1>2. PICK it : it = (CHOOSE i : Indexes(i, order)) /\ Indexes(it, order)
    BY <1>1, IndexExists
  <1>3. Packs!CommandIndex(order) = it[1..n]
    BY <1>1, <1>2, IndexIsAFold
  <1>4. it[1..0] = [kept |-> {}, dropped |-> {}]
    <2>1. 1..0 = {} /\ {} \in SUBSET DOMAIN order
      OBVIOUS
    <2> QED BY <1>2, <2>1 DEF Indexes
  <1>5. \A k \in 1..n : it[1..k] = Packs!IndexEntry(it[1..(k - 1)], order[k])
    <2> SUFFICES ASSUME NEW k \in 1..n PROVE it[1..k] = Packs!IndexEntry(it[1..(k - 1)], order[k])
      OBVIOUS
    <2> DEFINE s == 1..k
    <2>1. Packs!Max(s) = k /\ s \ {k} = 1..(k - 1) /\ s \in SUBSET DOMAIN order /\ s # {}
      BY <1>1, FinalPlace
    <2> HIDE DEF s
    <2>2. it[s] = Packs!IndexEntry(it[s \ {k}], order[k])
      BY <1>2, <2>1 DEF Indexes
    <2> QED BY <2>1, <2>2 DEF s
  <1>6. \A i, j \in 1..n : i < j => order[i] # order[j]
    <2> SUFFICES ASSUME NEW i \in 1..n, NEW j \in 1..n, i < j, order[i] = order[j] PROVE FALSE
      OBVIOUS
    <2>1. order[i] \in S /\ Packs!ByKey(order[i], order[i])
      BY <1>1
    <2>2. order[i].id \in Nat
      BY <2>1 DEF ToldApart, IsPack
    <2> QED BY <2>1, <2>2 DEF Packs!ByKey
  <1> DEFINE Holds(k) == IndexOK(it[1..k], Seen(k))
  <1>7. Holds(0)
    <2>1. Seen(0) = {}
      OBVIOUS
    <2>2. Packs!Fits({})
      BY FS_EmptySet, WeightIsCounted, RoutesAssumption DEF Packs!Fits
    <2> HIDE DEF Seen
    <2> QED BY <1>4, <2>1, <2>2 DEF IndexOK, IndexStates
  <1>8. ASSUME NEW k \in 1..n, Holds(k - 1) PROVE Holds(k)
    <2> DEFINE seen == Seen(k - 1)
               entry == order[k]
               acc == it[1..(k - 1)]
    <2>1. seen \subseteq S /\ entry \in S
      BY <1>1
    <2>2. entry \notin seen /\ \A p \in seen : Packs!ByKey(p, entry)
      BY <1>1, <1>6
    <2>3. Seen(k) = seen \cup {entry}
      <3>1. 1..k = 1..(k - 1) \cup {k}
        OBVIOUS
      <3> QED BY <3>1
    <2>4. IndexOK(acc, seen)
      BY <1>8
    <2> HIDE DEF seen, entry, acc, Seen
    <2>5. IndexOK(Packs!IndexEntry(acc, entry), seen \cup {entry})
      BY <2>1, <2>2, <2>4, IndexEntryKeeps
    <2>6. it[1..k] = Packs!IndexEntry(acc, entry)
      BY <1>5 DEF acc, entry
    <2> QED BY <2>3, <2>5, <2>6
  <1>9. Holds(n)
    <2> DEFINE B == {k \in 0..n : ~Holds(k)}
    <2> HIDE DEF Holds
    <2>1. SUFFICES ASSUME B # {} PROVE FALSE
      BY <1>1
    <2>2. PICK k \in B : \A m \in B : k <= m
      <3>1. B \subseteq Nat
        OBVIOUS
      <3> HIDE DEF B
      <3> QED BY <2>1, <3>1, HasLeast
    <2>3. k \in 1..n /\ k - 1 \in 0..n /\ ~(k <= k - 1)
      BY <1>1, <1>7, <2>2
    <2>4. Holds(k - 1)
      BY <2>2, <2>3
    <2> QED BY <1>8, <2>2, <2>3, <2>4
  <1>10. Seen(n) = S
    BY <1>1
  <1> QED BY <1>3, <1>9, <1>10

\* What is shown of a list is at most all of it.
LEMMA BegunIsWithin ==
  ASSUME NEW items, Len(items) \in Nat, NEW budget, NEW rest
  PROVE  LET n == Packs!Begun(items, budget, rest) IN
         /\ n \in 0..Len(items)
         /\ n # 0 => rest + Packs!SizeOf(SubSeq(items, 1, n))
                          + (IF n < Len(items) THEN Packs!MarkerSize ELSE 0) <= budget
  <1> DEFINE n == Packs!Begun(items, budget, rest)
             marked(k) == IF k < Len(items) THEN Packs!MarkerSize ELSE 0
             some == {k \in 1..Len(items) :
                        \A j \in 1..k : rest + Packs!SizeOf(SubSeq(items, 1, j)) + marked(j) <= budget}
             candidates == some \cup {0}
             beyond == {k + 1 : k \in candidates}
  <1>1. n = IF rest > budget THEN 0 ELSE Packs!Max(candidates)
    BY DEF Packs!Begun
  <1>2. Packs!Max(candidates) \in candidates
    <2>1. candidates \subseteq 0..Len(items) /\ 0 \in candidates
      OBVIOUS
    <2> HIDE DEF candidates
    <2> DEFINE short == {Len(items) - k : k \in candidates}
    <2>2. short \subseteq Nat /\ short # {}
      BY <2>1
    <2>3. PICK t \in short : \A u \in short : t <= u
      <3> HIDE DEF short
      <3> QED BY <2>2, HasLeast
    <2>4. PICK k \in candidates : t = Len(items) - k
      BY <2>3
    <2>5. \A j \in candidates : Len(items) - k <= Len(items) - j
      BY <2>3, <2>4
    <2>6. \A j \in candidates : k >= j
      BY <2>1, <2>5
    <2> QED BY <2>6 DEF Packs!Max
  <1>3. n = 0 \/ n \in some
    BY <1>1, <1>2
  <1>4. ASSUME n \in some
        PROVE  n \in 1..Len(items) /\ rest + Packs!SizeOf(SubSeq(items, 1, n)) + marked(n) <= budget
    <2>1. n \in 1..Len(items)
      BY <1>4
    <2>2. n \in 1..n
      BY <2>1
    <2> QED BY <1>4, <2>1, <2>2
  <1> HIDE DEF n, some
  <1>5. n \in 0..Len(items)
    BY <1>3, <1>4
  <1>6. n # 0 => rest + Packs!SizeOf(SubSeq(items, 1, n)) + marked(n) <= budget
    BY <1>3, <1>4
  <1> QED BY <1>5, <1>6 DEF n

\* Lists of cards and of packs, and what is shown of them.
IsSized(items) == items \in Seq({items[i] : i \in DOMAIN items}) /\ \A i \in DOMAIN items : items[i].size \in Nat

LEMMA ShownIsSized ==
  ASSUME NEW items, IsSized(items), NEW n \in 0..Len(items)
  PROVE  /\ Len(items) \in Nat /\ Len(SubSeq(items, 1, n)) = n
         /\ (n = 0 => SubSeq(items, 1, n) = <<>>) /\ SubSeq(items, 1, Len(items)) = items
         /\ Packs!SizeOf(SubSeq(items, 1, n)) \in Nat /\ Packs!SizeOf(items) \in Nat
  <1> DEFINE S == {items[i] : i \in DOMAIN items}
             shown == SubSeq(items, 1, n)
  <1>1. items \in Seq(S) /\ \A i \in DOMAIN items : items[i].size \in Nat
    BY DEF IsSized
  <1> HIDE DEF S
  <1>2. Len(items) \in Nat /\ DOMAIN items = 1..Len(items) /\ n \in Nat
    BY <1>1
  <1>3. /\ shown \in Seq(S) /\ Len(shown) = n
        /\ \A i \in 1..n : shown[i] = items[i]
    BY <1>1, <1>2
  <1>4. n = 0 => shown = <<>>
    BY <1>3
  <1>5. SubSeq(items, 1, Len(items)) = items
    BY <1>1
  <1>6. DOMAIN shown = 1..n /\ \A i \in 1..n : shown[i].size \in Nat
    BY <1>1, <1>2, <1>3
  <1> HIDE DEF shown
  <1>7. Packs!SizeOf(shown) \in Nat
    BY <1>2, <1>6, SizeIsCounted
  <1>8. Packs!SizeOf(items) \in Nat
    <2> DEFINE m == Len(items)
    <2>1. m \in Nat /\ DOMAIN items = 1..m /\ \A i \in 1..m : items[i].size \in Nat
      BY <1>1, <1>2
    <2> HIDE DEF m
    <2> QED BY <2>1, SizeIsCounted
  <1> QED BY <1>2, <1>3, <1>4, <1>5, <1>7, <1>8 DEF shown

CutWell(cut, items) == Len(cut.shown) + cut.omitted = Len(items)

LEMMA CutIsCounted ==
  ASSUME NEW items, IsSized(items), NEW n \in 0..Len(items)
  PROVE  /\ CutWell(Packs!Cut(items, n), items)
         /\ Packs!Cut(items, n).shown = SubSeq(items, 1, n)
  BY ShownIsSized DEF CutWell, Packs!Cut

LEMMA CatalogHolds ==
  ASSUME NEW cards, IsSized(cards), NEW catalog, catalog = Packs!Catalog(cards)
  PROVE  /\ CutWell(catalog, cards)
         /\ catalog.shown # <<>> => Packs!SizeOf(catalog.shown) <= CatalogBudget
  <1>1. Len(cards) \in Nat /\ 0 \in 0..Len(cards) /\ Len(cards) \in 0..Len(cards)
    <2>1. Len(cards) \in Nat
      BY DEF IsSized
    <2> QED BY <2>1
  <1>2. CASE Packs!SizeOf(cards) <= CatalogBudget
    <2>1. catalog = Packs!Cut(cards, Len(cards))
      BY <1>2 DEF Packs!Catalog
    <2> DEFINE n == Len(cards)
    <2>2. n \in 0..Len(cards) /\ catalog = Packs!Cut(cards, n) /\ SubSeq(cards, 1, n) = cards
      BY <1>1, <2>1, ShownIsSized
    <2> HIDE DEF n
    <2>3. CutWell(catalog, cards) /\ catalog.shown = cards
      BY <2>2, CutIsCounted
    <2> QED BY <1>2, <2>3
  <1>3. CASE ~(Packs!SizeOf(cards) <= CatalogBudget)
    <2> DEFINE n == Packs!Begun(cards, CatalogBudget, 0)
    <2>1. catalog = Packs!Cut(cards, n)
      BY <1>3 DEF Packs!Catalog
    <2>2. /\ n \in 0..Len(cards)
          /\ n # 0 => 0 + Packs!SizeOf(SubSeq(cards, 1, n))
                        + (IF n < Len(cards) THEN Packs!MarkerSize ELSE 0) <= CatalogBudget
      BY <1>1, BegunIsWithin
    <2> HIDE DEF n
    <2>3. CutWell(catalog, cards) /\ catalog.shown = SubSeq(cards, 1, n)
      BY <2>1, <2>2, CutIsCounted
    <2>4. Packs!SizeOf(SubSeq(cards, 1, n)) \in Nat /\ (n = 0 => SubSeq(cards, 1, n) = <<>>)
      BY <2>2, ShownIsSized
    <2>5. n # 0 => Packs!SizeOf(SubSeq(cards, 1, n)) <= CatalogBudget
      BY <2>2, <2>4, RoutesAssumption DEF Packs!MarkerSize
    <2> QED BY <2>3, <2>4, <2>5
  <1> QED BY <1>2, <1>3

\* What is shown of the section has its size within the budget, unless it is
\* nothing, and is told of.
SectionOK(section, cards, listed, rest) ==
  /\ CutWell(section.cards, cards) /\ CutWell(section.listed, listed)
  /\ section.cards.shown # <<>> \/ section.listed.shown # <<>> =>
       Packs!SizeOf(section.cards.shown) + Packs!SizeOf(section.listed.shown) + rest <= SectionBudget

LEMMA CutFits ==
  ASSUME NEW cards, NEW listed, IsSized(cards), IsSized(listed), NEW rest \in Nat,
         NEW c \in 0..Len(cards), NEW l \in 0..Len(listed),
         NEW section \in Packs!CutToFit(cards, listed, rest, c, l)
  PROVE  SectionOK(section, cards, listed, rest)
  <1> DEFINE size(i, j) == Packs!SizeOf(SubSeq(cards, 1, i)) + Packs!SizeOf(SubSeq(listed, 1, j))
                             + 2 * Packs!MarkerSize + rest
             order == [n \in 0..(c + l) |-> IF n <= l THEN <<c, l - n>> ELSE <<c + l - n, 0>>]
             fitting == {n \in 0..(c + l) : size(order[n][1], order[n][2]) <= SectionBudget}
             enough == fitting \cup {c + l}
             m == Packs!Min(enough)
  <1>1. c \in Nat /\ l \in Nat /\ c + l \in Nat
    <2>1. Len(cards) \in Nat /\ Len(listed) \in Nat
      BY DEF IsSized
    <2> QED BY <2>1
  <1>2. m \in enough
    <2>1. enough \subseteq Nat /\ enough # {}
      BY <1>1
    <2> HIDE DEF enough
    <2>2. PICK n \in enough : \A k \in enough : n <= k
      BY <2>1, HasLeast
    <2> QED BY <2>2 DEF Packs!Min
  <1>3. section = [cards |-> Packs!Cut(cards, order[m][1]), listed |-> Packs!Cut(listed, order[m][2])]
    BY DEF Packs!CutToFit
  <1>4. m \in 0..(c + l)
    <2>1. c + l \in 0..(c + l)
      BY <1>1
    <2> HIDE DEF m, order
    <2> QED BY <1>2, <2>1
  <1>5. PICK i \in 0..c, j \in 0..l :
          /\ i = order[m][1] /\ j = order[m][2] /\ (m = c + l => i = 0 /\ j = 0)
    <2> HIDE DEF m
    <2>1. order[m] = IF m <= l THEN <<c, l - m>> ELSE <<c + l - m, 0>>
      BY <1>4
    <2> HIDE DEF order
    <2>2. CASE m <= l
      <3>1. order[m][1] = c /\ order[m][2] = l - m
        BY <2>1, <2>2
      <3>2. c \in 0..c /\ l - m \in 0..l /\ (m = c + l => c = 0 /\ l - m = 0)
        BY <1>1, <1>4, <2>2
      <3> QED BY <3>1, <3>2
    <2>3. CASE ~(m <= l)
      <3>1. order[m][1] = c + l - m /\ order[m][2] = 0
        BY <2>1, <2>3
      <3>2. c + l - m \in 0..c /\ 0 \in 0..l /\ (m = c + l => c + l - m = 0)
        BY <1>1, <1>4, <2>3
      <3> QED BY <3>1, <3>2
    <2> QED BY <2>2, <2>3
  <1>6. m # c + l => size(i, j) <= SectionBudget
    <2>1. m # c + l => m \in fitting
      <3> HIDE DEF m, fitting
      <3> QED BY <1>2
    <2> HIDE DEF m, order, size
    <2> QED BY <1>5, <2>1
  <1>7. i \in 0..Len(cards) /\ j \in 0..Len(listed)
    <2>1. Len(cards) \in Nat /\ Len(listed) \in Nat
      BY DEF IsSized
    <2> HIDE DEF m, order
    <2> QED BY <1>1, <1>5, <2>1
  <1>8. section = [cards |-> Packs!Cut(cards, i), listed |-> Packs!Cut(listed, j)]
    <2> HIDE DEF m, order
    <2> QED BY <1>3, <1>5
  <1> HIDE DEF m
  <1>9. /\ CutWell(section.cards, cards) /\ section.cards.shown = SubSeq(cards, 1, i)
        /\ CutWell(section.listed, listed) /\ section.listed.shown = SubSeq(listed, 1, j)
    BY <1>7, <1>8, CutIsCounted
  <1> DEFINE a == Packs!SizeOf(SubSeq(cards, 1, i))
             b == Packs!SizeOf(SubSeq(listed, 1, j))
  <1>10. /\ a \in Nat /\ (i = 0 => SubSeq(cards, 1, i) = <<>>)
         /\ b \in Nat /\ (j = 0 => SubSeq(listed, 1, j) = <<>>)
    BY <1>7, ShownIsSized
  <1>11. m # c + l => a + b + 2 * 1 + rest <= SectionBudget
    BY <1>6 DEF Packs!MarkerSize
  <1>12. m # c + l => a + b + rest <= SectionBudget
    <2> HIDE DEF a, b
    <2> QED BY <1>10, <1>11, RoutesAssumption
  <1>13. m = c + l => section.cards.shown = <<>> /\ section.listed.shown = <<>>
    BY <1>5, <1>9, <1>10
  <1> QED BY <1>9, <1>12, <1>13 DEF SectionOK

LEMMA SectionHolds ==
  ASSUME NEW cards, NEW listed, IsSized(cards), IsSized(listed), NEW rest \in Nat,
         NEW section \in Packs!RoutePacksSection(cards, listed, rest)
  PROVE  SectionOK(section, cards, listed, rest)
  <1> DEFINE m == Len(cards)
             n == Len(listed)
  <1>1. m \in 0..Len(cards) /\ n \in 0..Len(listed) /\ Len(cards) \in Nat /\ Len(listed) \in Nat
    <2>1. Len(cards) \in Nat /\ Len(listed) \in Nat
      BY DEF IsSized
    <2> QED BY <2>1
  <1>2. CASE Packs!SizeOf(cards) + Packs!SizeOf(listed) + rest <= SectionBudget
    <2>1. section = [cards |-> Packs!Cut(cards, m), listed |-> Packs!Cut(listed, n)]
      BY <1>2 DEF Packs!RoutePacksSection
    <2>2. SubSeq(cards, 1, m) = cards /\ SubSeq(listed, 1, n) = listed
      BY <1>1, ShownIsSized
    <2> HIDE DEF m, n
    <2>3. /\ CutWell(section.cards, cards) /\ section.cards.shown = SubSeq(cards, 1, m)
          /\ CutWell(section.listed, listed) /\ section.listed.shown = SubSeq(listed, 1, n)
      BY <1>1, <2>1, CutIsCounted
    <2> QED BY <1>2, <2>2, <2>3 DEF SectionOK
  <1>3. CASE ~(Packs!SizeOf(cards) + Packs!SizeOf(listed) + rest <= SectionBudget)
    <2> DEFINE c == Packs!Begun(cards, SectionBudget, Packs!SizeOf(listed) + rest)
               l == Packs!Begun(listed, SectionBudget, Packs!SizeOf(cards) + rest)
    <2>1. section \in Packs!CutToFit(cards, listed, rest, c, l)
      BY <1>3 DEF Packs!RoutePacksSection
    <2>2. c \in 0..Len(cards) /\ l \in 0..Len(listed)
      BY <1>1, BegunIsWithin
    <2> HIDE DEF c, l
    <2> QED BY <2>1, <2>2, CutFits
  <1> QED BY <1>2, <1>3

LEMMA PartToldApart == ASSUME NEW S, ToldApart(S), NEW T \in SUBSET S PROVE ToldApart(T)
  BY FS_Subset DEF ToldApart

LEMMA PacksAreSized ==
  ASSUME NEW S, ToldApart(S), NEW s, s = Packs!Sorted(S, Packs!ById), NEW index
  PROVE  /\ IsSized(s) /\ IsSized(Packs!Listed(s, index))
         /\ IsSized(Packs!CatalogCards(s))
         /\ Len(Packs!CatalogCards(s)) = Packs!Cardinality(S) + 1
  <1>1. s \in Seq(S) /\ Len(s) = Cardinality(S) /\ Cardinality(S) \in Nat
    BY SortedById
  <1> DEFINE n == Cardinality(S)
             Sized(f) == f = [i \in 1..n |-> f[i]] /\ \A i \in 1..n : f[i].size \in Nat
  <1>2. DOMAIN s = 1..n /\ s = [i \in 1..n |-> s[i]] /\ \A i \in 1..n : s[i].size \in Nat
    BY <1>1 DEF ToldApart, IsPack
  <1> HIDE DEF n
  <1>3. ASSUME NEW f, Sized(f) PROVE IsSized(f) /\ f \in Seq({f[i] : i \in 1..n}) /\ Len(f) = n
    <2>1. n \in Nat /\ DOMAIN f = 1..n
      BY <1>1, <1>3 DEF n
    <2> DEFINE T == {f[i] : i \in 1..n}
    <2>2. f \in Seq(T) /\ Len(f) = n
      <3>1. \A i \in 1..n : f[i] \in T
        OBVIOUS
      <3> HIDE DEF T
      <3> QED BY <1>3, <2>1, <3>1
    <2> QED BY <1>3, <2>1, <2>2 DEF IsSized
  <1>4. Sized(Packs!Listed(s, index))
    BY <1>2 DEF Packs!Listed, Packs!ListedItem
  <1> DEFINE first == [id |-> 0, size |-> 1]
             others == [i \in DOMAIN s |-> [id |-> s[i].id, size |-> 1]]
             cards == Packs!CatalogCards(s)
             Cards == {c \in {first} \cup {others[i] : i \in 1..n} : c.size \in Nat}
  <1>5. cards = <<first>> \o others
    BY DEF Packs!CatalogCards
  <1>6. /\ first \in Cards /\ \A i \in 1..n : others[i] \in Cards
        /\ DOMAIN others = 1..n /\ others = [i \in 1..n |-> others[i]]
        /\ \A c \in Cards : c.size \in Nat
    BY <1>2
  <1> HIDE DEF first, others, Cards
  <1>7. <<first>> \in Seq(Cards) /\ others \in Seq(Cards) /\ Len(others) = n /\ n \in Nat
    BY <1>1, <1>6 DEF n
  <1>8. cards \in Seq(Cards) /\ Len(cards) = n + 1
    BY <1>5, <1>7
  <1> HIDE DEF cards
  <1>9. IsSized(cards)
    <2> DEFINE T == {cards[i] : i \in DOMAIN cards}
    <2>1. \A i \in DOMAIN cards : cards[i] \in Cards
      BY <1>8
    <2>2. cards \in Seq(T)
      <3>1. \A i \in DOMAIN cards : cards[i] \in T
        OBVIOUS
      <3>2. DOMAIN cards = 1..(n + 1) /\ n + 1 \in Nat /\ cards = [i \in 1..(n + 1) |-> cards[i]]
        BY <1>7, <1>8
      <3> HIDE DEF T
      <3> QED BY <3>1, <3>2
    <2> QED BY <1>6, <2>1, <2>2 DEF IsSized
  <1> QED BY <1>2, <1>3, <1>4, <1>8, <1>9, CountedAlike DEF cards, n

LEMMA RulesHold == RoutesInv => Packs!RulesSurviveTheBudget
  <1> SUFFICES ASSUME RoutesInv PROVE Packs!RulesSurviveTheBudget
    OBVIOUS
  <1> DEFINE index == Packs!CommandIndex(Packs!IndexOrder)
             cards == Packs!Cards
             others == Packs!Others
             listed == Packs!Listed(others, index)
             rest == Packs!IndexSize(index)
             all == Packs!Sorted(Packs!Packs, Packs!ById)
             catalog == Packs!Catalog(Packs!CatalogCards(all))
  <1>1. ToldApart(Packs!Packs)
    BY PacksAreToldApart
  <1>2. /\ Packs!Indexed \in SUBSET Packs!Packs
        /\ ToldApart(Packs!Indexed)
        /\ ToldApart({p \in Packs!Packs : p.bucket = "always_inject"})
        /\ ToldApart({p \in Packs!Packs : p.bucket # "always_inject"})
    BY <1>1, PartToldApart DEF Packs!Indexed
  <1>3. IndexOK(index, Packs!Indexed)
    <2> DEFINE order == Packs!IndexOrder
               S == Packs!Indexed
    <2>1. /\ order \in Seq(S) /\ ToldApart(S)
          /\ \A p \in S : \E i \in 1..Len(order) : order[i] = p
          /\ \A i, j \in 1..Len(order) : i < j => Packs!ByKey(order[i], order[j])
      BY <1>2, IndexIsOrdered
    <2> HIDE DEF order, S
    <2>2. IndexOK(Packs!CommandIndex(order), S)
      BY <2>1, IndexHolds
    <2> QED BY <2>2 DEF order, S
  <1>4. IsSized(cards) /\ IsSized(listed)
    BY <1>2, PacksAreSized DEF Packs!Cards, Packs!Others
  <1>5. IsSized(Packs!CatalogCards(all))
        /\ Len(Packs!CatalogCards(all)) = Packs!Cardinality(Packs!Packs) + 1
    BY <1>1, PacksAreSized
  <1>6. rest \in Nat
    <2>1. IsFiniteSet(index.kept) /\ \A p \in index.kept : p.size \in Nat
      <3>1. index.kept \subseteq Packs!Indexed
        BY <1>3 DEF IndexOK
      <3> QED BY <1>2, <3>1, FS_Subset DEF ToldApart, IsPack
    <2> HIDE DEF index
    <2>2. Packs!Weight(index.kept) \in Nat
      BY <2>1, WeightIsCounted
    <2> QED BY <2>2 DEF Packs!IndexSize, Packs!MarkerSize
  <1> HIDE DEF index, cards, others, listed, rest, all, catalog
  <1>7. ASSUME NEW section \in Packs!RoutePacksSection(cards, listed, rest)
        PROVE  SectionOK(section, cards, listed, rest)
    BY <1>4, <1>6, SectionHolds
  <1>8. /\ Len(catalog.shown) + catalog.omitted = Packs!Cardinality(Packs!Packs) + 1
        /\ catalog.shown # <<>> => Packs!SizeOf(catalog.shown) <= CatalogBudget
    BY <1>5, CatalogHolds DEF CutWell, catalog
  <1>9. /\ Packs!Weight(index.kept) <= IndexBudget
        /\ index.kept \cap index.dropped = {} /\ index.kept \cup index.dropped = Packs!Indexed
        /\ \A entry \in index.dropped :
             entry.rules => ~Packs!Fits({e \in index.kept : e.rules /\ Packs!ByKey(e, entry)} \cup {entry})
    BY <1>3 DEF IndexOK, Packs!Fits
  <1>10. \A section \in Packs!RoutePacksSection(cards, listed, rest) :
           /\ Len(section.cards.shown) + section.cards.omitted = Len(cards)
           /\ Len(section.listed.shown) + section.listed.omitted = Len(listed)
           /\ section.cards.shown # <<>> \/ section.listed.shown # <<>> =>
                Packs!SizeOf(section.cards.shown) + Packs!SizeOf(section.listed.shown) + rest <= SectionBudget
    BY <1>7 DEF SectionOK, CutWell
  <1> QED
    BY <1>8, <1>9, <1>10 DEF Packs!RulesSurviveTheBudget, index, cards, others, listed, rest, all, catalog

(* The index leaves a pack with rules out only when it does not fit next   *)
(* to those with rules before it, and whatever a budget leaves out is told *)
(* of, for any packs and budgets (_command_index,                          *)
(* _append_after_droppable_eviction, _budget_route_packs_section,          *)
(* _budget_catalog).                                                       *)
THEOREM RulesAreKept == ProfileSpec => []RulesSurviveTheBudget
  <1>1. ProfileInit => RoutesInv
    BY RoutesInit DEF ProfileInit
  <1>2. RoutesInv /\ [Packs!Next]_packVars => RoutesInv'
    BY RoutesStep
  <1>3. RoutesInv => RulesSurviveTheBudget
    BY RulesHold DEF RulesSurviveTheBudget
  <1> QED BY <1>1, <1>2, <1>3, PartsRun, PTL DEF ProfileSpec
=============================================================================

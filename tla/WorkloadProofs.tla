--------------------------- MODULE WorkloadProofs ---------------------------
(***************************************************************************)
(* That generated requests are authorized, full and hold no chunk twice,   *)
(* and that only files of two preparations or a cut corpus end the         *)
(* generator in a KeyError, for every dataset, directory, mix of ACLs and  *)
(* configuration.                                                          *)
(***************************************************************************)
EXTENDS Workload, FilteringProofs

(* Paragraphs and questions that preparations may save.                    *)
Known        == UNION {Chunks(s) : s \in Samples}
AllQuestions == UNION {Questions(s) : s \in Samples}

Distinct(s) == s \in Seq(Known) /\ IsInjective(s)

(* What the files hold, by how far the preparation is.                     *)
Saved ==
  /\ disk \in [{"corpus", "questions"} -> [lines : SUBSET (Known \cup AllQuestions), torn : BOOLEAN]]
  /\ IsFiniteSet(disk["corpus"].lines) /\ disk["corpus"].lines \subseteq Known
  /\ disk["questions"].lines \subseteq AllQuestions
  /\ stage \in {"none", "corpus", "between", "questions", "over"}
  /\ stage # "none" => sample \in Samples
  /\ stage \in {"between", "questions", "over"} => disk["corpus"].lines = Chunks(sample)
  /\ stage \in {"questions", "over"} => disk["questions"].lines \subseteq Questions(sample)

(* What the generator is working on, by how far it is.                     *)
Loaded ==
  /\ IsFiniteSet(corpus) /\ corpus \subseteq Known
  /\ questions \subseteq AllQuestions
  /\ pc \notin {"idle", "questions"} => config \in Configs /\ hot \subseteq corpus
  /\ pool \subseteq questions
  /\ pc \notin {"requests", "KeyError"} => pool = {} /\ request = NoRequest

(* What it has loaded is of the preparation the files are of.              *)
Matching ==
  /\ matched => stage # "corpus"
  /\ matched /\ stage \in {"between", "questions", "over"} => corpus = Chunks(sample)
  /\ matched /\ pc \notin {"idle", "questions"} =>
       stage \in {"questions", "over"} /\ questions \subseteq Questions(sample)

GoldsInCorpus == \A q \in pool : Range(q.golds) \subseteq corpus

IInv == Saved /\ Loaded /\ Matching /\ GoldsInCorpus /\ AlreadyAuthorized /\ RequestsAreFull /\ OnlyMismatchRaises

-----------------------------------------------------------------------------
(* Sequences and finite sets.                                              *)

LEMMA InOwnRange ==
  ASSUME NEW T, NEW s \in Seq(T)
  PROVE  s \in Seq(Range(s)) /\ Range(s) \subseteq T /\ IsFiniteSet(Range(s))
<1>1. Len(s) \in Nat /\ DOMAIN s = 1 .. Len(s) /\ s \in [1 .. Len(s) -> T]
  BY LenProperties
<1>2. s \in [1 .. Len(s) -> Range(s)] /\ Range(s) \subseteq T
  BY <1>1 DEF Range
<1>3. s \in Seq(Range(s))
  BY <1>1, <1>2, SeqDef
<1>4. s \in Surjection(1 .. Len(s), Range(s))
  BY <1>1, <1>2 DEF Surjection, Range
<1>5. IsFiniteSet(Range(s))
  BY <1>1, <1>4, FS_Interval, FS_Surjection
<1> QED BY <1>2, <1>3, <1>5

LEMMA MinOfTwo ==
  ASSUME NEW a \in Int, NEW b \in Int
  PROVE  Min({a, b}) = IF a <= b THEN a ELSE b
<1> DEFINE m == IF a <= b THEN a ELSE b
<1>1. m \in {a, b} /\ \A y \in {a, b} : m <= y
  OBVIOUS
<1>2. \A x \in {a, b} : (\A y \in {a, b} : x <= y) => x = m
  OBVIOUS
<1> QED BY <1>1, <1>2 DEF Min

LEMMA MaxOfTwo ==
  ASSUME NEW a \in Int, NEW b \in Int
  PROVE  Max({a, b}) = IF a <= b THEN b ELSE a
<1> DEFINE m == IF a <= b THEN b ELSE a
<1>1. m \in {a, b} /\ \A y \in {a, b} : m >= y
  OBVIOUS
<1>2. \A x \in {a, b} : (\A y \in {a, b} : x >= y) => x = m
  OBVIOUS
<1> QED BY <1>1, <1>2 DEF Max

(* A slice of Python, also one with a negative bound, is a prefix.         *)
LEMMA SliceDistinct ==
  ASSUME NEW T, NEW s \in Seq(T), IsInjective(s), NEW n \in Int
  PROVE  Slice(s, n) \in Seq(T) /\ IsInjective(Slice(s, n)) /\ Range(Slice(s, n)) \subseteq Range(s)
<1> DEFINE m == IF n >= 0 THEN Min({n, Len(s)}) ELSE Max({0, Len(s) + n})
<1>1. Len(s) \in Nat
  BY LenProperties
<1>2. n >= 0 => Min({n, Len(s)}) = IF n <= Len(s) THEN n ELSE Len(s)
  BY <1>1, MinOfTwo
<1>3. Max({0, Len(s) + n}) = IF 0 <= Len(s) + n THEN Len(s) + n ELSE 0
  BY <1>1, MaxOfTwo
<1>4. m \in 0 .. Len(s)
  BY <1>1, <1>2, <1>3
<1>5. Slice(s, n) = SubSeq(s, 1, m)
  BY DEF Slice
<1> HIDE DEF m
<1> QED BY <1>4, <1>5, CutDistinct

LEMMA DisjointSizes ==
  ASSUME NEW S, NEW T, IsFiniteSet(S), IsFiniteSet(T), S \cap T = {}
  PROVE  IsFiniteSet(S \cup T) /\ Cardinality(S \cup T) = Cardinality(S) + Cardinality(T)
<1>1. Cardinality(S) \in Nat /\ Cardinality(T) \in Nat
  BY FS_CardinalityType
<1>2. IsFiniteSet(S \cup T)
  BY FS_Union
<1>3. Cardinality(S \cup T) = Cardinality(S) + Cardinality(T) - Cardinality(S \cap T)
  BY FS_Union
<1>4. Cardinality(S \cap T) = 0
  BY FS_EmptySet
<1> QED BY <1>1, <1>2, <1>3, <1>4

(* A finite set as a list.                                                 *)
LEMMA Listed ==
  ASSUME NEW S, IsFiniteSet(S)
  PROVE  SetToSeq(S) \in Seq(S) /\ IsInjective(SetToSeq(S)) /\ Range(SetToSeq(S)) \subseteq S
<1> DEFINE n == Cardinality(S)
<1>1. n \in Nat /\ \E f \in [1 .. n -> S] : IsInjective(f)
  BY FS_CardinalityType DEF ExistsBijection, Bijection, Injection
<1>2. SetToSeq(S) \in [1 .. n -> S] /\ IsInjective(SetToSeq(S))
  BY <1>1 DEF SetToSeq
<1>3. SetToSeq(S) \in Seq(S)
  BY <1>1, <1>2, SeqDef
<1> QED BY <1>2, <1>3, InOwnRange

(* The list of a set has all its elements.                                 *)
LEMMA ListedAll ==
  ASSUME NEW S, IsFiniteSet(S)
  PROVE  Len(SetToSeq(S)) = Cardinality(S) /\ Range(SetToSeq(S)) = S
<1> DEFINE n == Cardinality(S)
           t == SetToSeq(S)
<1>1. n \in Nat /\ \E f \in [1 .. n -> S] : IsInjective(f)
  BY FS_CardinalityType DEF ExistsBijection, Bijection, Injection
<1>2. t \in [1 .. n -> S] /\ IsInjective(t)
  BY <1>1 DEF SetToSeq
<1>3. t \in Seq(S) /\ Range(t) \subseteq S
  BY Listed
<1> HIDE DEF t
<1>4. Len(t) = n
  BY <1>1, <1>2, <1>3, LenProperties
<1>5. Cardinality(Range(t)) = Cardinality(S)
  BY <1>2, <1>3, <1>4, DistinctLength
<1>6. Range(t) = S
  BY <1>3, <1>5, FS_Subset
<1> QED BY <1>4, <1>6 DEF t

-----------------------------------------------------------------------------
(* What rows and samples are turned into.                                  *)

LEMMA RowLists ==
  ASSUME NEW s \in Samples, NEW row \in Range(s)
  PROVE  /\ Context(row) \in Seq(Chunks(s)) /\ IsInjective(Context(row))
         /\ Golds(row) \in Seq(Chunks(s)) /\ IsInjective(Golds(row))
         /\ Range(Context(row)) \subseteq Chunks(s) /\ IsFiniteSet(Range(Context(row)))
<1> DEFINE T == Range(row.context)
           S == {p \in T : p.text # ""}
           G == {p \in T : p.title \in row.golds}
<1>1. row.context \in Seq(T) /\ IsInjective(row.context)
  BY SampleAssumption
<1>2. Context(row) = Filtered(row.context, S) /\ Golds(row) = Filtered(Context(row), G)
  BY DEF Context, Golds
<1> HIDE DEF S, G, T
<1>3. Context(row) \in Seq(T) /\ IsInjective(Context(row))
  BY <1>1, <1>2, FilteredKeeps
<1>4. Range(Context(row)) \subseteq Chunks(s)
  BY DEF Chunks
<1>5. Context(row) \in Seq(Chunks(s)) /\ IsFiniteSet(Range(Context(row)))
  BY <1>3, <1>4, InOwnRange, SeqMonotonic
<1>6. Golds(row) \in Seq(Chunks(s)) /\ IsInjective(Golds(row))
  BY <1>2, <1>3, <1>5, FilteredKeeps
<1> QED BY <1>3, <1>4, <1>5, <1>6

LEMMA FinitelyManyChunks ==
  ASSUME NEW s \in Samples
  PROVE  IsFiniteSet(Chunks(s))
<1> DEFINE R == Range(s)
           f == [row \in R |-> Range(Context(row))]
           S == {Range(Context(row)) : row \in R}
<1>1. IsFiniteSet(R)
  BY SampleAssumption, InOwnRange
<1>2. f \in Surjection(R, S)
  BY DEF Surjection
<1>3. IsFiniteSet(S)
  <2> HIDE DEF f, S, R
  <2> QED BY <1>1, <1>2, FS_Surjection
<1>4. \A X \in S : IsFiniteSet(X)
  BY RowLists
<1>5. Chunks(s) = UNION S
  BY DEF Chunks
<1> HIDE DEF S
<1> QED BY <1>3, <1>4, <1>5, FS_UNION

LEMMA QuestionLists ==
  ASSUME NEW s \in Samples, NEW q \in Questions(s)
  PROVE  /\ q.context \in Seq(Known) /\ IsInjective(q.context)
         /\ q.golds \in Seq(Known) /\ IsInjective(q.golds)
         /\ Range(q.context) \subseteq Chunks(s)
<1>1. PICK row \in Range(s) : q = Question(row)
  BY DEF Questions
<1>2. q.context = Context(row) /\ q.golds = Golds(row)
  BY <1>1 DEF Question
<1>3. Chunks(s) \subseteq Known
  BY DEF Known
<1> QED BY <1>2, <1>3, RowLists, SeqMonotonic

(* What a file has when its lines are cut.                                 *)
LEMMA FirstRows ==
  ASSUME NEW s \in Samples, NEW n \in 0 .. Len(s)
  PROVE  Range(SubSeq(s, 1, n)) \subseteq Range(s)
<1>1. s \in Seq(Range(s)) /\ Len(s) \in Nat /\ DOMAIN s = 1 .. Len(s)
  BY SampleAssumption, LenProperties
<1>2. DOMAIN SubSeq(s, 1, n) = 1 .. n /\ \A i \in 1 .. n : SubSeq(s, 1, n)[i] = s[i]
  BY <1>1, CutElements
<1> QED BY <1>1, <1>2 DEF Range

LEMMA CutsAreParts ==
  ASSUME sample \in Samples
  PROVE  /\ \A cut \in CorpusCuts : cut \subseteq Chunks(sample)
         /\ \A cut \in QuestionCuts : cut \subseteq Questions(sample)
<1>1. sample \in Seq(Range(sample)) /\ Len(sample) \in Nat /\ DOMAIN sample = 1 .. Len(sample)
  BY SampleAssumption, LenProperties
<1>2. ASSUME NEW i \in DOMAIN sample, NEW j \in 0 .. Len(Context(sample[i]))
      PROVE  Chunks(SubSeq(sample, 1, i - 1)) \cup Range(SubSeq(Context(sample[i]), 1, j)) \subseteq Chunks(sample)
  <2>1. i - 1 \in 0 .. Len(sample)
    BY <1>1
  <2>2. Range(SubSeq(sample, 1, i - 1)) \subseteq Range(sample)
    BY <2>1, FirstRows
  <2>3. Chunks(SubSeq(sample, 1, i - 1)) \subseteq Chunks(sample)
    BY <2>2 DEF Chunks
  <2>4. sample[i] \in Range(sample)
    BY DEF Range
  <2>5. Context(sample[i]) \in Seq(Chunks(sample)) /\ IsInjective(Context(sample[i]))
        /\ Range(Context(sample[i])) \subseteq Chunks(sample)
    BY <2>4, RowLists
  <2>6. Range(SubSeq(Context(sample[i]), 1, j)) \subseteq Range(Context(sample[i]))
    BY <2>5, CutDistinct
  <2> QED BY <2>3, <2>5, <2>6
<1>3. ASSUME NEW n \in 0 .. Len(sample)
      PROVE  Questions(SubSeq(sample, 1, n)) \subseteq Questions(sample)
  BY FirstRows DEF Questions
<1> QED BY <1>2, <1>3 DEF CorpusCuts, QuestionCuts

-----------------------------------------------------------------------------
(* A request, as it grows.                                                 *)

(* A list of chunks that can become the documents of the user's request.   *)
Good(s, user) ==
  /\ Distinct(s)
  /\ \A c \in Range(s) : Readable(user, c)

(* Appending fresh chunks of any list keeps it good.                       *)
LEMMA Grows ==
  ASSUME NEW user, NEW s, Good(s, user), NEW t, Distinct(t), NEW n \in Int
  PROVE  /\ Good(s \o Slice(Fresh(t, user, s), n), user)
         /\ Range(s) \subseteq Range(s \o Slice(Fresh(t, user, s), n))
<1> DEFINE S == {c \in Range(t) \ Range(s) : Readable(user, c)}
           f == Fresh(t, user, s)
           g == Slice(f, n)
<1>1. f = Filtered(t, S)
  BY DEF Fresh, New
<1>2. f \in Seq(Known) /\ IsInjective(f) /\ Range(f) \subseteq S
  <2> HIDE DEF S, f
  <2> QED BY <1>1, FilteredKeeps DEF Distinct
<1>3. g \in Seq(Known) /\ IsInjective(g) /\ Range(g) \subseteq S
  <2> HIDE DEF S, f
  <2> QED BY <1>2, SliceDistinct
<1> HIDE DEF g, f
<1>4. Range(s) \cap Range(g) = {}
  BY <1>3
<1>5. s \o g \in Seq(Known) /\ IsInjective(s \o g) /\ Range(s \o g) = Range(s) \cup Range(g)
  BY <1>3, <1>4, ConcatDistinct DEF Good, Distinct
<1>6. \A c \in Range(s \o g) : Readable(user, c)
  BY <1>3, <1>5 DEF Good
<1> QED BY <1>5, <1>6 DEF Good, Distinct, g, f

(* The fill adds some new chunks of those it is drawn from.                *)
LEMMA Filled ==
  ASSUME Loaded, NEW user, NEW s, Good(s, user), NEW docs \in Fills(user, s), ~(Len(s) >= config.docs)
  PROVE  \E S \in SUBSET corpus :
           /\ IsFiniteSet(S) /\ Cardinality(S) = Min({FillSample, Cardinality(corpus)})
           /\ IsFiniteSet(New(S, user, s))
           /\ Good(docs, user) /\ Range(s) \subseteq Range(docs)
           /\ Len(docs) = Len(s) + Min({config.docs - Len(s), Cardinality(New(S, user, s))})
<1>1. PICK S \in kSubset(Min({FillSample, Cardinality(corpus)}), corpus) :
        \E T \in Fill(S, user, s) : docs = s \o SetToSeq(T)
  BY DEF Fills
<1>2. S \in SUBSET corpus /\ Cardinality(S) = Min({FillSample, Cardinality(corpus)})
  BY DEF kSubset
<1>3. PICK T \in Fill(S, user, s) : docs = s \o SetToSeq(T)
  BY <1>1
<1> DEFINE new == New(S, user, s)
<1>4. T \in SUBSET new /\ Cardinality(T) = Min({config.docs - Len(s), Cardinality(new)})
  BY DEF Fill, kSubset
<1>5. new \subseteq S /\ Range(s) \cap new = {} /\ \A c \in new : Readable(user, c)
  BY DEF New
<1> HIDE DEF new
<1>6. IsFiniteSet(S) /\ IsFiniteSet(new) /\ IsFiniteSet(T)
  <2>1. IsFiniteSet(corpus)
    BY DEF Loaded
  <2> QED BY <1>2, <1>4, <1>5, <2>1, FS_Subset
<1> DEFINE t == SetToSeq(T)
<1>7. t \in Seq(T) /\ IsInjective(t) /\ Range(t) = T /\ Len(t) = Cardinality(T)
  BY <1>6, Listed, ListedAll
<1>8. T \subseteq Known
  BY <1>2, <1>4, <1>5 DEF Loaded
<1> HIDE DEF t
<1>9. t \in Seq(Known)
  BY <1>7, <1>8, SeqMonotonic
<1>10. s \in Seq(Known) /\ IsInjective(s) /\ Range(s) \cap Range(t) = {}
  BY <1>4, <1>5, <1>7 DEF Good, Distinct
<1>11. docs = s \o t
  BY <1>3 DEF t
<1>12. docs \in Seq(Known) /\ IsInjective(docs) /\ Range(docs) = Range(s) \cup Range(t)
  BY <1>7, <1>9, <1>10, <1>11, ConcatDistinct
<1>13. Len(docs) = Len(s) + Len(t)
  BY <1>9, <1>10, <1>11, ConcatProperties
<1>14. Good(docs, user)
  BY <1>4, <1>5, <1>7, <1>12 DEF Good, Distinct
<1> QED BY <1>2, <1>4, <1>6, <1>7, <1>12, <1>13, <1>14 DEF new

(* The documents of a new request.                                         *)
LEMMA Asked ==
  ASSUME Loaded, pc = "requests",
         NEW q \in pool, NEW user \in Eligible(q), NEW picks \in HotPicks(q, user),
         NEW chosen, chosen = q.golds \o SetToSeq(picks),
         NEW docs \in Fills(user, chosen \o Slice(Fresh(q.context, user, chosen), config.docs - Len(chosen)))
  PROVE  Good(docs, user) /\ Range(q.golds) \subseteq Range(docs)
<1> DEFINE cand  == {c \in hot : c \notin Range(q.golds) /\ Readable(user, c)}
           list  == SetToSeq(picks)
           need  == config.docs - Len(chosen)
           known == chosen \o Slice(Fresh(q.context, user, chosen), need)
<1>1. IsFiniteSet(corpus) /\ corpus \subseteq Known /\ config.docs \in Nat /\ q \in AllQuestions
  BY ConfigAssumption DEF Loaded
<1>2. Distinct(q.golds) /\ Distinct(q.context)
  BY <1>1, QuestionLists DEF Distinct, AllQuestions
<1>3. picks \subseteq cand /\ cand \subseteq corpus
  BY DEF HotPicks, kSubset, Loaded
<1>4. IsFiniteSet(picks)
  BY <1>1, <1>3, FS_Subset
<1>5. list \in Seq(picks) /\ IsInjective(list) /\ Range(list) \subseteq picks
  BY <1>4, Listed
<1>6. list \in Seq(Known)
  BY <1>1, <1>3, <1>5, SeqMonotonic
<1>7. Range(q.golds) \cap Range(list) = {}
  BY <1>3, <1>5
<1>8. /\ chosen \in Seq(Known) /\ IsInjective(chosen)
      /\ Range(chosen) = Range(q.golds) \cup Range(list)
  <2> HIDE DEF list
  <2>1. chosen = q.golds \o list
    BY DEF list
  <2> QED BY <2>1, <1>2, <1>5, <1>6, <1>7, ConcatDistinct DEF Distinct
<1>9. Good(chosen, user)
  BY <1>3, <1>5, <1>8 DEF Good, Distinct, Eligible
<1>10. need \in Int
  BY <1>1, <1>8, LenProperties
<1>11. Good(known, user) /\ Range(q.golds) \subseteq Range(known)
  <2> HIDE DEF need
  <2> QED BY <1>2, <1>8, <1>9, <1>10, Grows
<1>12. CASE Len(known) >= config.docs
  <2>1. docs = known
    BY <1>12 DEF Fills
  <2> QED BY <1>11, <2>1
<1>13. CASE ~(Len(known) >= config.docs)
  <2>1. docs \in Fills(user, known)
    OBVIOUS
  <2> HIDE DEF known
  <2>2. Good(docs, user) /\ Range(known) \subseteq Range(docs)
    BY <1>11, <1>13, <2>1, Filled
  <2> QED BY <1>11, <2>2
<1> QED BY <1>12, <1>13

-----------------------------------------------------------------------------
(* How long a request gets.                                                *)

(* A slice that starts at the front and the rounding of a share.           *)
LEMMA SliceLength ==
  ASSUME NEW T, NEW s \in Seq(T), NEW n \in Nat
  PROVE  Len(Slice(s, n)) = IF n <= Len(s) THEN n ELSE Len(s)
<1> DEFINE m == IF n <= Len(s) THEN n ELSE Len(s)
<1>1. Len(s) \in Nat
  BY LenProperties
<1>2. Slice(s, n) = SubSeq(s, 1, m)
  <2> DEFINE bound == IF n >= 0 THEN Min({n, Len(s)}) ELSE Max({0, Len(s) + n})
  <2>1. bound = m
    BY <1>1, MinOfTwo
  <2>2. Slice(s, n) = SubSeq(s, 1, bound)
    BY DEF Slice
  <2> HIDE DEF bound, m
  <2> QED BY <2>1, <2>2
<1>3. m \in 0 .. Len(s)
  BY <1>1
<1> HIDE DEF m
<1>4. Len(SubSeq(s, 1, m)) = m
  BY <1>3, CutElements
<1> QED BY <1>2, <1>4 DEF m

(* The rounded share of some slots is at most their number.                *)
LEMMA RoundedShare ==
  ASSUME NEW a \in Nat, NEW b \in Nat \ {0}, a <= b, NEW s \in Nat
  PROVE  Rounded(a * s, b) \in 0 .. s
<1> DEFINE x == a * s
           d == x \div b
           r == x % b
<1>1. x \in Nat /\ x <= b * s
  OBVIOUS
<1> HIDE DEF x
<1>2. d \in Nat /\ r \in 0 .. b - 1 /\ x = b * d + r
  BY <1>1, Divided
<1>3. Rounded(x, b) \in {d, d + 1} /\ (r = 0 => Rounded(x, b) = d)
  BY <1>1, <1>2 DEF Rounded
<1> HIDE DEF d, r
<1>4. d <= s
  <2>1. SUFFICES ASSUME d >= s + 1 PROVE FALSE
    BY <1>2
  <2>2. b * d >= b * (s + 1)
    BY <1>2, <2>1
  <2>3. b * (s + 1) = b * s + b
    OBVIOUS
  <2> QED BY <1>1, <1>2, <2>2, <2>3
<1>5. d = s => r = 0
  <2>1. SUFFICES ASSUME d = s PROVE r = 0
    OBVIOUS
  <2>2. x = b * s + r /\ b * s \in Nat
    BY <1>2, <2>1
  <2> QED BY <1>1, <1>2, <2>2
<1> QED BY <1>2, <1>3, <1>4, <1>5 DEF x

(* Appending at most n fresh chunks of a list.                             *)
Grown(t, user, s, n) == s \o Slice(Fresh(t, user, s), n)

LEMMA GrowsBy ==
  ASSUME NEW user, NEW s, Good(s, user), NEW t, Distinct(t), NEW n \in Nat
  PROVE  /\ IsFiniteSet(New(Range(t), user, s)) /\ Cardinality(New(Range(t), user, s)) \in Nat
         /\ Len(s) \in Nat
         /\ Len(Grown(t, user, s, n)) =
              Len(s) + (IF n <= Cardinality(New(Range(t), user, s))
                        THEN n ELSE Cardinality(New(Range(t), user, s)))
         /\ Range(Grown(t, user, s, n)) \subseteq Range(s) \cup Range(t)
<1> DEFINE S == New(Range(t), user, s)
           f == Fresh(t, user, s)
           g == Slice(f, n)
<1>1. f = Filtered(t, S)
  BY DEF Fresh
<1>2. f \in Seq(Known) /\ IsInjective(f) /\ Range(f) = Range(t) \cap S
  <2> HIDE DEF S, f
  <2> QED BY <1>1, FilteredKeeps DEF Distinct
<1>3. Range(f) = S
  BY <1>2 DEF New
<1> HIDE DEF S, f
<1>4. IsFiniteSet(S) /\ Cardinality(S) = Len(f) /\ Len(f) \in Nat
  BY <1>2, <1>3, DistinctLength, LenProperties
<1>5. Len(g) = (IF n <= Cardinality(S) THEN n ELSE Cardinality(S))
  BY <1>2, <1>4, SliceLength
<1>6. g \in Seq(Known) /\ IsInjective(g) /\ Range(g) \subseteq S
  <2>1. n \in Int
    OBVIOUS
  <2> QED BY <1>2, <1>3, <2>1, SliceDistinct
<1> HIDE DEF g
<1>7. s \in Seq(Known) /\ IsInjective(s)
  BY DEF Good, Distinct
<1>8. Len(s \o g) = Len(s) + Len(g) /\ Len(s) \in Nat
  BY <1>6, <1>7, ConcatProperties, LenProperties
<1>9. Range(s \o g) \subseteq Range(s) \cup Range(t)
  <2>1. S \subseteq Range(t) /\ S \cap Range(s) = {}
    BY DEF S, New
  <2>2. Range(s \o g) = Range(s) \cup Range(g)
    BY <1>6, <1>7, <2>1, ConcatDistinct
  <2> QED BY <1>6, <2>1, <2>2
<1> QED BY <1>4, <1>5, <1>8, <1>9 DEF S, g, f, Grown

(* What a full request of the user has.                                    *)
ReadableChunks(user) == {c \in corpus : Readable(user, c)}

(* How many of them the fill may miss.                                     *)
Missed == Max({0, Cardinality(corpus) - FillSample})

FullFor(docs, user) ==
  /\ Len(docs) <= config.docs
  /\ Len(docs) >= Min({config.docs, Cardinality(ReadableChunks(user)) - Missed})

(* A good list of corpus chunks is no longer than what its user may read.  *)
LEMMA GoodIsBounded ==
  ASSUME Loaded, NEW user, NEW s, Good(s, user), Range(s) \subseteq corpus
  PROVE  /\ IsFiniteSet(ReadableChunks(user)) /\ Cardinality(ReadableChunks(user)) \in Nat
         /\ Cardinality(Range(s)) = Len(s) /\ IsFiniteSet(Range(s)) /\ Range(s) \subseteq ReadableChunks(user)
         /\ Len(s) \in Nat
<1> DEFINE R == ReadableChunks(user)
<1>1. IsFiniteSet(R) /\ Cardinality(R) \in Nat
  <2>1. R \in SUBSET corpus
    BY DEF ReadableChunks
  <2> QED BY <2>1, FS_Subset, FS_CardinalityType DEF Loaded
<1>2. s \in Seq(Known) /\ IsInjective(s)
  BY DEF Good, Distinct
<1>3. IsFiniteSet(Range(s)) /\ Cardinality(Range(s)) = Len(s) /\ Len(s) \in Nat
  BY <1>2, DistinctLength, LenProperties
<1>4. Range(s) \in SUBSET R
  BY DEF Good, ReadableChunks
<1> QED BY <1>1, <1>3, <1>4

(* The corpus without a set drawn from it for a fill.                      *)
LEMMA LeftOut ==
  ASSUME Loaded, NEW S \in SUBSET corpus, Cardinality(S) = Min({FillSample, Cardinality(corpus)})
  PROVE  IsFiniteSet(corpus \ S) /\ Cardinality(corpus \ S) = Missed /\ Missed \in Nat
<1>1. IsFiniteSet(corpus) /\ Cardinality(corpus) \in Nat /\ FillSample \in Nat
  BY ConfigAssumption, FS_CardinalityType DEF Loaded
<1>2. IsFiniteSet(S) /\ IsFiniteSet(corpus \ S) /\ Cardinality(S) \in Nat /\ Cardinality(corpus \ S) \in Nat
  BY <1>1, FS_Subset, FS_CardinalityType
<1>3. corpus = S \cup (corpus \ S) /\ S \cap (corpus \ S) = {}
  OBVIOUS
<1>4. Cardinality(corpus) = Cardinality(S) + Cardinality(corpus \ S)
  BY <1>2, <1>3, DisjointSizes
<1>5. Cardinality(S) = IF FillSample <= Cardinality(corpus) THEN FillSample ELSE Cardinality(corpus)
  BY <1>1, MinOfTwo
<1>6. Missed = IF 0 <= Cardinality(corpus) - FillSample THEN Cardinality(corpus) - FillSample ELSE 0
  BY <1>1, MaxOfTwo DEF Missed
<1> QED BY <1>1, <1>2, <1>4, <1>5, <1>6

(* The fill completes a list to that.                                      *)
LEMMA FillCompletes ==
  ASSUME Loaded, pc = "requests", NEW user, NEW s, Good(s, user), Range(s) \subseteq corpus,
         Len(s) <= config.docs, NEW docs \in Fills(user, s)
  PROVE  FullFor(docs, user)
<1> DEFINE d == config.docs
           R == ReadableChunks(user)
           m == Missed
<1>1. d \in Nat
  BY ConfigAssumption DEF Loaded
<1>2. /\ IsFiniteSet(R) /\ Cardinality(R) \in Nat
      /\ Cardinality(Range(s)) = Len(s) /\ IsFiniteSet(Range(s)) /\ Range(s) \subseteq R
      /\ Len(s) \in Nat
  BY GoodIsBounded
<1>3. m \in Nat
  <2>1. IsFiniteSet(corpus) /\ Cardinality(corpus) \in Nat /\ FillSample \in Nat
    BY ConfigAssumption, FS_CardinalityType DEF Loaded
  <2> QED BY <2>1, MaxOfTwo DEF Missed
<1> HIDE DEF m
<1>4. Min({d, Cardinality(R) - m}) = IF d <= Cardinality(R) - m THEN d ELSE Cardinality(R) - m
  BY <1>1, <1>2, <1>3, MinOfTwo
<1>5. CASE Len(s) >= d
  <2>1. docs = s
    BY <1>5 DEF Fills
  <2>2. Len(docs) = d
    BY <1>1, <1>2, <1>5, <2>1
  <2> QED BY <1>1, <1>2, <1>3, <1>4, <2>2 DEF FullFor, m
<1>6. CASE ~(Len(s) >= d)
  <2>1. PICK S \in SUBSET corpus :
          /\ IsFiniteSet(S) /\ Cardinality(S) = Min({FillSample, Cardinality(corpus)})
          /\ IsFiniteSet(New(S, user, s))
          /\ Len(docs) = Len(s) + Min({d - Len(s), Cardinality(New(S, user, s))})
    BY <1>6, Filled
  <2> DEFINE new  == New(S, user, s)
             out  == R \ (Range(s) \cup new)
  <2>2. IsFiniteSet(corpus \ S) /\ Cardinality(corpus \ S) = m
    BY <2>1, LeftOut DEF m
  <2>3. new \subseteq R /\ Range(s) \cap new = {} /\ out \in SUBSET (corpus \ S)
    BY DEF New, ReadableChunks
  <2> HIDE DEF new, R
  <2>4. IsFiniteSet(new) /\ Cardinality(new) \in Nat
    BY <2>1, FS_CardinalityType DEF new
  <2>5. IsFiniteSet(out) /\ Cardinality(out) \in Nat /\ Cardinality(out) <= m
    BY <2>2, <2>3, FS_Subset, FS_CardinalityType
  <2>6. IsFiniteSet(Range(s) \cup new) /\ Cardinality(Range(s) \cup new) = Len(s) + Cardinality(new)
    BY <1>2, <2>3, <2>4, DisjointSizes
  <2>7. R = (Range(s) \cup new) \cup out /\ (Range(s) \cup new) \cap out = {}
    BY <1>2, <2>3
  <2> HIDE DEF out
  <2>8. Cardinality(R) = Len(s) + Cardinality(new) + Cardinality(out)
    BY <2>5, <2>6, <2>7, DisjointSizes
  <2>9. d - Len(s) \in Nat
    BY <1>1, <1>2
  <2>10. Min({d - Len(s), Cardinality(new)}) =
           IF d - Len(s) <= Cardinality(new) THEN d - Len(s) ELSE Cardinality(new)
    BY <2>4, <2>9, MinOfTwo
  <2>11. Len(docs) = Len(s) + (IF d - Len(s) <= Cardinality(new) THEN d - Len(s) ELSE Cardinality(new))
    BY <2>1, <2>10 DEF new
  <2> HIDE DEF d
  <2>12. Len(docs) <= d /\ Len(docs) >= Min({d, Cardinality(R) - m})
    BY <1>1, <1>2, <1>3, <1>4, <2>4, <2>5, <2>8, <2>11
  <2> QED BY <2>12 DEF FullFor, d, R, m
<1> QED BY <1>5, <1>6

(* Gold and hot chunks leave room, and all that is chosen is in the corpus.*)
LEMMA AskedFull ==
  ASSUME Loaded, pc = "requests",
         NEW q \in pool, Range(q.golds) \subseteq corpus, Len(q.golds) <= config.docs,
         NEW user \in Eligible(q), NEW picks \in HotPicks(q, user),
         NEW chosen, chosen = q.golds \o SetToSeq(picks),
         Range(q.context) \ Range(chosen) \subseteq corpus,
         NEW docs \in Fills(user, chosen \o Slice(Fresh(q.context, user, chosen), config.docs - Len(chosen)))
  PROVE  FullFor(docs, user)
<1> DEFINE cand  == {c \in hot : c \notin Range(q.golds) /\ Readable(user, c)}
           list  == SetToSeq(picks)
           slots == config.docs - Len(q.golds)
           need  == config.docs - Len(chosen)
           known == chosen \o Slice(Fresh(q.context, user, chosen), need)
<1>1. /\ IsFiniteSet(corpus) /\ corpus \subseteq Known /\ config.docs \in Nat /\ q \in AllQuestions
      /\ config.share \in Nat \X (Nat \ {0}) /\ config.share[1] <= config.share[2]
  BY ConfigAssumption DEF Loaded
<1>2. Distinct(q.golds) /\ Distinct(q.context)
  BY <1>1, QuestionLists DEF Distinct, AllQuestions
<1>3. q.golds \in Seq(Known) /\ Len(q.golds) \in Nat /\ slots \in Nat
  BY <1>1, <1>2, LenProperties DEF Distinct
<1>4. picks \subseteq cand /\ cand \subseteq corpus
  BY DEF HotPicks, kSubset, Loaded
<1>5. IsFiniteSet(picks) /\ IsFiniteSet(cand) /\ Cardinality(picks) \in Nat /\ Cardinality(cand) \in Nat
  BY <1>1, <1>4, FS_Subset, FS_CardinalityType
<1>6. Cardinality(picks) <= slots
  <2>1. Max({0, slots}) = slots
    BY <1>3, MaxOfTwo
  <2>2. Cardinality(picks) = Min({Rounded(config.share[1] * slots, config.share[2]), Cardinality(cand)})
    BY <2>1 DEF HotPicks, kSubset
  <2>3. Rounded(config.share[1] * slots, config.share[2]) \in 0 .. slots
    BY <1>1, <1>3, RoundedShare
  <2> QED BY <1>3, <1>5, <2>2, <2>3, MinOfTwo
<1>7. list \in Seq(picks) /\ IsInjective(list) /\ Range(list) \subseteq picks /\ Len(list) = Cardinality(picks)
  BY <1>5, Listed, ListedAll
<1>8. list \in Seq(Known)
  BY <1>1, <1>4, <1>7, SeqMonotonic
<1> HIDE DEF list, slots, need
<1>9. chosen = q.golds \o list
  BY DEF list
<1>10. /\ chosen \in Seq(Known) /\ IsInjective(chosen)
       /\ Range(chosen) = Range(q.golds) \cup Range(list)
  <2>1. Range(q.golds) \cap Range(list) = {}
    BY <1>4, <1>7
  <2> QED BY <1>2, <1>7, <1>8, <1>9, <2>1, ConcatDistinct DEF Distinct
<1>11. Len(chosen) = Len(q.golds) + Len(list) /\ Len(chosen) \in Nat
  BY <1>3, <1>8, <1>9, <1>10, ConcatProperties, LenProperties
<1>12. need \in Nat
  <2>1. config.docs \in Nat /\ config.docs - Len(q.golds) \in Nat /\ Len(list) <= config.docs - Len(q.golds)
    BY <1>1, <1>3, <1>6, <1>7 DEF slots
  <2>2. need = config.docs - (Len(q.golds) + Len(list)) /\ Len(list) \in Nat
    BY <1>5, <1>7, <1>11 DEF need
  <2> QED BY <1>3, <2>1, <2>2
<1>13. Good(chosen, user)
  BY <1>4, <1>7, <1>10 DEF Good, Distinct, Eligible
<1>14. Good(known, user)
  BY <1>2, <1>12, <1>13, Grows
<1> DEFINE new == New(Range(q.context), user, chosen)
<1>15. /\ Cardinality(new) \in Nat
       /\ Len(known) = Len(chosen) + (IF need <= Cardinality(new) THEN need ELSE Cardinality(new))
       /\ Range(known) \subseteq Range(chosen) \cup Range(q.context)
  <2>1. known = Grown(q.context, user, chosen, need)
    BY DEF Grown
  <2> HIDE DEF known
  <2> DEFINE t == q.context
             S == New(Range(t), user, chosen)
  <2>2. Distinct(t) /\ need \in Nat /\ Good(chosen, user)
    BY <1>2, <1>12, <1>13
  <2> HIDE DEF t
  <2>3. /\ Cardinality(S) \in Nat
        /\ Len(Grown(t, user, chosen, need)) =
             Len(chosen) + (IF need <= Cardinality(S) THEN need ELSE Cardinality(S))
        /\ Range(Grown(t, user, chosen, need)) \subseteq Range(chosen) \cup Range(t)
    BY <2>2, GrowsBy, ZenonT(30)
  <2> QED BY <2>1, <2>3 DEF t
<1> HIDE DEF new, known
<1>16. Len(known) <= config.docs
  BY <1>1, <1>11, <1>12, <1>15 DEF need
<1>17. Range(known) \subseteq corpus
  BY <1>4, <1>7, <1>10, <1>15
<1>18. docs \in Fills(user, known)
  BY DEF known, need
<1> QED BY <1>14, <1>16, <1>17, <1>18, FillCompletes

-----------------------------------------------------------------------------
(* The invariant.                                                          *)

LEMMA InitInv == Init => IInv
<1> SUFFICES ASSUME Init PROVE IInv
  OBVIOUS
<1>1. Saved
  <2>1. IsFiniteSet({})
    BY FS_EmptySet
  <2> QED BY <2>1 DEF Init, Saved
<1>2. Loaded
  BY FS_EmptySet DEF Init, Loaded
<1> QED BY <1>1, <1>2 DEF Init, IInv, Matching, GoldsInCorpus, AlreadyAuthorized, RequestsAreFull,
          GoldsAndNoChunkTwice, OnlyMismatchRaises

(* Without a request or an error there is nothing else to show.            *)
LEMMA NothingYet ==
  (Saved /\ Loaded /\ Matching /\ pc \notin {"requests", "KeyError"})' => IInv'
  BY DEF IInv, Loaded, GoldsInCorpus, AlreadyAuthorized, RequestsAreFull, GoldsAndNoChunkTwice, OnlyMismatchRaises

(* Nor while the request and what it was drawn from stay.                  *)
LEMMA SameRequest ==
  ASSUME IInv, UNCHANGED <<corpus, config, membership, acl, request>>
  PROVE  AlreadyAuthorized' /\ RequestsAreFull'
<1>1. \A u, c : Readable(u, c)' <=> Readable(u, c)
  BY DEF Readable, A!Allows, A!Public, A!Empty, A!PublicAtom, A!UserAtom, A!UserAtoms, A!GroupAtoms
<1>2. AlreadyAuthorized' /\ GoldsAndNoChunkTwice'
  BY <1>1 DEF IInv, AlreadyAuthorized, RequestsAreFull, GoldsAndNoChunkTwice
<1>3. {c \in corpus : Readable(request.user, c)}' = {c \in corpus : Readable(request.user, c)}
  BY <1>1
<1>4. RequestsAreFull'
  BY <1>2, <1>3 DEF IInv, RequestsAreFull
<1> QED BY <1>2, <1>4

(* Changing one of the files.                                              *)
LEMMA OneFile ==
  ASSUME Saved, NEW f \in {"corpus", "questions"}, NEW lines, NEW torn \in BOOLEAN,
         lines \subseteq (IF f = "corpus" THEN Known ELSE AllQuestions),
         f = "corpus" => IsFiniteSet(lines),
         disk' = [disk EXCEPT ![f] = [lines |-> lines, torn |-> torn]]
  PROVE  /\ disk' \in [{"corpus", "questions"} -> [lines : SUBSET (Known \cup AllQuestions), torn : BOOLEAN]]
         /\ IsFiniteSet(disk'["corpus"].lines) /\ disk'["corpus"].lines \subseteq Known
         /\ disk'["questions"].lines \subseteq AllQuestions
         /\ disk'[f].lines = lines
         /\ \A g \in {"corpus", "questions"} \ {f} : disk'[g] = disk[g]
<1>1. [lines |-> lines, torn |-> torn] \in [lines : SUBSET (Known \cup AllQuestions), torn : BOOLEAN]
  OBVIOUS
<1>2. disk \in [{"corpus", "questions"} -> [lines : SUBSET (Known \cup AllQuestions), torn : BOOLEAN]]
  BY DEF Saved
<1>3. /\ disk' \in [{"corpus", "questions"} -> [lines : SUBSET (Known \cup AllQuestions), torn : BOOLEAN]]
      /\ disk'[f] = [lines |-> lines, torn |-> torn]
      /\ \A g \in {"corpus", "questions"} \ {f} : disk'[g] = disk[g]
  BY <1>1, <1>2
<1>4. CASE f = "corpus"
  <2>1. disk'["questions"] = disk["questions"] /\ disk'["corpus"].lines = lines
    BY <1>3, <1>4
  <2> QED BY <1>3, <1>4, <2>1 DEF Saved
<1>5. CASE f = "questions"
  <2>1. disk'["corpus"] = disk["corpus"] /\ disk'["questions"].lines = lines
    BY <1>3, <1>5
  <2> QED BY <1>3, <1>5, <2>1 DEF Saved
<1> QED BY <1>4, <1>5

(* What a preparation writes is part of its sample.                        *)
LEMMA PartsOfSample ==
  ASSUME sample \in Samples
  PROVE  /\ IsFiniteSet(Chunks(sample)) /\ Chunks(sample) \subseteq Known
         /\ Questions(sample) \subseteq AllQuestions
         /\ \A cut \in CorpusCuts : IsFiniteSet(cut) /\ cut \subseteq Known
         /\ \A cut \in QuestionCuts : cut \subseteq Questions(sample)
<1>1. IsFiniteSet(Chunks(sample)) /\ Chunks(sample) \subseteq Known /\ Questions(sample) \subseteq AllQuestions
  BY FinitelyManyChunks DEF Known, AllQuestions
<1>2. \A cut \in CorpusCuts : cut \in SUBSET Chunks(sample)
  BY CutsAreParts
<1>3. \A cut \in CorpusCuts : IsFiniteSet(cut) /\ cut \subseteq Known
  BY <1>1, <1>2, FS_Subset
<1> QED BY <1>1, <1>3, CutsAreParts

LEMMA PreparationInv == IInv /\ Preparation => IInv'
<1> SUFFICES ASSUME IInv, Preparation PROVE (Saved /\ Loaded /\ Matching /\ pc \notin {"requests", "KeyError"})'
  BY NothingYet
<1>1. /\ Saved /\ Loaded /\ Matching /\ pc \in {"idle", "questions"}
      /\ UNCHANGED <<corpus, questions, config, membership, acl, hot, pool, request, pc>>
  BY DEF Preparation, drawn, IInv
<1>2. (Loaded /\ pc \notin {"requests", "KeyError"})'
  BY <1>1 DEF Loaded
<1>3. ASSUME NEW s \in Samples, Prepare(s) PROVE Saved' /\ Matching'
  <2>1. /\ sample' = s /\ stage' = "corpus" /\ matched' = FALSE
        /\ disk' = [disk EXCEPT !["corpus"] = [lines |-> {}, torn |-> FALSE]]
    BY <1>3 DEF Prepare, Open
  <2>2. /\ disk' \in [{"corpus", "questions"} -> [lines : SUBSET (Known \cup AllQuestions), torn : BOOLEAN]]
        /\ IsFiniteSet(disk'["corpus"].lines) /\ disk'["corpus"].lines \subseteq Known
        /\ disk'["questions"].lines \subseteq AllQuestions
    BY <1>1, <2>1, FS_EmptySet, OneFile
  <2>3. Saved'
    BY <2>1, <2>2 DEF Saved
  <2>4. Matching'
    BY <2>1 DEF Matching
  <2> QED BY <2>3, <2>4
<1>4. CASE WriteLines
  <2>1. PICK cut \in Cuts(stage), torn \in BOOLEAN :
          disk' = [disk EXCEPT ![stage] = [lines |-> cut, torn |-> torn]]
    BY <1>4 DEF WriteLines
  <2>2. stage \in {"corpus", "questions"} /\ UNCHANGED <<sample, stage, matched>> /\ sample \in Samples
    BY <1>1, <1>4 DEF WriteLines, Saved
  <2>3. CASE stage = "corpus"
    <3>1. IsFiniteSet(cut) /\ cut \subseteq Known
      BY <2>2, <2>3, PartsOfSample DEF Cuts
    <3>2. /\ disk' \in [{"corpus", "questions"} -> [lines : SUBSET (Known \cup AllQuestions), torn : BOOLEAN]]
          /\ IsFiniteSet(disk'["corpus"].lines) /\ disk'["corpus"].lines \subseteq Known
          /\ disk'["questions"].lines \subseteq AllQuestions
      BY <1>1, <2>1, <2>3, <3>1, OneFile
    <3>3. Saved'
      BY <1>1, <2>2, <2>3, <3>2 DEF Saved
    <3>4. Matching'
      BY <1>1, <2>2, <2>3 DEF Matching
    <3> QED BY <1>2, <3>3, <3>4
  <2>4. CASE stage = "questions"
    <3>1. cut \subseteq Questions(sample) /\ Questions(sample) \subseteq AllQuestions
      BY <2>2, <2>4, PartsOfSample DEF Cuts
    <3>2. /\ disk' \in [{"corpus", "questions"} -> [lines : SUBSET (Known \cup AllQuestions), torn : BOOLEAN]]
          /\ IsFiniteSet(disk'["corpus"].lines) /\ disk'["corpus"].lines \subseteq Known
          /\ disk'["questions"].lines \subseteq AllQuestions
          /\ disk'["questions"].lines = cut /\ disk'["corpus"] = disk["corpus"]
      BY <1>1, <2>1, <2>4, <3>1, OneFile
    <3>3. Saved'
      BY <1>1, <2>2, <2>4, <3>1, <3>2 DEF Saved
    <3>4. Matching'
      BY <1>1, <2>2, <2>4 DEF Matching
    <3> QED BY <1>2, <3>3, <3>4
  <2> QED BY <2>2, <2>3, <2>4
<1>5. CASE SaveCorpus
  <2>1. /\ stage = "corpus" /\ stage' = "between" /\ UNCHANGED <<sample, matched>> /\ sample \in Samples
        /\ disk' = [disk EXCEPT !["corpus"] = [lines |-> Chunks(sample), torn |-> FALSE]]
    BY <1>1, <1>5 DEF SaveCorpus, Close, Whole, Saved
  <2>2. IsFiniteSet(Chunks(sample)) /\ Chunks(sample) \subseteq Known
    BY <2>1, PartsOfSample
  <2>3. /\ disk' \in [{"corpus", "questions"} -> [lines : SUBSET (Known \cup AllQuestions), torn : BOOLEAN]]
        /\ IsFiniteSet(disk'["corpus"].lines) /\ disk'["corpus"].lines \subseteq Known
        /\ disk'["questions"].lines \subseteq AllQuestions
        /\ disk'["corpus"].lines = Chunks(sample)
    BY <1>1, <2>1, <2>2, OneFile
  <2>4. Saved'
    BY <1>1, <2>1, <2>3 DEF Saved
  <2>5. Matching'
    BY <1>1, <2>1 DEF Matching
  <2> QED BY <1>2, <2>4, <2>5
<1>6. CASE OpenQuestions
  <2>1. /\ stage = "between" /\ stage' = "questions" /\ UNCHANGED <<sample, matched>> /\ sample \in Samples
        /\ disk' = [disk EXCEPT !["questions"] = [lines |-> {}, torn |-> FALSE]]
    BY <1>1, <1>6 DEF OpenQuestions, Open, Saved
  <2>2. /\ disk' \in [{"corpus", "questions"} -> [lines : SUBSET (Known \cup AllQuestions), torn : BOOLEAN]]
        /\ IsFiniteSet(disk'["corpus"].lines) /\ disk'["corpus"].lines \subseteq Known
        /\ disk'["questions"].lines = {} /\ disk'["corpus"] = disk["corpus"]
    <3>1. {} \subseteq AllQuestions
      OBVIOUS
    <3>2. disk' = [disk EXCEPT !["questions"] = [lines |-> {}, torn |-> FALSE]]
      BY <2>1
    <3> QED BY <1>1, <3>1, <3>2, FS_EmptySet, OneFile
  <2>3. Saved'
    BY <1>1, <2>1, <2>2 DEF Saved
  <2>4. Matching'
    BY <1>1, <2>1 DEF Matching
  <2> QED BY <1>2, <2>3, <2>4
<1>7. CASE SaveQuestions
  <2>1. /\ stage = "questions" /\ stage' = "over" /\ UNCHANGED <<sample, matched>> /\ sample \in Samples
        /\ disk' = [disk EXCEPT !["questions"] = [lines |-> Questions(sample), torn |-> FALSE]]
    BY <1>1, <1>7 DEF SaveQuestions, Close, Whole, Saved
  <2>2. Questions(sample) \subseteq AllQuestions
    BY <2>1, PartsOfSample
  <2>3. /\ disk' \in [{"corpus", "questions"} -> [lines : SUBSET (Known \cup AllQuestions), torn : BOOLEAN]]
        /\ IsFiniteSet(disk'["corpus"].lines) /\ disk'["corpus"].lines \subseteq Known
        /\ disk'["questions"].lines = Questions(sample) /\ disk'["corpus"] = disk["corpus"]
    BY <1>1, <2>1, <2>2, OneFile
  <2>4. Saved'
    BY <1>1, <2>1, <2>2, <2>3 DEF Saved
  <2>5. Matching'
    BY <1>1, <2>1 DEF Matching
  <2> QED BY <1>2, <2>4, <2>5
<1>8. CASE KillPrepare
  <2>1. /\ disk' = disk /\ matched' = matched
        /\ \/ stage = "questions" /\ stage' = "over" /\ sample' = sample
           \/ stage \in {"corpus", "between"} /\ stage' = "none"
    BY <1>8 DEF KillPrepare
  <2>2. Saved'
    BY <1>1, <2>1 DEF Saved
  <2>3. Matching'
    BY <1>1, <2>1 DEF Matching
  <2> QED BY <1>2, <2>2, <2>3
<1> QED BY <1>2, <1>3, <1>4, <1>5, <1>6, <1>7, <1>8 DEF Preparation

(* Questions of the preparation the corpus is of lack no chunk of it.      *)
LEMMA MissingChunk ==
  ASSUME Saved, Loaded, Matching, pc = "requests", NEW q \in pool, ~(Range(q.context) \subseteq corpus)
  PROVE  ~matched
<1> SUFFICES ASSUME matched PROVE FALSE
  OBVIOUS
<1>1. sample \in Samples /\ corpus = Chunks(sample) /\ q \in Questions(sample)
  BY DEF Saved, Loaded, Matching
<1> QED BY <1>1, QuestionLists

LEMMA GenerateInv == IInv /\ Generate => IInv'
<1> SUFFICES ASSUME IInv, Generate PROVE IInv'
  OBVIOUS
<1>1. /\ pc = "requests" /\ Saved /\ Loaded /\ Matching
      /\ UNCHANGED <<disk, sample, stage, corpus, questions, matched, config, membership, acl, hot, pool>>
  BY DEF Generate, IInv, files, drawn
<1>q. PICK q \in pool : \E user \in Eligible(q) : \E picks \in HotPicks(q, user) : Ask(q, user, picks)
  BY DEF Generate
<1>u. PICK user \in Eligible(q) : \E picks \in HotPicks(q, user) : Ask(q, user, picks)
  BY <1>q
<1>2. PICK picks \in HotPicks(q, user) : Ask(q, user, picks)
  BY <1>u
<1>3. pc' \in {"requests", "KeyError"}
  BY <1>1, <1>2 DEF Ask
<1>4. Saved' /\ Loaded' /\ Matching' /\ GoldsInCorpus'
  BY <1>1, <1>3 DEF Saved, Loaded, Matching, GoldsInCorpus, IInv
<1>5. \A u, c : Readable(u, c)' <=> Readable(u, c)
  BY <1>1 DEF Readable, A!Allows, A!Public, A!Empty, A!PublicAtom, A!UserAtom, A!UserAtoms, A!GroupAtoms
<1> DEFINE chosen == q.golds \o SetToSeq(picks)
<1>6. CASE Range(q.context) \ Range(chosen) \subseteq corpus
  <2>1. pc' = "requests"
    BY <1>1, <1>2, <1>6 DEF Ask
  <2>2. PICK docs \in Fills(user, chosen \o Slice(Fresh(q.context, user, chosen), config.docs - Len(chosen))) :
          request' = [user |-> user, question |-> q, docs |-> docs]
    BY <1>2, <1>6 DEF Ask
  <2>3. Good(docs, user) /\ Range(q.golds) \subseteq Range(docs)
    BY <1>1, <2>2, Asked
  <2>4. /\ request'.docs = docs /\ request'.user = user /\ request'.question = q
    BY <2>2
  <2>5. AlreadyAuthorized' /\ GoldsAndNoChunkTwice'
    BY <1>5, <2>3, <2>4 DEF AlreadyAuthorized, GoldsAndNoChunkTwice, Good, Distinct
  <2>6. Len(q.golds) <= config.docs => FullFor(docs, user)
    <3> HIDE DEF chosen
    <3>1. chosen = q.golds \o SetToSeq(picks) /\ Range(q.golds) \subseteq corpus
      BY DEF chosen, IInv, GoldsInCorpus
    <3> QED BY <1>1, <1>6, <2>2, <3>1, AskedFull
  <2>7. ReadableChunks(user) = {c \in corpus : Readable(user, c)'}
    BY <1>5 DEF ReadableChunks
  <2>8. RequestsAreFull'
    BY <1>1, <2>4, <2>5, <2>6, <2>7 DEF RequestsAreFull, FullFor, Missed
  <2> QED BY <1>4, <2>1, <2>5, <2>8 DEF IInv, OnlyMismatchRaises
<1>7. CASE ~(Range(q.context) \ Range(chosen) \subseteq corpus)
  <2>1. request' = request
    BY <1>2, <1>7 DEF Ask
  <2>2. ~(Range(q.context) \subseteq corpus)
    BY <1>7
  <2>3. ~matched'
    BY <1>1, <2>2, MissingChunk
  <2>4. AlreadyAuthorized' /\ RequestsAreFull'
    BY <1>1, <2>1, SameRequest
  <2> QED BY <1>4, <2>3, <2>4 DEF IInv, OnlyMismatchRaises
<1> QED BY <1>6, <1>7

LEMMA StepInv == IInv /\ [Next]_vars => IInv'
<1> SUFFICES ASSUME IInv, [Next]_vars PROVE IInv'
  OBVIOUS
<1>1. CASE Preparation
  BY <1>1, PreparationInv
<1>2. CASE LoadCorpus
  <2>1. /\ pc = "idle" /\ pc' = "questions" /\ corpus' = disk["corpus"].lines
        /\ matched' = (stage \in {"between", "questions", "over"})
        /\ UNCHANGED <<disk, sample, stage, questions, config, hot, pool, request>>
    BY <1>2 DEF LoadCorpus, files, drawn
  <2>2. (Saved /\ Loaded /\ Matching)'
    BY <2>1 DEF IInv, Saved, Loaded, Matching
  <2> QED BY <2>1, <2>2, NothingYet
<1>3. CASE Draw
  <2>1. hot' \subseteq corpus
    BY <1>3 DEF Draw, kSubset
  <2>2. /\ pc = "questions" /\ pc' = "pool" /\ questions' = disk["questions"].lines
        /\ matched' = (matched /\ stage \in {"questions", "over"}) /\ config' \in Configs
        /\ UNCHANGED <<disk, sample, stage, corpus, pool, request>>
    BY <1>3 DEF Draw, files
  <2>3. (Saved /\ Loaded /\ Matching)'
    BY <2>1, <2>2 DEF IInv, Saved, Loaded, Matching
  <2> QED BY <2>2, <2>3, NothingYet
<1>4. CASE FillPool
  <2>1. pool' \subseteq questions /\ \A q \in pool' : Range(q.golds) \subseteq corpus
    BY <1>4 DEF FillPool, kSubset, Askable
  <2>2. /\ pc = "pool" /\ request' = request /\ request = NoRequest
        /\ UNCHANGED <<disk, sample, stage, corpus, questions, matched, config, hot>>
        /\ pc' = IF pool' = {} THEN "RuntimeError" ELSE "requests"
    BY <1>4 DEF FillPool, IInv, Loaded, files
  <2>3. Saved' /\ Loaded' /\ Matching' /\ GoldsInCorpus'
    BY <2>1, <2>2 DEF IInv, Saved, Loaded, Matching, GoldsInCorpus
  <2> QED BY <2>2, <2>3 DEF IInv, AlreadyAuthorized, RequestsAreFull, GoldsAndNoChunkTwice, OnlyMismatchRaises
<1>5. CASE Generate
  BY <1>5, GenerateInv
<1>6. CASE Finish
  <2>1. /\ pc' = "idle" /\ corpus' = {} /\ questions' = {} /\ matched' = FALSE /\ pool' = {}
        /\ request' = NoRequest
        /\ UNCHANGED <<disk, sample, stage>>
    BY <1>6 DEF Finish, Clear, files
  <2>2. (Saved /\ Loaded /\ Matching)'
    BY <2>1, FS_EmptySet DEF IInv, Saved, Loaded, Matching
  <2> QED BY <2>1, <2>2, NothingYet
<1>7. CASE UNCHANGED vars
  <2>1. Saved' /\ Loaded' /\ Matching' /\ GoldsInCorpus' /\ OnlyMismatchRaises'
    BY <1>7 DEF vars, drawn, files, IInv, Saved, Loaded, Matching, GoldsInCorpus, OnlyMismatchRaises
  <2>2. AlreadyAuthorized' /\ RequestsAreFull'
    BY <1>7, SameRequest DEF vars, drawn
  <2> QED BY <2>1, <2>2 DEF IInv
<1> QED BY <1>1, <1>2, <1>3, <1>4, <1>5, <1>6, <1>7 DEF Next

LEMMA Invariant == Spec => []IInv
  BY InitInv, StepInv, PTL DEF Spec

-----------------------------------------------------------------------------
(* Theorems.                                                               *)

(* The requester of every generated request may read all of its evidence.  *)
THEOREM RequestsAuthorized == Spec => []AlreadyAuthorized
<1>1. IInv => AlreadyAuthorized
  BY DEF IInv
<1> QED BY <1>1, Invariant, PTL

(* Every generated request has its gold chunks, and no chunk twice.        *)
THEOREM RequestsDistinct == Spec => []GoldsAndNoChunkTwice
<1>1. IInv => GoldsAndNoChunkTwice
  BY DEF IInv, RequestsAreFull
<1> QED BY <1>1, Invariant, PTL

(* The generator's KeyError has one cause, whenever preparations run, die  *)
(* in the middle of a file or between the two, and run again.              *)
THEOREM KeyErrorsExplained == Spec => []OnlyMismatchRaises
<1>1. IInv => OnlyMismatchRaises
  BY DEF IInv
<1> QED BY <1>1, Invariant, PTL

(* If its gold chunks fit, it also has docs_per_request chunks, or all     *)
(* that its user can read but for those a fill may have missed.            *)
THEOREM RequestsComplete == Spec => []RequestsAreFull
<1>1. IInv => RequestsAreFull
  BY DEF IInv
<1> QED BY <1>1, Invariant, PTL

=============================================================================

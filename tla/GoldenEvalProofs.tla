-------------------------- MODULE GoldenEvalProofs --------------------------
(***************************************************************************)
(* Machine-checked properties of GoldenEval.                               *)
(***************************************************************************)
EXTENDS GoldenEval, FiniteSetTheorems, SequenceTheorems, TLAPS

-----------------------------------------------------------------------------
(* What a Counter says of the calls it has counted.                        *)

\* The calls, of n calls behind the first lo, that came to x.
Hits(s, lo, n, x) == {j \in 1..n : s[lo + j] = x}

\* Both sequences have the same calls there.
Agree(s, z, lo, n) == \A j \in 1..n : z[lo + j] = s[lo + j]

\* c and e are the Counter and the failures of n calls behind the first lo.
Tally(s, lo, n, c, e) ==
    /\ DOMAIN c = {s[lo + j] : j \in 1..n} \ {Absent}
    /\ \A t \in DOMAIN c : c[t] = Cardinality(Hits(s, lo, n, t))
    /\ e = Cardinality(Hits(s, lo, n, Absent))
    /\ IsFiniteSet(DOMAIN c) /\ IsFiniteSet(Units(c))
    /\ Sum(c) + e = n
    /\ DOMAIN c # {} => \E t \in DOMAIN c : \A u \in DOMAIN c : c[u] <= c[t]

LEMMA UpTo ==
  ASSUME NEW n \in Nat
  PROVE  IsFiniteSet(1..n) /\ Cardinality(1..n) = n
<1>1. IsFiniteSet(1..n)
  BY FS_Interval
<1>2. Cardinality(1..n) = n
  BY FS_Interval
<1>3. QED BY <1>1, <1>2

LEMMA HitsFinite ==
  ASSUME NEW s, NEW lo \in Nat, NEW n \in Nat, NEW x
  PROVE  /\ IsFiniteSet(Hits(s, lo, n, x))
         /\ Cardinality(Hits(s, lo, n, x)) \in 0..n
<1>1. IsFiniteSet(1..n) /\ Cardinality(1..n) = n
  BY UpTo
<1>2. Hits(s, lo, n, x) \in SUBSET (1..n)
  BY DEF Hits
<1>3. /\ IsFiniteSet(Hits(s, lo, n, x))
      /\ Cardinality(Hits(s, lo, n, x)) <= n
  BY <1>1, <1>2, FS_Subset
<1>4. Cardinality(Hits(s, lo, n, x)) \in Nat
  BY <1>3, FS_CardinalityType
<1>5. QED BY <1>3, <1>4

\* One more call counts for what it came to and for nothing else.
LEMMA HitsNext ==
  ASSUME NEW s, NEW z, NEW lo \in Nat, NEW n \in Nat, NEW m \in Nat, NEW x,
         n < m, m <= n + 1,
         Agree(s, z, lo, n)
  PROVE  /\ z[lo + m] = x =>
               Cardinality(Hits(z, lo, m, x)) = Cardinality(Hits(s, lo, n, x)) + 1
         /\ z[lo + m] # x =>
               Cardinality(Hits(z, lo, m, x)) = Cardinality(Hits(s, lo, n, x))
<1>1. IsFiniteSet(Hits(s, lo, n, x)) /\ m \notin Hits(s, lo, n, x)
  <2>1. m \notin Hits(s, lo, n, x)
    BY DEF Hits
  <2>2. QED BY <2>1, HitsFinite
<1>2. 1..m = 1..n \cup {m}
  OBVIOUS
<1>3. CASE z[lo + m] = x
  <2>1. Hits(z, lo, m, x) = Hits(s, lo, n, x) \cup {m}
    BY <1>2, <1>3 DEF Hits, Agree
  <2>2. QED BY <1>1, <1>3, <2>1, FS_AddElement
<1>4. CASE z[lo + m] # x
  <2>1. Hits(z, lo, m, x) = Hits(s, lo, n, x)
    BY <1>2, <1>4 DEF Hits, Agree
  <2>2. Cardinality(Hits(s, lo, n, x)) \in Nat
    BY HitsFinite
  <2>3. QED BY <1>4, <2>1, <2>2
<1>5. QED BY <1>3, <1>4

LEMMA TallySame ==
  ASSUME NEW s, NEW z, NEW lo \in Nat, NEW n \in Nat, NEW c, NEW e,
         Agree(s, z, lo, n),
         Tally(s, lo, n, c, e)
  PROVE  Tally(z, lo, n, c, e)
<1>1. {z[lo + j] : j \in 1..n} = {s[lo + j] : j \in 1..n}
  BY DEF Agree
<1>2. \A x : Hits(z, lo, n, x) = Hits(s, lo, n, x)
  BY DEF Hits, Agree
<1>3. QED BY <1>1, <1>2 DEF Tally

LEMMA TallyNone ==
  ASSUME NEW s, NEW lo \in Nat
  PROVE  Tally(s, lo, 0, NoCounts, 0)
<1>1. DOMAIN NoCounts = {} /\ Units(NoCounts) = {}
  BY DEF NoCounts, Units
<1>2. \A x : Hits(s, lo, 0, x) = {}
  BY DEF Hits
<1>3. {s[lo + j] : j \in 1..0} = {}
  OBVIOUS
<1>4. Cardinality({}) = 0 /\ IsFiniteSet({})
  BY FS_EmptySet
<1>5. Sum(NoCounts) + 0 = 0 /\ DOMAIN NoCounts = {s[lo + j] : j \in 1..0} \ {Absent}
  BY <1>1, <1>3, <1>4 DEF Sum
<1>6. IsFiniteSet(DOMAIN NoCounts) /\ IsFiniteSet(Units(NoCounts))
  BY <1>1, <1>4
<1>7. 0 = Cardinality(Hits(s, lo, 0, Absent))
  BY <1>2, <1>4
<1>8. QED BY <1>1, <1>5, <1>6, <1>7 DEF Tally

\* Counting an answer adds one unit to the Counter.
LEMMA UnitsCount ==
  ASSUME \A t \in DOMAIN counts : counts[t] \in Nat, NEW a
  PROVE  /\ Units(Count(a)) = Units(counts) \cup {<<a, Times(a) + 1>>}
         /\ <<a, Times(a) + 1>> \notin Units(counts)
<1>1. DOMAIN Count(a) = DOMAIN counts \cup {a}
  BY DEF Count
<1>2. Times(a) \in Nat
  BY DEF Times
<1>3. /\ Count(a)[a] = Times(a) + 1
      /\ \A t \in DOMAIN counts \ {a} : Count(a)[t] = counts[t]
  BY DEF Count, Times
<1>4. 1..Count(a)[a] = 1..Times(a) \cup {Times(a) + 1}
  BY <1>2, <1>3
<1>5. <<a, Times(a) + 1>> \notin Units(counts)
  <2>1. SUFFICES ASSUME NEW t \in DOMAIN counts, <<a, Times(a) + 1>> \in {t} \X (1..counts[t])
                 PROVE  FALSE
    BY DEF Units
  <2>2. t = a /\ Times(a) + 1 \in 1..counts[t]
    BY <2>1
  <2>3. QED BY <2>2 DEF Times
<1>6. ASSUME NEW u \in Units(Count(a)) PROVE u \in Units(counts) \cup {<<a, Times(a) + 1>>}
  <2>1. PICK t \in DOMAIN Count(a) : u \in {t} \X (1..Count(a)[t])
    BY <1>6 DEF Units
  <2>2. CASE t # a
    <3>1. t \in DOMAIN counts /\ u \in {t} \X (1..counts[t])
      BY <1>1, <1>3, <2>1, <2>2
    <3>2. QED BY <3>1 DEF Units
  <2>3. CASE t = a
    <3>1. PICK k \in 1..Count(a)[a] : u = <<a, k>>
      BY <2>1, <2>3
    <3>2. CASE k = Times(a) + 1
      BY <3>1, <3>2
    <3>3. CASE k \in 1..Times(a)
      <4>1. a \in DOMAIN counts /\ Times(a) = counts[a]
        BY <3>3 DEF Times
      <4>2. QED BY <3>1, <3>3, <4>1 DEF Units
    <3>4. QED BY <1>4, <3>1, <3>2, <3>3
  <2>4. QED BY <2>2, <2>3
<1>7. ASSUME NEW u \in Units(counts) PROVE u \in Units(Count(a))
  <2>1. PICK t \in DOMAIN counts : u \in {t} \X (1..counts[t])
    BY <1>7 DEF Units
  <2>2. t \in DOMAIN Count(a) /\ counts[t] \in Nat
    BY <1>1
  <2>3. 1..counts[t] \subseteq 1..Count(a)[t]
    BY <1>2, <1>3, <1>4, <2>1 DEF Times
  <2>4. QED BY <2>1, <2>2, <2>3 DEF Units
<1>8. <<a, Times(a) + 1>> \in Units(Count(a))
  <2>1. Times(a) + 1 \in 1..Count(a)[a]
    BY <1>2, <1>3
  <2>2. QED BY <1>1, <2>1 DEF Units
<1>9. QED BY <1>5, <1>6, <1>7, <1>8

LEMMA TallyNext ==
  ASSUME NEW z, NEW lo \in Nat, NEW n \in Nat, NEW m \in Nat, n < m, m <= n + 1,
         NEW a,
         Tally(answers, lo, n, counts, errors),
         Agree(answers, z, lo, n),
         z[lo + m] = a
  PROVE  Tally(z, lo, m, IF a = Absent THEN counts ELSE Count(a),
               IF a = Absent THEN errors + 1 ELSE errors)
<1>1. \A x : /\ a = x => Cardinality(Hits(z, lo, m, x)) = Cardinality(Hits(answers, lo, n, x)) + 1
             /\ a # x => Cardinality(Hits(z, lo, m, x)) = Cardinality(Hits(answers, lo, n, x))
  BY HitsNext
<1>2. \A x : Cardinality(Hits(answers, lo, n, x)) \in Nat
  BY HitsFinite
<1>3. {z[lo + j] : j \in 1..m} = {answers[lo + j] : j \in 1..n} \cup {a}
  <2>1. 1..m = 1..n \cup {m}
    OBVIOUS
  <2>2. \A j \in 1..n : j \in 1..m /\ z[lo + j] = answers[lo + j]
    BY DEF Agree
  <2>3. z[lo + m] = a /\ m \in 1..m
    BY <2>1
  <2>4. \A j \in 1..m : j \in 1..n \/ j = m
    BY <2>1
  <2>5. ASSUME NEW x \in {z[lo + j] : j \in 1..m}
        PROVE  x \in {answers[lo + j] : j \in 1..n} \cup {a}
    <3>1. PICK j \in 1..m : x = z[lo + j]
      BY <2>5
    <3>2. CASE j \in 1..n
      BY <2>2, <3>1, <3>2
    <3>3. CASE j = m
      BY <2>3, <3>1, <3>3
    <3>4. QED BY <2>4, <3>2, <3>3
  <2>6. ASSUME NEW x \in {answers[lo + j] : j \in 1..n} \cup {a}
        PROVE  x \in {z[lo + j] : j \in 1..m}
    <3>1. CASE x = a
      BY <2>3, <3>1
    <3>2. CASE x \in {answers[lo + j] : j \in 1..n}
      <4>1. PICK j \in 1..n : x = answers[lo + j]
        BY <3>2
      <4>2. QED BY <2>2, <4>1
    <3>3. QED BY <2>6, <3>1, <3>2
  <2>7. QED BY <2>5, <2>6
<1>4. \A t \in DOMAIN counts : counts[t] \in Nat
  BY <1>2 DEF Tally
<1>5. errors \in Nat /\ Sum(counts) \in Nat
  BY <1>2, FS_CardinalityType DEF Tally, Sum
<1>6. CASE a = Absent
  <2>1. \A t \in DOMAIN counts : t # a
    BY <1>6 DEF Tally
  <2>2. DOMAIN counts = {z[lo + j] : j \in 1..m} \ {Absent}
    BY <1>3, <1>6 DEF Tally
  <2>3. \A t \in DOMAIN counts : counts[t] = Cardinality(Hits(z, lo, m, t))
    BY <1>1, <1>2, <2>1 DEF Tally
  <2>4. errors + 1 = Cardinality(Hits(z, lo, m, Absent))
    BY <1>1, <1>6 DEF Tally
  <2>5. Sum(counts) + (errors + 1) = m
    BY <1>5 DEF Tally
  <2>6. Tally(z, lo, m, counts, errors + 1)
    BY <2>2, <2>3, <2>4, <2>5 DEF Tally
  <2>7. QED BY <1>6, <2>6
<1>7. CASE a # Absent
  <2>1. DOMAIN Count(a) = DOMAIN counts \cup {a}
    BY DEF Count
  <2>2. DOMAIN Count(a) = {z[lo + j] : j \in 1..m} \ {Absent}
    BY <1>3, <1>7, <2>1 DEF Tally
  <2>3. Times(a) = Cardinality(Hits(answers, lo, n, a))
    <3>1. CASE a \in DOMAIN counts
      BY <3>1 DEF Tally, Times
    <3>2. CASE a \notin DOMAIN counts
      <4>1. Hits(answers, lo, n, a) = {}
        BY <1>7, <3>2 DEF Tally, Hits
      <4>2. QED BY <3>2, <4>1, FS_EmptySet DEF Times
    <3>3. QED BY <3>1, <3>2
  <2>4. /\ Count(a)[a] = Times(a) + 1
        /\ \A t \in DOMAIN counts \ {a} : Count(a)[t] = counts[t]
    BY <1>4 DEF Count, Times
  <2>5. ASSUME NEW t \in DOMAIN Count(a)
        PROVE  Count(a)[t] = Cardinality(Hits(z, lo, m, t))
    <3>1. CASE t = a
      BY <1>1, <2>3, <2>4, <3>1
    <3>2. CASE t # a
      <4>1. t \in DOMAIN counts
        BY <2>1, <3>2
      <4>2. counts[t] = Cardinality(Hits(answers, lo, n, t))
        BY <4>1 DEF Tally
      <4>3. Count(a)[t] = counts[t]
        BY <2>4, <3>2, <4>1
      <4>4. QED BY <1>1, <1>2, <3>2, <4>2, <4>3
    <3>3. QED BY <3>1, <3>2
  <2>6. errors = Cardinality(Hits(z, lo, m, Absent))
    BY <1>1, <1>2, <1>7 DEF Tally
  <2>7. IsFiniteSet(DOMAIN Count(a))
    <3>1. IsFiniteSet(DOMAIN counts)
      BY DEF Tally
    <3>2. QED BY <2>1, <3>1, FS_AddElement
  <2>8. IsFiniteSet(Units(Count(a))) /\ Sum(Count(a)) = Sum(counts) + 1
    <3>1. IsFiniteSet(Units(counts))
      BY DEF Tally
    <3>2. /\ Units(Count(a)) = Units(counts) \cup {<<a, Times(a) + 1>>}
          /\ <<a, Times(a) + 1>> \notin Units(counts)
      BY <1>4, UnitsCount
    <3>3. PICK u : u = <<a, Times(a) + 1>>
      OBVIOUS
    <3>4. Units(Count(a)) = Units(counts) \cup {u} /\ u \notin Units(counts)
      BY <3>2, <3>3
    <3>5. QED BY <3>1, <3>4, FS_AddElement DEF Sum
  <2>9. \E t \in DOMAIN Count(a) : \A u \in DOMAIN Count(a) : Count(a)[u] <= Count(a)[t]
    <3>1. \A t \in DOMAIN Count(a) : Count(a)[t] \in Nat
      BY <1>4, <2>1, <2>4 DEF Times
    <3>2. CASE \A u \in DOMAIN counts : counts[u] <= Count(a)[a]
      BY <2>1, <2>4, <3>1, <3>2
    <3>3. CASE \E v \in DOMAIN counts : ~(counts[v] <= Count(a)[a])
      <4>1. PICK t \in DOMAIN counts : \A u \in DOMAIN counts : counts[u] <= counts[t]
        BY <3>3 DEF Tally
      <4>2. Count(a)[a] \in Nat /\ ~(counts[t] <= Count(a)[a])
        BY <1>4, <2>1, <3>1, <3>3, <4>1
      <4>3. t # a
        BY <1>4, <2>4, <4>1, <4>2 DEF Times
      <4>4. \A u \in DOMAIN Count(a) : Count(a)[u] <= Count(a)[t]
        BY <1>4, <2>1, <2>4, <4>1, <4>2, <4>3
      <4>5. QED BY <2>1, <4>1, <4>4
    <3>4. QED BY <3>2, <3>3
  <2>10. Sum(Count(a)) + errors = m
    BY <1>5, <2>8 DEF Tally
  <2>11. Tally(z, lo, m, Count(a), errors)
    BY <2>2, <2>5, <2>6, <2>7, <2>8, <2>9, <2>10 DEF Tally
  <2>12. QED BY <1>7, <2>11
<1>8. QED BY <1>6, <1>7

-----------------------------------------------------------------------------
(* The inductive invariant.                                                *)

Base ==
    /\ phase \in {"ended", "calling", "writing"}
    /\ runs \in 0..MaxRuns /\ tree \in Trees /\ samples \in Seq(Expected)
    /\ correct = [k \in Levels |-> correct[k]]
    /\ header \in BOOLEAN /\ exit \in {Absent, 0, 1, 2}
    /\ calls \in 0..MaxCalls /\ cut \in BOOLEAN
    /\ answers \in Seq(Triples \cup {Absent})
    /\ rows \in Seq({rows[i] : i \in DOMAIN rows})

\* How far an invocation has come, and what it may still call.
Progress ==
    /\ phase # "ended" => runs >= 1
    /\ phase = "calling" => /\ Len(answers) <= runs * Len(samples)
                            /\ calls + (runs * Len(samples) - Len(answers)) <= MaxCalls
    /\ phase = "writing" => Len(answers) = runs * Len(samples)
    /\ phase = "ended" /\ answers # <<>> =>
          runs >= 1 /\ Len(answers) = runs * Len(samples)

\* A variance run: every row has the numbers of its calls, and the Counter
\* those of the calls since the last row.
RowsTally ==
    /\ correct = [k \in Levels |-> 0]
    /\ runs * Len(rows) <= Len(answers) /\ Len(answers) < runs * (Len(rows) + 1)
    /\ \A i \in DOMAIN rows :
          Tally(answers, runs * (i - 1), runs, rows[i].counts, rows[i].errors)
    /\ Tally(answers, runs * Len(rows), Len(answers) - runs * Len(rows), counts, errors)

\* The samples answered so far with the expected code of a level.
Right(k) == {i \in 1..Len(answers) : answers[i] # Absent /\ answers[i][k] = samples[i][k]}

\* An accuracy run.
Compared ==
    /\ rows = <<>> /\ counts = NoCounts /\ errors = 0
    /\ \A k \in Levels : correct[k] = Cardinality(Right(k))

Counted == IF Measuring THEN RowsTally ELSE Compared

\* The last lines of the report are those of the rows.
Reported ==
    /\ Len(rows) <= Len(report)
    /\ \A i \in DOMAIN rows : report[Len(report) - Len(rows) + i] = Columns(rows[i])

Judged ==
    phase = "ended" /\ answers # <<>> =>
        IF Measuring
        THEN /\ exit = IF \A i \in DOMAIN rows : Stable(rows[i]) THEN 0 ELSE 1
             /\ Reported
        ELSE exit = IF Passes THEN 0 ELSE 1

\* A file, and whether it is the one that this invocation has open.
FileFits(file, open) ==
    /\ file \in {Absent} \cup Seq(Line)
    /\ open => file # Absent /\ (header => file = <<>>)
    /\ file # Absent =>
          /\ \A i \in 2..Len(file) : file[i] # HeaderLine
          /\ IF file = <<>> THEN cut \/ (open /\ header) ELSE cut \/ file[1] = HeaderLine

FilesFit ==
    /\ FileFits(history, phase = "writing" /\ ~Measuring)
    /\ FileFits(report, phase = "writing" /\ Measuring)

GInv == Base /\ Progress /\ Counted /\ Judged /\ FilesFit

-----------------------------------------------------------------------------
(* Arithmetic: the calls about k samples.                                  *)

LEMMA Product ==
  ASSUME NEW r \in Nat, NEW k \in Nat
  PROVE  r * k \in Nat /\ r * (k + 1) = r * k + r /\ r * 0 = 0 /\ r * 1 = r
  OBVIOUS

LEMMA ProductMonotone ==
  ASSUME NEW r \in Nat, NEW i \in Nat, NEW k \in Nat, i <= k
  PROVE  r * i <= r * k
<1>1. PICK d \in Nat : k = i + d
  <2>1. k - i \in Nat /\ k = i + (k - i)
    OBVIOUS
  <2>2. QED BY <2>1
<1>2. r * d \in Nat /\ r * i \in Nat
  OBVIOUS
<1>3. r * (i + d) = r * i + r * d
  OBVIOUS
<1>4. QED BY <1>1, <1>2, <1>3

LEMMA ProductLess ==
  ASSUME NEW r \in Nat, NEW i \in Nat, NEW k \in Nat, r * i < r * k
  PROVE  i < k
<1>1. SUFFICES ASSUME k <= i PROVE FALSE
  OBVIOUS
<1>2. r * k <= r * i /\ r * k \in Nat /\ r * i \in Nat
  BY <1>1, ProductMonotone
<1>3. QED BY <1>2

-----------------------------------------------------------------------------
(* The lines of the report.                                                *)

LEMMA AnswersKnown ==
  ASSUME Base
  PROVE  /\ Len(answers) \in Nat /\ DOMAIN answers = 1..Len(answers)
         /\ Len(samples) \in Nat /\ DOMAIN samples = 1..Len(samples)
         /\ Len(rows) \in Nat /\ DOMAIN rows = 1..Len(rows)
         /\ runs \in Nat
         /\ \A i \in 1..Len(answers) : answers[i] # Absent => answers[i] \in Triples
<1>1. Len(answers) \in Nat /\ DOMAIN answers = 1..Len(answers)
  BY DEF Base
<1>2. Len(samples) \in Nat /\ DOMAIN samples = 1..Len(samples)
  BY DEF Base
<1>3. Len(rows) \in Nat /\ DOMAIN rows = 1..Len(rows)
  BY DEF Base
<1>4. runs \in Nat
  BY BoundsAssumption DEF Base
<1>5. \A i \in 1..Len(answers) : answers[i] \in Triples \cup {Absent}
  BY DEF Base
<1>6. QED BY <1>1, <1>2, <1>3, <1>4, <1>5

LEMMA TallyTypes ==
  ASSUME NEW s, NEW lo \in Nat, NEW n \in Nat, NEW c, NEW e, Tally(s, lo, n, c, e)
  PROVE  /\ e \in 0..n /\ Sum(c) \in Nat
         /\ \A t \in DOMAIN c : c[t] \in 1..n
         /\ Cardinality(DOMAIN c) \in Nat
<1>1. e \in 0..n
  BY HitsFinite DEF Tally
<1>2. Sum(c) \in Nat /\ Cardinality(DOMAIN c) \in Nat
  BY FS_CardinalityType DEF Tally, Sum
<1>3. ASSUME NEW t \in DOMAIN c PROVE c[t] \in 1..n
  <2>1. c[t] = Cardinality(Hits(s, lo, n, t)) /\ c[t] \in 0..n
    BY HitsFinite DEF Tally
  <2>2. IsFiniteSet(Hits(s, lo, n, t)) /\ Hits(s, lo, n, t) # {}
    <3>1. t \in {s[lo + j] : j \in 1..n}
      BY DEF Tally
    <3>2. Hits(s, lo, n, t) # {}
      BY <3>1 DEF Hits
    <3>3. QED BY <3>2, HitsFinite
  <2>3. c[t] # 0
    BY <2>1, <2>2, FS_EmptySet
  <2>4. QED BY <2>1, <2>3
<1>4. QED BY <1>1, <1>2, <1>3

\* max(counts.values(), default=0)
LEMMA ModalIsMost ==
  ASSUME NEW s, NEW lo \in Nat, NEW n \in Nat, NEW row,
         Tally(s, lo, n, row.counts, row.errors)
  PROVE  /\ Modal(row) \in Nat
         /\ DOMAIN row.counts # {} => \E t \in DOMAIN row.counts : Modal(row) = row.counts[t]
         /\ \A t \in DOMAIN row.counts : row.counts[t] <= Modal(row)
<1>1. PICK c : c = row.counts
  OBVIOUS
<1>2. \A t \in DOMAIN c : c[t] \in Nat
  <2>1. Tally(s, lo, n, c, row.errors)
    BY <1>1
  <2>2. \A t \in DOMAIN c : c[t] \in 1..n
    BY <2>1, TallyTypes
  <2>3. QED BY <2>2
<1>3. CASE DOMAIN c = {}
  BY <1>1, <1>3 DEF Modal
<1>4. CASE DOMAIN c # {}
  <2>1. PICK t \in DOMAIN c : \A u \in DOMAIN c : c[u] <= c[t]
    BY <1>1, <1>4 DEF Tally
  <2>2. PICK S : S = {c[u] : u \in DOMAIN c}
    OBVIOUS
  <2>3. \E x \in S : \A y \in S : x >= y
    BY <1>2, <2>1, <2>2
  <2>4. Max(S) \in S /\ \A y \in S : Max(S) >= y
    BY <2>3 DEF Max
  <2>5. Modal(row) = Max(S)
    BY <1>1, <1>4, <2>2 DEF Modal
  <2>6. QED BY <1>1, <1>2, <2>2, <2>4, <2>5
<1>5. QED BY <1>3, <1>4

LEMMA ColumnsAreLine ==
  ASSUME NEW s, NEW lo \in Nat, NEW n \in Nat, NEW row,
         Tally(s, lo, n, row.counts, row.errors)
  PROVE  Columns(row) \in Line /\ Columns(row) # HeaderLine
<1>1. row.errors \in Nat /\ Sum(row.counts) \in Nat /\ Cardinality(DOMAIN row.counts) \in Nat
  BY TallyTypes
<1>2. Modal(row) \in Nat /\ Distinct(row) \in Nat /\ Stable(row) \in BOOLEAN
  BY <1>1, ModalIsMost DEF Distinct, Stable
<1>3. Columns(row) \in
        [distinct : Nat, modal : Nat, errors : Nat, successful : Nat, stable : BOOLEAN]
  BY <1>1, <1>2 DEF Columns
<1>4. Columns(row) # HeaderLine
  <2>1. "modal" \in DOMAIN Columns(row) /\ "modal" \notin DOMAIN HeaderLine
    BY DEF Columns, HeaderLine
  <2>2. QED BY <2>1
<1>5. QED BY <1>3, <1>4 DEF Line

LEMMA HistoryIsLine ==
  ASSUME NEW m \in Nat, NEW c \in [Levels -> Nat]
  PROVE  [n |-> m, correct |-> c] \in Line /\ [n |-> m, correct |-> c] # HeaderLine
<1>1. PICK line : line = [n |-> m, correct |-> c]
  OBVIOUS
<1>2. line \in [n : Nat, correct : [Levels -> Nat]]
  BY <1>1
<1>3. "n" \in DOMAIN line /\ "n" \notin DOMAIN HeaderLine
  BY <1>1 DEF HeaderLine
<1>4. QED BY <1>1, <1>2, <1>3 DEF Line

\* A row is stable when all its calls were answered, and with one label.
LEMMA StableIsAgreed ==
  ASSUME NEW s, NEW lo \in Nat, NEW n \in Nat, n >= 1, NEW row,
         Tally(s, lo, n, row.counts, row.errors)
  PROVE  Stable(row) <=> \A j \in 1..n : s[lo + j] # Absent /\ s[lo + j] = s[lo + 1]
<1>1. /\ DOMAIN row.counts = {s[lo + j] : j \in 1..n} \ {Absent}
      /\ row.errors = Cardinality(Hits(s, lo, n, Absent))
      /\ IsFiniteSet(DOMAIN row.counts)
      /\ IsFiniteSet(Hits(s, lo, n, Absent))
  BY HitsFinite DEF Tally
<1>2. 1 \in 1..n
  OBVIOUS
<1>3. ASSUME Stable(row)
      PROVE  \A j \in 1..n : s[lo + j] # Absent /\ s[lo + j] = s[lo + 1]
  <2>1. Hits(s, lo, n, Absent) = {}
    BY <1>1, <1>3, FS_EmptySet DEF Stable
  <2>2. \A j \in 1..n : s[lo + j] # Absent
    BY <2>1 DEF Hits
  <2>3. PICK x : DOMAIN row.counts = {x}
    BY <1>1, <1>3, FS_Singleton DEF Stable, Distinct
  <2>4. \A j \in 1..n : s[lo + j] = x
    BY <1>1, <2>2, <2>3
  <2>5. QED BY <1>2, <2>2, <2>4
<1>4. ASSUME \A j \in 1..n : s[lo + j] # Absent /\ s[lo + j] = s[lo + 1]
      PROVE  Stable(row)
  <2>1. DOMAIN row.counts = {s[lo + 1]}
    BY <1>1, <1>2, <1>4
  <2>2. Hits(s, lo, n, Absent) = {}
    BY <1>4 DEF Hits
  <2>3. row.errors = 0
    BY <1>1, <2>2, FS_EmptySet
  <2>4. Distinct(row) = 1
    BY <2>1, FS_Singleton DEF Distinct
  <2>5. QED BY <2>3, <2>4 DEF Stable
<1>5. QED BY <1>3, <1>4

-----------------------------------------------------------------------------
(* The type invariant follows from what is counted.                        *)

LEMMA RightFinite ==
  ASSUME Len(answers) \in Nat, NEW k
  PROVE  IsFiniteSet(Right(k)) /\ Cardinality(Right(k)) \in 0..Len(answers)
<1>1. IsFiniteSet(1..Len(answers)) /\ Cardinality(1..Len(answers)) = Len(answers)
  BY UpTo, Zenon
<1>2. Right(k) \in SUBSET (1..Len(answers))
  BY DEF Right
<1>3. IsFiniteSet(Right(k)) /\ Cardinality(Right(k)) <= Len(answers)
  BY <1>1, <1>2, FS_Subset
<1>4. Cardinality(Right(k)) \in Nat
  BY <1>3, FS_CardinalityType
<1>5. QED BY <1>3, <1>4

LEMMA CallsBounded == Base /\ Progress => Len(answers) <= runs * Len(samples)
<1> SUFFICES ASSUME Base, Progress PROVE Len(answers) <= runs * Len(samples)
  OBVIOUS
<1>1. runs * Len(samples) \in Nat
  BY AnswersKnown
<1>2. answers = <<>> => Len(answers) = 0
  OBVIOUS
<1>3. QED BY <1>1, <1>2, AnswersKnown DEF Base, Progress

LEMMA TypeFollows == GInv => TypeOK
<1> SUFFICES ASSUME GInv PROVE TypeOK
  OBVIOUS
<1>1. /\ Base /\ Progress /\ Counted /\ FilesFit
      /\ Len(answers) \in Nat /\ Len(samples) \in Nat /\ Len(rows) \in Nat /\ runs \in Nat
      /\ \A i \in 1..Len(answers) : answers[i] # Absent => answers[i] \in Triples
      /\ Len(answers) <= runs * Len(samples)
  BY AnswersKnown, CallsBounded DEF GInv
<1>2. /\ \A t \in DOMAIN counts : t \in Triples /\ counts[t] \in 1..runs
      /\ errors \in 0..runs /\ Len(rows) <= Len(samples)
      /\ \A k \in Levels : correct[k] \in 0..Len(samples)
  <2>1. CASE Measuring
    <3>1. RowsTally
      BY <1>1, <2>1 DEF Counted
    <3>2. PICK lo \in Nat : lo = runs * Len(rows)
      BY <1>1
    <3>3. runs * (Len(rows) + 1) = lo + runs
      BY <1>1, <3>2, Product
    <3>4. PICK n \in Nat : n = Len(answers) - lo
      BY <1>1, <3>1, <3>2 DEF RowsTally
    <3>5. n < runs /\ lo + n = Len(answers)
      BY <1>1, <3>1, <3>3, <3>4 DEF RowsTally
    <3>6. Tally(answers, lo, n, counts, errors)
      BY <3>1, <3>2, <3>4 DEF RowsTally
    <3>7. errors \in 0..n /\ \A t \in DOMAIN counts : counts[t] \in 1..n
      BY <3>6, TallyTypes
    <3>8. ASSUME NEW t \in DOMAIN counts PROVE t \in Triples
      <4>1. t # Absent /\ t \in {answers[lo + j] : j \in 1..n}
        BY <3>6 DEF Tally
      <4>2. PICK j \in 1..n : t = answers[lo + j]
        BY <4>1
      <4>3. lo + j \in 1..Len(answers)
        BY <1>1, <3>5
      <4>4. QED BY <1>1, <4>1, <4>2, <4>3
    <3>9. Len(rows) <= Len(samples)
      <4>1. SUFFICES ASSUME Len(samples) + 1 <= Len(rows) PROVE FALSE
        BY <1>1
      <4>2. runs * (Len(samples) + 1) <= runs * Len(rows)
        BY <1>1, <4>1, ProductMonotone
      <4>3. runs * (Len(samples) + 1) = runs * Len(samples) + runs /\ runs * Len(samples) \in Nat
        BY <1>1, Product
      <4>4. lo <= Len(answers)
        BY <3>5
      <4>5. QED BY <1>1, <2>1, <3>2, <4>2, <4>3, <4>4 DEF Measuring
    <3>10. \A k \in Levels : correct[k] \in 0..Len(samples)
      BY <1>1, <3>1 DEF RowsTally
    <3>11. QED BY <1>1, <3>5, <3>7, <3>8, <3>9, <3>10
  <2>2. CASE ~Measuring
    <3>1. rows = <<>> /\ counts = NoCounts /\ errors = 0
      BY <1>1, <2>2 DEF Counted, Compared
    <3>2. Len(rows) = 0 /\ DOMAIN counts = {}
      BY <3>1 DEF NoCounts
    <3>3. Len(answers) <= Len(samples)
      <4>1. runs = 0 \/ runs = 1
        BY <1>1, <2>2 DEF Measuring
      <4>2. runs = 0 => runs * Len(samples) = 0
        BY <1>1
      <4>3. runs = 1 => runs * Len(samples) = Len(samples)
        BY <1>1
      <4>4. QED BY <1>1, <4>1, <4>2, <4>3
    <3>4. ASSUME NEW k \in Levels PROVE correct[k] \in 0..Len(samples)
      <4>1. correct[k] = Cardinality(Right(k)) /\ Cardinality(Right(k)) \in 0..Len(answers)
        BY <1>1, <2>2, RightFinite DEF Counted, Compared
      <4>2. QED BY <1>1, <3>3, <4>1
    <3>5. QED BY <1>1, <3>1, <3>2, <3>4
  <2>3. QED BY <2>1, <2>2
<1>3. correct \in [Levels -> 0..Len(samples)]
  BY <1>1, <1>2 DEF Base
<1>4. history \in {Absent} \cup Seq(Line) /\ report \in {Absent} \cup Seq(Line)
  BY <1>1 DEF FilesFit, FileFits
<1>5. QED BY <1>1, <1>2, <1>3, <1>4 DEF TypeOK, Base

-----------------------------------------------------------------------------
(* The steps that begin a measurement, or give one up.                     *)

LEMMA FreshCounted ==
  ASSUME NothingCounted, runs' \in Nat
  PROVE  Counted'
<1>1. /\ counts' = NoCounts /\ errors' = 0 /\ rows' = <<>> /\ answers' = <<>>
      /\ correct' = [k \in Levels |-> 0]
  BY DEF NothingCounted
<1>2. Len(rows') = 0 /\ Len(answers') = 0 /\ DOMAIN rows' = {}
  BY <1>1
<1>3. CASE Measuring'
  <2>1. PICK lo : lo = runs' * Len(rows')
    OBVIOUS
  <2>2. PICK hi : hi = runs' * (Len(rows') + 1)
    OBVIOUS
  <2>3. lo = 0
    <3>1. lo = runs' * 0
      BY <1>2, <2>1
    <3>2. QED BY <3>1, Product
  <2>4. hi > 0
    <3>1. Len(rows') + 1 = 1
      BY <1>2
    <3>2. hi = runs' * 1
      BY <2>2, <3>1
    <3>3. hi = runs'
      <4>1. PICK r \in Nat : r = runs'
        OBVIOUS
      <4>2. r * 1 = r
        OBVIOUS
      <4>3. QED BY <3>2, <4>1, <4>2
    <3>4. QED BY <1>3, <3>3 DEF Measuring
  <2>5. Tally(answers', lo, Len(answers') - lo, counts', errors')
    <3>1. Tally(answers', 0, 0, counts', errors')
      BY <1>1, TallyNone
    <3>2. Len(answers') - lo = 0
      BY <1>2, <2>3
    <3>3. QED BY <2>3, <3>1, <3>2
  <2>6. RowsTally'
    <3>1. runs' * Len(rows') <= Len(answers') /\ Len(answers') < runs' * (Len(rows') + 1)
      <4>1. lo <= Len(answers') /\ Len(answers') < hi
        BY <1>2, <2>3, <2>4
      <4>2. QED BY <2>1, <2>2, <4>1
    <3>2. Tally(answers', runs' * Len(rows'), Len(answers') - runs' * Len(rows'), counts', errors')
      BY <2>1, <2>5
    <3>3. QED BY <1>1, <1>2, <3>1, <3>2 DEF RowsTally
  <2>7. QED BY <1>3, <2>6 DEF Counted
<1>4. CASE ~Measuring'
  <2>1. \A k : Right(k)' = {}
    BY <1>2 DEF Right
  <2>2. \A k \in Levels : correct'[k] = Cardinality(Right(k)')
    BY <1>1, <2>1, FS_EmptySet
  <2>3. Compared'
    BY <1>1, <2>2 DEF Compared
  <2>4. QED BY <1>4, <2>3 DEF Counted
<1>5. QED BY <1>3, <1>4

LEMMA FreshBase ==
  ASSUME NothingCounted
  PROVE  /\ correct' = [k \in Levels |-> correct'[k]]
         /\ answers' \in Seq((Triples \cup {Absent})')
         /\ rows' \in Seq({rows'[i] : i \in DOMAIN rows'})
         /\ answers' = <<>> /\ Len(answers') = 0
  BY DEF NothingCounted

LEMMA FilesStay ==
  ASSUME FilesFit, phase # "writing", phase' # "writing", UNCHANGED <<files, cut>>
  PROVE  FilesFit'
  BY DEF FilesFit, FileFits, files

LEMMA InitInv == Init => GInv
<1> SUFFICES ASSUME Init PROVE GInv
  OBVIOUS
<1>1. /\ phase = "ended" /\ exit = Absent /\ runs = 0 /\ tree \in Trees /\ samples = <<>>
      /\ counts = NoCounts /\ errors = 0 /\ rows = <<>> /\ header = FALSE
      /\ correct = [k \in Levels |-> 0]
      /\ history = Absent /\ report = Absent /\ answers = <<>> /\ calls = 0 /\ cut = FALSE
  BY DEF Init
<1>2. Base
  <2>1. runs \in 0..MaxRuns /\ calls \in 0..MaxCalls
    BY <1>1, BoundsAssumption
  <2>2. /\ samples \in Seq(Expected) /\ answers \in Seq(Triples \cup {Absent})
        /\ rows \in Seq({rows[i] : i \in DOMAIN rows})
    BY <1>1
  <2>3. correct = [k \in Levels |-> correct[k]]
    BY <1>1
  <2>4. QED BY <1>1, <2>1, <2>2, <2>3 DEF Base
<1>3. Progress /\ Judged
  BY <1>1 DEF Progress, Judged
<1>4. Counted
  <2>1. Len(answers) = 0 /\ ~Measuring
    BY <1>1 DEF Measuring
  <2>2. \A k : Right(k) = {}
    BY <2>1 DEF Right
  <2>3. \A k \in Levels : correct[k] = Cardinality(Right(k))
    BY <1>1, <2>2, FS_EmptySet
  <2>4. QED BY <1>1, <2>1, <2>3 DEF Counted, Compared
<1>5. FilesFit
  BY <1>1 DEF FilesFit, FileFits
<1>6. QED BY <1>2, <1>3, <1>4, <1>5 DEF GInv

LEMMA BadRunsKeeps == GInv /\ BadRuns => GInv'
<1> SUFFICES ASSUME GInv, BadRuns PROVE GInv'
  OBVIOUS
<1>1. Base /\ FilesFit /\ NothingCounted
  BY DEF GInv, BadRuns
<1>2. /\ phase = "ended" /\ phase' = "ended" /\ runs' = 0 /\ exit' = 2
      /\ UNCHANGED <<tree, samples, header, files, calls, cut>>
  BY DEF BadRuns
<1>3. Base'
  BY <1>1, <1>2, FreshBase, BoundsAssumption DEF Base
<1>4. Progress' /\ Judged'
  BY <1>1, <1>2, FreshBase DEF Progress, Judged
<1>5. Counted'
  BY <1>1, <1>2, FreshCounted
<1>6. FilesFit'
  BY <1>1, <1>2, FilesStay
<1>7. QED BY <1>3, <1>4, <1>5, <1>6 DEF GInv

LEMMA InvokeKeeps ==
  ASSUME GInv, NEW golden \in Goldens, NEW skip_tbd \in BOOLEAN, Invoke(golden, skip_tbd)
  PROVE  GInv'
<1>1. Base /\ FilesFit /\ NothingCounted
  BY DEF GInv, Invoke
<1>2. /\ phase = "ended" /\ phase' \in {"ended", "calling"} /\ tree' \in Trees
      /\ runs' \in 1..MaxRuns /\ exit' \in {Absent, 0, 1}
      /\ samples' = Labelled(golden, skip_tbd)
      /\ calls + runs' * Len(samples') <= MaxCalls
      /\ UNCHANGED <<header, files, calls, cut>>
  BY <1>1 DEF Invoke, Base
<1>3. samples' \in Seq(Expected) /\ runs' \in Nat /\ runs' >= 1 /\ Len(samples') \in Nat
  BY <1>2, GoldensAssumption, BoundsAssumption
<1>4. Base'
  BY <1>1, <1>2, <1>3, FreshBase, BoundsAssumption DEF Base
<1>5. Progress' /\ Judged'
  <2>1. calls' \in Nat /\ runs' * Len(samples') \in Nat
    BY <1>1, <1>2, <1>3, BoundsAssumption DEF Base
  <2>2. QED BY <1>1, <1>2, <1>3, <2>1, FreshBase DEF Progress, Judged
<1>6. Counted'
  BY <1>1, <1>3, FreshCounted
<1>7. FilesFit'
  BY <1>1, <1>2, FilesStay
<1>8. QED BY <1>4, <1>5, <1>6, <1>7 DEF GInv

LEMMA KillKeeps == GInv /\ Kill => GInv'
<1> SUFFICES ASSUME GInv, Kill PROVE GInv'
  OBVIOUS
<1>1. Base /\ FilesFit /\ NothingCounted
  BY DEF GInv, Kill
<1>2. /\ phase # "ended" /\ phase' = "ended" /\ exit' = Absent
      /\ cut' = (cut \/ (phase = "writing" /\ header))
      /\ UNCHANGED <<arguments, header, files, calls>>
  BY DEF Kill
<1>3. Base'
  BY <1>1, <1>2, FreshBase DEF Base, arguments
<1>4. Progress' /\ Judged'
  BY <1>1, <1>2, FreshBase DEF Progress, Judged
<1>5. Counted'
  <2>1. runs' \in Nat
    BY <1>1, <1>2, BoundsAssumption DEF Base, arguments
  <2>2. QED BY <1>1, <2>1, FreshCounted
<1>6. FilesFit'
  BY <1>1, <1>2 DEF FilesFit, FileFits, files
<1>7. QED BY <1>3, <1>4, <1>5, <1>6 DEF GInv

-----------------------------------------------------------------------------
(* One call of the model.                                                  *)

\* What the validator lets pass is a triple of codes of the present tree.
LEMMA AnswerTyped ==
  ASSUME NEW reply \in ModelSays
  PROVE  Classified(reply, ValidCodes(tree)) \in Triples \cup {Absent}
<1>1. CASE Accepts(reply, ValidCodes(tree))
  <2>1. reply.codes = [k \in Levels |-> reply.codes[k]]
    BY RepliesAssumption
  <2>2. \A k \in Levels : reply.codes[k] \in ValidCodes(tree)
    BY <1>1 DEF Accepts
  <2>3. reply.codes \in Triples
    BY <2>1, <2>2 DEF Triples
  <2>4. QED BY <1>1, <2>3 DEF Classified
<1>2. CASE ~Accepts(reply, ValidCodes(tree))
  BY <1>2 DEF Classified
<1>3. QED BY <1>1, <1>2

LEMMA AnswerAppended ==
  ASSUME Base, NEW a \in Triples \cup {Absent}, answers' = Append(answers, a), tree' = tree
  PROVE  /\ answers' \in Seq((Triples \cup {Absent})')
         /\ Len(answers') = Len(answers) + 1
         /\ \A j \in 1..Len(answers) : answers'[j] = answers[j]
         /\ answers'[Len(answers) + 1] = a
<1>1. PICK S : S = Triples \cup {Absent}
  OBVIOUS
<1>2. answers \in Seq(S) /\ a \in S
  BY <1>1 DEF Base
<1>3. (Triples \cup {Absent})' = S
  BY <1>1 DEF Triples
<1>4. /\ Append(answers, a) \in Seq(S) /\ Len(Append(answers, a)) = Len(answers) + 1
      /\ \A j \in 1..Len(answers) : Append(answers, a)[j] = answers[j]
      /\ Append(answers, a)[Len(answers) + 1] = a
  BY <1>2, AppendProperties
<1>5. QED BY <1>3, <1>4

LEMMA RowAppended ==
  ASSUME Base, NEW row, rows' = Append(rows, row)
  PROVE  /\ rows' \in Seq({rows'[i] : i \in DOMAIN rows'})
         /\ Len(rows') = Len(rows) + 1 /\ DOMAIN rows' = 1..(Len(rows) + 1)
         /\ \A i \in 1..Len(rows) : rows'[i] = rows[i]
         /\ rows'[Len(rows) + 1] = row
<1>1. PICK S : S = {rows[i] : i \in DOMAIN rows} \cup {row}
  OBVIOUS
<1>2. rows \in Seq(S) /\ row \in S
  BY <1>1 DEF Base
<1>3. /\ rows' \in Seq(S) /\ Len(rows') = Len(rows) + 1
      /\ \A i \in 1..Len(rows) : rows'[i] = rows[i]
      /\ rows'[Len(rows) + 1] = row
  BY <1>2, AppendProperties
<1>4. rows' \in Seq({rows'[i] : i \in DOMAIN rows'}) /\ DOMAIN rows' = 1..Len(rows')
  BY <1>3
<1>5. QED BY <1>3, <1>4

LEMMA RowsStay ==
  ASSUME Base, RowsTally, NEW i \in 1..Len(rows), NEW z,
         \A j \in 1..Len(answers) : z[j] = answers[j]
  PROVE  Tally(z, runs * (i - 1), runs, rows[i].counts, rows[i].errors)
<1>1. PICK lo \in Nat : lo = runs * (i - 1)
  BY AnswersKnown
<1>2. lo + runs = runs * i
  <2>1. PICK k \in Nat : k = i - 1
    BY AnswersKnown
  <2>2. i = k + 1 /\ lo = runs * k
    BY <1>1, <2>1, AnswersKnown
  <2>3. QED BY <2>2, AnswersKnown, Product
<1>3. runs * i <= runs * Len(rows)
  BY AnswersKnown, ProductMonotone
<1>4. lo + runs <= Len(answers)
  BY <1>2, <1>3, AnswersKnown DEF RowsTally
<1>5. Tally(answers, lo, runs, rows[i].counts, rows[i].errors)
  BY <1>1, AnswersKnown DEF RowsTally
<1>6. Agree(answers, z, lo, runs)
  <2>1. ASSUME NEW j \in 1..runs PROVE z[lo + j] = answers[lo + j]
    <3>1. lo + j \in 1..Len(answers)
      BY <1>4, AnswersKnown
    <3>2. QED BY <3>1
  <2>2. QED BY <2>1 DEF Agree
<1>7. QED BY <1>1, <1>5, <1>6, AnswersKnown, TallySame

\* A call of measure_row. The last of its calls begins the next row.
LEMMA MeasureKeeps ==
  ASSUME Base, RowsTally, Measuring, NEW a \in Triples \cup {Absent},
         Measure(a), answers' = Append(answers, a), UNCHANGED <<runs, tree>>
  PROVE  RowsTally' /\ rows' \in Seq({rows'[i] : i \in DOMAIN rows'})
<1>1. /\ Len(answers) \in Nat /\ Len(rows) \in Nat /\ runs \in Nat /\ DOMAIN rows = 1..Len(rows)
      /\ runs > 1
  BY AnswersKnown DEF Measuring
<1>2. /\ Len(answers') = Len(answers) + 1
      /\ \A j \in 1..Len(answers) : answers'[j] = answers[j]
      /\ answers'[Len(answers) + 1] = a
  BY AnswerAppended
<1>3. PICK lo \in Nat : lo = runs * Len(rows)
  BY <1>1
<1>4. runs * (Len(rows) + 1) = lo + runs
  BY <1>1, <1>3, Product
<1>5. PICK n \in Nat : n = Len(answers) - lo
  <2>1. lo <= Len(answers)
    BY <1>3 DEF RowsTally
  <2>2. Len(answers) - lo \in Nat
    BY <1>1, <2>1
  <2>3. QED BY <2>2
<1>6. PICK m \in Nat : m = n + 1
  OBVIOUS
<1>7. lo + n = Len(answers) /\ lo + m = Len(answers') /\ m <= runs /\ n < m /\ m <= n + 1
  BY <1>1, <1>2, <1>3, <1>4, <1>5, <1>6 DEF RowsTally
<1>8. PICK c : c = IF a = Absent THEN counts ELSE Count(a)
  OBVIOUS
<1>9. PICK e : e = IF a = Absent THEN errors + 1 ELSE errors
  OBVIOUS
<1>10. Tally(answers', lo, m, c, e)
  <2>1. Agree(answers, answers', lo, n)
    <3>1. ASSUME NEW j \in 1..n PROVE answers'[lo + j] = answers[lo + j]
      <4>1. lo + j \in 1..Len(answers)
        BY <1>7
      <4>2. QED BY <1>2, <4>1
    <3>2. QED BY <3>1 DEF Agree
  <2>2. Tally(answers, lo, n, counts, errors)
    BY <1>3, <1>5 DEF RowsTally
  <2>3. answers'[lo + m] = a
    BY <1>2, <1>7
  <2>4. QED BY <1>7, <1>8, <1>9, <2>1, <2>2, <2>3, TallyNext
<1>11. PICK row : row = [counts |-> c, errors |-> e]
  OBVIOUS
<1>12. row.counts = c /\ row.errors = e
  BY <1>11
<1>13. ASSUME NEW i \in 1..Len(rows)
       PROVE  Tally(answers', runs * (i - 1), runs, rows[i].counts, rows[i].errors)
  BY <1>2, RowsStay
<1>14. correct' = [k \in Levels |-> 0]
  BY DEF Measure, RowsTally
<1>15. CASE Len(answers) + 1 = runs * (Len(rows) + 1)
  <2>1. rows' = Append(rows, row) /\ counts' = NoCounts /\ errors' = 0
    BY <1>8, <1>9, <1>11, <1>15 DEF Measure
  <2>2. /\ rows' \in Seq({rows'[i] : i \in DOMAIN rows'})
        /\ Len(rows') = Len(rows) + 1 /\ DOMAIN rows' = 1..(Len(rows) + 1)
        /\ \A i \in 1..Len(rows) : rows'[i] = rows[i]
        /\ rows'[Len(rows) + 1] = row
    BY <2>1, RowAppended
  <2>3. m = runs /\ Len(answers') = lo + runs
    BY <1>1, <1>2, <1>4, <1>7, <1>15
  <2>4. PICK hi \in Nat : hi = runs' * Len(rows')
    BY <1>1, <2>2
  <2>5. hi = Len(answers')
    BY <1>4, <2>2, <2>3, <2>4
  <2>6. runs' * (Len(rows') + 1) = hi + runs
    <3>1. Len(rows') \in Nat
      BY <1>1, <2>2
    <3>2. runs * (Len(rows') + 1) = runs * Len(rows') + runs
      BY <1>1, <3>1, Product
    <3>3. QED BY <2>4, <3>2
  <2>7. ASSUME NEW i \in DOMAIN rows'
        PROVE  Tally(answers', runs' * (i - 1), runs', rows'[i].counts, rows'[i].errors)
    <3>1. CASE i \in 1..Len(rows)
      BY <1>13, <2>2, <3>1
    <3>2. CASE i = Len(rows) + 1
      <4>1. runs * (i - 1) = lo /\ rows'[i] = row
        BY <1>1, <1>3, <2>2, <3>2
      <4>2. QED BY <1>10, <1>12, <2>3, <4>1
    <3>3. QED BY <1>1, <2>2, <3>1, <3>2
  <2>8. Tally(answers', hi, Len(answers') - hi, counts', errors')
    <3>1. Len(answers') - hi = 0
      BY <2>4, <2>5
    <3>2. Tally(answers', hi, 0, counts', errors')
      BY <2>1, TallyNone
    <3>3. QED BY <3>1, <3>2
  <2>9. hi <= Len(answers') /\ Len(answers') < hi + runs
    BY <1>1, <2>4, <2>5
  <2>10. RowsTally'
    <3>1. /\ runs' * Len(rows') <= Len(answers') /\ Len(answers') < runs' * (Len(rows') + 1)
      BY <2>4, <2>6, <2>9
    <3>2. Tally(answers', runs' * Len(rows'), Len(answers') - runs' * Len(rows'), counts', errors')
      BY <2>4, <2>8
    <3>3. QED BY <1>14, <2>7, <3>1, <3>2 DEF RowsTally
  <2>11. QED BY <2>2, <2>10
<1>16. CASE Len(answers) + 1 # runs * (Len(rows) + 1)
  <2>1. rows' = rows /\ counts' = c /\ errors' = e
    BY <1>8, <1>9, <1>16 DEF Measure
  <2>2. lo <= Len(answers') /\ Len(answers') < lo + runs /\ m = Len(answers') - lo
    BY <1>1, <1>2, <1>4, <1>7, <1>16
  <2>3. /\ runs' * Len(rows') <= Len(answers') /\ Len(answers') < runs' * (Len(rows') + 1)
    BY <1>3, <1>4, <2>1, <2>2
  <2>4. Tally(answers', runs' * Len(rows'), Len(answers') - runs' * Len(rows'), counts', errors')
    BY <1>3, <1>10, <2>1, <2>2
  <2>5. ASSUME NEW i \in DOMAIN rows'
        PROVE  Tally(answers', runs' * (i - 1), runs', rows'[i].counts, rows'[i].errors)
    BY <1>1, <1>13, <2>1
  <2>6. RowsTally'
    BY <1>14, <2>3, <2>4, <2>5 DEF RowsTally
  <2>7. QED BY <2>1, <2>6 DEF Base
<1>17. QED BY <1>15, <1>16

\* A call of the accuracy loop.
LEMMA CompareKeeps ==
  ASSUME Base, Compared, ~Measuring, NEW a \in Triples \cup {Absent},
         Compare(a), answers' = Append(answers, a), UNCHANGED <<runs, tree, samples>>
  PROVE  /\ Compared' /\ rows' \in Seq({rows'[i] : i \in DOMAIN rows'})
         /\ correct' = [k \in Levels |-> correct'[k]]
<1>1. Len(answers) \in Nat
  BY AnswersKnown
<1>2. /\ Len(answers') = Len(answers) + 1
      /\ \A j \in 1..Len(answers) : answers'[j] = answers[j]
      /\ answers'[Len(answers) + 1] = a
  BY AnswerAppended
<1>3. PICK p : p = Len(answers) + 1
  OBVIOUS
<1>4. Present = p /\ p \notin 1..Len(answers) /\ 1..Len(answers') = 1..Len(answers) \cup {p}
  BY <1>1, <1>2, <1>3 DEF Present
<1>5. /\ correct' = [k \in Levels |-> correct'[k]]
      /\ \A k \in Levels :
            correct'[k] = IF a # Absent /\ a[k] = samples[p][k] THEN correct[k] + 1 ELSE correct[k]
  BY <1>4 DEF Compare
<1>6. ASSUME NEW k \in Levels PROVE correct'[k] = Cardinality(Right(k)')
  <2>1. /\ correct[k] = Cardinality(Right(k)) /\ IsFiniteSet(Right(k))
        /\ Cardinality(Right(k)) \in Nat /\ p \notin Right(k)
    <3>1. p \notin Right(k)
      BY <1>4 DEF Right
    <3>2. IsFiniteSet(Right(k)) /\ Cardinality(Right(k)) \in Nat
      BY <1>1, RightFinite
    <3>3. QED BY <3>1, <3>2 DEF Compared
  <2>2. Right(k)' = {i \in 1..Len(answers') :
                        answers'[i] # Absent /\ answers'[i][k] = samples[i][k]}
    BY DEF Right
  <2>3. CASE a # Absent /\ a[k] = samples[p][k]
    <3>1. Right(k)' = Right(k) \cup {p}
      BY <1>2, <1>3, <1>4, <2>2, <2>3 DEF Right
    <3>2. QED BY <1>5, <2>1, <2>3, <3>1, FS_AddElement
  <2>4. CASE ~(a # Absent /\ a[k] = samples[p][k])
    <3>1. Right(k)' = Right(k)
      BY <1>2, <1>3, <1>4, <2>2, <2>4 DEF Right
    <3>2. QED BY <1>5, <2>1, <2>4, <3>1
  <2>5. QED BY <2>3, <2>4
<1>7. rows' = <<>> /\ counts' = NoCounts /\ errors' = 0
  BY DEF Compare, Compared
<1>8. QED BY <1>5, <1>6, <1>7 DEF Compared

LEMMA CallKeeps == GInv /\ Call => GInv'
<1> SUFFICES ASSUME GInv, Call PROVE GInv'
  OBVIOUS
<1>1. /\ Base /\ Progress /\ Counted /\ FilesFit
      /\ phase = "calling" /\ Len(answers) < runs * Len(samples)
      /\ calls' = calls + 1
      /\ UNCHANGED <<phase, runs, tree, samples, header, exit, history, report, cut>>
  BY DEF GInv, Call, arguments, files
<1>2. PICK a \in Triples \cup {Absent} :
          /\ IF Measuring THEN Measure(a) ELSE Compare(a)
          /\ answers' = Append(answers, a)
  BY AnswerTyped DEF Call
<1>3. /\ Len(answers) \in Nat /\ Len(samples) \in Nat /\ runs \in Nat /\ Measuring' = Measuring
  BY <1>1, AnswersKnown DEF Measuring
<1>4. Len(answers') = Len(answers) + 1 /\ answers' \in Seq((Triples \cup {Absent})')
  BY <1>1, <1>2, AnswerAppended
<1>5. /\ Counted' /\ rows' \in Seq({rows'[i] : i \in DOMAIN rows'})
      /\ correct' = [k \in Levels |-> correct'[k]]
  <2>1. CASE Measuring
    <3>1. RowsTally' /\ rows' \in Seq({rows'[i] : i \in DOMAIN rows'})
      BY <1>1, <1>2, <2>1, MeasureKeeps DEF Counted
    <3>2. correct' = [k \in Levels |-> correct'[k]]
      BY <1>1, <1>2, <2>1 DEF Measure, Base
    <3>3. QED BY <1>3, <2>1, <3>1, <3>2 DEF Counted
  <2>2. CASE ~Measuring
    BY <1>1, <1>2, <1>3, <2>2, CompareKeeps DEF Counted
  <2>3. QED BY <2>1, <2>2
<1>6. PICK all \in Nat : all = runs * Len(samples)
  BY <1>3
<1>7. /\ Len(answers') <= all /\ calls' + (all - Len(answers')) <= MaxCalls
      /\ calls' \in 0..MaxCalls
  <2>1. calls + (all - Len(answers)) <= MaxCalls /\ calls \in Nat
    BY <1>1, <1>6, BoundsAssumption DEF Progress, Base
  <2>2. QED BY <1>1, <1>3, <1>4, <1>6, <2>1, BoundsAssumption
<1>8. Base'
  BY <1>1, <1>4, <1>5, <1>7 DEF Base
<1>9. Progress' /\ Judged'
  <2>1. runs' * Len(samples') = all /\ runs' >= 1 /\ phase' = "calling"
    BY <1>1, <1>6 DEF Progress
  <2>2. QED BY <1>7, <2>1 DEF Progress, Judged
<1>10. FilesFit'
  BY <1>1, FilesStay DEF files
<1>11. QED BY <1>5, <1>8, <1>9, <1>10 DEF GInv

-----------------------------------------------------------------------------
(* The files.                                                              *)

LEMMA CountedStays ==
  ASSUME Counted, UNCHANGED <<arguments, counters, answers>>
  PROVE  Counted'
<1>1. /\ runs' = runs /\ samples' = samples /\ answers' = answers /\ rows' = rows
      /\ counts' = counts /\ errors' = errors /\ correct' = correct
  BY DEF arguments, counters
<1>2. RowsTally => RowsTally'
  BY <1>1 DEF RowsTally
<1>3. \A k \in Levels : Right(k)' = Right(k)
  BY <1>1 DEF Right
<1>4. Compared => Compared'
  BY <1>1, <1>3 DEF Compared
<1>5. QED BY <1>1, <1>2, <1>4 DEF Counted, Measuring

LEMMA BaseStays ==
  ASSUME Base, UNCHANGED <<arguments, counters, answers, calls, cut>>,
         phase' \in {"ended", "writing"}, header' \in BOOLEAN, exit' \in {Absent, 0, 1, 2}
  PROVE  Base'
  BY DEF Base, arguments, counters, Triples

\* A file that is opened for the first time is empty, and waits for its header.
LEMMA OpenedFits ==
  ASSUME NEW file, NEW next, FileFits(file, FALSE), next = Opened(file),
         header' = (file = Absent), cut' = cut
  PROVE  /\ next \in Seq(Line) /\ next # Absent
         /\ header' => next = <<>>
         /\ \A i \in 2..Len(next) : next[i] # HeaderLine
         /\ IF next = <<>> THEN cut' \/ header' ELSE cut' \/ next[1] = HeaderLine
<1>1. CASE file = Absent
  <2>1. next = <<>>
    BY <1>1 DEF Opened
  <2>2. next \in Seq(Line) /\ Len(next) = 0
    BY <2>1
  <2>3. header' /\ next # Absent
    BY <1>1, <2>1, AbsentAssumption
  <2>4. \A i \in 2..Len(next) : next[i] # HeaderLine
    BY <2>2
  <2>5. QED BY <2>1, <2>2, <2>3, <2>4
<1>2. CASE file # Absent
  BY <1>2 DEF FileFits, Opened
<1>3. QED BY <1>1, <1>2

LEMMA OpenKeeps == GInv /\ OpenFile => GInv'
<1> SUFFICES ASSUME GInv, OpenFile PROVE GInv'
  OBVIOUS
<1>1. /\ Base /\ Progress /\ Counted /\ FilesFit
      /\ phase = "calling" /\ phase' = "writing" /\ Len(answers) = runs * Len(samples)
      /\ header' = ((IF Measuring THEN report ELSE history) = Absent)
      /\ report' = IF Measuring THEN Opened(report) ELSE report
      /\ history' = IF Measuring THEN history ELSE Opened(history)
      /\ UNCHANGED <<arguments, counters, exit, answers, calls, cut>>
  BY DEF GInv, OpenFile
<1>2. Base'
  BY <1>1, BaseStays DEF Base
<1>3. Counted'
  BY <1>1, CountedStays
<1>4. Progress' /\ Judged'
  BY <1>1 DEF Progress, Judged, arguments
<1>5. FilesFit'
  <2>1. Measuring' = Measuring
    BY <1>1 DEF Measuring, arguments
  <2>2. CASE Measuring
    <3>1. FileFits(report, FALSE) /\ FileFits(history, FALSE)
      BY <1>1, <2>2 DEF FilesFit
    <3>2. FileFits(report, TRUE)'
      <4>1. PICK next : next = Opened(report)
        OBVIOUS
      <4>2. report' = next /\ header' = (report = Absent) /\ cut' = cut
        BY <1>1, <2>2, <4>1
      <4>3. QED BY <3>1, <4>1, <4>2, OpenedFits DEF FileFits
    <3>3. FileFits(history, FALSE)'
      BY <1>1, <2>2, <3>1 DEF FileFits
    <3>4. QED BY <1>1, <2>1, <2>2, <3>2, <3>3 DEF FilesFit
  <2>3. CASE ~Measuring
    <3>1. FileFits(report, FALSE) /\ FileFits(history, FALSE)
      BY <1>1, <2>3 DEF FilesFit
    <3>2. FileFits(history, TRUE)'
      <4>1. PICK next : next = Opened(history)
        OBVIOUS
      <4>2. history' = next /\ header' = (history = Absent) /\ cut' = cut
        BY <1>1, <2>3, <4>1
      <4>3. QED BY <3>1, <4>1, <4>2, OpenedFits DEF FileFits
    <3>3. FileFits(report, FALSE)'
      BY <1>1, <2>3, <3>1 DEF FileFits
    <3>4. QED BY <1>1, <2>1, <2>3, <3>2, <3>3 DEF FilesFit
  <2>4. QED BY <2>2, <2>3
<1>6. QED BY <1>2, <1>3, <1>4, <1>5 DEF GInv

\* The header, if it is due, and then the lines go behind what is there.
LEMMA LinesFit ==
  ASSUME NEW file, NEW new \in Seq(Line), NEW next,
         FileFits(file, TRUE), header \in BOOLEAN, next = Lines(file, new),
         \A i \in 1..Len(new) : new[i] # HeaderLine
  PROVE  /\ FileFits(next, FALSE)
         /\ next \in Seq(Line) /\ Len(new) <= Len(next)
         /\ \A i \in 1..Len(new) : next[Len(next) - Len(new) + i] = new[i]
<1>1. file \in Seq(Line) /\ (header => file = <<>>)
  BY DEF FileFits
<1>2. /\ \A i \in 2..Len(file) : file[i] # HeaderLine
      /\ ~header => IF file = <<>> THEN cut ELSE cut \/ file[1] = HeaderLine
  BY DEF FileFits
<1>3. PICK head : head = file \o (IF header THEN <<HeaderLine>> ELSE <<>>)
  OBVIOUS
<1>4. /\ head \in Seq(Line) /\ Len(head) \in Nat
      /\ \A i \in 2..Len(head) : head[i] # HeaderLine
      /\ IF Len(head) = 0 THEN cut ELSE cut \/ head[1] = HeaderLine
  <2>1. CASE header
    <3>1. head = <<HeaderLine>>
      BY <1>1, <1>3, <2>1
    <3>2. HeaderLine \in Line
      BY DEF Line
    <3>3. QED BY <3>1, <3>2
  <2>2. CASE ~header
    <3>1. head = file
      BY <1>1, <1>3, <2>2
    <3>2. Len(file) \in Nat /\ (Len(file) = 0 <=> file = <<>>)
      BY <1>1, EmptySeq
    <3>3. QED BY <1>1, <1>2, <2>2, <3>1, <3>2
  <2>3. QED BY <2>1, <2>2
<1>5. /\ next \in Seq(Line) /\ Len(next) = Len(head) + Len(new)
      /\ \A i \in 1..Len(next) :
            next[i] = IF i <= Len(head) THEN head[i] ELSE new[i - Len(head)]
  <2>1. next = head \o new
    BY <1>3 DEF Lines
  <2>2. QED BY <1>4, <2>1, ConcatProperties
<1>6. Len(new) \in Nat /\ Len(next) \in Nat
  BY <1>5
<1>7. ASSUME NEW i \in 2..Len(next) PROVE next[i] # HeaderLine
  <2>1. CASE i <= Len(head)
    BY <1>4, <1>5, <1>6, <2>1
  <2>2. CASE ~(i <= Len(head))
    <3>1. i - Len(head) \in 1..Len(new) /\ next[i] = new[i - Len(head)]
      BY <1>4, <1>5, <1>6, <2>2
    <3>2. QED BY <3>1
  <2>3. QED BY <2>1, <2>2
<1>8. IF next = <<>> THEN cut ELSE cut \/ next[1] = HeaderLine
  <2>1. CASE Len(head) = 0
    BY <1>4, <2>1
  <2>2. CASE Len(head) # 0
    <3>1. next # <<>> /\ next[1] = head[1]
      BY <1>4, <1>5, <1>6, <2>2
    <3>2. QED BY <1>4, <2>2, <3>1
  <2>3. QED BY <2>1, <2>2
<1>9. ASSUME NEW i \in 1..Len(new) PROVE next[Len(next) - Len(new) + i] = new[i]
  <2>1. PICK p : p = Len(next) - Len(new) + i
    OBVIOUS
  <2>2. p \in 1..Len(next) /\ ~(p <= Len(head)) /\ p - Len(head) = i
    BY <1>4, <1>5, <1>6, <2>1
  <2>3. QED BY <1>5, <2>1, <2>2
<1>10. QED BY <1>4, <1>5, <1>6, <1>7, <1>8, <1>9 DEF FileFits

LEMMA ReportKeeps == GInv /\ WriteReport => GInv'
<1> SUFFICES ASSUME GInv, WriteReport PROVE GInv'
  OBVIOUS
<1>1. /\ Base /\ Progress /\ Counted /\ FilesFit
      /\ phase = "writing" /\ phase' = "ended" /\ Measuring
      /\ exit' = IF \A i \in DOMAIN rows : Stable(rows[i]) THEN 0 ELSE 1
      /\ UNCHANGED <<arguments, counters, header, history, answers, calls, cut>>
  BY DEF GInv, WriteReport
<1>2. RowsTally /\ Len(rows) \in Nat /\ DOMAIN rows = 1..Len(rows) /\ runs \in Nat
  BY <1>1, AnswersKnown DEF Counted
<1>3. PICK new : new = [i \in 1..Len(rows) |-> Columns(rows[i])]
  OBVIOUS
<1>4. ASSUME NEW i \in 1..Len(rows)
      PROVE  Columns(rows[i]) \in Line /\ Columns(rows[i]) # HeaderLine
  <2>1. PICK lo \in Nat : lo = runs * (i - 1)
    BY <1>2
  <2>2. Tally(answers, lo, runs, rows[i].counts, rows[i].errors)
    BY <1>2, <2>1 DEF RowsTally
  <2>3. QED BY <1>2, <2>2, ColumnsAreLine
<1>5. /\ new \in Seq(Line) /\ Len(new) = Len(rows)
      /\ \A i \in 1..Len(new) : new[i] # HeaderLine
  BY <1>2, <1>3, <1>4
<1>6. report' = Lines(report, new)
  BY <1>2, <1>3 DEF WriteReport
<1>7. FileFits(report, TRUE) /\ FileFits(history, FALSE) /\ header \in BOOLEAN
  BY <1>1 DEF FilesFit, Base
<1>8. PICK next : next = report'
  OBVIOUS
<1>9. /\ FileFits(next, FALSE)
      /\ Len(new) <= Len(next)
      /\ \A i \in 1..Len(new) : next[Len(next) - Len(new) + i] = new[i]
  BY <1>5, <1>6, <1>7, <1>8, LinesFit
<1>10. Base'
  <2>1. header' \in BOOLEAN /\ exit' \in {Absent, 0, 1, 2} /\ phase' \in {"ended", "writing"}
    BY <1>1, <1>7
  <2>2. QED BY <1>1, <2>1, BaseStays
<1>11. Counted'
  BY <1>1, CountedStays
<1>12. Progress'
  BY <1>1 DEF Progress, arguments
<1>13. Judged'
  <2>1. rows' = rows /\ Measuring'
    BY <1>1 DEF Measuring, arguments, counters
  <2>2. exit' = IF \A i \in DOMAIN rows' : Stable(rows'[i]) THEN 0 ELSE 1
    BY <1>1, <2>1
  <2>3. Reported'
    BY <1>2, <1>3, <1>5, <1>8, <1>9, <2>1 DEF Reported
  <2>4. QED BY <2>1, <2>2, <2>3 DEF Judged
<1>14. FilesFit'
  <2>1. FileFits(report, FALSE)' /\ FileFits(history, FALSE)'
    BY <1>1, <1>7, <1>8, <1>9 DEF FileFits
  <2>2. QED BY <1>1, <2>1 DEF FilesFit
<1>15. QED BY <1>10, <1>11, <1>12, <1>13, <1>14 DEF GInv

LEMMA HistoryKeeps == GInv /\ WriteHistory => GInv'
<1> SUFFICES ASSUME GInv, WriteHistory PROVE GInv'
  OBVIOUS
<1>1. /\ Base /\ Progress /\ Counted /\ FilesFit
      /\ phase = "writing" /\ phase' = "ended" /\ ~Measuring
      /\ exit' = IF Passes THEN 0 ELSE 1
      /\ UNCHANGED <<arguments, counters, header, report, answers, calls, cut>>
  BY DEF GInv, WriteHistory
<1>2. PICK line : line = [n |-> Len(samples), correct |-> correct]
  OBVIOUS
<1>3. line \in Line /\ line # HeaderLine
  <2>1. Len(samples) \in Nat /\ correct \in [Levels -> Nat]
    BY <1>1, TypeFollows DEF TypeOK, Base
  <2>2. QED BY <1>2, <2>1, HistoryIsLine
<1>4. /\ <<line>> \in Seq(Line) /\ Len(<<line>>) = 1
      /\ \A i \in 1..Len(<<line>>) : <<line>>[i] # HeaderLine
  BY <1>3
<1>5. history' = Lines(history, <<line>>)
  BY <1>2 DEF WriteHistory
<1>6. FileFits(history, TRUE) /\ FileFits(report, FALSE) /\ header \in BOOLEAN
  BY <1>1 DEF FilesFit, Base
<1>7. PICK next : next = history'
  OBVIOUS
<1>8. FileFits(next, FALSE)
  BY <1>4, <1>5, <1>6, <1>7, LinesFit
<1>9. Base'
  <2>1. header' \in BOOLEAN /\ exit' \in {Absent, 0, 1, 2} /\ phase' \in {"ended", "writing"}
    BY <1>1, <1>6
  <2>2. QED BY <1>1, <2>1, BaseStays
<1>10. Counted'
  BY <1>1, CountedStays
<1>11. Progress'
  BY <1>1 DEF Progress, arguments
<1>12. Judged'
  BY <1>1 DEF Judged, Measuring, Passes, arguments, counters
<1>13. FilesFit'
  <2>1. FileFits(history, FALSE)' /\ FileFits(report, FALSE)'
    BY <1>1, <1>6, <1>7, <1>8 DEF FileFits
  <2>2. QED BY <1>1, <2>1 DEF FilesFit
<1>14. QED BY <1>9, <1>10, <1>11, <1>12, <1>13 DEF GInv

-----------------------------------------------------------------------------
(* What the invariant says of an invocation that has ended.                *)

LEMMA GStep == GInv /\ [Next]_vars => GInv'
<1> SUFFICES ASSUME GInv, [Next]_vars PROVE GInv'
  OBVIOUS
<1>1. CASE BadRuns
  BY <1>1, BadRunsKeeps
<1>2. ASSUME NEW golden \in Goldens, NEW skip_tbd \in BOOLEAN, Invoke(golden, skip_tbd)
      PROVE  GInv'
  BY <1>2, InvokeKeeps
<1>3. CASE Work
  BY <1>3, CallKeeps, OpenKeeps, ReportKeeps, HistoryKeeps DEF Work
<1>4. CASE Kill
  BY <1>4, KillKeeps
<1>5. CASE UNCHANGED vars
  <2>1. Counted'
    BY <1>5, CountedStays DEF GInv, vars
  <2>2. /\ UNCHANGED <<phase, arguments, counters, header, exit, files, answers, calls, cut>>
    BY <1>5 DEF vars
  <2>3. Base' /\ Progress'
    BY <2>2 DEF GInv, Base, Progress, Triples, arguments, counters
  <2>4. Judged'
    BY <2>2 DEF GInv, Judged, Reported, Measuring, Passes, arguments, counters, files
  <2>5. FilesFit'
    BY <2>2 DEF GInv, FilesFit, FileFits, Measuring, arguments, files
  <2>6. QED BY <2>1, <2>3, <2>4, <2>5 DEF GInv
<1>6. QED BY <1>1, <1>2, <1>3, <1>4, <1>5 DEF Next

\* Answers of the calls about a sample.
LEMMA AboutCalls ==
  ASSUME GInv, Finished, Measuring, NEW i \in DOMAIN samples
  PROVE  \E lo \in Nat : /\ lo = runs * (i - 1)
                         /\ \A j \in 1..runs : About(i)[j] = answers[lo + j]
<1>1. /\ Base /\ Len(answers) = runs * Len(samples) /\ runs \in Nat /\ runs > 1
      /\ Len(samples) \in Nat /\ i \in 1..Len(samples)
  BY AnswersKnown DEF GInv, Progress, Finished, Measuring
<1>2. PICK k \in Nat : k = i - 1
  BY <1>1
<1>3. PICK lo \in Nat : lo = runs * k
  BY <1>1
<1>4. runs * i = lo + runs
  <2>1. i = k + 1
    BY <1>1, <1>2
  <2>2. QED BY <1>1, <1>3, <2>1, Product
<1>5. lo + runs <= Len(answers)
  <2>1. runs * i <= runs * Len(samples)
    BY <1>1, ProductMonotone
  <2>2. QED BY <1>1, <1>4, <2>1
<1>6. About(i) = SubSeq(answers, lo + 1, lo + runs)
  BY <1>2, <1>3, <1>4 DEF About
<1>7. ASSUME NEW j \in 1..runs PROVE About(i)[j] = answers[lo + j]
  <2>1. PICK S : answers \in Seq(S)
    BY <1>1 DEF Base
  <2>2. Len(answers) \in Nat
    BY <1>1, AnswersKnown
  <2>3. lo + 1 \in 1..Len(answers) + 1 /\ lo + runs \in lo..Len(answers)
    BY <1>1, <1>5, <2>2
  <2>4. SubSeq(answers, lo + 1, lo + runs)[j] = answers[lo + 1 + j - 1]
    BY <1>1, <1>5, <2>1, <2>2, <2>3
  <2>5. lo + 1 + j - 1 = lo + j
    BY <1>1
  <2>6. QED BY <1>6, <2>4, <2>5
<1>8. QED BY <1>2, <1>3, <1>7

\* Every sample of a variance run has its row.
LEMMA AllMeasured ==
  ASSUME GInv, Finished, Measuring
  PROVE  /\ Len(rows) = Len(samples) /\ Len(rows) \in Nat /\ runs \in Nat /\ runs > 1
         /\ DOMAIN rows = 1..Len(rows) /\ DOMAIN samples = 1..Len(samples)
         /\ \A i \in DOMAIN rows :
               Tally(answers, runs * (i - 1), runs, rows[i].counts, rows[i].errors)
<1>1. /\ Base /\ RowsTally /\ Len(answers) = runs * Len(samples) /\ runs \in Nat /\ runs > 1
      /\ Len(samples) \in Nat /\ Len(rows) \in Nat
      /\ DOMAIN rows = 1..Len(rows) /\ DOMAIN samples = 1..Len(samples)
  BY AnswersKnown DEF GInv, Progress, Counted, Finished, Measuring
<1>2. runs * Len(samples) < runs * (Len(rows) + 1)
  BY <1>1 DEF RowsTally
<1>3. Len(samples) < Len(rows) + 1
  BY <1>1, <1>2, ProductLess
<1>4. Len(rows) <= Len(samples)
  BY TypeFollows DEF TypeOK
<1>5. Len(rows) = Len(samples)
  <2>1. \A m, n \in Nat : m < n + 1 /\ n <= m => n = m
    OBVIOUS
  <2>2. QED BY <1>1, <1>3, <1>4, <2>1, Zenon
<1>6. \A i \in DOMAIN rows :
         Tally(answers, runs * (i - 1), runs, rows[i].counts, rows[i].errors)
  BY <1>1, Zenon DEF RowsTally
<1>7. QED BY <1>1, <1>5, <1>6, Zenon

-----------------------------------------------------------------------------
(* The theorems.                                                           *)

\* Counter, rows, scores, exit code and files fit together, however many of
\* the calls fail and wherever an invocation is killed.
THEOREM EvalInvariance == Spec => []GInv
<1>1. QED BY InitInv, GStep, PTL DEF Spec

\* Every reachable state of the evaluation is well typed.
THEOREM EvalTypeCorrect == Spec => []TypeOK
<1>1. QED BY EvalInvariance, TypeFollows, PTL

\* An accuracy run passes exactly when four of five samples or more were
\* answered with the expected top code, for golden sets of any size.
THEOREM GatesAreEarned == Spec => []GateIsEarned
<1>1. GInv => GateIsEarned
  <2> SUFFICES ASSUME GInv, Finished, ~Measuring
               PROVE  LET right == {i \in DOMAIN samples :
                               answers[i] # Absent /\ answers[i][1] = samples[i][1]}
                      IN exit = 0 <=> 5 * Cardinality(right) >= 4 * Len(samples)
    BY DEF GateIsEarned
  <2>1. /\ Base /\ Compared /\ runs \in Nat /\ Len(samples) \in Nat
        /\ DOMAIN samples = 1..Len(samples)
        /\ runs >= 1 /\ Len(answers) = runs * Len(samples)
        /\ exit = IF Passes THEN 0 ELSE 1
    BY AnswersKnown DEF GInv, Counted, Progress, Judged, Finished
  <2>2. runs = 1
    BY <2>1 DEF Measuring
  <2>3. Len(answers) = Len(samples)
    <3>1. \A n \in Nat : 1 * n = n
      OBVIOUS
    <3>2. QED BY <2>1, <2>2, <3>1, Zenon
  <2>4. Right(1) = {i \in DOMAIN samples :
                       answers[i] # Absent /\ answers[i][1] = samples[i][1]}
    BY <2>1, <2>3 DEF Right
  <2>5. correct[1] = Cardinality(Right(1)) /\ Cardinality(Right(1)) \in Nat
    <3>1. 1 \in Levels
      BY DEF Levels
    <3>2. Cardinality(Right(1)) \in 0..Len(answers)
      BY <2>1, <2>3, RightFinite
    <3>3. QED BY <2>1, <2>3, <3>1, <3>2 DEF Compared
  <2>6. Passes <=> 5 * Cardinality(Right(1)) >= 4 * Len(samples)
    BY <2>1, <2>5 DEF Passes
  <2>7. exit = 0 <=> Passes
    BY <2>1
  <2>8. QED BY <2>4, <2>6, <2>7, Zenon
<1>2. QED BY <1>1, EvalInvariance, PTL

\* A variance run passes exactly when all calls about a sample agreed.
THEOREM StabilitiesAreEarned == Spec => []StabilityIsEarned
<1>1. GInv => StabilityIsEarned
  <2> SUFFICES ASSUME GInv, Finished, Measuring
               PROVE  exit = 0 <=> \A i \in DOMAIN samples : \A j \in 1..runs :
                                      About(i)[j] # Absent /\ About(i)[j] = About(i)[1]
    BY DEF StabilityIsEarned
  <2>1. exit = IF \A i \in DOMAIN rows : Stable(rows[i]) THEN 0 ELSE 1
    BY DEF GInv, Judged, Finished
  <2>2. DOMAIN rows = DOMAIN samples
    BY AllMeasured
  <2>3. ASSUME NEW i \in DOMAIN samples
        PROVE  Stable(rows[i]) <=> \A j \in 1..runs :
                                      About(i)[j] # Absent /\ About(i)[j] = About(i)[1]
    <3>1. PICK lo \in Nat : /\ lo = runs * (i - 1)
                            /\ \A j \in 1..runs : About(i)[j] = answers[lo + j]
      BY AboutCalls
    <3>2. runs \in Nat /\ runs >= 1 /\ Tally(answers, lo, runs, rows[i].counts, rows[i].errors)
      BY <2>2, <3>1, AllMeasured
    <3>3. Stable(rows[i]) <=>
              \A j \in 1..runs : answers[lo + j] # Absent /\ answers[lo + j] = answers[lo + 1]
      BY <3>2, StableIsAgreed
    <3>4. 1 \in 1..runs
      BY <3>2
    <3>5. QED BY <3>1, <3>3, <3>4
  <2>4. QED BY <2>1, <2>2, <2>3
<1>2. QED BY <1>1, EvalInvariance, PTL

\* Every line of the report has the numbers of the calls about its sample.
THEOREM ReportsAreObserved == Spec => []ReportIsObserved
<1>1. ASSUME GInv, Finished, Measuring, NEW i \in DOMAIN samples,
             NEW line, line = report[Len(report) - Len(samples) + i],
             NEW labels, labels = {About(i)[j] : j \in 1..runs} \ {Absent}
      PROVE  LET times(t) == Cardinality({j \in 1..runs : About(i)[j] = t})
             IN /\ line.errors = times(Absent)
                /\ line.successful = runs - times(Absent)
                /\ line.distinct = Cardinality(labels)
                /\ \A t \in labels : times(t) <= line.modal
                /\ labels # {} => \E t \in labels : times(t) = line.modal
  <2>1. PICK lo \in Nat : /\ lo = runs * (i - 1)
                          /\ \A j \in 1..runs : About(i)[j] = answers[lo + j]
    BY <1>1, AboutCalls
  <2>2. runs \in Nat /\ i \in DOMAIN rows /\ Len(rows) = Len(samples)
    BY <1>1, AllMeasured
  <2>3. PICK row : row = rows[i]
    OBVIOUS
  <2>4. Tally(answers, lo, runs, row.counts, row.errors)
    BY <1>1, <2>1, <2>2, <2>3, AllMeasured, Zenon
  <2>5. line = Columns(row)
    <3>1. Reported
      BY <1>1 DEF GInv, Judged, Finished
    <3>2. report[Len(report) - Len(rows) + i] = Columns(rows[i])
      BY <2>2, <3>1, Zenon DEF Reported
    <3>3. QED BY <1>1, <2>2, <2>3, <3>2, Zenon
  <2>6. /\ line.errors = row.errors /\ line.successful = Sum(row.counts)
        /\ line.distinct = Cardinality(DOMAIN row.counts) /\ line.modal = Modal(row)
    BY <2>5 DEF Columns, Distinct
  <2>7. labels = DOMAIN row.counts
    <3>1. {About(i)[j] : j \in 1..runs} = {answers[lo + j] : j \in 1..runs}
      BY <2>1
    <3>2. QED BY <1>1, <2>4, <3>1 DEF Tally
  <2>8. ASSUME NEW t PROVE {j \in 1..runs : About(i)[j] = t} = Hits(answers, lo, runs, t)
    BY <2>1 DEF Hits
  <2>9. line.errors = Cardinality(Hits(answers, lo, runs, Absent))
    BY <2>4, <2>6 DEF Tally
  <2>10. line.successful = runs - Cardinality(Hits(answers, lo, runs, Absent))
    <3>1. row.errors \in Nat /\ Sum(row.counts) \in Nat
      <4>1. row.errors \in 0..runs /\ Sum(row.counts) \in Nat
        BY <2>2, <2>4, TallyTypes, Zenon
      <4>2. QED BY <2>2, <4>1
    <3>2. Sum(row.counts) + row.errors = runs
      BY <2>4 DEF Tally
    <3>3. line.successful = runs - row.errors
      BY <2>2, <2>6, <3>1, <3>2
    <3>4. QED BY <2>6, <2>9, <3>3
  <2>11. \A t \in labels : row.counts[t] = Cardinality(Hits(answers, lo, runs, t))
    BY <2>4, <2>7 DEF Tally
  <2>12. /\ \A t \in labels : row.counts[t] <= line.modal
         /\ labels # {} => \E t \in labels : row.counts[t] = line.modal
    <3>1. /\ DOMAIN row.counts # {} => \E t \in DOMAIN row.counts : Modal(row) = row.counts[t]
          /\ \A t \in DOMAIN row.counts : row.counts[t] <= Modal(row)
      BY <2>1, <2>2, <2>4, ModalIsMost
    <3>2. QED BY <2>6, <2>7, <3>1
  <2>13. line.distinct = Cardinality(labels)
    BY <2>6, <2>7
  <2>14. QED BY <2>8, <2>9, <2>10, <2>11, <2>12, <2>13, Zenon
<1>2. GInv => ReportIsObserved
  BY <1>1, Zenon DEF ReportIsObserved
<1>3. QED BY <1>2, EvalInvariance, PTL

\* A file begins with its header and has no second one, but for a kill between
\* the creation of a file and its first line.
THEOREM HeadersComeFirst == Spec => []HeaderFirst
<1>1. ASSUME NEW file, NEW open, FileFits(file, open), file # Absent
      PROVE  /\ \A i \in 2..Len(file) : file[i] # HeaderLine
             /\ file # <<>> /\ ~cut => file[1] = HeaderLine
  BY <1>1 DEF FileFits
<1>2. GInv => HeaderFirst
  BY <1>1 DEF GInv, FilesFit, HeaderFirst
<1>3. QED BY <1>2, EvalInvariance, PTL

=============================================================================

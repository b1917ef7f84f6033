---------------------------- MODULE PiiMaskProofs ---------------------------
(***************************************************************************)
(* Theorems about PiiMask, for texts of any length: no number of a kind    *)
(* that is looked for on both sides is left, and no lone card number is.   *)
(***************************************************************************)
EXTENDS PiiMask, FiniteSetTheorems, SequenceTheorems, TLAPS

\* The patterns with a lookahead.
Numbers == {"rrn", "phone", "account"}

-----------------------------------------------------------------------------
(* The patterns.                                                           *)

LEMMA CountFinite ==
  ASSUME NEW s, NEW i \in Nat, NEW j \in Nat, i <= j
  PROVE  /\ IsFiniteSet({k \in i..j : Digit(s, k)})
         /\ Count(s, i, j) \in Nat /\ Count(s, i, j) <= j - i + 1
<1>1. PICK n \in Nat : n = j - i + 1
  OBVIOUS
<1>2. IsFiniteSet(i..j) /\ Cardinality(i..j) = n
  BY <1>1, FS_Interval
<1>3. {k \in i..j : Digit(s, k)} \in SUBSET (i..j)
  OBVIOUS
<1>4. /\ IsFiniteSet({k \in i..j : Digit(s, k)})
      /\ Cardinality({k \in i..j : Digit(s, k)}) <= n
  BY <1>2, <1>3, FS_Subset
<1>5. Cardinality({k \in i..j : Digit(s, k)}) \in Nat
  BY <1>4, FS_CardinalityType
<1>6. QED BY <1>1, <1>4, <1>5 DEF Count

\* A number begins and ends with a digit, and has nothing but digits and
\* separators in between.
LEMMA NumberFits ==
  ASSUME NEW s \in Seq(Characters), NEW i \in DOMAIN s, NEW j \in DOMAIN s, i <= j,
         NEW pattern \in Numbers, Matches(pattern, s, i, j)
  PROVE  /\ Digit(s, i) /\ Digit(s, j) /\ Alone(s, i, j)
         /\ \A k \in i..j : k \in DOMAIN s /\ s[k] <= 11
<1>1. i \in Nat /\ j \in Nat /\ i..j \subseteq DOMAIN s
  OBVIOUS
<1>2. Count(s, i, j) \in Nat /\ Count(s, i, j) <= j - i + 1
  BY <1>1, CountFinite
<1>3. \A k \in i..j : ~Digit(s, k) => k \in Gaps(s, i, j)
  BY DEF Gaps
<1>4. ASSUME Digit(s, i), Digit(s, j), \A k \in Gaps(s, i, j) : s[k] \in {Space, Dash}
      PROVE  \A k \in i..j : k \in DOMAIN s /\ s[k] <= 11
  <2>1. \A k \in DOMAIN s : s[k] \in Nat
    BY DEF Characters
  <2>2. ASSUME NEW k \in i..j PROVE s[k] <= 11
    <3>1. CASE Digit(s, k)
      BY <1>1, <2>1, <3>1 DEF Digit
    <3>2. CASE ~Digit(s, k)
      BY <1>3, <1>4, <3>2 DEF Space, Dash
    <3>3. QED BY <3>1, <3>2
  <2>3. QED BY <1>1, <2>2
<1>5. CASE Rrn(s, i, j)
  <2>1. i # i + 6 /\ (j = i + 6 => Count(s, i, j) <= 7)
    BY <1>1, <1>2
  <2>2. Digit(s, i) /\ Digit(s, j)
    BY <1>1, <1>3, <1>5, <2>1 DEF Rrn
  <2>3. QED BY <1>4, <1>5, <2>2 DEF Rrn
<1>6. CASE Phone(s, i, j)
  <2>1. /\ i # i + 3 /\ (i = j - 4 => Count(s, i, j) <= 5)
        /\ j # j - 4 /\ (j = i + 3 => Count(s, i, j) <= 4)
    BY <1>1, <1>2
  <2>2. Digit(s, i) /\ Digit(s, j)
    BY <1>1, <1>3, <1>6, <2>1 DEF Phone
  <2>3. QED BY <1>4, <1>6, <2>2 DEF Phone, Separator
<1>7. CASE Account(s, i, j)
  <2>1. /\ Digit(s, i) /\ Digit(s, j)
        /\ \A k \in Gaps(s, i, j) : s[k] \in {Space, Dash}
    <3>1. CASE Gaps(s, i, j) = {}
      BY <1>1, <1>3, <3>1
    <3>2. ASSUME NEW a \in i..j, NEW b \in i..j,
                 Gaps(s, i, j) = {a, b}, s[a] = Dash, s[b] = Dash,
                 a - i \in 2..4, b - a - 1 \in 2..6, j - b \in 2..8
          PROVE  /\ Digit(s, i) /\ Digit(s, j)
                 /\ \A k \in Gaps(s, i, j) : s[k] \in {Space, Dash}
      <4>1. i # a /\ i # b /\ j # a /\ j # b
        BY <1>1, <3>2
      <4>2. QED BY <1>1, <1>3, <3>2, <4>1
    <3>3. QED BY <1>7, <3>1, <3>2 DEF Account
  <2>2. QED BY <1>4, <1>7, <2>1 DEF Account
<1>8. QED BY <1>5, <1>6, <1>7 DEF Matches, Numbers

\* z[u..v] is a copy of s[i..j], d further on.
Copy(s, i, j, z, u, v, d) ==
    /\ u = i + d /\ v = j + d
    /\ \A k \in i..j : k \in DOMAIN s /\ k + d \in DOMAIN z /\ z[k + d] = s[k]

LEMMA CopyDigits ==
  ASSUME NEW s, NEW z, NEW d \in Int, NEW i \in Nat, NEW j \in Nat, i <= j,
         NEW u \in Nat, NEW v \in Nat, Copy(s, i, j, z, u, v, d)
  PROVE  \A k \in i..j : Digit(s, k) <=> Digit(z, k + d)
  BY DEF Copy, Digit

LEMMA CopyGaps ==
  ASSUME NEW s, NEW z, NEW d \in Int, NEW i \in Nat, NEW j \in Nat, i <= j,
         NEW u \in Nat, NEW v \in Nat, Copy(s, i, j, z, u, v, d),
         NEW k \in Gaps(s, i, j)
  PROVE  k \in i..j /\ k + d \in Gaps(z, u, v)
<1>1. k + d \in u..v
  BY DEF Copy, Gaps
<1>2. QED BY <1>1, CopyDigits DEF Gaps

\* Where the gap k of a copy comes from.
GapOf(s, i, j, z, d, k) == \E g \in Gaps(s, i, j) : g \in i..j /\ g + d = k /\ z[k] = s[g]

LEMMA CopyGapsBack ==
  ASSUME NEW s, NEW z, NEW d \in Int, NEW i \in Nat, NEW j \in Nat, i <= j,
         NEW u \in Nat, NEW v \in Nat, Copy(s, i, j, z, u, v, d),
         NEW k \in Gaps(z, u, v)
  PROVE  GapOf(s, i, j, z, d, k)
<1>1. k \in u..v /\ ~Digit(z, k)
  BY DEF Gaps
<1>2. PICK g \in i..j : g + d = k
  <2>1. k - d \in i..j /\ k - d + d = k
    BY <1>1 DEF Copy
  <2>2. QED BY <2>1
<1>3. ~Digit(s, g)
  BY <1>1, <1>2, CopyDigits
<1>4. QED BY <1>2, <1>3 DEF Copy, Gaps, GapOf

\* The digits of a copy are as many.
LEMMA CopyCount ==
  ASSUME NEW s, NEW z, NEW d \in Int, NEW i \in Nat, NEW j \in Nat, i <= j,
         NEW u \in Nat, NEW v \in Nat, Copy(s, i, j, z, u, v, d)
  PROVE  Count(z, u, v) = Count(s, i, j)
<1> DEFINE A == {k \in i..j : Digit(s, k)}
           B == {k \in u..v : Digit(z, k)}
           f == [k \in A |-> k + d]
<1>1. \A k \in i..j : Digit(s, k) <=> Digit(z, k + d)
  BY CopyDigits, Zenon
<1>2. \A k \in A : k \in Int /\ f[k] = k + d /\ f[k] \in B
  <2>1. \A k \in i..j : k \in Int /\ k + d \in u..v
    BY DEF Copy
  <2>2. QED BY <1>1, <2>1
<1>3. f \in [A -> B] /\ \A k, l \in A : f[k] = f[l] => k = l
  BY <1>2
<1>4. ASSUME NEW y \in B PROVE \E k \in A : f[k] = y
  <2>1. y \in u..v /\ Digit(z, y)
    OBVIOUS
  <2>2. PICK l \in i..j : l + d = y
    <3>1. y - d \in i..j /\ (y - d) + d = y
      BY <2>1 DEF Copy
    <3>2. QED BY <3>1
  <2>3. l \in A
    BY <1>1, <2>1, <2>2
  <2>4. QED BY <1>2, <2>2, <2>3
<1>5. f \in Bijection(A, B)
  BY <1>3, <1>4 DEF Bijection, Injection, Surjection, IsInjective
<1>6. ExistsBijection(A, B)
  BY <1>5 DEF ExistsBijection
<1>7. IsFiniteSet(A)
  BY CountFinite
<1>8. Cardinality(B) = Cardinality(A)
  BY <1>6, <1>7, FS_Bijection
<1>9. QED BY <1>8 DEF Count

\* A copy of a number that stands alone is a number.
LEMMA RrnMoved ==
  ASSUME NEW s, NEW z, NEW d \in Int, NEW i \in Nat, NEW j \in Nat, i <= j,
         NEW u \in Nat, NEW v \in Nat, Copy(s, i, j, z, u, v, d),
         Alone(z, u, v), Rrn(s, i, j)
  PROVE  Rrn(z, u, v)
<1>1. Count(z, u, v) = 13
  BY CopyCount DEF Rrn
<1>2. \A k \in Gaps(z, u, v) : GapOf(s, i, j, z, d, k)
  BY CopyGapsBack
<1>3. \A k \in Gaps(z, u, v) : z[k] = Dash
  BY <1>2 DEF Rrn, GapOf
<1>4. CASE Gaps(s, i, j) = {}
  <2>1. Gaps(z, u, v) = {}
    BY <1>2, <1>4 DEF GapOf
  <2>2. QED BY <1>1, <1>3, <2>1 DEF Rrn
<1>5. CASE Gaps(s, i, j) = {i + 6}
  <2>1. PICK g : g = i + 6
    OBVIOUS
  <2>2. g \in Gaps(s, i, j) /\ \A k \in Gaps(s, i, j) : k = g
    BY <1>5, <2>1
  <2>3. g + d \in Gaps(z, u, v)
    BY <2>2, CopyGaps, Zenon
  <2>4. \A k \in Gaps(z, u, v) : k = g + d
    BY <1>2, <2>2, Zenon DEF GapOf
  <2>5. g + d = u + 6
    BY <2>1 DEF Copy
  <2>6. Gaps(z, u, v) = {u + 6}
    <3>1. Gaps(z, u, v) = {g + d}
      BY <2>3, <2>4, Zenon
    <3>2. QED BY <2>5, <3>1, Zenon
  <2>7. QED BY <1>1, <1>3, <2>6 DEF Rrn
<1>6. QED BY <1>4, <1>5 DEF Rrn

LEMMA PhoneMoved ==
  ASSUME NEW s, NEW z, NEW d \in Int, NEW i \in Nat, NEW j \in Nat, i <= j,
         NEW u \in Nat, NEW v \in Nat, Copy(s, i, j, z, u, v, d),
         Alone(z, u, v), Phone(s, i, j)
  PROVE  Phone(z, u, v)
<1>1. Count(z, u, v) = Count(s, i, j) /\ Count(s, i, j) \in {10, 11}
  BY CopyCount DEF Phone
<1>2. ASSUME NEW k \in Gaps(z, u, v) PROVE k \in {u + 3, v - 4} /\ Separator(z, k)
  <2>0. GapOf(s, i, j, z, d, k)
    BY CopyGapsBack
  <2>1. PICK g \in Gaps(s, i, j) : g \in i..j /\ g + d = k /\ z[k] = s[g]
    BY <2>0, Zenon DEF GapOf
  <2>2. g \in {i + 3, j - 4} /\ Separator(s, g)
    BY <2>1 DEF Phone
  <2>3. k \in {u + 3, v - 4}
    BY <2>1, <2>2 DEF Copy
  <2>4. k \in DOMAIN z
    BY <2>1 DEF Copy
  <2>5. QED BY <2>1, <2>2, <2>3, <2>4 DEF Separator
<1>3. i + 1 \in i..j /\ i + 2 \in i..j
  <2>1. PICK n \in Nat : n = Count(s, i, j) /\ n <= j - i + 1
    BY CountFinite, Zenon
  <2>2. n >= 10
    BY <1>1, <2>1
  <2>3. QED BY <2>1, <2>2
<1>4. z[u] = s[i] /\ z[u + 1] = s[i + 1] /\ z[u + 2] = s[i + 2]
  <2>1. i + d = u /\ i + 1 + d = u + 1 /\ i + 2 + d = u + 2
    BY DEF Copy
  <2>2. z[i + d] = s[i] /\ z[i + 1 + d] = s[i + 1] /\ z[i + 2 + d] = s[i + 2]
    BY <1>3 DEF Copy
  <2>3. QED BY <2>1, <2>2
<1>5. z[u] = 0 /\ z[u + 1] = 1 /\ z[u + 2] \in {0, 1, 6, 7, 8, 9}
  BY <1>4 DEF Phone
<1>6. Gaps(z, u, v) \subseteq {u + 3, v - 4} /\ \A k \in Gaps(z, u, v) : Separator(z, k)
  BY <1>2
<1>7. QED BY <1>1, <1>5, <1>6 DEF Phone

LEMMA AccountMoved ==
  ASSUME NEW s, NEW z, NEW d \in Int, NEW i \in Nat, NEW j \in Nat, i <= j,
         NEW u \in Nat, NEW v \in Nat, Copy(s, i, j, z, u, v, d),
         Alone(z, u, v), Account(s, i, j)
  PROVE  Account(z, u, v)
<1>1. CASE Gaps(s, i, j) = {} /\ Count(s, i, j) \in 10..14
  <2>1. Gaps(z, u, v) = {}
    BY <1>1, CopyGapsBack DEF GapOf
  <2>2. Count(z, u, v) \in 10..14
    BY <1>1, CopyCount
  <2>3. QED BY <2>1, <2>2 DEF Account
<1>2. ASSUME NEW a \in i..j, NEW b \in i..j,
             Gaps(s, i, j) = {a, b}, s[a] = Dash, s[b] = Dash,
             a - i \in 2..4, b - a - 1 \in 2..6, j - b \in 2..8
      PROVE  Account(z, u, v)
  <2>1. PICK e \in u..v : e = a + d
    BY DEF Copy
  <2>2. PICK f \in u..v : f = b + d
    BY DEF Copy
  <2>3. e \in Gaps(z, u, v) /\ f \in Gaps(z, u, v)
    BY <1>2, <2>1, <2>2, CopyGaps
  <2>4. ASSUME NEW k \in Gaps(z, u, v) PROVE k = e \/ k = f
    <3>0. GapOf(s, i, j, z, d, k)
      BY CopyGapsBack
    <3>1. PICK g \in Gaps(s, i, j) : g \in i..j /\ g + d = k /\ z[k] = s[g]
      BY <3>0, Zenon DEF GapOf
    <3>2. g = a \/ g = b
      BY <1>2, <3>1
    <3>3. QED BY <2>1, <2>2, <3>1, <3>2
  <2>5. Gaps(z, u, v) = {e, f}
    BY <2>3, <2>4
  <2>6. z[e] = Dash /\ z[f] = Dash
    BY <1>2, <2>1, <2>2 DEF Copy
  <2>7. e - u \in 2..4 /\ f - e - 1 \in 2..6 /\ v - f \in 2..8
    BY <1>2, <2>1, <2>2 DEF Copy
  <2>8. QED BY <2>5, <2>6, <2>7 DEF Account
<1>3. QED BY <1>1, <1>2 DEF Account

LEMMA NumberMoved ==
  ASSUME NEW s, NEW z, NEW d \in Int, NEW i \in Nat, NEW j \in Nat, i <= j,
         NEW u \in Nat, NEW v \in Nat, Copy(s, i, j, z, u, v, d),
         Alone(z, u, v), NEW pattern \in Numbers, Matches(pattern, s, i, j)
  PROVE  Matches(pattern, z, u, v)
<1>1. CASE pattern = "rrn"
  BY <1>1, RrnMoved DEF Matches
<1>2. CASE pattern = "phone"
  BY <1>2, PhoneMoved DEF Matches
<1>3. CASE pattern = "account"
  BY <1>3, AccountMoved DEF Matches
<1>4. QED BY <1>1, <1>2, <1>3 DEF Numbers

-----------------------------------------------------------------------------
(* What a substitution has put out, and what it puts together in the end.  *)

\* No number of the pattern p is in s.
Clean(s, p) == \A i, j \in DOMAIN s : i <= j => ~Matches(Order[p], s, i, j)

\* A piece of the text begins behind a mask, and not with a digit.
Border ==
    stage > 1 => IF out = <<>> THEN pos = 1
                 ELSE out[Len(out)] > 12 /\ ~Digit(text, pos)

OutClean == \A p \in 2..4 : p <= stage => Clean(out, p)

MInv == TypeOK /\ NothingLeft /\ Border /\ OutClean

\* z is the output, followed by text[pos..e] and, unless the text ends there,
\* by a mask that stands for a number.
Sewn(z, e) ==
    LET n == Len(out) + (e - pos + 1)
    IN /\ e \in Nat /\ pos - 1 <= e /\ e <= Len(text)
       /\ \A k \in 1..Len(out) : z[k] = out[k]
       /\ \A k \in pos..e : z[Len(out) + (k - pos + 1)] = text[k]
       /\ \/ e = Len(text) /\ Len(z) = n
          \/ ~Digit(text, e) /\ Len(z) = n + 1 /\ z[n + 1] > 12

LEMMA Orders ==
    /\ Len(Order) = 4 /\ Order[1] = "card"
    /\ \A p \in 2..4 : Order[p] \in Numbers /\ Order[p] # "card"
  BY DEF Order, Numbers

LEMMA CharactersAre ==
  ASSUME NEW s \in Seq(Characters)
  PROVE  /\ Len(s) \in Nat /\ DOMAIN s = 1..Len(s)
         /\ \A k \in DOMAIN s : s[k] \in Nat
<1>1. Len(s) \in Nat /\ DOMAIN s = 1..Len(s)
  OBVIOUS
<1>2. \A k \in DOMAIN s : s[k] \in Nat
  BY DEF Characters
<1>3. QED BY <1>1, <1>2

LEMMA Piece ==
  ASSUME NEW s \in Seq(Characters), NEW a \in Nat, NEW e \in Nat,
         1 <= a, a <= e + 1, e <= Len(s)
  PROVE  /\ SubSeq(s, a, e) \in Seq(Characters)
         /\ Len(SubSeq(s, a, e)) = e - a + 1
         /\ \A k \in 1..(e - a + 1) : SubSeq(s, a, e)[k] = s[a + k - 1]
<1>1. \A k \in a..e : s[k] \in Characters
  OBVIOUS
<1>2. QED BY <1>1, SubSeqProperties

\* A number of the sewn text is one of the output or one of the piece.
LEMMA SewnNumber ==
  ASSUME TypeOK, Border, stage > 1,
         NEW z \in Seq(Characters), NEW e, Sewn(z, e),
         NEW pattern \in Numbers,
         NEW i \in DOMAIN z, NEW j \in DOMAIN z, i <= j, Matches(pattern, z, i, j)
  PROVE  \/ i \in DOMAIN out /\ j \in DOMAIN out /\ Matches(pattern, out, i, j)
         \/ \E u, v \in DOMAIN text :
               u <= v /\ pos <= u /\ v <= e /\ Matches(pattern, text, u, v)
<1>1. /\ i \in Nat /\ j \in Nat /\ 1 <= i /\ j <= Len(z)
      /\ Digit(z, i) /\ Digit(z, j) /\ Alone(z, i, j)
      /\ \A k \in i..j : z[k] <= 11
  BY NumberFits
<1>2. PICK n \in Nat : n = Len(out)
  BY DEF TypeOK
<1>3. PICK c \in Nat : c = Len(text)
  BY DEF TypeOK
<1>4. /\ DOMAIN out = 1..n /\ DOMAIN text = 1..c /\ pos \in 1..c + 1
      /\ DOMAIN z = 1..Len(z) /\ Len(z) \in Nat
  BY <1>2, <1>3 DEF TypeOK
<1>5. PICK w \in Nat : w = n + (e - pos + 1)
  BY <1>2, <1>3, <1>4 DEF Sewn
<1>6. /\ e \in Nat /\ pos - 1 <= e /\ e <= c
      /\ \A k \in 1..n : z[k] = out[k]
      /\ \A k \in pos..e : z[n + (k - pos + 1)] = text[k]
      /\ \/ e = c /\ Len(z) = w
         \/ ~Digit(text, e) /\ Len(z) = w + 1 /\ z[w + 1] > 12
  BY <1>2, <1>3, <1>5 DEF Sewn
<1>7. \A k \in DOMAIN z : z[k] \in Nat
  BY CharactersAre
<1>8. CASE i <= n
  <2>1. j < n
    <3>1. SUFFICES ASSUME n <= j PROVE FALSE
      BY <1>1
    <3>2. z[n] <= 11 /\ n \in 1..n /\ n \in DOMAIN z
      BY <1>1, <1>4, <1>8, <3>1
    <3>3. out # <<>> /\ z[n] = out[n]
      BY <1>2, <1>6, <3>2
    <3>4. out[n] > 12
      BY <1>2, <3>3 DEF Border
    <3>5. QED BY <1>7, <3>2, <3>3, <3>4
  <2>2. Copy(z, i, j, out, i, j, 0)
    <3>1. \A k \in i..j : k \in DOMAIN z /\ k + 0 = k /\ k \in 1..n
      BY <1>1, <1>4, <2>1
    <3>2. \A k \in i..j : k \in DOMAIN z /\ k + 0 \in DOMAIN out /\ out[k + 0] = z[k]
      BY <1>4, <1>6, <3>1
    <3>3. i = i + 0 /\ j = j + 0
      BY <1>1
    <3>4. QED BY <3>2, <3>3 DEF Copy
  <2>3. Alone(out, i, j)
    <3>1. \A k \in 1..n : k \in DOMAIN z
      BY <1>1, <1>4, <1>5, <1>6
    <3>2. \A k \in 1..n : Digit(out, k) => Digit(z, k)
      BY <1>6, <3>1 DEF Digit
    <3>3. QED BY <1>1, <1>4, <3>2 DEF Alone, Digit
  <2>4. Matches(pattern, out, i, j)
    BY <1>1, <2>2, <2>3, NumberMoved
  <2>5. QED BY <1>1, <1>4, <1>8, <2>1, <2>4
<1>9. CASE n < i
  <2>1. j <= w
    <3>1. SUFFICES ASSUME w < j PROVE FALSE
      BY <1>1
    <3>2. j = w + 1 /\ z[j] > 12
      BY <1>1, <1>6, <3>1
    <3>3. j \in i..j /\ j \in DOMAIN z
      BY <1>1
    <3>4. QED BY <1>1, <1>7, <3>2, <3>3
  <2>2. PICK d \in Int : d = pos - 1 - n
    BY <1>4
  <2>3. PICK u \in Nat : u = i + d
    BY <1>4, <1>9, <2>2
  <2>4. PICK v \in Nat : v = j + d
    BY <1>1, <1>4, <1>9, <2>2
  <2>5. pos <= u /\ u <= v /\ v <= e /\ u \in 1..c /\ v \in 1..c
    BY <1>1, <1>4, <1>5, <1>6, <1>9, <2>1, <2>2, <2>3, <2>4
  <2>a. pos \in Nat /\ e \in Nat /\ pos <= u /\ v <= e
    <3>1. pos \in Nat
      BY <1>4
    <3>2. e \in Nat
      BY <1>6
    <3>3. QED BY <2>5, <3>1, <3>2
  <2>6. ASSUME NEW k \in pos..e
        PROVE  /\ k - d \in DOMAIN z /\ z[k - d] = text[k] /\ k \in 1..c
    <3>1. n + (k - pos + 1) = k - d
      BY <2>2, <2>a
    <3>2. k - d \in 1..Len(z) /\ k \in 1..c
      BY <1>4, <1>5, <1>6, <2>2
    <3>3. QED BY <1>4, <1>6, <3>1, <3>2
  <2>7. Copy(z, i, j, text, u, v, d)
    <3>1. ASSUME NEW k \in i..j
          PROVE  k \in DOMAIN z /\ k + d \in DOMAIN text /\ text[k + d] = z[k]
      <4>1. PICK l \in pos..e : l = k + d /\ l - d = k
        BY <1>1, <2>3, <2>4, <2>a
      <4>2. QED BY <1>4, <2>6, <4>1
    <3>2. QED BY <2>3, <2>4, <3>1 DEF Copy
  <2>8. ~Digit(text, u - 1)
    <3>1. SUFFICES ASSUME Digit(text, u - 1) PROVE FALSE
      OBVIOUS
    <3>2. u - 1 \in 1..c
      BY <1>4, <3>1 DEF Digit
    <3>3. CASE pos <= u - 1
      <4>1. PICK l \in pos..e : l = u - 1 /\ l - d = i - 1
        BY <2>3, <2>5, <2>a, <3>3
      <4>2. Digit(z, i - 1)
        BY <2>6, <3>1, <4>1 DEF Digit
      <4>3. QED BY <1>1, <4>2 DEF Alone
    <3>4. CASE pos = u
      <4>1. out # <<>>
        <5>1. pos # 1
          BY <3>2, <3>4
        <5>2. QED BY <5>1 DEF Border
      <4>2. ~Digit(text, pos)
        BY <4>1 DEF Border
      <4>3. pos \in pos..e /\ pos - d = i
        BY <2>3, <2>5, <2>a, <3>4
      <4>4. Digit(text, pos)
        BY <1>1, <1>4, <2>6, <4>3 DEF Digit
      <4>5. QED BY <4>2, <4>4
    <3>5. QED BY <1>4, <2>5, <3>3, <3>4
  <2>9. ~Digit(text, v + 1)
    <3>1. SUFFICES ASSUME Digit(text, v + 1) PROVE FALSE
      OBVIOUS
    <3>2. v + 1 \in 1..c
      BY <1>4, <3>1 DEF Digit
    <3>3. CASE v + 1 <= e
      <4>1. PICK l \in pos..e : l = v + 1 /\ l - d = j + 1
        BY <1>1, <2>4, <2>5, <2>a, <3>3
      <4>2. Digit(z, j + 1)
        BY <2>6, <3>1, <4>1 DEF Digit
      <4>3. QED BY <1>1, <4>2 DEF Alone
    <3>4. CASE v = e
      <4>1. e # c
        BY <3>2, <3>4
      <4>2. ~Digit(text, e)
        BY <1>6, <4>1
      <4>3. PICK l \in pos..e : l = e /\ l - d = j
        BY <1>1, <2>4, <2>5, <2>a, <3>4
      <4>4. Digit(text, e)
        BY <1>1, <1>4, <2>6, <4>3 DEF Digit
      <4>5. QED BY <4>2, <4>4
    <3>5. QED BY <1>6, <2>5, <3>3, <3>4
  <2>10. Alone(text, u, v)
    BY <2>8, <2>9 DEF Alone
  <2>11. Matches(pattern, text, u, v)
    BY <1>1, <2>7, <2>10, NumberMoved
  <2>12. QED BY <1>4, <2>5, <2>11
<1>10. QED BY <1>1, <1>8, <1>9

-----------------------------------------------------------------------------
(* The invariant.                                                          *)

LEMMA NoneClean == \A p : Clean(<<>>, p)
  BY DEF Clean

LEMMA InitInv == Init => MInv
<1> SUFFICES ASSUME Init PROVE MInv
  OBVIOUS
<1>1. text \in Seq(Characters) /\ out = <<>> /\ pos = 1 /\ stage = 1
  BY TextsAssumption DEF Init
<1>2. TypeOK
  <2>1. out \in Seq(Characters) /\ Len(text) \in Nat
    BY <1>1
  <2>2. pos \in 1..Len(text) + 1 /\ stage \in 1..Len(Order) + 1
    BY <1>1, <2>1, Orders
  <2>3. QED BY <1>1, <2>1, <2>2 DEF TypeOK
<1>3. NothingLeft /\ Border /\ OutClean
  BY <1>1, Orders DEF NothingLeft, Border, OutClean
<1>4. QED BY <1>2, <1>3 DEF MInv

LEMMA Concat ==
  ASSUME NEW s \in Seq(Characters), NEW t \in Seq(Characters)
  PROVE  /\ s \o t \in Seq(Characters) /\ Len(s \o t) = Len(s) + Len(t)
         /\ \A k \in 1..Len(s) : (s \o t)[k] = s[k]
         /\ \A k \in 1..Len(t) : (s \o t)[Len(s) + k] = t[k]
<1>1. /\ s \o t \in Seq(Characters) /\ Len(s \o t) = Len(s) + Len(t)
      /\ \A k \in 1..Len(s) + Len(t) : (s \o t)[k] = IF k <= Len(s) THEN s[k] ELSE t[k - Len(s)]
  BY ConcatProperties
<1>2. PICK n \in Nat, m \in Nat : n = Len(s) /\ m = Len(t)
  OBVIOUS
<1>3. PICK z : z = s \o t
  OBVIOUS
<1>4. \A k \in 1..n + m : z[k] = IF k <= n THEN s[k] ELSE t[k - n]
  BY <1>1, <1>2, <1>3
<1>5. ASSUME NEW k \in 1..n PROVE z[k] = s[k]
  <2>1. k \in 1..n + m /\ k <= n
    OBVIOUS
  <2>2. QED BY <1>4, <2>1
<1>6. ASSUME NEW k \in 1..m PROVE z[n + k] = t[k]
  <2>1. n + k \in 1..n + m /\ ~(n + k <= n) /\ n + k - n = k
    OBVIOUS
  <2>2. QED BY <1>4, <2>1
<1>7. QED BY <1>1, <1>2, <1>3, <1>5, <1>6

\* The text that is handed on is the output with the rest behind it.
LEMMA HandedOn ==
  ASSUME TypeOK
  PROVE  /\ out \o SubSeq(text, pos, Len(text)) \in Seq(Characters)
         /\ Sewn(out \o SubSeq(text, pos, Len(text)), Len(text))
<1>1. PICK q : q = SubSeq(text, pos, Len(text))
  OBVIOUS
<1>2. PICK n \in Nat, e \in Nat, b \in Nat : n = Len(out) /\ e = Len(text) /\ b = pos
  BY DEF TypeOK
<1>3. text \in Seq(Characters) /\ out \in Seq(Characters) /\ 1 <= b /\ b <= e + 1
  BY <1>2 DEF TypeOK
<1>4. PICK m \in Nat : m = e - b + 1
  BY <1>3
<1>5. /\ q \in Seq(Characters) /\ Len(q) = m
      /\ \A k \in 1..m : q[k] = text[b + k - 1]
  BY <1>1, <1>2, <1>3, <1>4, Piece
<1>6. PICK z : z = out \o q
  OBVIOUS
<1>7. /\ z \in Seq(Characters) /\ Len(z) = n + m
      /\ \A k \in 1..n : z[k] = out[k]
      /\ \A k \in 1..m : z[n + k] = q[k]
  BY <1>2, <1>3, <1>5, <1>6, Concat
<1>8. ASSUME NEW k \in b..e PROVE z[n + (k - b + 1)] = text[k]
  <2>1. PICK l \in 1..m : l = k - b + 1 /\ b + l - 1 = k
    BY <1>3, <1>4
  <2>2. QED BY <1>5, <1>7, <2>1
<1>9. b - 1 <= e
  BY <1>3
<1>10. Sewn(z, e)
  BY <1>2, <1>4, <1>7, <1>8, <1>9 DEF Sewn
<1>11. QED BY <1>1, <1>2, <1>6, <1>7, <1>10

\* The output after a replacement has a mask at its end.
LEMMA PutOut ==
  ASSUME TypeOK, NEW a \in Nat, pos <= a, a <= Len(text), ~Digit(text, a - 1),
         NEW c \in 13..16
  PROVE  /\ out \o SubSeq(text, pos, a - 1) \o <<c>> \in Seq(Characters)
         /\ out \o SubSeq(text, pos, a - 1) \o <<c>> # <<>>
         /\ (out \o SubSeq(text, pos, a - 1) \o <<c>>)
               [Len(out \o SubSeq(text, pos, a - 1) \o <<c>>)] = c
         /\ Sewn(out \o SubSeq(text, pos, a - 1) \o <<c>>, a - 1)
<1>1. PICK q : q = SubSeq(text, pos, a - 1)
  OBVIOUS
<1>2. PICK n \in Nat, l \in Nat, b \in Nat : n = Len(out) /\ l = Len(text) /\ b = pos
  BY DEF TypeOK
<1>3. /\ text \in Seq(Characters) /\ out \in Seq(Characters)
      /\ 1 <= b /\ b <= a /\ a <= l
  BY <1>2 DEF TypeOK
<1>4. PICK e \in Nat : e = a - 1
  BY <1>3
<1>5. PICK m \in Nat : m = e - b + 1
  BY <1>3, <1>4
<1>6. /\ q \in Seq(Characters) /\ Len(q) = m
      /\ \A k \in 1..m : q[k] = text[b + k - 1]
  <2>1. b <= e + 1 /\ e <= l
    BY <1>3, <1>4
  <2>2. QED BY <1>1, <1>2, <1>3, <1>4, <1>5, <2>1, Piece
<1>7. PICK y : y = out \o q
  OBVIOUS
<1>8. /\ y \in Seq(Characters) /\ Len(y) = n + m
      /\ \A k \in 1..n : y[k] = out[k]
      /\ \A k \in 1..m : y[n + k] = q[k]
  BY <1>2, <1>3, <1>6, <1>7, Concat
<1>9. PICK t : t = <<c>>
  OBVIOUS
<1>10. t \in Seq(Characters) /\ Len(t) = 1 /\ t[1] = c
  BY <1>9 DEF Characters
<1>11. PICK z : z = y \o t
  OBVIOUS
<1>12. PICK w \in Nat : w = n + m
  OBVIOUS
<1>13. /\ z \in Seq(Characters) /\ Len(z) = w + 1
       /\ \A k \in 1..w : z[k] = y[k]
       /\ z[w + 1] = c
  <2>1. /\ y \o t \in Seq(Characters) /\ Len(y \o t) = Len(y) + Len(t)
        /\ \A k \in 1..Len(y) : (y \o t)[k] = y[k]
        /\ \A k \in 1..Len(t) : (y \o t)[Len(y) + k] = t[k]
    BY <1>8, <1>10, Concat, Zenon
  <2>2. Len(y) = w /\ Len(t) = 1
    BY <1>8, <1>10, <1>12
  <2>3. /\ z \in Seq(Characters) /\ Len(z) = w + 1
        /\ \A k \in 1..w : z[k] = y[k]
        /\ \A k \in 1..1 : z[w + k] = t[k]
    BY <1>11, <2>1, <2>2, Zenon
  <2>4. QED BY <1>10, <2>3
<1>14. ASSUME NEW k \in 1..n PROVE z[k] = out[k]
  <2>1. k \in 1..w
    BY <1>12
  <2>2. QED BY <1>8, <1>13, <2>1
<1>15. ASSUME NEW k \in b..e PROVE z[n + (k - b + 1)] = text[k]
  <2>1. PICK g \in 1..m : g = k - b + 1 /\ b + g - 1 = k
    BY <1>3, <1>5
  <2>2. z[n + g] = y[n + g]
    <3>1. n + g \in 1..w
      BY <1>12
    <3>2. QED BY <1>13, <3>1
  <2>3. y[n + g] = q[g] /\ q[g] = text[b + g - 1]
    BY <1>6, <1>8
  <2>4. QED BY <2>1, <2>2, <2>3
<1>16. Sewn(z, e)
  <2>1. b - 1 <= e /\ e <= l /\ c > 12
    BY <1>3, <1>4
  <2>2. ~Digit(text, e)
    BY <1>4
  <2>3. w = n + (e - b + 1)
    BY <1>5, <1>12
  <2>4. \/ e = l /\ Len(z) = w
        \/ ~Digit(text, e) /\ Len(z) = w + 1 /\ z[w + 1] > 12
    BY <1>13, <2>1, <2>2
  <2>5. QED BY <1>2, <1>14, <1>15, <2>1, <2>3, <2>4 DEF Sewn
<1>17. z # <<>> /\ z[Len(z)] = c
  BY <1>13
<1>18. z = out \o SubSeq(text, pos, a - 1) \o <<c>>
  BY <1>1, <1>7, <1>9, <1>11
<1>19. QED BY <1>4, <1>13, <1>16, <1>17, <1>18

LEMMA Places ==
  ASSUME TypeOK
  PROVE  \E b \in Nat, l \in Nat :
            b = pos /\ l = Len(text) /\ 1 <= b /\ DOMAIN text = 1..l
  BY DEF TypeOK

LEMMA FoundIs ==
  ASSUME TypeOK, NEW m \in Found
  PROVE  /\ m[1] \in Nat /\ m[2] \in Nat /\ m = <<m[1], m[2]>>
         /\ pos <= m[1] /\ m[1] <= m[2] /\ m[2] <= Len(text)
         /\ m[1] \in DOMAIN text /\ m[2] \in DOMAIN text
         /\ Matches(Order[stage], text, m[1], m[2])
<1>1. PICK b \in Nat, l \in Nat : b = pos /\ l = Len(text) /\ 1 <= b /\ DOMAIN text = 1..l
  BY Places
<1>2. /\ m \in (b..l) \X (b..l) /\ m[1] <= m[2]
      /\ Matches(Order[stage], text, m[1], m[2])
  BY <1>1 DEF Found
<1>3. m[1] \in b..l /\ m[2] \in b..l /\ m = <<m[1], m[2]>>
  BY <1>2
<1>4. \A k \in b..l : k \in Nat /\ b <= k /\ k <= l /\ k \in 1..l
  BY <1>1
<1>5. QED BY <1>1, <1>2, <1>3, <1>4

LEMMA IsFound ==
  ASSUME TypeOK, NEW u \in DOMAIN text, NEW v \in DOMAIN text, u <= v, pos <= u,
         Matches(Order[stage], text, u, v)
  PROVE  <<u, v>> \in Found
<1>1. PICK b \in Nat, l \in Nat : b = pos /\ l = Len(text) /\ 1 <= b /\ DOMAIN text = 1..l
  BY Places
<1>2. u \in b..l /\ v \in b..l
  BY <1>1
<1>3. QED BY <1>1, <1>2 DEF Found

LEMMA MaskIs ==
  ASSUME TypeOK, stage <= Len(Order)
  PROVE  stage \in 1..4 /\ Masked[Order[stage]] \in 13..16
<1>1. stage \in 1..4
  BY Orders DEF TypeOK
<1>2. QED BY <1>1 DEF Order, Masked

\* The search finds nothing that ends at e or before.
NoneUpTo(e) == \A n \in Found : ~(n[2] <= e)

\* So what is sewn together from there is clean, of this kind and of the kinds
\* before it.
LEMMA SewnClean ==
  ASSUME MInv, stage > 1, NEW z \in Seq(Characters), NEW e, Sewn(z, e), NoneUpTo(e),
         NEW p \in 2..4, p <= stage
  PROVE  Clean(z, p)
<1> SUFFICES ASSUME NEW i \in DOMAIN z, NEW j \in DOMAIN z, i <= j,
                    Matches(Order[p], z, i, j)
             PROVE  FALSE
  BY DEF Clean
<1>1. Order[p] \in Numbers
  BY Orders
<1>2. \/ i \in DOMAIN out /\ j \in DOMAIN out /\ Matches(Order[p], out, i, j)
      \/ \E u, v \in DOMAIN text :
            u <= v /\ pos <= u /\ v <= e /\ Matches(Order[p], text, u, v)
  BY <1>1, SewnNumber DEF MInv
<1>3. CASE i \in DOMAIN out /\ j \in DOMAIN out /\ Matches(Order[p], out, i, j)
  BY <1>3 DEF MInv, OutClean, Clean
<1>4. ASSUME NEW u \in DOMAIN text, NEW v \in DOMAIN text,
             u <= v, pos <= u, v <= e, Matches(Order[p], text, u, v)
      PROVE  FALSE
  <2>1. CASE stage > p
    <3>1. p \in 2..Len(Order)
      BY Orders
    <3>2. QED BY <1>4, <2>1, <3>1 DEF MInv, NothingLeft
  <2>2. CASE p = stage
    <3>1. <<u, v>> \in Found
      BY <1>4, <2>2, IsFound DEF MInv
    <3>2. QED BY <1>4, <3>1 DEF NoneUpTo
  <2>3. stage \in Nat
    BY Orders DEF MInv, TypeOK
  <2>4. QED BY <2>1, <2>2, <2>3
<1>5. QED BY <1>2, <1>3, <1>4

LEMMA ReplaceTypes ==
  ASSUME TypeOK, Replace
  PROVE  TypeOK'
<1>1. PICK m \in Found :
         LET span == SubSeq(text, m[1], m[2])
             kept == Order[stage] = "card" /\ ~Luhn(span)
         IN /\ Leftmost(m)
            /\ out' = out \o SubSeq(text, pos, m[1] - 1)
                          \o IF kept THEN span ELSE <<Masked[Order[stage]]>>
            /\ pos' = m[2] + 1
  BY DEF Replace
<1>2. PICK b \in Nat, l \in Nat, i \in Nat, j \in Nat :
         /\ b = pos /\ l = Len(text) /\ i = m[1] /\ j = m[2]
         /\ 1 <= b /\ b <= i /\ i <= j /\ j <= l
  BY FoundIs DEF TypeOK
<1>3. PICK c \in 13..16 : c = Masked[Order[stage]]
  BY MaskIs DEF Replace
<1>4. text \in Seq(Characters) /\ out \in Seq(Characters)
  BY DEF TypeOK
<1>5. SubSeq(text, pos, m[1] - 1) \in Seq(Characters)
  <2>1. PICK e \in Nat : e = i - 1 /\ b <= e + 1 /\ e <= l
    BY <1>2
  <2>2. SubSeq(text, b, e) \in Seq(Characters)
    BY <1>2, <1>4, <2>1, Piece
  <2>3. QED BY <1>2, <2>1, <2>2
<1>6. SubSeq(text, m[1], m[2]) \in Seq(Characters)
  <2>1. 1 <= i /\ i <= j + 1
    BY <1>2
  <2>2. SubSeq(text, i, j) \in Seq(Characters)
    BY <1>2, <1>4, <2>1, Piece
  <2>3. QED BY <1>2, <2>2
<1>7. <<c>> \in Seq(Characters)
  BY DEF Characters
<1>8. out \o SubSeq(text, pos, m[1] - 1) \in Seq(Characters)
  BY <1>4, <1>5, Concat
<1>9. out' \in Seq(Characters)
  <2>1. PICK r : r = IF Order[stage] = "card" /\ ~Luhn(SubSeq(text, m[1], m[2]))
                     THEN SubSeq(text, m[1], m[2]) ELSE <<c>>
    OBVIOUS
  <2>2. r \in Seq(Characters)
    BY <1>6, <1>7, <2>1, Zenon
  <2>3. out' = (out \o SubSeq(text, pos, m[1] - 1)) \o r
    BY <1>1, <1>3, <2>1, Zenon
  <2>4. (out \o SubSeq(text, pos, m[1] - 1)) \o r \in Seq(Characters)
    BY <1>8, <2>2, Concat, Zenon
  <2>5. QED BY <2>3, <2>4, Zenon
<1>10. pos' \in 1..l + 1
  <2>1. pos' = j + 1
    BY <1>1, <1>2, Zenon
  <2>2. j + 1 \in 1..l + 1
    BY <1>2
  <2>3. QED BY <2>1, <2>2
<1>11. text' = text /\ stage' = stage
  BY DEF Replace
<1>12. QED BY <1>2, <1>4, <1>9, <1>10, <1>11 DEF TypeOK

LEMMA ReplaceKeeps ==
  ASSUME MInv, Replace, stage > 1
  PROVE  MInv'
<1>1. TypeOK /\ TypeOK'
  BY ReplaceTypes DEF MInv
<1>2. PICK m \in Found :
         LET span == SubSeq(text, m[1], m[2])
             kept == Order[stage] = "card" /\ ~Luhn(span)
         IN /\ Leftmost(m)
            /\ out' = out \o SubSeq(text, pos, m[1] - 1)
                          \o IF kept THEN span ELSE <<Masked[Order[stage]]>>
            /\ pos' = m[2] + 1
  BY DEF Replace
<1>3. PICK c \in 13..16 : c = Masked[Order[stage]]
  BY <1>1, MaskIs DEF Replace
<1>4. stage \in 2..4 /\ Order[stage] \in Numbers /\ Order[stage] # "card"
  <2>1. stage \in 2..4
    BY <1>1, MaskIs DEF Replace
  <2>2. QED BY <2>1, Orders
<1>5. PICK a \in Nat, j \in Nat :
         /\ a = m[1] /\ j = m[2] /\ a \in DOMAIN text /\ j \in DOMAIN text
         /\ pos <= a /\ a <= j /\ a <= Len(text) /\ Matches(Order[stage], text, a, j)
  <2>1. /\ m[1] \in Nat /\ m[2] \in Nat /\ pos <= m[1] /\ m[1] <= m[2]
        /\ m[1] \in DOMAIN text /\ m[2] \in DOMAIN text
        /\ Matches(Order[stage], text, m[1], m[2])
    BY <1>1, FoundIs
  <2>2. m[1] <= Len(text)
    BY <1>1, <2>1 DEF TypeOK
  <2>3. QED BY <2>1, <2>2
<1>6. Alone(text, a, j)
  BY <1>1, <1>4, <1>5, NumberFits DEF TypeOK
<1>7. out' = out \o SubSeq(text, pos, a - 1) \o <<c>>
  BY <1>2, <1>3, <1>4, <1>5
<1>8. /\ out' \in Seq(Characters) /\ out' # <<>> /\ out'[Len(out')] = c
      /\ Sewn(out', a - 1)
  <2>1. ~Digit(text, a - 1)
    BY <1>6 DEF Alone
  <2>2. /\ out \o SubSeq(text, pos, a - 1) \o <<c>> \in Seq(Characters)
        /\ out \o SubSeq(text, pos, a - 1) \o <<c>> # <<>>
        /\ (out \o SubSeq(text, pos, a - 1) \o <<c>>)
              [Len(out \o SubSeq(text, pos, a - 1) \o <<c>>)] = c
        /\ Sewn(out \o SubSeq(text, pos, a - 1) \o <<c>>, a - 1)
    BY <1>1, <1>5, <2>1, PutOut
  <2>3. QED BY <1>7, <2>2
<1>9. NoneUpTo(a - 1)
  <2>1. ASSUME NEW n \in Found, n[2] <= a - 1 PROVE FALSE
    <3>1. n[1] \in Nat /\ n[2] \in Nat /\ n[1] <= n[2]
      BY <1>1, FoundIs
    <3>2. a <= n[1]
      BY <1>2, <1>5, <3>1 DEF Leftmost
    <3>3. QED BY <2>1, <3>1, <3>2
  <2>2. QED BY <2>1 DEF NoneUpTo
<1>10. UNCHANGED <<text, stage>>
  BY DEF Replace
<1>11. OutClean'
  <2>1. ASSUME NEW p \in 2..4, p <= stage PROVE Clean(out', p)
    BY <1>8, <1>9, <2>1, SewnClean
  <2>2. QED BY <1>10, <2>1 DEF OutClean
<1>12. Border'
  <2>1. pos' = j + 1 /\ ~Digit(text, j + 1)
    BY <1>2, <1>5, <1>6 DEF Alone
  <2>2. ~Digit(text', pos')
    BY <1>10, <2>1
  <2>3. out'[Len(out')] > 12
    BY <1>8
  <2>4. QED BY <1>8, <2>2, <2>3 DEF Border
<1>13. NothingLeft'
  BY <1>10 DEF MInv, NothingLeft
<1>14. QED BY <1>1, <1>11, <1>12, <1>13 DEF MInv

\* Nothing is promised yet while the pattern of cards has its turn.
LEMMA CardReplaceKeeps ==
  ASSUME MInv, Replace, ~(stage > 1)
  PROVE  MInv'
<1>1. TypeOK'
  BY ReplaceTypes DEF MInv
<1>2. stage' = stage /\ stage \in Nat /\ stage <= 1
  <2>1. stage' = stage
    BY DEF Replace
  <2>2. stage \in 1..5
    BY Orders DEF MInv, TypeOK
  <2>3. QED BY <2>1, <2>2
<1>3. NothingLeft' /\ OutClean' /\ Border'
  BY <1>2, Orders DEF NothingLeft, OutClean, Border
<1>4. QED BY <1>1, <1>3 DEF MInv

LEMMA NextPatternKeeps ==
  ASSUME MInv, NextPattern
  PROVE  MInv'
<1>1. /\ stage <= Len(Order) /\ Found = {} /\ stage' = stage + 1
      /\ text' = out \o SubSeq(text, pos, Len(text)) /\ out' = <<>> /\ pos' = 1
  BY DEF NextPattern
<1>2. TypeOK
  BY DEF MInv
<1>3. stage \in 1..4
  BY <1>1, <1>2, MaskIs
<1>4. text' \in Seq(Characters) /\ Sewn(text', Len(text))
  BY <1>1, <1>2, HandedOn
<1>5. TypeOK'
  <2>1. out' \in Seq(Characters)
    BY <1>1
  <2>2. stage' \in 1..Len(Order) + 1
    BY <1>1, <1>3, Orders
  <2>3. pos' \in 1..Len(text') + 1
    BY <1>1, <1>4
  <2>4. QED BY <1>4, <2>1, <2>2, <2>3 DEF TypeOK
<1>6. NothingLeft'
  <2>1. ASSUME NEW p \in 2..4, stage' > p PROVE Clean(text', p)
    <3>1. stage > 1 /\ p <= stage
      BY <1>1, <1>3, <2>1
    <3>2. NoneUpTo(Len(text))
      BY <1>1 DEF NoneUpTo
    <3>3. QED BY <1>4, <3>1, <3>2, SewnClean
  <2>2. QED BY <2>1, Orders DEF NothingLeft, Clean
<1>7. OutClean' /\ Border'
  BY <1>1, NoneClean DEF OutClean, Border
<1>8. QED BY <1>5, <1>6, <1>7 DEF MInv

LEMMA StepInv == MInv /\ [Next]_vars => MInv'
<1> SUFFICES ASSUME MInv, [Next]_vars PROVE MInv'
  OBVIOUS
<1>1. CASE Replace
  BY <1>1, ReplaceKeeps, CardReplaceKeeps
<1>2. CASE NextPattern
  BY <1>2, NextPatternKeeps
<1>3. CASE UNCHANGED vars
  BY <1>3 DEF vars, MInv, TypeOK, NothingLeft, Border, OutClean
<1>4. QED BY <1>1, <1>2, <1>3 DEF Next

-----------------------------------------------------------------------------
(* The theorems.                                                           *)

\* The invariant holds in every state: what is put out is already without the
\* numbers of the pattern at work and of those before it, and a pattern that
\* looks at both sides goes on behind a mask and in front of no digit.
THEOREM MaskInvariance == Spec => []MInv
<1>1. Init => MInv
  BY InitInv
<1>2. MInv /\ [Next]_vars => MInv'
  BY StepInv
<1>3. QED BY <1>1, <1>2, PTL DEF Spec

\* Whatever mask() is called with, its substitutions stay within the text they
\* are given and put out characters and masks only.
THEOREM MaskTypeCorrect == Spec => []TypeOK
<1>1. MInv => TypeOK
  BY DEF MInv
<1>2. QED BY <1>1, MaskInvariance, PTL

\* In no text does mask() leave a resident number, a phone number or an account
\* number behind, neither its own output nor that of a later pattern included.
THEOREM NothingIsLeft == Spec => []NothingLeft
<1>1. MInv => NothingLeft
  BY DEF MInv
<1>2. QED BY <1>1, MaskInvariance, PTL

\* A lone card number is a match.
LEMMA LoneCardMatches ==
  ASSUME NEW i \in DOMAIN text, NEW j \in DOMAIN text, LoneCard(i, j)
  PROVE  Matches("card", text, i, j)
  BY DEF LoneCard, Matches, Card, Alone

\* A match that begins before a lone card number ends before it.
LEMMA EndsBefore ==
  ASSUME TypeOK, NEW i \in DOMAIN text, NEW j \in DOMAIN text, LoneCard(i, j),
         NEW a \in Nat, NEW e \in Nat, a < i, Card(text, a, e)
  PROVE  e < i
<1> SUFFICES ASSUME i <= e PROVE FALSE
  <2>1. i \in Nat
    BY DEF TypeOK
  <2>2. QED BY <2>1
<1>1. i \in Nat
  BY DEF TypeOK
<1>2. PICK f \in Nat, g \in Int : f = i - 1 /\ g = i - 2 /\ f - 1 = g /\ g + 1 = f
  BY <1>1
<1>3. ~Digit(text, f) /\ ~(Separator(text, f) /\ Digit(text, g))
  BY <1>2 DEF LoneCard, Alone
<1>4. /\ Digit(text, a)
      /\ \A k \in Gaps(text, a, e) : Separator(text, k) /\ Digit(text, k + 1)
  BY DEF Card
<1>5. a # f
  BY <1>3, <1>4
<1>6. f \in a..e /\ g \in a..e
  BY <1>1, <1>2, <1>5
<1>7. Separator(text, f)
  BY <1>3, <1>4, <1>6 DEF Gaps
<1>8. g \in Gaps(text, a, e)
  BY <1>3, <1>6, <1>7 DEF Gaps
<1>9. Digit(text, f)
  BY <1>2, <1>4, <1>8
<1>10. QED BY <1>3, <1>9

\* A match that begins with it and is as long at least is the number.
LEMMA EndsWith ==
  ASSUME TypeOK, NEW i \in DOMAIN text, NEW j \in DOMAIN text, i <= j, LoneCard(i, j),
         NEW e \in Nat, j <= e, Card(text, i, e)
  PROVE  e = j
<1> SUFFICES ASSUME j < e PROVE FALSE
  <2>1. j \in Nat
    BY DEF TypeOK
  <2>2. QED BY <2>1
<1>1. i \in Nat /\ j \in Nat
  BY DEF TypeOK
<1>2. PICK f \in Nat : f = j + 1 /\ f + 1 = j + 2
  BY <1>1
<1>3. ~Digit(text, f) /\ ~(Separator(text, f) /\ Digit(text, f + 1))
  BY <1>2 DEF LoneCard, Alone
<1>4. f \in i..e
  BY <1>1, <1>2
<1>5. f \in Gaps(text, i, e)
  BY <1>3, <1>4 DEF Gaps
<1>6. Separator(text, f) /\ Digit(text, f + 1)
  BY <1>5 DEF Card
<1>7. QED BY <1>3, <1>6

\* The replacement function puts out a mask for it.
LEMMA CardPutOut ==
  ASSUME TypeOK, stage = 1,
         NEW a \in DOMAIN text, NEW e \in DOMAIN text, pos <= a, a <= e, Luhn(SubSeq(text, a, e)),
         out' = out \o SubSeq(text, pos, a - 1)
                    \o IF Order[stage] = "card" /\ ~Luhn(SubSeq(text, a, e))
                       THEN SubSeq(text, a, e) ELSE <<Masked[Order[stage]]>>
  PROVE  out'[Len(out')] = Masked.card
<1>1. PICK b \in Nat, l \in Nat :
         b = pos /\ l = Len(text) /\ 1 <= b /\ DOMAIN text = 1..l
  BY Places
<1>2. PICK f \in Nat : f = a - 1 /\ b <= f + 1 /\ f <= l
  BY <1>1
<1>3. text \in Seq(Characters) /\ out \in Seq(Characters)
  BY DEF TypeOK
<1>4. SubSeq(text, pos, a - 1) \in Seq(Characters)
  <2>1. SubSeq(text, b, f) \in Seq(Characters)
    BY <1>1, <1>2, <1>3, Piece
  <2>2. QED BY <1>1, <1>2, <2>1
<1>5. PICK y : y = out \o SubSeq(text, pos, a - 1)
  OBVIOUS
<1>6. y \in Seq(Characters)
  BY <1>3, <1>4, <1>5, Concat
<1>7. Masked[Order[stage]] = 13 /\ Masked.card = 13
  BY DEF Order, Masked
<1>8. PICK t : t = <<13>>
  OBVIOUS
<1>9. t \in Seq(Characters) /\ Len(t) = 1 /\ t[1] = 13
  BY <1>8 DEF Characters
<1>10. out' = y \o t
  BY <1>5, <1>7, <1>8
<1>11. /\ y \o t \in Seq(Characters) /\ Len(y \o t) = Len(y) + Len(t)
       /\ \A k \in 1..Len(t) : (y \o t)[Len(y) + k] = t[k]
  BY <1>6, <1>9, Concat, Zenon
<1>12. Len(out') = Len(y) + 1 /\ out'[Len(y) + 1] = 13
  <2>1. 1 \in 1..1
    OBVIOUS
  <2>2. QED BY <1>9, <1>10, <1>11, <2>1, Zenon
<1>13. QED BY <1>7, <1>12

\* Wherever a lone card number stands and whatever stands around it, the pattern
\* of cards replaces what is before it and then the number, as a whole.
THEOREM LoneCardsMasked == Spec => LoneCardMasked
<1>1. ASSUME TypeOK, [Next]_vars
      PROVE  [\A i, j \in DOMAIN text :
                 stage = 1 /\ i <= j /\ pos <= i /\ LoneCard(i, j) =>
                     /\ stage' = 1
                     /\ pos' <= i \/ (pos' = j + 1 /\ out'[Len(out')] = Masked.card)]_vars
  <2> SUFFICES ASSUME Next, NEW i \in DOMAIN text, NEW j \in DOMAIN text,
                      stage = 1, i <= j, pos <= i, LoneCard(i, j)
               PROVE  /\ stage' = 1
                      /\ pos' <= i \/ (pos' = j + 1 /\ out'[Len(out')] = Masked.card)
    BY <1>1
  <2>1. Order[stage] = "card"
    BY Orders
  <2>2. <<i, j>> \in Found
    BY <1>1, <2>1, LoneCardMatches, IsFound
  <2>3. ~NextPattern
    BY <2>2 DEF NextPattern
  <2>4. Replace
    BY <2>3 DEF Next
  <2>5. PICK m \in Found :
           LET span == SubSeq(text, m[1], m[2])
               kept == Order[stage] = "card" /\ ~Luhn(span)
           IN /\ Leftmost(m)
              /\ out' = out \o SubSeq(text, pos, m[1] - 1)
                            \o IF kept THEN span ELSE <<Masked[Order[stage]]>>
              /\ pos' = m[2] + 1
    BY <2>4 DEF Replace
  <2>6. PICK a \in Nat, e \in Nat :
           /\ a = m[1] /\ e = m[2] /\ a <= e /\ a \in DOMAIN text /\ e \in DOMAIN text
           /\ pos <= a /\ Matches(Order[stage], text, a, e)
    BY <1>1, FoundIs
  <2>7. Card(text, a, e)
    BY <2>1, <2>6 DEF Matches
  <2>8. a < i \/ (a = i /\ e >= j)
    BY <2>2, <2>5, <2>6 DEF Leftmost
  <2>9. stage' = 1 /\ pos' = e + 1
    BY <2>4, <2>5, <2>6 DEF Replace
  <2>10. i \in Nat /\ j \in Nat
    BY <1>1 DEF TypeOK
  <2>11. CASE a < i
    <3>1. e < i
      BY <1>1, <2>7, <2>11, EndsBefore
    <3>2. QED BY <2>6, <2>9, <2>10, <3>1
  <2>12. CASE a = i /\ e >= j
    <3>1. e = j
      BY <1>1, <2>7, <2>10, <2>12, EndsWith
    <3>2. Luhn(SubSeq(text, a, e))
      BY <2>12, <3>1 DEF LoneCard
    <3>3. out' = out \o SubSeq(text, pos, a - 1)
                     \o IF Order[stage] = "card" /\ ~Luhn(SubSeq(text, a, e))
                        THEN SubSeq(text, a, e) ELSE <<Masked[Order[stage]]>>
      BY <2>5, <2>6
    <3>4. out'[Len(out')] = Masked.card
      BY <1>1, <2>6, <3>2, <3>3, CardPutOut
    <3>5. QED BY <2>9, <3>1, <3>4
  <2>13. QED BY <2>8, <2>11, <2>12
<1>2. QED BY <1>1, MaskTypeCorrect, PTL DEF Spec, LoneCardMasked

=============================================================================

------------------------------ MODULE PiiMask ------------------------------
(***************************************************************************)
(* mask() of the regular expressions: the patterns card, rrn, phone and    *)
(* account one after the other, each replacing its matches from left to    *)
(* right. A pattern looks at digits, separators and what is around them,   *)
(* so any other character is the same to it.                               *)
(*                                                                         *)
(* Source: src/lib/pii_regex.py.                                           *)
(***************************************************************************)
EXTENDS Naturals, Sequences, FiniteSetsExt

CONSTANT Texts  \* what mask() is called with

\* Characters: the digits are 0..9.
Space == 10
Dash == 11
Letter == 12
Masked == [card |-> 13, rrn |-> 14, phone |-> 15, account |-> 16]
Characters == 0..16

ASSUME TextsAssumption == Texts \subseteq Seq(Characters)

Order == <<"card", "rrn", "phone", "account">>

VARIABLES
    text,   \* input of the present pattern
    out,    \* what its substitution has put out so far
    pos,    \* where it looks for the next match
    stage   \* index of the pattern in Order

vars == <<text, out, pos, stage>>

-----------------------------------------------------------------------------
(* The patterns: s[i..j] is a match.                                       *)

Digit(s, i) == i \in DOMAIN s /\ s[i] <= 9
Separator(s, i) == i \in DOMAIN s /\ s[i] \in {Space, Dash}
Gaps(s, i, j) == {k \in i..j : ~Digit(s, k)}
Count(s, i, j) == Cardinality({k \in i..j : Digit(s, k)})

\* Mutant of Alone: the lookahead is forgotten.
NothingBefore(s, i, j) == ~Digit(s, i - 1)

Alone(s, i, j) == ~Digit(s, i - 1) /\ ~Digit(s, j + 1)

\* Mutant of Card: one repetition too few.
CardOfEighteen(s, i, j) ==
    /\ ~Digit(s, i - 1) /\ Digit(s, i) /\ Digit(s, j)
    /\ \A k \in Gaps(s, i, j) : Separator(s, k) /\ Digit(s, k + 1)
    /\ Count(s, i, j) \in 13..18

\* A digit, then 12 to 18 more with at most one separator before each.
Card(s, i, j) ==
    /\ ~Digit(s, i - 1) /\ Digit(s, i) /\ Digit(s, j)
    /\ \A k \in Gaps(s, i, j) : Separator(s, k) /\ Digit(s, k + 1)
    /\ Count(s, i, j) \in 13..19

Rrn(s, i, j) ==
    /\ Alone(s, i, j) /\ Count(s, i, j) = 13
    /\ Gaps(s, i, j) \in {{}, {i + 6}} /\ \A k \in Gaps(s, i, j) : s[k] = Dash

Phone(s, i, j) ==
    /\ Alone(s, i, j) /\ Count(s, i, j) \in {10, 11}
    /\ Gaps(s, i, j) \subseteq {i + 3, j - 4} /\ \A k \in Gaps(s, i, j) : Separator(s, k)
    /\ s[i] = 0 /\ s[i + 1] = 1 /\ s[i + 2] \in {0, 1, 6, 7, 8, 9}

Account(s, i, j) ==
    /\ Alone(s, i, j)
    /\ \/ Gaps(s, i, j) = {} /\ Count(s, i, j) \in 10..14
       \/ \E a, b \in i..j :
             /\ Gaps(s, i, j) = {a, b} /\ s[a] = Dash /\ s[b] = Dash
             /\ a - i \in 2..4 /\ b - a - 1 \in 2..6 /\ j - b \in 2..8

Matches(pattern, s, i, j) ==
    \/ pattern = "card" /\ Card(s, i, j)
    \/ pattern = "rrn" /\ Rrn(s, i, j)
    \/ pattern = "phone" /\ Phone(s, i, j)
    \/ pattern = "account" /\ Account(s, i, j)

\* The checksum of _luhn_valid. Every second digit from the right is doubled.
Weighted(d, place) == IF place % 2 = 0 THEN d ELSE IF 2 * d > 9 THEN 2 * d - 9 ELSE 2 * d
Luhn(span) ==
    LET s == SelectSeq(span, LAMBDA c : c <= 9)
    IN MapThenSumSet(LAMBDA i : Weighted(s[i], Len(s) - i), DOMAIN s) % 10 = 0

-----------------------------------------------------------------------------
(* One substitution after the other.                                       *)

Found == {m \in (pos..Len(text)) \X (pos..Len(text)) :
             m[1] <= m[2] /\ Matches(Order[stage], text, m[1], m[2])}

\* The leftmost match, and of those the longest: every repetition is greedy.
Leftmost(m) == \A n \in Found : m[1] < n[1] \/ (m[1] = n[1] /\ m[2] >= n[2])

\* One call of a replacement function. A span that fails the checksum is put
\* out as it is, and the search goes on behind it.
Replace ==
    /\ stage <= Len(Order)
    /\ \E m \in Found :
          LET span == SubSeq(text, m[1], m[2])
              kept == Order[stage] = "card" /\ ~Luhn(span)
          IN /\ Leftmost(m)
             /\ out' = out \o SubSeq(text, pos, m[1] - 1)
                           \o IF kept THEN span ELSE <<Masked[Order[stage]]>>
             /\ pos' = m[2] + 1
    /\ UNCHANGED <<text, stage>>

NextPattern ==
    /\ stage <= Len(Order) /\ Found = {}
    /\ text' = out \o SubSeq(text, pos, Len(text))
    /\ out' = <<>> /\ pos' = 1
    /\ stage' = stage + 1

Init == text \in Texts /\ out = <<>> /\ pos = 1 /\ stage = 1

Next == Replace \/ NextPattern

Spec == Init /\ [][Next]_vars

-----------------------------------------------------------------------------
(* Properties.                                                             *)

TypeOK ==
    /\ text \in Seq(Characters) /\ out \in Seq(Characters)
    /\ stage \in 1..Len(Order) + 1
    /\ pos \in 1..Len(text) + 1

\* No resident number, phone number or account number is left once its pattern
\* has had its turn: neither beside what was replaced, where the lookarounds
\* now see a mask instead of a digit, nor by what later patterns replace.
NothingLeft ==
    \A p \in 2..Len(Order) : stage > p =>
        \A i, j \in DOMAIN text : i <= j => ~Matches(Order[p], text, i, j)

\* A card number with a valid checksum and no other number joined to it by a
\* separator.
LoneCard(i, j) ==
    /\ Digit(text, i) /\ Digit(text, j) /\ Count(text, i, j) \in 13..19
    /\ \A k \in Gaps(text, i, j) :
          Separator(text, k) /\ Digit(text, k - 1) /\ Digit(text, k + 1)
    /\ Alone(text, i, j)
    /\ ~(Separator(text, i - 1) /\ Digit(text, i - 2))
    /\ ~(Separator(text, j + 1) /\ Digit(text, j + 2))
    /\ Luhn(SubSeq(text, i, j))

\* Such a number is masked, as a whole and as a card, whatever stands around
\* it: no match before it reaches into it and none passes it over.
LoneCardMasked ==
    [][\A i, j \in DOMAIN text :
          stage = 1 /\ i <= j /\ pos <= i /\ LoneCard(i, j) =>
              /\ stage' = 1
              /\ pos' <= i \/ (pos' = j + 1 /\ out'[Len(out')] = Masked.card)]_vars

-----------------------------------------------------------------------------
(* What a test says and the code does not do.                              *)

\* test_pii_regex.py: a card number is masked as one even if a short number
\* stands before it.
CardIsMasked == stage > Len(Order) => \E i \in DOMAIN text : text[i] = Masked.card

=============================================================================

----------------------------- MODULE MCPiiMask -----------------------------
(***************************************************************************)
(* Values of the constants of PiiMask for TLC. The card number is that of  *)
(* tests/unit/test_pii_regex.py.                                           *)
(***************************************************************************)
EXTENDS PiiMask

Groups == <<<<4, 5, 3, 2>>, <<0, 1, 5, 1>>, <<1, 2, 8, 3>>, <<0, 3, 6, 6>>>>
Join(gap) == Groups[1] \o gap \o Groups[2] \o gap \o Groups[3] \o gap \o Groups[4]

\* The card number in three notations, behind nothing, a word, and a short
\* number with a space: a zero, as in the test, or a one.
MCCardTexts ==
    {before \o card \o after :
        before \in {<<>>, <<Letter, Space>>, <<0, Space>>, <<1, Space>>},
        card \in {Join(<<>>), Join(<<Space>>), Join(<<Dash>>)},
        after \in {<<>>, <<Space, Letter>>}}

\* A card number of 19 digits, a phone number with dashes and without, a
\* resident number, an account number of each notation, a short number, and
\* what may stand between them.
Pieces ==
    {Join(<<Dash>>), <<4, 0, 0, 0, 0, 0, 0, 0, 0, 0, 0, 0, 0, 0, 0, 0, 0, 0, 6>>,
     <<0, 1, 0, Dash, 1, 2, 3, 4, Dash, 5, 6, 7, 8>>, <<0, 1, 0, 1, 2, 3, 4, 5, 6, 7, 8>>,
     <<9, 0, 0, 1, 0, 1, Dash, 1, 2, 3, 4, 5, 6, 7>>,
     <<1, 1, 0, Dash, 1, 2, 3, Dash, 4, 5, 6>>, <<1, 1, 0, 1, 2, 3, 4, 5, 6, 7, 8, 9>>,
     <<1, 2>>, <<Space>>, <<Dash>>, <<Letter>>}

MCTexts == {a \o b \o c : a, b, c \in Pieces}
=============================================================================

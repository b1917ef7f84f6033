--------------------------- MODULE MCReviewPanel ---------------------------
(***************************************************************************)
(* Values of the constants of ReviewPanel for TLC: the roster of           *)
(* run-panel.sh and two of the four lenses.                                *)
(***************************************************************************)
EXTENDS ReviewPanel

MCCodex == "codex"
MCKiroModels == {"kiro-opus", "kiro-gpt"}
MCLenses == {"L2", "L3"}
=============================================================================

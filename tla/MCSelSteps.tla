----------------------------- MODULE MCSelSteps -----------------------------
(* Writers of a small log, statement by statement.                         *)
EXTENDS SelSteps
=============================================================================

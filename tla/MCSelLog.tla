------------------------------ MODULE MCSelLog ------------------------------
(* The log with its handlers, checked also against EventLog.               *)
EXTENDS SelRefines
=============================================================================

---------------------------- MODULE MCSelReaders ----------------------------
(* One client walks, or one thread lists, a small log among its writers.   *)
EXTENDS SelReaders
=============================================================================

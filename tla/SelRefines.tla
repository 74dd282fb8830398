----------------------------- MODULE SelRefines -----------------------------
(***************************************************************************)
(* SelLog implements EventLog as long as stores succeed.  EventLog does    *)
(* not promise that an event is accepted: a log that deletes of the empty  *)
(* log have taken below zero is an empty one here that takes no event,     *)
(* although from -2 on it answers success.                                 *)
(***************************************************************************)
EXTENDS SelLog

Abstract == INSTANCE EventLog WITH events <- EventsOf(log)

(* The handlers, the markers and the restart of SelLog appear outside as   *)
(* the steps of EventLog.                                                  *)
ImplementsEventLog == Abstract!LogSpec
=============================================================================

------------------------------ MODULE EventLog ------------------------------
(***************************************************************************)
(* What the System Event Log promises: a bounded sequence of events.  An   *)
(* event is appended, an event is removed, or everything is replaced by a  *)
(* note that the log was cleared.  The event that leaves one free place is *)
(* followed by a note that the log is full.  A restart of the controller   *)
(* is invisible.                                                           *)
(***************************************************************************)
EXTENDS Integers, Sequences

CONSTANTS RecordsMax, Events, FullMark, ClearMark

VARIABLE events

LogInit == events = <<>>

AppendEvent(ev) ==
  /\ Len(events) < RecordsMax
  /\ events' = IF Len(events) = RecordsMax - 2
               THEN events \o <<ev, FullMark>>
               ELSE Append(events, ev)

RemoveEvent(k) ==
  events' = [j \in 1 .. Len(events) - 1 |->
               IF j < k THEN events[j] ELSE events[j + 1]]

ClearEvents == events' = <<ClearMark>>

LogNext ==
  \/ \E ev \in Events : AppendEvent(ev)
  \/ \E k \in 1 .. Len(events) : RemoveEvent(k)
  \/ ClearEvents

LogSpec == LogInit /\ [][LogNext]_events
=============================================================================

----------------------------- MODULE SelDurable -----------------------------
(***************************************************************************)
(* What Add SEL Entry owes its caller when stores into sel.bin may fail    *)
(* and the controller may restart at any time.                             *)
(*                                                                         *)
(* "owed" maps the places of acknowledged, not since deleted or cleared    *)
(* records to their events.  "kept" are the places of those whose stores   *)
(* reached the file; the others were acknowledged although fclose lost     *)
(* them.  "synced" is FALSE from a delete that did not reach the file to   *)
(* the next one that does, clear or restart: the code then shifts the      *)
(* cache but not the file, and answers success; a restart may bring back   *)
(* the deleted record and lose another one that was acknowledged and never *)
(* deleted.  All three are history variables.                              *)
(***************************************************************************)
EXTENDS SelLog

VARIABLES owed, kept, synced

durVars == <<vars, owed, kept, synced>>

NoneOwed == [s \in {} |-> Blank]

DurInit == Init /\ owed = NoneOwed /\ kept = {} /\ synced = TRUE

(* A record accepted in front of the array is found by no reader, and is   *)
(* not counted as owed (NegativeUntilCleared says when this happens).      *)
Add(ev) ==
  /\ enabled
  /\ \E o \in AddEntry(log, file, ev) :
       /\ Accept(o)
       /\ owed' = IF o.ok /\ log.end \in Slots
                  THEN [s \in DOMAIN owed \cup {log.end} |->
                          IF s = log.end THEN ev ELSE owed[s]]
                  ELSE owed
       /\ kept' = IF o.kept /\ log.end \in Slots THEN kept \cup {log.end} ELSE kept
  /\ UNCHANGED <<enabled, synced>>

OtherAdd ==
  /\ \E ev \in Events : PlatformEvent(ev) \/ InternalEvent(ev)
  /\ UNCHANGED <<owed, kept, synced>>

(* A delete that reaches the file stores every record there. *)
Delete(id) ==
  LET gone    == IF id < log.end THEN id ELSE log.end - 1
      from(s) == IF s < gone THEN s ELSE s + 1
  IN  /\ StorageDelSelEntry(id)
      /\ owed' = [s \in {t \in Slots : from(t) \in DOMAIN owed} |-> owed[from(s)]]
      /\ synced' = SameEvents(file', log')
      /\ kept' = DOMAIN owed'

ClearOwed ==
  /\ StorageClrSel(rsvId)
  /\ owed' = NoneOwed
  /\ kept' = {}
  /\ synced' = TRUE

RebootOwing ==
  /\ Restart
  /\ owed' = [s \in (IF synced THEN kept ELSE {}) |-> owed[s]]
  /\ kept' = DOMAIN owed'
  /\ synced' = TRUE

DurNext ==
  \/ \E ev \in Events : Add(ev)
  \/ OtherAdd
  \/ \E id \in Slots : Delete(id)
  \/ ClearOwed
  \/ RebootOwing

DurSpec == DurInit /\ [][DurNext]_durVars
----------------------------------------------------------------------------
Holds(l, places) == \A s \in places : s < l.end /\ l.data[s].event = owed[s]

(* An acknowledged record is in the cache until it is deleted or cleared,  *)
(* and if its stores reached the file it is in the file too, whatever      *)
(* stores failed before or after it and however often the controller       *)
(* restarted: a store that fails leaves at worst stale records of others,  *)
(* and later ones never cover it.                                          *)
AckedDurable ==
  /\ Holds(log, DOMAIN owed)
  /\ synced => kept \subseteq DOMAIN owed /\ Holds(file, kept)
=============================================================================

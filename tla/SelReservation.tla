--------------------------- MODULE SelReservation ---------------------------
(***************************************************************************)
(* Several management clients share the one reservation id of the log:     *)
(* each reserves, and later clears with the id it was given.               *)
(*                                                                         *)
(* "age" and "voided" are history variables, nothing in the code: how many *)
(* reservations were handed out after the client's own (counted up to      *)
(* RsvMax), and whether the controller restarted since.                    *)
(***************************************************************************)
EXTENDS SelLog

CONSTANT Clients

NoId == 0   \* "can not be 0x00": the id of a client that never reserved

VARIABLES
  hold,     \* the id each client was given last
  age,
  voided

clientVars == <<hold, age, voided>>
allVars == <<vars, clientVars>>

ResInit ==
  /\ Init
  /\ hold = [c \in Clients |-> NoId]
  /\ age = [c \in Clients |-> 0]
  /\ voided = {}

Reserve(c) ==
  /\ StorageRsvSel
  /\ hold' = [hold EXCEPT ![c] = rsvId']
  /\ age' = [d \in Clients |-> IF d = c THEN 0
                               ELSE IF age[d] < RsvMax THEN age[d] + 1
                               ELSE RsvMax]
  /\ voided' = voided \ {c}

Clear(c) ==
  /\ hold[c] # NoId
  /\ StorageClrSel(hold[c])
  /\ UNCHANGED clientVars

(* Everything else that happens to the log meanwhile. *)
Meanwhile ==
  /\ \/ \E ev \in Events : StorageAddSel(ev) \/ PlatformEvent(ev) \/ InternalEvent(ev)
     \/ \E id \in Slots : StorageDelSelEntry(id)
     \/ \E c \in Clients : EraseStatus(hold[c])
     \/ RefusedCommand
     \/ \E on \in BOOLEAN : SetGlobalEnables(on)
  /\ UNCHANGED clientVars

Reboot ==
  /\ Restart
  /\ voided' = Clients
  /\ UNCHANGED <<hold, age>>

ResNext ==
  \/ \E c \in Clients : Reserve(c) \/ Clear(c)
  \/ Meanwhile
  \/ Reboot

ResSpec == ResInit /\ [][ResNext]_allVars
----------------------------------------------------------------------------
(* A reservation that counts: made since the last boot, and not so long    *)
(* ago that the ids have gone once around.                                 *)
Live(c) == hold[c] # NoId /\ c \notin voided /\ age[c] < RsvMax

(* Two clients never hold the same id at once, as long as both ids are     *)
(* younger than one turn of the counter.                                   *)
HoldersDiffer ==
  \A c, d \in Clients : c # d /\ Live(c) /\ Live(d) => hold[c] # hold[d]

(* The last client to reserve can clear, whatever else was done to the log *)
(* since: additions and deletions do not cost it its reservation.          *)
LatestCanClear == \A c \in Clients : Live(c) /\ age[c] = 0 => hold[c] = rsvId

(* A client clears the log only when nobody reserved after it; the         *)
(* exceptions are an id from before a restart, which counts from one       *)
(* again, and one that is a whole turn of the counter old.                 *)
OnlyLatestClears ==
  [][\A c \in Clients :
       /\ log' # log \/ file' # file
       /\ Clear(c)
       => age[c] = 0 \/ ~Live(c)]_allVars
=============================================================================

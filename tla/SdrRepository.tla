--------------------------- MODULE SdrRepository ---------------------------
(***************************************************************************)
(* The SDR repository (libs/sdr/sdr.cpp) as clients read it: a client      *)
(* reserves it and asks for one record after the other; a reservation that *)
(* another client makes in between cancels the first.  Requests are served *)
(* one at a time.  The clients are not part of the program: one that is    *)
(* refused reserves again and goes on or starts over.                      *)
(***************************************************************************)
EXTENDS Integers, Sequences

CONSTANTS
  Clients,
  Records,  \* records the main program fills sdr_rec with
  RsvMax,   \* SDR_RSVID_MAX
  Byte      \* 256

ASSUME SdrAssumption ==
  /\ Records \in Nat \ {0} /\ Byte \in Nat /\ RsvMax \in Nat
  /\ 1 < Byte /\ Records < Byte - 1 /\ 1 <= RsvMax

First == 0           \* SDR_RECID_FIRST
Last == Records + 1  \* stands for SDR_RECID_LAST: no record has this id

VARIABLES
  entries,  \* how many entries sdr_rec has, with indices from 0
  rsvId,    \* g_rsv_id
  walk      \* each client's reservation, what it asks for next, what it got

sdrVars == <<entries, rsvId, walk>>

NoWalk == [held |-> FALSE, rsv |-> 0, next |-> First, got |-> <<>>]

SdrInit == entries = Records /\ rsvId = 1 /\ walk = [c \in Clients |-> NoWalk]
----------------------------------------------------------------------------
NextRsvIdMutant == IF rsvId = RsvMax THEN rsvId ELSE rsvId + 1
NextRsvId == IF rsvId = RsvMax THEN 1 ELSE rsvId + 1

(* storage_rsv_sdr. *)
ReserveSdr(c, from) ==
  /\ ~walk[c].held
  /\ rsvId' = NextRsvId
  /\ walk' = [walk EXCEPT ![c] = [from EXCEPT !.held = TRUE, !.rsv = NextRsvId]]
  /\ UNCHANGED entries

(* Get SDR takes the low byte of the reservation id, but both bytes of its *)
(* own. *)
Granted(rsv) == rsv % Byte = rsvId

Index(id) == IF id = First THEN 0 ELSE id - 1

NextIdMutant(id) == IF id + 1 > entries THEN Last ELSE id + 1
(* The record to ask for after this one: the first has the id 1 as well.   *)
NextId(id) ==
  LET next == IF id = First THEN id + 2 ELSE id + 1 IN
    IF next > entries THEN Last ELSE next

(* storage_get_sdr, through plat_sdr_get_entry. *)
GetSdr(c) ==
  /\ walk[c].held /\ walk[c].next # Last
  /\ LET id == walk[c].next IN
       walk' = IF Granted(walk[c].rsv) /\ Index(id) < entries
               THEN [walk EXCEPT ![c].next = NextId(id), ![c].got = Append(@, Index(id))]
               ELSE [walk EXCEPT ![c].held = FALSE]
  /\ UNCHANGED <<entries, rsvId>>

(* storage_clear_sdr_repository: the records are back after a restart.     *)
ClearRepository == entries' = 0 /\ UNCHANGED <<rsvId, walk>>

RestartSdr == entries' = Records /\ rsvId' = 1 /\ UNCHANGED walk
----------------------------------------------------------------------------
(* What the clients do: start, go on or start over.                        *)
Done(c) == walk[c].next = Last

Leave(c) == Done(c) /\ walk' = [walk EXCEPT ![c] = NoWalk] /\ UNCHANGED <<entries, rsvId>>

ClientStep(c) ==
  \/ ~Done(c) /\ (ReserveSdr(c, walk[c]) \/ ReserveSdr(c, NoWalk))
  \/ GetSdr(c)

SdrNext ==
  \/ \E c \in Clients : ClientStep(c) \/ Leave(c)
  \/ ClearRepository \/ RestartSdr

(* A client that has begun to read does not give up. *)
SdrFairness == \A c \in Clients : WF_sdrVars(ClientStep(c))

SdrSpec == SdrInit /\ [][SdrNext]_sdrVars /\ SdrFairness
----------------------------------------------------------------------------
(* A client that has been told that there are no more records has read     *)
(* each of them once and in order, however often other reservations, a     *)
(* clear or a restart of the program came in between.                      *)
SdrWalkComplete ==
  \A c \in Clients :
    Done(c) => walk[c].got = [i \in 1 .. Records |-> i - 1]

(* If the others have read what they wanted, and the records are there, a  *)
(* client that goes on asking has them all in the end, although for most   *)
(* reservation ids, those above a byte, every request is refused.          *)
SdrWalkEnds ==
  \A c \in Clients :
    <>[][ClientStep(c)]_sdrVars /\ <>[](entries = Records) => [](~Done(c) => <>Done(c))
=============================================================================

----------------------------- MODULE SelReaders -----------------------------
(***************************************************************************)
(* Readers of the log.  A client walks it with one Get SEL Entry command   *)
(* per record, following the next-record id of each answer; the REST       *)
(* handler lists it in one loop that takes no lock.  Both are steps        *)
(* between which anything may happen to the log.                           *)
(*                                                                         *)
(* "seen" and "undisturbed" record what a reader got and whether the log   *)
(* only grew meanwhile; they are history, not state of the code.           *)
(***************************************************************************)
EXTENDS SelLog, Sequences

CONSTANTS
  Readers,
  ListFits  \* this many records always fit into the 34000 bytes of a listing

ASSUME ListFitsAssumption == ListFits \in Nat \ {0}

RecidLast == RecordsMax + 1   \* stands for SEL_RECID_LAST, 0xFFFF
Idle == -1

VARIABLES
  at,           \* the id each reader asks for next, or Idle
  listing,      \* the readers whose pass is a listing; the others walk
  count,        \* eventlog_cnt of each listing
  seen,         \* the events read so far
  undisturbed   \* readers during whose pass the log was only appended to

readerVars == <<at, listing, count, seen, undisturbed>>
allVars == <<vars, readerVars>>

----------------------------------------------------------------------------
HasEntryMutant(l, id) == NumEntries(l.end) # 0
(* plat_sel_get_entry: whether it finds the record, and the id it names as *)
(* the next one.  With begin = 0, its test for end < begin lets every id   *)
(* through.                                                                *)
HasEntry(l, id) == NumEntries(l.end) # 0 /\ (l.end > SelIndexMin => id < l.end)

NextIdMutant(l, id) == IF id + 1 >= l.end - 1 THEN RecidLast ELSE id + 1
NextId(l, id) ==
  LET n == IF id + 1 > RecordsMax THEN SelIndexMin ELSE id + 1
  IN  IF n = l.end THEN RecidLast ELSE n

(* storage_get_sel reads only the low byte of the id: 0xFFFF asks for 255. *)
LowByte(id) == IF id = RecidLast THEN RecordsMax ELSE id

ReadersInit ==
  /\ Init
  /\ at = [r \in Readers |-> Idle]
  /\ listing = {}
  /\ count = [r \in Readers |-> 0]
  /\ seen = [r \in Readers |-> <<>>]
  /\ undisturbed = {}

Begin(r) ==
  /\ at[r] = Idle
  /\ at' = [at EXCEPT ![r] = SelIndexMin]
  /\ seen' = [seen EXCEPT ![r] = <<>>]
  /\ undisturbed' = undisturbed \cup {r}
  /\ UNCHANGED vars

(* Bound: no pass reads more than Slots records (ids only grow). *)
See(r, id) ==
  seen' = IF Len(seen[r]) > RecordsMax
          THEN seen ELSE [seen EXCEPT ![r] = Append(@, log.data[id].event)]

BeginWalk(r) == Begin(r) /\ listing' = listing \ {r} /\ UNCHANGED count

(* storage_get_sel, as a step of a walk that ends at 0xFFFF or an error.   *)
StorageGetSel(r) ==
  LET id   == LowByte(at[r])
      next == NextId(log, id)
  IN  /\ at[r] # Idle /\ r \notin listing
      /\ enabled
      /\ IF HasEntry(log, id)
         THEN /\ at' = [at EXCEPT ![r] = IF next = RecidLast THEN Idle ELSE next]
              /\ See(r, id)
              /\ cc' = "success"
         ELSE /\ at' = [at EXCEPT ![r] = Idle]
              /\ cc' = "error"
              /\ UNCHANGED seen
      /\ UNCHANGED <<log, file, rsvId, enabled, listing, count, undisturbed>>

(* A walk that meets the switched-off log is given up. *)
RefusedGet(r) ==
  /\ at[r] # Idle /\ r \notin listing
  /\ RefusedCommand
  /\ at' = [at EXCEPT ![r] = Idle]
  /\ undisturbed' = undisturbed \ {r}
  /\ UNCHANGED <<listing, count, seen>>

(* rest_get_eventlog_config up to its loop, which an empty log never       *)
(* enters.                                                                 *)
BeginList(r) ==
  /\ NumEntries(log.end) > 0
  /\ Begin(r)
  /\ listing' = listing \cup {r}
  /\ count' = [count EXCEPT ![r] = NumEntries(log.end)]

ListEntryShortMutant(r) ==
  /\ at[r] # Idle /\ r \in listing
  /\ HasEntry(log, at[r])
  /\ See(r, at[r])
  /\ at' = [at EXCEPT ![r] = IF @ + 2 < count[r] THEN @ + 1 ELSE Idle]
  /\ UNCHANGED <<vars, listing, count, undisturbed>>
(* One pass of the loop.  It is the last one when the record is gone, the  *)
(* count is reached, or the response has grown too long.                   *)
ListEntry(r) ==
  /\ at[r] # Idle /\ r \in listing
  /\ IF HasEntry(log, at[r])
     THEN /\ See(r, at[r])
          /\ \/ /\ at[r] + 1 < count[r]
                /\ at' = [at EXCEPT ![r] = @ + 1]
             \/ /\ at[r] + 1 >= count[r] \/ at[r] + 1 >= ListFits
                /\ at' = [at EXCEPT ![r] = Idle]
     ELSE at' = [at EXCEPT ![r] = Idle] /\ UNCHANGED seen
  /\ UNCHANGED <<vars, listing, count, undisturbed>>

Growing ==
  /\ \E ev \in Events : StorageAddSel(ev) \/ PlatformEvent(ev) \/ InternalEvent(ev)
  /\ UNCHANGED readerVars

Disturbing ==
  /\ \/ \E id \in Slots : StorageDelSelEntry(id)
     \/ StorageClrSel(rsvId)
  /\ undisturbed' = {}
  /\ UNCHANGED <<at, listing, count, seen>>

Switching ==
  /\ \E on \in BOOLEAN : SetGlobalEnables(on)
  /\ UNCHANGED readerVars

(* A restart ends the listings, which run inside the controller, but not   *)
(* the walks of clients outside.                                           *)
Reboot ==
  /\ Restart
  /\ at' = [r \in Readers |-> IF r \in listing THEN Idle ELSE at[r]]
  /\ undisturbed' = {}
  /\ UNCHANGED <<listing, count, seen>>

ReadersNext ==
  \/ \E r \in Readers : BeginWalk(r) \/ StorageGetSel(r) \/ RefusedGet(r)
  \/ \E r \in Readers : BeginList(r) \/ ListEntry(r)
  \/ Growing
  \/ Disturbing
  \/ Switching
  \/ Reboot

(* A client that started a walk goes on asking; a listing thread runs on.  *)
Fairness ==
  \A r \in Readers :
    /\ WF_allVars(StorageGetSel(r) \/ RefusedGet(r))
    /\ WF_allVars(ListEntry(r))

ReadersSpec == ReadersInit /\ [][ReadersNext]_allVars /\ Fairness
----------------------------------------------------------------------------
Finishes(r) == at[r] # Idle /\ at'[r] = Idle

(* A walk during which the log was only appended to returns every record   *)
(* of the log as it is at the end, once and in order; the empty log is     *)
(* answered by an error.                                                   *)
WalkComplete ==
  [][\A r \in Readers \ listing :
       Finishes(r) /\ r \in undisturbed /\ r \in undisturbed' =>
         seen'[r] = EventsOf(log)]_allVars

(* A listing during which the log was only appended to is a prefix of the  *)
(* log that has all records counted at its beginning, or as many as the    *)
(* response holds.  (With a negative end the count is that of a nearly     *)
(* full log, and what is listed was deleted long ago.)                     *)
ListPrefix ==
  [][\A r \in listing :
       Finishes(r) /\ r \in undisturbed' /\ log.end >= 0 =>
         /\ seen'[r] = SubSeq(EventsOf(log), 1, Len(seen'[r]))
         /\ Len(seen'[r]) = count[r] \/ Len(seen'[r]) >= ListFits]_allVars

(* Every walk and every listing ends if from some moment on the log has no *)
(* negative end: a log that shrinks meanwhile cannot let it slip past the  *)
(* end, and one that was caught by a negative end is released by Clear     *)
(* SEL.  With a negative end no next id ever equals it, and a client that  *)
(* follows the ids reads the stale slots over and over.                    *)
WalksEnd ==
  <>[](log.end >= 0) => \A r \in Readers : at[r] # Idle ~> at[r] = Idle

=============================================================================

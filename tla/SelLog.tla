------------------------------- MODULE SelLog -------------------------------
(***************************************************************************)
(* The System Event Log of libs/sel/sel.cpp: the cached header and records *)
(* (g_sel_hdr, g_sel_data), their copy in /conf/ipmi/sel.bin, the          *)
(* reservation id, and the handlers that change them.                      *)
(*                                                                         *)
(* Every handler is one step here; SelSteps splits the writers into the    *)
(* statements between which another thread or a power loss can come.       *)
(*                                                                         *)
(* Abstractions.  g_sel_hdr.begin is only ever assigned SEL_INDEX_MIN, so  *)
(* it is that constant.  A record is its id (the four bytes written by     *)
(* plat_sel_add_entry_record_id) and the event it reports; time stamps,    *)
(* magic and version are left out.  A store into the file happens whole or *)
(* not at all; one that does not is an outcome that StoreMayFail switches  *)
(* on.  The caller learns of it when fopen or fseek failed.  It does not   *)
(* when fclose did, which is where the buffered bytes of a header or a     *)
(* record are written: its result is ignored.                              *)
(*                                                                         *)
(* A negative end is a state of the code: no delete looks whether there is *)
(* a record.  From -2 on the log is not full, and a record is copied in    *)
(* front of g_sel_data: into g_sel_hdr's magic and version at -2, into     *)
(* variables of other parts below.  None of the modelled state is there,   *)
(* so such a copy writes no slot here, and what it destroys is left out.   *)
(***************************************************************************)
EXTENDS Integers

CONSTANTS
  RecordsMax,   \* SEL_RECORDS_MAX: the log counts as full at this number
  Events,       \* payloads of the events senders report
  FullMark,     \* payload of the record add_to_sel_full appends
  ClearMark,    \* payload of the record plat_sel_erase appends
  Blank,        \* payload of a slot never written
  RsvMax,       \* SEL_RSVID_MAX: reservation ids run from 1 to RsvMax
  MaxBelow,     \* Bound: no delete takes end further below zero than this
  StoreMayFail  \* whether a store into sel.bin may fail

ASSUME RecordsMaxAssumption == RecordsMax \in Nat /\ RecordsMax >= 3
ASSUME PayloadAssumption ==
  /\ FullMark \notin Events /\ ClearMark \notin Events /\ FullMark # ClearMark
  /\ Blank \notin Events \cup {FullMark, ClearMark}
ASSUME RsvMaxAssumption == RsvMax \in Nat /\ RsvMax >= 1
(* The code has no such bound.  At 15 a record would be stored over the    *)
(* header in sel.bin, and the header has no slots here.                    *)
ASSUME MaxBelowAssumption == MaxBelow \in 0 .. 14 /\ MaxBelow <= RecordsMax
ASSUME StoreMayFailAssumption == StoreMayFail \in BOOLEAN

SelIndexMin == 0            \* SEL_INDEX_MIN, the value of g_sel_hdr.begin
Slots == 0 .. RecordsMax    \* the SEL_ELEMS_MAX elements of g_sel_data
RsvMin == 1                 \* SEL_RSVID_MIN, also the value g_rsv_id boots with
Payloads == Events \cup {FullMark, ClearMark, Blank}
Records == [id : Slots, event : Payloads]

VARIABLES
  log,      \* [end, data]: g_sel_hdr.end and g_sel_data
  file,     \* [end, data]: the same two in sel.bin
  rsvId,    \* g_rsv_id
  enabled,  \* bit 3 of KETI_define::global_enabler
  cc        \* completion code of the last response

vars == <<log, file, rsvId, enabled, cc>>

----------------------------------------------------------------------------
(* Definitions named ...Mutant are plausible mistakes in the definition    *)
(* that follows them; they show that the properties can fail.              *)

NumEntriesMutant(e) == e - SelIndexMin
(* plat_sel_num_entries, as a function of g_sel_hdr.end. *)
NumEntries(e) ==
  IF SelIndexMin <= e THEN e - SelIndexMin
                      ELSE e + (RecordsMax - SelIndexMin + 1)

IsFullMutant(l) == NumEntries(l.end) > RecordsMax
IsFull(l) == NumEntries(l.end) = RecordsMax

NumberedMutant(i, ev) == [id |-> i + 1, event |-> ev]
(* plat_sel_add_entry_record_id: the record carries its index as its id. *)
Numbered(i, ev) == [id |-> i, event |-> ev]

WriteSlot(data, i, rec) == [s \in Slots |-> IF s = i THEN rec ELSE data[s]]

HdrWrittenMutant(f, l) == f
HdrWritten(f, l) == [f EXCEPT !.end = l.end]
DataWrittenMutant(f, i, rec) == [f EXCEPT !.data = WriteSlot(f.data, i + 1, rec)]
DataWritten(f, i, rec) == [f EXCEPT !.data = WriteSlot(f.data, i, rec)]

(* What a store leaves in the file when its function returns 0. *)
Stored(f, written) == {written} \cup (IF StoreMayFail THEN {f} ELSE {})
StoreHdr(f, l) == Stored(f, HdrWritten(f, l))
StoreData(f, i, rec) == Stored(f, DataWritten(f, i, rec))
(* The write of file_store_all_sel_data, at its first iteration. *)
StoreAll(f, data) == Stored(f, [f EXCEPT !.data = data])

(***************************************************************************)
(* One pass of plat_sel_add_entry, up to the marker: the possible values   *)
(* of the log, the file and of "returned 0".  A full log refuses.  The     *)
(* record enters the cache before either store, so a failed store leaves   *)
(* it there although the caller is told of a failure.  "kept" is history:  *)
(* both stores of the record have reached the file.                        *)
(***************************************************************************)
AddOne(l, f, ev) ==
  LET rec  == Numbered(l.end, ev)
      l2   == [end |-> l.end + 1, data |-> WriteSlot(l.data, l.end, rec)]
      both == DataWritten(HdrWritten(f, l2), l.end, rec)
      done == UNION {StoreData(h, l.end, rec) : h \in StoreHdr(f, l2)}
  IN  IF IsFull(l)
      THEN {[log |-> l, file |-> f, ok |-> FALSE, kept |-> FALSE]}
      ELSE {[log |-> l2, file |-> g, ok |-> TRUE, kept |-> g = both] : g \in done}
           \cup IF StoreMayFail
                THEN {[log |-> l2, file |-> h, ok |-> FALSE, kept |-> FALSE] :
                        h \in StoreHdr(f, l2)}
                ELSE {}

LeavesOneMutant(l) == NumEntries(l.end) = RecordsMax - 1
(* full_msg: this addition leaves room for exactly one more record. *)
LeavesOne(l) == NumEntries(l.end) = RecordsMax - 2

(***************************************************************************)
(* plat_sel_add_entry.  The addition that leaves room for one record is    *)
(* followed by add_to_sel_full, whose own result is ignored.               *)
(***************************************************************************)
AddEntry(l, f, ev) ==
  UNION { IF o.ok /\ LeavesOne(l)
            THEN {[m EXCEPT !.ok = TRUE, !.kept = o.kept] :
                    m \in AddOne(o.log, o.file, FullMark)}
            ELSE {o} : o \in AddOne(l, f, ev) }

ShiftedMutant(l, id) ==
  [s \in Slots |-> IF id < s /\ s < l.end - 1 THEN l.data[s + 1] ELSE l.data[s]]
(* The shift loops of delete_sel_entry; its three branches agree on them. *)
Shifted(l, id) ==
  [s \in Slots |-> IF id <= s /\ s < l.end - 1 THEN l.data[s + 1] ELSE l.data[s]]

RenumberUpToMutant(data, last) ==
  [s \in Slots |-> IF 0 < s /\ s <= last THEN Numbered(s, data[s].event) ELSE data[s]]
(* The records 0 .. last of file_store_all_sel_data's loop, renumbered. *)
RenumberUpTo(data, last) ==
  [s \in Slots |-> IF s <= last THEN Numbered(s, data[s].event) ELSE data[s]]

(***************************************************************************)
(* delete_sel_entry.  An id that no record has removes the last record,    *)
(* and nothing asks whether there is one.  file_store_all_sel_data writes  *)
(* the whole array at its first iteration, when only record 0 is           *)
(* renumbered; what it writes later lies behind the SEL_ELEMS_MAX records  *)
(* a boot reads back.  For an end below 0 its loop does not run at all.    *)
(* A failing write ends the loop where it is.                              *)
(***************************************************************************)
DeleteEntry(l, f, id) ==
  LET last == l.end - 1
      gone == [end |-> last, data |-> Shifted(l, id)]
      upTo(k) == [gone EXCEPT !.data = RenumberUpTo(gone.data, k)]
      hdrs == StoreHdr(f, gone)
      alls == IF last < 0 THEN hdrs ELSE UNION {StoreAll(h, upTo(0).data) : h \in hdrs}
  IN  {[log |-> upTo(last), file |-> g] : g \in alls}
      \cup IF StoreMayFail
           THEN {[log |-> gone, file |-> h] : h \in hdrs}
                \cup {[log |-> upTo(k), file |-> g] : k \in 0 .. last, g \in alls}
           ELSE {}

EraseAllMutant(l, f) ==
  UNION {{[o EXCEPT !.ok = TRUE] : o \in AddEntry(l, h, ClearMark)} :
           h \in StoreHdr(f, [l EXCEPT !.end = SelIndexMin])}
(* plat_sel_erase, once the reservation id was accepted. *)
EraseAll(l, f) ==
  LET empty == [l EXCEPT !.end = SelIndexMin]
  IN  (UNION {{[o EXCEPT !.ok = TRUE] : o \in AddEntry(empty, h, ClearMark)} :
                h \in StoreHdr(f, empty)})
      \cup IF StoreMayFail
           THEN {[log |-> empty, file |-> f, ok |-> FALSE, kept |-> FALSE]}
           ELSE {}

NextRsvMutant(r) == IF r = RsvMax - 1 THEN RsvMin ELSE r + 1
NextRsvNoWrapMutant(r) == r + 1
(* plat_sel_rsv_id *)
NextRsv(r) == IF r = RsvMax THEN RsvMin ELSE r + 1

----------------------------------------------------------------------------
(* The first boot: plat_sel_init creates sel.bin with an empty header and  *)
(* blank records.                                                          *)
BlankLog == [end |-> SelIndexMin, data |-> [s \in Slots |-> Numbered(0, Blank)]]

Init ==
  /\ log = BlankLog
  /\ file = BlankLog
  /\ rsvId = RsvMin
  /\ enabled = TRUE
  /\ cc = "none"

Code(ok) == IF ok THEN "success" ELSE "error"

StorageRsvSel ==
  /\ enabled
  /\ rsvId' = NextRsv(rsvId)
  /\ cc' = "success"
  /\ UNCHANGED <<log, file, enabled>>

AcceptMutant(o) ==
  /\ log' = o.log /\ file' = o.file /\ cc' = Code(o.ok)
  /\ rsvId' = NextRsv(rsvId)
(* Add SEL Entry leaves the outcome o. *)
Accept(o) ==
  /\ log' = o.log /\ file' = o.file /\ cc' = Code(o.ok)
  /\ UNCHANGED rsvId

StorageAddSel(ev) ==
  /\ enabled
  /\ \E o \in AddEntry(log, file, ev) : Accept(o)
  /\ UNCHANGED enabled

(* The handler ignores the result of delete_sel_entry, and deletes from an *)
(* empty log as from any other.  Bound: MaxBelow.                          *)
StorageDelSelEntry(id) ==
  /\ enabled
  /\ log.end > -MaxBelow
  /\ \E o \in DeleteEntry(log, file, id) : log' = o.log /\ file' = o.file
  /\ cc' = "success"
  /\ UNCHANGED <<rsvId, enabled>>

ReservedMutant(rsv) == rsv <= rsvId
Reserved(rsv) == rsv = rsvId

StorageClrSel(rsv) ==
  /\ enabled
  /\ IF Reserved(rsv)
     THEN \E o \in EraseAll(log, file) :
            log' = o.log /\ file' = o.file /\ cc' = Code(o.ok)
     ELSE cc' = "error" /\ UNCHANGED <<log, file>>
  /\ UNCHANGED <<rsvId, enabled>>

(* storage_clr_sel asked for the status of an erase, which is always over. *)
(* A request without the letters CLR is answered like a wrong id.          *)
EraseStatus(rsv) ==
  /\ enabled
  /\ cc' = Code(Reserved(rsv))
  /\ UNCHANGED <<log, file, rsvId, enabled>>

(* The five SEL commands while event logging is switched off. *)
RefusedCommand ==
  /\ ~enabled
  /\ cc' = "disabled"
  /\ UNCHANGED <<log, file, rsvId, enabled>>

(* sensor_event_get_num: ipmi_handle_sensor does not look at the enable    *)
(* bit and overwrites the completion code with CC_SUCCESS.                 *)
PlatformEvent(ev) ==
  /\ \E o \in AddEntry(log, file, ev) : log' = o.log /\ file' = o.file
  /\ cc' = "success"
  /\ UNCHANGED <<rsvId, enabled>>

(* Threshold, power and limit events the controller reports itself; no     *)
(* response carries a completion code.                                     *)
InternalEvent(ev) ==
  /\ \E o \in AddEntry(log, file, ev) : log' = o.log /\ file' = o.file
  /\ UNCHANGED <<rsvId, enabled, cc>>

SetGlobalEnables(on) ==
  /\ enabled' = on
  /\ cc' = "success"
  /\ UNCHANGED <<log, file, rsvId>>

(***************************************************************************)
(* plat_sel_init and plat_ipmi_init when sel.bin exists.  plat_ipmi_init   *)
(* sets the enable bit; Manager::load_json brings back the value saved by  *)
(* the last Set Global Enables.  Which of the two comes last depends on    *)
(* the main program, which is not part of the repository.                  *)
(***************************************************************************)
Restart ==
  /\ log' = file
  /\ rsvId' = RsvMin
  /\ enabled' \in {TRUE, enabled}
  /\ cc' = "none"
  /\ UNCHANGED file

Next ==
  \/ StorageRsvSel
  \/ \E ev \in Events : StorageAddSel(ev) \/ PlatformEvent(ev) \/ InternalEvent(ev)
  \/ \E id \in Slots : StorageDelSelEntry(id)
  \/ \E rsv \in 0 .. RsvMax : StorageClrSel(rsv) \/ EraseStatus(rsv)
  \/ RefusedCommand
  \/ \E on \in BOOLEAN : SetGlobalEnables(on)
  \/ Restart

Spec == Init /\ [][Next]_vars
----------------------------------------------------------------------------
(* Type correctness. *)
TypeOK ==
  /\ log \in [end : Int, data : [Slots -> Records]]
  /\ file \in [end : Int, data : [Slots -> Records]]
  /\ rsvId \in RsvMin .. RsvMax
  /\ enabled \in BOOLEAN
  /\ cc \in {"none", "success", "error", "disabled"}

(* The cached header never counts past the array, nor does the one on file *)
(* that a restart takes over, whatever stores fail: the equality test of   *)
(* plat_sel_add_entry misses no full log, although the marker is added     *)
(* behind its back.  Nothing of the kind holds at the other end, where     *)
(* deletes take it below zero.                                             *)
CapacityKept == log.end <= RecordsMax /\ file.end <= RecordsMax

SameEvents(f, l) ==
  f.end = l.end /\ \A i \in Slots : i < l.end => f.data[i].event = l.data[i].event

(* While stores succeed, sel.bin holds the same events as the cache, in    *)
(* the same places: a restart loses, adds and reorders nothing.            *)
FileMirrorsLog == SameEvents(file, log)

(* Every record in the log carries its position as its record id. *)
IdsMatch(l) == \A i \in Slots : i < l.end => l.data[i].id = i

(* While stores succeed, nothing but a restart brings record ids out of    *)
(* step with positions: not the markers, not the shift of a delete.        *)
IdsStable == [][IdsMatch(log) /\ ~Restart => IdsMatch(log')]_vars

(* A delete repairs ids that a restart brought back wrong. *)
DeleteRenumbers ==
  [][(\E id \in Slots : StorageDelSelEntry(id)) => IdsMatch(log')]_vars

(* A delete removes the record with the given id and no other, and keeps   *)
(* the rest in its order.                                                  *)
DeleteRemovesGiven ==
  [][\A id \in Slots :
       StorageDelSelEntry(id) /\ id < log.end =>
         /\ log'.end = log.end - 1
         /\ \A i \in Slots : i < log'.end =>
              log'.data[i].event = log.data[IF i < id THEN i ELSE i + 1].event]_vars

(* The addition that takes the last but one free place takes the last one  *)
(* too, with the marker of add_to_sel_full; no step but that fills the log *)
(* so far.                                                                 *)
FullMarkOnFilling ==
  [][/\ NumEntries(log.end) <= RecordsMax - 2
     /\ NumEntries(log'.end) >= RecordsMax - 1 /\ log'.end > 0
     => IsFull(log') /\ log'.data[RecordsMax - 1].event = FullMark]_vars

(* While stores succeed, only Clear SEL makes an end that deletes took     *)
(* below zero a count of records again.  At -1 the log refuses every       *)
(* event.  Below, it accepts some, in front of the array where no reader   *)
(* finds them, until they have taken it to -1; a restart does not help,    *)
(* the negative end is in the file as well.                                *)
NegativeUntilCleared ==
  [][log.end < 0 => log'.end < 0 \/ \E rsv \in 0 .. RsvMax : StorageClrSel(rsv)]_vars

(* The events in the log, oldest first. *)
EventsOf(l) == [k \in 1 .. l.end |-> l.data[k - 1].event]

=============================================================================

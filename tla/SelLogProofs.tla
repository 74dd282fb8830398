---------------------------- MODULE SelLogProofs ----------------------------
(***************************************************************************)
(* Proofs about SelLog, for every capacity, set of events and reservation  *)
(* counter, and with every combination of failing stores and restarts.     *)
(***************************************************************************)
EXTENDS SelLog, Sequences, TLAPS

(* A cached or stored log whose counter stays within the array. *)
BoundedLogs == [end : -MaxBelow .. RecordsMax, data : [Slots -> Records]]

(* The inductive invariant.  Type correctness alone is not inductive: a    *)
(* record added at end carries end as its id, which is a slot, or in front *)
(* of all slots, only because the counter stays within these bounds.       *)
IInv ==
  /\ log \in BoundedLogs
  /\ file \in BoundedLogs
  /\ rsvId \in RsvMin .. RsvMax
  /\ enabled \in BOOLEAN
  /\ cc \in {"none", "success", "error", "disabled"}

LEMMA InvImplies == IInv => TypeOK /\ CapacityKept
<1>1. \A l \in BoundedLogs :
        l \in [end : Int, data : [Slots -> Records]] /\ l.end <= RecordsMax
  BY RecordsMaxAssumption, MaxBelowAssumption DEF BoundedLogs
<1>. QED BY <1>1 DEF IInv, TypeOK, CapacityKept

(* A log that is not full has a free slot, or its end is so far below zero *)
(* that one more record does not bring it back.                            *)
LEMMA NotFullHasRoom ==
  ASSUME NEW l \in BoundedLogs, ~IsFull(l)
  PROVE  /\ l.end \in 0 .. RecordsMax - 1 \/ l.end \in -MaxBelow .. -2
         /\ l.end \in Int
         /\ l.end \in Slots <=> l.end >= 0
<1>1. l.end \in -MaxBelow .. RecordsMax
  BY DEF BoundedLogs
<1>. QED
  BY <1>1, RecordsMaxAssumption, MaxBelowAssumption
  DEF IsFull, NumEntries, SelIndexMin, Slots

LEMMA NumberedType ==
  ASSUME NEW i \in Slots, NEW ev \in Payloads
  PROVE  Numbered(i, ev) \in Records
BY DEF Numbered, Records

(* A record written in front of the slots needs no type. *)
LEMMA WriteSlotType ==
  ASSUME NEW data \in [Slots -> Records], NEW i, NEW rec, i \in Slots => rec \in Records
  PROVE  WriteSlot(data, i, rec) \in [Slots -> Records]
BY DEF WriteSlot

(* What the two stores write, and what they leave, are well formed. *)
LEMMA StoreType ==
  ASSUME NEW f \in BoundedLogs, NEW l \in BoundedLogs, NEW i, NEW rec,
         i \in Slots => rec \in Records
  PROVE  /\ HdrWritten(f, l) \in BoundedLogs
         /\ HdrWritten(f, l).end = l.end /\ HdrWritten(f, l).data = f.data
         /\ DataWritten(f, i, rec) \in BoundedLogs
         /\ DataWritten(f, i, rec).end = f.end
         /\ DataWritten(f, i, rec).data = WriteSlot(f.data, i, rec)
         /\ StoreHdr(f, l) \subseteq {f, HdrWritten(f, l)} /\ HdrWritten(f, l) \in StoreHdr(f, l)
         /\ StoreData(f, i, rec) \subseteq {f, DataWritten(f, i, rec)}
         /\ StoreHdr(f, l) \subseteq BoundedLogs
         /\ StoreData(f, i, rec) \subseteq BoundedLogs
<1>1. /\ HdrWritten(f, l) \in BoundedLogs
      /\ HdrWritten(f, l).end = l.end /\ HdrWritten(f, l).data = f.data
  BY DEF HdrWritten, BoundedLogs
<1>2. f.data \in [Slots -> Records]
  BY DEF BoundedLogs
<1>3. WriteSlot(f.data, i, rec) \in [Slots -> Records]
  BY <1>2, WriteSlotType
<1>4. /\ DataWritten(f, i, rec) \in BoundedLogs
      /\ DataWritten(f, i, rec).end = f.end
      /\ DataWritten(f, i, rec).data = WriteSlot(f.data, i, rec)
  BY <1>3 DEF DataWritten, BoundedLogs
<1>. HIDE DEF HdrWritten, DataWritten
<1>5. /\ StoreHdr(f, l) \subseteq {f, HdrWritten(f, l)} /\ HdrWritten(f, l) \in StoreHdr(f, l)
      /\ StoreData(f, i, rec) \subseteq {f, DataWritten(f, i, rec)}
  BY DEF StoreHdr, StoreData, Stored
<1>. QED BY <1>1, <1>4, <1>5

LEMMA SureStores ==
  ASSUME ~StoreMayFail, NEW f, NEW l, NEW i, NEW rec, NEW data
  PROVE  /\ StoreHdr(f, l) = {HdrWritten(f, l)}
         /\ StoreData(f, i, rec) = {DataWritten(f, i, rec)}
         /\ StoreAll(f, data) = {[f EXCEPT !.data = data]}
BY DEF StoreHdr, StoreData, StoreAll, Stored

Added == [log : BoundedLogs, file : BoundedLogs, ok : BOOLEAN, kept : BOOLEAN]

(* What an addition to a log with room may leave, in the names used by the *)
(* proofs below.                                                           *)
Grown(l, ev) ==
  [end |-> l.end + 1, data |-> WriteSlot(l.data, l.end, Numbered(l.end, ev))]
HdrFile(l, f, ev) == HdrWritten(f, Grown(l, ev))
BothFile(l, f, ev) == DataWritten(HdrFile(l, f, ev), l.end, Numbered(l.end, ev))
DataFile(l, f, ev) == DataWritten(f, l.end, Numbered(l.end, ev))

LEMMA AddOneCases ==
  ASSUME NEW l \in BoundedLogs, NEW f \in BoundedLogs, NEW ev \in Payloads, ~IsFull(l)
  PROVE  /\ Grown(l, ev) \in BoundedLogs
         /\ {f, HdrFile(l, f, ev), DataFile(l, f, ev), BothFile(l, f, ev)}
              \subseteq BoundedLogs
         /\ \A o \in AddOne(l, f, ev) :
              /\ o.log = Grown(l, ev)
              /\ o.file \in {f, HdrFile(l, f, ev), DataFile(l, f, ev), BothFile(l, f, ev)}
              /\ o.ok \in BOOLEAN /\ o.kept \in BOOLEAN
              /\ o \in Added
              /\ o.kept => o.ok /\ o.file = BothFile(l, f, ev)
              /\ ~StoreMayFail => o.ok /\ o.file = BothFile(l, f, ev)
<1> DEFINE rec == Numbered(l.end, ev)
           l2 == Grown(l, ev)
           fHdr == HdrFile(l, f, ev)
           both == BothFile(l, f, ev)
           fDat == DataFile(l, f, ev)
<1>1. l.end \in Slots => rec \in Records
  BY NumberedType
<1>2. l2 \in BoundedLogs
  <2>1. l.end + 1 \in -MaxBelow .. RecordsMax
    BY NotFullHasRoom, RecordsMaxAssumption, MaxBelowAssumption
  <2>2. WriteSlot(l.data, l.end, rec) \in [Slots -> Records]
    BY <1>1, WriteSlotType DEF BoundedLogs
  <2>. QED BY <2>1, <2>2 DEF BoundedLogs, Grown
<1>. HIDE DEF rec, l2
<1>3. fHdr \in BoundedLogs /\ StoreHdr(f, l2) \subseteq {f, fHdr}
  BY <1>1, <1>2, StoreType DEF HdrFile, l2
<1>. HIDE DEF fHdr
<1>4. /\ both \in BoundedLogs /\ fDat \in BoundedLogs
      /\ StoreData(f, l.end, rec) \subseteq {f, fDat}
      /\ StoreData(fHdr, l.end, rec) \subseteq {fHdr, both}
  BY <1>1, <1>3, StoreType DEF BothFile, DataFile, rec, fHdr
<1>. HIDE DEF both, fDat
<1>5. ASSUME NEW o \in AddOne(l, f, ev)
      PROVE  /\ o.log = l2 /\ o.file \in {f, fHdr, fDat, both}
             /\ o.ok \in BOOLEAN /\ o.kept \in BOOLEAN /\ o \in Added
             /\ o.kept => o.ok /\ o.file = both
             /\ ~StoreMayFail => o.ok /\ o.file = both
  <2> DEFINE done == UNION {StoreData(h, l.end, rec) : h \in StoreHdr(f, l2)}
  <2>1. done \subseteq {f, fHdr, fDat, both}
    BY <1>3, <1>4
  <2>2. ASSUME ~StoreMayFail PROVE done = {both}
    <3>1. StoreHdr(f, l2) = {fHdr}
      BY <2>2 DEF StoreHdr, Stored, fHdr, HdrFile, l2
    <3>2. StoreData(fHdr, l.end, rec) = {both}
      BY <2>2 DEF StoreData, Stored, both, BothFile, rec, fHdr
    <3>. QED BY <3>1, <3>2
  <2>3. AddOne(l, f, ev) =
          {[log |-> l2, file |-> g, ok |-> TRUE, kept |-> g = both] : g \in done}
          \cup IF StoreMayFail
               THEN {[log |-> l2, file |-> h, ok |-> FALSE, kept |-> FALSE] :
                       h \in StoreHdr(f, l2)}
               ELSE {}
    BY DEF AddOne, rec, l2, both, BothFile, HdrFile, Grown
  <2>. HIDE DEF done
  <2>4. CASE \E g \in done : o = [log |-> l2, file |-> g, ok |-> TRUE, kept |-> g = both]
    <3>1. PICK g \in done : o = [log |-> l2, file |-> g, ok |-> TRUE, kept |-> g = both]
      BY <2>4
    <3>2. g \in BoundedLogs /\ (g = both) \in BOOLEAN
      BY <1>3, <1>4, <2>1
    <3>3. o.log = l2 /\ o.file = g /\ o.ok = TRUE /\ o.kept = (g = both)
      BY <3>1
    <3>. QED BY <1>2, <2>1, <2>2, <3>1, <3>2, <3>3 DEF Added
  <2>5. CASE StoreMayFail /\ \E h \in StoreHdr(f, l2) :
               o = [log |-> l2, file |-> h, ok |-> FALSE, kept |-> FALSE]
    BY <1>2, <1>3, <2>5 DEF Added
  <2>. QED BY <2>3, <2>4, <2>5
<1>. QED BY <1>2, <1>3, <1>4, <1>5 DEF l2, fHdr, both, fDat

LEMMA AddOneType ==
  ASSUME NEW l \in BoundedLogs, NEW f \in BoundedLogs, NEW ev \in Payloads
  PROVE  AddOne(l, f, ev) \subseteq Added
<1>1. CASE IsFull(l)
  BY <1>1 DEF AddOne, Added
<1>2. CASE ~IsFull(l)
  BY <1>2, AddOneCases
<1>. QED BY <1>1, <1>2

LEMMA AddEntryType ==
  ASSUME NEW l \in BoundedLogs, NEW f \in BoundedLogs, NEW ev \in Payloads
  PROVE  AddEntry(l, f, ev) \subseteq Added
<1>1. ASSUME NEW o \in AddOne(l, f, ev)
      PROVE  (IF o.ok /\ LeavesOne(l)
              THEN {[m EXCEPT !.ok = TRUE, !.kept = o.kept] : m \in AddOne(o.log, o.file, FullMark)}
              ELSE {o}) \subseteq Added
  <2>1. o \in Added
    BY AddOneType
  <2>2. o.log \in BoundedLogs /\ o.file \in BoundedLogs
    BY <2>1 DEF Added
  <2>3. AddOne(o.log, o.file, FullMark) \subseteq Added
    BY <2>2, AddOneType DEF Payloads
  <2>4. \A m \in Added : [m EXCEPT !.ok = TRUE, !.kept = o.kept] \in Added
    BY <2>1 DEF Added
  <2>. QED BY <2>1, <2>3, <2>4
<1>. QED BY <1>1 DEF AddEntry

LEMMA ShiftedType ==
  ASSUME NEW l \in BoundedLogs, NEW id \in Slots
  PROVE  Shifted(l, id) \in [Slots -> Records]
<1>1. l.data \in [Slots -> Records] /\ l.end \in -MaxBelow .. RecordsMax
  BY DEF BoundedLogs
<1>2. \A s \in Slots : id <= s /\ s < l.end - 1 => s + 1 \in Slots
  BY <1>1, RecordsMaxAssumption DEF Slots
<1>. QED BY <1>1, <1>2 DEF Shifted

LEMMA RenumberType ==
  ASSUME NEW data \in [Slots -> Records], NEW k
  PROVE  RenumberUpTo(data, k) \in [Slots -> Records]
<1>1. \A s \in Slots : data[s].event \in Payloads
  BY DEF Records
<1>2. \A s \in Slots : Numbered(s, data[s].event) \in Records
  BY <1>1, NumberedType
<1>. QED BY <1>2 DEF RenumberUpTo

Gone(l, id) == [end |-> l.end - 1, data |-> Shifted(l, id)]
UpTo(l, id, k) == [end |-> l.end - 1, data |-> RenumberUpTo(Shifted(l, id), k)]
AllFile(h, l, id) == [h EXCEPT !.data = RenumberUpTo(Shifted(l, id), 0)]

(* What a delete may leave: the records shifted, and some of them          *)
(* renumbered; in the file either the old or the new header, and either    *)
(* the old or the shifted records.                                         *)
LEMMA DeleteEntryCases ==
  ASSUME NEW l \in BoundedLogs, NEW f \in BoundedLogs, NEW id \in Slots,
         l.end > -MaxBelow, NEW o \in DeleteEntry(l, f, id)
  PROVE  /\ Gone(l, id) \in BoundedLogs /\ \A k : UpTo(l, id, k) \in BoundedLogs
         /\ o.log = Gone(l, id) \/ \E k \in Int : o.log = UpTo(l, id, k)
         /\ \E h \in {f, HdrWritten(f, Gone(l, id))} :
              /\ h \in BoundedLogs /\ AllFile(h, l, id) \in BoundedLogs
              /\ o.file = h \/ o.file = AllFile(h, l, id)
         /\ o = [log |-> o.log, file |-> o.file]
         /\ ~StoreMayFail =>
              o = [log |-> UpTo(l, id, l.end - 1),
                   file |-> IF l.end - 1 < 0 THEN HdrWritten(f, Gone(l, id))
                            ELSE AllFile(HdrWritten(f, Gone(l, id)), l, id)]
<1> DEFINE last == l.end - 1
           gone == Gone(l, id)
           hdrs == StoreHdr(f, gone)
           alls == IF last < 0 THEN hdrs
                   ELSE UNION {StoreAll(h, RenumberUpTo(Shifted(l, id), 0)) : h \in hdrs}
<1>1. last \in -MaxBelow .. RecordsMax /\ last \in Int
  BY RecordsMaxAssumption, MaxBelowAssumption DEF BoundedLogs
<1>2. Shifted(l, id) \in [Slots -> Records]
  BY ShiftedType
<1>3. gone \in BoundedLogs
  BY <1>1, <1>2 DEF BoundedLogs, Gone
<1>4. \A k : RenumberUpTo(Shifted(l, id), k) \in [Slots -> Records]
  BY <1>2, RenumberType
<1>5. \A k : UpTo(l, id, k) \in BoundedLogs
  BY <1>1, <1>4 DEF BoundedLogs, UpTo
<1>6. hdrs \subseteq {f, HdrWritten(f, gone)} /\ hdrs \subseteq BoundedLogs
  <2>1. gone.end \in -MaxBelow .. RecordsMax
    BY <1>3 DEF BoundedLogs
  <2>2. HdrWritten(f, gone) \in BoundedLogs
    BY <2>1 DEF HdrWritten, BoundedLogs
  <2>. QED BY <2>2 DEF StoreHdr, Stored
<1>7. \A h \in hdrs : AllFile(h, l, id) \in BoundedLogs
  BY <1>4, <1>6 DEF AllFile, BoundedLogs
<1>8. \A g \in alls : \E h \in hdrs : g = h \/ g = AllFile(h, l, id)
  BY DEF StoreAll, Stored, AllFile
<1>9. DeleteEntry(l, f, id) =
        {[log |-> UpTo(l, id, last), file |-> g] : g \in alls}
        \cup IF StoreMayFail
             THEN {[log |-> gone, file |-> h] : h \in hdrs}
                  \cup {[log |-> UpTo(l, id, k), file |-> g] : k \in 0 .. last, g \in alls}
             ELSE {}
  BY DEF DeleteEntry, Gone, UpTo
<1>10. ~StoreMayFail =>
         alls = {IF last < 0 THEN HdrWritten(f, gone) ELSE AllFile(HdrWritten(f, gone), l, id)}
  <2>. SUFFICES ASSUME ~StoreMayFail
                PROVE  alls = {IF last < 0 THEN HdrWritten(f, gone)
                               ELSE AllFile(HdrWritten(f, gone), l, id)}
    OBVIOUS
  <2>1. hdrs = {HdrWritten(f, gone)}
    BY DEF StoreHdr, Stored
  <2>2. \A h : StoreAll(h, RenumberUpTo(Shifted(l, id), 0)) = {AllFile(h, l, id)}
    BY DEF StoreAll, Stored, AllFile
  <2>. HIDE DEF last, gone, hdrs
  <2>. QED BY <2>1, <2>2
<1>. HIDE DEF last, gone, hdrs, alls
<1>11. /\ o.log = gone \/ \E k \in Int : o.log = UpTo(l, id, k)
       /\ o.file \in alls \cup hdrs
       /\ o = [log |-> o.log, file |-> o.file]
  BY <1>1, <1>9
<1>12. ~StoreMayFail => \E g \in alls : o = [log |-> UpTo(l, id, last), file |-> g]
  BY <1>9
<1>. QED
  BY <1>3, <1>5, <1>6, <1>7, <1>8, <1>10, <1>11, <1>12 DEF gone, last

LEMMA DeleteEntryType ==
  ASSUME NEW l \in BoundedLogs, NEW f \in BoundedLogs, NEW id \in Slots,
         l.end > -MaxBelow
  PROVE  DeleteEntry(l, f, id) \subseteq [log : BoundedLogs, file : BoundedLogs]
BY DeleteEntryCases

(* An erase leaves what adding its note to an emptied log leaves, or the   *)
(* emptied log alone.                                                      *)
Emptied(l) == [l EXCEPT !.end = SelIndexMin]
NotedIn(l, h) == {[p EXCEPT !.ok = TRUE] : p \in AddEntry(Emptied(l), h, ClearMark)}

LEMMA EmptiedType ==
  ASSUME NEW l \in BoundedLogs
  PROVE  Emptied(l) \in BoundedLogs /\ Emptied(l).end = 0
BY RecordsMaxAssumption, MaxBelowAssumption DEF BoundedLogs, SelIndexMin, Emptied

LEMMA EraseAllCases ==
  ASSUME NEW l \in BoundedLogs, NEW f \in BoundedLogs, NEW o \in EraseAll(l, f)
  PROVE  /\ Emptied(l) \in BoundedLogs /\ Emptied(l).end = 0
         /\ \/ \E h \in {f, HdrWritten(f, Emptied(l))} \cap BoundedLogs :
                 /\ ~StoreMayFail => h = HdrWritten(f, Emptied(l))
                 /\ \E p \in AddEntry(Emptied(l), h, ClearMark) :
                      o = [p EXCEPT !.ok = TRUE]
            \/ StoreMayFail /\ o = [log |-> Emptied(l), file |-> f, ok |-> FALSE, kept |-> FALSE]
<1>1. Emptied(l) \in BoundedLogs /\ Emptied(l).end = 0
  BY EmptiedType
<1>2. /\ StoreHdr(f, Emptied(l)) \subseteq {f, HdrWritten(f, Emptied(l))} \cap BoundedLogs
      /\ ~StoreMayFail => StoreHdr(f, Emptied(l)) = {HdrWritten(f, Emptied(l))}
  <2>1. HdrWritten(f, Emptied(l)) \in BoundedLogs
    BY <1>1 DEF HdrWritten, BoundedLogs
  <2>. QED BY <2>1 DEF StoreHdr, Stored
<1> DEFINE stored == UNION {NotedIn(l, h) : h \in StoreHdr(f, Emptied(l))}
           cut    == [log |-> Emptied(l), file |-> f, ok |-> FALSE, kept |-> FALSE]
<1>3. EraseAll(l, f) = stored \cup IF StoreMayFail THEN {cut} ELSE {}
  BY DEF EraseAll, Emptied, NotedIn
<1>4. CASE StoreMayFail /\ o = cut
  BY <1>1, <1>4
<1>5. ASSUME NEW h \in StoreHdr(f, Emptied(l)), o \in NotedIn(l, h)
      PROVE  /\ h \in {f, HdrWritten(f, Emptied(l))} \cap BoundedLogs
             /\ ~StoreMayFail => h = HdrWritten(f, Emptied(l))
             /\ \E p \in AddEntry(Emptied(l), h, ClearMark) : o = [p EXCEPT !.ok = TRUE]
  BY <1>2, <1>5 DEF NotedIn
<1>6. CASE o \in stored
  <2>1. PICK h \in StoreHdr(f, Emptied(l)) : o \in NotedIn(l, h)
    BY <1>6
  <2>. QED BY <1>1, <1>5, <2>1
<1>7. o \in stored \/ (StoreMayFail /\ o = cut)
  BY <1>3
<1>. QED BY <1>4, <1>6, <1>7

LEMMA EraseAllHas ==
  ASSUME NEW l, NEW f
  PROVE  /\ \A h \in StoreHdr(f, Emptied(l)) : NotedIn(l, h) \subseteq EraseAll(l, f)
         /\ StoreMayFail =>
              [log |-> Emptied(l), file |-> f, ok |-> FALSE, kept |-> FALSE] \in EraseAll(l, f)
<1>1. EraseAll(l, f) =
        (UNION {NotedIn(l, h) : h \in StoreHdr(f, Emptied(l))})
        \cup IF StoreMayFail
             THEN {[log |-> Emptied(l), file |-> f, ok |-> FALSE, kept |-> FALSE]}
             ELSE {}
  BY DEF EraseAll, Emptied, NotedIn
<1>. QED BY <1>1

LEMMA EraseAllType ==
  ASSUME NEW l \in BoundedLogs, NEW f \in BoundedLogs
  PROVE  EraseAll(l, f) \subseteq Added
<1>. SUFFICES ASSUME NEW o \in EraseAll(l, f) PROVE o \in Added
  OBVIOUS
<1>1. \A h \in BoundedLogs : AddEntry(Emptied(l), h, ClearMark) \subseteq Added
  BY EmptiedType, AddEntryType DEF Payloads
<1>2. \A p \in Added : [p EXCEPT !.ok = TRUE] \in Added
  BY DEF Added
<1>3. [log |-> Emptied(l), file |-> f, ok |-> FALSE, kept |-> FALSE] \in Added
  BY EmptiedType DEF Added
<1>4. CASE o = [log |-> Emptied(l), file |-> f, ok |-> FALSE, kept |-> FALSE]
  BY <1>3, <1>4
<1>5. CASE \E h \in BoundedLogs : \E p \in AddEntry(Emptied(l), h, ClearMark) :
             o = [p EXCEPT !.ok = TRUE]
  <2>1. PICK h \in BoundedLogs : \E p \in AddEntry(Emptied(l), h, ClearMark) :
          o = [p EXCEPT !.ok = TRUE]
    BY <1>5
  <2>2. PICK p \in AddEntry(Emptied(l), h, ClearMark) : o = [p EXCEPT !.ok = TRUE]
    BY <2>1
  <2>3. p \in Added
    BY <1>1, <2>2
  <2>. QED BY <1>2, <2>2, <2>3
<1>6. \/ \E h \in BoundedLogs : \E p \in AddEntry(Emptied(l), h, ClearMark) :
           o = [p EXCEPT !.ok = TRUE]
      \/ o = [log |-> Emptied(l), file |-> f, ok |-> FALSE, kept |-> FALSE]
  <2>. HIDE DEF Emptied
  <2>. QED BY EraseAllCases
<1>. QED BY <1>4, <1>5, <1>6
----------------------------------------------------------------------------

LEMMA InitInv == Init => IInv
<1>. SUFFICES ASSUME Init PROVE IInv
  OBVIOUS
<1>1. Numbered(0, Blank) \in Records
  BY NumberedType, RecordsMaxAssumption DEF Slots, Payloads
<1>2. BlankLog \in BoundedLogs
  BY <1>1, RecordsMaxAssumption, MaxBelowAssumption
  DEF BlankLog, BoundedLogs, SelIndexMin
<1>. QED BY <1>2, RsvMaxAssumption DEF Init, IInv, RsvMin

(* A step that replaces the log and the file by an outcome of an addition. *)
LEMMA AddStepInv ==
  ASSUME IInv, NEW ev \in Events,
         \E o \in AddEntry(log, file, ev) : log' = o.log /\ file' = o.file
  PROVE  log' \in BoundedLogs /\ file' \in BoundedLogs
<1>1. AddEntry(log, file, ev) \subseteq Added
  BY AddEntryType DEF Payloads, IInv
<1>. QED BY <1>1 DEF Added

LEMMA NextInv == IInv /\ [Next]_vars => IInv'
<1>. SUFFICES ASSUME IInv, [Next]_vars PROVE IInv'
  OBVIOUS
<1>1. CASE StorageRsvSel
  <2>1. rsvId' \in RsvMin .. RsvMax
    BY <1>1, RsvMaxAssumption DEF IInv, StorageRsvSel, NextRsv, RsvMin
  <2>. QED BY <1>1, <2>1 DEF StorageRsvSel, IInv
<1>2. ASSUME NEW ev \in Events, StorageAddSel(ev) PROVE IInv'
  <2>1. log' \in BoundedLogs /\ file' \in BoundedLogs
    BY <1>2, AddStepInv DEF StorageAddSel, Accept
  <2>2. cc' \in {"success", "error"}
    BY <1>2 DEF StorageAddSel, Accept, Code
  <2>. QED BY <1>2, <2>1, <2>2 DEF StorageAddSel, Accept, IInv
<1>3. ASSUME NEW ev \in Events, PlatformEvent(ev) PROVE IInv'
  <2>1. log' \in BoundedLogs /\ file' \in BoundedLogs
    BY <1>3, AddStepInv DEF PlatformEvent
  <2>. QED BY <1>3, <2>1 DEF PlatformEvent, IInv
<1>4. ASSUME NEW ev \in Events, InternalEvent(ev) PROVE IInv'
  <2>1. log' \in BoundedLogs /\ file' \in BoundedLogs
    BY <1>4, AddStepInv DEF InternalEvent
  <2>. QED BY <1>4, <2>1 DEF InternalEvent, IInv
<1>5. ASSUME NEW id \in Slots, StorageDelSelEntry(id) PROVE IInv'
  <2>1. DeleteEntry(log, file, id) \subseteq [log : BoundedLogs, file : BoundedLogs]
    BY <1>5, DeleteEntryType DEF StorageDelSelEntry, IInv
  <2>2. log' \in BoundedLogs /\ file' \in BoundedLogs
    BY <1>5, <2>1 DEF StorageDelSelEntry
  <2>. QED BY <1>5, <2>2 DEF StorageDelSelEntry, IInv
<1>6. ASSUME NEW rsv \in 0 .. RsvMax, StorageClrSel(rsv) PROVE IInv'
  <2>1. EraseAll(log, file) \subseteq Added
    BY EraseAllType DEF IInv
  <2>2. log' \in BoundedLogs /\ file' \in BoundedLogs
    BY <1>6, <2>1 DEF StorageClrSel, Added, IInv
  <2>3. cc' \in {"success", "error"}
    BY <1>6 DEF StorageClrSel, Code
  <2>. QED BY <1>6, <2>2, <2>3 DEF StorageClrSel, IInv
<1>7. CASE RefusedCommand
  BY <1>7 DEF RefusedCommand, IInv
<1>8. ASSUME NEW on \in BOOLEAN, SetGlobalEnables(on) PROVE IInv'
  BY <1>8 DEF SetGlobalEnables, IInv
<1>9. CASE Restart
  <2>1. enabled' \in BOOLEAN
    BY <1>9 DEF Restart, IInv
  <2>. QED BY <1>9, <2>1, RsvMaxAssumption DEF Restart, RsvMin, IInv
<1>10. ASSUME NEW rsv \in 0 .. RsvMax, EraseStatus(rsv) PROVE IInv'
  BY <1>10 DEF EraseStatus, Code, IInv
<1>11. CASE UNCHANGED vars
  BY <1>11 DEF vars, IInv
<1>. QED
  BY <1>1, <1>2, <1>3, <1>4, <1>5, <1>6, <1>7, <1>8, <1>9, <1>10, <1>11 DEF Next

(* The log, the file, the reservation id and the completion code stay      *)
(* within their types, whatever is sent and whatever fails.                *)
THEOREM TypeCorrect == Spec => []TypeOK
BY InvImplies, InitInv, NextInv, PTL DEF Spec

(* No sequence of handlers, failing stores and restarts drives the counter *)
(* of the log, or its copy in sel.bin, out of g_sel_data.                  *)
THEOREM CapacityIsKept == Spec => []CapacityKept
BY InvImplies, InitInv, NextInv, PTL DEF Spec
----------------------------------------------------------------------------
(* While stores succeed: the cache and the file agree. *)

LEMMA AddOneMirrors ==
  ASSUME ~StoreMayFail, NEW l \in BoundedLogs, NEW f \in BoundedLogs,
         NEW ev \in Payloads, SameEvents(f, l),
         NEW o \in AddOne(l, f, ev)
  PROVE  SameEvents(o.file, o.log)
<1>1. CASE IsFull(l)
  BY <1>1 DEF AddOne
<1>2. CASE ~IsFull(l)
  <2> DEFINE rec == Numbered(l.end, ev)
  <2>1. o.log = Grown(l, ev) /\ o.file = BothFile(l, f, ev)
    BY <1>2, AddOneCases
  <2>2. /\ l.end \in 0 .. RecordsMax - 1 \/ l.end \in -MaxBelow .. -2
        /\ l.end \in Int
    BY <1>2, NotFullHasRoom
  <2>3. o.file.end = l.end + 1 /\ o.file.data = WriteSlot(f.data, l.end, rec)
    BY <2>1 DEF BothFile, HdrFile, HdrWritten, DataWritten, Grown, BoundedLogs
  <2>4. o.log.end = l.end + 1 /\ o.log.data = WriteSlot(l.data, l.end, rec)
    BY <2>1 DEF Grown
  <2>5. ASSUME NEW i \in Slots, i < l.end + 1
        PROVE  o.file.data[i].event = o.log.data[i].event
    BY <2>2, <2>3, <2>4, <2>5 DEF SameEvents, WriteSlot, Slots
  <2>. QED BY <2>3, <2>4, <2>5 DEF SameEvents
<1>. QED BY <1>1, <1>2

LEMMA AddEntryMirrors ==
  ASSUME ~StoreMayFail, NEW l \in BoundedLogs, NEW f \in BoundedLogs,
         NEW ev \in Payloads, SameEvents(f, l),
         NEW o \in AddEntry(l, f, ev)
  PROVE  SameEvents(o.file, o.log)
<1>1. PICK p \in AddOne(l, f, ev) :
        o \in (IF p.ok /\ LeavesOne(l)
               THEN {[m EXCEPT !.ok = TRUE, !.kept = p.kept] : m \in AddOne(p.log, p.file, FullMark)}
               ELSE {p})
  BY DEF AddEntry
<1>2. SameEvents(p.file, p.log)
  BY AddOneMirrors
<1>3. p \in Added
  BY AddOneType
<1>4. CASE p.ok /\ LeavesOne(l)
  <2>1. PICK m \in AddOne(p.log, p.file, FullMark) : o = [m EXCEPT !.ok = TRUE, !.kept = p.kept]
    BY <1>1, <1>4
  <2>2. p.log \in BoundedLogs /\ p.file \in BoundedLogs /\ FullMark \in Payloads
    BY <1>3 DEF Added, Payloads
  <2>3. SameEvents(m.file, m.log)
    BY <1>2, <2>2, AddOneMirrors
  <2>4. m \in Added
    BY <2>2, AddOneType
  <2>5. o.log = m.log /\ o.file = m.file
    BY <2>1, <2>4 DEF Added
  <2>. QED BY <2>3, <2>5
<1>5. CASE ~(p.ok /\ LeavesOne(l))
  BY <1>1, <1>2, <1>5
<1>. QED BY <1>4, <1>5

LEMMA DeleteEntryMirrors ==
  ASSUME ~StoreMayFail, NEW l \in BoundedLogs, NEW f \in BoundedLogs,
         NEW id \in Slots, l.end > -MaxBelow, NEW o \in DeleteEntry(l, f, id)
  PROVE  SameEvents(o.file, o.log)
<1> DEFINE last == l.end - 1
           fHdr == HdrWritten(f, Gone(l, id))
           all(k) == RenumberUpTo(Shifted(l, id), k)
<1>1. o = [log |-> UpTo(l, id, last),
           file |-> IF last < 0 THEN fHdr ELSE AllFile(fHdr, l, id)]
  BY DeleteEntryCases
<1>2. fHdr.end = last /\ AllFile(fHdr, l, id).end = last
      /\ AllFile(fHdr, l, id).data = all(0)
  BY DEF HdrWritten, AllFile, Gone, BoundedLogs
<1>3. \A i \in Slots : \A k : all(k)[i].event = Shifted(l, id)[i].event
  BY DEF RenumberUpTo, Numbered
<1>4. last \in Int /\ \A i \in Slots : last < 0 => ~(i < last)
  BY RecordsMaxAssumption, MaxBelowAssumption DEF BoundedLogs, Slots
<1>. QED BY <1>1, <1>2, <1>3, <1>4 DEF SameEvents, UpTo

LEMMA EraseAllMirrors ==
  ASSUME ~StoreMayFail, NEW l \in BoundedLogs, NEW f \in BoundedLogs,
         NEW o \in EraseAll(l, f)
  PROVE  SameEvents(o.file, o.log)
<1> DEFINE fEmpty == HdrWritten(f, Emptied(l))
<1>1. /\ Emptied(l) \in BoundedLogs /\ Emptied(l).end = 0
      /\ fEmpty \in BoundedLogs
      /\ \E p \in AddEntry(Emptied(l), fEmpty, ClearMark) : o = [p EXCEPT !.ok = TRUE]
  BY EraseAllCases
<1>2. SameEvents(fEmpty, Emptied(l))
  BY <1>1, RecordsMaxAssumption DEF SameEvents, HdrWritten, BoundedLogs, Slots
<1>3. PICK p \in AddEntry(Emptied(l), fEmpty, ClearMark) : o = [p EXCEPT !.ok = TRUE]
  BY <1>1
<1>4. p \in Added
  BY <1>1, AddEntryType DEF Payloads
<1>5. SameEvents(p.file, p.log)
  BY <1>1, <1>2, AddEntryMirrors DEF Payloads
<1>. QED BY <1>3, <1>4, <1>5 DEF Added

LEMMA AddStepMirrors ==
  ASSUME ~StoreMayFail, IInv, FileMirrorsLog, NEW ev \in Events,
         \E o \in AddEntry(log, file, ev) : log' = o.log /\ file' = o.file
  PROVE  FileMirrorsLog'
BY AddEntryMirrors DEF IInv, FileMirrorsLog, Payloads

LEMMA NextMirrors ==
  ASSUME ~StoreMayFail, IInv, FileMirrorsLog, [Next]_vars
  PROVE  FileMirrorsLog'
<1>1. CASE StorageRsvSel
  BY <1>1 DEF StorageRsvSel, FileMirrorsLog
<1>2. ASSUME NEW ev \in Events,
             StorageAddSel(ev) \/ PlatformEvent(ev) \/ InternalEvent(ev)
      PROVE  FileMirrorsLog'
  BY <1>2, AddStepMirrors DEF StorageAddSel, Accept, PlatformEvent, InternalEvent
<1>3. ASSUME NEW id \in Slots, StorageDelSelEntry(id) PROVE FileMirrorsLog'
  BY <1>3, DeleteEntryMirrors DEF StorageDelSelEntry, FileMirrorsLog, IInv
<1>4. ASSUME NEW rsv \in 0 .. RsvMax, StorageClrSel(rsv) PROVE FileMirrorsLog'
  BY <1>4, EraseAllMirrors DEF StorageClrSel, FileMirrorsLog, IInv
<1>5. CASE RefusedCommand
  BY <1>5 DEF RefusedCommand, FileMirrorsLog
<1>6. ASSUME NEW on \in BOOLEAN, SetGlobalEnables(on) PROVE FileMirrorsLog'
  BY <1>6 DEF SetGlobalEnables, FileMirrorsLog
<1>7. CASE Restart
  BY <1>7 DEF Restart, FileMirrorsLog, SameEvents
<1>8. ASSUME NEW rsv \in 0 .. RsvMax, EraseStatus(rsv) PROVE FileMirrorsLog'
  BY <1>8 DEF EraseStatus, FileMirrorsLog
<1>9. CASE UNCHANGED vars
  BY <1>9 DEF vars, FileMirrorsLog
<1>. QED
  BY <1>1, <1>2, <1>3, <1>4, <1>5, <1>6, <1>7, <1>8, <1>9 DEF Next

(* As long as no store fails, what a restart reads back is the log as it   *)
(* was, event for event: whatever was added, deleted and cleared before,   *)
(* with deletes storing the array before they have renumbered it.          *)
THEOREM MirrorIsKept ==
  ASSUME ~StoreMayFail
  PROVE  Spec => []FileMirrorsLog
<1>1. Init => FileMirrorsLog
  BY DEF Init, FileMirrorsLog, SameEvents
<1>2. IInv /\ FileMirrorsLog /\ [Next]_vars => FileMirrorsLog'
  BY NextMirrors
<1>. QED BY <1>1, <1>2, InitInv, NextInv, PTL DEF Spec
----------------------------------------------------------------------------
(* While stores succeed: record ids and the marker of a full log. *)

LEMMA AddOneIds ==
  ASSUME NEW l \in BoundedLogs, NEW f \in BoundedLogs, NEW ev \in Payloads,
         IdsMatch(l), NEW o \in AddOne(l, f, ev)
  PROVE  IdsMatch(o.log)
<1>1. CASE IsFull(l)
  BY <1>1 DEF AddOne
<1>2. CASE ~IsFull(l)
  <2>1. l.end \in Int
    BY <1>2, NotFullHasRoom
  <2>2. o.log = Grown(l, ev)
    BY <1>2, AddOneCases
  <2>. QED BY <2>1, <2>2, RecordsMaxAssumption DEF IdsMatch, WriteSlot, Numbered, Slots, Grown
<1>. QED BY <1>1, <1>2

LEMMA AddEntryIds ==
  ASSUME NEW l \in BoundedLogs, NEW f \in BoundedLogs, NEW ev \in Payloads,
         IdsMatch(l), NEW o \in AddEntry(l, f, ev)
  PROVE  IdsMatch(o.log)
<1>1. PICK p \in AddOne(l, f, ev) :
        o \in (IF p.ok /\ LeavesOne(l)
               THEN {[m EXCEPT !.ok = TRUE, !.kept = p.kept] : m \in AddOne(p.log, p.file, FullMark)}
               ELSE {p})
  BY DEF AddEntry
<1>2. IdsMatch(p.log) /\ p \in Added
  BY AddOneIds, AddOneType
<1>3. CASE p.ok /\ LeavesOne(l)
  <2>1. PICK m \in AddOne(p.log, p.file, FullMark) : o = [m EXCEPT !.ok = TRUE, !.kept = p.kept]
    BY <1>1, <1>3
  <2>2. p.log \in BoundedLogs /\ p.file \in BoundedLogs /\ FullMark \in Payloads
    BY <1>2 DEF Added, Payloads
  <2>3. IdsMatch(m.log) /\ m \in Added
    BY <1>2, <2>2, AddOneIds, AddOneType
  <2>. QED BY <2>1, <2>3 DEF Added
<1>4. CASE ~(p.ok /\ LeavesOne(l))
  BY <1>1, <1>2, <1>4
<1>. QED BY <1>3, <1>4

LEMMA DeleteEntryIds ==
  ASSUME ~StoreMayFail, NEW l \in BoundedLogs, NEW f \in BoundedLogs,
         NEW id \in Slots, l.end > -MaxBelow, NEW o \in DeleteEntry(l, f, id)
  PROVE  IdsMatch(o.log)
<1>1. o.log = UpTo(l, id, l.end - 1)
  BY DeleteEntryCases
<1>2. l.end \in Int
  BY RecordsMaxAssumption, MaxBelowAssumption DEF BoundedLogs
<1>. QED
  BY <1>1, <1>2, RecordsMaxAssumption DEF IdsMatch, RenumberUpTo, Numbered, UpTo, Slots

LEMMA EraseAllIds ==
  ASSUME ~StoreMayFail, NEW l \in BoundedLogs, NEW f \in BoundedLogs,
         NEW o \in EraseAll(l, f)
  PROVE  IdsMatch(o.log)
<1> DEFINE fEmpty == HdrWritten(f, Emptied(l))
<1>1. /\ Emptied(l) \in BoundedLogs /\ Emptied(l).end = 0 /\ fEmpty \in BoundedLogs
      /\ \E p \in AddEntry(Emptied(l), fEmpty, ClearMark) : o = [p EXCEPT !.ok = TRUE]
  BY EraseAllCases
<1>2. IdsMatch(Emptied(l))
  BY <1>1, RecordsMaxAssumption DEF IdsMatch, Slots
<1>3. PICK p \in AddEntry(Emptied(l), fEmpty, ClearMark) : o = [p EXCEPT !.ok = TRUE]
  BY <1>1
<1>4. p \in Added /\ IdsMatch(p.log)
  BY <1>1, <1>2, AddEntryType, AddEntryIds DEF Payloads
<1>. QED BY <1>3, <1>4 DEF Added

LEMMA StepIds ==
  ASSUME ~StoreMayFail, IInv, [Next]_vars
  PROVE  /\ IdsMatch(log) /\ ~Restart => IdsMatch(log')
         /\ (\E id \in Slots : StorageDelSelEntry(id)) => IdsMatch(log')
<1>1. ASSUME NEW id \in Slots, StorageDelSelEntry(id) PROVE IdsMatch(log')
  BY <1>1, DeleteEntryIds DEF StorageDelSelEntry, IInv
<1>2. ASSUME IdsMatch(log), ~Restart PROVE IdsMatch(log')
  <2>1. ASSUME NEW ev \in Events,
               StorageAddSel(ev) \/ PlatformEvent(ev) \/ InternalEvent(ev)
        PROVE  IdsMatch(log')
    BY <1>2, <2>1, AddEntryIds
    DEF StorageAddSel, Accept, PlatformEvent, InternalEvent, IInv, Payloads
  <2>2. ASSUME NEW rsv \in 0 .. RsvMax, StorageClrSel(rsv) PROVE IdsMatch(log')
    BY <1>2, <2>2, EraseAllIds DEF StorageClrSel, IInv
  <2>3. log' = log => IdsMatch(log')
    BY <1>2
  <2>. QED
    BY <1>1, <1>2, <2>1, <2>2, <2>3
    DEF Next, vars, StorageRsvSel, EraseStatus, RefusedCommand, SetGlobalEnables
<1>. QED BY <1>1, <1>2

(* While stores succeed, only a restart can bring record ids out of step   *)
(* with positions, for any capacity and any order of commands.             *)
THEOREM IdsStayStable ==
  ASSUME ~StoreMayFail
  PROVE  Spec => IdsStable
<1>1. IInv /\ [Next]_vars => [IdsMatch(log) /\ ~Restart => IdsMatch(log')]_vars
  BY StepIds
<1>. QED BY <1>1, InitInv, NextInv, PTL DEF Spec, IdsStable

(* While stores succeed, every delete leaves each record with its position *)
(* as its id, also when a restart had brought back old ids.                *)
THEOREM DeletesRenumber ==
  ASSUME ~StoreMayFail
  PROVE  Spec => DeleteRenumbers
<1>1. IInv /\ [Next]_vars =>
        [(\E id \in Slots : StorageDelSelEntry(id)) => IdsMatch(log')]_vars
  BY StepIds
<1>. QED BY <1>1, InitInv, NextInv, PTL DEF Spec, DeleteRenumbers

LEMMA AddOneEnd ==
  ASSUME ~StoreMayFail, NEW l \in BoundedLogs, NEW f \in BoundedLogs,
         NEW ev \in Payloads, ~IsFull(l), NEW o \in AddOne(l, f, ev)
  PROVE  o.log = Grown(l, ev) /\ o.ok
BY AddOneCases

(* What an addition does to a log with room: the event, and the marker     *)
(* after it exactly when it left room for one record.                      *)
LEMMA AddEntryRoom ==
  ASSUME ~StoreMayFail, NEW l \in BoundedLogs, NEW f \in BoundedLogs,
         NEW ev \in Payloads, ~IsFull(l), l.end >= 0, NEW o \in AddEntry(l, f, ev)
  PROVE  /\ l.end \in 0 .. RecordsMax - 1
         /\ l.end = RecordsMax - 2 =>
              /\ o.log.end = l.end + 2
              /\ o.log.data =
                   WriteSlot(WriteSlot(l.data, l.end, Numbered(l.end, ev)),
                             l.end + 1, Numbered(l.end + 1, FullMark))
         /\ l.end # RecordsMax - 2 =>
              /\ o.log.end = l.end + 1
              /\ o.log.data = WriteSlot(l.data, l.end, Numbered(l.end, ev))
<1>1. PICK p \in AddOne(l, f, ev) :
        o \in (IF p.ok /\ LeavesOne(l)
               THEN {[m EXCEPT !.ok = TRUE, !.kept = p.kept] : m \in AddOne(p.log, p.file, FullMark)}
               ELSE {p})
  BY DEF AddEntry
<1>2. /\ l.end \in 0 .. RecordsMax - 1
      /\ p.log.end = l.end + 1
      /\ p.log.data = WriteSlot(l.data, l.end, Numbered(l.end, ev))
      /\ p.ok
  <2>1. l.end \in 0 .. RecordsMax - 1
    BY NotFullHasRoom, RecordsMaxAssumption, MaxBelowAssumption
  <2>2. p.log = Grown(l, ev) /\ p.ok
    BY AddOneEnd
  <2>. QED BY <2>1, <2>2 DEF Grown
<1>3. p \in Added
  BY AddOneType
<1>4. LeavesOne(l) <=> l.end = RecordsMax - 2
  BY <1>2, RecordsMaxAssumption DEF LeavesOne, NumEntries, SelIndexMin
<1>5. CASE LeavesOne(l)
  <2>1. PICK m \in AddOne(p.log, p.file, FullMark) :
          o = [m EXCEPT !.ok = TRUE, !.kept = p.kept]
    BY <1>1, <1>2, <1>5
  <2>2. p.log \in BoundedLogs /\ p.file \in BoundedLogs /\ FullMark \in Payloads
    BY <1>3 DEF Added, Payloads
  <2>3. p.log.end = RecordsMax - 1
    BY <1>2, <1>4, <1>5, RecordsMaxAssumption
  <2>4. ~IsFull(p.log)
    BY <2>3, RecordsMaxAssumption DEF IsFull, NumEntries, SelIndexMin
  <2>5. m.log.end = p.log.end + 1
        /\ m.log.data = WriteSlot(p.log.data, p.log.end, Numbered(p.log.end, FullMark))
    <3>1. m.log = Grown(p.log, FullMark)
      BY <2>2, <2>4, AddOneEnd
    <3>. QED BY <3>1 DEF Grown
  <2>6. m \in Added
    BY <2>2, AddOneType
  <2>7. o.log = m.log
    BY <2>1, <2>6 DEF Added
  <2>. QED BY <1>2, <1>4, <1>5, <2>5, <2>7, RecordsMaxAssumption
<1>6. CASE ~LeavesOne(l)
  BY <1>1, <1>2, <1>4, <1>6
<1>. QED BY <1>5, <1>6

(* In front of the array, additions change no slot and take the end no     *)
(* further than -1, the marker included.                                   *)
LEMMA AddOneBelow ==
  ASSUME NEW l \in BoundedLogs, NEW f \in BoundedLogs, NEW ev \in Payloads,
         l.end < 0, NEW o \in AddOne(l, f, ev)
  PROVE  /\ o.log.end < 0 /\ o.log.end >= l.end /\ o.log.data = l.data
         /\ o.file.data = f.data
         /\ o.file.end < 0 \/ o.file.end = f.end
<1>1. CASE IsFull(l)
  <2>1. o.log = l /\ o.file = f
    BY <1>1 DEF AddOne
  <2>2. l.end \in Int
    BY RecordsMaxAssumption, MaxBelowAssumption DEF BoundedLogs
  <2>. QED BY <2>1, <2>2
<1>2. CASE ~IsFull(l)
  <2>1. l.end \in Int /\ l.end <= -2 /\ l.end \notin Slots
    BY <1>2, NotFullHasRoom, RecordsMaxAssumption, MaxBelowAssumption
  <2>2. l.data \in [Slots -> Records] /\ f.data \in [Slots -> Records]
    BY DEF BoundedLogs
  <2>3. \A rec : WriteSlot(l.data, l.end, rec) = l.data /\ WriteSlot(f.data, l.end, rec) = f.data
    BY <2>1, <2>2 DEF WriteSlot
  <2>4. /\ o.log = Grown(l, ev)
        /\ o.file \in {f, HdrFile(l, f, ev), DataFile(l, f, ev), BothFile(l, f, ev)}
    BY <1>2, AddOneCases
  <2>5. Grown(l, ev).end = l.end + 1 /\ Grown(l, ev).data = l.data
    BY <2>3 DEF Grown
  <2>6. HdrFile(l, f, ev).end = l.end + 1 /\ HdrFile(l, f, ev).data = f.data
    BY <2>5 DEF HdrFile, HdrWritten, BoundedLogs
  <2>7. DataFile(l, f, ev).end = f.end /\ DataFile(l, f, ev).data = f.data
    BY <2>3 DEF DataFile, DataWritten, BoundedLogs
  <2>8. BothFile(l, f, ev).end = l.end + 1 /\ BothFile(l, f, ev).data = f.data
    <3>1. HdrFile(l, f, ev) = [end |-> l.end + 1, data |-> f.data]
      BY <2>5 DEF HdrFile, HdrWritten, BoundedLogs
    <3>. QED BY <2>3, <3>1 DEF BothFile, DataWritten
  <2>. QED BY <2>1, <2>4, <2>5, <2>6, <2>7, <2>8
<1>. QED BY <1>1, <1>2

LEMMA AddEntryBelow ==
  ASSUME NEW l \in BoundedLogs, NEW f \in BoundedLogs, NEW ev \in Payloads,
         l.end < 0, NEW o \in AddEntry(l, f, ev)
  PROVE  /\ o.log.end < 0 /\ o.log.end >= l.end /\ o.log.data = l.data
         /\ o.file.data = f.data
         /\ o.file.end < 0 \/ o.file.end = f.end
<1>1. PICK p \in AddOne(l, f, ev) :
        o \in (IF p.ok /\ LeavesOne(l)
               THEN {[m EXCEPT !.ok = TRUE, !.kept = p.kept] : m \in AddOne(p.log, p.file, FullMark)}
               ELSE {p})
  BY DEF AddEntry
<1>2. /\ p.log.end < 0 /\ p.log.end >= l.end /\ p.log.data = l.data
      /\ p.file.data = f.data
      /\ p.file.end < 0 \/ p.file.end = f.end
  BY AddOneBelow
<1>3. p \in Added
  BY AddOneType
<1>4. CASE p.ok /\ LeavesOne(l)
  <2>1. PICK m \in AddOne(p.log, p.file, FullMark) :
          o = [m EXCEPT !.ok = TRUE, !.kept = p.kept]
    BY <1>1, <1>4
  <2>2. p.log \in BoundedLogs /\ p.file \in BoundedLogs /\ FullMark \in Payloads
    BY <1>3 DEF Added, Payloads
  <2>3. /\ m.log.end < 0 /\ m.log.end >= p.log.end /\ m.log.data = p.log.data
        /\ m.file.data = p.file.data
        /\ m.file.end < 0 \/ m.file.end = p.file.end
    BY <1>2, <2>2, AddOneBelow
  <2>4. m \in Added
    BY <2>2, AddOneType
  <2>5. o.log = m.log /\ o.file = m.file
    BY <2>1, <2>4 DEF Added
  <2>6. l.end \in Int /\ p.log.end \in Int /\ m.log.end \in Int
    BY <2>2, <2>4, RecordsMaxAssumption, MaxBelowAssumption DEF BoundedLogs, Added
  <2>. QED BY <1>2, <2>3, <2>5, <2>6
<1>5. CASE ~(p.ok /\ LeavesOne(l))
  BY <1>1, <1>2, <1>5
<1>. QED BY <1>4, <1>5

LEMMA AddEntryFull ==
  ASSUME NEW l \in BoundedLogs, NEW f \in BoundedLogs, NEW ev \in Payloads,
         IsFull(l), NEW o \in AddEntry(l, f, ev)
  PROVE  o.log = l /\ o.file = f
BY DEF AddEntry, AddOne

(* An erase leaves one record, the note that the log was cleared. *)
LEMMA EraseAllOne ==
  ASSUME ~StoreMayFail, NEW l \in BoundedLogs, NEW f \in BoundedLogs,
         NEW o \in EraseAll(l, f)
  PROVE  o.log.end = 1 /\ o.log.data[0].event = ClearMark /\ o.ok = TRUE
<1> DEFINE fEmpty == HdrWritten(f, Emptied(l))
<1>1. /\ Emptied(l) \in BoundedLogs /\ Emptied(l).end = 0 /\ fEmpty \in BoundedLogs
      /\ \E p \in AddEntry(Emptied(l), fEmpty, ClearMark) : o = [p EXCEPT !.ok = TRUE]
  BY EraseAllCases
<1>2. ~IsFull(Emptied(l))
  BY <1>1, RecordsMaxAssumption DEF IsFull, NumEntries, SelIndexMin
<1>3. PICK p \in AddEntry(Emptied(l), fEmpty, ClearMark) : o = [p EXCEPT !.ok = TRUE]
  BY <1>1
<1>4. p \in Added
  BY <1>1, AddEntryType DEF Payloads
<1>5. p.log.end = 1 /\ p.log.data = WriteSlot(Emptied(l).data, 0, Numbered(0, ClearMark))
  <2>. HIDE DEF fEmpty
  <2>1. ClearMark \in Payloads
    BY DEF Payloads
  <2>2. Emptied(l).end # RecordsMax - 2
    BY <1>1, RecordsMaxAssumption
  <2>3. /\ p.log.end = Emptied(l).end + 1
        /\ p.log.data = WriteSlot(Emptied(l).data, Emptied(l).end,
                                  Numbered(Emptied(l).end, ClearMark))
    <3>1. /\ Emptied(l) \in BoundedLogs /\ fEmpty \in BoundedLogs
          /\ Emptied(l).end >= 0 /\ p \in AddEntry(Emptied(l), fEmpty, ClearMark)
      BY <1>1, <1>3
    <3>. QED BY <1>2, <2>1, <2>2, <3>1, AddEntryRoom
  <2>. QED BY <1>1, <2>3
<1>6. 0 \in Slots
  BY RecordsMaxAssumption DEF Slots
<1>. QED BY <1>3, <1>4, <1>5, <1>6 DEF Added, Numbered, WriteSlot

LEMMA StepNegative ==
  ASSUME ~StoreMayFail, IInv, FileMirrorsLog, [Next]_vars, log.end < 0
  PROVE  log'.end < 0 \/ \E rsv \in 0 .. RsvMax : StorageClrSel(rsv)
<1>1. log \in BoundedLogs /\ file \in BoundedLogs /\ log.end \in Int
  BY RecordsMaxAssumption, MaxBelowAssumption DEF IInv, BoundedLogs
<1>2. ASSUME NEW ev \in Events,
             StorageAddSel(ev) \/ PlatformEvent(ev) \/ InternalEvent(ev)
      PROVE  log'.end < 0
  <2>1. PICK o \in AddEntry(log, file, ev) : log' = o.log
    BY <1>2 DEF StorageAddSel, Accept, PlatformEvent, InternalEvent
  <2>. QED BY <1>1, <2>1, AddEntryBelow DEF Payloads
<1>3. ASSUME NEW id \in Slots, StorageDelSelEntry(id) PROVE log'.end < 0
  <2>1. log'.end = log.end - 1
    BY <1>1, <1>3, DeleteEntryCases DEF StorageDelSelEntry, UpTo
  <2>. QED BY <1>1, <2>1
<1>4. CASE Restart
  BY <1>4 DEF Restart, FileMirrorsLog, SameEvents
<1>. QED
  BY <1>2, <1>3, <1>4
  DEF Next, vars, StorageRsvSel, EraseStatus, RefusedCommand, SetGlobalEnables

(* While stores succeed, an end that deletes took below zero stays there   *)
(* through every event and restart, until the log is cleared.              *)
THEOREM NegativeStaysNegative ==
  ASSUME ~StoreMayFail
  PROVE  Spec => NegativeUntilCleared
<1>1. IInv /\ FileMirrorsLog /\ [Next]_vars =>
        [log.end < 0 => log'.end < 0 \/ \E rsv \in 0 .. RsvMax : StorageClrSel(rsv)]_vars
  BY StepNegative
<1>2. Spec => []FileMirrorsLog
  BY MirrorIsKept
<1>. QED BY <1>1, <1>2, InitInv, NextInv, PTL DEF Spec, NegativeUntilCleared

LEMMA StepFullMark ==
  ASSUME ~StoreMayFail, IInv, FileMirrorsLog, [Next]_vars,
         NumEntries(log.end) <= RecordsMax - 2,
         NumEntries(log'.end) >= RecordsMax - 1, log'.end > 0
  PROVE  IsFull(log') /\ log'.data[RecordsMax - 1].event = FullMark
<1>0. log.end >= 0
  <2>. SUFFICES ASSUME log.end < 0 PROVE FALSE
    BY RecordsMaxAssumption, MaxBelowAssumption DEF IInv, BoundedLogs
  <2>1. ~(log'.end < 0) /\ log'.end \in Int
    BY NextInv, RecordsMaxAssumption, MaxBelowAssumption DEF IInv, BoundedLogs
  <2>2. PICK rsv \in 0 .. RsvMax : StorageClrSel(rsv)
    BY <2>1, StepNegative
  <2>3. log' = log \/ log'.end = 1
    BY <2>2, EraseAllOne DEF StorageClrSel, IInv
  <2>. QED BY <2>1, <2>3, RecordsMaxAssumption DEF NumEntries, SelIndexMin
<1>1. log.end \in 0 .. RecordsMax - 2 /\ ~IsFull(log)
  BY <1>0, RecordsMaxAssumption, MaxBelowAssumption
  DEF IInv, BoundedLogs, NumEntries, IsFull, SelIndexMin
<1>2. log'.end \in RecordsMax - 1 .. RecordsMax
  BY NextInv, RecordsMaxAssumption, MaxBelowAssumption
  DEF IsFull, NumEntries, SelIndexMin, IInv, BoundedLogs
<1>3. ASSUME NEW ev \in Events,
             StorageAddSel(ev) \/ PlatformEvent(ev) \/ InternalEvent(ev)
      PROVE  IsFull(log') /\ log'.data[RecordsMax - 1].event = FullMark
  <2>1. PICK o \in AddEntry(log, file, ev) : log' = o.log
    BY <1>3 DEF StorageAddSel, Accept, PlatformEvent, InternalEvent
  <2>2. log \in BoundedLogs /\ file \in BoundedLogs /\ ev \in Payloads
    BY DEF IInv, Payloads
  <2>3. /\ log.end = RecordsMax - 2 =>
             /\ o.log.end = log.end + 2
             /\ o.log.data = WriteSlot(WriteSlot(log.data, log.end, Numbered(log.end, ev)),
                                       log.end + 1, Numbered(log.end + 1, FullMark))
        /\ log.end # RecordsMax - 2 => o.log.end = log.end + 1
    BY <1>0, <1>1, <2>2, AddEntryRoom
  <2>4. log.end = RecordsMax - 2
    BY <1>1, <1>2, <2>1, <2>3, RecordsMaxAssumption
  <2>5. log.end + 1 = RecordsMax - 1 /\ RecordsMax - 1 \in Slots
    BY <2>4, RecordsMaxAssumption DEF Slots
  <2>6. IsFull(log')
    BY <2>1, <2>3, <2>4, RecordsMaxAssumption DEF IsFull, NumEntries, SelIndexMin
  <2>. QED BY <2>1, <2>3, <2>4, <2>5, <2>6 DEF Numbered, WriteSlot
<1>4. ASSUME NEW id \in Slots, StorageDelSelEntry(id) PROVE FALSE
  <2>1. log'.end = log.end - 1
    BY <1>4, DeleteEntryCases DEF StorageDelSelEntry, UpTo, IInv
  <2>. QED BY <1>1, <1>2, <2>1, RecordsMaxAssumption
<1>5. ASSUME NEW rsv \in 0 .. RsvMax, StorageClrSel(rsv) PROVE FALSE
  <2>1. log' = log \/ log'.end = 1
    BY <1>5, EraseAllOne DEF StorageClrSel, IInv
  <2>. QED BY <1>1, <1>2, <2>1, RecordsMaxAssumption
<1>6. CASE Restart
  BY <1>1, <1>2, <1>6, RecordsMaxAssumption DEF Restart, FileMirrorsLog, SameEvents
<1>7. log' # log
  BY <1>1, <1>2, RecordsMaxAssumption
<1>. QED
  BY <1>3, <1>4, <1>5, <1>6, <1>7
  DEF Next, vars, StorageRsvSel, EraseStatus, RefusedCommand, SetGlobalEnables

(* While stores succeed, the addition that takes the last but one free     *)
(* place takes the last one too, with the marker, for any capacity of at   *)
(* least three records.                                                    *)
THEOREM FillingLeavesMark ==
  ASSUME ~StoreMayFail
  PROVE  Spec => FullMarkOnFilling
<1>1. IInv /\ FileMirrorsLog /\ [Next]_vars =>
        [/\ NumEntries(log.end) <= RecordsMax - 2
         /\ NumEntries(log'.end) >= RecordsMax - 1 /\ log'.end > 0
         => IsFull(log') /\ log'.data[RecordsMax - 1].event = FullMark]_vars
  BY StepFullMark
<1>2. Spec => []FileMirrorsLog
  BY MirrorIsKept
<1>. QED BY <1>1, <1>2, InitInv, NextInv, PTL DEF Spec, FullMarkOnFilling

LEMMA DeleteStep ==
  ASSUME ~StoreMayFail, IInv, NEW id \in Slots, StorageDelSelEntry(id), id < log.end
  PROVE  /\ log'.end = log.end - 1
         /\ \A i \in Slots : i < log'.end =>
              log'.data[i].event = log.data[IF i < id THEN i ELSE i + 1].event
<1>1. log' = [end |-> log.end - 1, data |-> RenumberUpTo(Shifted(log, id), log.end - 1)]
  BY DeleteEntryCases DEF StorageDelSelEntry, UpTo, IInv
<1>2. ASSUME NEW i \in Slots, i < log'.end
      PROVE  log'.data[i].event = log.data[IF i < id THEN i ELSE i + 1].event
  <2>1. log'.data[i].event = Shifted(log, id)[i].event
    BY <1>1 DEF RenumberUpTo, Numbered
  <2>2. i \in Int /\ id \in Int /\ i < log.end - 1
    BY <1>1, <1>2, RecordsMaxAssumption DEF Slots
  <2>3. Shifted(log, id)[i] = log.data[IF i < id THEN i ELSE i + 1]
    BY <2>2 DEF Shifted
  <2>. QED BY <2>1, <2>3
<1>. QED BY <1>1, <1>2

(* While stores succeed, a delete removes exactly the record of the given  *)
(* id, for any capacity and whatever was deleted before.                   *)
THEOREM DeletesRemoveGiven ==
  ASSUME ~StoreMayFail
  PROVE  Spec => DeleteRemovesGiven
<1>1. IInv /\ [Next]_vars =>
        [\A id \in Slots :
           StorageDelSelEntry(id) /\ id < log.end =>
             /\ log'.end = log.end - 1
             /\ \A i \in Slots : i < log'.end =>
                  log'.data[i].event = log.data[IF i < id THEN i ELSE i + 1].event]_vars
  BY DeleteStep
<1>. QED BY <1>1, InitInv, NextInv, PTL DEF Spec, DeleteRemovesGiven
----------------------------------------------------------------------------
(***************************************************************************)
(* Facts about additions whose stores may fail, for the modules built on   *)
(* this one.                                                               *)
(***************************************************************************)
LEMMA EventsSeq ==
  ASSUME NEW l \in BoundedLogs, l.end >= 0
  PROVE  /\ EventsOf(l) \in Seq(Payloads)
         /\ Len(EventsOf(l)) = l.end
         /\ \A k \in 1 .. l.end : EventsOf(l)[k] = l.data[k - 1].event
<1>1. l.end \in 0 .. RecordsMax /\ l.data \in [Slots -> Records]
  BY RecordsMaxAssumption, MaxBelowAssumption DEF BoundedLogs
<1>2. \A k \in 1 .. l.end : l.data[k - 1].event \in Payloads
  <2>. SUFFICES ASSUME NEW k \in 1 .. l.end PROVE l.data[k - 1].event \in Payloads
    OBVIOUS
  <2>1. k - 1 \in Slots
    BY <1>1, RecordsMaxAssumption DEF Slots
  <2>2. l.data[k - 1] \in Records
    BY <1>1, <2>1
  <2>. QED BY <2>2 DEF Records
<1>. QED BY <1>1, <1>2, RecordsMaxAssumption DEF EventsOf

(* What an addition never touches, what it leaves in the cache, and what   *)
(* it leaves in the file when both its stores reached it.                  *)
Extends(l, f, o) ==
  /\ o.log.end >= l.end
  /\ o.file.end = f.end \/ o.file.end > l.end
  /\ \A s \in Slots :
       s < l.end => o.log.data[s] = l.data[s] /\ o.file.data[s] = f.data[s]

Written(l, ev, o) ==
  l.end \in Slots /\ o.log.end > l.end /\ o.log.data[l.end].event = ev

Stays(l, ev, o) ==
  l.end \in Slots /\ o.file.end > l.end /\ o.file.data[l.end].event = ev

LEMMA AddOneKeeps ==
  ASSUME NEW l \in BoundedLogs, NEW f \in BoundedLogs, NEW ev \in Payloads,
         NEW o \in AddOne(l, f, ev)
  PROVE  /\ Extends(l, f, o)
         /\ o.ok => ~IsFull(l) /\ o.log.end = l.end + 1
         /\ l.end \in Slots /\ o.ok => Written(l, ev, o)
         /\ l.end \in Slots /\ o.kept => o.ok /\ Stays(l, ev, o)
<1>0. l.end \in Int /\ f.end \in Int
  BY RecordsMaxAssumption, MaxBelowAssumption DEF BoundedLogs
<1>1. CASE IsFull(l)
  <2>1. o = [log |-> l, file |-> f, ok |-> FALSE, kept |-> FALSE]
    BY <1>1 DEF AddOne
  <2>. QED BY <1>0, <2>1 DEF Extends
<1>2. CASE ~IsFull(l)
  <2> DEFINE rec  == Numbered(l.end, ev)
  <2>1. /\ o.log = Grown(l, ev)
        /\ o.file \in {f, HdrFile(l, f, ev), DataFile(l, f, ev), BothFile(l, f, ev)}
        /\ o.kept => o.ok /\ o.file = BothFile(l, f, ev)
    BY <1>2, AddOneCases
  <2>2. o.log.end = l.end + 1 /\ o.log.data = WriteSlot(l.data, l.end, rec)
    BY <2>1 DEF Grown
  <2>3. HdrFile(l, f, ev) = [end |-> l.end + 1, data |-> f.data]
    BY DEF HdrFile, HdrWritten, Grown, BoundedLogs
  <2>4. DataFile(l, f, ev) = [end |-> f.end, data |-> WriteSlot(f.data, l.end, rec)]
    BY DEF DataFile, DataWritten, BoundedLogs
  <2>5. BothFile(l, f, ev) = [end |-> l.end + 1, data |-> WriteSlot(f.data, l.end, rec)]
    BY <2>3 DEF BothFile, DataWritten
  <2>6. /\ o.file.end \in {f.end, l.end + 1}
        /\ o.file.data \in {f.data, WriteSlot(f.data, l.end, rec)}
    BY <2>1, <2>3, <2>4, <2>5
  <2>7. ASSUME NEW s \in Slots, s < l.end, NEW d
        PROVE  WriteSlot(d, l.end, rec)[s] = d[s]
    BY <1>0, <2>7 DEF WriteSlot
  <2>8. Extends(l, f, o)
    <3>. HIDE DEF rec
    <3>1. o.log.end >= l.end /\ (o.file.end = f.end \/ o.file.end > l.end)
      BY <1>0, <2>2, <2>6
    <3>2. ASSUME NEW s \in Slots, s < l.end
          PROVE  o.log.data[s] = l.data[s] /\ o.file.data[s] = f.data[s]
      BY <2>2, <2>6, <2>7, <3>2
    <3>. QED BY <3>1, <3>2 DEF Extends
  <2>9. l.end \in Slots => Written(l, ev, o)
    BY <1>0, <2>2 DEF Written, WriteSlot, Numbered
  <2>10. l.end \in Slots /\ o.kept => o.ok /\ Stays(l, ev, o)
    BY <1>0, <2>1, <2>5 DEF Stays, WriteSlot, Numbered
  <2>. QED BY <1>2, <2>2, <2>8, <2>9, <2>10
<1>. QED BY <1>1, <1>2

LEMMA AddEntryKeeps ==
  ASSUME NEW l \in BoundedLogs, NEW f \in BoundedLogs, NEW ev \in Payloads,
         NEW o \in AddEntry(l, f, ev)
  PROVE  /\ Extends(l, f, o)
         /\ l.end \in Slots /\ o.ok => Written(l, ev, o)
         /\ l.end \in Slots /\ o.kept => o.ok /\ Stays(l, ev, o)
<1>1. PICK p \in AddOne(l, f, ev) :
        o \in (IF p.ok /\ LeavesOne(l)
               THEN {[m EXCEPT !.ok = TRUE, !.kept = p.kept] : m \in AddOne(p.log, p.file, FullMark)}
               ELSE {p})
  BY DEF AddEntry
<1>2. /\ Extends(l, f, p)
      /\ p.ok => ~IsFull(l) /\ p.log.end = l.end + 1
      /\ l.end \in Slots /\ p.ok => Written(l, ev, p)
      /\ l.end \in Slots /\ p.kept => p.ok /\ Stays(l, ev, p)
  BY AddOneKeeps
<1>3. p \in Added
  BY AddOneType
<1>4. CASE p.ok /\ LeavesOne(l)
  <2>1. PICK m \in AddOne(p.log, p.file, FullMark) :
          o = [m EXCEPT !.ok = TRUE, !.kept = p.kept]
    BY <1>1, <1>4
  <2>2. p.log \in BoundedLogs /\ p.file \in BoundedLogs /\ FullMark \in Payloads
    BY <1>3 DEF Added, Payloads
  <2>3. Extends(p.log, p.file, m) /\ m \in Added
    BY <2>2, AddOneKeeps, AddOneType
  <2>4. o.log = m.log /\ o.file = m.file /\ o.ok = TRUE /\ o.kept = p.kept
    BY <2>1, <2>3 DEF Added
  <2>5. /\ l.end \in Int /\ p.log.end \in Int /\ m.log.end \in Int
        /\ p.file.end \in Int /\ m.file.end \in Int /\ f.end \in Int
    BY <2>2, <2>3, RecordsMaxAssumption, MaxBelowAssumption DEF BoundedLogs, Added
  <2>6. Extends(l, f, o)
    BY <1>2, <2>3, <2>4, <2>5 DEF Extends, Slots
  <2>7. ASSUME l.end \in Slots
        PROVE  Written(l, ev, o) /\ (o.kept => o.ok /\ Stays(l, ev, o))
    BY <1>2, <1>4, <2>3, <2>4, <2>5, <2>7 DEF Extends, Written, Stays
  <2>. QED BY <2>6, <2>7
<1>5. CASE ~(p.ok /\ LeavesOne(l))
  BY <1>1, <1>2, <1>5
<1>. QED BY <1>4, <1>5

(* The record is in the cache even when a store fails. *)
LEMMA AddOneWrites ==
  ASSUME NEW l \in BoundedLogs, NEW f \in BoundedLogs, NEW ev \in Payloads,
         ~IsFull(l), l.end >= 0, NEW o \in AddOne(l, f, ev)
  PROVE  Written(l, ev, o)
<1>1. l.end \in Slots /\ l.end \in Int
  BY NotFullHasRoom
<1>2. o.log = Grown(l, ev)
  BY AddOneCases
<1>. QED BY <1>1, <1>2 DEF Written, WriteSlot, Numbered, Grown

LEMMA AddEntryWrites ==
  ASSUME NEW l \in BoundedLogs, NEW f \in BoundedLogs, NEW ev \in Payloads,
         ~IsFull(l), l.end >= 0, NEW o \in AddEntry(l, f, ev)
  PROVE  Written(l, ev, o)
<1>1. PICK p \in AddOne(l, f, ev) :
        o \in (IF p.ok /\ LeavesOne(l)
               THEN {[m EXCEPT !.ok = TRUE, !.kept = p.kept] : m \in AddOne(p.log, p.file, FullMark)}
               ELSE {p})
  BY DEF AddEntry
<1>2. Written(l, ev, p) /\ p \in Added
  BY AddOneWrites, AddOneType
<1>3. CASE p.ok /\ LeavesOne(l)
  <2>1. PICK m \in AddOne(p.log, p.file, FullMark) :
          o = [m EXCEPT !.ok = TRUE, !.kept = p.kept]
    BY <1>1, <1>3
  <2>2. p.log \in BoundedLogs /\ p.file \in BoundedLogs /\ FullMark \in Payloads
    BY <1>2 DEF Added, Payloads
  <2>3. m \in Added
    BY <2>2, AddOneType
  <2>4. o.ok = TRUE
    BY <2>1, <2>3 DEF Added
  <2>. QED BY <1>2, <2>4, AddEntryKeeps DEF Written
<1>4. CASE ~(p.ok /\ LeavesOne(l))
  BY <1>1, <1>2, <1>4
<1>. QED BY <1>3, <1>4
=============================================================================

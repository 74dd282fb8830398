-------------------------- MODULE SelPromiseProofs --------------------------
(***************************************************************************)
(* Proofs of what the log promises to those that use it, for every         *)
(* capacity, every set of events and any number of clients: it implements  *)
(* EventLog, a reservation is worth what its holder takes it for, and an   *)
(* acknowledged record stays.                                              *)
(***************************************************************************)
EXTENDS SelRefines, SelReservation, SelDurable, SelLogProofs, Sequences, SequenceTheorems

(***************************************************************************)
(* Reservations, for any length of the counter's turn.                     *)
(***************************************************************************)
(* The id handed out n reservations before the current one. *)
IdBefore(n) == IF rsvId > n THEN rsvId - n ELSE rsvId - n + RsvMax

(* The inductive invariant: the age of a live reservation determines its   *)
(* id, and no two live reservations have the same age.                     *)
RInv ==
  /\ rsvId \in RsvMin .. RsvMax
  /\ hold \in [Clients -> 0 .. RsvMax]
  /\ age \in [Clients -> 0 .. RsvMax]
  /\ voided \subseteq Clients
  /\ \A c \in Clients : Live(c) => hold[c] = IdBefore(age[c])
  /\ \A c, d \in Clients : c # d /\ Live(c) /\ Live(d) => age[c] # age[d]

USE DEF RsvMin, NoId

LEMMA InitR == ResInit => RInv
BY RsvMaxAssumption DEF ResInit, Init, RInv, Live

LEMMA ReserveR ==
  ASSUME RInv, NEW c \in Clients, Reserve(c)
  PROVE  RInv'
<1>1. rsvId \in 1 .. RsvMax /\ RsvMax \in Nat /\ RsvMax >= 1
  BY RsvMaxAssumption DEF RInv
<1>2. rsvId' = IF rsvId = RsvMax THEN 1 ELSE rsvId + 1
  BY DEF Reserve, StorageRsvSel, NextRsv
<1>3. rsvId' \in 1 .. RsvMax
  BY <1>1, <1>2
<1>4. hold' = [hold EXCEPT ![c] = rsvId'] /\ voided' = voided \ {c}
  BY DEF Reserve
<1>5. hold' \in [Clients -> 0 .. RsvMax] /\ voided' \subseteq Clients
  BY <1>3, <1>4 DEF RInv
<1>6. \A d \in Clients : age'[d] = IF d = c THEN 0
                                   ELSE IF age[d] < RsvMax THEN age[d] + 1
                                   ELSE RsvMax
  BY DEF Reserve
<1>7. age' \in [Clients -> 0 .. RsvMax]
  BY <1>1 DEF Reserve, RInv
<1>8. ASSUME NEW d \in Clients, d # c, Live(d)'
      PROVE  Live(d) /\ age'[d] = age[d] + 1 /\ hold'[d] = hold[d]
  BY <1>1, <1>4, <1>6, <1>8 DEF RInv, Live
<1>9. ASSUME NEW d \in Clients, Live(d)'
      PROVE  hold'[d] = IdBefore(age[d])'
  <2>1. CASE d = c
    BY <1>3, <1>4, <1>6, <2>1 DEF IdBefore, RInv
  <2>2. CASE d # c
    <3>1. Live(d) /\ age'[d] = age[d] + 1 /\ hold'[d] = hold[d]
      BY <1>8, <1>9, <2>2
    <3>2. hold[d] = IF rsvId > age[d] THEN rsvId - age[d] ELSE rsvId - age[d] + RsvMax
      BY <3>1 DEF RInv, IdBefore
    <3>3. age[d] \in 0 .. RsvMax /\ age'[d] < RsvMax
      BY <1>9 DEF RInv, Live
    <3>. QED BY <1>1, <1>2, <3>1, <3>2, <3>3 DEF IdBefore
  <2>. QED BY <2>1, <2>2
<1>10. ASSUME NEW d \in Clients, NEW e \in Clients, d # e, Live(d)', Live(e)'
       PROVE  age'[d] # age'[e]
  <2>1. CASE d = c
    BY <1>6, <1>8, <1>10, <2>1 DEF RInv
  <2>2. CASE e = c
    BY <1>6, <1>8, <1>10, <2>2 DEF RInv
  <2>3. CASE d # c /\ e # c
    BY <1>8, <1>10, <2>3 DEF RInv
  <2>. QED BY <2>1, <2>2, <2>3
<1>. QED BY <1>3, <1>5, <1>7, <1>9, <1>10 DEF RInv

LEMMA NextR == RInv /\ [ResNext]_allVars => RInv'
<1>. SUFFICES ASSUME RInv, [ResNext]_allVars PROVE RInv'
  OBVIOUS
<1>1. ASSUME NEW c \in Clients, Reserve(c) PROVE RInv'
  BY <1>1, ReserveR
<1>2. ASSUME rsvId' = rsvId, UNCHANGED clientVars PROVE RInv'
  BY <1>2 DEF clientVars, RInv, Live, IdBefore
<1>3. ASSUME NEW c \in Clients, Clear(c) PROVE RInv'
  BY <1>2, <1>3 DEF Clear, StorageClrSel
<1>4. CASE Meanwhile
  BY <1>2, <1>4
  DEF Meanwhile, StorageAddSel, Accept, PlatformEvent, InternalEvent, StorageDelSelEntry,
      EraseStatus, RefusedCommand, SetGlobalEnables
<1>5. CASE Reboot
  BY <1>5, RsvMaxAssumption DEF Reboot, Restart, RInv, Live
<1>6. CASE UNCHANGED allVars
  BY <1>2, <1>6 DEF allVars, vars
<1>. QED BY <1>1, <1>3, <1>4, <1>5, <1>6 DEF ResNext

(* Two clients never hold the same id while both reservations are younger  *)
(* than one turn of the counter, however many clients share it.            *)
THEOREM HoldersAlwaysDiffer == ResSpec => []HoldersDiffer
<1>1. RInv => HoldersDiffer
  <2>. SUFFICES ASSUME RInv, NEW c \in Clients, NEW d \in Clients, c # d,
                       Live(c), Live(d)
                PROVE  hold[c] # hold[d]
    BY DEF HoldersDiffer
  <2>1. age[c] # age[d] /\ hold[c] = IdBefore(age[c]) /\ hold[d] = IdBefore(age[d])
    BY DEF RInv
  <2>2. age[c] \in 0 .. RsvMax - 1 /\ age[d] \in 0 .. RsvMax - 1
        /\ rsvId \in 1 .. RsvMax
    BY RsvMaxAssumption DEF RInv, Live
  <2>. QED BY <2>1, <2>2, RsvMaxAssumption DEF IdBefore
<1>. QED BY <1>1, InitR, NextR, PTL DEF ResSpec

(* The client that reserved last holds the valid id, whatever was added,   *)
(* deleted and cleared since.                                              *)
THEOREM LatestCanAlwaysClear == ResSpec => []LatestCanClear
<1>1. RInv => LatestCanClear
  BY RsvMaxAssumption DEF RInv, LatestCanClear, IdBefore
<1>. QED BY <1>1, InitR, NextR, PTL DEF ResSpec

(* Only the client that reserved last clears the log, apart from ids that  *)
(* are a whole turn of the counter old or from before a restart.           *)
THEOREM OnlyLatestEverClears == ResSpec => OnlyLatestClears
<1>1. ASSUME RInv, NEW c \in Clients, log' # log \/ file' # file, Clear(c), Live(c)
      PROVE  age[c] = 0
  <2>1. hold[c] = rsvId
    BY <1>1 DEF Clear, StorageClrSel, Reserved
  <2>2. hold[c] = IdBefore(age[c]) /\ age[c] \in 0 .. RsvMax - 1 /\ rsvId \in 1 .. RsvMax
    BY <1>1, RsvMaxAssumption DEF RInv, Live
  <2>. QED BY <2>1, <2>2, RsvMaxAssumption DEF IdBefore
<1>2. RInv /\ [ResNext]_allVars =>
        [\A c \in Clients :
           /\ log' # log \/ file' # file
           /\ Clear(c)
           => age[c] = 0 \/ ~Live(c)]_allVars
  BY <1>1
<1>. QED BY <1>2, InitR, NextR, PTL DEF ResSpec, OnlyLatestClears
----------------------------------------------------------------------------
(***************************************************************************)
(* SelLog implements EventLog.                                             *)
(***************************************************************************)
(* The events of an addition that finds room in the array. *)
LEMMA AddEvents ==
  ASSUME ~StoreMayFail, NEW l \in BoundedLogs, NEW f \in BoundedLogs,
         NEW ev \in Payloads, ~IsFull(l), l.end >= 0, NEW o \in AddEntry(l, f, ev)
  PROVE  EventsOf(o.log) = IF l.end = RecordsMax - 2
                           THEN EventsOf(l) \o <<ev, FullMark>>
                           ELSE Append(EventsOf(l), ev)
<1>1. o.log \in BoundedLogs
  BY AddEntryType DEF Added
<1>2. l.end \in 0 .. RecordsMax - 1
  BY NotFullHasRoom, RecordsMaxAssumption, MaxBelowAssumption
<1>3. EventsOf(l) \in Seq(Payloads) /\ Len(EventsOf(l)) = l.end
      /\ \A k \in 1 .. l.end : EventsOf(l)[k] = l.data[k - 1].event
  BY <1>2, EventsSeq
<1>4. CASE l.end = RecordsMax - 2
  <2> DEFINE t == EventsOf(l) \o <<ev, FullMark>>
  <2>1. /\ o.log.end = l.end + 2
        /\ o.log.data = WriteSlot(WriteSlot(l.data, l.end, Numbered(l.end, ev)),
                                  l.end + 1, Numbered(l.end + 1, FullMark))
    BY <1>4, AddEntryRoom
  <2>2. /\ EventsOf(o.log) \in Seq(Payloads)
        /\ Len(EventsOf(o.log)) = l.end + 2
        /\ \A k \in 1 .. l.end + 2 : EventsOf(o.log)[k] = o.log.data[k - 1].event
    BY <1>1, <1>2, <2>1, EventsSeq
  <2>3. <<ev, FullMark>> \in Seq(Payloads) /\ Len(<<ev, FullMark>>) = 2
    BY DEF Payloads
  <2>4. /\ t \in Seq(Payloads)
        /\ Len(t) = l.end + 2
        /\ \A k \in 1 .. l.end + 2 :
             t[k] = IF k <= l.end THEN EventsOf(l)[k]
                                  ELSE <<ev, FullMark>>[k - l.end]
    BY <1>3, <2>3, ConcatProperties
  <2>. HIDE DEF t
  <2>5. \A k \in 1 .. l.end + 2 : EventsOf(o.log)[k] = t[k]
    <3>. SUFFICES ASSUME NEW k \in 1 .. l.end + 2
                  PROVE  EventsOf(o.log)[k] = t[k]
      OBVIOUS
    <3>1. k - 1 \in Slots
      BY <1>2, <1>4, RecordsMaxAssumption DEF Slots
    <3>2. CASE k <= l.end
      <4>1. k \in 1 .. l.end /\ k - 1 # l.end /\ k - 1 # l.end + 1
        BY <1>2, <3>2
      <4>2. t[k] = l.data[k - 1].event
        BY <1>3, <2>4, <3>2, <4>1
      <4>3. o.log.data[k - 1] = l.data[k - 1]
        BY <2>1, <3>1, <4>1 DEF WriteSlot
      <4>. QED BY <2>2, <4>2, <4>3
    <3>3. CASE k = l.end + 1
      <4>0. k - l.end = 1 /\ ~(k <= l.end) /\ <<ev, FullMark>>[1] = ev
        BY <1>2, <3>3
      <4>1. t[k] = ev
        BY <2>4, <4>0
      <4>2. k - 1 = l.end /\ l.end # l.end + 1
        BY <1>2, <3>3
      <4>3. o.log.data[k - 1] = Numbered(l.end, ev)
        BY <2>1, <3>1, <4>2 DEF WriteSlot
      <4>4. EventsOf(o.log)[k] = ev
        BY <2>2, <4>3 DEF Numbered
      <4>. QED BY <4>1, <4>4
    <3>4. CASE k = l.end + 2
      <4>1. t[k] = FullMark
        BY <1>2, <2>4, <3>4
      <4>2. k - 1 = l.end + 1
        BY <1>2, <3>4
      <4>3. o.log.data[k - 1] = Numbered(l.end + 1, FullMark)
        BY <2>1, <3>1, <4>2 DEF WriteSlot
      <4>4. EventsOf(o.log)[k] = FullMark
        BY <2>2, <4>3 DEF Numbered
      <4>. QED BY <4>1, <4>4
    <3>. QED BY <1>2, <3>2, <3>3, <3>4
  <2>6. EventsOf(o.log) = t
    BY <2>2, <2>4, <2>5, SeqEqual
  <2>. QED BY <1>4, <2>6 DEF t
<1>5. CASE l.end # RecordsMax - 2
  <2> DEFINE t == Append(EventsOf(l), ev)
  <2>1. /\ o.log.end = l.end + 1
        /\ o.log.data = WriteSlot(l.data, l.end, Numbered(l.end, ev))
    BY <1>5, AddEntryRoom
  <2>2. /\ EventsOf(o.log) \in Seq(Payloads)
        /\ Len(EventsOf(o.log)) = l.end + 1
        /\ \A k \in 1 .. l.end + 1 : EventsOf(o.log)[k] = o.log.data[k - 1].event
    BY <1>1, <1>2, <2>1, EventsSeq
  <2>3. /\ t \in Seq(Payloads)
        /\ Len(t) = l.end + 1
        /\ t[l.end + 1] = ev
        /\ \A k \in 1 .. l.end : t[k] = EventsOf(l)[k]
    BY <1>3
  <2>. HIDE DEF t
  <2>4. \A k \in 1 .. l.end + 1 : EventsOf(o.log)[k] = t[k]
    <3>. SUFFICES ASSUME NEW k \in 1 .. l.end + 1
                  PROVE  EventsOf(o.log)[k] = t[k]
      OBVIOUS
    <3>1. k - 1 \in Slots
      BY <1>2, RecordsMaxAssumption DEF Slots
    <3>2. CASE k <= l.end
      <4>1. k \in 1 .. l.end /\ k - 1 # l.end
        BY <1>2, <3>2
      <4>2. t[k] = l.data[k - 1].event
        BY <1>3, <2>3, <4>1
      <4>3. o.log.data[k - 1] = l.data[k - 1]
        BY <2>1, <3>1, <4>1 DEF WriteSlot
      <4>. QED BY <2>2, <4>2, <4>3
    <3>3. CASE k = l.end + 1
      <4>1. k - 1 = l.end
        BY <1>2, <3>3
      <4>2. o.log.data[k - 1] = Numbered(l.end, ev)
        BY <2>1, <3>1, <4>1 DEF WriteSlot
      <4>3. EventsOf(o.log)[k] = ev
        BY <2>2, <4>2 DEF Numbered
      <4>. QED BY <2>3, <3>3, <4>3
    <3>. QED BY <1>2, <3>2, <3>3
  <2>5. EventsOf(o.log) = t
    BY <2>2, <2>3, <2>4, SeqEqual
  <2>. QED BY <1>5, <2>5 DEF t
<1>. QED BY <1>4, <1>5

(* The events of a delete: the record at the given id goes, or the last    *)
(* one when no record has that id.                                         *)
LEMMA DeleteEvents ==
  ASSUME ~StoreMayFail, NEW l \in BoundedLogs, NEW f \in BoundedLogs,
         NEW id \in Slots, l.end > 0, NEW o \in DeleteEntry(l, f, id)
  PROVE  \E k \in 1 .. l.end :
           EventsOf(o.log) = [j \in 1 .. l.end - 1 |->
                                IF j < k THEN EventsOf(l)[j] ELSE EventsOf(l)[j + 1]]
<1> DEFINE k == IF id < l.end THEN id + 1 ELSE l.end
<1>1. l.end \in 1 .. RecordsMax /\ k \in 1 .. l.end
  BY RecordsMaxAssumption, MaxBelowAssumption DEF BoundedLogs, Slots
<1>2. o.log = [end |-> l.end - 1, data |-> RenumberUpTo(Shifted(l, id), l.end - 1)]
  <2>1. l.end > -MaxBelow
    BY <1>1, MaxBelowAssumption
  <2>. QED BY <2>1, DeleteEntryCases DEF UpTo
<1>3. \A j \in 1 .. l.end : EventsOf(l)[j] = l.data[j - 1].event
  BY <1>1, EventsSeq
<1>4. ASSUME NEW j \in 1 .. l.end - 1
      PROVE  o.log.data[j - 1].event =
               IF j < k THEN EventsOf(l)[j] ELSE EventsOf(l)[j + 1]
  <2>1. j - 1 \in Slots /\ j - 1 < l.end - 1 /\ j \in 1 .. l.end /\ j + 1 \in 1 .. l.end
    BY <1>1, RecordsMaxAssumption DEF Slots
  <2>2. o.log.data[j - 1].event = Shifted(l, id)[j - 1].event
    BY <1>2, <2>1 DEF RenumberUpTo, Numbered
  <2>3. Shifted(l, id)[j - 1] = IF id <= j - 1 THEN l.data[j] ELSE l.data[j - 1]
    BY <2>1 DEF Shifted
  <2>4. j < k <=> ~(id <= j - 1)
    BY <1>1, <2>1 DEF Slots
  <2>. QED BY <1>3, <2>1, <2>2, <2>3, <2>4
<1>5. EventsOf(o.log) = [j \in 1 .. l.end - 1 |-> o.log.data[j - 1].event]
  BY <1>2 DEF EventsOf
<1>. HIDE DEF k
<1>6. EventsOf(o.log) = [j \in 1 .. l.end - 1 |->
                           IF j < k THEN EventsOf(l)[j] ELSE EventsOf(l)[j + 1]]
  BY <1>4, <1>5
<1>. QED BY <1>1, <1>6

LEMMA EraseEvents ==
  ASSUME ~StoreMayFail, NEW l \in BoundedLogs, NEW f \in BoundedLogs,
         NEW o \in EraseAll(l, f)
  PROVE  EventsOf(o.log) = <<ClearMark>>
<1>1. o.log.end = 1 /\ o.log.data[0].event = ClearMark
  BY EraseAllOne
<1>2. EventsOf(o.log) = [k \in 1 .. 1 |-> o.log.data[k - 1].event]
  BY <1>1 DEF EventsOf
<1>3. \A k \in 1 .. 1 : o.log.data[k - 1].event = ClearMark
  BY <1>1
<1>. QED BY <1>2, <1>3
----------------------------------------------------------------------------

(* A log whose end is below zero has no events. *)
LEMMA NoEvents ==
  ASSUME NEW l, NEW m, l.end \in Int, m.end \in Int, l.end <= 0, m.end <= 0
  PROVE  EventsOf(l) = EventsOf(m)
<1>1. 1 .. l.end = {} /\ 1 .. m.end = {}
  OBVIOUS
<1>. QED BY <1>1 DEF EventsOf

LEMMA AddStepRefines ==
  ASSUME ~StoreMayFail, IInv, NEW ev \in Events,
         NEW o \in AddEntry(log, file, ev), log' = o.log
  PROVE  [Abstract!LogNext]_(EventsOf(log))
<1>1. log \in BoundedLogs /\ file \in BoundedLogs /\ ev \in Payloads
  BY DEF IInv, Payloads
<1>2. CASE IsFull(log)
  <2>1. log' = log
    BY <1>1, <1>2, AddEntryFull
  <2>. QED BY <2>1
<1>3. CASE log.end < 0
  <2>1. o.log.end < 0 /\ log.end \in Int /\ o.log.end \in Int
    BY <1>1, <1>3, AddEntryBelow, AddEntryType, RecordsMaxAssumption, MaxBelowAssumption
    DEF Added, BoundedLogs
  <2>2. EventsOf(log') = EventsOf(log)
    BY <1>3, <2>1, NoEvents
  <2>3. EventsOf(log)' = EventsOf(log')
    BY DEF EventsOf
  <2>. QED BY <2>2, <2>3
<1>4. CASE ~IsFull(log) /\ ~(log.end < 0)
  <2>0. log.end >= 0
    BY <1>1, <1>4, RecordsMaxAssumption, MaxBelowAssumption DEF BoundedLogs
  <2>2. log.end \in 0 .. RecordsMax - 1
    BY <1>1, <1>4, <2>0, NotFullHasRoom, RecordsMaxAssumption, MaxBelowAssumption
  <2>1. Len(EventsOf(log)) = log.end
    BY <1>1, <2>2, EventsSeq
  <2>3. EventsOf(log') = IF log.end = RecordsMax - 2
                         THEN EventsOf(log) \o <<ev, FullMark>>
                         ELSE Append(EventsOf(log), ev)
    BY <1>1, <1>4, <2>0, AddEvents
  <2>4. EventsOf(log)' = EventsOf(log')
    BY DEF EventsOf
  <2>5. Abstract!AppendEvent(ev)
    BY <2>1, <2>2, <2>3, <2>4, RecordsMaxAssumption DEF Abstract!AppendEvent
  <2>. QED BY <2>5 DEF Abstract!LogNext
<1>. QED BY <1>2, <1>3, <1>4

LEMMA StepRefines ==
  ASSUME ~StoreMayFail, IInv, FileMirrorsLog, [Next]_vars
  PROVE  [Abstract!LogNext]_(EventsOf(log))
<1>1. log \in BoundedLogs /\ file \in BoundedLogs /\ log.end \in Int
  BY RecordsMaxAssumption, MaxBelowAssumption DEF IInv, BoundedLogs
<1>2. EventsOf(log)' = EventsOf(log')
  BY DEF EventsOf
<1>3. ASSUME NEW ev \in Events,
             StorageAddSel(ev) \/ PlatformEvent(ev) \/ InternalEvent(ev)
      PROVE  [Abstract!LogNext]_(EventsOf(log))
  BY <1>3, AddStepRefines DEF StorageAddSel, Accept, PlatformEvent, InternalEvent
<1>4. ASSUME NEW id \in Slots, StorageDelSelEntry(id)
      PROVE  [Abstract!LogNext]_(EventsOf(log))
  <2>1. PICK o \in DeleteEntry(log, file, id) : log' = o.log
    BY <1>4 DEF StorageDelSelEntry
  <2>2. CASE log.end > 0
    <3>1. PICK k \in 1 .. log.end :
            EventsOf(o.log) = [j \in 1 .. log.end - 1 |->
                                 IF j < k THEN EventsOf(log)[j] ELSE EventsOf(log)[j + 1]]
      BY <1>1, <2>2, DeleteEvents
    <3>2. Len(EventsOf(log)) = log.end
      BY <1>1, <2>2, EventsSeq
    <3>3. k \in 1 .. Len(EventsOf(log)) /\ Abstract!RemoveEvent(k)
      BY <1>2, <2>1, <3>1, <3>2 DEF Abstract!RemoveEvent
    <3>. QED BY <3>3 DEF Abstract!LogNext
  <2>3. CASE ~(log.end > 0)
    <3>1. log'.end = log.end - 1
      BY <1>1, <1>4, <2>1, DeleteEntryCases DEF StorageDelSelEntry, UpTo
    <3>2. log.end <= 0 /\ log'.end <= 0 /\ log'.end \in Int
      BY <1>1, <2>3, <3>1
    <3>3. EventsOf(log') = EventsOf(log)
      BY <1>1, <3>2, NoEvents
    <3>. QED BY <1>2, <3>3
  <2>. QED BY <2>2, <2>3
<1>5. ASSUME NEW rsv \in 0 .. RsvMax, StorageClrSel(rsv)
      PROVE  [Abstract!LogNext]_(EventsOf(log))
  <2>1. log' = log \/ EventsOf(log') = <<ClearMark>>
    BY <1>1, <1>5, EraseEvents DEF StorageClrSel
  <2>. QED BY <1>2, <2>1 DEF Abstract!LogNext, Abstract!ClearEvents
<1>6. CASE Restart
  <2>1. EventsOf(file) = EventsOf(log)
    <3>1. file.end = log.end
      BY DEF FileMirrorsLog, SameEvents
    <3>2. \A k \in 1 .. log.end : file.data[k - 1].event = log.data[k - 1].event
      BY <1>1, RecordsMaxAssumption
      DEF FileMirrorsLog, SameEvents, Slots, BoundedLogs
    <3>. QED BY <3>1, <3>2 DEF EventsOf
  <2>. QED BY <1>2, <1>6, <2>1 DEF Restart
<1>7. log' = log => [Abstract!LogNext]_(EventsOf(log))
  BY <1>2
<1>. QED
  BY <1>3, <1>4, <1>5, <1>6, <1>7
  DEF Next, vars, StorageRsvSel, EraseStatus, RefusedCommand, SetGlobalEnables

(* As long as stores succeed the handlers, markers, renumberings and       *)
(* restarts of the System Event Log are appends, removals and clears of a  *)
(* sequence of events, whatever the capacity.                              *)
THEOREM Implementation ==
  ASSUME ~StoreMayFail
  PROVE  Spec => ImplementsEventLog
<1>1. Init => Abstract!LogInit
  BY DEF Init, BlankLog, EventsOf, SelIndexMin, Abstract!LogInit
<1>2. IInv /\ FileMirrorsLog /\ [Next]_vars => [Abstract!LogNext]_(EventsOf(log))
  BY StepRefines
<1>3. Spec => []FileMirrorsLog
  BY MirrorIsKept
<1>. QED
  BY <1>1, <1>2, <1>3, InitInv, NextInv, PTL
  DEF Spec, ImplementsEventLog, Abstract!LogSpec
----------------------------------------------------------------------------
(***************************************************************************)
(* Acknowledged records survive failing stores and restarts.               *)
(***************************************************************************)
(* A delete leaves the shifted events in the cache, however far its store  *)
(* came.                                                                   *)
LEMMA DeleteEntryShifts ==
  ASSUME NEW l \in BoundedLogs, NEW f \in BoundedLogs, NEW id \in Slots,
         l.end > -MaxBelow, NEW o \in DeleteEntry(l, f, id)
  PROVE  /\ o.log.end = l.end - 1
         /\ \A s \in Slots : o.log.data[s].event = Shifted(l, id)[s].event
<1>1. o.log = Gone(l, id) \/ \E k \in Int : o.log = UpTo(l, id, k)
  BY DeleteEntryCases
<1>2. CASE o.log = Gone(l, id)
  BY <1>2 DEF Gone
<1>3. ASSUME NEW k \in Int, o.log = UpTo(l, id, k)
      PROVE  /\ o.log.end = l.end - 1
             /\ \A s \in Slots : o.log.data[s].event = Shifted(l, id)[s].event
  <2>1. o.log.end = l.end - 1 /\ o.log.data = RenumberUpTo(Shifted(l, id), k)
    BY <1>3 DEF UpTo
  <2>2. ASSUME NEW s \in Slots, NEW d PROVE RenumberUpTo(d, k)[s].event = d[s].event
    BY DEF RenumberUpTo, Numbered
  <2>. QED BY <2>1, <2>2
<1>. QED BY <1>1, <1>2, <1>3
----------------------------------------------------------------------------
(* The inductive invariant: what is owed is always in the cache, and what  *)
(* is kept is in the file too unless a delete did not reach it.            *)
Owing ==
  /\ DOMAIN owed \subseteq Slots
  /\ Holds(log, DOMAIN owed)
  /\ synced => kept \subseteq DOMAIN owed /\ Holds(file, kept)

DInv == IInv /\ Owing

LEMMA InitD == DurInit => DInv
BY InitInv DEF DurInit, DInv, Owing, Holds, NoneOwed

LEMMA AddKeepsOwed ==
  ASSUME DInv, NEW ev \in Events,
         NEW o \in AddEntry(log, file, ev), log' = o.log, file' = o.file
  PROVE  /\ \A s \in DOMAIN owed : s < log'.end /\ log'.data[s].event = owed[s]
         /\ synced => \A s \in kept :
                        s < file'.end /\ file'.data[s].event = owed[s]
         /\ log.end \in Slots /\ o.ok => Written(log, ev, o)
         /\ log.end \in Slots /\ o.kept => o.ok /\ Stays(log, ev, o)
<1>1. log \in BoundedLogs /\ file \in BoundedLogs /\ ev \in Payloads
  BY DEF DInv, IInv, Payloads
<1>2. /\ Extends(log, file, o)
      /\ log.end \in Slots /\ o.ok => Written(log, ev, o)
      /\ log.end \in Slots /\ o.kept => o.ok /\ Stays(log, ev, o)
      /\ o \in Added
  BY <1>1, AddEntryKeeps, AddEntryType
<1>3. log.end \in Int /\ log'.end \in Int /\ file'.end \in Int /\ file.end \in Int
  BY <1>1, <1>2, RecordsMaxAssumption, MaxBelowAssumption DEF BoundedLogs, Added
<1>4. \A s \in DOMAIN owed : s \in Slots /\ s \in Int
  BY RecordsMaxAssumption DEF DInv, Owing, Slots
<1>5. \A s \in DOMAIN owed : s < log.end /\ log.data[s].event = owed[s]
  BY DEF DInv, Owing, Holds
<1>6. synced => kept \subseteq DOMAIN owed
                /\ \A s \in kept : s < file.end /\ file.data[s].event = owed[s]
  BY DEF DInv, Owing, Holds
<1>7. \A s \in DOMAIN owed :
        /\ s < log.end /\ log'.data[s] = log.data[s] /\ file'.data[s] = file.data[s]
        /\ s < log'.end /\ (s < file.end => s < file'.end)
  BY <1>2, <1>3, <1>4, <1>5 DEF Extends
<1>. QED BY <1>2, <1>5, <1>6, <1>7

LEMMA AddD ==
  ASSUME DInv, NEW ev \in Events, Add(ev)
  PROVE  Owing'
<1>1. PICK o \in AddEntry(log, file, ev) :
        /\ Accept(o)
        /\ owed' = IF o.ok /\ log.end \in Slots
                   THEN [s \in DOMAIN owed \cup {log.end} |->
                           IF s = log.end THEN ev ELSE owed[s]]
                   ELSE owed
        /\ kept' = IF o.kept /\ log.end \in Slots THEN kept \cup {log.end} ELSE kept
  BY DEF Add
<1>2. log' = o.log /\ file' = o.file /\ synced' = synced
  BY <1>1 DEF Accept, Add
<1>3. /\ \A s \in DOMAIN owed : s < log'.end /\ log'.data[s].event = owed[s]
      /\ synced => \A s \in kept : s < file'.end /\ file'.data[s].event = owed[s]
      /\ log.end \in Slots /\ o.ok => Written(log, ev, o)
      /\ log.end \in Slots /\ o.kept => o.ok /\ Stays(log, ev, o)
  BY <1>2, AddKeepsOwed
<1>4. DOMAIN owed \subseteq Slots /\ (synced => kept \subseteq DOMAIN owed)
  BY DEF DInv, Owing
<1>5. log.end \notin DOMAIN owed
  <2>1. log.end \in Int
    BY RecordsMaxAssumption, MaxBelowAssumption DEF DInv, IInv, BoundedLogs
  <2>. QED BY <2>1 DEF DInv, Owing, Holds
<1>6. CASE o.ok /\ log.end \in Slots
  <2>1. owed' = [s \in DOMAIN owed \cup {log.end} |->
                   IF s = log.end THEN ev ELSE owed[s]]
    BY <1>1, <1>6
  <2>2. DOMAIN owed' = DOMAIN owed \cup {log.end}
        /\ owed'[log.end] = ev /\ \A s \in DOMAIN owed : owed'[s] = owed[s]
    BY <1>5, <2>1
  <2>3. Holds(log, DOMAIN owed)'
    BY <1>2, <1>3, <1>6, <2>2 DEF Holds, Written
  <2>4. CASE o.kept
    <3>1. kept' = kept \cup {log.end}
      BY <1>1, <1>6, <2>4
    <3>2. synced' => kept' \subseteq DOMAIN owed' /\ Holds(file, kept)'
      BY <1>2, <1>3, <1>4, <1>6, <2>2, <2>4, <3>1 DEF Holds, Stays
    <3>. QED BY <1>4, <1>6, <2>2, <2>3, <3>2 DEF Owing
  <2>5. CASE ~o.kept
    <3>1. kept' = kept
      BY <1>1, <2>5
    <3>2. synced' => kept' \subseteq DOMAIN owed' /\ Holds(file, kept)'
      BY <1>2, <1>3, <1>4, <2>2, <3>1 DEF Holds
    <3>. QED BY <1>4, <1>6, <2>2, <2>3, <3>2 DEF Owing
  <2>. QED BY <2>4, <2>5
<1>7. CASE ~(o.ok /\ log.end \in Slots)
  <2>1. owed' = owed /\ kept' = kept
    BY <1>1, <1>3, <1>7
  <2>. QED BY <1>2, <1>3, <1>4, <2>1 DEF Owing, Holds
<1>. QED BY <1>6, <1>7

LEMMA DeleteD ==
  ASSUME DInv, NEW id \in Slots, Delete(id)
  PROVE  Owing'
<1> DEFINE gone    == IF id < log.end THEN id ELSE log.end - 1
           from(s) == IF s < gone THEN s ELSE s + 1
<1>1. log \in BoundedLogs /\ file \in BoundedLogs
  BY DEF DInv, IInv
<1>2. log'.end = log.end - 1
      /\ \A s \in Slots : log'.data[s].event = Shifted(log, id)[s].event
  BY <1>1, DeleteEntryShifts DEF Delete, StorageDelSelEntry
<1>3. owed' = [s \in {t \in Slots : from(t) \in DOMAIN owed} |-> owed[from(s)]]
  BY DEF Delete
<1>4. log.end \in Int /\ id \in Int /\ \A s \in Slots : s \in Int
  BY <1>1, RecordsMaxAssumption, MaxBelowAssumption DEF BoundedLogs, Slots
<1>5. ASSUME NEW s \in DOMAIN owed'
      PROVE  s \in Slots /\ s < log'.end /\ log'.data[s].event = owed'[s]
  <2>1. s \in Slots /\ from(s) \in DOMAIN owed /\ owed'[s] = owed[from(s)]
    BY <1>3, <1>5
  <2>2. from(s) < log.end /\ log.data[from(s)].event = owed[from(s)]
    BY <2>1 DEF DInv, Owing, Holds
  <2>3. /\ s \in Int /\ gone \in Int /\ gone <= log.end - 1
        /\ gone = id \/ log.end - 1 <= id
    <3>1. s \in Int
      BY <1>4, <2>1
    <3>. QED BY <1>4, <3>1
  <2>4. CASE s < gone
    <3>1. from(s) = s
      BY <2>4
    <3>2. s < log.end - 1 /\ s < id
      BY <1>4, <2>3, <2>4
    <3>3. Shifted(log, id)[s] = log.data[s]
      BY <1>4, <2>1, <2>3, <3>2 DEF Shifted
    <3>. QED BY <1>2, <2>1, <2>2, <3>1, <3>2, <3>3
  <2>5. CASE ~(s < gone)
    <3>1. from(s) = s + 1
      BY <2>5
    <3>2. s < log.end - 1
      BY <1>4, <2>2, <2>3, <3>1
    <3>3. id <= s
      BY <1>4, <2>3, <2>5, <3>2
    <3>4. Shifted(log, id)[s] = log.data[s + 1]
      BY <2>1, <3>2, <3>3 DEF Shifted
    <3>. QED BY <1>2, <2>1, <2>2, <3>1, <3>2, <3>4
  <2>. QED BY <2>4, <2>5
<1>6. Holds(log, DOMAIN owed)' /\ (DOMAIN owed \subseteq Slots)'
  BY <1>5 DEF Holds
<1>7. synced' = SameEvents(file', log') /\ kept' = DOMAIN owed'
  BY DEF Delete
<1>8. synced' => Holds(file, kept)'
  BY <1>5, <1>7 DEF Holds, SameEvents
<1>. QED BY <1>6, <1>7, <1>8 DEF Owing

LEMMA RebootD ==
  ASSUME DInv, RebootOwing
  PROVE  Owing'
<1>1. log' = file /\ file' = file /\ kept' = DOMAIN owed'
  BY DEF RebootOwing, Restart
<1>2. owed' = [s \in (IF synced THEN kept ELSE {}) |-> owed[s]]
  BY DEF RebootOwing
<1>3. CASE synced
  <2>1. DOMAIN owed' = kept /\ \A s \in kept : owed'[s] = owed[s]
    BY <1>2, <1>3
  <2>2. kept \subseteq Slots /\ Holds(file, kept)
    BY <1>3 DEF DInv, Owing
  <2>. QED BY <1>1, <2>1, <2>2 DEF Owing, Holds
<1>4. CASE ~synced
  <2>1. DOMAIN owed' = {}
    BY <1>2, <1>4
  <2>. QED BY <1>1, <2>1 DEF Owing, Holds
<1>. QED BY <1>3, <1>4

LEMMA NextD == DInv /\ [DurNext]_durVars => DInv'
<1>. SUFFICES ASSUME DInv, [DurNext]_durVars PROVE DInv'
  OBVIOUS
<1>1. IInv'
  <2>1. ASSUME NEW ev \in Events, Add(ev) PROVE Next
    <3>1. StorageAddSel(ev)
      BY <2>1 DEF Add, StorageAddSel
    <3>. QED BY <3>1 DEF Next
  <2>2. ASSUME OtherAdd PROVE Next
    BY <2>2 DEF OtherAdd, Next
  <2>3. ASSUME NEW id \in Slots, Delete(id) PROVE Next
    BY <2>3 DEF Delete, Next
  <2>4. ASSUME ClearOwed PROVE Next
    <3>1. rsvId \in 0 .. RsvMax
      BY RsvMaxAssumption DEF DInv, IInv, RsvMin
    <3>. QED BY <2>4, <3>1 DEF ClearOwed, Next
  <2>5. ASSUME RebootOwing PROVE Next
    BY <2>5 DEF RebootOwing, Next
  <2>6. ASSUME UNCHANGED durVars PROVE UNCHANGED vars
    BY <2>6 DEF durVars, vars
  <2>7. [Next]_vars
    BY <2>1, <2>2, <2>3, <2>4, <2>5, <2>6 DEF DurNext
  <2>. QED BY <2>7, NextInv DEF DInv
<1>2. ASSUME NEW ev \in Events, Add(ev) PROVE Owing'
  BY <1>2, AddD
<1>3. ASSUME OtherAdd PROVE Owing'
  <2>1. PICK ev \in Events : PlatformEvent(ev) \/ InternalEvent(ev)
    BY <1>3 DEF OtherAdd
  <2>2. PICK o \in AddEntry(log, file, ev) : log' = o.log /\ file' = o.file
    BY <2>1 DEF PlatformEvent, InternalEvent
  <2>3. owed' = owed /\ kept' = kept /\ synced' = synced
    BY <1>3 DEF OtherAdd
  <2>4. /\ \A s \in DOMAIN owed : s < log'.end /\ log'.data[s].event = owed[s]
        /\ synced => \A s \in kept : s < file'.end /\ file'.data[s].event = owed[s]
    BY <2>2, AddKeepsOwed
  <2>5. DOMAIN owed \subseteq Slots /\ (synced => kept \subseteq DOMAIN owed)
    BY DEF DInv, Owing
  <2>. QED BY <2>3, <2>4, <2>5 DEF Owing, Holds
<1>4. ASSUME NEW id \in Slots, Delete(id) PROVE Owing'
  BY <1>4, DeleteD
<1>5. ASSUME ClearOwed PROVE Owing'
  BY <1>5 DEF ClearOwed, Owing, Holds, NoneOwed
<1>6. ASSUME RebootOwing PROVE Owing'
  BY <1>6, RebootD
<1>7. ASSUME UNCHANGED durVars PROVE Owing'
  BY <1>7 DEF durVars, vars, DInv, Owing, Holds
<1>. QED BY <1>1, <1>2, <1>3, <1>4, <1>5, <1>6, <1>7 DEF DurNext, DInv

(* Every record whose addition was acknowledged is in the cache until it   *)
(* is deleted or cleared, and in sel.bin too if fclose wrote its stores,   *)
(* through any sequence of failing stores and restarts, unless a delete    *)
(* failed to reach the file.                                               *)
THEOREM AckedIsDurable == DurSpec => []AckedDurable
<1>1. DInv => AckedDurable
  BY DEF DInv, Owing, AckedDurable
<1>. QED BY <1>1, InitD, NextD, PTL DEF DurSpec
=============================================================================

-------------------------- MODULE SelThreadsProofs --------------------------
(***************************************************************************)
(* Proofs about SelSteps and SelReaders: what a writer interrupted between *)
(* any two of its statements leaves behind, and what a reader gets while   *)
(* the log grows, for any capacity, events, threads and readers.           *)
(***************************************************************************)
EXTENDS SelSteps, SelReaders, SelLogProofs, SequenceTheorems

----------------------------------------------------------------------------
(***************************************************************************)
(* Writers.  Their calls do not overlap: this is a condition here, since   *)
(* the code takes no lock; one thread alone meets it.                      *)
(***************************************************************************)
OneAtATime == \A t, u \in Threads : At(t, "idle") \/ At(u, "idle") \/ t = u

Logs == [log : BoundedLogs, file : BoundedLogs]

(* The log with a payload in the slot at its end, not counted yet.         *)
Uncounted(l, ev) ==
  [end |-> l.end, data |-> WriteSlot(l.data, l.end, Numbered(l.end, ev))]

(* The files after the header, and after the record, of a pass of          *)
(* plat_sel_add_entry that starts from b, and the pairs it may leave       *)
(* without reporting a fault.                                              *)
Hdrs(b, ev) == StoreHdr(b.file, Grown(b.log, ev))
Dones(b, ev) == UNION {StoreData(h, b.log.end, Numbered(b.log.end, ev)) : h \in Hdrs(b, ev)}
After(b, ev) == {[log |-> Grown(b.log, ev), file |-> g] : g \in Dones(b, ev)}

(* What the first pass of a call may start from, and the pass s is in.     *)
GivenLog(c) == IF c.op = "erase" THEN Emptied(c.log) ELSE c.log
Given(c) ==
  IF c.op = "erase"
  THEN {[log |-> Emptied(c.log), file |-> h] : h \in StoreHdr(c.file, Emptied(c.log))}
  ELSE {[log |-> c.log, file |-> c.file]}
Bases(s) ==
  IF s.msg = FullMark THEN UNION {After(g, s.call.arg) : g \in Given(s.call)}
                      ELSE Given(s.call)

AddLabels == {"check", "measure", "number", "copy", "load", "bump", "header", "data"}

(* In plat_sel_add_entry, with cache l and file f, in a pass that started  *)
(* from b.                                                                 *)
MidFrom(s, b, l, f) ==
  /\ s.pc \in AddLabels /\ s.call.op \in {"add", "erase"}
  /\ \/ s.msg = s.call.arg
     \/ /\ s.msg = FullMark
        /\ LeavesOne(GivenLog(s.call)) /\ ~IsFull(GivenLog(s.call))
  /\ s.pc # "check" => ~IsFull(b.log)
  /\ s.pc \notin {"check", "measure"} => s.full = LeavesOne(b.log)
  /\ s.pc \notin {"check", "measure", "number"} => s.recId = b.log.end
  /\ s.pc = "bump" => s.i = b.log.end
  /\ l = IF s.pc \in {"check", "measure", "number", "copy"} THEN b.log
         ELSE IF s.pc \in {"load", "bump"} THEN Uncounted(b.log, s.msg)
         ELSE Grown(b.log, s.msg)
  /\ IF s.pc = "data" THEN f \in Hdrs(b, s.msg) ELSE f = b.file

MidAdd(s, l, f) == \E b \in Bases(s) : MidFrom(s, b, l, f)

(* The files of a delete, after its header and after its records.          *)
FilesCut(c) == StoreHdr(c.file, Gone(c.log, c.arg))
FilesWhole(c) == UNION {StoreAll(h, UpTo(c.log, c.arg, 0).data) : h \in FilesCut(c)}

(* In delete_sel_entry. *)
MidDelete(s, l, f) ==
  LET c == s.call
  IN  /\ c.op = "delete" /\ s.msg = Blank
      /\ \/ s.pc = "shift" /\ l = c.log /\ f = c.file
         \/ s.pc = "cut" /\ l = Gone(c.log, c.arg) /\ f = c.file
         \/ /\ s.pc = "renumber" /\ s.i \in Nat /\ (s.i = 0 \/ s.i <= c.log.end)
            /\ l = IF s.i = 0 THEN Gone(c.log, c.arg) ELSE UpTo(c.log, c.arg, s.i - 1)
            /\ f \in IF s.i = 0 THEN FilesCut(c) ELSE FilesWhole(c)

(* In plat_sel_erase, before it adds its record. *)
MidReset(s, l, f) ==
  /\ s.pc = "reset" /\ s.call.op = "erase" /\ s.msg = ClearMark
  /\ l = s.call.log /\ f = s.call.file

Mid(s, l, f) == MidAdd(s, l, f) \/ MidDelete(s, l, f) \/ MidReset(s, l, f)

Called(c) ==
  \/ c.op = "add" /\ c.arg \in Events
  \/ c.op = "delete" /\ c.arg \in Slots /\ c.log.end > -MaxBelow
  \/ c.op = "erase" /\ c.arg = ClearMark

Calls == [op : {"none", "add", "delete", "erase"}, arg : Payloads \cup Slots,
          log : BoundedLogs, file : BoundedLogs]
Stacks == [pc : AddLabels \cup {"idle", "shift", "cut", "renumber", "reset"},
           msg : Payloads, recId : Int, full : BOOLEAN, i : Int, call : Calls]

(* The inductive invariant: a call under way has done to the log and the   *)
(* file of its beginning what the statements before its pc do, and nothing *)
(* else happened to them.                                                  *)
TInv ==
  /\ th \in [Threads -> Stacks]
  /\ (\A t \in Threads : At(t, "idle")) => log \in BoundedLogs /\ file \in BoundedLogs
  /\ \A t \in Threads : ~At(t, "idle") => Called(th[t].call) /\ Mid(th[t], log, file)
----------------------------------------------------------------------------
(* The pass of plat_sel_add_entry against AddOne and AddEntry. *)

LEMMA TakenType ==
  ASSUME NEW b \in Logs, NEW ev \in Payloads, ~IsFull(b.log)
  PROVE  /\ Grown(b.log, ev) \in BoundedLogs
         /\ Uncounted(b.log, ev).end <= RecordsMax
         /\ Hdrs(b, ev) \subseteq BoundedLogs
         /\ After(b, ev) \subseteq Logs
<1>1. b.log \in BoundedLogs /\ b.file \in BoundedLogs
  BY DEF Logs
<1>2. Grown(b.log, ev) \in BoundedLogs
  BY <1>1, AddOneCases
<1>3. b.log.end \in Slots => Numbered(b.log.end, ev) \in Records
  BY NumberedType
<1>4. Hdrs(b, ev) \subseteq BoundedLogs
  BY <1>1, <1>2, <1>3, StoreType DEF Hdrs
<1>5. Dones(b, ev) \subseteq BoundedLogs
  <2>1. \A h \in BoundedLogs :
          StoreData(h, b.log.end, Numbered(b.log.end, ev)) \subseteq BoundedLogs
    BY <1>1, <1>3, StoreType
  <2>. QED BY <1>4, <2>1 DEF Dones
<1>6. Uncounted(b.log, ev).end <= RecordsMax
  BY <1>1, RecordsMaxAssumption, MaxBelowAssumption DEF Uncounted, BoundedLogs
<1>. QED BY <1>2, <1>4, <1>5, <1>6 DEF After, Logs

(* The header may fail, silently or not, before the record does.           *)
LEMMA HdrsHold ==
  ASSUME StoreMayFail, NEW b, NEW ev
  PROVE  b.file \in Hdrs(b, ev)
BY DEF Hdrs, StoreHdr, Stored

LEMMA PassOutcomes ==
  ASSUME NEW b, NEW ev
  PROVE  /\ IsFull(b.log) =>
              [log |-> b.log, file |-> b.file, ok |-> FALSE, kept |-> FALSE]
                \in AddOne(b.log, b.file, ev)
         /\ ~IsFull(b.log) =>
              \A a \in After(b, ev) :
                 \E k \in BOOLEAN :
                    [log |-> a.log, file |-> a.file, ok |-> TRUE, kept |-> k]
                      \in AddOne(b.log, b.file, ev)
         /\ ~IsFull(b.log) /\ StoreMayFail =>
              \A h \in Hdrs(b, ev) :
                 [log |-> Grown(b.log, ev), file |-> h, ok |-> FALSE, kept |-> FALSE]
                   \in AddOne(b.log, b.file, ev)
<1> DEFINE both == DataWritten(HdrWritten(b.file, Grown(b.log, ev)), b.log.end,
                               Numbered(b.log.end, ev))
<1>1. ~IsFull(b.log) =>
        AddOne(b.log, b.file, ev) =
          {[log |-> Grown(b.log, ev), file |-> g, ok |-> TRUE, kept |-> g = both] :
             g \in Dones(b, ev)}
          \cup IF StoreMayFail
               THEN {[log |-> Grown(b.log, ev), file |-> h, ok |-> FALSE, kept |-> FALSE] :
                       h \in Hdrs(b, ev)}
               ELSE {}
  BY DEF AddOne, Grown, Dones, Hdrs
<1>. HIDE DEF both
<1>2. ASSUME ~IsFull(b.log), NEW a \in After(b, ev)
      PROVE  \E k \in BOOLEAN :
                [log |-> a.log, file |-> a.file, ok |-> TRUE, kept |-> k]
                  \in AddOne(b.log, b.file, ev)
  <2>1. PICK g \in Dones(b, ev) : a = [log |-> Grown(b.log, ev), file |-> g]
    BY DEF After
  <2>2. a.log = Grown(b.log, ev) /\ a.file = g
    BY <2>1
  <2>3. [log |-> Grown(b.log, ev), file |-> g, ok |-> TRUE, kept |-> g = both]
          \in AddOne(b.log, b.file, ev)
    BY <1>1, <1>2
  <2>. QED BY <2>2, <2>3
<1>3. IsFull(b.log) =>
        [log |-> b.log, file |-> b.file, ok |-> FALSE, kept |-> FALSE]
          \in AddOne(b.log, b.file, ev)
  BY DEF AddOne
<1>. QED BY <1>1, <1>2, <1>3

LEMMA GivenType ==
  ASSUME NEW c \in Calls
  PROVE  /\ Given(c) \subseteq Logs /\ \A g \in Given(c) : g.log = GivenLog(c)
         /\ Emptied(c.log) \in BoundedLogs
         /\ ~IsFull(Emptied(c.log)) /\ Emptied(c.log).end = 0
<1>1. c.log \in BoundedLogs /\ c.file \in BoundedLogs
  BY DEF Calls
<1>2. Emptied(c.log) \in BoundedLogs /\ Emptied(c.log).end = 0
  BY <1>1, EmptiedType
<1>3. StoreHdr(c.file, Emptied(c.log)) \subseteq BoundedLogs
  <2>1. HdrWritten(c.file, Emptied(c.log)) \in BoundedLogs
    BY <1>1, <1>2 DEF HdrWritten, BoundedLogs
  <2>. QED BY <1>1, <2>1 DEF StoreHdr, Stored
<1>4. ~IsFull(Emptied(c.log))
  BY <1>2, RecordsMaxAssumption DEF IsFull, NumEntries, SelIndexMin
<1>. QED BY <1>1, <1>2, <1>3, <1>4 DEF Given, GivenLog, Logs

(* The first pass, and the one for the marker, end as AddEntry says. *)
LEMMA EntryOutcomes ==
  ASSUME NEW b, NEW ev
  PROVE  /\ \A o \in AddOne(b.log, b.file, ev) :
              ~(o.ok /\ LeavesOne(b.log)) => o \in AddEntry(b.log, b.file, ev)
         /\ ~IsFull(b.log) /\ LeavesOne(b.log) =>
              \A a \in After(b, ev) : \E k \in BOOLEAN :
                \A m \in AddOne(a.log, a.file, FullMark) :
                   [m EXCEPT !.ok = TRUE, !.kept = k] \in AddEntry(b.log, b.file, ev)
<1>1. ASSUME NEW o \in AddOne(b.log, b.file, ev), ~(o.ok /\ LeavesOne(b.log))
      PROVE  o \in AddEntry(b.log, b.file, ev)
  BY <1>1 DEF AddEntry
<1>2. ASSUME ~IsFull(b.log), LeavesOne(b.log), NEW a \in After(b, ev)
      PROVE  \E k \in BOOLEAN :
               \A m \in AddOne(a.log, a.file, FullMark) :
                  [m EXCEPT !.ok = TRUE, !.kept = k] \in AddEntry(b.log, b.file, ev)
  <2>1. PICK k \in BOOLEAN :
          [log |-> a.log, file |-> a.file, ok |-> TRUE, kept |-> k]
            \in AddOne(b.log, b.file, ev)
    BY <1>2, PassOutcomes
  <2> DEFINE o == [log |-> a.log, file |-> a.file, ok |-> TRUE, kept |-> k]
  <2>2. o.log = a.log /\ o.file = a.file /\ o.ok = TRUE /\ o.kept = k
        /\ o \in AddOne(b.log, b.file, ev)
    BY <2>1
  <2>. HIDE DEF o
  <2>3. ASSUME NEW m \in AddOne(a.log, a.file, FullMark)
        PROVE  [m EXCEPT !.ok = TRUE, !.kept = k] \in AddEntry(b.log, b.file, ev)
    <3>1. [m EXCEPT !.ok = TRUE, !.kept = o.kept]
            \in {[x EXCEPT !.ok = TRUE, !.kept = o.kept] : x \in AddOne(o.log, o.file, FullMark)}
      BY <2>2
    <3>2. (IF o.ok /\ LeavesOne(b.log)
           THEN {[x EXCEPT !.ok = TRUE, !.kept = o.kept] : x \in AddOne(o.log, o.file, FullMark)}
           ELSE {o}) \subseteq AddEntry(b.log, b.file, ev)
      BY <2>2 DEF AddEntry
    <3>. QED BY <1>2, <2>2, <3>1, <3>2
  <2>. QED BY <2>3
<1>. QED BY <1>1, <1>2

LEMMA OutcomesAre ==
  ASSUME NEW c
  PROVE  /\ c.op = "add" =>
              \A o \in AddEntry(c.log, c.file, c.arg) :
                 [log |-> o.log, file |-> o.file, cc |-> Code(o.ok)] \in Outcomes(c)
         /\ c.op = "delete" =>
              \A o \in DeleteEntry(c.log, c.file, c.arg) :
                 [log |-> o.log, file |-> o.file, cc |-> "success"] \in Outcomes(c)
         /\ c.op = "erase" =>
              \A o \in EraseAll(c.log, c.file) :
                 [log |-> o.log, file |-> o.file, cc |-> Code(o.ok)] \in Outcomes(c)
BY DEF Outcomes

(* Whatever a call comes to is a log and a file within bounds. *)
LEMMA OutcomesType ==
  ASSUME NEW c \in Calls, Called(c), NEW o \in Outcomes(c)
  PROVE  o.log \in BoundedLogs /\ o.file \in BoundedLogs
<1>1. c.log \in BoundedLogs /\ c.file \in BoundedLogs
  BY DEF Calls
<1>2. CASE c.op = "add"
  <2>1. PICK e \in AddEntry(c.log, c.file, c.arg) :
               o = [log |-> e.log, file |-> e.file, cc |-> Code(e.ok)]
    BY <1>2 DEF Outcomes
  <2>2. c.arg \in Payloads
    BY <1>2 DEF Called, Payloads
  <2>3. e \in Added
    BY <1>1, <2>1, <2>2, AddEntryType
  <2>. QED BY <2>1, <2>3 DEF Added
<1>3. CASE c.op = "delete"
  <2>1. PICK e \in DeleteEntry(c.log, c.file, c.arg) :
               o = [log |-> e.log, file |-> e.file, cc |-> "success"]
    BY <1>3 DEF Outcomes
  <2>2. c.arg \in Slots /\ c.log.end > -MaxBelow
    BY <1>3 DEF Called
  <2>3. e \in [log : BoundedLogs, file : BoundedLogs]
    BY <1>1, <2>1, <2>2, DeleteEntryType
  <2>. QED BY <2>1, <2>3
<1>4. CASE c.op = "erase"
  <2>1. PICK e \in EraseAll(c.log, c.file) :
               o = [log |-> e.log, file |-> e.file, cc |-> Code(e.ok)]
    BY <1>4 DEF Outcomes
  <2>2. e \in Added
    BY <1>1, <2>1, EraseAllType
  <2>. QED BY <2>1, <2>2 DEF Added
<1>. QED BY <1>2, <1>3, <1>4 DEF Called

(* The pass a call is in: where it starts, and that the one for the marker *)
(* has room and is the last.                                               *)
LEMMA BaseFacts ==
  ASSUME NEW s \in Stacks, Called(s.call), NEW l, NEW f,
         NEW b \in Bases(s), MidFrom(s, b, l, f)
  PROVE  /\ b \in Logs /\ Given(s.call) \subseteq Logs
         /\ s.call.arg \in Payloads /\ s.call.arg # FullMark
         /\ s.msg # FullMark => s.msg = s.call.arg /\ b \in Given(s.call)
         /\ s.msg = FullMark =>
              /\ \E g \in Given(s.call) : g.log = GivenLog(s.call) /\ b \in After(g, s.call.arg)
              /\ LeavesOne(GivenLog(s.call)) /\ ~IsFull(GivenLog(s.call))
              /\ ~IsFull(b.log) /\ ~LeavesOne(b.log)
<1>1. s.call \in Calls /\ Given(s.call) \subseteq Logs
      /\ \A g \in Given(s.call) : g.log = GivenLog(s.call)
  BY GivenType DEF Stacks
<1>2. s.call.arg \in Payloads /\ s.call.arg # FullMark
  BY PayloadAssumption DEF MidFrom, Called, Payloads
<1>3. CASE s.msg # FullMark
  <2>1. b \in Given(s.call) /\ s.msg = s.call.arg
    BY <1>3 DEF Bases, MidFrom
  <2>. QED BY <1>1, <1>2, <1>3, <2>1
<1>4. CASE s.msg = FullMark
  <2>1. PICK g \in Given(s.call) : b \in After(g, s.call.arg)
    BY <1>4 DEF Bases
  <2>2. LeavesOne(g.log) /\ ~IsFull(g.log) /\ g.log = GivenLog(s.call) /\ g \in Logs
    BY <1>1, <1>2, <1>4 DEF MidFrom
  <2>3. b \in Logs /\ b.log = Grown(g.log, s.call.arg)
    <3>1. b.log = Grown(g.log, s.call.arg)
      BY <2>1 DEF After
    <3>. QED BY <1>2, <2>1, <2>2, <3>1, TakenType
  <2>4. b.log.end = g.log.end + 1 /\ g.log.end \in -MaxBelow .. RecordsMax
    BY <2>2, <2>3 DEF Grown, Logs, BoundedLogs
  <2>5. g.log.end = RecordsMax - 2 \/ g.log.end = -3
    BY <2>2, <2>4, RecordsMaxAssumption, MaxBelowAssumption
    DEF LeavesOne, NumEntries, SelIndexMin
  <2>6. ~IsFull(b.log) /\ ~LeavesOne(b.log)
    BY <2>4, <2>5, RecordsMaxAssumption DEF IsFull, LeavesOne, NumEntries, SelIndexMin
  <2>. QED BY <1>1, <1>2, <1>4, <2>1, <2>2, <2>3, <2>6
<1>. QED BY <1>3, <1>4

(* A pass that is not followed by one for the marker ends the call, with   *)
(* an outcome of its handler.                                              *)
LEMMA PassEnds ==
  ASSUME NEW s \in Stacks, Called(s.call), NEW l, NEW f,
         NEW b \in Bases(s), MidFrom(s, b, l, f),
         NEW m \in AddOne(b.log, b.file, s.msg),
         ~(m.ok /\ LeavesOne(b.log))
  PROVE  [log |-> m.log, file |-> m.file,
          cc |-> Code(m.ok \/ s.msg = FullMark \/ s.call.op \in {"erase", "delete"})]
            \in Outcomes(s.call)
<1> DEFINE c == s.call
<1>1. m \in Added
  BY BaseFacts, AddOneType DEF Logs, Stacks
<1>2. PICK g \in Given(c) :
        \E e \in AddEntry(g.log, g.file, c.arg) :
           /\ e.log = m.log /\ e.file = m.file /\ e \in Added
           /\ e.ok = (m.ok \/ s.msg = FullMark)
  <2>1. CASE s.msg = FullMark
    <3>1. PICK g \in Given(c) : g.log = GivenLog(c) /\ b \in After(g, c.arg)
      BY <2>1, BaseFacts
    <3>2. LeavesOne(g.log) /\ ~IsFull(g.log)
      BY <2>1, <3>1, BaseFacts
    <3>3. PICK k \in BOOLEAN :
            \A x \in AddOne(b.log, b.file, FullMark) :
               [x EXCEPT !.ok = TRUE, !.kept = k] \in AddEntry(g.log, g.file, c.arg)
      BY <3>1, <3>2, EntryOutcomes
    <3> DEFINE e == [m EXCEPT !.ok = TRUE, !.kept = k]
    <3>4. e \in AddEntry(g.log, g.file, c.arg)
      BY <2>1, <3>3
    <3>5. e.log = m.log /\ e.file = m.file /\ e.ok = TRUE /\ e \in Added
      BY <1>1 DEF Added
    <3>6. e.ok = (m.ok \/ s.msg = FullMark)
      BY <1>1, <2>1, <3>5 DEF Added
    <3>. QED BY <3>4, <3>5, <3>6
  <2>2. CASE s.msg # FullMark
    <3>1. b \in Given(c) /\ s.msg = c.arg
      BY <2>2, BaseFacts
    <3>2. m \in AddEntry(b.log, b.file, c.arg)
      BY <3>1, EntryOutcomes
    <3>3. m.ok = (m.ok \/ s.msg = FullMark)
      BY <1>1, <2>2 DEF Added
    <3>. QED BY <1>1, <3>1, <3>2, <3>3
  <2>. QED BY <2>1, <2>2
<1>3. PICK e \in AddEntry(g.log, g.file, c.arg) :
           /\ e.log = m.log /\ e.file = m.file /\ e \in Added
           /\ e.ok = (m.ok \/ s.msg = FullMark)
  BY <1>2
<1>4. CASE c.op = "add"
  <2>1. g.log = c.log /\ g.file = c.file
    BY <1>4 DEF Given
  <2>2. [log |-> e.log, file |-> e.file, cc |-> Code(e.ok)] \in Outcomes(c)
    BY <1>4, <2>1, OutcomesAre
  <2>3. (m.ok \/ s.msg = FullMark \/ c.op \in {"erase", "delete"}) <=> e.ok
    BY <1>3, <1>4
  <2>. QED BY <1>3, <2>2, <2>3 DEF Code
<1>5. CASE c.op = "erase"
  <2>1. PICK h \in StoreHdr(c.file, Emptied(c.log)) : g = [log |-> Emptied(c.log), file |-> h]
    BY <1>5 DEF Given
  <2>2. c.arg = ClearMark /\ e \in AddEntry(Emptied(c.log), h, ClearMark)
    BY <1>5, <2>1 DEF Called
  <2>3. [e EXCEPT !.ok = TRUE] \in EraseAll(c.log, c.file)
    <3>1. [e EXCEPT !.ok = TRUE] \in NotedIn(c.log, h)
      BY <2>2 DEF NotedIn
    <3>2. NotedIn(c.log, h) \subseteq EraseAll(c.log, c.file)
      BY EraseAllHas
    <3>. QED BY <3>1, <3>2
  <2>4. /\ [e EXCEPT !.ok = TRUE].log = m.log /\ [e EXCEPT !.ok = TRUE].file = m.file
        /\ [e EXCEPT !.ok = TRUE].ok = TRUE
    BY <1>3 DEF Added
  <2>5. [log |-> m.log, file |-> m.file, cc |-> Code(TRUE)] \in Outcomes(c)
    BY <1>5, <2>3, <2>4, OutcomesAre
  <2>. QED BY <1>5, <2>5 DEF Code
<1>. QED BY <1>4, <1>5 DEF MidFrom
----------------------------------------------------------------------------
(* One statement of a call: it moves on, or it ends with an outcome.       *)
Moves(t) ==
  /\ th' = [th EXCEPT ![t] = th'[t]]
  /\ th'[t] \in Stacks /\ th'[t].pc # "idle" /\ th'[t].call = th[t].call
  /\ Mid(th'[t], log', file')
Ends(t) ==
  /\ th' = [th EXCEPT ![t] = Resting]
  /\ [log |-> log', file |-> file', cc |-> cc'] \in Outcomes(th[t].call)

LEMMA WhichMid ==
  ASSUME NEW s, NEW l, NEW f, Mid(s, l, f)
  PROVE  /\ s.pc \in AddLabels => MidAdd(s, l, f)
         /\ s.pc \in {"shift", "cut", "renumber"} => MidDelete(s, l, f)
         /\ s.pc = "reset" => MidReset(s, l, f)
BY DEF Mid, MidAdd, MidFrom, MidDelete, MidReset, AddLabels

LEMMA SameBases ==
  ASSUME NEW s, NEW s2, s2.msg = s.msg, s2.call = s.call
  PROVE  Bases(s2) = Bases(s)
BY DEF Bases

(* What a thread in plat_sel_add_entry knows. *)
LEMMA AddContext ==
  ASSUME TInv, NEW t \in Threads, th[t].pc \in AddLabels
  PROVE  /\ th[t] \in Stacks /\ Called(th[t].call) /\ th[t].msg \in Payloads
         /\ \E b \in Bases(th[t]) :
              MidFrom(th[t], b, log, file) /\ b \in Logs /\ b.log.end \in Int
<1>1. th[t] \in Stacks /\ Called(th[t].call) /\ MidAdd(th[t], log, file)
  BY WhichMid DEF TInv, At, AddLabels
<1>2. PICK b \in Bases(th[t]) : MidFrom(th[t], b, log, file)
  BY <1>1 DEF MidAdd
<1>3. b \in Logs
  BY <1>1, <1>2, BaseFacts
<1>4. b.log.end \in Int
  BY <1>3, RecordsMaxAssumption, MaxBelowAssumption DEF Logs, BoundedLogs
<1>. QED BY <1>1, <1>2, <1>3, <1>4 DEF Stacks

LEMMA CheckStep ==
  ASSUME TInv, NEW t \in Threads, Check(t)
  PROVE  Moves(t) \/ Ends(t)
<1> DEFINE s == th[t]
<1>1. s.pc = "check" /\ s.pc \in AddLabels
  BY DEF Check, At, AddLabels
<1>2. s \in Stacks /\ Called(s.call) /\ s.msg \in Payloads
  BY <1>1, AddContext
<1>0. PICK b \in Bases(s) : MidFrom(s, b, log, file) /\ b \in Logs /\ b.log.end \in Int
  BY <1>1, AddContext
<1>3. log = b.log /\ file = b.file /\ log' = log /\ file' = file
  BY <1>0, <1>1, <1>2 DEF MidFrom, Check
<1>4. CASE IsFull(log)
  <2> DEFINE m == [log |-> b.log, file |-> b.file, ok |-> FALSE, kept |-> FALSE]
  <2>1. m \in AddOne(b.log, b.file, s.msg)
    BY <1>0, <1>2, <1>3, <1>4, PassOutcomes
  <2>2. [log |-> m.log, file |-> m.file,
         cc |-> Code(m.ok \/ s.msg = FullMark \/ s.call.op \in {"erase", "delete"})]
           \in Outcomes(s.call)
    <3>1. ~m.ok
      OBVIOUS
    <3>. HIDE DEF m
    <3>. QED BY <1>0, <1>2, <2>1, <3>1, PassEnds
  <2>3. th' = [th EXCEPT ![t] = Resting]
        /\ cc' = Code(m.ok \/ s.msg = FullMark \/ s.call.op \in {"erase", "delete"})
    BY <1>4 DEF Check, Return
  <2>. QED BY <1>3, <2>2, <2>3 DEF Ends
<1>5. CASE ~IsFull(log)
  <2> DEFINE s2 == [s EXCEPT !.pc = "measure"]
  <2>1. th' = [th EXCEPT ![t] = s2]
    BY <1>5 DEF Check, Goto
  <2>2. /\ s2 \in Stacks /\ s2.pc = "measure" /\ s2.msg = s.msg /\ s2.call = s.call
    BY <1>0, <1>2 DEF Stacks, AddLabels
  <2>3. th'[t] = s2
    BY <2>1 DEF TInv
  <2>. HIDE DEF s, s2
  <2>4. Bases(s2) = Bases(s)
    BY <2>2, SameBases
  <2>5. MidFrom(s2, b, log', file')
    BY <1>0, <1>1, <1>2, <1>3, <1>5, <2>2, <2>4 DEF MidFrom, AddLabels
  <2>. QED BY <1>0, <2>1, <2>2, <2>3, <2>4, <2>5 DEF Moves, Mid, MidAdd, s
<1>. QED BY <1>4, <1>5

LEMMA MeasureStep ==
  ASSUME TInv, NEW t \in Threads, Measure(t)
  PROVE  Moves(t)
<1> DEFINE s == th[t]
           s2 == [s EXCEPT !.full = LeavesOne(log), !.pc = "number"]
<1>1. s.pc = "measure" /\ s.pc \in AddLabels
  BY DEF Measure, At, AddLabels
<1>2. s \in Stacks
  BY <1>1, AddContext
<1>0. PICK b \in Bases(s) : MidFrom(s, b, log, file) /\ b \in Logs /\ b.log.end \in Int
  BY <1>1, AddContext
<1>3. th' = [th EXCEPT ![t] = s2] /\ log' = log /\ file' = file
  BY DEF Measure, vars
<1>4. LeavesOne(log) \in BOOLEAN
  BY DEF LeavesOne
<1>5. /\ s2 \in Stacks /\ s2.pc = "number" /\ s2.msg = s.msg /\ s2.call = s.call
      /\ s2.full = LeavesOne(log)
  BY <1>0, <1>2, <1>4 DEF Stacks, AddLabels
<1>6. th'[t] = s2
  BY <1>3 DEF TInv
<1>. HIDE DEF s, s2
<1>7. Bases(s2) = Bases(s)
  BY <1>5, SameBases
<1>8. MidFrom(s2, b, log', file')
  BY <1>0, <1>1, <1>2, <1>3, <1>5, <1>7 DEF MidFrom, AddLabels
<1>. QED BY <1>0, <1>3, <1>5, <1>6, <1>7, <1>8 DEF Moves, Mid, MidAdd, s

LEMMA NumberStep ==
  ASSUME TInv, NEW t \in Threads, Number(t)
  PROVE  Moves(t)
<1> DEFINE s == th[t]
           s2 == [s EXCEPT !.recId = log.end, !.pc = "copy"]
<1>1. s.pc = "number" /\ s.pc \in AddLabels
  BY DEF Number, At, AddLabels
<1>2. s \in Stacks
  BY <1>1, AddContext
<1>0. PICK b \in Bases(s) : MidFrom(s, b, log, file) /\ b \in Logs /\ b.log.end \in Int
  BY <1>1, AddContext
<1>3. th' = [th EXCEPT ![t] = s2] /\ log' = log /\ file' = file
  BY DEF Number, vars
<1>4. log = b.log
  BY <1>0, <1>1, <1>2 DEF MidFrom
<1>5. /\ s2 \in Stacks /\ s2.pc = "copy" /\ s2.msg = s.msg /\ s2.call = s.call
      /\ s2.full = s.full /\ s2.recId = b.log.end
  BY <1>0, <1>2, <1>4 DEF Stacks, AddLabels
<1>6. th'[t] = s2
  BY <1>3 DEF TInv
<1>. HIDE DEF s, s2
<1>7. Bases(s2) = Bases(s)
  BY <1>5, SameBases
<1>8. MidFrom(s2, b, log', file')
  BY <1>0, <1>1, <1>2, <1>3, <1>5, <1>7 DEF MidFrom, AddLabels
<1>. QED BY <1>0, <1>3, <1>5, <1>6, <1>7, <1>8 DEF Moves, Mid, MidAdd, s

LEMMA CopyStep ==
  ASSUME TInv, NEW t \in Threads, Copy(t)
  PROVE  Moves(t)
<1> DEFINE s == th[t]
           s2 == [s EXCEPT !.pc = "load"]
<1>1. s.pc = "copy" /\ s.pc \in AddLabels
  BY DEF Copy, At, AddLabels
<1>2. s \in Stacks
  BY <1>1, AddContext
<1>0. PICK b \in Bases(s) : MidFrom(s, b, log, file) /\ b \in Logs /\ b.log.end \in Int
  BY <1>1, AddContext
<1>3. /\ th' = [th EXCEPT ![t] = s2] /\ file' = file
      /\ log' = [log EXCEPT !.data = WriteSlot(log.data, log.end, Numbered(s.recId, s.msg))]
  BY DEF Copy, Goto, Record
<1>4. log = b.log /\ s.recId = b.log.end
  BY <1>0, <1>1, <1>2 DEF MidFrom
<1>5. log' = Uncounted(b.log, s.msg)
  BY <1>0, <1>2, <1>3, <1>4 DEF Uncounted, Logs, BoundedLogs
<1>6. /\ s2 \in Stacks /\ s2.pc = "load" /\ s2.msg = s.msg /\ s2.call = s.call
      /\ s2.full = s.full /\ s2.recId = s.recId
  BY <1>0, <1>2 DEF Stacks, AddLabels
<1>7. th'[t] = s2
  BY <1>3 DEF TInv
<1>. HIDE DEF s, s2
<1>8. Bases(s2) = Bases(s)
  BY <1>6, SameBases
<1>9. MidFrom(s2, b, log', file')
  BY <1>0, <1>1, <1>2, <1>3, <1>5, <1>6, <1>8 DEF MidFrom, AddLabels
<1>. QED BY <1>0, <1>3, <1>6, <1>7, <1>8, <1>9 DEF Moves, Mid, MidAdd, s

LEMMA LoadStep ==
  ASSUME TInv, NEW t \in Threads, Load(t)
  PROVE  Moves(t)
<1> DEFINE s == th[t]
           s2 == [s EXCEPT !.i = log.end, !.pc = "bump"]
<1>1. s.pc = "load" /\ s.pc \in AddLabels
  BY DEF Load, At, AddLabels
<1>2. s \in Stacks
  BY <1>1, AddContext
<1>0. PICK b \in Bases(s) : MidFrom(s, b, log, file) /\ b \in Logs /\ b.log.end \in Int
  BY <1>1, AddContext
<1>3. th' = [th EXCEPT ![t] = s2] /\ log' = log /\ file' = file
  BY DEF Load, vars
<1>4. log.end = b.log.end
  BY <1>0, <1>1, <1>2 DEF MidFrom, Uncounted
<1>5. /\ s2 \in Stacks /\ s2.pc = "bump" /\ s2.msg = s.msg /\ s2.call = s.call
      /\ s2.full = s.full /\ s2.recId = s.recId /\ s2.i = b.log.end
  BY <1>0, <1>2, <1>4 DEF Stacks, AddLabels
<1>6. th'[t] = s2
  BY <1>3 DEF TInv
<1>. HIDE DEF s, s2
<1>7. Bases(s2) = Bases(s)
  BY <1>5, SameBases
<1>8. MidFrom(s2, b, log', file')
  BY <1>0, <1>1, <1>2, <1>3, <1>5, <1>7 DEF MidFrom, AddLabels
<1>. QED BY <1>0, <1>3, <1>5, <1>6, <1>7, <1>8 DEF Moves, Mid, MidAdd, s

LEMMA BumpStep ==
  ASSUME TInv, NEW t \in Threads, Bump(t)
  PROVE  Moves(t)
<1> DEFINE s == th[t]
           s2 == [s EXCEPT !.pc = "header"]
<1>1. s.pc = "bump" /\ s.pc \in AddLabels
  BY DEF Bump, At, AddLabels
<1>2. s \in Stacks
  BY <1>1, AddContext
<1>0. PICK b \in Bases(s) : MidFrom(s, b, log, file) /\ b \in Logs /\ b.log.end \in Int
  BY <1>1, AddContext
<1>3. /\ th' = [th EXCEPT ![t] = s2] /\ file' = file
      /\ log' = [log EXCEPT !.end = s.i + 1]
  BY DEF Bump, Goto
<1>4. log = Uncounted(b.log, s.msg) /\ s.i = b.log.end
  BY <1>0, <1>1, <1>2 DEF MidFrom
<1>5. log' = Grown(b.log, s.msg)
  BY <1>3, <1>4 DEF Uncounted, Grown
<1>6. /\ s2 \in Stacks /\ s2.pc = "header" /\ s2.msg = s.msg /\ s2.call = s.call
      /\ s2.full = s.full /\ s2.recId = s.recId
  BY <1>0, <1>2 DEF Stacks, AddLabels
<1>7. th'[t] = s2
  BY <1>3 DEF TInv
<1>. HIDE DEF s, s2
<1>8. Bases(s2) = Bases(s)
  BY <1>6, SameBases
<1>9. MidFrom(s2, b, log', file')
  BY <1>0, <1>1, <1>2, <1>3, <1>5, <1>6, <1>8 DEF MidFrom, AddLabels
<1>. QED BY <1>0, <1>3, <1>6, <1>7, <1>8, <1>9 DEF Moves, Mid, MidAdd, s

(* A store that fails ends the pass with what it had stored.               *)
LEMMA FailedStore ==
  ASSUME TInv, NEW t \in Threads, th[t].pc \in {"header", "data"},
         StoreMayFail, Return(t, FALSE), log' = log, file' = file
  PROVE  Ends(t)
<1> DEFINE s == th[t]
<1>1. s.pc \in AddLabels
  BY DEF AddLabels
<1>2. s \in Stacks /\ Called(s.call) /\ s.msg \in Payloads
  BY <1>1, AddContext
<1>0. PICK b \in Bases(s) : MidFrom(s, b, log, file) /\ b \in Logs /\ b.log.end \in Int
  BY <1>1, AddContext
<1> DEFINE m == [log |-> Grown(b.log, s.msg), file |-> file, ok |-> FALSE, kept |-> FALSE]
<1>3. ~IsFull(b.log) /\ log = Grown(b.log, s.msg) /\ file \in Hdrs(b, s.msg)
  BY <1>0, HdrsHold DEF MidFrom
<1>4. m \in AddOne(b.log, b.file, s.msg)
  BY <1>3, PassOutcomes
<1>5. m.log = log /\ m.file = file /\ m.ok = FALSE
  BY <1>3
<1>. HIDE DEF m
<1>6. [log |-> m.log, file |-> m.file,
       cc |-> Code(m.ok \/ s.msg = FullMark \/ s.call.op \in {"erase", "delete"})]
         \in Outcomes(s.call)
  BY <1>0, <1>2, <1>4, <1>5, PassEnds
<1>7. th' = [th EXCEPT ![t] = Resting]
      /\ cc' = Code(FALSE \/ s.msg = FullMark \/ s.call.op \in {"erase", "delete"})
  BY DEF Return
<1>. QED BY <1>5, <1>6, <1>7 DEF Ends

LEMMA HeaderStep ==
  ASSUME TInv, NEW t \in Threads, Header(t)
  PROVE  Moves(t) \/ Ends(t)
<1> DEFINE s == th[t]
           s2 == [s EXCEPT !.pc = "data"]
<1>1. s.pc = "header" /\ s.pc \in AddLabels /\ log' = log
  BY DEF Header, At, AddLabels
<1>2. s \in Stacks
  BY <1>1, AddContext
<1>0. PICK b \in Bases(s) : MidFrom(s, b, log, file) /\ b \in Logs /\ b.log.end \in Int
  BY <1>1, AddContext
<1>3. CASE file' \in StoreHdr(file, log) /\ Goto(t, "data")
  <2>1. th' = [th EXCEPT ![t] = s2]
    BY <1>3 DEF Goto
  <2>2. log = Grown(b.log, s.msg) /\ file' \in Hdrs(b, s.msg)
    BY <1>0, <1>1, <1>3 DEF MidFrom, Hdrs
  <2>3. /\ s2 \in Stacks /\ s2.pc = "data" /\ s2.msg = s.msg /\ s2.call = s.call
        /\ s2.full = s.full /\ s2.recId = s.recId
    BY <1>2 DEF Stacks, AddLabels
  <2>4. th'[t] = s2
    BY <2>1 DEF TInv
  <2>. HIDE DEF s, s2
  <2>5. Bases(s2) = Bases(s)
    BY <2>3, SameBases
  <2>6. MidFrom(s2, b, log', file')
    BY <1>0, <1>1, <2>2, <2>3 DEF MidFrom, AddLabels
  <2>. QED BY <1>0, <2>1, <2>3, <2>4, <2>5, <2>6 DEF Moves, Mid, MidAdd, s
<1>4. CASE StoreMayFail /\ Return(t, FALSE) /\ UNCHANGED file
  BY <1>1, <1>4, FailedStore
<1>. QED BY <1>3, <1>4 DEF Header

LEMMA DataStep ==
  ASSUME TInv, NEW t \in Threads, Data(t)
  PROVE  Moves(t) \/ Ends(t)
<1> DEFINE s == th[t]
           c == s.call
<1>1. s.pc = "data" /\ s.pc \in AddLabels /\ log' = log
  BY DEF Data, At, AddLabels
<1>2. s \in Stacks /\ Called(c) /\ s.msg \in Payloads
  BY <1>1, AddContext
<1>0. PICK b \in Bases(s) : MidFrom(s, b, log, file) /\ b \in Logs /\ b.log.end \in Int
  BY <1>1, AddContext
<1>3. /\ ~IsFull(b.log) /\ s.full = LeavesOne(b.log) /\ s.recId = b.log.end
      /\ log = Grown(b.log, s.msg) /\ file \in Hdrs(b, s.msg)
  BY <1>0, <1>1 DEF MidFrom
<1> DEFINE a == [log |-> log', file |-> file']
<1>4. file' \in StoreData(file, s.recId, Record(t)) => a \in After(b, s.msg)
  BY <1>1, <1>3 DEF After, Dones, Record
<1>5. CASE /\ file' \in StoreData(file, s.recId, Record(t)) /\ s.full
           /\ th' = [th EXCEPT ![t].msg = FullMark, ![t].pc = "check"]
  <2> DEFINE s2 == [s EXCEPT !.msg = FullMark, !.pc = "check"]
  <2>1. s.msg = c.arg /\ b \in Given(c) /\ s.msg # FullMark
    BY <1>0, <1>2, <1>3, <1>5, BaseFacts
  <2>2. th' = [th EXCEPT ![t] = s2]
    BY <1>5
  <2>3. /\ s2 \in Stacks /\ s2.pc = "check" /\ s2.msg = FullMark /\ s2.call = c
    BY <1>2 DEF Stacks, AddLabels, Payloads
  <2>4. th'[t] = s2
    BY <2>2 DEF TInv
  <2>5. b.log = GivenLog(c)
    BY <1>2, <2>1, GivenType DEF Stacks
  <2>6. c.op \in {"add", "erase"}
    BY <1>0 DEF MidFrom
  <2>7. a \in After(b, s.msg) /\ a.log = log' /\ a.file = file'
    BY <1>4, <1>5
  <2>. HIDE DEF s, s2, c, a
  <2>8. a \in Bases(s2)
    BY <2>1, <2>3, <2>7 DEF Bases
  <2>9. MidFrom(s2, a, log', file')
    BY <1>3, <1>5, <2>3, <2>5, <2>6, <2>7 DEF MidFrom, AddLabels
  <2>. QED BY <2>2, <2>3, <2>4, <2>8, <2>9 DEF Moves, Mid, MidAdd, s, c
<1>6. CASE /\ file' \in StoreData(file, s.recId, Record(t)) /\ ~s.full
           /\ Return(t, TRUE)
  <2>1. PICK k \in BOOLEAN :
          [log |-> a.log, file |-> a.file, ok |-> TRUE, kept |-> k]
            \in AddOne(b.log, b.file, s.msg)
    BY <1>3, <1>4, <1>6, PassOutcomes
  <2> DEFINE m == [log |-> log', file |-> file', ok |-> TRUE, kept |-> k]
  <2>2. m.log = log' /\ m.file = file' /\ m.ok = TRUE /\ m \in AddOne(b.log, b.file, s.msg)
    BY <2>1
  <2>. HIDE DEF m
  <2>3. [log |-> m.log, file |-> m.file,
         cc |-> Code(m.ok \/ s.msg = FullMark \/ s.call.op \in {"erase", "delete"})]
           \in Outcomes(s.call)
    BY <1>0, <1>2, <1>3, <1>6, <2>2, PassEnds
  <2>4. th' = [th EXCEPT ![t] = Resting]
        /\ cc' = Code(TRUE \/ s.msg = FullMark \/ s.call.op \in {"erase", "delete"})
    BY <1>6 DEF Return
  <2>. QED BY <2>2, <2>3, <2>4 DEF Ends
<1>7. CASE StoreMayFail /\ Return(t, FALSE) /\ UNCHANGED file
  BY <1>1, <1>7, FailedStore
<1>. QED BY <1>5, <1>6, <1>7 DEF Data
----------------------------------------------------------------------------
(* delete_sel_entry against DeleteEntry. *)

LEMMA DeleteOutcomes ==
  ASSUME NEW c \in Calls
  PROVE  LET d == DeleteEntry(c.log, c.file, c.arg)
             last == c.log.end - 1
         IN  /\ \A g \in IF last < 0 THEN FilesCut(c) ELSE FilesWhole(c) :
                  [log |-> UpTo(c.log, c.arg, last), file |-> g] \in d
             /\ StoreMayFail =>
                  /\ c.file \in FilesCut(c) /\ FilesCut(c) \subseteq FilesWhole(c)
                  /\ \A h \in FilesCut(c) : [log |-> Gone(c.log, c.arg), file |-> h] \in d
                  /\ ~(last < 0) =>
                       \A k \in 0 .. last : \A g \in FilesWhole(c) :
                         [log |-> UpTo(c.log, c.arg, k), file |-> g] \in d
<1> DEFINE last == c.log.end - 1
           alls == IF last < 0 THEN FilesCut(c) ELSE FilesWhole(c)
<1>1. DeleteEntry(c.log, c.file, c.arg) =
        {[log |-> UpTo(c.log, c.arg, last), file |-> g] : g \in alls}
        \cup IF StoreMayFail
             THEN {[log |-> Gone(c.log, c.arg), file |-> h] : h \in FilesCut(c)}
                  \cup {[log |-> UpTo(c.log, c.arg, k), file |-> g] : k \in 0 .. last, g \in alls}
             ELSE {}
  BY DEF DeleteEntry, Gone, UpTo, FilesCut, FilesWhole
<1>2. StoreMayFail => c.file \in FilesCut(c) /\ FilesCut(c) \subseteq FilesWhole(c)
  BY DEF FilesCut, FilesWhole, StoreHdr, StoreAll, Stored
<1>. QED BY <1>1, <1>2

(* What a thread in delete_sel_entry knows. *)
LEMMA DeleteContext ==
  ASSUME TInv, NEW t \in Threads, th[t].pc \in {"shift", "cut", "renumber"}
  PROVE  /\ th[t] \in Stacks /\ MidDelete(th[t], log, file)
         /\ th[t].call \in Calls /\ Called(th[t].call) /\ th[t].call.op = "delete"
         /\ th[t].call.log \in BoundedLogs /\ th[t].call.file \in BoundedLogs
         /\ th[t].call.arg \in Slots
         /\ th[t].call.log.end \in -MaxBelow .. RecordsMax
         /\ th[t].call.log.end \in Int /\ th[t].call.log.end > -MaxBelow
<1>1. th[t] \in Stacks /\ Called(th[t].call) /\ MidDelete(th[t], log, file)
  BY WhichMid DEF TInv, At
<1>2. th[t].call \in Calls /\ th[t].call.op = "delete"
  BY <1>1 DEF Stacks, MidDelete
<1>3. th[t].call.log \in BoundedLogs /\ th[t].call.file \in BoundedLogs
  BY <1>2 DEF Calls
<1>4. th[t].call.arg \in Slots /\ th[t].call.log.end > -MaxBelow
  BY <1>1, <1>2 DEF Called
<1>5. th[t].call.log.end \in -MaxBelow .. RecordsMax /\ th[t].call.log.end \in Int
  BY <1>3, <1>4, RecordsMaxAssumption, MaxBelowAssumption DEF BoundedLogs
<1>. QED BY <1>1, <1>2, <1>3, <1>4, <1>5

(* A delete that ends, with one of the outcomes of DeleteEntry. *)
LEMMA DeleteEnds ==
  ASSUME TInv, NEW t \in Threads, th[t].pc \in {"shift", "cut", "renumber"},
         NEW ok \in BOOLEAN, Return(t, ok),
         [log |-> log', file |-> file'] \in
           DeleteEntry(th[t].call.log, th[t].call.file, th[t].call.arg)
  PROVE  Ends(t)
<1>1. th[t].call.op = "delete"
  BY DeleteContext
<1>2. cc' = "success" /\ th' = [th EXCEPT ![t] = Resting]
  BY <1>1 DEF Return, Code
<1>. DEFINE o == [log |-> log', file |-> file']
<1>3. o.log = log' /\ o.file = file'
      /\ o \in DeleteEntry(th[t].call.log, th[t].call.file, th[t].call.arg)
  OBVIOUS
<1>. HIDE DEF o
<1>4. [log |-> o.log, file |-> o.file, cc |-> "success"] \in Outcomes(th[t].call)
  BY <1>1, <1>3, OutcomesAre
<1>. QED BY <1>2, <1>3, <1>4 DEF Ends

LEMMA ShiftStep ==
  ASSUME TInv, NEW t \in Threads, Shift(t)
  PROVE  Moves(t)
<1> DEFINE s == th[t]
           s2 == [s EXCEPT !.pc = "cut"]
<1>1. s.pc = "shift"
  BY DEF Shift, At
<1>2. s \in Stacks /\ MidDelete(s, log, file)
  BY <1>1, DeleteContext
<1>3. log = s.call.log /\ file = s.call.file
  BY <1>1, <1>2 DEF MidDelete
<1>4. th' = [th EXCEPT ![t] = s2] /\ log' = Gone(s.call.log, s.call.arg) /\ file' = file
  BY <1>3 DEF Shift, Goto, Gone
<1>5. s2 \in Stacks /\ s2.pc = "cut" /\ s2.msg = s.msg /\ s2.call = s.call
  BY <1>2 DEF Stacks
<1>6. th'[t] = s2
  BY <1>4 DEF TInv
<1>. HIDE DEF s, s2
<1>7. MidDelete(s2, log', file')
  BY <1>2, <1>3, <1>4, <1>5 DEF MidDelete
<1>. QED BY <1>4, <1>5, <1>6, <1>7 DEF Moves, Mid, s

LEMMA RenumberStack ==
  ASSUME NEW s \in Stacks, NEW k \in Int
  PROVE  LET s2 == [s EXCEPT !.pc = "renumber", !.i = k]
         IN  /\ s2 \in Stacks /\ s2.pc = "renumber" /\ s2.i = k
             /\ s2.msg = s.msg /\ s2.call = s.call
BY DEF Stacks

LEMMA CutStep ==
  ASSUME TInv, NEW t \in Threads, Cut(t)
  PROVE  Moves(t) \/ Ends(t)
<1> DEFINE s == th[t]
           s2 == [s EXCEPT !.pc = "renumber", !.i = 0]
<1>1. s.pc = "cut" /\ log' = log
  BY DEF Cut, At
<1>2. s \in Stacks /\ MidDelete(s, log, file) /\ s.call \in Calls
  BY <1>1, DeleteContext
<1>3. log = Gone(s.call.log, s.call.arg) /\ file = s.call.file
  BY <1>1, <1>2 DEF MidDelete
<1>4. CASE /\ file' \in StoreHdr(file, log)
           /\ th' = [th EXCEPT ![t].pc = "renumber", ![t].i = 0]
  <2>1. th' = [th EXCEPT ![t] = s2]
    BY <1>4
  <2>2. s2 \in Stacks /\ s2.pc = "renumber" /\ s2.i = 0 /\ s2.msg = s.msg
        /\ s2.call = s.call
    <3>1. 0 \in Int
      OBVIOUS
    <3>. QED BY <1>2, <3>1, RenumberStack
  <2>3. th'[t] = s2
    BY <2>1 DEF TInv
  <2>. HIDE DEF s, s2
  <2>4. file' \in FilesCut(s.call)
    BY <1>3, <1>4 DEF FilesCut
  <2>5. MidDelete(s2, log', file')
    BY <1>1, <1>2, <1>3, <2>2, <2>4 DEF MidDelete
  <2>. QED BY <2>1, <2>2, <2>3, <2>5 DEF Moves, Mid, s
<1>5. CASE StoreMayFail /\ Return(t, FALSE) /\ UNCHANGED file
  <2>1. [log |-> Gone(s.call.log, s.call.arg), file |-> s.call.file]
          \in DeleteEntry(s.call.log, s.call.file, s.call.arg)
    BY <1>2, <1>5, DeleteOutcomes
  <2>. QED BY <1>1, <1>3, <1>5, <2>1, DeleteEnds
<1>. QED BY <1>4, <1>5 DEF Cut

LEMMA RenumberOne ==
  ASSUME NEW data \in [Slots -> Records], NEW i \in Slots
  PROVE  LET d == RenumberUpTo(data, i - 1)
         IN  WriteSlot(d, i, Numbered(i, d[i].event)) = RenumberUpTo(data, i)
<1> DEFINE d == RenumberUpTo(data, i - 1)
<1>1. d[i].event = data[i].event
  BY DEF RenumberUpTo, Numbered
<1>2. ASSUME NEW s \in Slots
      PROVE  (IF s = i THEN Numbered(i, d[i].event) ELSE d[s])
               = (IF s <= i THEN Numbered(s, data[s].event) ELSE data[s])
  <2>1. s \in Int /\ i \in Int
    BY RecordsMaxAssumption DEF Slots
  <2>2. CASE s = i
    BY <1>1, <2>1, <2>2
  <2>3. CASE s # i
    <3>1. s <= i <=> s <= i - 1
      BY <2>1, <2>3
    <3>. QED BY <2>3, <3>1 DEF RenumberUpTo
  <2>. QED BY <2>2, <2>3
<1>. HIDE DEF d
<1>3. WriteSlot(d, i, Numbered(i, d[i].event)) = RenumberUpTo(data, i)
  BY <1>2 DEF WriteSlot, RenumberUpTo
<1>. QED BY <1>3 DEF d

LEMMA RenumberNone ==
  ASSUME NEW c \in Calls, c.arg \in Slots
  PROVE  UpTo(c.log, c.arg, -1) = Gone(c.log, c.arg)
<1>1. Shifted(c.log, c.arg) \in [Slots -> Records]
  BY ShiftedType DEF Calls
<1>2. \A s \in Slots : ~(s <= -1)
  BY RecordsMaxAssumption DEF Slots
<1>. QED BY <1>1, <1>2 DEF UpTo, Gone, RenumberUpTo

(* What the loop that renumbers and stores has done when it is at i. *)
LEMMA RenumberContext ==
  ASSUME TInv, NEW t \in Threads, th[t].pc = "renumber"
  PROVE  LET c == th[t].call
             i == th[t].i
         IN  /\ i \in Nat /\ (i = 0 \/ i <= c.log.end)
             /\ log = UpTo(c.log, c.arg, i - 1) /\ log.end = c.log.end - 1
             /\ file \in IF i = 0 THEN FilesCut(c) ELSE FilesWhole(c)
<1> DEFINE c == th[t].call
           i == th[t].i
<1>1. MidDelete(th[t], log, file) /\ c \in Calls /\ c.arg \in Slots
  BY DeleteContext
<1>2. /\ i \in Nat /\ (i = 0 \/ i <= c.log.end)
      /\ log = IF i = 0 THEN Gone(c.log, c.arg) ELSE UpTo(c.log, c.arg, i - 1)
      /\ file \in IF i = 0 THEN FilesCut(c) ELSE FilesWhole(c)
  BY <1>1 DEF MidDelete
<1>. HIDE DEF c, i
<1>3. i = 0 => i - 1 = -1
  OBVIOUS
<1>4. log = UpTo(c.log, c.arg, i - 1)
  BY <1>1, <1>2, <1>3, RenumberNone
<1>5. log.end = c.log.end - 1
  BY <1>4 DEF UpTo
<1>. QED BY <1>2, <1>4, <1>5 DEF c, i

LEMMA RenumberStep ==
  ASSUME TInv, NEW t \in Threads, Renumber(t)
  PROVE  Moves(t) \/ Ends(t)
<1> DEFINE s == th[t]
           c == s.call
           i == s.i
           d == Shifted(c.log, c.arg)
<1>1. s.pc = "renumber" /\ i <= log.end
  BY DEF Renumber, At
<1>2. /\ s \in Stacks /\ MidDelete(s, log, file) /\ c \in Calls
      /\ c.log \in BoundedLogs /\ c.file \in BoundedLogs /\ c.arg \in Slots
      /\ c.log.end \in Int /\ c.log.end <= RecordsMax
  BY <1>1, DeleteContext, RecordsMaxAssumption, MaxBelowAssumption
<1>3. /\ i \in Nat
      /\ log = UpTo(c.log, c.arg, i - 1) /\ log.end = c.log.end - 1
      /\ file \in IF i = 0 THEN FilesCut(c) ELSE FilesWhole(c)
  BY <1>1, RenumberContext
<1>4. i \in 0 .. c.log.end - 1 /\ i \in Slots /\ i + 1 <= c.log.end
  BY <1>1, <1>2, <1>3, RecordsMaxAssumption DEF Slots
<1>5. d \in [Slots -> Records]
  BY <1>2, ShiftedType
<1>6. log' = UpTo(c.log, c.arg, i)
  <2>1. log' = [log EXCEPT !.data = WriteSlot(log.data, i, Numbered(i, log.data[i].event))]
    BY DEF Renumber
  <2>2. log = [end |-> c.log.end - 1, data |-> RenumberUpTo(d, i - 1)]
    BY <1>3 DEF UpTo
  <2>. HIDE DEF s, c, i, d
  <2>3. log'.end = c.log.end - 1 /\ log' = [end |-> log'.end, data |-> log'.data]
        /\ log'.data = WriteSlot(RenumberUpTo(d, i - 1), i,
                                 Numbered(i, RenumberUpTo(d, i - 1)[i].event))
    BY <2>1, <2>2
  <2>4. log'.data = RenumberUpTo(d, i)
    BY <1>4, <1>5, <2>3, RenumberOne
  <2>5. log' = [end |-> c.log.end - 1, data |-> RenumberUpTo(d, i)]
    BY <2>3, <2>4
  <2>. QED BY <2>5 DEF UpTo, d
<1>7. CASE /\ file' \in IF i = 0 THEN StoreAll(file, log'.data) ELSE {file}
           /\ th' = [th EXCEPT ![t].i = i + 1]
  <2> DEFINE s2 == [s EXCEPT !.pc = "renumber", !.i = i + 1]
  <2>1. th' = [th EXCEPT ![t] = s2]
    <3>1. [s EXCEPT !.i = i + 1] = s2
      BY <1>1, <1>2 DEF Stacks
    <3>. QED BY <1>7, <3>1
  <2>2. file' \in FilesWhole(c)
    <3>1. CASE i = 0
      <4>1. file \in FilesCut(c) /\ log'.data = UpTo(c.log, c.arg, 0).data
        BY <1>3, <1>6, <3>1
      <4>2. file' \in StoreAll(file, UpTo(c.log, c.arg, 0).data)
        BY <1>7, <3>1, <4>1
      <4>. QED BY <4>1, <4>2 DEF FilesWhole
    <3>2. CASE i # 0
      BY <1>3, <1>7, <3>2
    <3>. QED BY <3>1, <3>2
  <2>3. i + 1 \in Int /\ i + 1 \in Nat /\ i + 1 # 0 /\ (i + 1) - 1 = i
    BY <1>3
  <2>4. /\ s2 \in Stacks /\ s2.pc = "renumber" /\ s2.i = i + 1
        /\ s2.msg = s.msg /\ s2.call = c
    BY <1>2, <2>3, RenumberStack
  <2>5. th'[t] = s2
    BY <2>1 DEF TInv
  <2>6. c.op = "delete" /\ s.msg = Blank
    BY <1>2 DEF MidDelete
  <2>. HIDE DEF s, s2, c, i
  <2>7. MidDelete(s2, log', file')
    BY <1>4, <1>6, <2>2, <2>3, <2>4, <2>6 DEF MidDelete
  <2>. QED BY <2>1, <2>4, <2>5, <2>7 DEF Moves, Mid, s, c
<1>8. CASE StoreMayFail /\ Return(t, FALSE) /\ UNCHANGED file
  <2>1. file \in FilesWhole(c)
    BY <1>2, <1>3, <1>8, DeleteOutcomes
  <2>2. [log |-> UpTo(c.log, c.arg, i), file |-> file]
          \in DeleteEntry(c.log, c.file, c.arg)
    <3>1. ~(c.log.end - 1 < 0)
      BY <1>2, <1>4
    <3>. QED BY <1>2, <1>4, <1>8, <2>1, <3>1, DeleteOutcomes
  <2>. QED BY <1>1, <1>6, <1>8, <2>2, DeleteEnds
<1>. QED BY <1>7, <1>8 DEF Renumber

LEMMA RenumberedStep ==
  ASSUME TInv, NEW t \in Threads, Renumbered(t)
  PROVE  Ends(t)
<1> DEFINE s == th[t]
           c == s.call
           i == s.i
<1>1. s.pc = "renumber" /\ i > log.end /\ Return(t, TRUE) /\ log' = log /\ file' = file
  BY DEF Renumbered, At
<1>2. c \in Calls /\ c.arg \in Slots /\ c.log.end \in Int /\ c.log.end - 1 \in Int
  BY <1>1, DeleteContext
<1>3. /\ i \in Nat /\ (i = 0 \/ i <= c.log.end)
      /\ log = UpTo(c.log, c.arg, i - 1) /\ log.end = c.log.end - 1
      /\ file \in IF i = 0 THEN FilesCut(c) ELSE FilesWhole(c)
  BY <1>1, RenumberContext
<1>4. log = UpTo(c.log, c.arg, c.log.end - 1)
  <2>1. CASE i # 0
    <3>1. i - 1 = c.log.end - 1
      BY <1>1, <1>2, <1>3, <2>1
    <3>. QED BY <1>3, <3>1
  <2>2. CASE i = 0
    <3>1. c.log.end - 1 < 0
      BY <1>1, <1>2, <1>3, <2>2
    <3>2. RenumberUpTo(Shifted(c.log, c.arg), i - 1)
            = RenumberUpTo(Shifted(c.log, c.arg), c.log.end - 1)
      <4>1. \A s0 \in Slots : ~(s0 <= i - 1) /\ ~(s0 <= c.log.end - 1)
        BY <1>2, <2>2, <3>1, RecordsMaxAssumption DEF Slots
      <4>. HIDE DEF s, c, i
      <4>. QED BY <4>1 DEF RenumberUpTo
    <3>. QED BY <1>3, <3>2 DEF UpTo
  <2>. QED BY <2>1, <2>2
<1>5. i = 0 <=> c.log.end - 1 < 0
  BY <1>1, <1>2, <1>3
<1>6. [log |-> log', file |-> file'] \in DeleteEntry(c.log, c.file, c.arg)
  BY <1>1, <1>2, <1>3, <1>4, <1>5, DeleteOutcomes
<1>. QED BY <1>1, <1>6, DeleteEnds

LEMMA ResetStep ==
  ASSUME TInv, NEW t \in Threads, Reset(t)
  PROVE  Moves(t) \/ Ends(t)
<1> DEFINE s == th[t]
           c == s.call
<1>1. s.pc = "reset" /\ log' = [log EXCEPT !.end = SelIndexMin]
  BY DEF Reset, At
<1>2. s \in Stacks /\ Called(c) /\ MidReset(s, log, file) /\ c \in Calls
  BY <1>1, WhichMid DEF TInv, At, Stacks
<1>3. log = c.log /\ file = c.file /\ c.op = "erase" /\ s.msg = ClearMark /\ c.arg = ClearMark
  BY <1>2 DEF MidReset, Called
<1>4. log' = Emptied(c.log)
  BY <1>1, <1>3 DEF Emptied
<1>5. CASE file' \in StoreHdr(file, log') /\ Goto(t, "check")
  <2> DEFINE s2 == [s EXCEPT !.pc = "check"]
             b == [log |-> log', file |-> file']
  <2>1. th' = [th EXCEPT ![t] = s2]
    BY <1>5 DEF Goto
  <2>2. s2 \in Stacks /\ s2.pc = "check" /\ s2.msg = s.msg /\ s2.call = s.call
    BY <1>2 DEF Stacks, AddLabels
  <2>3. th'[t] = s2
    BY <2>1 DEF TInv
  <2>4. b.log = log' /\ b.file = file'
    OBVIOUS
  <2>. HIDE DEF s, s2
  <2>5. b \in Bases(s2)
    BY <1>3, <1>4, <1>5, <2>2, PayloadAssumption DEF Bases, Given
  <2>. HIDE DEF b
  <2>6. MidFrom(s2, b, log', file')
    BY <1>3, <2>2, <2>4 DEF MidFrom, AddLabels
  <2>. QED BY <2>1, <2>2, <2>3, <2>5, <2>6 DEF Moves, Mid, MidAdd, s
<1>6. CASE /\ StoreMayFail /\ th' = [th EXCEPT ![t] = Resting]
           /\ cc' = "error" /\ UNCHANGED file
  <2> DEFINE o == [log |-> Emptied(c.log), file |-> c.file, ok |-> FALSE, kept |-> FALSE]
  <2>1. o \in EraseAll(c.log, c.file)
    BY <1>6, EraseAllHas
  <2>2. o.log = log' /\ o.file = file' /\ o.ok = FALSE
    BY <1>3, <1>4, <1>6
  <2>. HIDE DEF o
  <2>3. [log |-> o.log, file |-> o.file, cc |-> Code(o.ok)] \in Outcomes(c)
    BY <1>3, <2>1, OutcomesAre
  <2>. QED BY <1>6, <2>2, <2>3 DEF Ends, Code
<1>. QED BY <1>5, <1>6 DEF Reset
----------------------------------------------------------------------------
(* The invariant. *)

LEMMA StepMovesOrEnds ==
  ASSUME TInv, NEW t \in Threads, Step(t)
  PROVE  ~At(t, "idle") /\ (Moves(t) \/ Ends(t))
<1>1. ~At(t, "idle")
  BY DEF Step, Check, Measure, Number, Copy, Load, Bump, Header, Data,
         Shift, Cut, Renumber, Renumbered, Reset, At
<1>. QED
  BY <1>1, CheckStep, MeasureStep, NumberStep, CopyStep, LoadStep, BumpStep, HeaderStep,
     DataStep, ShiftStep, CutStep, RenumberStep, RenumberedStep, ResetStep DEF Step

LEMMA RestingType == Resting \in Stacks /\ Resting.pc = "idle"
<1>1. BlankLog \in BoundedLogs
  <2>1. Numbered(0, Blank) \in Records
    BY NumberedType, RecordsMaxAssumption DEF Slots, Payloads
  <2>. QED BY <2>1, RecordsMaxAssumption, MaxBelowAssumption
           DEF BlankLog, BoundedLogs, SelIndexMin
<1>2. NoCall \in Calls
  BY <1>1 DEF NoCall, Calls, Payloads
<1>. QED BY <1>2 DEF Resting, Stacks, Payloads

LEMMA TInvInit == StepsInit => TInv
<1>. SUFFICES ASSUME StepsInit PROVE TInv
  OBVIOUS
<1>1. IInv
  BY InitInv DEF StepsInit
<1>2. th \in [Threads -> Stacks] /\ \A t \in Threads : At(t, "idle")
  BY RestingType DEF StepsInit, At
<1>. QED BY <1>1, <1>2 DEF TInv, IInv

(* Wherever a call is, the file is within bounds. *)
LEMMA MidFileType ==
  ASSUME NEW s \in Stacks, Called(s.call), NEW l, NEW f, Mid(s, l, f)
  PROVE  f \in BoundedLogs
<1>1. s.call \in Calls /\ s.call.log \in BoundedLogs /\ s.call.file \in BoundedLogs
  BY DEF Stacks, Calls
<1>2. CASE MidAdd(s, l, f)
  <2>1. PICK b \in Bases(s) : MidFrom(s, b, l, f)
    BY <1>2 DEF MidAdd
  <2>2. b \in Logs /\ s.msg \in Payloads
    BY <2>1, BaseFacts DEF Stacks
  <2>3. CASE s.pc = "data"
    <3>1. ~IsFull(b.log) /\ f \in Hdrs(b, s.msg)
      BY <2>1, <2>3 DEF MidFrom
    <3>. QED BY <2>2, <3>1, TakenType
  <2>4. CASE s.pc # "data"
    BY <2>1, <2>2, <2>4 DEF MidFrom, Logs
  <2>. QED BY <2>3, <2>4
<1>3. CASE MidDelete(s, l, f)
  <2> DEFINE c == s.call
  <2>1. f \in {c.file} \cup FilesCut(c) \cup FilesWhole(c) /\ c.op = "delete"
    BY <1>3 DEF MidDelete
  <2>2. c.arg \in Slots /\ c.log.end > -MaxBelow
    BY <2>1 DEF Called
  <2>3. Shifted(c.log, c.arg) \in [Slots -> Records]
    BY <1>1, <2>2, ShiftedType
  <2>4. UpTo(c.log, c.arg, 0).data \in [Slots -> Records]
    BY <2>3, RenumberType DEF UpTo
  <2>5. c.log.end - 1 \in -MaxBelow .. RecordsMax
    BY <1>1, <2>2, RecordsMaxAssumption, MaxBelowAssumption DEF BoundedLogs
  <2>6. HdrWritten(c.file, Gone(c.log, c.arg)) \in BoundedLogs
    BY <1>1, <2>5 DEF HdrWritten, Gone, BoundedLogs
  <2>7. FilesCut(c) \subseteq BoundedLogs
    BY <1>1, <2>6 DEF FilesCut, StoreHdr, Stored
  <2>8. \A h \in BoundedLogs : StoreAll(h, UpTo(c.log, c.arg, 0).data) \subseteq BoundedLogs
    BY <2>4 DEF StoreAll, Stored, BoundedLogs
  <2>9. FilesWhole(c) \subseteq BoundedLogs
    BY <2>7, <2>8 DEF FilesWhole
  <2>. QED BY <1>1, <2>1, <2>7, <2>9
<1>4. CASE MidReset(s, l, f)
  BY <1>1, <1>4 DEF MidReset
<1>. QED BY <1>2, <1>3, <1>4 DEF Mid

LEMMA MovesInv ==
  ASSUME TInv, OneAtATime, NEW t \in Threads, ~At(t, "idle"), Moves(t)
  PROVE  TInv'
<1>1. \A u \in Threads : u # t => At(u, "idle") /\ th'[u] = th[u]
  BY DEF OneAtATime, Moves, TInv
<1>2. th' \in [Threads -> Stacks]
  BY DEF Moves, TInv
<1>3. Called(th'[t].call) /\ Mid(th'[t], log', file') /\ th'[t].pc # "idle"
  BY DEF Moves, TInv
<1>4. \A u \in Threads : th'[u].pc # "idle" => u = t
  BY <1>1 DEF At
<1>5. \A u \in Threads : th'[u].pc # "idle" => Called(th'[u].call) /\ Mid(th'[u], log', file')
  BY <1>3, <1>4
<1>6. (\A u \in Threads : th'[u].pc = "idle") =>
        log' \in BoundedLogs /\ file' \in BoundedLogs
  BY <1>3
<1>. QED BY <1>2, <1>5, <1>6 DEF TInv, At

LEMMA EndsInv ==
  ASSUME TInv, OneAtATime, NEW t \in Threads, ~At(t, "idle"), Ends(t)
  PROVE  TInv'
<1>1. th' \in [Threads -> Stacks] /\ \A u \in Threads : th'[u].pc = "idle"
  <2>1. th' = [th EXCEPT ![t] = Resting] /\ th \in [Threads -> Stacks]
    BY DEF Ends, TInv
  <2>2. \A u \in Threads : u # t => th[u].pc = "idle"
    BY DEF OneAtATime, At
  <2>. QED BY <2>1, <2>2, RestingType
<1>2. th[t].call \in Calls /\ Called(th[t].call)
  BY DEF TInv, Stacks
<1> DEFINE o == [log |-> log', file |-> file', cc |-> cc']
<1>3. o \in Outcomes(th[t].call) /\ o.log = log' /\ o.file = file'
  BY DEF Ends
<1>. HIDE DEF o
<1>4. log' \in BoundedLogs /\ file' \in BoundedLogs
  BY <1>2, <1>3, OutcomesType
<1>. QED BY <1>1, <1>4 DEF TInv, At

(* The stack of a thread that begins a call. *)
Begun(label, msg, c) == [Resting EXCEPT !.pc = label, !.msg = msg, !.call = c]

LEMMA CallStack ==
  ASSUME NEW label \in {"check", "shift", "reset"}, NEW msg, NEW c
  PROVE  /\ Begun(label, msg, c).pc = label
         /\ Begun(label, msg, c).msg = msg
         /\ Begun(label, msg, c).call = c
         /\ msg \in Payloads /\ c \in Calls => Begun(label, msg, c) \in Stacks
<1> DEFINE r == Resting
<1>1. r \in Stacks
  BY RestingType
<1>2. Begun(label, msg, c) = [r EXCEPT !.pc = label, !.msg = msg, !.call = c]
  BY DEF Begun
<1>. HIDE DEF r
<1>. QED BY <1>1, <1>2 DEF Stacks, AddLabels

LEMMA CallInv ==
  ASSUME TInv, OneAtATime', NEW t \in Threads, NEW op, NEW arg, NEW msg, NEW label,
         Call(t, op, arg, msg, label),
         \/ op = "add" /\ arg \in Events /\ msg = arg /\ label = "check"
         \/ op = "delete" /\ arg \in Slots /\ log.end > -MaxBelow /\ msg = Blank
            /\ label = "shift"
         \/ op = "erase" /\ arg = ClearMark /\ msg = ClearMark /\ label = "reset"
  PROVE  TInv'
<1> DEFINE c == [op |-> op, arg |-> arg, log |-> log, file |-> file]
           s2 == Begun(label, msg, c)
<1>1. th' = [th EXCEPT ![t] = s2] /\ log' = log /\ file' = file /\ At(t, "idle")
  BY DEF Call, vars, Begun
<1>2. th'[t] = s2 /\ \A u \in Threads : u # t => th'[u] = th[u]
  BY <1>1 DEF TInv
<1>3. /\ s2.pc = label /\ s2.msg = msg /\ s2.call = c /\ label # "idle"
      /\ msg \in Payloads /\ c \in Calls => s2 \in Stacks
  <2>. HIDE DEF c
  <2>1. label \in {"check", "shift", "reset"} /\ label # "idle"
    OBVIOUS
  <2>. QED BY <2>1, CallStack
<1>4. c.op = op /\ c.arg = arg /\ c.log = log /\ c.file = file
  OBVIOUS
<1>. HIDE DEF s2
<1>5. \A u \in Threads : u # t => th'[u].pc = "idle" /\ At(u, "idle")
  BY <1>2, <1>3 DEF OneAtATime, At
<1>6. log \in BoundedLogs /\ file \in BoundedLogs
  BY <1>1, <1>5 DEF TInv
<1>7. c \in Calls /\ msg \in Payloads /\ Called(c)
  BY <1>4, <1>6 DEF Calls, Called, Payloads
<1>. HIDE DEF c
<1>8. s2 \in Stacks
  BY <1>3, <1>7
<1>9. th' \in [Threads -> Stacks]
  BY <1>1, <1>8 DEF TInv
<1>10. Mid(s2, log', file')
  <2>1. CASE op = "add"
    <3>1. msg # FullMark
      BY <2>1, PayloadAssumption
    <3> DEFINE b == [log |-> log, file |-> file]
    <3>2. b \in Bases(s2)
      BY <1>3, <1>4, <2>1, <3>1 DEF Bases, Given
    <3>3. b.log = log /\ b.file = file
      OBVIOUS
    <3>. HIDE DEF b
    <3>4. MidFrom(s2, b, log', file')
      BY <1>1, <1>3, <1>4, <2>1, <3>3 DEF MidFrom, AddLabels
    <3>. QED BY <3>2, <3>4 DEF Mid, MidAdd
  <2>2. CASE op = "delete"
    BY <1>1, <1>3, <1>4, <2>2 DEF Mid, MidDelete
  <2>3. CASE op = "erase"
    BY <1>1, <1>3, <1>4, <2>3 DEF Mid, MidReset
  <2>. QED BY <2>1, <2>2, <2>3
<1>11. \A u \in Threads : th'[u].pc # "idle" => Called(th'[u].call) /\ Mid(th'[u], log', file')
  BY <1>2, <1>3, <1>5, <1>7, <1>10
<1>12. (\A u \in Threads : th'[u].pc = "idle") => log' \in BoundedLogs /\ file' \in BoundedLogs
  BY <1>1, <1>6
<1>. QED BY <1>9, <1>11, <1>12 DEF TInv, At

LEMMA TInvNext ==
  ASSUME TInv, OneAtATime, OneAtATime', [StepsNext]_stepVars
  PROVE  TInv'
<1>1. ASSUME NEW t \in Threads, NEW ev \in Events, CallAdd(t, ev) PROVE TInv'
  BY <1>1, CallInv DEF CallAdd
<1>2. ASSUME NEW t \in Threads, NEW id \in Slots, CallDelete(t, id) PROVE TInv'
  BY <1>2, CallInv DEF CallDelete
<1>3. ASSUME NEW t \in Threads, CallErase(t) PROVE TInv'
  BY <1>3, CallInv DEF CallErase
<1>4. ASSUME NEW t \in Threads, Step(t) PROVE TInv'
  BY <1>4, StepMovesOrEnds, MovesInv, EndsInv
<1>5. CASE PowerLoss
  <2>1. th' = [t \in Threads |-> Resting] /\ log' = file /\ file' = file
    BY <1>5 DEF PowerLoss, Restart
  <2>2. file \in BoundedLogs
    BY MidFileType DEF TInv
  <2>3. th' \in [Threads -> Stacks] /\ \A t \in Threads : th'[t].pc = "idle"
    BY <2>1, RestingType
  <2>. QED BY <2>1, <2>2, <2>3 DEF TInv, At
<1>6. CASE UNCHANGED stepVars
  BY <1>6 DEF stepVars, vars, TInv, At
<1>. QED BY <1>1, <1>2, <1>3, <1>4, <1>5, <1>6 DEF StepsNext
----------------------------------------------------------------------------
(* The results for the writers.  TInv holds as long as no two of them      *)
(* overlap.                                                                *)
LEMMA TInvariant == StepsSpec /\ []OneAtATime => []TInv
<1>1. StepsInit => TInv
  BY TInvInit
<1>2. TInv /\ OneAtATime /\ OneAtATime' /\ [StepsNext]_stepVars => TInv'
  BY TInvNext
<1>. QED BY <1>1, <1>2, PTL DEF StepsSpec

LEMMA ReturnIsOutcome ==
  ASSUME TInv, OneAtATime, [StepsNext]_stepVars, NEW t \in Threads,
         ~At(t, "idle"), th'[t].pc = "idle", cc' # "none"
  PROVE  [log |-> log', file |-> file', cc |-> cc'] \in Outcomes(th[t].call)
<1>1. ASSUME NEW u \in Threads, NEW op, NEW arg, NEW msg, NEW label,
             Call(u, op, arg, msg, label)
      PROVE  FALSE
  <2>1. u # t
    BY <1>1 DEF Call
  <2>2. th'[t] = th[t]
    BY <1>1, <2>1 DEF Call, TInv
  <2>. QED BY <2>2 DEF At
<1>2. ASSUME NEW u \in Threads, Step(u)
      PROVE  [log |-> log', file |-> file', cc |-> cc'] \in Outcomes(th[t].call)
  <2>1. ~At(u, "idle") /\ (Moves(u) \/ Ends(u))
    BY <1>2, StepMovesOrEnds
  <2>2. u = t
    BY <2>1 DEF OneAtATime
  <2>. QED BY <2>1, <2>2 DEF Moves, Ends
<1>3. CASE PowerLoss
  BY <1>3 DEF PowerLoss, Restart
<1>4. CASE UNCHANGED stepVars
  BY <1>4 DEF stepVars, At
<1>. QED BY <1>1, <1>2, <1>3, <1>4 DEF StepsNext, CallAdd, CallDelete, CallErase

(* As long as calls do not overlap, each of them returns with a log, a     *)
(* file and a completion code that the one-step handler of SelLog allows,  *)
(* whatever stores fail between its statements and wherever power losses   *)
(* interrupt the calls before it.                                          *)
THEOREM WritersReturnAsOneStep == StepsSpec /\ []OneAtATime => ReturnsAsOneStep
<1>1. TInv /\ OneAtATime /\ [StepsNext]_stepVars =>
        [\A t \in Threads :
           ~At(t, "idle") /\ th'[t].pc = "idle" /\ cc' # "none" =>
             [log |-> log', file |-> file', cc |-> cc'] \in Outcomes(th[t].call)]_stepVars
  BY ReturnIsOutcome
<1>. QED BY <1>1, TInvariant, PTL DEF StepsSpec, ReturnsAsOneStep

(* What a call has stored so far is what it found, or what one of its      *)
(* outcomes leaves behind.                                                 *)
LEMMA StoredSoFar ==
  ASSUME StoreMayFail, NEW s \in Stacks, Called(s.call), NEW l, NEW f, Mid(s, l, f)
  PROVE  f \in {s.call.file} \cup {o.file : o \in Outcomes(s.call)}
<1> DEFINE c == s.call
<1>1. CASE MidAdd(s, l, f)
  <2>0. PICK b \in Bases(s) : MidFrom(s, b, l, f)
    BY <1>1 DEF MidAdd
  <2>1. b \in Logs /\ s.msg \in Payloads /\ Given(c) \subseteq Logs
    BY <2>0, BaseFacts DEF Stacks
  <2>2. CASE ~IsFull(b.log)
    <3> DEFINE m == [log |-> Grown(b.log, s.msg), file |-> f, ok |-> FALSE, kept |-> FALSE]
               o == [log |-> m.log, file |-> m.file,
                     cc |-> Code(m.ok \/ s.msg = FullMark \/ c.op \in {"erase", "delete"})]
    <3>1. f \in Hdrs(b, s.msg)
      BY <2>0, HdrsHold DEF MidFrom
    <3>2. m \in AddOne(b.log, b.file, s.msg)
      BY <2>2, <3>1, PassOutcomes
    <3>3. m.file = f /\ m.ok = FALSE
      OBVIOUS
    <3>. HIDE DEF m
    <3>4. o \in Outcomes(c)
      BY <2>0, <3>2, <3>3, PassEnds
    <3>5. o.file = f
      BY <3>3
    <3>. HIDE DEF o
    <3>. QED BY <3>4, <3>5
  <2>3. CASE IsFull(b.log)
    <3>1. s.pc # "data" /\ s.msg # FullMark
      BY <2>0, <2>3, BaseFacts DEF MidFrom
    <3>2. b \in Given(c) /\ f = b.file
      BY <2>0, <3>1, BaseFacts DEF MidFrom
    <3>3. c \in Calls
      BY DEF Stacks
    <3>4. b.log = GivenLog(c) /\ ~IsFull(Emptied(c.log))
      BY <3>2, <3>3, GivenType
    <3>5. c.op # "erase"
      BY <2>3, <3>4 DEF GivenLog
    <3>. QED BY <3>2, <3>5 DEF Given
  <2>. QED BY <2>2, <2>3
<1>2. CASE MidDelete(s, l, f)
  <2>1. c \in Calls /\ c.op = "delete" /\ c.log.end \in Int
    <3>1. c \in Calls /\ c.op = "delete"
      BY <1>2 DEF MidDelete, Stacks
    <3>2. c.log \in BoundedLogs
      BY <3>1 DEF Calls
    <3>. QED BY <3>1, <3>2, RecordsMaxAssumption, MaxBelowAssumption DEF BoundedLogs
  <2>2. ASSUME NEW e \in DeleteEntry(c.log, c.file, c.arg)
        PROVE  e.file \in {o.file : o \in Outcomes(c)}
    <3> DEFINE o == [log |-> e.log, file |-> e.file, cc |-> "success"]
    <3>1. o \in Outcomes(c)
      BY <2>1, OutcomesAre
    <3>2. o.file = e.file
      OBVIOUS
    <3>. HIDE DEF o
    <3>. QED BY <3>1, <3>2
  <2>3. ASSUME NEW h \in FilesCut(c) PROVE h \in {o.file : o \in Outcomes(c)}
    <3> DEFINE e == [log |-> Gone(c.log, c.arg), file |-> h]
    <3>1. e \in DeleteEntry(c.log, c.file, c.arg)
      BY <2>1, DeleteOutcomes
    <3>2. e.file = h
      OBVIOUS
    <3>. HIDE DEF e
    <3>. QED BY <2>2, <3>1, <3>2
  <2>4. ASSUME ~(c.log.end - 1 < 0), NEW g \in FilesWhole(c)
        PROVE  g \in {o.file : o \in Outcomes(c)}
    <3> DEFINE e == [log |-> UpTo(c.log, c.arg, c.log.end - 1), file |-> g]
    <3>1. e \in DeleteEntry(c.log, c.file, c.arg)
      BY <2>1, <2>4, DeleteOutcomes
    <3>2. e.file = g
      OBVIOUS
    <3>. HIDE DEF e
    <3>. QED BY <2>2, <3>1, <3>2
  <2>5. \/ f \in {c.file} \cup FilesCut(c)
        \/ f \in FilesWhole(c) /\ ~(c.log.end - 1 < 0)
    <3>. HIDE DEF c
    <3>1. \/ f \in {c.file} \cup FilesCut(c)
          \/ f \in FilesWhole(c) /\ s.i \in Nat /\ s.i # 0 /\ s.i <= c.log.end
      BY <1>2 DEF MidDelete, c
    <3>2. s.i \in Nat /\ s.i # 0 /\ s.i <= c.log.end => ~(c.log.end - 1 < 0)
      BY <2>1
    <3>. QED BY <3>1, <3>2
  <2>. QED BY <2>3, <2>4, <2>5
<1>3. CASE MidReset(s, l, f)
  BY <1>3 DEF MidReset
<1>. QED BY <1>1, <1>2, <1>3 DEF Mid

(* As long as calls do not overlap, a power loss between any two of their  *)
(* statements finds in sel.bin what was there before the call, or what one *)
(* of the outcomes of its one-step handler leaves: the Restart of SelLog   *)
(* covers it.  A power loss in the middle looks like a failed store, so    *)
(* that the outcomes have to allow for one.                                *)
THEOREM InterruptedWritersAreOneStep ==
  ASSUME StoreMayFail
  PROVE  StepsSpec /\ []OneAtATime => []InterruptedAsOneStep
<1>1. TInv => InterruptedAsOneStep
  <2>. SUFFICES ASSUME TInv, NEW t \in Threads, ~At(t, "idle")
                PROVE  file \in {th[t].call.file}
                                  \cup {o.file : o \in Outcomes(th[t].call)}
    BY DEF InterruptedAsOneStep
  <2>1. th[t] \in Stacks /\ Called(th[t].call) /\ Mid(th[t], log, file)
    BY DEF TInv
  <2>. QED BY <2>1, StoredSoFar
<1>. QED BY <1>1, TInvariant, PTL

(* In the middle of any call the counter is within the array.              *)
LEMMA MidEnd ==
  ASSUME NEW s \in Stacks, Called(s.call), NEW l, NEW f, Mid(s, l, f)
  PROVE  l.end <= RecordsMax
<1>1. s.call.log \in BoundedLogs /\ s.call.log.end \in -MaxBelow .. RecordsMax
  BY DEF Stacks, Calls, BoundedLogs
<1>2. CASE MidAdd(s, l, f)
  <2>1. PICK b \in Bases(s) : MidFrom(s, b, l, f)
    BY <1>2 DEF MidAdd
  <2>2. b \in Logs /\ s.msg \in Payloads
    BY <2>1, BaseFacts DEF Stacks
  <2>3. b.log.end <= RecordsMax
    BY <2>2, RecordsMaxAssumption, MaxBelowAssumption DEF Logs, BoundedLogs
  <2>4. ~IsFull(b.log) =>
          Uncounted(b.log, s.msg).end <= RecordsMax /\ Grown(b.log, s.msg).end <= RecordsMax
    <3>1. \A m \in BoundedLogs : m.end <= RecordsMax
      BY RecordsMaxAssumption, MaxBelowAssumption DEF BoundedLogs
    <3>. QED BY <2>2, <3>1, TakenType
  <2>. QED BY <2>1, <2>3, <2>4 DEF MidFrom
<1>3. CASE MidDelete(s, l, f)
  <2>1. l.end \in {s.call.log.end, s.call.log.end - 1}
    BY <1>3 DEF MidDelete, Gone, UpTo
  <2>. QED BY <1>1, <2>1, RecordsMaxAssumption, MaxBelowAssumption
<1>4. CASE MidReset(s, l, f)
  BY <1>1, <1>4, RecordsMaxAssumption, MaxBelowAssumption DEF MidReset
<1>. QED BY <1>2, <1>3, <1>4 DEF Mid

(* As long as calls do not overlap, the counter stays within the array     *)
(* between any two statements as well: what v_two_writers shows is due to  *)
(* the missing lock alone.                                                 *)
THEOREM WritersKeepCapacity == StepsSpec /\ []OneAtATime => []NeverPastCapacity
<1>1. TInv => NeverPastCapacity
  <2>. SUFFICES ASSUME TInv PROVE log.end <= RecordsMax
    BY DEF NeverPastCapacity
  <2>1. CASE \A t \in Threads : At(t, "idle")
    <3>1. log \in BoundedLogs
      BY <2>1 DEF TInv
    <3>. QED BY <3>1, RecordsMaxAssumption, MaxBelowAssumption DEF BoundedLogs
  <2>2. ASSUME NEW t \in Threads, ~At(t, "idle") PROVE log.end <= RecordsMax
    <3>1. th[t] \in Stacks /\ Called(th[t].call) /\ Mid(th[t], log, file)
      BY <2>2 DEF TInv
    <3>. QED BY <3>1, MidEnd
  <2>. QED BY <2>1, <2>2
<1>. QED BY <1>1, TInvariant, PTL

(* One thread alone never overlaps itself.                                 *)
LEMMA AloneIsOneAtATime ==
  ASSUME \A t, u \in Threads : t = u
  PROVE  []OneAtATime
<1>1. OneAtATime
  BY DEF OneAtATime
<1>. QED BY <1>1, PTL

(* A single writer: its calls return as one step, with no further          *)
(* condition.                                                              *)
COROLLARY OneWriterReturns ==
  ASSUME \A t, u \in Threads : t = u
  PROVE  StepsSpec => ReturnsAsOneStep
BY AloneIsOneAtATime, WritersReturnAsOneStep, PTL

(* A single writer: where stores may fail, a power loss finds the file of  *)
(* one of its outcomes.                                                    *)
COROLLARY OneWriterInterrupted ==
  ASSUME StoreMayFail, \A t, u \in Threads : t = u
  PROVE  StepsSpec => []InterruptedAsOneStep
BY AloneIsOneAtATime, InterruptedWritersAreOneStep, PTL
----------------------------------------------------------------------------
(***************************************************************************)
(* Readers.  A walk returns stale slots while end is negative, and does    *)
(* not finish; end turns neither negative nor back while the log only      *)
(* grows.  What is said of a pass is therefore said for other ends only.   *)
(***************************************************************************)

(* A pass during which the log only grew has read its first records, and   *)
(* has one more to read unless the log is empty.                           *)
Passing(r) ==
  r \in undisturbed /\ at[r] # Idle /\ log.end >= 0 =>
    /\ at[r] = 0 \/ at[r] < log.end
    /\ Len(seen[r]) = at[r]
    /\ \A k \in 1 .. at[r] : seen[r][k] = log.data[k - 1].event
    /\ r \in listing => at[r] < count[r] /\ count[r] <= log.end

RInv ==
  /\ IInv
  /\ at \in [Readers -> -1 .. RecordsMax]
  /\ listing \subseteq Readers
  /\ count \in [Readers -> 0 .. RecordsMax]
  /\ seen \in [Readers -> Seq(Payloads)]
  /\ \A r \in Readers : Passing(r)

LEMMA LogType ==
  ASSUME IInv
  PROVE  /\ log \in BoundedLogs /\ log.end \in -MaxBelow .. RecordsMax
         /\ \A id \in Slots : log.data[id].event \in Payloads
<1>1. log \in BoundedLogs
  BY DEF IInv
<1>. QED BY <1>1 DEF BoundedLogs, Records

LEMMA LogFacts ==
  ASSUME IInv, log.end >= 0
  PROVE  /\ log \in BoundedLogs /\ log.end \in 0 .. RecordsMax
         /\ \A id \in Nat : HasEntry(log, id) <=> id < log.end
<1>1. log \in BoundedLogs /\ log.end \in 0 .. RecordsMax
  BY LogType, RecordsMaxAssumption, MaxBelowAssumption
<1>2. \A id \in Nat : HasEntry(log, id) <=> id < log.end
  BY <1>1, RecordsMaxAssumption DEF HasEntry, NumEntries, SelIndexMin
<1>. QED BY <1>1, <1>2

(* With a negative end every slot counts as a record, and no next id ends  *)
(* a walk.                                                                 *)
LEMMA BelowFacts ==
  ASSUME IInv, log.end < 0, NEW id \in Slots
  PROVE  /\ HasEntry(log, id)
         /\ NextId(log, id) \in 0 .. RecordsMax /\ NextId(log, id) # RecidLast
<1>1. log.end \in Int /\ log.end >= -RecordsMax
  BY LogType, RecordsMaxAssumption, MaxBelowAssumption
<1>. QED
  BY <1>1, RecordsMaxAssumption
  DEF HasEntry, NextId, NumEntries, RecidLast, SelIndexMin, Slots

LEMMA SeeOne ==
  ASSUME RInv, NEW r \in Readers, NEW id \in Slots, See(r, id)
  PROVE  /\ seen' \in [Readers -> Seq(Payloads)]
         /\ \A q \in Readers : q # r => seen'[q] = seen[q]
         /\ Len(seen[r]) <= RecordsMax =>
              /\ Len(seen'[r]) = Len(seen[r]) + 1
              /\ seen'[r][Len(seen[r]) + 1] = log.data[id].event
              /\ \A k \in 1 .. Len(seen[r]) : seen'[r][k] = seen[r][k]
<1> DEFINE ev == log.data[id].event
           s == seen[r]
<1>1. ev \in Payloads /\ s \in Seq(Payloads) /\ seen \in [Readers -> Seq(Payloads)]
  BY LogType DEF RInv
<1>2. seen' = IF Len(s) > RecordsMax THEN seen ELSE [seen EXCEPT ![r] = Append(s, ev)]
  BY DEF See
<1>. HIDE DEF ev
<1>3. /\ Append(s, ev) \in Seq(Payloads) /\ Len(Append(s, ev)) = Len(s) + 1
      /\ Append(s, ev)[Len(s) + 1] = ev
      /\ \A k \in 1 .. Len(s) : Append(s, ev)[k] = s[k]
  BY <1>1, AppendProperties
<1>4. Len(s) \in Nat
  BY <1>1
<1>5. seen' \in [Readers -> Seq(Payloads)] /\ \A q \in Readers : q # r => seen'[q] = seen[q]
  BY <1>1, <1>2, <1>3
<1>6. Len(s) <= RecordsMax => seen'[r] = Append(s, ev)
  <2>1. Len(s) <= RecordsMax => ~(Len(s) > RecordsMax)
    BY <1>4, RecordsMaxAssumption
  <2>. QED BY <1>1, <1>2, <2>1
<1>. QED BY <1>3, <1>5, <1>6 DEF ev

(* A pass that reads its next record has read one more of the first.       *)
LEMMA ReadsOn ==
  ASSUME RInv, log.end >= 0, NEW r \in Readers, at[r] # Idle, r \in undisturbed,
         HasEntry(log, at[r]), See(r, at[r])
  PROVE  /\ at[r] \in 0 .. log.end - 1 /\ at[r] \in Slots
         /\ Len(seen'[r]) = at[r] + 1
         /\ \A k \in 1 .. at[r] + 1 : seen'[r][k] = log.data[k - 1].event
<1>1. at[r] \in 0 .. RecordsMax /\ at[r] \in Slots
  BY RecordsMaxAssumption DEF RInv, Idle, Slots
<1>2. at[r] < log.end /\ log.end \in 0 .. RecordsMax
  BY <1>1, LogFacts DEF RInv
<1>3. /\ Len(seen[r]) = at[r] /\ Len(seen[r]) <= RecordsMax
      /\ \A k \in 1 .. at[r] : seen[r][k] = log.data[k - 1].event
  BY <1>1, RecordsMaxAssumption DEF RInv, Passing
<1>4. /\ Len(seen'[r]) = at[r] + 1 /\ seen'[r][at[r] + 1] = log.data[at[r]].event
      /\ \A k \in 1 .. at[r] : seen'[r][k] = log.data[k - 1].event
  BY <1>1, <1>3, SeeOne
<1>5. ASSUME NEW k \in 1 .. at[r] + 1 PROVE seen'[r][k] = log.data[k - 1].event
  <2>1. CASE k = at[r] + 1
    <3>1. k - 1 = at[r]
      BY <1>1, <2>1
    <3>. QED BY <1>4, <2>1, <3>1
  <2>2. CASE k # at[r] + 1
    <3>1. k \in 1 .. at[r]
      BY <1>1, <2>2
    <3>. QED BY <1>4, <3>1
  <2>. QED BY <2>1, <2>2
<1>. QED BY <1>1, <1>2, <1>4, <1>5

LEMMA NextIdIs ==
  ASSUME RInv, log.end >= 0, NEW id \in 0 .. log.end - 1
  PROVE  /\ NextId(log, id) = IF id + 1 = log.end THEN RecidLast ELSE id + 1
         /\ id + 1 \in 1 .. RecordsMax /\ id + 1 # RecidLast
<1>1. log.end \in 0 .. RecordsMax
  BY LogFacts DEF RInv
<1>. QED BY <1>1, RecordsMaxAssumption DEF NextId, RecidLast, SelIndexMin

LEMMA NegativeIsNot == IInv => (log.end < 0 <=> ~(log.end >= 0))
BY LogType, RecordsMaxAssumption, MaxBelowAssumption

LEMMA ReadersInitInv == ReadersInit => RInv
<1>. SUFFICES ASSUME ReadersInit PROVE RInv
  OBVIOUS
<1>1. IInv
  BY InitInv DEF ReadersInit
<1>2. /\ at \in [Readers -> -1 .. RecordsMax] /\ listing \subseteq Readers
      /\ count \in [Readers -> 0 .. RecordsMax]
  BY RecordsMaxAssumption DEF ReadersInit, Idle
<1>3. seen \in [Readers -> Seq(Payloads)]
  BY DEF ReadersInit
<1>4. \A r \in Readers : Passing(r)
  BY DEF ReadersInit, Passing
<1>. QED BY <1>1, <1>2, <1>3, <1>4 DEF RInv

LEMMA BeginInv ==
  ASSUME RInv, NEW r \in Readers, BeginWalk(r) \/ BeginList(r)
  PROVE  RInv'
<1>1. /\ at' = [at EXCEPT ![r] = 0] /\ seen' = [seen EXCEPT ![r] = <<>>]
      /\ undisturbed' = undisturbed \cup {r} /\ UNCHANGED vars
      /\ listing' \in {listing \ {r}, listing \cup {r}}
      /\ \/ r \notin listing' /\ count' = count
         \/ count' = [count EXCEPT ![r] = NumEntries(log.end)] /\ NumEntries(log.end) > 0
  BY DEF BeginWalk, BeginList, Begin, SelIndexMin
<1>2. IInv' /\ log' = log
  BY <1>1 DEF vars, RInv, IInv
<1>3. /\ NumEntries(log.end) \in 0 .. RecordsMax /\ log.end \in Int
      /\ log.end >= 0 => NumEntries(log.end) = log.end
  BY LogType, RecordsMaxAssumption, MaxBelowAssumption DEF RInv, NumEntries, SelIndexMin
<1>4. /\ at' \in [Readers -> -1 .. RecordsMax] /\ listing' \subseteq Readers
      /\ count' \in [Readers -> 0 .. RecordsMax] /\ seen' \in [Readers -> Seq(Payloads)]
  <2>1. <<>> \in Seq(Payloads)
    OBVIOUS
  <2>2. at' \in [Readers -> -1 .. RecordsMax] /\ listing' \subseteq Readers
    BY <1>1, RecordsMaxAssumption DEF RInv
  <2>3. seen' \in [Readers -> Seq(Payloads)]
    BY <1>1, <2>1 DEF RInv
  <2>4. count' \in [Readers -> 0 .. RecordsMax]
    BY <1>1, <1>3, RecordsMaxAssumption DEF RInv
  <2>. QED BY <2>2, <2>3, <2>4
<1>5. ASSUME NEW q \in Readers, q # r PROVE Passing(q)'
  <2>1. /\ at'[q] = at[q] /\ seen'[q] = seen[q] /\ count'[q] = count[q]
        /\ (q \in undisturbed' <=> q \in undisturbed) /\ (q \in listing' <=> q \in listing)
    BY <1>1, <1>5 DEF RInv
  <2>2. Passing(q)
    BY DEF RInv
  <2>. QED BY <1>2, <2>1, <2>2 DEF Passing
<1>6. Passing(r)'
  <2>1. at'[r] = 0 /\ seen'[r] = <<>>
    BY <1>1 DEF RInv
  <2>2. r \in listing' /\ log.end >= 0 => count'[r] = log.end /\ log.end > 0
    BY <1>1, <1>3 DEF RInv
  <2>. QED BY <1>2, <1>3, <2>1, <2>2 DEF Passing
<1>. QED BY <1>2, <1>4, <1>5, <1>6 DEF RInv

(* Nothing of the other readers changes in a step of r.                    *)
LEMMA OthersPass ==
  ASSUME RInv, NEW r \in Readers, log' = log, IInv',
         at' \in [Readers -> -1 .. RecordsMax], seen' \in [Readers -> Seq(Payloads)],
         listing' = listing, count' = count, undisturbed' \subseteq undisturbed,
         \A q \in Readers : q # r => at'[q] = at[q] /\ seen'[q] = seen[q],
         Passing(r)'
  PROVE  RInv'
<1>1. ASSUME NEW q \in Readers, q # r PROVE Passing(q)'
  <2>1. Passing(q)
    BY DEF RInv
  <2>2. at'[q] = at[q] /\ seen'[q] = seen[q] /\ count'[q] = count[q]
        /\ (q \in undisturbed' => q \in undisturbed) /\ (q \in listing' <=> q \in listing)
    BY <1>1
  <2>. QED BY <2>1, <2>2 DEF Passing
<1>. QED BY <1>1 DEF RInv

LEMMA GetInv ==
  ASSUME RInv, NEW r \in Readers, StorageGetSel(r)
  PROVE  RInv'
<1> DEFINE a == at[r]
<1>1. /\ a \in 0 .. RecordsMax /\ a \in Slots /\ LowByte(a) = a /\ r \notin listing
      /\ log' = log /\ listing' = listing /\ count' = count /\ undisturbed' = undisturbed
  BY RecordsMaxAssumption DEF RInv, StorageGetSel, Idle, Slots, LowByte, RecidLast
<1>2. IInv'
  <2>1. cc' \in {"success", "error"}
    BY DEF StorageGetSel
  <2>. QED BY <2>1 DEF StorageGetSel, RInv, IInv
<1>3. CASE HasEntry(log, a) /\ log.end >= 0
  <2>1. a \in 0 .. log.end - 1
    BY <1>1, <1>3, LogFacts DEF RInv
  <2>2. at' = [at EXCEPT ![r] = IF a + 1 = log.end THEN Idle ELSE a + 1] /\ See(r, a)
    BY <1>1, <1>3, <2>1, NextIdIs DEF StorageGetSel
  <2>3. seen' \in [Readers -> Seq(Payloads)] /\ \A q \in Readers : q # r => seen'[q] = seen[q]
    BY <1>1, <2>2, SeeOne
  <2>4. /\ at' \in [Readers -> -1 .. RecordsMax]
        /\ \A q \in Readers : q # r => at'[q] = at[q]
        /\ a + 1 = log.end => at'[r] = Idle
        /\ a + 1 # log.end => at'[r] = a + 1
    BY <1>3, <2>1, <2>2, NextIdIs, RecordsMaxAssumption DEF RInv, Idle
  <2>5. Passing(r)'
    <3>. SUFFICES ASSUME r \in undisturbed', at'[r] # Idle
                  PROVE  /\ at'[r] = 0 \/ at'[r] < log'.end
                         /\ Len(seen'[r]) = at'[r]
                         /\ \A k \in 1 .. at'[r] : seen'[r][k] = log'.data[k - 1].event
      BY <1>1 DEF Passing
    <3>1. at'[r] = a + 1 /\ a + 1 # log.end
      BY <2>4
    <3>2. /\ Len(seen'[r]) = a + 1
          /\ \A k \in 1 .. a + 1 : seen'[r][k] = log.data[k - 1].event
      BY <1>1, <1>3, <2>2, ReadsOn DEF Idle
    <3>3. a + 1 < log.end
      BY <1>3, <2>1, <3>1, LogFacts DEF RInv
    <3>. QED BY <1>1, <3>1, <3>2, <3>3
  <2>. QED BY <1>1, <1>2, <2>3, <2>4, <2>5, OthersPass
<1>4. CASE ~HasEntry(log, a)
  <2>1. at' = [at EXCEPT ![r] = Idle] /\ seen' = seen
    BY <1>1, <1>4 DEF StorageGetSel
  <2>2. at' \in [Readers -> -1 .. RecordsMax] /\ at'[r] = Idle
        /\ \A q \in Readers : q # r => at'[q] = at[q]
    BY <2>1, RecordsMaxAssumption DEF RInv, Idle
  <2>3. Passing(r)'
    BY <2>2 DEF Passing
  <2>4. seen' \in [Readers -> Seq(Payloads)]
    BY <2>1 DEF RInv
  <2>. QED BY <1>1, <1>2, <2>1, <2>2, <2>3, <2>4, OthersPass
<1>5. CASE HasEntry(log, a) /\ log.end < 0
  <2>1. NextId(log, a) \in 0 .. RecordsMax
    BY <1>1, <1>5, BelowFacts DEF RInv
  <2>2. (\E x \in -1 .. RecordsMax : at' = [at EXCEPT ![r] = x]) /\ See(r, a)
    <3>1. \/ at' = [at EXCEPT ![r] = Idle]
          \/ at' = [at EXCEPT ![r] = NextId(log, a)]
      BY <1>1, <1>5 DEF StorageGetSel
    <3>2. Idle \in -1 .. RecordsMax /\ NextId(log, a) \in -1 .. RecordsMax
      BY <2>1, RecordsMaxAssumption DEF Idle
    <3>3. See(r, a)
      BY <1>1, <1>5 DEF StorageGetSel
    <3>. QED BY <3>1, <3>2, <3>3
  <2>3. seen' \in [Readers -> Seq(Payloads)] /\ \A q \in Readers : q # r => seen'[q] = seen[q]
    BY <1>1, <2>2, SeeOne
  <2>4. at' \in [Readers -> -1 .. RecordsMax] /\ \A q \in Readers : q # r => at'[q] = at[q]
    BY <2>2 DEF RInv
  <2>5. Passing(r)'
    BY <1>1, <1>5, NegativeIsNot DEF Passing, RInv
  <2>. QED BY <1>1, <1>2, <2>3, <2>4, <2>5, OthersPass
<1>. QED BY <1>3, <1>4, <1>5, NegativeIsNot DEF RInv

LEMMA RefusedInv ==
  ASSUME RInv, NEW r \in Readers, RefusedGet(r)
  PROVE  RInv'
<1>1. /\ log' = log /\ listing' = listing /\ count' = count /\ seen' = seen
      /\ undisturbed' \subseteq undisturbed
  BY DEF RefusedGet, RefusedCommand
<1>2. IInv'
  BY DEF RefusedGet, RefusedCommand, RInv, IInv
<1>3. at' \in [Readers -> -1 .. RecordsMax] /\ at'[r] = Idle
      /\ \A q \in Readers : q # r => at'[q] = at[q]
  BY RecordsMaxAssumption DEF RInv, RefusedGet, Idle
<1>4. Passing(r)'
  BY <1>3 DEF Passing
<1>5. seen' \in [Readers -> Seq(Payloads)]
  BY <1>1 DEF RInv
<1>. QED BY <1>1, <1>2, <1>3, <1>4, <1>5, OthersPass

LEMMA ListInv ==
  ASSUME RInv, NEW r \in Readers, ListEntry(r)
  PROVE  RInv'
<1> DEFINE a == at[r]
<1>1. /\ a \in 0 .. RecordsMax /\ a \in Slots
      /\ UNCHANGED vars /\ listing' = listing /\ count' = count /\ undisturbed' = undisturbed
  BY RecordsMaxAssumption DEF RInv, ListEntry, Idle, Slots
<1>2. IInv' /\ log' = log
  BY <1>1 DEF vars, RInv, IInv
<1>3. CASE HasEntry(log, a)
  <2>2. See(r, a) /\ \/ a + 1 < count[r] /\ at' = [at EXCEPT ![r] = a + 1]
                     \/ at' = [at EXCEPT ![r] = Idle]
    BY <1>3 DEF ListEntry
  <2>3. seen' \in [Readers -> Seq(Payloads)] /\ \A q \in Readers : q # r => seen'[q] = seen[q]
    BY <1>1, <2>2, SeeOne
  <2>4. at' \in [Readers -> -1 .. RecordsMax] /\ \A q \in Readers : q # r => at'[q] = at[q]
    <3>1. Idle \in -1 .. RecordsMax
      BY RecordsMaxAssumption DEF Idle
    <3>2. a + 1 < count[r] => a + 1 \in -1 .. RecordsMax
      BY <1>1, RecordsMaxAssumption DEF RInv
    <3>. QED BY <2>2, <3>1, <3>2 DEF RInv
  <2>5. Passing(r)'
    <3>. SUFFICES ASSUME r \in undisturbed', at'[r] # Idle, log.end >= 0 PROVE Passing(r)'
      BY <1>1 DEF Passing, vars
    <3>1. at'[r] = a + 1 /\ a + 1 < count[r]
      BY <2>2 DEF RInv
    <3>2. /\ Len(seen'[r]) = a + 1
          /\ \A k \in 1 .. a + 1 : seen'[r][k] = log.data[k - 1].event
      BY <1>1, <1>3, <2>2, ReadsOn DEF Idle
    <3>3. r \in listing /\ count[r] <= log.end /\ count[r] \in Int /\ log.end \in Int
      BY <1>1, LogFacts DEF RInv, Passing, ListEntry
    <3>4. a + 1 < log.end
      BY <1>1, <3>1, <3>3
    <3>. QED BY <1>1, <1>2, <3>1, <3>2, <3>3, <3>4 DEF Passing
  <2>. QED BY <1>1, <1>2, <2>3, <2>4, <2>5, OthersPass
<1>4. CASE ~HasEntry(log, a)
  <2>1. at' = [at EXCEPT ![r] = Idle] /\ seen' = seen
    BY <1>4 DEF ListEntry
  <2>2. at' \in [Readers -> -1 .. RecordsMax] /\ at'[r] = Idle
        /\ \A q \in Readers : q # r => at'[q] = at[q]
    BY <2>1, RecordsMaxAssumption DEF RInv, Idle
  <2>3. Passing(r)'
    BY <2>2 DEF Passing
  <2>4. seen' \in [Readers -> Seq(Payloads)]
    BY <2>1 DEF RInv
  <2>. QED BY <1>1, <1>2, <2>1, <2>2, <2>3, <2>4, OthersPass
<1>. QED BY <1>3, <1>4

LEMMA GrowingInv ==
  ASSUME RInv, Growing
  PROVE  RInv'
<1>1. PICK ev \in Events : StorageAddSel(ev) \/ PlatformEvent(ev) \/ InternalEvent(ev)
  BY DEF Growing
<1>2. IInv'
  BY <1>1, NextInv DEF Next, RInv
<1>3. PICK o \in AddEntry(log, file, ev) : log' = o.log /\ file' = o.file
  BY <1>1 DEF StorageAddSel, PlatformEvent, InternalEvent, Accept
<1>4. Extends(log, file, o)
  BY <1>3, AddEntryKeeps DEF RInv, IInv, Payloads
<1>5. log'.end >= log.end /\ \A s \in Slots : s < log.end => log'.data[s] = log.data[s]
  BY <1>3, <1>4 DEF Extends
<1>6. at' = at /\ listing' = listing /\ count' = count /\ seen' = seen
      /\ undisturbed' = undisturbed
  BY DEF Growing, readerVars
<1>7. log.end \in -MaxBelow .. RecordsMax /\ log'.end \in -MaxBelow .. RecordsMax
      /\ log.end \in Int /\ log'.end \in Int
  BY <1>2, RecordsMaxAssumption, MaxBelowAssumption DEF RInv, IInv, BoundedLogs
<1>8. log.end < 0 => log'.end < 0
  BY <1>3, AddEntryBelow DEF RInv, IInv, Payloads
<1>9. ASSUME NEW r \in Readers, r \in undisturbed, at[r] # Idle, log.end >= 0
      PROVE  Passing(r)'
  <2>1. /\ at[r] \in 0 .. RecordsMax /\ count[r] \in Int
        /\ at[r] = 0 \/ at[r] < log.end
        /\ Len(seen[r]) = at[r]
        /\ \A k \in 1 .. at[r] : seen[r][k] = log.data[k - 1].event
        /\ r \in listing => at[r] < count[r] /\ count[r] <= log.end
    BY <1>9, RecordsMaxAssumption DEF RInv, Passing, Idle
  <2>2. ASSUME NEW k \in 1 .. at[r] PROVE seen[r][k] = log'.data[k - 1].event
    <3>1. k - 1 \in Slots /\ k - 1 < log.end
      BY <1>7, <2>1, RecordsMaxAssumption DEF Slots
    <3>. QED BY <1>5, <2>1, <3>1
  <2>3. at[r] = 0 \/ at[r] < log'.end
    BY <1>5, <1>7, <2>1
  <2>4. r \in listing => at[r] < count[r] /\ count[r] <= log'.end
    BY <1>5, <1>7, <2>1
  <2>. QED BY <1>6, <2>1, <2>2, <2>3, <2>4 DEF Passing
<1>10. \A r \in Readers : Passing(r)'
  <2>. SUFFICES ASSUME NEW r \in Readers, log'.end >= 0, r \in undisturbed, at[r] # Idle
                PROVE  Passing(r)'
    BY <1>6 DEF Passing
  <2>1. log.end >= 0
    BY <1>7, <1>8
  <2>. QED BY <1>9, <2>1
<1>. QED BY <1>2, <1>6, <1>10 DEF RInv

LEMMA RInvNext ==
  ASSUME RInv, [ReadersNext]_allVars
  PROVE  RInv'
<1>1. CASE Disturbing
  <2>1. IInv'
    <3>1. rsvId \in 0 .. RsvMax
      BY RsvMaxAssumption DEF RInv, IInv, RsvMin
    <3>. QED BY <1>1, <3>1, NextInv DEF RInv, Disturbing, Next
  <2>. QED BY <1>1, <2>1 DEF RInv, Disturbing, Passing
<1>2. CASE Switching
  <2>1. IInv' /\ log' = log
    BY <1>2, NextInv DEF RInv, Switching, Next, SetGlobalEnables
  <2>. QED BY <1>2, <2>1 DEF RInv, Switching, Passing, readerVars
<1>3. CASE Reboot
  <2>1. IInv'
    BY <1>3, NextInv DEF RInv, Reboot, Next
  <2>2. at' \in [Readers -> -1 .. RecordsMax]
    BY <1>3, RecordsMaxAssumption DEF RInv, Reboot, Idle
  <2>. QED BY <1>3, <2>1, <2>2 DEF RInv, Reboot, Passing
<1>4. CASE UNCHANGED allVars
  BY <1>4 DEF allVars, vars, readerVars, RInv, IInv, Passing
<1>. QED
  BY <1>1, <1>2, <1>3, <1>4, BeginInv, GetInv, RefusedInv, ListInv, GrowingInv
  DEF ReadersNext

LEMMA ReadersInvariant == ReadersSpec => []RInv
<1>1. ReadersInit => RInv
  BY ReadersInitInv
<1>2. RInv /\ [ReadersNext]_allVars => RInv'
  BY RInvNext
<1>. QED BY <1>1, <1>2, PTL DEF ReadersSpec

(* Which steps of the whole end a pass of r that nothing disturbed.        *)
LEMMA FinishingStep ==
  ASSUME RInv, [ReadersNext]_allVars, NEW r \in Readers,
         Finishes(r), r \in undisturbed'
  PROVE  \/ StorageGetSel(r) /\ r \notin listing /\ r \in undisturbed
         \/ ListEntry(r) /\ r \in listing /\ r \in undisturbed
<1>1. at[r] # Idle /\ at'[r] = Idle /\ at'[r] # at[r]
  BY DEF Finishes
<1>2. ASSUME NEW q \in Readers, BeginWalk(q) \/ BeginList(q) PROVE FALSE
  <2>1. at[q] = Idle /\ at' = [at EXCEPT ![q] = SelIndexMin]
    BY <1>2 DEF BeginWalk, BeginList, Begin
  <2>2. SelIndexMin # Idle
    BY DEF SelIndexMin, Idle
  <2>. QED BY <1>1, <2>1, <2>2 DEF RInv
<1>3. ASSUME NEW q \in Readers, RefusedGet(q) PROVE FALSE
  <2>1. at' = [at EXCEPT ![q] = Idle] /\ undisturbed' = undisturbed \ {q}
    BY <1>3 DEF RefusedGet
  <2>. QED BY <1>1, <2>1 DEF RInv
<1>4. ASSUME NEW q \in Readers, StorageGetSel(q)
      PROVE  StorageGetSel(r) /\ r \notin listing /\ r \in undisturbed
  <2>1. (\E x : at' = [at EXCEPT ![q] = x]) /\ undisturbed' = undisturbed /\ q \notin listing
    BY <1>4 DEF StorageGetSel
  <2>2. q = r
    BY <1>1, <2>1 DEF RInv
  <2>. QED BY <1>4, <2>1, <2>2
<1>5. ASSUME NEW q \in Readers, ListEntry(q)
      PROVE  ListEntry(r) /\ r \in listing /\ r \in undisturbed
  <2>1. (\E x : at' = [at EXCEPT ![q] = x]) /\ undisturbed' = undisturbed /\ q \in listing
    BY <1>5 DEF ListEntry
  <2>2. q = r
    BY <1>1, <2>1 DEF RInv
  <2>. QED BY <1>5, <2>1, <2>2
<1>6. ~(Growing \/ Disturbing \/ Switching \/ Reboot \/ UNCHANGED allVars)
  BY <1>1 DEF Growing, Disturbing, Switching, Reboot, allVars, readerVars
<1>. QED BY <1>2, <1>3, <1>4, <1>5, <1>6 DEF ReadersNext

LEMMA EventsAre ==
  ASSUME RInv, log.end >= 0, NEW s \in Seq(Payloads), NEW n \in 0 .. log.end,
         Len(s) = n, \A k \in 1 .. n : s[k] = log.data[k - 1].event
  PROVE  s = SubSeq(EventsOf(log), 1, n) /\ (n = log.end => s = EventsOf(log))
<1> DEFINE e == EventsOf(log)
<1>1. log \in BoundedLogs /\ log.end \in 0 .. RecordsMax /\ n \in Nat
  BY LogFacts DEF RInv
<1>2. e \in Seq(Payloads) /\ Len(e) = log.end /\ \A k \in 1 .. log.end : e[k] = log.data[k - 1].event
  BY <1>1, EventsSeq
<1>. HIDE DEF e
<1>3. ASSUME NEW k \in 1 .. n PROVE s[k] = e[k]
  <2>1. k \in 1 .. log.end
    BY <1>1
  <2>2. e[k] = log.data[k - 1].event
    BY <1>2, <2>1
  <2>3. s[k] = log.data[k - 1].event
    OBVIOUS
  <2>. QED BY <2>2, <2>3
<1>4. /\ SubSeq(e, 1, n) \in Seq(Payloads) /\ Len(SubSeq(e, 1, n)) = n
      /\ \A k \in 1 .. n : SubSeq(e, 1, n)[k] = e[k]
  <2>1. \A k \in 1 .. n : e[k] \in Payloads
    BY <1>1, <1>2
  <2>2. /\ SubSeq(e, 1, n) \in Seq(Payloads)
        /\ Len(SubSeq(e, 1, n)) = IF 1 <= n THEN n - 1 + 1 ELSE 0
        /\ \A k \in 1 .. n - 1 + 1 : SubSeq(e, 1, n)[k] = e[1 + k - 1]
    BY <1>1, <2>1, SubSeqProperties
  <2>3. n - 1 + 1 = n /\ \A k \in 1 .. n : 1 + k - 1 = k
    BY <1>1
  <2>. QED BY <1>1, <2>2, <2>3
<1>5. s = SubSeq(e, 1, n)
  BY <1>3, <1>4, SeqEqual
<1>6. n = log.end => s = e
  BY <1>2, <1>3, SeqEqual
<1>. QED BY <1>5, <1>6 DEF e

LEMMA WalkEnds ==
  ASSUME RInv, NEW r \in Readers, r \in undisturbed, StorageGetSel(r),
         at'[r] = Idle, seen' \in [Readers -> Seq(Payloads)]
  PROVE  seen'[r] = EventsOf(log)
<1> DEFINE a == at[r]
<1>0. /\ a \in 0 .. RecordsMax /\ a # Idle /\ LowByte(a) = a /\ a \in Slots
  BY RecordsMaxAssumption DEF RInv, StorageGetSel, Idle, LowByte, RecidLast, Slots
<1>4. log.end >= 0
  <2>. SUFFICES ASSUME log.end < 0 PROVE FALSE
    BY NegativeIsNot DEF RInv
  <2>1. /\ HasEntry(log, a)
        /\ NextId(log, a) \in 0 .. RecordsMax /\ NextId(log, a) # RecidLast
    BY <1>0, BelowFacts DEF RInv
  <2>2. at' = [at EXCEPT ![r] = NextId(log, a)]
    BY <1>0, <2>1 DEF StorageGetSel
  <2>3. at'[r] = NextId(log, a)
    BY <2>2 DEF RInv
  <2>. QED BY <2>1, <2>3 DEF Idle
<1>1. /\ a \in 0 .. RecordsMax /\ a # Idle /\ LowByte(a) = a
      /\ log.end \in 0 .. RecordsMax
  BY <1>0, <1>4, LogFacts DEF RInv
<1>2. CASE HasEntry(log, a)
  <2>1. a \in 0 .. log.end - 1
    BY <1>1, <1>2, <1>4, LogFacts DEF RInv
  <2>2. at' = [at EXCEPT ![r] = IF a + 1 = log.end THEN Idle ELSE a + 1] /\ See(r, a)
    BY <1>1, <1>2, <2>1, <1>4, NextIdIs DEF StorageGetSel
  <2>3. a + 1 = log.end
    BY <1>1, <2>2 DEF RInv, Idle
  <2>4. Len(seen'[r]) = a + 1 /\ \A k \in 1 .. a + 1 : seen'[r][k] = log.data[k - 1].event
    BY <1>1, <1>2, <2>2, <1>4, ReadsOn
  <2>. QED BY <1>1, <2>3, <2>4, <1>4, EventsAre
<1>3. CASE ~HasEntry(log, a)
  <2>1. seen' = seen
    BY <1>1, <1>3 DEF StorageGetSel
  <2>2. a = 0 /\ log.end = 0 /\ Len(seen[r]) = 0
    BY <1>1, <1>3, <1>4, LogFacts DEF RInv, Passing
  <2>. QED BY <1>1, <2>1, <2>2, <1>4, EventsAre
<1>. QED BY <1>2, <1>3

LEMMA ListEnds ==
  ASSUME RInv, log.end >= 0, NEW r \in Readers, r \in undisturbed, ListEntry(r),
         at'[r] = Idle, seen' \in [Readers -> Seq(Payloads)]
  PROVE  /\ seen'[r] = SubSeq(EventsOf(log), 1, Len(seen'[r]))
         /\ Len(seen'[r]) = count[r] \/ Len(seen'[r]) >= ListFits
<1> DEFINE a == at[r]
<1>1. /\ a \in 0 .. RecordsMax /\ a # Idle /\ log.end \in 0 .. RecordsMax
      /\ r \in listing /\ count[r] \in Int
  BY LogFacts, RecordsMaxAssumption DEF RInv, ListEntry, Idle
<1>2. a < count[r] /\ count[r] <= log.end
  BY <1>1 DEF RInv, Passing
<1>3. HasEntry(log, a)
  BY <1>1, <1>2, LogFacts DEF RInv
<1>4. See(r, a) /\ (a + 1 >= count[r] \/ a + 1 >= ListFits)
  <2>1. \/ a + 1 < count[r] /\ at' = [at EXCEPT ![r] = a + 1]
        \/ a + 1 >= count[r] \/ a + 1 >= ListFits
    BY <1>3 DEF ListEntry
  <2>2. a + 1 # Idle
    BY <1>1 DEF Idle
  <2>. QED BY <1>3, <2>1, <2>2 DEF ListEntry, RInv
<1>5. Len(seen'[r]) = a + 1 /\ \A k \in 1 .. a + 1 : seen'[r][k] = log.data[k - 1].event
  BY <1>1, <1>3, <1>4, ReadsOn
<1>6. a + 1 \in 0 .. log.end
  BY <1>1, <1>2
<1>7. seen'[r] = SubSeq(EventsOf(log), 1, a + 1)
  BY <1>5, <1>6, EventsAre
<1>8. a + 1 = count[r] \/ a + 1 >= ListFits
  BY <1>1, <1>2, <1>4
<1>. QED BY <1>5, <1>7, <1>8

(* A client's walk during which the log was only appended to, if it ends,  *)
(* has returned every record of the log as it is then, once and in order,  *)
(* whatever stores fail and however many readers there are.  A log with a  *)
(* negative end is no exception: nothing ends a walk over it.              *)
THEOREM WalksAreComplete == ReadersSpec => WalkComplete
<1>1. RInv /\ RInv' /\ [ReadersNext]_allVars =>
        [\A r \in Readers \ listing :
           Finishes(r) /\ r \in undisturbed /\ r \in undisturbed' =>
             seen'[r] = EventsOf(log)]_allVars
  <2>. SUFFICES ASSUME RInv, RInv', [ReadersNext]_allVars, NEW r \in Readers \ listing,
                       Finishes(r), r \in undisturbed'
                PROVE  seen'[r] = EventsOf(log)
    OBVIOUS
  <2>1. StorageGetSel(r) /\ r \in undisturbed /\ r \in Readers
    BY FinishingStep
  <2>2. at'[r] = Idle /\ seen' \in [Readers -> Seq(Payloads)]
    BY DEF Finishes, RInv
  <2>. QED BY <2>1, <2>2, WalkEnds
<1>. QED BY <1>1, ReadersInvariant, PTL DEF ReadersSpec, WalkComplete

(* A listing during which the log was only appended to shows the first     *)
(* records of the log in their order: all that were counted at its         *)
(* beginning, or as many as the response holds.                            *)
THEOREM ListingsArePrefixes == ReadersSpec => ListPrefix
<1>1. RInv /\ RInv' /\ [ReadersNext]_allVars =>
        [\A r \in listing :
           Finishes(r) /\ r \in undisturbed' /\ log.end >= 0 =>
             /\ seen'[r] = SubSeq(EventsOf(log), 1, Len(seen'[r]))
             /\ Len(seen'[r]) = count[r] \/ Len(seen'[r]) >= ListFits]_allVars
  <2>. SUFFICES ASSUME RInv, RInv', [ReadersNext]_allVars, NEW r \in listing,
                       Finishes(r), r \in undisturbed', log.end >= 0
                PROVE  /\ seen'[r] = SubSeq(EventsOf(log), 1, Len(seen'[r]))
                       /\ Len(seen'[r]) = count[r] \/ Len(seen'[r]) >= ListFits
    OBVIOUS
  <2>1. r \in Readers
    BY DEF RInv
  <2>2. ListEntry(r) /\ r \in undisturbed
    BY <2>1, FinishingStep
  <2>3. at'[r] = Idle /\ seen' \in [Readers -> Seq(Payloads)]
    BY DEF Finishes, RInv
  <2>. QED BY <2>1, <2>2, <2>3, ListEnds
<1>. QED BY <1>1, ReadersInvariant, PTL DEF ReadersSpec, ListPrefix
=============================================================================

------------------------------ MODULE SelSteps ------------------------------
(***************************************************************************)
(* The writers of the System Event Log statement by statement: Add SEL     *)
(* Entry, Delete SEL Entry and Clear SEL as threads run them, without any  *)
(* lock, with a power loss possible between any two steps and a failure    *)
(* possible at every store.  It answers two questions: whether one writer  *)
(* at a time leaves exactly the outcomes that SelLog gives its one-step    *)
(* handlers, and what two writers at once can do.                          *)
(*                                                                         *)
(* Abstractions.  The shift of a delete and the reset of an erase are one  *)
(* step each, since a power loss between their statements leaves no trace. *)
(* A store copies the cache and reaches the file, or fails, in one step.   *)
(***************************************************************************)
EXTENDS SelLog

CONSTANTS
  Threads,
  Ops        \* the handlers that are called

ASSUME OpsAssumption == Ops \subseteq {"add", "delete", "erase"}

(***************************************************************************)
(* What a thread has on its stack: pc; msg, the payload it adds; recId,    *)
(* rec_id; full, full_msg; i, the value loaded for end++ or a loop index.  *)
(* The call it runs, with the log and the file it found, is history.       *)
(***************************************************************************)
VARIABLE th

stepVars == <<vars, th>>

NoCall == [op |-> "none", arg |-> Blank, log |-> BlankLog, file |-> BlankLog]
Resting == [pc |-> "idle", msg |-> Blank, recId |-> 0, full |-> FALSE, i |-> 0,
            call |-> NoCall]

StepsInit == Init /\ th = [t \in Threads |-> Resting]

At(t, label) == th[t].pc = label
Goto(t, label) == th' = [th EXCEPT ![t].pc = label]
Keep == UNCHANGED <<rsvId, enabled>>

ReturnMutant(t, ok) ==
  /\ th' = [th EXCEPT ![t] = Resting]
  /\ cc' = Code(ok \/ th[t].call.op \in {"erase", "delete"})
(***************************************************************************)
(* The call ends.  What add_to_sel_full and plat_sel_erase called for      *)
(* their record returns is ignored, and so is a result of                  *)
(* delete_sel_entry.                                                       *)
(***************************************************************************)
Return(t, ok) ==
  /\ th' = [th EXCEPT ![t] = Resting]
  /\ cc' = Code(ok \/ th[t].msg = FullMark \/ th[t].call.op \in {"erase", "delete"})

Call(t, op, arg, payload, label) ==
  /\ At(t, "idle")
  /\ op \in Ops
  /\ th' = [th EXCEPT ![t] =
              [Resting EXCEPT
                 !.pc = label, !.msg = payload,
                 !.call = [op |-> op, arg |-> arg, log |-> log, file |-> file]]]
  /\ UNCHANGED vars

CallAdd(t, ev) == Call(t, "add", ev, ev, "check")
(* Bound: MaxBelow, as in StorageDelSelEntry. *)
CallDelete(t, id) == log.end > -MaxBelow /\ Call(t, "delete", id, Blank, "shift")
CallErase(t) == Call(t, "erase", ClearMark, ClearMark, "reset")
----------------------------------------------------------------------------
(* plat_sel_add_entry *)

Check(t) ==
  /\ At(t, "check")
  /\ IF IsFull(log) THEN Return(t, FALSE)
                    ELSE Goto(t, "measure") /\ UNCHANGED cc
  /\ UNCHANGED <<log, file>> /\ Keep

Measure(t) ==
  /\ At(t, "measure")
  /\ th' = [th EXCEPT ![t].full = LeavesOne(log), ![t].pc = "number"]
  /\ UNCHANGED vars

Number(t) ==
  /\ At(t, "number")
  /\ th' = [th EXCEPT ![t].recId = log.end, ![t].pc = "copy"]
  /\ UNCHANGED vars

Record(t) == Numbered(th[t].recId, th[t].msg)

(* The copy goes where end is now, under the id read before.  Past the end *)
(* of g_sel_data, and in front of it, it hits what is not modelled.        *)
Copy(t) ==
  /\ At(t, "copy")
  /\ log' = [log EXCEPT !.data = WriteSlot(@, log.end, Record(t))]
  /\ Goto(t, "load")
  /\ UNCHANGED <<file, cc>> /\ Keep

(* g_sel_hdr.end++ is a load and a store. *)
Load(t) ==
  /\ At(t, "load")
  /\ th' = [th EXCEPT ![t].i = log.end, ![t].pc = "bump"]
  /\ UNCHANGED vars

Bump(t) ==
  /\ At(t, "bump")
  /\ log' = [log EXCEPT !.end = th[t].i + 1]
  /\ Goto(t, "header")
  /\ UNCHANGED <<file, cc>> /\ Keep

Header(t) ==
  /\ At(t, "header")
  /\ \/ file' \in StoreHdr(file, log) /\ Goto(t, "data") /\ UNCHANGED cc
     \/ StoreMayFail /\ Return(t, FALSE) /\ UNCHANGED file
  /\ UNCHANGED log /\ Keep

(* After the record that leaves one place the function runs again, for the *)
(* marker.                                                                 *)
Data(t) ==
  /\ At(t, "data")
  /\ \/ /\ file' \in StoreData(file, th[t].recId, Record(t))
        /\ IF th[t].full
           THEN /\ th' = [th EXCEPT ![t].msg = FullMark, ![t].pc = "check"]
                /\ UNCHANGED cc
           ELSE Return(t, TRUE)
     \/ StoreMayFail /\ Return(t, FALSE) /\ UNCHANGED file
  /\ UNCHANGED log /\ Keep
----------------------------------------------------------------------------
(* delete_sel_entry *)

Shift(t) ==
  /\ At(t, "shift")
  /\ log' = [end |-> log.end - 1, data |-> Shifted(log, th[t].call.arg)]
  /\ Goto(t, "cut")
  /\ UNCHANGED <<file, cc>> /\ Keep

CutMutant(t) ==
  /\ At(t, "cut")
  /\ file' = log
  /\ th' = [th EXCEPT ![t].pc = "renumber", ![t].i = 0]
  /\ UNCHANGED <<log, cc>> /\ Keep
Cut(t) ==
  /\ At(t, "cut")
  /\ \/ /\ file' \in StoreHdr(file, log)
        /\ th' = [th EXCEPT ![t].pc = "renumber", ![t].i = 0]
        /\ UNCHANGED cc
     \/ StoreMayFail /\ Return(t, FALSE) /\ UNCHANGED file
  /\ UNCHANGED log /\ Keep

(* One pass of the loop in file_store_all_sel_data: the first one stores   *)
(* the whole array, later ones write behind it.                            *)
Renumber(t) ==
  LET i == th[t].i
  IN  /\ At(t, "renumber")
      /\ i <= log.end
      /\ log' = [log EXCEPT !.data = WriteSlot(@, i, Numbered(i, @[i].event))]
      /\ \/ /\ file' \in IF i = 0 THEN StoreAll(file, log'.data) ELSE {file}
            /\ th' = [th EXCEPT ![t].i = i + 1]
            /\ UNCHANGED cc
         \/ StoreMayFail /\ Return(t, FALSE) /\ UNCHANGED file
      /\ Keep

Renumbered(t) ==
  /\ At(t, "renumber")
  /\ th[t].i > log.end
  /\ Return(t, TRUE)
  /\ UNCHANGED <<log, file>> /\ Keep

(* plat_sel_erase; its record is added from "check" on. *)
Reset(t) ==
  /\ At(t, "reset")
  /\ log' = [log EXCEPT !.end = SelIndexMin]
  /\ \/ file' \in StoreHdr(file, log') /\ Goto(t, "check") /\ UNCHANGED cc
     \/ /\ StoreMayFail
        /\ th' = [th EXCEPT ![t] = Resting]
        /\ cc' = "error"
        /\ UNCHANGED file
  /\ Keep

(* A power loss stops every thread wherever it is. *)
PowerLoss == Restart /\ th' = [t \in Threads |-> Resting]

Step(t) ==
  \/ Check(t) \/ Measure(t) \/ Number(t) \/ Copy(t) \/ Load(t) \/ Bump(t)
  \/ Header(t) \/ Data(t)
  \/ Shift(t) \/ Cut(t) \/ Renumber(t) \/ Renumbered(t) \/ Reset(t)

StepsNext ==
  \/ \E t \in Threads, ev \in Events : CallAdd(t, ev)
  \/ \E t \in Threads, id \in Slots : CallDelete(t, id)
  \/ \E t \in Threads : CallErase(t) \/ Step(t)
  \/ PowerLoss

StepsSpec == StepsInit /\ [][StepsNext]_stepVars
----------------------------------------------------------------------------
(* The outcomes SelLog gives the handler a thread was called for, with the *)
(* completion code.                                                        *)
Outcomes(c) ==
  LET answered(os) == {[log |-> o.log, file |-> o.file, cc |-> Code(o.ok)] : o \in os}
  IN  CASE c.op = "add" -> answered(AddEntry(c.log, c.file, c.arg))
        [] c.op = "delete" -> {[log |-> o.log, file |-> o.file, cc |-> "success"] :
                                 o \in DeleteEntry(c.log, c.file, c.arg)}
        [] c.op = "erase" -> answered(EraseAll(c.log, c.file))

(* One writer at a time: a call returns with the log, the file and the     *)
(* completion code that the handler's single step in SelLog allows, even   *)
(* when stores fail between its statements.                                *)
ReturnsAsOneStep ==
  [][\A t \in Threads :
       ~At(t, "idle") /\ th'[t].pc = "idle" /\ cc' # "none" =>
         [log |-> log', file |-> file', cc |-> cc'] \in Outcomes(th[t].call)]_stepVars

(* One writer at a time: a power loss at any moment finds a file that is   *)
(* as before the call or as an outcome of SelLog leaves it, so that the    *)
(* restart of SelLog covers it.                                            *)
InterruptedAsOneStep ==
  \A t \in Threads :
    ~At(t, "idle") =>
      file \in {th[t].call.file} \cup {o.file : o \in Outcomes(th[t].call)}

(* "If the SEL is full ... use one empty location less than the max        *)
(* records" (plat_sel_add_entry): the log never counts more.               *)
NeverPastCapacity == log.end <= RecordsMax
=============================================================================

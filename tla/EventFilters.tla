---------------------------- MODULE EventFilters ----------------------------
(***************************************************************************)
(* The event filter table (libs/sel/efte.cpp): the copy in memory the      *)
(* events are matched with, and the file that commands read and that is    *)
(* loaded at start.  A command writes the number of filters first and the  *)
(* filter after it, and may be cut short in between.  The main program,    *)
(* which is not in the repository, is taken to call set_eft_init before it *)
(* serves commands; nothing else would load the file.  The action global   *)
(* control is stored like the control byte, and left out.                  *)
(***************************************************************************)
EXTENDS Integers

CONSTANTS
  FilterMax,      \* filters that clients use: no more than g_eft_data holds
  Configs, Rests, \* config byte and other bytes of a filter
  Controls        \* control bytes

ASSUME FilterAssumption == FilterMax \in 2 .. 6

Filter == [config : Configs, rest : Rests]
NoFilter == [config |-> "none", rest |-> "none"]  \* zeros, or not known
StaticFilter == [config |-> "static", rest |-> "static"]  \* initial g_eft_data
InitFilter == [config |-> "init", rest |-> "init"]  \* of set_eft_init

VARIABLES
  filters,  \* g_eft_data
  eft,      \* the file: is it there, its number, its control byte, its filters
  phase,    \* "serving", or how far set_eft_init is
  sent,     \* history: each filter as last set, where its set was not cut short
  control   \* history: the control byte as last set, likewise

filterVars == <<filters, eft, phase, sent, control>>

MissingFile ==
  [at |-> "missing", num |-> 0, len |-> 0, control |-> "none",
   entry |-> [i \in 1 .. FilterMax |-> NoFilter]]

StaticTable == [i \in 0 .. FilterMax |-> StaticFilter]

FilterInit ==
  /\ eft = MissingFile
  /\ filters = StaticTable
  /\ phase = "first"
  /\ sent = [i \in 1 .. FilterMax |-> NoFilter]
  /\ control = "none"
----------------------------------------------------------------------------
Greater(i, j) == IF i > j THEN i ELSE j

(* etf_init: a missing file is created, and then given the number 0. *)
Created(f) == IF f.at = "missing" THEN [f EXCEPT !.at = "kept"] ELSE f
CreatedEmpty(f) == IF f.at = "missing" THEN [f EXCEPT !.at = "empty"] ELSE f

NumberedMutant(f, id) == [f EXCEPT !.num = id]
(* The number of a file that a crash left empty cannot be read. *)
Numbered(f, id) == [f EXCEPT !.num = Greater(@, id)]

(* Filter 0 lies where the control byte is, before the others. *)
Entered(f, id, e) ==
  IF id = 0 THEN [f EXCEPT !.control = e.rest]
  ELSE [f EXCEPT !.entry[id] = e, !.len = Greater(@, id)]

(* set_eft_entry, which gives up if the number cannot be read. *)
Storable == Created(eft).at = "kept"
Store(id, e) ==
  eft' = IF Storable THEN Entered(Numbered(Created(eft), id), id, e) ELSE eft

SetEntry(id, e) ==
  /\ Store(id, e)
  /\ filters' = IF Storable THEN [filters EXCEPT ![id] = e] ELSE filters
  /\ sent' = IF Storable /\ id # 0 THEN [sent EXCEPT ![id] = e] ELSE sent
  /\ control' = IF Storable /\ id = 0 THEN "none" ELSE control

(* PEF configuration parameter 6. *)
SetFilter(id, e) == phase = "serving" /\ SetEntry(id, e) /\ UNCHANGED phase

(* Parameter 7, set_pef_enable: the filter in memory is changed and then   *)
(* stored whole.                                                           *)
SetPefEnable(id, c) ==
  LET e == [filters[id] EXCEPT !.config = c] IN
    /\ phase = "serving"
    /\ Store(id, e)
    /\ filters' = [filters EXCEPT ![id] = e]
    /\ sent' = IF Storable /\ id # 0 /\ sent[id] # NoFilter
               THEN [sent EXCEPT ![id].config = c] ELSE sent
    /\ control' = IF Storable /\ id = 0 THEN "none" ELSE control
    /\ UNCHANGED phase

(* Parameter 1, set_pef_ctrl: written behind what an empty file lacks, the *)
(* control byte makes the number 0 as well.                                *)
SetPefCtrl(b) ==
  /\ phase = "serving"
  /\ eft' = [eft EXCEPT !.at = "kept", !.control = b]
  /\ control' = b
  /\ UNCHANGED <<filters, phase, sent>>
----------------------------------------------------------------------------
(* set_eft_init sets the filters 1 and 2 ... *)
InitEntry ==
  /\ \/ phase = "first" /\ SetEntry(1, InitFilter) /\ phase' = "second"
     \/ phase = "second" /\ SetEntry(2, InitFilter) /\ phase' = "load"

(* ... which creates the file, so that it never fills it with the other    *)
(* defaults but loads what there is.                                       *)
Readable(i) == eft.at = "kept" /\ i \in 1 .. eft.num /\ i <= eft.len

Loaded == [i \in 0 .. FilterMax |-> IF Readable(i) THEN eft.entry[i] ELSE filters[i]]

LoadFilters ==
  /\ phase = "load"
  /\ filters' = Loaded
  /\ phase' = "serving"
  /\ UNCHANGED <<eft, sent, control>>

(* The program starts again, after it has stopped between two operations,  *)
(* or at any point in the storing of a filter or of the control byte.      *)
StartAgain == filters' = StaticTable /\ phase' = "first"

RestartFilters == StartAgain /\ UNCHANGED <<eft, sent, control>>

CutShort(id) ==
  /\ phase = "serving" \/ <<phase, id>> \in {<<"first", 1>>, <<"second", 2>>}
  /\ eft' \in {CreatedEmpty(eft), Created(eft)}
       \cup (IF Storable THEN {Numbered(Created(eft), id)} ELSE {})
  /\ sent' = IF id = 0 THEN sent ELSE [sent EXCEPT ![id] = NoFilter]
  /\ StartAgain
  /\ UNCHANGED control

FilterNext ==
  \/ \E id \in 0 .. FilterMax :
       \/ \E e \in Filter : SetFilter(id, e)
       \/ \E c \in Configs : SetPefEnable(id, c)
       \/ CutShort(id)
  \/ \E b \in Controls : SetPefCtrl(b)
  \/ InitEntry \/ LoadFilters \/ RestartFilters

FilterSpec == FilterInit /\ [][FilterNext]_filterVars
----------------------------------------------------------------------------
(* A filter reads back from the file as it was last set, by a command or   *)
(* by the main program, and events are matched with the same; and so does  *)
(* the control byte, if no client has set a filter 0 since.  No crash, no  *)
(* failing store and no setting of another filter comes between.           *)
FiltersReadBack ==
  /\ \A id \in 1 .. FilterMax : sent[id] # NoFilter =>
       /\ Readable(id) /\ eft.entry[id] = sent[id]
       /\ phase = "serving" => filters[id] = sent[id]
  /\ control # "none" => eft.at = "kept" /\ eft.control = control
=============================================================================

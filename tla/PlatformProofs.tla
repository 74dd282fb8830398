--------------------------- MODULE PlatformProofs ---------------------------
(***************************************************************************)
(* Proofs about SdrRepository, EventFilters and LanMonitor: a walk that    *)
(* ends has all records, for any number of clients and records and any     *)
(* byte; filters read back as they were set, for any filters and control   *)
(* bytes; types and the age of the file of eth1, for any channels,         *)
(* addresses, masks and requests.                                          *)
(***************************************************************************)
EXTENDS SdrRepository, EventFilters, LanMonitor, SequenceTheorems, TLAPS

(***************************************************************************)
(* The walk.  What a client got is the records from the first to the one   *)
(* before "next", whichever reservations it held meanwhile; the gap at the *)
(* id 1 is why "next" is never 1.                                          *)
(***************************************************************************)
Got(n) == [i \in 1 .. n |-> i - 1]

Walks == [held : BOOLEAN, rsv : Nat, next : Nat, got : Seq(Nat)]

Consistent(w) ==
  \/ w.next = First /\ w.got = <<>>
  \/ w.next \in 2 .. Last /\ w.got = Got(w.next - 1)

SdrInv ==
  /\ entries \in {0, Records}
  /\ rsvId \in Nat
  /\ walk \in [Clients -> Walks]
  /\ \A c \in Clients : Consistent(walk[c])

LEMMA NoWalkConsistent == NoWalk \in Walks /\ Consistent(NoWalk)
BY DEF NoWalk, Walks, Consistent, First

LEMMA GotGrows ==
  ASSUME NEW n \in Nat
  PROVE  /\ Got(n) \in Seq(Nat)
         /\ Append(Got(n), n) = Got(n + 1)
<1>1. Got(n) \in Seq(Nat) /\ Len(Got(n)) = n
  BY DEF Got
<1>2. Got(n + 1) \in Seq(Nat) /\ Len(Got(n + 1)) = n + 1
  BY DEF Got
<1>3. /\ Append(Got(n), n) \in Seq(Nat) /\ Len(Append(Got(n), n)) = n + 1
      /\ \A i \in 1 .. n : Append(Got(n), n)[i] = Got(n)[i]
      /\ Append(Got(n), n)[n + 1] = n
  BY <1>1, AppendProperties
<1>4. \A i \in 1 .. n + 1 : Append(Got(n), n)[i] = Got(n + 1)[i]
  BY <1>3 DEF Got
<1>5. Append(Got(n), n) = Got(n + 1)
  BY <1>2, <1>3, <1>4, SeqEqual
<1>. QED BY <1>1, <1>5

LEMMA NextRecord ==
  ASSUME NEW w \in Walks, NEW n \in 1 .. Records,
         NEW v, v = [w EXCEPT !.next = n + 1, !.got = Got(n)]
  PROVE  v \in Walks /\ Consistent(v)
<1>1. n \in Nat /\ n + 1 \in Nat /\ n + 1 \in 2 .. Last /\ (n + 1) - 1 = n
  BY SdrAssumption DEF Last
<1>2. Got(n) \in Seq(Nat)
  BY <1>1, GotGrows
<1>3. v \in Walks
  BY <1>1, <1>2 DEF Walks
<1>4. v.next = n + 1 /\ v.got = Got(n)
  BY DEF Walks
<1>5. Consistent(v)
  BY <1>1, <1>4 DEF Consistent
<1>. QED BY <1>3, <1>5

LEMMA SdrInvInit == SdrInit => SdrInv
BY SdrAssumption, NoWalkConsistent DEF SdrInit, SdrInv

LEMMA SdrInvStep == SdrInv /\ [SdrNext]_sdrVars => SdrInv'
<1>. SUFFICES ASSUME SdrInv, [SdrNext]_sdrVars PROVE SdrInv'
  OBVIOUS
<1>. USE DEF SdrInv
<1>1. ASSUME NEW c \in Clients, NEW from \in Walks, Consistent(from), ReserveSdr(c, from)
      PROVE  SdrInv'
  <2>1. NextRsvId \in Nat
    BY SdrAssumption DEF NextRsvId
  <2>2. [from EXCEPT !.held = TRUE, !.rsv = NextRsvId] \in Walks
    BY <2>1 DEF Walks
  <2>3. Consistent([from EXCEPT !.held = TRUE, !.rsv = NextRsvId])
    BY <1>1 DEF Consistent, Walks
  <2>. QED BY <1>1, <2>1, <2>2, <2>3 DEF ReserveSdr
<1>2. ASSUME NEW c \in Clients, GetSdr(c)
      PROVE  SdrInv'
  <2>. DEFINE w == walk[c]
  <2>1. w \in Walks /\ Consistent(w) /\ w.next # Last
    BY <1>2 DEF GetSdr
  <2>2. CASE Granted(w.rsv) /\ Index(w.next) < entries
    <3>. DEFINE v == [w EXCEPT !.next = NextId(w.next), !.got = Append(@, Index(w.next))]
    <3>1. walk' = [walk EXCEPT ![c] = v] /\ UNCHANGED <<entries, rsvId>>
      BY <1>2, <2>2 DEF GetSdr
    <3>2. entries = Records
      <4>1. Index(w.next) \in Nat
        BY <2>1, SdrAssumption DEF Consistent, Walks, Index, First, Last
      <4>. QED BY <2>2, <4>1, SdrAssumption
    <3>3. CASE w.next = First
      <4>1. w.got = Got(0) /\ Index(w.next) = 0
        BY <2>1, <3>3 DEF Consistent, First, Index, Got
      <4>2. Append(w.got, Index(w.next)) = Got(1) /\ Got(1) \in Seq(Nat)
        BY <4>1, GotGrows
      <4>3. NextId(w.next) = 2
        BY <3>2, <3>3, SdrAssumption DEF NextId, First, Last
      <4>4. v = [w EXCEPT !.next = 1 + 1, !.got = Got(1)]
        BY <4>2, <4>3
      <4>5. v \in Walks /\ Consistent(v)
        <5>1. 1 \in 1 .. Records
          BY SdrAssumption
        <5>. HIDE DEF v
        <5>. QED BY <2>1, <4>4, <5>1, NextRecord
      <4>. QED BY <3>1, <4>5
    <3>4. CASE w.next # First
      <4>1. w.next \in 2 .. Records /\ w.got = Got(w.next - 1)
        BY <2>1, <3>4, SdrAssumption DEF Consistent, Last
      <4>2. Index(w.next) = w.next - 1 /\ NextId(w.next) = w.next + 1
        BY <3>2, <4>1, SdrAssumption DEF Index, NextId, First, Last
      <4>3. Append(w.got, w.next - 1) = Got(w.next) /\ Got(w.next) \in Seq(Nat)
        <5>1. w.next - 1 \in Nat /\ (w.next - 1) + 1 = w.next /\ w.next \in Nat
          BY <4>1, SdrAssumption
        <5>. QED BY <4>1, <5>1, GotGrows
      <4>4. v = [w EXCEPT !.next = w.next + 1, !.got = Got(w.next)]
        BY <4>2, <4>3
      <4>5. v \in Walks /\ Consistent(v)
        <5>1. w.next \in 1 .. Records
          BY <4>1, SdrAssumption
        <5>. HIDE DEF v
        <5>. QED BY <2>1, <4>4, <5>1, NextRecord
      <4>. QED BY <3>1, <4>5
    <3>. QED BY <3>3, <3>4
  <2>3. CASE ~(Granted(w.rsv) /\ Index(w.next) < entries)
    <3>1. [w EXCEPT !.held = FALSE] \in Walks /\ Consistent([w EXCEPT !.held = FALSE])
      BY <2>1 DEF Walks, Consistent
    <3>2. walk' = [walk EXCEPT ![c] = [w EXCEPT !.held = FALSE]] /\ UNCHANGED <<entries, rsvId>>
      BY <1>2, <2>3 DEF GetSdr
    <3>. QED BY <3>1, <3>2
  <2>. QED BY <2>2, <2>3
<1>3. ASSUME NEW c \in Clients, Leave(c)
      PROVE  SdrInv'
  BY <1>3, NoWalkConsistent DEF Leave
<1>4. CASE ClearRepository
  BY <1>4 DEF ClearRepository
<1>5. CASE RestartSdr
  BY <1>5 DEF RestartSdr
<1>6. CASE UNCHANGED sdrVars
  BY <1>6 DEF sdrVars
<1>. QED BY <1>1, <1>2, <1>3, <1>4, <1>5, <1>6, NoWalkConsistent DEF SdrNext, ClientStep

LEMMA SdrInvComplete == SdrInv => SdrWalkComplete
BY SdrAssumption DEF SdrInv, SdrWalkComplete, Done, Consistent, Got, First, Last

(* However many clients reserve, clear and restart in between: a client    *)
(* that has been told that there are no more records has got each of them  *)
(* once and in order (plat_sdr_get_entry).                                 *)
THEOREM WalkIsComplete == SdrSpec => []SdrWalkComplete
<1>. QED BY SdrInvInit, SdrInvStep, SdrInvComplete, PTL DEF SdrSpec
----------------------------------------------------------------------------
(***************************************************************************)
(* The filters.  What reads back as it was set is inductive with the types *)
(* alone: a file that is not "kept" owes no filter and no control byte.    *)
(***************************************************************************)
AnyFilter ==
  [config : Configs \cup {"none", "static", "init"},
   rest : Rests \cup {"none", "static", "init"}]

Files ==
  [at : {"missing", "empty", "kept"}, num : 0 .. FilterMax, len : 0 .. FilterMax,
   control : Controls \cup Rests \cup {"none", "static", "init"},
   entry : [1 .. FilterMax -> AnyFilter]]

FilterInv ==
  /\ eft \in Files
  /\ filters \in [0 .. FilterMax -> AnyFilter]
  /\ phase \in {"first", "second", "load", "serving"}
  /\ sent \in [1 .. FilterMax -> AnyFilter]
  /\ FiltersReadBack

LEMMA AreFilters ==
  /\ NoFilter \in AnyFilter /\ StaticFilter \in AnyFilter /\ InitFilter \in AnyFilter
  /\ Filter \subseteq AnyFilter
BY DEF NoFilter, StaticFilter, InitFilter, Filter, AnyFilter

(* What a whole store leaves, field by field. *)
LEMMA StoreLeaves ==
  ASSUME NEW id \in 0 .. FilterMax, NEW e \in AnyFilter,
         eft \in Files, Storable, Store(id, e)
  PROVE  /\ eft' \in Files
         /\ eft'.at = "kept"
         /\ eft'.num >= eft.num /\ eft'.num >= id
         /\ eft'.len >= eft.len
         /\ id # 0 => eft'.len >= id /\ eft'.control = eft.control
         /\ \A i \in 1 .. FilterMax : eft'.entry[i] = IF i = id THEN e ELSE eft.entry[i]
<1>1. FilterMax \in Nat
  BY FilterAssumption
<1>2. /\ Created(eft) \in Files /\ Created(eft).at = "kept"
      /\ Created(eft).num = eft.num /\ Created(eft).len = eft.len
      /\ Created(eft).control = eft.control /\ Created(eft).entry = eft.entry
  BY DEF Created, Files, Storable
<1>. DEFINE f == Numbered(Created(eft), id)
<1>3. /\ f \in Files /\ f.at = "kept"
      /\ f.num >= eft.num /\ f.num >= id /\ f.len = eft.len
      /\ f.control = eft.control /\ f.entry = eft.entry
  BY <1>1, <1>2 DEF Numbered, Greater, Files
<1>. HIDE DEF f
<1>4. eft' = Entered(f, id, e)
  BY DEF Store, f
<1>5. CASE id = 0
  <2>1. eft' = [f EXCEPT !.control = e.rest]
    BY <1>4, <1>5 DEF Entered
  <2>2. e.rest \in Rests \cup {"none", "static", "init"}
    BY DEF AnyFilter
  <2>. QED BY <1>1, <1>3, <1>5, <2>1, <2>2 DEF Files
<1>6. CASE id # 0
  <2>1. eft' = [f EXCEPT !.entry = [f.entry EXCEPT ![id] = e], !.len = Greater(f.len, id)]
    BY <1>4, <1>6 DEF Entered
  <2>2. Greater(f.len, id) \in 0 .. FilterMax /\ Greater(f.len, id) >= id
        /\ Greater(f.len, id) >= f.len
    BY <1>1, <1>3 DEF Greater, Files
  <2>3. [f.entry EXCEPT ![id] = e] \in [1 .. FilterMax -> AnyFilter]
    BY <1>3, <1>6 DEF Files
  <2>. QED BY <1>1, <1>3, <1>6, <2>1, <2>2, <2>3 DEF Files
<1>. QED BY <1>5, <1>6

(* What is owed makes the file one that can be stored to. *)
LEMMA OwedIsStorable ==
  ASSUME FilterInv
  PROVE  /\ ~Storable => control = "none" /\ \A i \in 1 .. FilterMax : sent[i] = NoFilter
         /\ eft.at # "kept" => control = "none" /\ \A i \in 1 .. FilterMax : sent[i] = NoFilter
BY DEF FilterInv, FiltersReadBack, Readable, Storable, Created, Files

LEMMA FilterInvInit == FilterInit => FilterInv
BY FilterAssumption, AreFilters
DEF FilterInit, FilterInv, FiltersReadBack, MissingFile, StaticTable, Files

(* A whole store of a filter or of one changed in memory. *)
LEMMA FilterInvStored ==
  ASSUME FilterInv, NEW id \in 0 .. FilterMax, NEW e \in AnyFilter, Storable, Store(id, e),
         filters' = [filters EXCEPT ![id] = e],
         phase' \in {"first", "second", "load", "serving"},
         phase' = "serving" => phase = "serving",
         sent' \in [1 .. FilterMax -> AnyFilter],
         \A i \in 1 .. FilterMax : i # id => sent'[i] = sent[i],
         id # 0 => sent'[id] \in {e, NoFilter},
         control' = IF id = 0 THEN "none" ELSE control
  PROVE  FilterInv'
<1>. USE DEF FilterInv
<1>1. FilterMax \in Nat
  BY FilterAssumption
<1>2. filters' \in [0 .. FilterMax -> AnyFilter]
  OBVIOUS
<1>3. ASSUME NEW i \in 1 .. FilterMax, sent'[i] # NoFilter
      PROVE  /\ Readable(i)' /\ eft'.entry[i] = sent'[i]
             /\ phase' = "serving" => filters'[i] = sent'[i]
  <2>1. CASE i = id
    <3>1. sent'[i] = e /\ id # 0
      BY <1>3, <2>1
    <3>. QED BY <1>1, <1>3, <2>1, <3>1, StoreLeaves DEF Readable, Files
  <2>2. CASE i # id
    <3>1. sent'[i] = sent[i]
      BY <2>2
    <3>2. Readable(i) /\ eft.entry[i] = sent[i] /\ (phase = "serving" => filters[i] = sent[i])
      BY <1>3, <3>1 DEF FiltersReadBack
    <3>. QED BY <1>1, <2>2, <3>1, <3>2, StoreLeaves DEF Readable, Files
  <2>. QED BY <2>1, <2>2
<1>4. control' # "none" => eft'.at = "kept" /\ eft'.control = control'
  BY StoreLeaves DEF FiltersReadBack
<1>. QED BY <1>2, <1>3, <1>4, StoreLeaves DEF FiltersReadBack

LEMMA FilterInvRefused ==
  ASSUME FilterInv, eft' = eft, UNCHANGED <<sent, control>>, ~Storable,
         phase' \in {"first", "second", "load", "serving"},
         filters' \in [0 .. FilterMax -> AnyFilter]
  PROVE  FilterInv'
BY OwedIsStorable DEF FilterInv, FiltersReadBack

LEMMA FilterInvSetEntry ==
  ASSUME FilterInv, NEW id \in 0 .. FilterMax, NEW e \in AnyFilter, SetEntry(id, e),
         phase' \in {"first", "second", "load", "serving"},
         phase' = "serving" => phase = "serving"
  PROVE  FilterInv'
<1>1. CASE Storable
  <2>1. sent' = IF id # 0 THEN [sent EXCEPT ![id] = e] ELSE sent
    BY <1>1 DEF SetEntry
  <2>2. /\ sent' \in [1 .. FilterMax -> AnyFilter]
        /\ \A i \in 1 .. FilterMax : i # id => sent'[i] = sent[i]
        /\ id # 0 => sent'[id] \in {e, NoFilter}
    BY <2>1, FilterAssumption DEF FilterInv
  <2>3. /\ filters' = [filters EXCEPT ![id] = e] /\ Store(id, e)
        /\ control' = IF id = 0 THEN "none" ELSE control
    BY <1>1 DEF SetEntry
  <2>. QED BY <1>1, <2>2, <2>3, FilterInvStored
<1>2. CASE ~Storable
  BY <1>2, FilterInvRefused DEF SetEntry, Store, FilterInv
<1>. QED BY <1>1, <1>2

LEMMA FilterInvSetPefEnable ==
  ASSUME FilterInv, NEW id \in 0 .. FilterMax, NEW c \in Configs, SetPefEnable(id, c)
  PROVE  FilterInv'
<1>. DEFINE e == [filters[id] EXCEPT !.config = c]
<1>1. e \in AnyFilter
  BY DEF FilterInv, AnyFilter
<1>2. /\ phase = "serving" /\ phase' = phase /\ Store(id, e)
      /\ filters' = [filters EXCEPT ![id] = e]
      /\ control' = IF Storable /\ id = 0 THEN "none" ELSE control
      /\ sent' = IF Storable /\ id # 0 /\ sent[id] # NoFilter
                 THEN [sent EXCEPT ![id].config = c] ELSE sent
  BY DEF SetPefEnable
<1>3. CASE Storable
  <2>1. CASE id # 0 /\ sent[id] # NoFilter
    <3>1. sent[id] = filters[id]
      BY <1>2, <2>1, FilterAssumption DEF FilterInv, FiltersReadBack
    <3>2. sent' = [sent EXCEPT ![id] = e]
      BY <1>2, <1>3, <2>1, <3>1
    <3>3. /\ sent' \in [1 .. FilterMax -> AnyFilter]
          /\ \A i \in 1 .. FilterMax : i # id => sent'[i] = sent[i]
          /\ id # 0 => sent'[id] \in {e, NoFilter}
      <4>. HIDE DEF e
      <4>1. id \in 1 .. FilterMax
        BY <2>1, FilterAssumption
      <4>. QED BY <1>1, <3>2, <4>1 DEF FilterInv
    <3>. HIDE DEF e
    <3>. QED BY <1>1, <1>2, <1>3, <3>3, FilterInvStored DEF FilterInv
  <2>2. CASE ~(id # 0 /\ sent[id] # NoFilter)
    <3>1. /\ sent' \in [1 .. FilterMax -> AnyFilter]
          /\ \A i \in 1 .. FilterMax : i # id => sent'[i] = sent[i]
          /\ id # 0 => sent'[id] \in {e, NoFilter}
      BY <1>2, <2>2 DEF FilterInv
    <3>. HIDE DEF e
    <3>. QED BY <1>1, <1>2, <1>3, <3>1, FilterInvStored DEF FilterInv
  <2>. QED BY <2>1, <2>2
<1>4. CASE ~Storable
  BY <1>1, <1>2, <1>4, FilterInvRefused DEF Store, FilterInv
<1>. QED BY <1>3, <1>4

LEMMA FilterInvCutShort ==
  ASSUME FilterInv, NEW id \in 0 .. FilterMax, CutShort(id)
  PROVE  FilterInv'
<1>. USE DEF FilterInv
<1>1. FilterMax \in Nat
  BY FilterAssumption
<1>2. /\ eft' \in {CreatedEmpty(eft), Created(eft), Numbered(Created(eft), id)}
      /\ filters' = StaticTable /\ phase' = "first" /\ control' = control
      /\ sent' = IF id = 0 THEN sent ELSE [sent EXCEPT ![id] = NoFilter]
  BY DEF CutShort, StartAgain
<1>3. /\ eft' \in Files
      /\ eft.at = "kept" => /\ eft'.at = "kept" /\ eft'.num >= eft.num
                           /\ eft'.len = eft.len /\ eft'.entry = eft.entry
                           /\ eft'.control = eft.control
  BY <1>1, <1>2 DEF CreatedEmpty, Created, Numbered, Greater, Files
<1>4. /\ sent' \in [1 .. FilterMax -> AnyFilter]
      /\ \A i \in 1 .. FilterMax : sent'[i] # NoFilter => sent'[i] = sent[i]
  BY <1>2, AreFilters
<1>5. filters' \in [0 .. FilterMax -> AnyFilter]
  BY <1>2, AreFilters DEF StaticTable
<1>6. ASSUME NEW i \in 1 .. FilterMax, sent'[i] # NoFilter
      PROVE  Readable(i)' /\ eft'.entry[i] = sent'[i]
  BY <1>1, <1>3, <1>4, <1>6 DEF FiltersReadBack, Readable, Files
<1>7. control' # "none" => eft'.at = "kept" /\ eft'.control = control'
  BY <1>2, <1>3 DEF FiltersReadBack
<1>. QED BY <1>2, <1>3, <1>4, <1>5, <1>6, <1>7 DEF FiltersReadBack

LEMMA FilterInvLoad == FilterInv /\ LoadFilters => FilterInv'
<1>. SUFFICES ASSUME FilterInv, LoadFilters PROVE FilterInv'
  OBVIOUS
<1>. USE DEF FilterInv
<1>1. /\ filters' = Loaded /\ phase' = "serving"
      /\ eft' = eft /\ sent' = sent /\ control' = control
  BY DEF LoadFilters
<1>2. filters' \in [0 .. FilterMax -> AnyFilter]
  BY <1>1, FilterAssumption DEF Loaded, Readable, Files
<1>3. ASSUME NEW i \in 1 .. FilterMax, sent[i] # NoFilter
      PROVE  Readable(i) /\ eft.entry[i] = sent[i] /\ filters'[i] = sent[i]
  BY <1>1, <1>3, FilterAssumption DEF FiltersReadBack, Loaded
<1>. QED BY <1>1, <1>2, <1>3 DEF FiltersReadBack, Readable

LEMMA FilterInvStep == FilterInv /\ [FilterNext]_filterVars => FilterInv'
<1>. SUFFICES ASSUME FilterInv, [FilterNext]_filterVars PROVE FilterInv'
  OBVIOUS
<1>1. ASSUME NEW id \in 0 .. FilterMax, NEW e \in Filter, SetFilter(id, e)
      PROVE  FilterInv'
  BY <1>1, AreFilters, FilterInvSetEntry DEF SetFilter, FilterInv
<1>2. ASSUME NEW id \in 0 .. FilterMax, NEW c \in Configs, SetPefEnable(id, c)
      PROVE  FilterInv'
  BY <1>2, FilterInvSetPefEnable
<1>3. ASSUME NEW id \in 0 .. FilterMax, CutShort(id)
      PROVE  FilterInv'
  BY <1>3, FilterInvCutShort
<1>4. ASSUME NEW b \in Controls, SetPefCtrl(b)
      PROVE  FilterInv'
  <2>1. eft' = [eft EXCEPT !.at = "kept", !.control = b] /\ control' = b
        /\ UNCHANGED <<filters, phase, sent>>
    BY <1>4 DEF SetPefCtrl
  <2>2. eft' \in Files /\ eft'.at = "kept" /\ eft'.control = b /\ eft'.num = eft.num
        /\ eft'.len = eft.len /\ eft'.entry = eft.entry
    BY <2>1 DEF Files, FilterInv
  <2>. QED BY <2>1, <2>2 DEF FilterInv, FiltersReadBack, Readable
<1>5. CASE InitEntry
  <2>1. 1 \in 0 .. FilterMax /\ 2 \in 0 .. FilterMax
    BY FilterAssumption
  <2>. QED BY <1>5, <2>1, AreFilters, FilterInvSetEntry DEF InitEntry
<1>6. CASE LoadFilters
  BY <1>6, FilterInvLoad
<1>7. CASE RestartFilters
  BY <1>7, AreFilters
  DEF RestartFilters, StartAgain, StaticTable, FilterInv, FiltersReadBack, Readable
<1>8. CASE UNCHANGED filterVars
  BY <1>8 DEF filterVars, FilterInv, FiltersReadBack, Readable
<1>. QED BY <1>1, <1>2, <1>3, <1>4, <1>5, <1>6, <1>7, <1>8 DEF FilterNext

(* Filters and the control byte read back as they were last set, with      *)
(* restarts and stores cut short anywhere (efte.cpp), whatever the         *)
(* filters, and for each number of them the array has room for.            *)
THEOREM FiltersAreReadBack == FilterSpec => []FiltersReadBack
<1>1. FilterInv => FiltersReadBack
  BY DEF FilterInv
<1>. QED BY <1>1, FilterInvInit, FilterInvStep, PTL DEF FilterSpec
----------------------------------------------------------------------------
(* LanMonitor *)

LEMMA SettingTypes ==
  ASSUME NEW s \in Settings
  PROVE  /\ s.chan \in Channels /\ s.param \in {"ip_addr", "net_mask", "ip_src", "mac_addr"}
         /\ s.param = "ip_addr" => s.value \in Addresses \cup {Zero, Broadcast}
         /\ s.param = "net_mask" => s.value \in Masks \cup {Zero, Broadcast}
BY DEF Settings

LEMMA StoredType ==
  ASSUME NEW s \in Settings, config \in [Channels -> Config]
  PROVE  Stored(s) \in [Channels -> Config]
<1>1. CASE Accepted(s) /\ s.param \in DOMAIN config[s.chan]
  <2>1. Stored(s) = [config EXCEPT ![s.chan] = [@ EXCEPT ![s.param] = s.value]]
    BY <1>1 DEF Stored
  <2>2. s.chan \in Channels /\ config[s.chan] \in Config
    BY SettingTypes
  <2>3. s.param \in {"ip_addr", "net_mask"} /\ s.value # Broadcast
    BY <1>1, <2>2 DEF Config, Accepted
  <2>4. [config[s.chan] EXCEPT ![s.param] = s.value] \in Config
    <3>1. CASE s.param = "ip_addr"
      <4>1. s.value \in Addresses \cup {Zero}
        BY <2>3, <3>1, SettingTypes
      <4>. QED BY <2>2, <3>1, <4>1 DEF Config
    <3>2. CASE s.param = "net_mask"
      <4>1. s.value \in Masks \cup {Zero}
        BY <2>3, <3>2, SettingTypes
      <4>. QED BY <2>2, <3>2, <4>1 DEF Config
    <3>. QED BY <2>3, <3>1, <3>2
  <2>. QED BY <2>1, <2>2, <2>4
<1>2. CASE ~(Accepted(s) /\ s.param \in DOMAIN config[s.chan])
  BY <1>2 DEF Stored
<1>. QED BY <1>1, <1>2

(* What the file keeps of a configuration is one that it keeps as it is.   *)
LEMMA WrittenTwice ==
  ASSUME NEW c \in Config
  PROVE  Written(c) \in Config /\ Written(Written(c)) = Written(c)
<1>1. c.net_mask \in Masks \cup {Zero}
  BY DEF Config
<1>2. Contiguous[c.net_mask] \in Masks \cup {Zero}
      /\ Contiguous[Contiguous[c.net_mask]] = Contiguous[c.net_mask]
  BY <1>1, LanAssumption
<1>. QED BY <1>2 DEF Written, Config

LEMMA NoInterfaceType == NoInterface \in Config
BY DEF NoInterface, Config

(* A configuration put in front of a history of three moves the others on. *)
LEMMA LastThreeFacts ==
  ASSUME NEW x \in Config, NEW r \in Seq(Config)
  PROVE  /\ LastThree(<<x>> \o r) \in Seq(Config)
         /\ Len(LastThree(<<x>> \o r)) = IF Len(r) < 2 THEN Len(r) + 1 ELSE 3
         /\ LastThree(<<x>> \o r)[1] = x
         /\ \A i \in 1 .. 2 : i <= Len(r) => LastThree(<<x>> \o r)[i + 1] = r[i]
<1>. DEFINE s == <<x>> \o r
            n == IF Len(s) < 3 THEN Len(s) ELSE 3
<1>1. <<x>> \in Seq(Config) /\ Len(<<x>>) = 1 /\ <<x>>[1] = x
  OBVIOUS
<1>2. Len(r) \in Nat
  OBVIOUS
<1>3. /\ s \in Seq(Config) /\ Len(s) = 1 + Len(r)
      /\ \A i \in 1 .. 1 + Len(r) : s[i] = IF i <= 1 THEN <<x>>[i] ELSE r[i - 1]
  BY <1>1, ConcatProperties
<1>4. s[1] = x /\ \A i \in 1 .. Len(r) : s[i + 1] = r[i]
  <2>1. s[1] = x
    BY <1>1, <1>2, <1>3
  <2>2. ASSUME NEW i \in 1 .. Len(r) PROVE s[i + 1] = r[i]
    <3>1. i + 1 \in 1 .. 1 + Len(r) /\ ~(i + 1 <= 1) /\ (i + 1) - 1 = i
      BY <1>2
    <3>. QED BY <1>3, <3>1
  <2>. QED BY <2>1, <2>2
<1>. HIDE DEF s
<1>5. n \in 1 .. 3 /\ n <= Len(s) /\ n = IF Len(r) < 2 THEN Len(r) + 1 ELSE 3
  BY <1>2, <1>3
<1>6. \A i \in 1 .. n : s[i] \in Config
  BY <1>3, <1>5, ElementOfSeq
<1>7. /\ SubSeq(s, 1, n) \in Seq(Config)
      /\ Len(SubSeq(s, 1, n)) = n
      /\ \A i \in 1 .. n : SubSeq(s, 1, n)[i] = s[i]
  <2>. HIDE DEF n
  <2>1. 1 \in Int /\ n \in Int
    BY <1>5
  <2>2. /\ SubSeq(s, 1, n) \in Seq(Config)
        /\ Len(SubSeq(s, 1, n)) = IF 1 <= n THEN n - 1 + 1 ELSE 0
        /\ \A i \in 1 .. n - 1 + 1 : SubSeq(s, 1, n)[i] = s[1 + i - 1]
    BY <1>6, <2>1, SubSeqProperties
  <2>. QED BY <1>5, <2>2
<1>8. LastThree(<<x>> \o r) = SubSeq(s, 1, n)
  BY DEF LastThree, s
<1>9. \A i \in 1 .. 2 : i <= Len(r) => i + 1 \in 1 .. n
  BY <1>2, <1>5
<1>. HIDE DEF n
<1>10. LastThree(<<x>> \o r) \in Seq(Config) /\ Len(LastThree(<<x>> \o r)) = n
  BY <1>7, <1>8
<1>11. LastThree(<<x>> \o r)[1] = x
  <2>1. 1 \in 1 .. n
    BY <1>5
  <2>. QED BY <1>4, <1>7, <1>8, <2>1
<1>12. ASSUME NEW i \in 1 .. 2, i <= Len(r) PROVE LastThree(<<x>> \o r)[i + 1] = r[i]
  <2>1. i + 1 \in 1 .. n
    BY <1>9, <1>12
  <2>2. i \in 1 .. Len(r)
    BY <1>2, <1>12
  <2>. QED BY <1>4, <1>7, <1>8, <2>1, <2>2
<1>. QED BY <1>5, <1>10, <1>11, <1>12
----------------------------------------------------------------------------
(* The inductive invariant.  The counter of saves says how many the file   *)
(* is behind: what it holds is among the first countt + 1 of the history,  *)
(* and each save that does not write it moves it down one place.           *)
FileBehind(k) ==
  FilePresent /\ ~web /\ ~file.dhcp =>
    \E i \in 1 .. k : i <= Len(recent) /\ recent[i] = file.conf

LanInv ==
  /\ LanTypeOK
  /\ recent \in Seq(Config)
  /\ Written(file.conf) = file.conf
  /\ FileBehind(countt + 1)

LEMMA LanInvInit == LanInit => LanInv
<1>. SUFFICES ASSUME LanInit PROVE LanInv
  OBVIOUS
<1>1. Written(NoInterface) \in Config /\ Written(Written(NoInterface)) = Written(NoInterface)
  BY NoInterfaceType, WrittenTwice
<1>2. <<Written(NoInterface)>> \in Seq(Config) /\ Len(<<Written(NoInterface)>>) = 1
      /\ <<Written(NoInterface)>>[1] = Written(NoInterface)
  BY <1>1
<1>3. LanTypeOK
  <2>1. config \in [Channels -> Config] /\ file \in [dhcp : BOOLEAN, conf : Config]
    BY <1>1, NoInterfaceType DEF LanInit
  <2>2. changed \in [Channels -> SUBSET Flagged]
    BY DEF LanInit
  <2>3. locked \in [Channels -> BOOLEAN]
    BY Zenon DEF LanInit
  <2>4. monitor \in [Channels -> {"test", "block", "blocked", "clear", "unlock"}]
    BY DEF LanInit
  <2>5. web \in BOOLEAN
    BY Zenon DEF LanInit
  <2>6. countt \in 0 .. 2 /\ command = Idle
    BY DEF LanInit
  <2>. QED BY <2>1, <2>2, <2>3, <2>4, <2>5, <2>6 DEF LanTypeOK
<1>4. recent \in Seq(Config) /\ Written(file.conf) = file.conf
  BY <1>1, <1>2 DEF LanInit
<1>5. FileBehind(countt + 1)
  <2>1. 1 \in 1 .. countt + 1 /\ 1 <= Len(recent) /\ recent[1] = file.conf
    BY <1>2 DEF LanInit
  <2>. QED BY <2>1 DEF FileBehind
<1>. QED BY <1>3, <1>4, <1>5 DEF LanInv

(* What only commands and monitors touch leaves the file where it was.     *)
LEMMA LanInvFileKept ==
  ASSUME LanInv, UNCHANGED fileVars, LanTypeOK'
  PROVE  LanInv'
BY DEF LanInv, fileVars, FileBehind

LEMMA LanInvCommand ==
  ASSUME LanInv, NEW s \in Requests, SetQuietly(s) \/ Flag(s)
  PROVE  LanInv'
<1>1. s \in Settings
  BY LanAssumption
<1>2. CASE SetQuietly(s)
  <2>1. config' \in [Channels -> Config]
    BY <1>1, <1>2, StoredType DEF SetQuietly, LanInv, LanTypeOK
  <2>2. LanTypeOK'
    BY <1>1, <1>2, <2>1 DEF SetQuietly, LanInv, LanTypeOK, monitorVars, fileVars, Doing
  <2>. QED BY <1>2, <2>2, LanInvFileKept DEF SetQuietly
<1>3. CASE Flag(s)
  <2>1. s.chan \in Channels /\ s.param \in Flagged
    BY <1>1, <1>3, SettingTypes DEF Flag
  <2>2. LanTypeOK'
    BY <1>1, <1>3, <2>1 DEF Flag, LanInv, LanTypeOK, fileVars, Doing
  <2>. QED BY <1>3, <2>2, LanInvFileKept DEF Flag
<1>. QED BY <1>2, <1>3

LEMMA BusyCommand ==
  ASSUME LanTypeOK, command.at \in {"lock", "store", "save"}
  PROVE  command \in [at : {"lock", "store", "save"}, setting : Settings]
BY DEF LanTypeOK, Idle

LEMMA LanInvLock ==
  ASSUME LanInv, Lock \/ Notify
  PROVE  LanInv'
<1>1. command \in [at : {"lock", "store", "save"}, setting : Settings]
  BY BusyCommand DEF LanInv, Lock, Notify
<1>2. command.setting.chan \in Channels
  BY <1>1, SettingTypes
<1>3. CASE Lock
  <2>1. LanTypeOK'
    BY <1>1, <1>2, <1>3 DEF Lock, LanInv, LanTypeOK, fileVars
  <2>. QED BY <1>3, <2>1, LanInvFileKept DEF Lock
<1>4. CASE Notify
  <2>1. config' \in [Channels -> Config]
    BY <1>1, <1>4, StoredType DEF Notify, LanInv, LanTypeOK
  <2>2. monitor' \in [Channels -> {"test", "block", "blocked", "clear", "unlock"}]
    BY <1>4 DEF Notify, Woken, LanInv, LanTypeOK
  <2>3. LanTypeOK'
    BY <1>1, <1>4, <2>1, <2>2 DEF Notify, LanInv, LanTypeOK, fileVars
  <2>. QED BY <1>4, <2>3, LanInvFileKept DEF Notify
<1>. QED BY <1>3, <1>4

LEMMA LanInvMonitor ==
  ASSUME LanInv, NEW c \in Channels, MonitorStep(c) \/ WakeUp(c)
  PROVE  LanInv'
<1>1. UNCHANGED fileVars
  BY DEF MonitorStep, Test, Block, Clear, Unlock, WakeUp
<1>2. LanTypeOK'
  BY DEF MonitorStep, Test, Block, Clear, Unlock, WakeUp, Go, LanInv, LanTypeOK, fileVars
<1>. QED BY <1>1, <1>2, LanInvFileKept

LEMMA LanInvSave ==
  ASSUME LanInv, PlatNetworkSave
  PROVE  LanInv'
<1>. DEFINE c == command.setting.chan
            conf == Written(config[c])
<1>1. command \in [at : {"lock", "store", "save"}, setting : Settings]
  BY BusyCommand DEF LanInv, PlatNetworkSave
<1>2. c \in Channels
  BY <1>1, SettingTypes
<1>3. conf \in Config /\ Written(conf) = conf
  BY <1>2, WrittenTwice DEF LanInv, LanTypeOK
<1>4. command' = Idle /\ UNCHANGED <<config, changed, locked, monitor>>
  BY DEF PlatNetworkSave, monitorVars
<1>5. CASE c \notin Nics
  <2>1. UNCHANGED fileVars
    BY <1>5 DEF PlatNetworkSave
  <2>2. LanTypeOK'
    BY <1>4, <2>1 DEF LanInv, LanTypeOK, fileVars
  <2>. QED BY <2>1, <2>2, LanInvFileKept
<1>6. CASE c \in Nics
  <2>1. recent' = LastThree(<<conf>> \o recent)
    BY <1>6 DEF PlatNetworkSave
  <2>2. recent \in Seq(Config) /\ Len(recent) \in Nat
    BY DEF LanInv
  <2>3. LastThree(<<conf>> \o recent) \in Seq(Config)
        /\ Len(LastThree(<<conf>> \o recent)) = (IF Len(recent) < 2 THEN Len(recent) + 1 ELSE 3)
        /\ LastThree(<<conf>> \o recent)[1] = conf
        /\ \A i \in 1 .. 2 : i <= Len(recent) => LastThree(<<conf>> \o recent)[i + 1] = recent[i]
    <3>. HIDE DEF conf
    <3>. QED BY <1>3, <2>2, LastThreeFacts
  <2>4. /\ recent' \in Seq(Config) /\ recent'[1] = conf
        /\ Len(recent') = IF Len(recent) < 2 THEN Len(recent) + 1 ELSE 3
        /\ \A i \in 1 .. 2 : i <= Len(recent) => recent'[i + 1] = recent[i]
    BY <2>1, <2>3
  <2>5. countt \in 0 .. 2
    BY DEF LanInv, LanTypeOK
  <2>6. CASE Due /\ FilePresent
    <3>1. file' = [file EXCEPT !.conf = conf] /\ countt' = 0 /\ web' = FALSE
      BY <1>6, <2>6 DEF PlatNetworkSave
    <3>2. LanTypeOK' /\ file'.conf = conf
      <4>. HIDE DEF c, conf
      <4>1. file' \in [dhcp : BOOLEAN, conf : Config] /\ file'.conf = conf
        BY <1>3, <3>1 DEF LanInv, LanTypeOK
      <4>2. web' \in BOOLEAN
        BY <3>1, Zenon
      <4>3. countt' \in 0 .. 2
        BY <3>1
      <4>. QED BY <1>4, <4>1, <4>2, <4>3 DEF LanInv, LanTypeOK
    <3>3. 1 \in 1 .. countt' + 1 /\ 1 <= Len(recent') /\ recent'[1] = file'.conf
      BY <2>2, <2>4, <3>1, <3>2
    <3>4. FileBehind(countt + 1)'
      BY <3>3 DEF FileBehind
    <3>. QED BY <1>3, <2>4, <3>2, <3>4 DEF LanInv
  <2>7. CASE ~(Due /\ FilePresent)
    <3>1. file' = file /\ web' = web /\ countt' = IF Due THEN countt ELSE countt + 1
      BY <1>6, <2>7 DEF PlatNetworkSave
    <3>2. countt' \in 0 .. 2 /\ (FilePresent => countt' = countt + 1)
      BY <2>5, <2>7, <3>1 DEF Due
    <3>3. LanTypeOK'
      BY <1>4, <3>1, <3>2 DEF LanInv, LanTypeOK
    <3>4. ASSUME FilePresent, ~web, ~file.dhcp
          PROVE  \E i \in 1 .. countt' + 1 : i <= Len(recent') /\ recent'[i] = file.conf
      <4>1. PICK i \in 1 .. countt + 1 : i <= Len(recent) /\ recent[i] = file.conf
        BY <3>4 DEF LanInv, FileBehind
      <4>2. i \in 1 .. 2
        BY <2>5, <3>2, <3>4
      <4>3. i + 1 \in 1 .. countt' + 1 /\ i + 1 <= Len(recent') /\ recent'[i + 1] = file.conf
        BY <2>2, <2>4, <2>5, <3>2, <3>4, <4>1, <4>2
      <4>. QED BY <4>3
    <3>5. FileBehind(countt + 1)'
      BY <3>1, <3>4 DEF FileBehind
    <3>. QED BY <2>4, <3>1, <3>3, <3>5 DEF LanInv
  <2>. QED BY <2>6, <2>7
<1>. QED BY <1>5, <1>6

LEMMA LanInvRestart ==
  ASSUME LanInv, NEW conf \in Config, RestartLan(conf)
  PROVE  LanInv'
<1>1. /\ config' = [c \in Channels |-> IF c = Eth1 THEN conf ELSE NoInterface]
      /\ changed' = [c \in Channels |-> {}] /\ locked' = [c \in Channels |-> FALSE]
      /\ monitor' = [c \in Channels |-> "test"] /\ command' = Idle
      /\ countt' = 0 /\ web' = FALSE /\ file' = file
      /\ recent' = <<Written(config'[Eth1])>>
      /\ ~file.dhcp => conf = file.conf
  BY DEF RestartLan
<1>2. config' \in [Channels -> Config]
  BY <1>1, NoInterfaceType
<1>3. LanTypeOK'
  <2>1. changed' \in [Channels -> SUBSET Flagged]
    BY <1>1
  <2>2. locked' \in [Channels -> BOOLEAN]
    BY <1>1, Zenon
  <2>3. monitor' \in [Channels -> {"test", "block", "blocked", "clear", "unlock"}]
    BY <1>1
  <2>4. web' \in BOOLEAN
    BY <1>1, Zenon
  <2>5. countt' \in 0 .. 2 /\ command' = Idle /\ file' \in [dhcp : BOOLEAN, conf : Config]
    BY <1>1 DEF LanInv, LanTypeOK
  <2>. QED BY <1>2, <2>1, <2>2, <2>3, <2>4, <2>5 DEF LanTypeOK
<1>4. \A c \in Channels : Written(config'[c]) \in Config
  BY <1>2, WrittenTwice
<1>5. recent' \in Seq(Config)
  BY <1>1, <1>4, LanAssumption
<1>6. ASSUME ~file.dhcp
      PROVE  1 <= Len(recent') /\ recent'[1] = file.conf
  <2>1. recent' = <<Written(conf)>>
    BY <1>1, LanAssumption
  <2>2. Written(conf) = file.conf
    BY <1>1, <1>6 DEF LanInv
  <2>. QED BY <2>1, <2>2
<1>7. FileBehind(countt + 1)'
  <2>1. 1 \in 1 .. countt' + 1
    BY <1>1
  <2>. QED BY <1>1, <1>6, <2>1 DEF FileBehind
<1>. QED BY <1>1, <1>3, <1>5, <1>7 DEF LanInv

LEMMA LanInvWeb ==
  ASSUME LanInv, (\E conf \in Config : SetNetwork(conf)) \/ SetDhcp
  PROVE  LanInv'
<1>1. ASSUME NEW conf \in Config, SetNetwork(conf) PROVE LanInv'
  <2>1. file' = [dhcp |-> FALSE, conf |-> Written(conf)] /\ web' = TRUE
        /\ UNCHANGED <<config, command, changed, locked, monitor, countt, recent>>
    BY <1>1 DEF SetNetwork, monitorVars
  <2>2. Written(conf) \in Config /\ Written(Written(conf)) = Written(conf)
    BY WrittenTwice
  <2>3. LanTypeOK'
    BY <2>1, <2>2 DEF LanInv, LanTypeOK
  <2>. QED BY <2>1, <2>2, <2>3 DEF LanInv, FileBehind
<1>2. CASE SetDhcp
  <2>1. file' = [file EXCEPT !.dhcp = TRUE]
        /\ UNCHANGED <<config, command, changed, locked, monitor, countt, recent, web>>
    BY <1>2 DEF SetDhcp, monitorVars
  <2>2. LanTypeOK' /\ file'.dhcp = TRUE /\ file'.conf = file.conf
    BY <2>1 DEF LanInv, LanTypeOK
  <2>. QED BY <2>1, <2>2 DEF LanInv, FileBehind
<1>. QED BY <1>1, <1>2

LEMMA LanInvStep == LanInv /\ [LanNext]_lanVars => LanInv'
<1>. SUFFICES ASSUME LanInv, [LanNext]_lanVars PROVE LanInv'
  OBVIOUS
<1>1. CASE UNCHANGED lanVars
  BY <1>1 DEF lanVars, LanInv, LanTypeOK, FileBehind
<1>. QED BY <1>1, LanInvCommand, LanInvLock, LanInvSave, LanInvRestart, LanInvWeb,
            LanInvMonitor DEF LanNext

(* Commands, monitors and saves keep to their types.                       *)
THEOREM LanTypeCorrect == LanSpec => []LanTypeOK
<1>1. LanInv => LanTypeOK
  BY DEF LanInv
<1>. QED BY <1>1, LanInvInit, LanInvStep, PTL DEF LanSpec

(* However many channels share the counter of saves (plat_network_save):   *)
(* what the file of eth1 holds is two saves old at most, counting the      *)
(* saves of all channels.                                                  *)
THEOREM FileStaysRecent == LanSpec => []FileIsRecent
<1>1. LanInv => FileIsRecent
  <2>. SUFFICES ASSUME LanInv, FilePresent, ~web, ~file.dhcp
                PROVE  file.conf \in {recent[i] : i \in DOMAIN recent}
    BY DEF FileIsRecent
  <2>1. PICK i \in 1 .. countt + 1 : i <= Len(recent) /\ recent[i] = file.conf
    BY DEF LanInv, FileBehind
  <2>2. recent \in Seq(Config) /\ countt \in 0 .. 2
    BY DEF LanInv, LanTypeOK
  <2>3. DOMAIN recent = 1 .. Len(recent) /\ Len(recent) \in Nat
    BY <2>2
  <2>. QED BY <2>1, <2>2, <2>3
<1>. QED BY <1>1, LanInvInit, LanInvStep, PTL DEF LanSpec
=============================================================================

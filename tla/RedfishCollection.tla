-------------------------- MODULE RedfishCollection --------------------------
(***************************************************************************)
(* A Redfish collection whose members carry numbers (accounts, sessions,   *)
(* virtual media), as the handlers see it: the vector of members, the      *)
(* objects registered in g_record, their JSON files, the set of numbers in *)
(* use (libs/redfish/util.cpp) and the names record_save_json compares the *)
(* files with (libs/redfish/record.cpp).  A member is known by its number; *)
(* one that is in "members" and not in "alive" is a pointer to an object   *)
(* that was deleted.                                                       *)
(*                                                                         *)
(* No state of its own: operators from one value of a collection to the    *)
(* next, for the modules that keep one.                                    *)
(***************************************************************************)
EXTENDS Integers, Sequences, FiniteSets

CONSTANT NumMax   \* the largest number given out, UINT_MAX - 1

ASSUME NumMaxAssumption == NumMax \in Nat /\ NumMax >= 1

Number == 0 .. NumMax

Collection ==
  [members : Seq(Number),    \* the vector of the collection
   alive   : SUBSET Number,  \* registered in g_record
   files   : SUBSET Number,  \* has a JSON file
   listed  : SUBSET Number,  \* dir_list
   taken   : SUBSET Number,  \* numset
   last    : Number]         \* numset_num

Elements(c) == {c.members[i] : i \in DOMAIN c.members}
----------------------------------------------------------------------------
(* Numbers.                                                                *)

(* The numbers allocate_numset_num may return: it tries the last number    *)
(* given out and those above it; the wrap goes on with 1, for the loop     *)
(* increments the 0 it was set to.                                         *)
Above(c) == (c.last .. NumMax) \ c.taken
Wrapped(c) == (1 .. NumMax) \ c.taken

(* With no number left the loop never ends: its caller stays in it. *)
CanAllocate(c) == Above(c) \cup Wrapped(c) # {}

Least(S) == CHOOSE n \in S : \A m \in S : n <= m

NextNumberMutant(c) == c.last
NextNumber(c) == Least(IF Above(c) # {} THEN Above(c) ELSE Wrapped(c))

Allocated(c) ==
  LET n == NextNumber(c) IN [c EXCEPT !.taken = @ \cup {n}, !.last = n]
Released(c, n) == [c EXCEPT !.taken = @ \ {n}]
----------------------------------------------------------------------------
(* Objects, members and files.                                             *)

Registered(c, n) == [c EXCEPT !.alive = @ \cup {n}]
Joined(c, n) == [c EXCEPT !.members = Append(@, n)]
Destroyed(c, n) == [c EXCEPT !.alive = @ \ {n}]

(* The walk for the member of a number: the first place that carries it. *)
PlaceOf(c, n) == Least({i \in DOMAIN c.members : c.members[i] = n})

Erased(c, place) ==
  [c EXCEPT !.members = [i \in 1 .. Len(@) - 1 |->
                           IF i < place THEN @[i] ELSE @[i + 1]]]

(* resource_save_json: only what is registered is written. *)
Filed(c, n) == IF n \in c.alive THEN [c EXCEPT !.files = @ \cup {n}] ELSE c

(* delete_resource: only what is no longer registered is removed. *)
DeleteResourceMutant(c, n) == IF n \in c.alive THEN [c EXCEPT !.files = @ \ {n}] ELSE c
DeleteResource(c, n) == IF n \in c.alive THEN c ELSE [c EXCEPT !.files = @ \ {n}]

(* record_save_json: everything registered is written, and of the names    *)
(* known since the last time those no longer registered are removed.       *)
RecordSaved(c) ==
  [c EXCEPT !.files = (@ \cup c.alive) \ (c.listed \ c.alive),
            !.listed = c.alive]

(* record_load_json after a restart: every file becomes a registered       *)
(* object and a member, in the order g_record happens to have.             *)
Orders(S) == {s \in [1 .. Cardinality(S) -> S] : {s[i] : i \in DOMAIN s} = S}

Loaded(c, order) ==
  [members |-> order, alive |-> c.files, files |-> c.files, listed |-> c.files,
   taken |-> c.files, last |-> 0]
----------------------------------------------------------------------------
(* What the numbers are for: no two members carry the same one, and none   *)
(* carries one that the allocator may give out again.                      *)
Numbered(c) ==
  /\ Elements(c) \subseteq c.taken
  /\ \A i, j \in DOMAIN c.members : c.members[i] = c.members[j] => i = j
=============================================================================

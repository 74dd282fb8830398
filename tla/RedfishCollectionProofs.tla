---------------------- MODULE RedfishCollectionProofs ----------------------
(***************************************************************************)
(* Lemmas about the Redfish collections: what the number allocator, the    *)
(* vector of members, stores and a restart do to one, for any range of     *)
(* numbers.                                                                *)
(***************************************************************************)
EXTENDS RedfishCollection, FiniteSetTheorems, SequenceTheorems, TLAPS

LEMMA LeastIsLeast ==
  ASSUME NEW S \in SUBSET Nat, S # {}
  PROVE  Least(S) \in S /\ \A m \in S : Least(S) <= m
<1>1. \E n \in S : \A m \in S : ~(<<m, n>> \in OpToRel(<, Nat))
  BY NatLessThanWellFounded, WFMin
<1>2. PICK n \in S : \A m \in S : ~(<<m, n>> \in OpToRel(<, Nat))
  BY <1>1
<1>3. \A m \in S : n <= m
  <2>. SUFFICES ASSUME NEW m \in S, m < n PROVE FALSE
    OBVIOUS
  <2>1. <<m, n>> \in OpToRel(<, Nat)
    BY DEF OpToRel
  <2>. QED BY <1>2, <2>1
<1>. QED BY <1>3 DEF Least

LEMMA NumberFacts == NumMax \in Nat /\ NumMax >= 1 /\ Number \subseteq Nat /\ 0 \in Number
BY NumMaxAssumption DEF Number

LEMMA NextNumberIsFree ==
  ASSUME NEW c \in Collection, CanAllocate(c)
  PROVE  NextNumber(c) \in Number /\ NextNumber(c) \notin c.taken
<1>1. c.last \in Number
  BY DEF Collection
<1>2. Above(c) \subseteq Number \ c.taken /\ Wrapped(c) \subseteq Number \ c.taken
  BY <1>1, NumberFacts DEF Above, Wrapped, Number
<1>. DEFINE S == IF Above(c) # {} THEN Above(c) ELSE Wrapped(c)
<1>3. S \in SUBSET Nat /\ S # {} /\ S \subseteq Number \ c.taken
  BY <1>2, NumberFacts DEF CanAllocate
<1>4. Least(S) \in S
  BY <1>3, LeastIsLeast
<1>. QED BY <1>3, <1>4 DEF NextNumber

(* The members as a sequence, and no number twice among them. *)
Distinct(c) == \A i, j \in DOMAIN c.members : c.members[i] = c.members[j] => i = j

LEMMA MembersFacts ==
  ASSUME NEW c \in Collection
  PROVE  /\ c.members \in Seq(Number) /\ Len(c.members) \in Nat
         /\ DOMAIN c.members = 1 .. Len(c.members)
         /\ Elements(c) \subseteq Number
         /\ \A i \in 1 .. Len(c.members) : c.members[i] \in Number
BY DEF Collection, Elements

LEMMA PlaceIsPlace ==
  ASSUME NEW c \in Collection, NEW n \in Elements(c)
  PROVE  PlaceOf(c, n) \in 1 .. Len(c.members) /\ c.members[PlaceOf(c, n)] = n
<1>. DEFINE S == {i \in DOMAIN c.members : c.members[i] = n}
<1>1. S \in SUBSET Nat /\ S # {}
  BY MembersFacts DEF Elements
<1>2. Least(S) \in S
  BY <1>1, LeastIsLeast
<1>. QED BY <1>2, MembersFacts DEF PlaceOf

LEMMA ErasedFacts ==
  ASSUME NEW c \in Collection, NEW p \in 1 .. Len(c.members)
  PROVE  /\ Erased(c, p) \in Collection
         /\ Erased(c, p) = [c EXCEPT !.members = Erased(c, p).members]
         /\ Distinct(c) => /\ Distinct(Erased(c, p))
                           /\ Elements(Erased(c, p)) = Elements(c) \ {c.members[p]}
<1>. DEFINE s == c.members
            e == [i \in 1 .. Len(s) - 1 |-> IF i < p THEN s[i] ELSE s[i + 1]]
<1>1. s \in Seq(Number) /\ Len(s) \in Nat /\ DOMAIN s = 1 .. Len(s) /\ Len(s) >= 1
      /\ \A i \in 1 .. Len(s) : s[i] \in Number
  BY MembersFacts
<1>2. Erased(c, p) = [c EXCEPT !.members = e]
  BY DEF Erased
<1>. HIDE DEF s
<1>3. \A i \in 1 .. Len(s) - 1 : e[i] = s[IF i < p THEN i ELSE i + 1]
      /\ (IF i < p THEN i ELSE i + 1) \in 1 .. Len(s)
  BY <1>1
<1>4. e \in Seq(Number) /\ Len(e) = Len(s) - 1 /\ DOMAIN e = 1 .. Len(s) - 1
  <2>1. \A i \in 1 .. Len(s) - 1 : e[i] \in Number
    BY <1>1, <1>3
  <2>2. Len(s) - 1 \in Nat
    BY <1>1
  <2>3. e \in [1 .. Len(s) - 1 -> Number]
    BY <2>1
  <2>. HIDE DEF e
  <2>. QED BY <2>2, <2>3
<1>. HIDE DEF e
<1>5. /\ Erased(c, p) \in Collection
      /\ Erased(c, p).members = e
  BY <1>2, <1>4 DEF Collection
<1>6. ASSUME Distinct(c)
      PROVE  \A i, j \in 1 .. Len(s) : s[i] = s[j] => i = j
  BY <1>1, <1>6 DEF Distinct, s
<1>7. ASSUME Distinct(c)
      PROVE  Distinct(Erased(c, p))
  <2>. SUFFICES ASSUME NEW i \in 1 .. Len(s) - 1, NEW j \in 1 .. Len(s) - 1, e[i] = e[j]
                PROVE  i = j
    BY <1>4, <1>5 DEF Distinct
  <2>1. (IF i < p THEN i ELSE i + 1) = (IF j < p THEN j ELSE j + 1)
    BY <1>3, <1>6, <1>7
  <2>. QED BY <1>1, <2>1
<1>8. ASSUME Distinct(c)
      PROVE  Elements(Erased(c, p)) = Elements(c) \ {c.members[p]}
  <2>1. Elements(Erased(c, p)) = {e[i] : i \in 1 .. Len(s) - 1}
    BY <1>4, <1>5 DEF Elements
  <2>2. Elements(c) = {s[i] : i \in 1 .. Len(s)} /\ p \in 1 .. Len(s) /\ c.members[p] = s[p]
    BY <1>1 DEF Elements, s
  <2>3. ASSUME NEW i \in 1 .. Len(s) - 1
        PROVE  e[i] \in {s[k] : k \in 1 .. Len(s)} \ {s[p]}
    <3>1. (IF i < p THEN i ELSE i + 1) # p
      BY <1>1, <2>2
    <3>. QED BY <1>3, <1>6, <1>8, <2>2, <3>1
  <2>4. ASSUME NEW k \in 1 .. Len(s), s[k] # s[p]
        PROVE  \E i \in 1 .. Len(s) - 1 : e[i] = s[k]
    <3>1. CASE k < p
      <4>1. k \in 1 .. Len(s) - 1
        BY <1>1, <2>2, <3>1
      <4>. QED BY <1>3, <3>1, <4>1
    <3>2. CASE k > p
      <4>1. k - 1 \in 1 .. Len(s) - 1 /\ ~(k - 1 < p) /\ (k - 1) + 1 = k
        BY <1>1, <2>2, <3>2
      <4>2. e[k - 1] = s[k]
        BY <1>3, <4>1
      <4>. QED BY <4>1, <4>2
    <3>. QED BY <1>1, <2>2, <2>4, <3>1, <3>2
  <2>. QED BY <2>1, <2>2, <2>3, <2>4
<1>. QED BY <1>2, <1>5, <1>7, <1>8

LEMMA JoinedFacts ==
  ASSUME NEW c \in Collection, NEW n \in Number
  PROVE  /\ Joined(c, n) \in Collection
         /\ Joined(c, n) = [c EXCEPT !.members = Joined(c, n).members]
         /\ Elements(Joined(c, n)) = Elements(c) \cup {n}
         /\ Len(Joined(c, n).members) = Len(c.members) + 1
         /\ Distinct(c) /\ n \notin Elements(c) => Distinct(Joined(c, n))
<1>. DEFINE s == c.members
            a == Append(s, n)
<1>1. s \in Seq(Number) /\ Len(s) \in Nat /\ DOMAIN s = 1 .. Len(s)
  BY MembersFacts
<1>2. Joined(c, n) = [c EXCEPT !.members = a]
  BY DEF Joined
<1>3. /\ a \in Seq(Number) /\ Len(a) = Len(s) + 1 /\ DOMAIN a = 1 .. Len(s) + 1
      /\ \A i \in 1 .. Len(s) : a[i] = s[i]
      /\ a[Len(s) + 1] = n
  <2>. HIDE DEF s
  <2>1. /\ a \in Seq(Number) /\ Len(a) = Len(s) + 1
        /\ \A i \in 1 .. Len(s) : a[i] = s[i]
        /\ a[Len(s) + 1] = n
    BY <1>1, AppendProperties
  <2>. HIDE DEF a
  <2>. QED BY <2>1
<1>. HIDE DEF a
<1>4. /\ Joined(c, n) \in Collection
      /\ Joined(c, n).members = a
  BY <1>2, <1>3 DEF Collection
<1>5. Elements(c) = {s[i] : i \in 1 .. Len(s)}
  BY <1>1 DEF Elements
<1>6. Elements(Joined(c, n)) = {a[i] : i \in 1 .. Len(s) + 1}
  BY <1>3, <1>4 DEF Elements
<1>7. Elements(Joined(c, n)) = Elements(c) \cup {n}
  <2>. HIDE DEF s
  <2>1. \A i \in 1 .. Len(s) + 1 : i \in 1 .. Len(s) \/ i = Len(s) + 1
    BY <1>1
  <2>2. Len(s) + 1 \in 1 .. Len(s) + 1 /\ \A i \in 1 .. Len(s) : i \in 1 .. Len(s) + 1
    BY <1>1
  <2>. QED BY <1>3, <1>5, <1>6, <2>1, <2>2
<1>8. ASSUME Distinct(c), n \notin Elements(c)
      PROVE  Distinct(Joined(c, n))
  <2>. SUFFICES ASSUME NEW i \in 1 .. Len(s) + 1, NEW j \in 1 .. Len(s) + 1, a[i] = a[j]
                PROVE  i = j
    BY <1>3, <1>4 DEF Distinct
  <2>1. \A k, l \in 1 .. Len(s) : s[k] = s[l] => k = l
    BY <1>1, <1>8 DEF Distinct
  <2>2. \A k \in 1 .. Len(s) : s[k] # n
    BY <1>5, <1>8
  <2>3. \A k \in 1 .. Len(s) + 1 : k \in 1 .. Len(s) \/ k = Len(s) + 1
    BY <1>1
  <2>. HIDE DEF s
  <2>. QED BY <1>3, <2>1, <2>2, <2>3
<1>. QED BY <1>2, <1>3, <1>4, <1>7, <1>8

(* After a restart every file is one member. *)
LEMMA LoadedFacts ==
  ASSUME NEW c \in Collection, NEW order \in Orders(c.files)
  PROVE  /\ Loaded(c, order) \in Collection
         /\ Elements(Loaded(c, order)) = c.files
         /\ Distinct(Loaded(c, order))
<1>. DEFINE S == c.files
            k == Cardinality(S)
            m == Loaded(c, order)
<1>1. S \in SUBSET Number
  BY DEF Collection
<1>2. IsFiniteSet(S) /\ k \in Nat
  <2>1. IsFiniteSet(Number)
    BY NumberFacts, FS_Interval DEF Number
  <2>. QED BY <1>1, <2>1, FS_Subset, FS_CardinalityType
<1>3. order \in [1 .. k -> S] /\ {order[i] : i \in DOMAIN order} = S
  BY DEF Orders
<1>4. order \in Surjection(1 .. k, S)
  BY <1>3 DEF Surjection
<1>5. IsFiniteSet(1 .. k) /\ Cardinality(1 .. k) = k
  BY <1>2, FS_Interval
<1>6. order \in Injection(1 .. k, S)
  BY <1>4, <1>5, FS_SurjSameCardinalityImpliesInj
<1>7. order \in Seq(Number) /\ DOMAIN order = 1 .. k
  <2>. HIDE DEF k
  <2>. QED BY <1>1, <1>2, <1>3
<1>8. m.members = order /\ m.alive = S /\ m.files = S /\ m.listed = S /\ m.taken = S
      /\ m.last = 0
  BY DEF Loaded
<1>9. m \in Collection
  BY <1>1, <1>7, NumberFacts DEF Loaded, Collection
<1>10. Elements(m) = S
  BY <1>3, <1>8 DEF Elements
<1>11. Distinct(m)
  BY <1>6, <1>7, <1>8 DEF Distinct, Injection, IsInjective
<1>. QED BY <1>9, <1>10, <1>11

(* A member made under a number, with or without its file. *)
LEMMA MadeFacts ==
  ASSUME NEW c \in Collection, NEW n \in Number,
         NEW d, d \in {Joined(Registered(c, n), n), Filed(Joined(Registered(c, n), n), n)}
  PROVE  /\ d \in Collection /\ Elements(d) = Elements(c) \cup {n}
         /\ Distinct(c) /\ n \notin Elements(c) => Distinct(d)
         /\ d.alive = c.alive \cup {n} /\ d.taken = c.taken
         /\ c.files \subseteq d.files /\ d.files \subseteq c.files \cup {n}
         /\ d = Joined(Registered(c, n), n) => d.files = c.files
         /\ Len(d.members) = Len(c.members) + 1
<1>. DEFINE r == Registered(c, n)
            j == Joined(r, n)
<1>1. /\ r \in Collection /\ r.members = c.members /\ r.alive = c.alive \cup {n}
      /\ r.taken = c.taken /\ r.files = c.files
  BY DEF Registered, Collection
<1>2. Elements(r) = Elements(c) /\ (Distinct(c) => Distinct(r))
  BY <1>1 DEF Distinct, Elements
<1>. HIDE DEF r
<1>3. /\ j \in Collection /\ Elements(j) = Elements(c) \cup {n}
      /\ Distinct(c) /\ n \notin Elements(c) => Distinct(j)
      /\ Len(j.members) = Len(c.members) + 1
      /\ j = [r EXCEPT !.members = j.members]
  BY <1>1, <1>2, JoinedFacts
<1>. HIDE DEF j
<1>4. j.alive = r.alive /\ j.taken = r.taken /\ j.files = r.files
  BY <1>1, <1>3 DEF Collection
<1>5. d \in {j, Filed(j, n)} /\ (d = Joined(Registered(c, n), n) => d = j)
  BY DEF j, r
<1>6. CASE d = j
  BY <1>1, <1>3, <1>4, <1>6
<1>7. CASE d = Filed(j, n) /\ d # j
  <2>1. d = [j EXCEPT !.files = j.files \cup {n}]
    BY <1>1, <1>4, <1>7 DEF Filed
  <2>2. /\ d \in Collection /\ d.members = j.members /\ d.alive = j.alive
        /\ d.taken = j.taken /\ d.files = j.files \cup {n}
    BY <1>3, <2>1 DEF Collection
  <2>3. Elements(d) = Elements(j) /\ (Distinct(j) => Distinct(d))
    BY <2>2 DEF Distinct, Elements
  <2>. QED BY <1>1, <1>3, <1>4, <1>5, <1>7, <2>2, <2>3
<1>. QED BY <1>5, <1>6, <1>7

LEMMA SavedFacts ==
  ASSUME NEW c \in Collection, NEW d, d = RecordSaved(c)
  PROVE  /\ d \in Collection /\ d.members = c.members /\ Elements(d) = Elements(c)
         /\ Distinct(c) => Distinct(d)
         /\ d.alive = c.alive /\ d.taken = c.taken
         /\ c.files \subseteq c.alive => d.files = c.alive
<1>1. d \in Collection /\ d.members = c.members /\ d.alive = c.alive /\ d.taken = c.taken
      /\ d.files = (c.files \cup c.alive) \ (c.listed \ c.alive)
  BY DEF RecordSaved, Collection
<1>. QED BY <1>1 DEF Distinct, Elements

LEMMA AllocatedFacts ==
  ASSUME NEW c \in Collection, CanAllocate(c), NEW d, d = Allocated(c)
  PROVE  /\ d \in Collection /\ d.members = c.members /\ Elements(d) = Elements(c)
         /\ Distinct(c) => Distinct(d)
         /\ d.alive = c.alive /\ d.files = c.files
         /\ d.taken = c.taken \cup {NextNumber(c)}
<1>1. NextNumber(c) \in Number
  BY NextNumberIsFree
<1>2. d = [c EXCEPT !.taken = @ \cup {NextNumber(c)}, !.last = NextNumber(c)]
  BY DEF Allocated
<1>. HIDE DEF NextNumber
<1>3. d \in Collection /\ d.members = c.members /\ d.alive = c.alive /\ d.files = c.files
      /\ d.taken = c.taken \cup {NextNumber(c)}
  BY <1>1, <1>2 DEF Collection
<1>. QED BY <1>3 DEF Distinct, Elements
=============================================================================

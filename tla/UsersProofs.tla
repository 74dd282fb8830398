---------------------------- MODULE UsersProofs ----------------------------
(***************************************************************************)
(* Proofs about users and accounts, for any number of users, any names and *)
(* privileges, any range of account numbers and any number of web threads. *)
(***************************************************************************)
EXTENDS Users, RedfishCollectionProofs

LEMMA CountFacts ==
  ASSUME NEW u
  PROVE  /\ UserCount(u) \in 1 .. MaxUser
         /\ \A i \in 1 .. UserCount(u) - 1 : u[i].name # NoName
         /\ UserCount(u) < MaxUser => u[UserCount(u)].name = NoName
<1>. DEFINE S == {i \in 1 .. MaxUser - 1 : u[i].name = NoName} \cup {MaxUser}
<1>1. MaxUser \in Nat /\ MaxUser >= 2
  BY UsersAssumption
<1>2. S \in SUBSET Nat /\ S # {} /\ S \subseteq 1 .. MaxUser
  BY <1>1
<1>3. Least(S) \in S /\ \A m \in S : Least(S) <= m
  BY <1>2, LeastIsLeast
<1>4. UserCount(u) = Least(S)
  BY DEF UserCount
<1>5. UserCount(u) \in S /\ \A m \in S : UserCount(u) <= m
  BY <1>3, <1>4
<1>6. UserCount(u) \in 1 .. MaxUser
  BY <1>2, <1>5
<1>7. ASSUME NEW i \in 1 .. UserCount(u) - 1
      PROVE  u[i].name # NoName
  <2>1. i \in 1 .. MaxUser - 1 /\ ~(UserCount(u) <= i)
    BY <1>1, <1>6
  <2>2. i \notin S
    BY <1>5, <2>1
  <2>. QED BY <2>1, <2>2
<1>8. UserCount(u) < MaxUser => u[UserCount(u)].name = NoName
  BY <1>1, <1>5, <1>6
<1>. QED BY <1>6, <1>7, <1>8

(* get_user_cnt by what it is: the first place without a name. *)
LEMMA CountIs ==
  ASSUME NEW u, NEW k \in 1 .. MaxUser,
         \A i \in 1 .. k - 1 : u[i].name # NoName,
         k < MaxUser => u[k].name = NoName
  PROVE  UserCount(u) = k
<1>1. MaxUser \in Nat
  BY UsersAssumption
<1>2. UserCount(u) \in 1 .. MaxUser
  BY CountFacts
<1>3. ~(UserCount(u) < k)
  <2>. SUFFICES ASSUME UserCount(u) < k PROVE FALSE
    OBVIOUS
  <2>1. UserCount(u) \in 1 .. k - 1 /\ UserCount(u) < MaxUser
    BY <1>1, <1>2
  <2>. QED BY <2>1, CountFacts
<1>4. ~(k < UserCount(u))
  <2>. SUFFICES ASSUME k < UserCount(u) PROVE FALSE
    OBVIOUS
  <2>1. k \in 1 .. UserCount(u) - 1 /\ k < MaxUser
    BY <1>1, <1>2
  <2>. QED BY <2>1, CountFacts
<1>. QED BY <1>1, <1>2, <1>3, <1>4
----------------------------------------------------------------------------
(***************************************************************************)
(* The inductive invariant: while the program is up, the table is the      *)
(* users, which every save that is not cut makes so and no step between    *)
(* two saves undoes; and the collection keeps its numbers apart.           *)
(***************************************************************************)
AccountsKept == col \in Collection /\ Distinct(col) /\ Elements(col) \subseteq col.taken

TableIsUsers == ~broken => \A i \in Slot : table[i] = users[i]

UInv == TableIsUsers /\ AccountsKept

LEMMA UInvInit == Init => UInv
<1>. SUFFICES ASSUME Init PROVE UInv
  OBVIOUS
<1>. DEFINE m == <<0, 1>>
<1>1. 0 \in Number /\ 1 \in Number
  BY NumberFacts DEF Number
<1>2. m \in Seq(Number) /\ DOMAIN m = 1 .. 2 /\ m[1] = 0 /\ m[2] = 1
  BY <1>1
<1>. HIDE DEF m
<1>3. col = [members |-> m, alive |-> {0, 1}, files |-> {0, 1},
             listed |-> {0, 1}, taken |-> {0, 1}, last |-> 0]
  BY DEF Init, m
<1>4. col \in Collection /\ col.members = m /\ col.taken = {0, 1}
  BY <1>1, <1>2, <1>3 DEF Collection
<1>5. \A i \in 1 .. 2 : i = 1 \/ i = 2
  OBVIOUS
<1>6. Distinct(col) /\ Elements(col) \subseteq {0, 1}
  BY <1>2, <1>4, <1>5 DEF Distinct, Elements
<1>. QED BY <1>4, <1>6 DEF Init, UInv, TableIsUsers, AccountsKept

(* A save that gets to its end has written every row. *)
LEMMA AllRows ==
  ASSUME NEW u
  PROVE  \A i \in Slot : Rows(u, Stores)[i] = u[i]
BY UsersAssumption DEF Rows, Slot, Stores

(* plat_user_save on any users and any collection of the invariant, whole  *)
(* or cut.                                                                 *)
LEMMA SavedKeeps ==
  ASSUME NEW u, NEW c \in Collection, NEW a, NEW p, SavedUpTo(u, c, a, p),
         Distinct(c), Elements(c) \subseteq c.taken
  PROVE  AccountsKept'
<1>. DEFINE S == Synced(u, c, p)
<1>1. S \subseteq Number
  BY DEF Synced, Collection
<1>2. col' = [c EXCEPT !.files = @ \cup S]
  BY DEF SavedUpTo
<1>. HIDE DEF S
<1>3. col' \in Collection /\ col'.members = c.members /\ col'.taken = c.taken
  BY <1>1, <1>2 DEF Collection
<1>4. Distinct(col') /\ Elements(col') = Elements(c)
  BY <1>3 DEF Distinct, Elements
<1>. QED BY <1>3, <1>4 DEF AccountsKept

LEMMA SaveKeeps ==
  ASSUME NEW u, NEW c \in Collection, NEW a, PlatUserSave(u, c, a),
         Distinct(c), Elements(c) \subseteq c.taken
  PROVE  UInv'
<1>1. AccountsKept'
  BY SavedKeeps DEF PlatUserSave, CutSave
<1>2. CASE broken' = FALSE /\ SavedUpTo(u, c, a, Stores)
  BY <1>1, <1>2, AllRows DEF UInv, TableIsUsers, PlatUserSave, SavedUpTo
<1>3. CASE CutSave(u, c, a)
  BY <1>1, <1>3 DEF UInv, TableIsUsers, CutSave
<1>. QED BY <1>2, <1>3 DEF PlatUserSave

LEMMA UInvNew ==
  ASSUME UInv, NEW t \in Threads, NewAccount(t)
  PROVE  UInv'
<1>. DEFINE n == NextNumber(col)
            a == Allocated(col)
<1>1. /\ CanAllocate(col) /\ col \in Collection
      /\ col' = Joined(Registered(a, n), n)
      /\ UNCHANGED <<users, table, broken>>
  BY DEF NewAccount, UInv, AccountsKept
<1>2. n \in Number /\ n \notin col.taken
  BY <1>1, NextNumberIsFree
<1>3. /\ a \in Collection /\ Elements(a) = Elements(col) /\ Distinct(a)
      /\ a.taken = col.taken \cup {n}
  BY <1>1, AllocatedFacts DEF UInv, AccountsKept
<1>. HIDE DEF n, a
<1>4. /\ col' \in Collection /\ Elements(col') = Elements(a) \cup {n}
      /\ Distinct(a) /\ n \notin Elements(a) => Distinct(col')
      /\ col'.taken = a.taken
  BY <1>1, <1>2, <1>3, MadeFacts
<1>. QED BY <1>1, <1>2, <1>3, <1>4 DEF UInv, TableIsUsers, AccountsKept

(* Del_User's second part: a member and its number go, another object may  *)
(* be the one that is deleted.                                             *)
LEMMA UInvDeleteAccount ==
  ASSUME UInv, NEW t \in Threads, DeleteAccount(t)
  PROVE  UInv'
<1>. DEFINE id == rest[t].id
            p == PlaceOf(col, id)
            r == Released(col, id)
            e == Erased(r, p)
            victim == IF p <= Len(e.members) THEN e.members[p] ELSE id
            u == [users EXCEPT ![id] = Blank]
            S == Synced(u, e, Stores)
            s == [e EXCEPT !.files = @ \cup S]
<1>1. CASE UNCHANGED <<users, table, col>> /\ (broken' \/ UNCHANGED broken)
  BY <1>1 DEF UInv, TableIsUsers, AccountsKept, Distinct, Elements
<1>2. ASSUME id \in Elements(col)
      PROVE  /\ id \in Number
             /\ e \in Collection /\ Distinct(e) /\ Elements(e) \subseteq e.taken
  <2>1. /\ p \in 1 .. Len(col.members) /\ col.members[p] = id /\ id \in Number
        /\ col \in Collection /\ Distinct(col) /\ Elements(col) \subseteq col.taken
    BY <1>2, PlaceIsPlace, MembersFacts DEF UInv, AccountsKept
  <2>. HIDE DEF id, p
  <2>2. /\ r \in Collection /\ r.members = col.members
        /\ r.taken = col.taken \ {id}
    BY <2>1 DEF Released, Collection
  <2>3. Distinct(r) /\ Elements(r) = Elements(col)
    BY <2>1, <2>2 DEF Distinct, Elements
  <2>. HIDE DEF r
  <2>4. /\ e \in Collection /\ Distinct(e) /\ Elements(e) = Elements(col) \ {id}
        /\ e = [r EXCEPT !.members = e.members]
    BY <2>1, <2>2, <2>3, ErasedFacts
  <2>. HIDE DEF e
  <2>5. e.taken = r.taken
    BY <2>2, <2>4 DEF Collection
  <2>. QED BY <2>1, <2>2, <2>4, <2>5
<1>3. CASE id \in Elements(col) /\ CutSave(u, e, account)
  <2>. HIDE DEF id, p, r, e, u
  <2>1. AccountsKept'
    BY <1>2, <1>3, SavedKeeps DEF CutSave
  <2>. QED BY <1>3, <2>1 DEF CutSave, UInv, TableIsUsers
<1>4. CASE /\ id \in Elements(col)
           /\ users' = u /\ table' = Rows(u, Stores)
           /\ col' = DeleteResource(Destroyed(s, victim), id)
  <2>. HIDE DEF id, p, r, e
  <2>1. S \subseteq Number /\ id \in Number
    BY <1>2, <1>4 DEF Synced, Collection
  <2>. HIDE DEF S, u, victim
  <2>2. s \in Collection /\ s.members = e.members /\ s.taken = e.taken
    BY <1>2, <1>4, <2>1 DEF Collection
  <2>. HIDE DEF s
  <2>3. /\ Destroyed(s, victim) \in Collection /\ Destroyed(s, victim).members = e.members
        /\ Destroyed(s, victim).taken = e.taken
    BY <2>2 DEF Destroyed, Collection
  <2>4. col' \in Collection /\ col'.members = e.members /\ col'.taken = e.taken
    BY <1>4, <2>3 DEF DeleteResource, Collection
  <2>5. Distinct(col') /\ Elements(col') = Elements(e)
    BY <1>2, <1>4, <2>4 DEF Distinct, Elements
  <2>. QED BY <1>2, <1>4, <2>4, <2>5, AllRows DEF UInv, TableIsUsers, AccountsKept
<1>. QED BY <1>1, <1>3, <1>4 DEF DeleteAccount, Break

LEMMA UInvRestart ==
  ASSUME UInv, Restart
  PROVE  UInv'
<1>1. PICK order \in Orders(col.files), first \in BOOLEAN :
        LET c == Loaded(col, order) IN
          \/ first /\ PlatUserSave(table, c, filed)
          \/ /\ ~first
             /\ users' = table /\ col' = c /\ account' = filed
             /\ UNCHANGED <<table, filed>> /\ broken' = FALSE
  BY DEF Restart
<1>. DEFINE c == Loaded(col, order)
<1>2. c \in Collection /\ Distinct(c) /\ Elements(c) \subseteq c.taken
  <2>1. c \in Collection /\ Distinct(c) /\ Elements(c) = col.files
    BY LoadedFacts DEF UInv, AccountsKept
  <2>2. c.taken = col.files
    BY DEF Loaded
  <2>. QED BY <2>1, <2>2
<1>. HIDE DEF c
<1>3. CASE PlatUserSave(table, c, filed)
  BY <1>2, <1>3, SaveKeeps
<1>4. CASE users' = table /\ col' = c /\ table' = table
  BY <1>2, <1>4 DEF UInv, TableIsUsers, AccountsKept
<1>. QED BY <1>1, <1>3, <1>4 DEF c

(* A request or a later part of one whose only store is plat_user_save. *)
LEMMA UInvStore ==
  ASSUME UInv, NEW u, NEW a, PlatUserSave(u, col, a)
  PROVE  UInv'
BY SaveKeeps DEF UInv, AccountsKept

LEMMA UInvStep ==
  ASSUME UInv, [Next]_vars
  PROVE  UInv'
<1>1. ASSUME NEW i \in Slot, NEW p \in Privs, SetUserAccess(i, p)
      PROVE  UInv'
  BY <1>1, UInvStore DEF SetUserAccess
<1>2. ASSUME NEW i \in Slot, NEW n \in Names, SetUserName(i, n)
      PROVE  UInv'
  BY <1>2, UInvStore DEF SetUserName
<1>3. ASSUME NEW t \in Threads, NEW id \in Number, DeleteUser(t, id)
      PROVE  UInv'
  BY <1>3, UInvStore DEF DeleteUser
<1>4. ASSUME UNCHANGED <<users, table, col>>, broken' \/ UNCHANGED broken
      PROVE  UInv'
  BY <1>4 DEF UInv, TableIsUsers, AccountsKept, Distinct, Elements
<1>5. ASSUME NEW t \in Threads, NEW n \in Names, NEW p \in Privs, BeginSetUser(t, n, p)
      PROVE  UInv'
  BY <1>4, <1>5 DEF BeginSetUser
<1>6. CASE SaveRecords
  <2>1. /\ col' = RecordSaved(col) /\ col \in Collection /\ Distinct(col)
        /\ Elements(col) \subseteq col.taken /\ UNCHANGED <<users, table, broken>>
    BY <1>6 DEF SaveRecords, UInv, AccountsKept
  <2>2. /\ col' \in Collection /\ Elements(col') = Elements(col)
        /\ Distinct(col) => Distinct(col')
        /\ col'.taken = col.taken
    BY <2>1, SavedFacts
  <2>. QED BY <2>1, <2>2 DEF UInv, TableIsUsers, AccountsKept
<1>7. ASSUME NEW t \in Threads, NewAccount(t)
      PROVE  UInv'
  BY <1>7, UInvNew
<1>8. ASSUME NEW t \in Threads, NameUser(t)
      PROVE  UInv'
  <2>1. CASE Break
    BY <1>4, <2>1 DEF Break
  <2>2. CASE PlatUserSave([users EXCEPT ![rest[t].index].name = rest[t].user.name], col, account)
    BY <2>2, UInvStore
  <2>. QED BY <1>8, <2>1, <2>2 DEF NameUser
<1>9. ASSUME NEW t \in Threads, FinishUser(t)
      PROVE  UInv'
  BY <1>9, UInvStore DEF FinishUser
<1>10. ASSUME NEW t \in Threads, DeleteAccount(t)
      PROVE  UInv'
  BY <1>10, UInvDeleteAccount
<1>11. CASE Restart
  BY <1>11, UInvRestart
<1>12. CASE UNCHANGED vars
  BY <1>4, <1>12 DEF vars
<1>. QED
  BY <1>1, <1>2, <1>3, <1>5, <1>6, <1>7, <1>8, <1>9, <1>10, <1>11, <1>12
  DEF Next, Request, GoOn

(* The numbers of accounts stay apart, whatever Del_User erases and the    *)
(* allocator gives out (util.cpp, resource.cpp).                           *)
THEOREM AccountsStayNumbered == Spec => []AccountsNumbered
<1>1. UInv => AccountsNumbered
  BY DEF UInv, AccountsKept, AccountsNumbered, Numbered, Distinct
<1>. QED BY <1>1, UInvInit, UInvStep, PTL DEF Spec

----------------------------------------------------------------------------
(***************************************************************************)
(* Types.                                                                  *)
(***************************************************************************)
LEMMA UserFacts ==
  /\ Blank \in User /\ NumMax \in Nat /\ MaxUser \in Nat /\ MaxUser >= 2
  /\ \A x \in User, n \in Names \cup {NoName} : [x EXCEPT !.name = n] \in User
  /\ \A x \in User, p \in Privs \cup {0, 1} : [x EXCEPT !.priv = p] \in User
  /\ \A n \in Names, p \in Privs : [name |-> n, priv |-> p] \in User
  /\ 4 \in Privs
BY NumberFacts, UsersAssumption DEF User, Blank, Administrator

LEMMA RowTypes ==
  ASSUME NEW u \in [Slot -> User], table \in [Slot -> User], NEW c \in Collection, NEW p
  PROVE  /\ Rows(u, p) \in [Slot -> User]
         /\ \A old \in [Number -> User] : Copied(u, c, old, p) \in [Number -> User]
<1>1. \A n \in Synced(u, c, p) : n \in Slot
  BY CountFacts, UserFacts DEF Synced, Collection, Slot, Number
<1>. QED BY <1>1 DEF Copied, Rows

LEMMA SaveTypes ==
  ASSUME NEW u \in [Slot -> User], NEW c \in Collection, NEW a \in [Number -> User],
         table \in [Slot -> User], filed \in [Number -> User], PlatUserSave(u, c, a)
  PROVE  /\ users' \in [Slot -> User] /\ table' \in [Slot -> User]
         /\ account' \in [Number -> User] /\ filed' \in [Number -> User]
         /\ broken' \in BOOLEAN
<1>1. PICK p : SavedUpTo(u, c, a, p)
  BY DEF PlatUserSave, CutSave
<1>2. users' = u /\ broken' \in BOOLEAN
  BY DEF PlatUserSave, CutSave
<1>. QED BY <1>1, <1>2, RowTypes DEF SavedUpTo

(* A user moved into another place, or changed in one. *)
LEMMA ChangedTypes ==
  ASSUME users \in [Slot -> User], NEW i
  PROVE  /\ \A n \in Names \cup {NoName} : [users EXCEPT ![i].name = n] \in [Slot -> User]
         /\ \A p \in Privs \cup {0, 1} : [users EXCEPT ![i].priv = p] \in [Slot -> User]
         /\ [users EXCEPT ![i] = Blank] \in [Slot -> User]
         /\ i \in Nat => Deleted(users, i) \in [Slot -> User]
<1>1. /\ \A n \in Names \cup {NoName} : [users EXCEPT ![i].name = n] \in [Slot -> User]
      /\ \A p \in Privs \cup {0, 1} : [users EXCEPT ![i].priv = p] \in [Slot -> User]
      /\ [users EXCEPT ![i] = Blank] \in [Slot -> User]
  BY UserFacts
<1>2. ASSUME i \in Nat PROVE Deleted(users, i) \in [Slot -> User]
  <2>. DEFINE cnt == UserCount(users)
  <2>1. cnt \in 1 .. MaxUser
    BY CountFacts
  <2>. HIDE DEF cnt
  <2>2. \A j \in Slot : i <= j /\ j < cnt - 1 => j + 1 \in Slot
    BY <1>2, <2>1, UserFacts DEF Slot
  <2>3. Deleted(users, i) =
          IF i < 2 THEN users
          ELSE IF i < cnt - 1 THEN
            [j \in Slot |-> IF i <= j /\ j < cnt - 1 THEN users[j + 1]
                            ELSE IF j = cnt - 1 THEN Blank ELSE users[j]]
          ELSE [j \in Slot |-> IF j = i THEN Blank ELSE users[j]]
    BY DEF Deleted, cnt
  <2>. QED BY <2>2, <2>3, UserFacts
<1>. QED BY <1>1, <1>2

LEMMA RestFacts ==
  ASSUME NEW r \in RestState
  PROVE  /\ r.at \in {"new", "named", "fields"} => r.user \in User /\ r.id \in Number
         /\ r.at = "named" => [r EXCEPT !.at = "fields"] \in RestState
         /\ r.at = "account" => r.id \in Number
<1>1. CASE r = Idle
  BY <1>1 DEF Idle
<1>2. CASE \E u \in User : r = Adding("new", u, 0, 0)
  BY <1>2, NumberFacts DEF Adding
<1>3. CASE \E at \in {"named", "fields"}, u \in User, n \in Number, i \in 1 .. MaxUser :
             r = Adding(at, u, n, i)
  <2>1. PICK at \in {"named", "fields"}, u \in User, n \in Number, i \in 1 .. MaxUser :
          r = Adding(at, u, n, i)
    BY <1>3
  <2>2. [r EXCEPT !.at = "fields"] = Adding("fields", u, n, i)
    BY <2>1 DEF Adding
  <2>3. Adding("fields", u, n, i) \in RestState
    BY DEF RestState
  <2>. QED BY <2>1, <2>2, <2>3 DEF Adding
<1>4. CASE \E n \in Number : r = Deleting(n)
  BY <1>4 DEF Deleting
<1>. QED BY <1>1, <1>2, <1>3, <1>4 DEF RestState

LEMMA TypeInit == Init => TypeOK
<1>. SUFFICES ASSUME Init PROVE TypeOK
  OBVIOUS
<1>1. FirstUsers \in [Slot -> User]
  BY UserFacts, UsersAssumption DEF FirstUsers, User, Administrator
<1>2. FirstAccounts \in [Number -> User]
  BY <1>1, UserFacts DEF FirstAccounts, Slot
<1>3. Idle \in RestState
  BY DEF RestState
<1>4. col \in Collection
  BY UInvInit DEF UInv, AccountsKept
<1>. QED BY <1>1, <1>2, <1>3, <1>4 DEF Init, TypeOK

LEMMA TypeStep ==
  ASSUME TypeOK, UInv, [Next]_vars
  PROVE  TypeOK'
<1>. USE DEF TypeOK
<1>1. col' \in Collection
  BY UInvStep DEF UInv, AccountsKept
<1>2. ASSUME NEW i \in Slot, NEW p \in Privs, SetUserAccess(i, p)
      PROVE  TypeOK'
  BY <1>1, <1>2, SaveTypes, ChangedTypes DEF SetUserAccess
<1>3. ASSUME NEW i \in Slot, NEW n \in Names, SetUserName(i, n)
      PROVE  TypeOK'
  BY <1>1, <1>3, SaveTypes, ChangedTypes DEF SetUserName
<1>4. ASSUME NEW t \in Threads, NEW n \in Names, NEW p \in Privs, BeginSetUser(t, n, p)
      PROVE  TypeOK'
  <2>1. Adding("new", [name |-> n, priv |-> p], 0, 0) \in RestState
    BY UserFacts DEF RestState
  <2>. QED BY <1>4, <2>1 DEF BeginSetUser
<1>5. ASSUME NEW t \in Threads, NEW id \in Number, DeleteUser(t, id)
      PROVE  TypeOK'
  <2>1. Deleting(id) \in RestState /\ Idle \in RestState /\ id + 1 \in Nat
    BY NumberFacts DEF RestState
  <2>2. Deleted(users, id + 1) \in [Slot -> User]
    BY <2>1, ChangedTypes
  <2>3. PlatUserSave(Deleted(users, id + 1), col, account)
    BY <1>5 DEF DeleteUser
  <2>4. /\ users' \in [Slot -> User] /\ table' \in [Slot -> User]
        /\ account' \in [Number -> User] /\ filed' \in [Number -> User]
        /\ broken' \in BOOLEAN
    BY <2>2, <2>3, SaveTypes
  <2>5. rest' = [rest EXCEPT ![t] = IF id \in col.alive THEN Deleting(id) ELSE Idle]
    BY <1>5 DEF DeleteUser
  <2>. QED BY <1>1, <2>1, <2>4, <2>5
<1>6. CASE SaveRecords
  BY <1>1, <1>6 DEF SaveRecords
<1>7. ASSUME NEW t \in Threads, NewAccount(t)
      PROVE  TypeOK'
  <2>. DEFINE n == NextNumber(col)
  <2>1. /\ n \in Number /\ rest[t].user \in User /\ UserCount(users) \in 1 .. MaxUser
    BY <1>7, NextNumberIsFree, RestFacts, CountFacts DEF NewAccount
  <2>2. /\ account' = [account EXCEPT ![n] = rest[t].user]
        /\ rest' = [rest EXCEPT ![t] = Adding("named", rest[t].user, n, UserCount(users))]
        /\ UNCHANGED <<users, table, filed, broken>>
    BY <1>7 DEF NewAccount
  <2>. HIDE DEF n
  <2>3. Adding("named", rest[t].user, n, UserCount(users)) \in RestState
    BY <2>1 DEF RestState
  <2>. QED BY <1>1, <2>1, <2>2, <2>3
<1>8. ASSUME NEW t \in Threads, NameUser(t)
      PROVE  TypeOK'
  <2>1. /\ rest[t].at = "named" /\ rest' = [rest EXCEPT ![t] = [rest[t] EXCEPT !.at = "fields"]]
    BY <1>8 DEF NameUser
  <2>2. rest[t].user \in User /\ [rest[t] EXCEPT !.at = "fields"] \in RestState
    BY <2>1, RestFacts
  <2>3. rest' \in [Threads -> RestState]
    BY <2>1, <2>2
  <2>4. CASE Break
    BY <1>1, <2>3, <2>4 DEF Break
  <2>5. CASE PlatUserSave([users EXCEPT ![rest[t].index].name = rest[t].user.name], col, account)
    <3>1. rest[t].user.name \in Names \cup {NoName}
      BY <2>2 DEF User
    <3>. QED BY <1>1, <2>3, <2>5, <3>1, SaveTypes, ChangedTypes
  <2>. QED BY <1>8, <2>4, <2>5 DEF NameUser
<1>9. ASSUME NEW t \in Threads, FinishUser(t)
      PROVE  TypeOK'
  <2>. DEFINE p == IF rest[t].user.priv = Administrator THEN Administrator ELSE 0
              q == IF rest[t].user.priv = Administrator THEN 1 ELSE 0
  <2>1. p \in Privs \cup {0, 1} /\ q \in Privs \cup {0, 1}
    BY UsersAssumption
  <2>2. /\ PlatUserSave([users EXCEPT ![rest[t].index].priv = p], col,
                       [account EXCEPT ![rest[t].id].priv = q])
        /\ rest' = [rest EXCEPT ![t] = Idle]
    BY <1>9 DEF FinishUser
  <2>. HIDE DEF p, q
  <2>3. [account EXCEPT ![rest[t].id].priv = q] \in [Number -> User]
    BY <2>1, UserFacts
  <2>4. [users EXCEPT ![rest[t].index].priv = p] \in [Slot -> User]
    BY <2>1, ChangedTypes
  <2>5. Idle \in RestState
    BY DEF RestState
  <2>. QED BY <1>1, <2>2, <2>3, <2>4, <2>5, SaveTypes
<1>10. ASSUME NEW t \in Threads, DeleteAccount(t)
      PROVE  TypeOK'
  <2>1. Idle \in RestState /\ rest' = [rest EXCEPT ![t] = Idle]
    BY <1>10 DEF DeleteAccount, RestState
  <2>2. CASE UNCHANGED <<users, table, account, filed>> /\ broken' \in BOOLEAN
    BY <1>1, <2>1, <2>2
  <2>3. CASE \E e \in Collection, p \in 0 .. Stores :
               LET u == [users EXCEPT ![rest[t].id] = Blank] IN
                 /\ users' = u /\ table' = Rows(u, p) /\ broken' \in BOOLEAN
                 /\ account' = Copied(u, e, account, p) /\ filed' = Copied(u, e, filed, p)
    <3>. DEFINE u == [users EXCEPT ![rest[t].id] = Blank]
    <3>1. u \in [Slot -> User]
      BY ChangedTypes
    <3>. HIDE DEF u
    <3>2. PICK e \in Collection, p \in 0 .. Stores :
            /\ users' = u /\ table' = Rows(u, p) /\ broken' \in BOOLEAN
            /\ account' = Copied(u, e, account, p) /\ filed' = Copied(u, e, filed, p)
      BY <2>3 DEF u
    <3>. QED BY <1>1, <2>1, <3>1, <3>2, RowTypes
  <2>4. ASSUME rest[t].id \in Elements(col)
        PROVE  Erased(Released(col, rest[t].id), PlaceOf(col, rest[t].id)) \in Collection
    <3>1. PlaceOf(col, rest[t].id) \in 1 .. Len(col.members)
      BY <2>4, PlaceIsPlace
    <3>2. /\ Released(col, rest[t].id) \in Collection
          /\ Released(col, rest[t].id).members = col.members
      BY DEF Released, Collection
    <3>. QED BY <3>1, <3>2, ErasedFacts
  <2>5. Stores \in 0 .. Stores
    BY UsersAssumption DEF Stores
  <2>. QED BY <1>10, <2>2, <2>3, <2>4, <2>5 DEF DeleteAccount, Break, CutSave, SavedUpTo
<1>11. CASE Restart
  <2>1. PICK order \in Orders(col.files) :
          \/ PlatUserSave(table, Loaded(col, order), filed)
          \/ users' = table /\ account' = filed /\ UNCHANGED <<table, filed>> /\ broken' = FALSE
    BY <1>11 DEF Restart
  <2>2. Loaded(col, order) \in Collection
    BY LoadedFacts
  <2>3. /\ users' \in [Slot -> User] /\ table' \in [Slot -> User]
        /\ account' \in [Number -> User] /\ filed' \in [Number -> User]
        /\ broken' \in BOOLEAN
    BY <2>1, <2>2, SaveTypes
  <2>4. Idle \in RestState
    BY DEF RestState
  <2>5. rest' = [u \in Threads |-> Idle]
    BY <1>11 DEF Restart
  <2>. QED BY <1>1, <2>3, <2>4, <2>5
<1>12. CASE UNCHANGED vars
  BY <1>12 DEF vars
<1>. QED
  BY <1>2, <1>3, <1>4, <1>5, <1>6, <1>7, <1>8, <1>9, <1>10, <1>11, <1>12
  DEF Next, Request, GoOn

(* Users, table, accounts and the requests under way keep their types,     *)
(* also while a user is added who has no place left.                       *)
THEOREM UsersTypeCorrect == Spec => []TypeOK
<1>. QED BY TypeInit, TypeStep, UInvInit, UInvStep, PTL DEF Spec
----------------------------------------------------------------------------
(***************************************************************************)
(* The rows of a save that is cut.                                         *)
(***************************************************************************)
(* Those who stay among the users are in the table after the step. *)
NobodyLost ==
  \A i \in Slot : users[i] \in {users'[j] : j \in Slot} =>
    users[i] \in {table'[j] : j \in Slot}

(* u takes the place of users, row after row. *)
Replaced(u) == users' = u /\ \E p \in 0 .. Stores : table' = Rows(u, p)

LEMMA SavesReplace ==
  ASSUME NEW u, NEW c, NEW a, PlatUserSave(u, c, a)
  PROVE  Replaced(u)
<1>1. Stores \in 0 .. Stores
  BY UsersAssumption DEF Stores
<1>. QED BY <1>1 DEF PlatUserSave, CutSave, SavedUpTo, Replaced

(* One user changes, the others keep their rows. *)
LEMMA OneChanges ==
  ASSUME \A i \in Slot : table[i] = users[i], NEW u, NEW x, Replaced(u),
         \A j \in Slot : j # x => u[j] = users[j]
  PROVE  NobodyLost
<1>. SUFFICES ASSUME NEW i \in Slot, NEW j \in Slot, users[i] = u[j]
              PROVE  \E k \in Slot : table'[k] = users[i]
  BY DEF NobodyLost, Replaced
<1>1. \A k \in Slot : table'[k] = u[k] \/ table'[k] = users[k]
  BY DEF Replaced, Rows
<1>2. CASE i # x
  BY <1>1, <1>2
<1>3. CASE i = x /\ j = x
  BY <1>1, <1>3
<1>4. CASE j # x
  BY <1>1, <1>4
<1>. QED BY <1>2, <1>3, <1>4

(* Users move down: before row p stands whoever came from behind, from p   *)
(* on those who have not moved yet.                                        *)
LEMMA DeletedKeeps ==
  ASSUME \A i \in Slot : table[i] = users[i], NEW x \in Nat,
         Replaced(Deleted(users, x))
  PROVE  NobodyLost
<1>. DEFINE u == Deleted(users, x)
            cnt == UserCount(users)
<1>1. MaxUser \in Nat /\ Slot = 0 .. MaxUser - 1
  BY UsersAssumption DEF Slot
<1>2. /\ cnt \in 1 .. MaxUser
      /\ \A k \in 1 .. cnt - 1 : users[k].name # NoName
  BY CountFacts
<1>. HIDE DEF cnt
<1>3. u = IF x < 2 THEN users
          ELSE IF x < cnt - 1 THEN
            [j \in Slot |-> IF x <= j /\ j < cnt - 1 THEN users[j + 1]
                            ELSE IF j = cnt - 1 THEN Blank ELSE users[j]]
          ELSE [j \in Slot |-> IF j = x THEN Blank ELSE users[j]]
  BY DEF Deleted, cnt
<1>4. Replaced(u)
  OBVIOUS
<1>. HIDE DEF u
<1>5. CASE x < 2
  BY <1>3, <1>4, <1>5, OneChanges
<1>6. CASE ~(x < 2) /\ ~(x < cnt - 1)
  <2>1. \A j \in Slot : j # x => u[j] = users[j]
    BY <1>3, <1>6
  <2>. QED BY <1>4, <2>1, OneChanges
<1>7. CASE ~(x < 2) /\ x < cnt - 1
  <2>1. \A j \in Slot : u[j] = IF x <= j /\ j < cnt - 1 THEN users[j + 1]
                                ELSE IF j = cnt - 1 THEN Blank ELSE users[j]
    BY <1>3, <1>7
  <2>2. PICK p \in 0 .. Stores : table' = Rows(u, p)
    BY <1>4 DEF Replaced
  <2>3. p \in Nat
    BY <2>2, UsersAssumption DEF Stores
  <2>4. \A k \in Slot : table'[k] = IF k < p THEN u[k] ELSE users[k]
    BY <2>2 DEF Rows
  <2>. SUFFICES ASSUME NEW i \in Slot, NEW j \in Slot, users[i] = u[j]
                PROVE  \E k \in Slot : table'[k] = users[i]
    BY <1>4 DEF NobodyLost, Replaced
  <2>5. ASSUME NEW k \in Slot, x <= k, k < cnt - 1
        PROVE  k + 1 \in Slot /\ (table'[k] = users[k + 1] \/ table'[k + 1] = users[k + 1])
    <3>1. k + 1 \in Slot /\ k \in Nat
      BY <1>1, <1>2, <2>5
    <3>2. CASE k < p
      BY <2>1, <2>4, <2>5, <3>1, <3>2
    <3>3. CASE ~(k < p)
      <4>1. ~(k + 1 < p)
        BY <2>3, <3>1, <3>3
      <4>. QED BY <2>4, <3>1, <4>1
    <3>. QED BY <3>1, <3>2, <3>3
  <2>6. CASE i < x \/ cnt - 1 < i
    <3>1. u[i] = users[i]
      BY <1>1, <1>2, <1>7, <2>1, <2>6
    <3>. QED BY <2>4, <3>1
  <2>7. CASE x < i /\ i <= cnt - 1
    <3>1. i - 1 \in Slot /\ x <= i - 1 /\ i - 1 < cnt - 1 /\ (i - 1) + 1 = i
      BY <1>1, <1>2, <2>7
    <3>. QED BY <2>5, <3>1
  <2>8. CASE i = x
    <3>1. users[i].name # NoName
      BY <1>1, <1>2, <1>7, <2>8
    <3>2. CASE x <= j /\ j < cnt - 1
      <4>1. u[j] = users[j + 1]
        BY <2>1, <3>2
      <4>. QED BY <2>5, <3>2, <4>1
    <3>3. CASE j = cnt - 1
      <4>1. u[j] = Blank
        BY <1>2, <2>1, <3>3
      <4>. QED BY <3>1, <4>1 DEF Blank
    <3>4. CASE ~(x <= j /\ j < cnt - 1) /\ j # cnt - 1
      <4>1. u[j] = users[j]
        BY <2>1, <3>4
      <4>. QED BY <2>4, <4>1
    <3>. QED BY <3>2, <3>3, <3>4
  <2>. QED BY <1>1, <1>2, <2>6, <2>7, <2>8
<1>. QED BY <1>5, <1>6, <1>7

LEMMA StoredKeeps ==
  ASSUME \A i \in Slot : table[i] = users[i], users \in [Slot -> User],
         NEW x, NEW y, NEW c, NEW a
  PROVE  /\ PlatUserSave([users EXCEPT ![x].name = y], c, a) => NobodyLost
         /\ PlatUserSave([users EXCEPT ![x].priv = y], c, a) => NobodyLost
         /\ Replaced([users EXCEPT ![x] = y]) => NobodyLost
<1>1. \A j \in Slot : j # x => [users EXCEPT ![x].name = y][j] = users[j]
  OBVIOUS
<1>2. \A j \in Slot : j # x => [users EXCEPT ![x].priv = y][j] = users[j]
  OBVIOUS
<1>3. \A j \in Slot : j # x => [users EXCEPT ![x] = y][j] = users[j]
  OBVIOUS
<1>4. Replaced([users EXCEPT ![x].name = y]) => NobodyLost
  BY <1>1, OneChanges
<1>5. Replaced([users EXCEPT ![x].priv = y]) => NobodyLost
  BY <1>2, OneChanges
<1>6. Replaced([users EXCEPT ![x] = y]) => NobodyLost
  BY <1>3, OneChanges
<1>. QED BY <1>4, <1>5, <1>6, SavesReplace

LEMMA NobodyLostStep ==
  ASSUME TypeOK, UInv, Next
  PROVE  NobodyLost
<1>1. CASE ~broken /\ Request
  <2>1. \A i \in Slot : table[i] = users[i]
    BY <1>1 DEF UInv, TableIsUsers
  <2>2. ASSUME NEW i \in Slot, NEW p \in Privs, SetUserAccess(i, p)
        PROVE  NobodyLost
    BY <2>1, <2>2, StoredKeeps DEF SetUserAccess, TypeOK
  <2>3. ASSUME NEW i \in Slot, NEW n \in Names, SetUserName(i, n)
        PROVE  NobodyLost
    BY <2>1, <2>3, StoredKeeps DEF SetUserName, TypeOK
  <2>4. ASSUME NEW t \in Threads, NEW id \in Number, DeleteUser(t, id)
        PROVE  NobodyLost
    <3>1. id + 1 \in Nat
      BY NumberFacts
    <3>. QED BY <2>1, <2>4, <3>1, SavesReplace, DeletedKeeps DEF DeleteUser
  <2>5. CASE UNCHANGED <<users, table>>
    BY <2>1, <2>5 DEF NobodyLost
  <2>. QED BY <1>1, <2>2, <2>3, <2>4, <2>5 DEF Request, BeginSetUser, SaveRecords
<1>2. CASE ~broken /\ GoOn
  <2>1. \A i \in Slot : table[i] = users[i]
    BY <1>2 DEF UInv, TableIsUsers
  <2>2. CASE UNCHANGED <<users, table>>
    BY <2>1, <2>2 DEF NobodyLost
  <2>3. ASSUME NEW t \in Threads, NameUser(t)
        PROVE  NobodyLost
    BY <2>1, <2>2, <2>3, StoredKeeps DEF NameUser, Break, TypeOK
  <2>4. ASSUME NEW t \in Threads, FinishUser(t)
        PROVE  NobodyLost
    BY <2>1, <2>4, StoredKeeps DEF FinishUser, TypeOK
  <2>5. ASSUME NEW t \in Threads, DeleteAccount(t)
        PROVE  NobodyLost
    <3>. DEFINE id == rest[t].id
                u == [users EXCEPT ![id] = Blank]
    <3>1. CASE Replaced(u)
      BY <2>1, <3>1, StoredKeeps DEF TypeOK
    <3>2. Stores \in 0 .. Stores
      BY UsersAssumption DEF Stores
    <3>3. UNCHANGED <<users, table>> \/ Replaced(u)
      BY <2>5, <3>2 DEF DeleteAccount, Break, CutSave, SavedUpTo, Replaced
    <3>. QED BY <2>2, <3>1, <3>3
  <2>. QED BY <1>2, <2>2, <2>3, <2>4, <2>5 DEF GoOn, NewAccount
<1>3. CASE Restart
  <2>1. \A i \in Slot : users'[i] = table'[i]
    <3>1. CASE \E c, a : PlatUserSave(table, c, a)
      <4>1. Replaced(table)
        BY <3>1, SavesReplace
      <4>. QED BY <4>1 DEF Replaced, Rows
    <3>2. CASE users' = table /\ table' = table
      BY <3>2
    <3>. QED BY <1>3, <3>1, <3>2 DEF Restart
  <2>. QED BY <2>1 DEF NobodyLost
<1>. QED BY <1>1, <1>2, <1>3 DEF Next

(* The table keeps everyone a request leaves among the users, wherever its *)
(* save is cut (make_user_db writes the rows from the first to the last).  *)
THEOREM CutSavesLoseNobody == Spec => SaveLosesNobody
<1>1. TypeOK /\ UInv /\ [Next]_vars =>
        [\A i \in Slot : users[i] \in {users'[j] : j \in Slot} =>
           users[i] \in {table'[j] : j \in Slot}]_vars
  BY NobodyLostStep DEF NobodyLost
<1>. QED BY <1>1, TypeInit, TypeStep, UInvInit, UInvStep, PTL DEF Spec, SaveLosesNobody
----------------------------------------------------------------------------
(***************************************************************************)
(* app_del_user on any array of users.                                     *)
(***************************************************************************)
LEMMA DeletedCounted ==
  ASSUME NEW u, NEW i \in Nat, i >= 1
  PROVE  Counted(Deleted(u, i)) =
           IF 2 <= i /\ i < UserCount(u)
           THEN [j \in 1 .. UserCount(u) - 1 |-> IF j <= i THEN u[j - 1] ELSE u[j]]
           ELSE Counted(u)
<1>. DEFINE cnt == UserCount(u)
            v == Deleted(u, i)
<1>1. MaxUser \in Nat /\ MaxUser >= 2 /\ Slot = 0 .. MaxUser - 1
  BY UsersAssumption DEF Slot
<1>2. /\ cnt \in 1 .. MaxUser
      /\ \A k \in 1 .. cnt - 1 : u[k].name # NoName
      /\ cnt < MaxUser => u[cnt].name = NoName
  BY CountFacts
<1>. HIDE DEF cnt
<1>3. CASE i < 2
  <2>1. v = u
    BY <1>3 DEF Deleted
  <2>. QED BY <1>3, <2>1
<1>4. CASE 2 <= i /\ i < cnt
  <2>1. \A j \in 1 .. cnt - 2 : v[j] = IF j < i THEN u[j] ELSE u[j + 1]
    <3>1. CASE i < cnt - 1
      <4>1. v = [j \in Slot |-> IF i <= j /\ j < cnt - 1 THEN u[j + 1]
                                ELSE IF j = cnt - 1 THEN Blank ELSE u[j]]
        BY <1>1, <1>2, <1>4, <3>1 DEF Deleted, cnt
      <4>. HIDE DEF v
      <4>. QED BY <1>1, <1>2, <1>4, <4>1
    <3>2. CASE i = cnt - 1
      <4>1. v = [j \in Slot |-> IF j = i THEN Blank ELSE u[j]]
        BY <1>1, <1>2, <1>4, <3>2 DEF Deleted, cnt
      <4>. HIDE DEF v
      <4>. QED BY <1>1, <1>2, <1>4, <3>2, <4>1
    <3>. QED BY <1>1, <1>2, <1>4, <3>1, <3>2
  <2>2. v[cnt - 1] = Blank /\ v[0] = u[0]
    <3>1. CASE i < cnt - 1
      <4>1. v = [j \in Slot |-> IF i <= j /\ j < cnt - 1 THEN u[j + 1]
                                ELSE IF j = cnt - 1 THEN Blank ELSE u[j]]
        BY <1>1, <1>2, <1>4, <3>1 DEF Deleted, cnt
      <4>. HIDE DEF v
      <4>. QED BY <1>1, <1>2, <1>4, <3>1, <4>1
    <3>2. CASE i = cnt - 1
      <4>1. v = [j \in Slot |-> IF j = i THEN Blank ELSE u[j]]
        BY <1>1, <1>2, <1>4, <3>2 DEF Deleted, cnt
      <4>. HIDE DEF v
      <4>. QED BY <1>1, <1>2, <1>4, <3>2, <4>1
    <3>. QED BY <1>1, <1>2, <1>4, <3>1, <3>2
  <2>. HIDE DEF v
  <2>3. \A j \in 1 .. (cnt - 1) - 1 : v[j].name # NoName
    <3>. SUFFICES ASSUME NEW j \in 1 .. (cnt - 1) - 1 PROVE v[j].name # NoName
      OBVIOUS
    <3>1. j \in 1 .. cnt - 2 /\ j \in 1 .. cnt - 1 /\ j + 1 \in 1 .. cnt - 1
      BY <1>1, <1>2
    <3>. QED BY <1>2, <2>1, <3>1
  <2>4. cnt - 1 \in 1 .. MaxUser
    BY <1>1, <1>2, <1>4
  <2>5. UserCount(v) = cnt - 1
    BY <2>2, <2>3, <2>4, CountIs DEF Blank
  <2>6. \A j \in 1 .. cnt - 1 : v[j - 1] = IF j <= i THEN u[j - 1] ELSE u[j]
    <3>. SUFFICES ASSUME NEW j \in 1 .. cnt - 1
                  PROVE  v[j - 1] = IF j <= i THEN u[j - 1] ELSE u[j]
      OBVIOUS
    <3>1. CASE j = 1
      BY <1>4, <2>2, <3>1
    <3>2. CASE j # 1
      <4>1. j - 1 \in 1 .. cnt - 2 /\ (j - 1) + 1 = j /\ (j - 1 < i <=> j <= i)
        BY <1>1, <1>2, <3>2
      <4>. QED BY <2>1, <4>1
    <3>. QED BY <3>1, <3>2
  <2>7. Counted(v) = [j \in 1 .. cnt - 1 |-> IF j <= i THEN u[j - 1] ELSE u[j]]
    BY <2>5, <2>6 DEF Counted
  <2>. QED BY <1>4, <2>7 DEF v, cnt
<1>5. CASE 2 <= i /\ ~(i < cnt)
  <2>1. v = [j \in Slot |-> IF j = i THEN Blank ELSE u[j]]
    BY <1>1, <1>2, <1>5 DEF Deleted, cnt
  <2>. HIDE DEF v
  <2>2. \A j \in 0 .. cnt - 1 : v[j] = u[j]
    BY <1>1, <1>2, <1>5, <2>1
  <2>3. cnt < MaxUser => v[cnt].name = NoName
    BY <1>1, <1>2, <1>5, <2>1 DEF Blank
  <2>4. \A j \in 1 .. cnt - 1 : v[j].name # NoName
    BY <1>1, <1>2, <2>2
  <2>5. UserCount(v) = cnt
    BY <1>2, <2>3, <2>4, CountIs
  <2>6. \A j \in 1 .. cnt : v[j - 1] = u[j - 1]
    BY <1>1, <1>2, <2>2
  <2>7. Counted(v) = Counted(u)
    BY <2>5, <2>6 DEF Counted, cnt
  <2>. QED BY <1>5, <2>7 DEF v, cnt
<1>. QED BY <1>3, <1>4, <1>5

(* app_del_user takes its user out and closes the gap, or refuses root and *)
(* admin, for an array of any size and any filling.                        *)
THEOREM DeletesCloseGap == Spec => DeleteClosesGap
<1>1. ASSUME NEW t \in Threads, NEW id \in Number, DeleteUser(t, id)
      PROVE  LET i == id + 1 IN
               Counted(users') = IF 2 <= i /\ i < UserCount(users)
                                 THEN [j \in 1 .. UserCount(users) - 1 |->
                                         IF j <= i THEN users[j - 1] ELSE users[j]]
                                 ELSE Counted(users)
  <2>1. users' = Deleted(users, id + 1)
    BY <1>1 DEF DeleteUser, PlatUserSave
  <2>2. id + 1 \in Nat /\ id + 1 >= 1
    BY NumberFacts
  <2>. HIDE DEF Counted, Deleted
  <2>. QED BY <2>1, <2>2, DeletedCounted
<1>2. [Next]_vars =>
        [\A t \in Threads, id \in Number : DeleteUser(t, id) =>
           LET i == id + 1 IN
             Counted(users') = IF 2 <= i /\ i < UserCount(users)
                               THEN [j \in 1 .. UserCount(users) - 1 |->
                                       IF j <= i THEN users[j - 1] ELSE users[j]]
                               ELSE Counted(users)]_vars
  BY <1>1
<1>. QED BY <1>2, PTL DEF Spec, DeleteClosesGap
=============================================================================

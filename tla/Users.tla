-------------------------------- MODULE Users --------------------------------
(***************************************************************************)
(* The users of the controller: the array ipmiUser, its sqlite table, and  *)
(* the Redfish accounts that mirror it (libs/user/user.cpp, the handlers   *)
(* of libs/apps/apps.cpp, Set_User and Del_User of libs/web).              *)
(*                                                                         *)
(* IPMI commands run one at a time under m_app; the threads of the web     *)
(* server take no lock and are cut between the stores of a request.  Of a  *)
(* user the model keeps name and privilege; password, enable flag, link    *)
(* authentication, call-in and IPMI flag are stored and copied like these. *)
(* The power may go between any two stores of a save; the save of one      *)
(* thread does not overlap that of another, and no update of a row fails.  *)
(***************************************************************************)
EXTENDS RedfishCollection

CONSTANTS
  MaxUser,   \* 10
  Names,     \* names a client may choose
  NoName,    \* ""
  Privs,     \* privilege levels a client may choose, Administrator among them
  Threads    \* threads of the web server

Administrator == 4

ASSUME UsersAssumption ==
  /\ MaxUser \in Nat /\ MaxUser >= 2
  /\ NoName \notin Names /\ {"root", "admin"} \subseteq Names
  /\ Administrator \in Privs /\ Privs \subseteq Nat

Slot == 0 .. MaxUser - 1
User == [name : Names \cup {NoName}, priv : Privs \cup {0, 1}]
Blank == [name |-> NoName, priv |-> 0]

VARIABLES
  users,    \* ipmiUser
  table,    \* Usertable
  col,      \* the account collection
  account,  \* the account object of each number
  filed,    \* what its file says
  rest,     \* where each web thread is
  broken    \* the program is down: the power is gone in a save, or a handler
            \* has written past ipmiUser or followed a null pointer

vars == <<users, table, col, account, filed, rest, broken>>

Idle == [at |-> "idle"]
Adding(at, user, id, index) == [at |-> at, user |-> user, id |-> id, index |-> index]
Deleting(id) == [at |-> "account", id |-> id]

RestState ==
  {Idle} \cup {Adding("new", u, 0, 0) : u \in User}
         \cup {Adding(at, u, n, i) : at \in {"named", "fields"}, u \in User,
                                     n \in Number, i \in 1 .. MaxUser}
         \cup {Deleting(n) : n \in Number}

TypeOK ==
  /\ users \in [Slot -> User] /\ table \in [Slot -> User]
  /\ col \in Collection
  /\ account \in [Number -> User] /\ filed \in [Number -> User]
  /\ rest \in [Threads -> RestState]
  /\ broken \in BOOLEAN
----------------------------------------------------------------------------
(* get_user_cnt: the first place after root's that has no name. *)
UserCount(u) == Least({i \in 1 .. MaxUser - 1 : u[i].name = NoName} \cup {MaxUser})

(* A save is ten updates of the table, each committed by itself, and then  *)
(* the accounts one after another.  After p of these stores: the rows      *)
(* below p are those of u, and of the first UserCount users those stand in *)
(* the account of the same number, where there is one, and in its file.    *)
RowsMutant(u, p) == [i \in Slot |-> IF MaxUser - 1 - i < p THEN u[i] ELSE table[i]]
Rows(u, p) == [i \in Slot |-> IF i < p THEN u[i] ELSE table[i]]

Stores == 2 * MaxUser
Synced(u, c, p) == {n \in c.alive : n < UserCount(u) /\ MaxUser + n < p}
Copied(u, c, old, p) ==
  LET S == Synced(u, c, p) IN [n \in Number |-> IF n \in S THEN u[n] ELSE old[n]]

SavedUpTo(u, c, a, p) ==
  /\ table' = Rows(u, p)
  /\ account' = Copied(u, c, a, p)
  /\ filed' = Copied(u, c, filed, p)
  /\ col' = [c EXCEPT !.files = @ \cup Synced(u, c, p)]

(* The power goes after some of the stores. *)
CutSave(u, c, a) == broken' = TRUE /\ \E p \in 0 .. Stores : SavedUpTo(u, c, a, p)

PlatUserSave(u, c, a) ==
  /\ users' = u
  /\ \/ broken' = FALSE /\ SavedUpTo(u, c, a, Stores)
     \/ CutSave(u, c, a)

(* A handler writes at index MaxUser, or follows a null pointer: what then *)
(* happens is not modelled, and only a restart follows.                    *)
Break == broken' = TRUE /\ UNCHANGED <<users, table, col, account, filed>>
----------------------------------------------------------------------------
(* IPMI commands.                                                          *)

(* app_set_useraccess, and app_set_user_passwd that enables or "disables": *)
(* with or without the bit that changes the flags, the privilege is stored.*)
SetUserAccess(i, p) ==
  /\ PlatUserSave([users EXCEPT ![i].priv = p], col, account)
  /\ UNCHANGED rest

(* app_set_username: a name some user has is not taken. *)
SetUserName(i, n) ==
  /\ \A j \in Slot : users[j].name # n
  /\ PlatUserSave([users EXCEPT ![i].name = n], col, account)
  /\ UNCHANGED rest
----------------------------------------------------------------------------
(* The web server adds a user.                                             *)

(* Set_User up to the comparison with the names of the accounts. *)
BeginSetUser(t, n, p) ==
  /\ rest[t] = Idle
  /\ \A m \in Elements(col) : account[m].name # n
  /\ rest' = [rest EXCEPT ![t] = Adding("new", [name |-> n, priv |-> p], 0, 0)]
  /\ UNCHANGED <<users, table, col, account, filed, broken>>

(* The new account is registered and joins the collection; the user will   *)
(* go to the first place free at this moment.                              *)
NewAccount(t) ==
  /\ rest[t].at = "new"
  /\ CanAllocate(col)
  /\ LET n == NextNumber(col) IN
       /\ col' = Joined(Registered(Allocated(col), n), n)
       /\ account' = [account EXCEPT ![n] = rest[t].user]
       /\ rest' = [rest EXCEPT ![t] = Adding("named", rest[t].user, n, UserCount(users))]
  /\ UNCHANGED <<users, table, filed, broken>>

(* setUserName and setUserPasswd. *)
NameUser(t) ==
  /\ rest[t].at = "named"
  /\ rest' = [rest EXCEPT ![t].at = "fields"]
  /\ IF rest[t].index = MaxUser THEN Break
     ELSE PlatUserSave([users EXCEPT ![rest[t].index].name = rest[t].user.name], col, account)

(* The flags, stored at the end of Set_User: 4 becomes an administrator,   *)
(* any other level 0; the account keeps 1 or 0.                            *)
FinishUser(t) ==
  /\ rest[t].at = "fields"
  /\ rest' = [rest EXCEPT ![t] = Idle]
  /\ LET four == rest[t].user.priv = Administrator
         u == [users EXCEPT ![rest[t].index].priv = IF four THEN Administrator ELSE 0]
     IN PlatUserSave(u, col, [account EXCEPT ![rest[t].id].priv = IF four THEN 1 ELSE 0])
----------------------------------------------------------------------------
(* The web server deletes a user.                                          *)

(* The users after app_del_user(i): those behind i move down and the last  *)
(* place is blanked.  The place past the array that a full table reads is  *)
(* the one that is blanked.                                                *)
DeletedMutant(u, i) ==
  LET cnt == UserCount(u) IN
    IF i < 2 THEN u
    ELSE IF i < cnt - 1 THEN
      [j \in Slot |-> IF i <= j /\ j < cnt - 1 THEN u[j + 1] ELSE u[j]]
    ELSE [j \in Slot |-> IF j = i THEN Blank ELSE u[j]]
Deleted(u, i) ==
  LET cnt == UserCount(u) IN
    IF i < 2 THEN u
    ELSE IF i < cnt - 1 THEN
      [j \in Slot |-> IF i <= j /\ j < cnt - 1 THEN u[j + 1]
                      ELSE IF j = cnt - 1 THEN Blank ELSE u[j]]
    ELSE [j \in Slot |-> IF j = i THEN Blank ELSE u[j]]

(* Del_User(id), first part: app_del_user(id + 1), which stores in any     *)
(* case; there is nothing more to do if no account has the number.         *)
DeleteUser(t, id) ==
  /\ rest[t] = Idle
  /\ rest' = [rest EXCEPT ![t] = IF id \in col.alive THEN Deleting(id) ELSE Idle]
  /\ PlatUserSave(Deleted(users, id + 1), col, account)

(* Second part: the member is erased, user id is blanked and stored, and   *)
(* then the object at the erased place is deleted, which is the next       *)
(* member unless it was the last.                                          *)
DeleteAccount(t) ==
  /\ rest[t].at = "account"
  /\ rest' = [rest EXCEPT ![t] = Idle]
  /\ LET id == rest[t].id
         place == PlaceOf(col, id)
         erased == Erased(Released(col, id), place)
         victim == IF place <= Len(erased.members) THEN erased.members[place] ELSE id
         u == [users EXCEPT ![id] = Blank]
         saved == [erased EXCEPT !.files = @ \cup Synced(u, erased, Stores)]
     IN IF id \notin Elements(col) THEN UNCHANGED <<users, table, col, account, filed, broken>>
        ELSE IF id \notin col.alive \/ id >= MaxUser THEN Break
        ELSE /\ users' = u
             /\ \/ CutSave(u, erased, account)
                \/ /\ table' = Rows(u, Stores)
                   /\ account' = Copied(u, erased, account, Stores)
                   /\ filed' = Copied(u, erased, filed, Stores)
                   /\ col' = DeleteResource(Destroyed(saved, victim), id)
                   /\ UNCHANGED broken
----------------------------------------------------------------------------
(* record_save_json: every registered account is written. *)
SaveRecords ==
  /\ col' = RecordSaved(col)
  /\ filed' = [n \in Number |-> IF n \in col.alive THEN account[n] ELSE filed[n]]
  /\ UNCHANGED <<users, table, account, rest, broken>>

(* A restart reads the table and the files.  The main program decides      *)
(* which comes first; only if the accounts do, the users are copied over.  *)
Restart ==
  /\ \E order \in Orders(col.files), accountsFirst \in BOOLEAN :
       LET c == Loaded(col, order) IN
         \/ accountsFirst /\ PlatUserSave(table, c, filed)
         \/ /\ ~accountsFirst
            /\ users' = table /\ col' = c /\ account' = filed
            /\ UNCHANGED <<table, filed>> /\ broken' = FALSE
  /\ rest' = [t \in Threads |-> Idle]

(* After the first start: root, admin and their accounts. *)
FirstUsers ==
  [i \in Slot |-> CASE i = 0 -> [name |-> "root", priv |-> Administrator]
                    [] i = 1 -> [name |-> "admin", priv |-> Administrator]
                    [] OTHER -> Blank]
FirstAccounts ==
  [n \in Number |-> IF n \in {0, 1} THEN FirstUsers[n] ELSE Blank]

Init ==
  /\ users = FirstUsers /\ table = FirstUsers
  /\ account = FirstAccounts /\ filed = FirstAccounts
  /\ col = [members |-> <<0, 1>>, alive |-> {0, 1}, files |-> {0, 1},
            listed |-> {0, 1}, taken |-> {0, 1}, last |-> 0]
  /\ rest = [t \in Threads |-> Idle]
  /\ broken = FALSE

(* A request arrives ... *)
Request ==
  \/ \E i \in Slot, p \in Privs : SetUserAccess(i, p)
  \/ \E i \in Slot, n \in Names : SetUserName(i, n)
  \/ \E t \in Threads, n \in Names, p \in Privs : BeginSetUser(t, n, p)
  \/ \E t \in Threads, id \in Number : DeleteUser(t, id)
  \/ SaveRecords

(* ... and a web thread goes on with one. *)
GoOn ==
  \E t \in Threads : NewAccount(t) \/ NameUser(t) \/ FinishUser(t) \/ DeleteAccount(t)

Next ==
  \/ ~broken /\ Request
  \/ ~broken /\ GoOn
  \/ Restart

Spec == Init /\ [][Next]_vars
----------------------------------------------------------------------------
(* No account number is given to two members, and the allocator never      *)
(* hands out that of a member, with accounts deleted, objects lost and     *)
(* restarts in between.                                                    *)
AccountsNumbered == Numbered(col)

(* app_del_user takes exactly its user out of those get_user_cnt counts    *)
(* and keeps the others in order, for a full table too; it refuses root    *)
(* and admin.                                                              *)
Counted(u) == [i \in 1 .. UserCount(u) |-> u[i - 1]]
DeleteClosesGap ==
  [][\A t \in Threads, id \in Number : DeleteUser(t, id) =>
       LET i == id + 1 IN
         Counted(users') = IF 2 <= i /\ i < UserCount(users)
                           THEN [j \in 1 .. UserCount(users) - 1 |->
                                   IF j <= i THEN users[j - 1] ELSE users[j]]
                           ELSE Counted(users)]_vars

(* Whoever a request leaves among the users is in the table at every       *)
(* moment of its save, and so after a restart: when a delete that moves    *)
(* users down is cut between two rows, the table may have one of them      *)
(* twice, and misses none.                                                 *)
SaveLosesNobody ==
  [][\A i \in Slot : users[i] \in {users'[j] : j \in Slot} =>
       users[i] \in {table'[j] : j \in Slot}]_vars
----------------------------------------------------------------------------
(* What the source means a delete to do.                                   *)

(* Root and admin cannot be deleted. *)
FixedUsersStay == \A i \in {0, 1} : users[i].name # NoName
=============================================================================

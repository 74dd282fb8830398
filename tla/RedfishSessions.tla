--------------------------- MODULE RedfishSessions ---------------------------
(***************************************************************************)
(* Redfish sessions (class Session, libs/redfish/resource.cpp; timer in    *)
(* libs/redfish/util.cpp).  Every session has a task of its own: a timer   *)
(* that counts _remain_expires_time down once a second, and, when it finds *)
(* it at zero, a continuation that takes the session out of the collection.*)
(* Log-in and log-out are in the main program; the source says of the      *)
(* latter that it sets the remaining time (resource.cpp:681).              *)
(*                                                                         *)
(* No lock is taken: continuations and log-ins run between each other's    *)
(* steps.  A step that uses an object another has deleted, or an iterator  *)
(* into a vector that has moved in memory, is undefined behaviour: nothing *)
(* is claimed of what follows it up to the next restart.                   *)
(* A walk, an erase and the append of a log-in are one step each: where    *)
(* they run into each other nothing is claimed either.                     *)
(***************************************************************************)
EXTENDS RedfishCollection

CONSTANTS
  Timeout,  \* SessionTimeout of the session service, in seconds
  Width     \* 2^32, the remaining time is an unsigned int

ASSUME SessionsAssumption ==
  Timeout \in Nat /\ Width \in Nat /\ 1 <= Timeout /\ Timeout < Width

VARIABLES
  col,       \* the session collection
  left,      \* _remain_expires_time of each session
  task,      \* what the task of each session does next
  place,     \* where its walk found the session, the iterator
  loggedOut  \* history: sessions logged out and not yet gone

vars == <<col, left, task, place, loggedOut>>

Steps == {"none", "wait", "decrement", "expired",
          "found", "released", "destroyed", "erased", "undefined"}

(* Sessions whose continuation holds an iterator, and those whose object   *)
(* it has deleted while the file may still be there.                       *)
Holding == {n \in Number : task[n] \in {"found", "released", "destroyed"}}
Ending == {n \in Number : task[n] \in {"destroyed", "erased"}}

SessionsTypeOK ==
  /\ col \in Collection
  /\ left \in [Number -> 0 .. Width - 1]
  /\ task \in [Number -> Steps]
  /\ place \in [Number -> Nat]
  /\ loggedOut \subseteq Number
----------------------------------------------------------------------------
(* A client logs in; its session is stored now or by record_save_json.     *)
(* The vector may have to move.  The number may be one that a continuation *)
(* has released and not done with: then two sessions have it.              *)
Login ==
  /\ CanAllocate(col)
  /\ \E moved \in BOOLEAN :
       LET n == NextNumber(col)
           c == Joined(Registered(Allocated(col), n), n)
       IN /\ col' \in {c, Filed(c, n)}
          /\ left' = [left EXCEPT ![n] = Timeout]
          /\ task' = [m \in Number |->
                        IF m \in Holding /\ (moved \/ m = n) THEN "undefined"
                        ELSE IF m = n THEN "wait" ELSE task[m]]
  /\ UNCHANGED <<place, loggedOut>>

(* ... and logs out, once. *)
Logout(n) ==
  /\ n \in (Elements(col) \cap col.alive) \ loggedOut
  /\ left' = [left EXCEPT ![n] = 0]
  /\ loggedOut' = loggedOut \cup {n}
  /\ UNCHANGED <<col, task, place>>

(* timer: the test of the remaining time and its decrement are two steps,  *)
(* with a line of the log between them. *)
TimerTestMutant(n) ==
  /\ task[n] = "wait"
  /\ task' = [task EXCEPT ![n] = IF left[n] > 0 THEN "decrement" ELSE "none"]
  /\ UNCHANGED <<col, left, place, loggedOut>>
TimerTest(n) ==
  /\ task[n] = "wait"
  /\ task' = [task EXCEPT ![n] = IF left[n] > 0 THEN "decrement" ELSE "expired"]
  /\ UNCHANGED <<col, left, place, loggedOut>>

TimerDecrement(n) ==
  /\ task[n] = "decrement"
  /\ left' = [left EXCEPT ![n] = (@ + Width - 1) % Width]
  /\ task' = [task EXCEPT ![n] = "wait"]
  /\ UNCHANGED <<col, place, loggedOut>>
----------------------------------------------------------------------------
(* The continuation.                                                       *)

(* The walk compares the numbers of the members up to that of its session, *)
(* or of all.  If it does not find it, nothing is done.                    *)
Find(n) ==
  /\ task[n] = "expired"
  /\ LET seen == IF n \in Elements(col) THEN 1 .. PlaceOf(col, n) ELSE DOMAIN col.members IN
       IF \E i \in seen : col.members[i] \notin col.alive
       THEN task' = [task EXCEPT ![n] = "undefined"] /\ UNCHANGED place
       ELSE IF n \in Elements(col)
       THEN /\ place' = [place EXCEPT ![n] = PlaceOf(col, n)]
            /\ task' = [task EXCEPT ![n] = "found"]
       ELSE task' = [task EXCEPT ![n] = "none"] /\ UNCHANGED place
  /\ UNCHANGED <<col, left, loggedOut>>

(* Its number is released, ... *)
Release(n) ==
  /\ task[n] = "found"
  /\ col' = Released(col, n)
  /\ task' = [task EXCEPT ![n] = "released"]
  /\ UNCHANGED <<left, place, loggedOut>>

(* ... the object at the place deleted, which by now may be that of        *)
(* another session, whose task then works on a deleted object, ...         *)
DestroyMutant(n) ==
  /\ task[n] = "released"
  /\ task' = [task EXCEPT ![n] = "destroyed"]
  /\ UNCHANGED <<col, left, place, loggedOut>>
Destroy(n) ==
  /\ task[n] = "released"
  /\ IF place[n] \in DOMAIN col.members
     THEN LET m == col.members[place[n]] IN
            /\ col' = Destroyed(col, m)
            /\ task' = [task EXCEPT ![m] = IF m = n THEN "destroyed" ELSE "undefined"]
            /\ loggedOut' = loggedOut \ {m}
     ELSE /\ task' = [task EXCEPT ![n] = "undefined"]
          /\ UNCHANGED <<col, loggedOut>>
  /\ UNCHANGED <<left, place>>

(* ... the place erased, which also may be that of another, ... *)
Erase(n) ==
  /\ task[n] = "destroyed"
  /\ IF place[n] \in DOMAIN col.members
     THEN /\ col' = Erased(col, place[n])
          /\ task' = [task EXCEPT ![n] = IF col.members[place[n]] = n THEN "erased"
                                         ELSE "undefined"]
     ELSE task' = [task EXCEPT ![n] = "undefined"] /\ UNCHANGED col
  /\ place' = [place EXCEPT ![n] = 1]
  /\ UNCHANGED <<left, loggedOut>>

(* ... and the file removed. *)
RemoveFile(n) ==
  /\ task[n] = "erased"
  /\ col' = DeleteResource(col, n)
  /\ task' = [task EXCEPT ![n] = "none"]
  /\ UNCHANGED <<left, place, loggedOut>>
----------------------------------------------------------------------------
SaveRecords ==
  /\ col' = RecordSaved(col)
  /\ UNCHANGED <<left, task, place, loggedOut>>

(* After a restart every session on file has the whole time again and a    *)
(* new task.                                                               *)
Restart ==
  /\ \E order \in Orders(col.files) : col' = Loaded(col, order)
  /\ left' = [n \in Number |-> IF n \in col.files THEN Timeout ELSE 0]
  /\ task' = [n \in Number |-> IF n \in col.files THEN "wait" ELSE "none"]
  /\ loggedOut' = {}
  /\ place' = [n \in Number |-> 1]

SessionsInit ==
  /\ col = [members |-> <<>>, alive |-> {}, files |-> {}, listed |-> {},
            taken |-> {}, last |-> 0]
  /\ left = [n \in Number |-> 0]
  /\ task = [n \in Number |-> "none"]
  /\ place = [n \in Number |-> 1]
  /\ loggedOut = {}

TaskStep(n) ==
  \/ TimerTest(n) \/ TimerDecrement(n)
  \/ Find(n) \/ Release(n) \/ Destroy(n) \/ Erase(n) \/ RemoveFile(n)

Defined == \A n \in Number : task[n] # "undefined"

SessionsNext ==
  \/ /\ Defined
     /\ \/ Login \/ SaveRecords
        \/ \E n \in Number : Logout(n) \/ TaskStep(n)
  \/ Restart

(* The thread pool runs every task on. *)
SessionsFairness == \A n \in Number : WF_vars(Defined /\ TaskStep(n))

SessionsSpec == SessionsInit /\ [][SessionsNext]_vars /\ SessionsFairness
----------------------------------------------------------------------------
(* Whatever continuations, log-ins and stores run between each other's     *)
(* steps, as long as none was undefined: the members are what is           *)
(* registered, except one that is deleted and about to be erased; no two   *)
(* have the same number, and none has one that the allocator may give out, *)
(* except one that is about to be taken away.                              *)
OpenSessions ==
  Defined =>
    /\ \A i, j \in DOMAIN col.members : col.members[i] = col.members[j] => i = j
    /\ col.alive = {n \in Elements(col) : task[n] # "destroyed"}
    /\ \A n \in Elements(col) : n \in col.taken \/ task[n] \in {"released", "destroyed"}

(* A restart brings back no session that had ended, although it reads      *)
(* whatever file it finds: but one whose continuation it cut between the   *)
(* deletion of the object and the removal of the file.                     *)
OnlyCutRemovalsReturn ==
  [][Restart /\ Defined => col'.alive \ col.alive \subseteq Ending]_vars

(* Every session ends, logged out of or not, as long as the controller is  *)
(* not restarted again and again, each restart giving it its whole time,   *)
(* and no step was undefined.                                              *)
EverySessionEnds ==
  <>[][~Restart]_vars =>
    \A n \in Number : n \in col.alive ~> n \notin col.alive \/ ~Defined
----------------------------------------------------------------------------
(* What the source means a continuation to do (resource.cpp:725, 736).     *)

(* A session is deleted only when its own time ran out. *)
EndsOnlyWhenDue ==
  [][\A n \in col.alive \ col'.alive : left[n] = 0 \/ Restart]_vars
=============================================================================

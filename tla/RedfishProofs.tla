--------------------------- MODULE RedfishProofs ---------------------------
(***************************************************************************)
(* Proofs about sessions, virtual media and the entries of the log         *)
(* service, for any range of numbers, time-out and maximum of records.     *)
(***************************************************************************)
EXTENDS RedfishSessions, RedfishStore, RedfishCollectionProofs

(* A medium taken out at its place, with object, file and number. *)
LEMMA EjectedFacts ==
  ASSUME NEW c \in Collection, NEW n \in Elements(c), Distinct(c),
         NEW d, d = Ejected(c, n)
  PROVE  /\ d \in Collection /\ Distinct(d) /\ Elements(d) = Elements(c) \ {n}
         /\ d.alive = c.alive \ {n} /\ d.taken = c.taken \ {n}
         /\ d.files = c.files \ {n}
<1>. DEFINE p == PlaceOf(c, n)
            r == Destroyed(Released(c, n), n)
            e == Erased(r, p)
<1>1. n \in Number /\ p \in 1 .. Len(c.members) /\ c.members[p] = n
  BY PlaceIsPlace, MembersFacts
<1>2. /\ r \in Collection /\ r.members = c.members
      /\ r.alive = c.alive \ {n} /\ r.taken = c.taken \ {n} /\ r.files = c.files
  BY DEF Destroyed, Released, Collection
<1>3. Distinct(r) /\ Elements(r) = Elements(c)
  BY <1>2 DEF Distinct, Elements
<1>4. d = DeleteResource(e, n)
  BY DEF Ejected
<1>. HIDE DEF r, p
<1>5. /\ e \in Collection /\ Distinct(e) /\ Elements(e) = Elements(c) \ {n}
      /\ e = [r EXCEPT !.members = e.members]
  BY <1>1, <1>2, <1>3, ErasedFacts
<1>. HIDE DEF e
<1>6. /\ e.alive = r.alive /\ e.taken = r.taken /\ e.files = r.files
  BY <1>2, <1>5 DEF Collection
<1>7. d = [e EXCEPT !.files = e.files \ {n}]
  BY <1>2, <1>4, <1>6 DEF DeleteResource
<1>8. d \in Collection /\ d.members = e.members /\ d.alive = e.alive /\ d.taken = e.taken
      /\ d.files = e.files \ {n}
  BY <1>5, <1>7 DEF Collection
<1>9. Distinct(d) /\ Elements(d) = Elements(e)
  BY <1>5, <1>8 DEF Distinct, Elements
<1>. QED BY <1>2, <1>5, <1>6, <1>8, <1>9

LEMMA NoMembersFacts ==
  /\ NoMembers \in Collection /\ Distinct(NoMembers) /\ Elements(NoMembers) = {}
  /\ NoMembers.alive = {} /\ NoMembers.files = {} /\ NoMembers.taken = {}
BY NumberFacts DEF NoMembers, Collection, Distinct, Elements
----------------------------------------------------------------------------
(***************************************************************************)
(* Sessions.  As long as no step was undefined, what a continuation has    *)
(* done so far is what its task says: the number is out of numset from     *)
(* "released" on, the object out of the registry from "destroyed" on, and  *)
(* a file without an object belongs to a task that is about to remove it.  *)
(***************************************************************************)
InStep ==
  /\ Distinct(col)
  /\ col.alive = {n \in Elements(col) : task[n] # "destroyed"}
  /\ \A n \in Elements(col) : n \in col.taken \/ task[n] \in {"released", "destroyed"}
  /\ \A n \in col.files : n \in col.alive \/ task[n] \in {"destroyed", "erased"}

SInv == SessionsTypeOK /\ (Defined => InStep)

LEMMA SInvOpen == SInv => OpenSessions
BY DEF SInv, InStep, OpenSessions, Distinct

LEMMA SInvInit == SessionsInit => SInv
<1>. SUFFICES ASSUME SessionsInit PROVE SInv
  OBVIOUS
<1>1. col = NoMembers
  BY DEF SessionsInit, NoMembers
<1>2. /\ left = [n \in Number |-> 0] /\ task = [n \in Number |-> "none"]
      /\ place = [n \in Number |-> 1] /\ loggedOut = {}
  BY DEF SessionsInit
<1>3. 0 \in 0 .. Width - 1 /\ 1 \in Nat /\ "none" \in Steps
  BY SessionsAssumption DEF Steps
<1>4. SessionsTypeOK
  BY <1>1, <1>2, <1>3, NoMembersFacts DEF SessionsTypeOK
<1>5. InStep
  BY <1>1, NoMembersFacts DEF InStep
<1>. QED BY <1>4, <1>5 DEF SInv

LEMMA SInvLogin == SInv /\ Defined /\ Login => SInv'
<1>. SUFFICES ASSUME SInv, Defined, Login PROVE SInv'
  OBVIOUS
<1>. DEFINE n == NextNumber(col)
            a == Allocated(col)
<1>1. PICK moved \in BOOLEAN :
        /\ col' \in {Joined(Registered(a, n), n), Filed(Joined(Registered(a, n), n), n)}
        /\ left' = [left EXCEPT ![n] = Timeout]
        /\ task' = [m \in Number |->
                      IF m \in Holding /\ (moved \/ m = n) THEN "undefined"
                      ELSE IF m = n THEN "wait" ELSE task[m]]
  BY DEF Login
<1>2. CanAllocate(col) /\ col \in Collection /\ UNCHANGED <<place, loggedOut>>
  BY DEF Login, SInv, SessionsTypeOK
<1>3. n \in Number /\ n \notin col.taken
  BY <1>2, NextNumberIsFree
<1>4. /\ a \in Collection /\ Elements(a) = Elements(col)
      /\ Distinct(col) => Distinct(a)
      /\ a.alive = col.alive /\ a.files = col.files /\ a.taken = col.taken \cup {n}
  BY <1>2, AllocatedFacts
<1>. HIDE DEF n, a
<1>5. /\ col' \in Collection /\ Elements(col') = Elements(a) \cup {n}
      /\ Distinct(a) /\ n \notin Elements(a) => Distinct(col')
      /\ col'.alive = a.alive \cup {n} /\ col'.taken = a.taken
      /\ col'.files \subseteq a.files \cup {n}
  BY <1>1, <1>3, <1>4, MadeFacts
<1>6. SessionsTypeOK'
  <2>1. Timeout \in 0 .. Width - 1
    BY SessionsAssumption
  <2>2. task' \in [Number -> Steps]
    BY <1>1 DEF SInv, SessionsTypeOK, Steps
  <2>. QED BY <1>1, <1>2, <1>5, <2>1, <2>2 DEF SInv, SessionsTypeOK
<1>7. ASSUME Defined' PROVE InStep'
  <2>1. \A m \in Number : task'[m] # "undefined"
    BY <1>7 DEF Defined
  <2>2. \A m \in Number : task'[m] = IF m = n THEN "wait" ELSE task[m]
    BY <1>1, <2>1
  <2>3. n \notin Holding
    BY <1>1, <1>3, <2>1
  <2>4. n \notin Elements(col)
    BY <1>3, <2>3 DEF SInv, InStep, Holding
  <2>5. Elements(col) \subseteq Number /\ col.files \subseteq Number
    BY <1>2, MembersFacts DEF Collection
  <2>. QED BY <1>3, <1>4, <1>5, <2>2, <2>4, <2>5 DEF SInv, InStep
<1>. QED BY <1>6, <1>7 DEF SInv

(* Steps that leave the collection, and change one task in a way InStep    *)
(* does not tell apart or to an undefined one.                             *)
LEMMA SInvQuiet ==
  ASSUME SInv, Defined, NEW n \in Number,
         TimerTest(n) \/ TimerDecrement(n) \/ Find(n) \/ Logout(n)
  PROVE  SInv'
<1>1. (left[n] + Width - 1) % Width \in 0 .. Width - 1 /\ 0 \in 0 .. Width - 1
  BY SessionsAssumption DEF SInv, SessionsTypeOK
<1>2. n \in Elements(col) => PlaceOf(col, n) \in Nat
  BY PlaceIsPlace DEF SInv, SessionsTypeOK
<1>3. SessionsTypeOK' /\ UNCHANGED col
  <2>1. CASE TimerTest(n)
    BY <2>1 DEF TimerTest, SInv, SessionsTypeOK, Steps
  <2>2. CASE TimerDecrement(n)
    BY <1>1, <2>2 DEF TimerDecrement, SInv, SessionsTypeOK, Steps
  <2>3. CASE Find(n)
    BY <1>2, <2>3 DEF Find, SInv, SessionsTypeOK, Steps
  <2>4. CASE Logout(n)
    BY <1>1, <2>4 DEF Logout, SInv, SessionsTypeOK
  <2>. QED BY <2>1, <2>2, <2>3, <2>4
<1>4. /\ task[n] \in {"wait", "decrement", "expired"}
      /\ \E s \in {"wait", "decrement", "expired", "found", "none", "undefined"} :
           task' = [task EXCEPT ![n] = s]
      \/ UNCHANGED task
  BY DEF TimerTest, TimerDecrement, Find, Logout
<1>5. task \in [Number -> Steps] /\ Elements(col) \subseteq Number /\ col.files \subseteq Number
  BY MembersFacts DEF SInv, SessionsTypeOK, Collection
<1>6. \A m \in Number :
        /\ task'[m] = "destroyed" <=> task[m] = "destroyed"
        /\ task'[m] = "released" <=> task[m] = "released"
        /\ task'[m] = "erased" <=> task[m] = "erased"
  BY <1>4, <1>5
<1>7. InStep'
  BY <1>3, <1>5, <1>6 DEF SInv, InStep, Distinct, Elements
<1>. QED BY <1>3, <1>7 DEF SInv

(* The steps of a continuation.  Where its place still is that of its      *)
(* session, they keep collection and tasks in step; where it is not, they  *)
(* leave an undefined task behind.                                         *)
LEMMA SInvRelease ==
  ASSUME SInv, Defined, NEW n \in Number, Release(n) \/ RemoveFile(n)
  PROVE  SInv'
<1>1. /\ col \in Collection /\ task \in [Number -> Steps]
      /\ Elements(col) \subseteq Number /\ col.files \subseteq Number
  BY MembersFacts DEF SInv, SessionsTypeOK, Collection
<1>2. CASE Release(n)
  <2>1. /\ col' \in Collection /\ col'.members = col.members /\ col'.alive = col.alive
        /\ col'.files = col.files /\ col'.taken = col.taken \ {n}
    BY <1>1, <1>2 DEF Release, Released, Collection
  <2>2. task[n] = "found" /\ task' = [task EXCEPT ![n] = "released"]
        /\ UNCHANGED <<left, place, loggedOut>>
    BY <1>2 DEF Release
  <2>3. SessionsTypeOK'
    BY <2>1, <2>2 DEF SInv, SessionsTypeOK, Steps
  <2>4. Elements(col') = Elements(col) /\ (Distinct(col) => Distinct(col'))
    BY <2>1 DEF Elements, Distinct
  <2>5. InStep'
    BY <1>1, <2>1, <2>2, <2>4 DEF SInv, InStep
  <2>. QED BY <2>3, <2>5 DEF SInv
<1>3. CASE RemoveFile(n)
  <2>1. /\ col' \in Collection /\ col'.members = col.members /\ col'.alive = col.alive
        /\ col'.taken = col.taken
        /\ col'.files = IF n \in col.alive THEN col.files ELSE col.files \ {n}
    BY <1>1, <1>3 DEF RemoveFile, DeleteResource, Collection
  <2>2. task[n] = "erased" /\ task' = [task EXCEPT ![n] = "none"]
        /\ UNCHANGED <<left, place, loggedOut>>
    BY <1>3 DEF RemoveFile
  <2>3. SessionsTypeOK'
    BY <2>1, <2>2 DEF SInv, SessionsTypeOK, Steps
  <2>4. Elements(col') = Elements(col) /\ (Distinct(col) => Distinct(col'))
    BY <2>1 DEF Elements, Distinct
  <2>5. InStep'
    BY <1>1, <2>1, <2>2, <2>4 DEF SInv, InStep
  <2>. QED BY <2>3, <2>5 DEF SInv
<1>. QED BY <1>2, <1>3

LEMMA SInvDestroy ==
  ASSUME SInv, Defined, NEW n \in Number, Destroy(n)
  PROVE  SInv'
<1>1. /\ col \in Collection /\ task \in [Number -> Steps] /\ task[n] = "released"
      /\ Elements(col) \subseteq Number /\ col.files \subseteq Number
      /\ UNCHANGED <<left, place>>
  BY MembersFacts DEF SInv, SessionsTypeOK, Collection, Destroy
<1>2. CASE place[n] \in DOMAIN col.members
  <2>. DEFINE m == col.members[place[n]]
  <2>1. m \in Elements(col) /\ m \in Number
    BY <1>1, <1>2 DEF Elements
  <2>2. /\ col' = Destroyed(col, m) /\ loggedOut' = loggedOut \ {m}
        /\ task' = [task EXCEPT ![m] = IF m = n THEN "destroyed" ELSE "undefined"]
    BY <1>2 DEF Destroy
  <2>. HIDE DEF m
  <2>3. /\ col' \in Collection /\ col'.members = col.members /\ col'.taken = col.taken
        /\ col'.files = col.files /\ col'.alive = col.alive \ {m}
    BY <1>1, <2>2 DEF Destroyed, Collection
  <2>4. SessionsTypeOK'
    BY <1>1, <2>2, <2>3 DEF SInv, SessionsTypeOK, Steps
  <2>5. Elements(col') = Elements(col) /\ (Distinct(col) => Distinct(col'))
    BY <2>3 DEF Elements, Distinct
  <2>6. CASE m = n
    <3>1. InStep'
      BY <1>1, <2>1, <2>2, <2>3, <2>5, <2>6 DEF SInv, InStep
    <3>. QED BY <2>4, <3>1 DEF SInv
  <2>7. CASE m # n
    <3>1. ~Defined'
      BY <1>1, <2>1, <2>2, <2>7 DEF Defined
    <3>. QED BY <2>4, <3>1 DEF SInv
  <2>. QED BY <2>6, <2>7
<1>3. CASE place[n] \notin DOMAIN col.members
  <2>1. task' = [task EXCEPT ![n] = "undefined"] /\ UNCHANGED <<col, loggedOut>>
    BY <1>3 DEF Destroy
  <2>2. ~Defined'
    BY <1>1, <2>1 DEF Defined
  <2>. QED BY <1>1, <2>1, <2>2 DEF SInv, SessionsTypeOK, Steps
<1>. QED BY <1>2, <1>3

LEMMA SInvErase ==
  ASSUME SInv, Defined, NEW n \in Number, Erase(n)
  PROVE  SInv'
<1>1. /\ col \in Collection /\ task \in [Number -> Steps] /\ task[n] = "destroyed"
      /\ Elements(col) \subseteq Number /\ col.files \subseteq Number
      /\ DOMAIN col.members = 1 .. Len(col.members)
      /\ UNCHANGED <<left, loggedOut>> /\ place' = [place EXCEPT ![n] = 1]
  BY MembersFacts DEF SInv, SessionsTypeOK, Collection, Erase
<1>2. CASE place[n] \in DOMAIN col.members
  <2>. DEFINE p == place[n]
  <2>1. /\ col' = Erased(col, p)
        /\ task' = [task EXCEPT ![n] = IF col.members[p] = n THEN "erased" ELSE "undefined"]
    BY <1>2 DEF Erase
  <2>2. p \in 1 .. Len(col.members)
    BY <1>1, <1>2
  <2>. HIDE DEF p
  <2>3. /\ col' \in Collection /\ col' = [col EXCEPT !.members = col'.members]
        /\ Distinct(col) => Distinct(col') /\ Elements(col') = Elements(col) \ {col.members[p]}
    BY <1>1, <2>1, <2>2, ErasedFacts
  <2>4. col'.alive = col.alive /\ col'.files = col.files /\ col'.taken = col.taken
    BY <1>1, <2>3 DEF Collection
  <2>5. SessionsTypeOK'
    BY <1>1, <2>1, <2>3 DEF SInv, SessionsTypeOK, Steps
  <2>6. CASE col.members[p] = n
    <3>1. Distinct(col') /\ Elements(col') = Elements(col) \ {n}
      BY <2>3, <2>6 DEF SInv, InStep
    <3>2. InStep'
      BY <1>1, <2>1, <2>4, <2>6, <3>1 DEF SInv, InStep
    <3>. QED BY <2>5, <3>2 DEF SInv
  <2>7. CASE col.members[p] # n
    <3>1. ~Defined'
      BY <1>1, <2>1, <2>7 DEF Defined
    <3>. QED BY <2>5, <3>1 DEF SInv
  <2>. QED BY <2>6, <2>7
<1>3. CASE place[n] \notin DOMAIN col.members
  <2>1. task' = [task EXCEPT ![n] = "undefined"] /\ UNCHANGED col
    BY <1>3 DEF Erase
  <2>2. ~Defined'
    BY <1>1, <2>1 DEF Defined
  <2>. QED BY <1>1, <2>1, <2>2 DEF SInv, SessionsTypeOK, Steps
<1>. QED BY <1>2, <1>3

LEMMA SInvSave == SInv /\ Defined /\ SaveRecords => SInv'
<1>. SUFFICES ASSUME SInv, Defined, SaveRecords PROVE SInv'
  OBVIOUS
<1>1. /\ col' = RecordSaved(col) /\ col \in Collection
      /\ UNCHANGED <<left, task, place, loggedOut>>
  BY DEF SaveRecords, SInv, SessionsTypeOK
<1>2. /\ col' \in Collection /\ Elements(col') = Elements(col)
      /\ Distinct(col) => Distinct(col')
      /\ col'.alive = col.alive /\ col'.taken = col.taken
  BY <1>1, SavedFacts
<1>3. col'.files \subseteq col.files \cup col.alive
  BY <1>1 DEF RecordSaved, Collection
<1>. QED BY <1>1, <1>2, <1>3 DEF SInv, SessionsTypeOK, InStep, Defined

(* What a restart finds on file is what was registered, or what a task was *)
(* about to remove; it starts from a collection in step again, also after  *)
(* an undefined step.                                                      *)
LEMMA SInvRestart ==
  ASSUME SInv, Restart
  PROVE  SInv' /\ (Defined => col'.alive \ col.alive \subseteq Ending)
<1>1. PICK order \in Orders(col.files) : col' = Loaded(col, order)
  BY DEF Restart
<1>2. col' \in Collection /\ Elements(col') = col.files /\ Distinct(col')
  BY <1>1, LoadedFacts DEF SInv, SessionsTypeOK
<1>3. col'.alive = col.files /\ col'.files = col.files /\ col'.taken = col.files
  BY <1>1 DEF Loaded
<1>4. Timeout \in 0 .. Width - 1 /\ 0 \in 0 .. Width - 1 /\ col.files \subseteq Number
  BY SessionsAssumption DEF SInv, SessionsTypeOK, Collection
<1>5. /\ left' = [n \in Number |-> IF n \in col.files THEN Timeout ELSE 0]
      /\ task' = [n \in Number |-> IF n \in col.files THEN "wait" ELSE "none"]
      /\ loggedOut' = {} /\ place' = [n \in Number |-> 1]
  BY DEF Restart
<1>6. SessionsTypeOK'
  BY <1>2, <1>4, <1>5 DEF SessionsTypeOK, Steps
<1>7. InStep'
  BY <1>2, <1>3, <1>4, <1>5 DEF InStep
<1>8. Defined => col'.alive \ col.alive \subseteq Ending
  BY <1>3, <1>4 DEF SInv, InStep, Ending
<1>. QED BY <1>6, <1>7, <1>8 DEF SInv

LEMMA SInvStep ==
  ASSUME SInv, [SessionsNext]_vars
  PROVE  SInv'
<1>1. ASSUME Defined, NEW n \in Number, TaskStep(n) \/ Logout(n)
      PROVE  SInv'
  BY <1>1, SInvQuiet, SInvRelease, SInvDestroy, SInvErase DEF TaskStep
<1>2. CASE UNCHANGED vars
  BY <1>2 DEF vars, SInv, SessionsTypeOK, InStep, Defined
<1>. QED BY <1>1, <1>2, SInvLogin, SInvSave, SInvRestart DEF SessionsNext

(* Members, objects and numbers of open sessions stay in step through      *)
(* log-ins, the steps of continuations in any order, stores and restarts   *)
(* (Session::start), as long as no step was undefined.                     *)
THEOREM SessionsStayOpen == SessionsSpec => []OpenSessions
<1>. QED BY SInvOpen, SInvInit, SInvStep, PTL DEF SessionsSpec

(* A session that ended comes back with a restart only if the restart cut  *)
(* its continuation short between the deletion of the object and the       *)
(* removal of the file (resource.cpp:734-738).                             *)
THEOREM EndedStayAway == SessionsSpec => OnlyCutRemovalsReturn
<1>1. SInv /\ [SessionsNext]_vars =>
        [Restart /\ Defined => col'.alive \ col.alive \subseteq Ending]_vars
  BY SInvRestart
<1>. QED BY <1>1, SInvInit, SInvStep, PTL DEF SessionsSpec, OnlyCutRemovalsReturn
----------------------------------------------------------------------------
(***************************************************************************)
(* Virtual media and the log service.  Of the media every object has its   *)
(* number, even those that are members no more; of the entries the counter *)
(* is within the numbers also where ClearLog has not set it.               *)
(***************************************************************************)
MediaInv ==
  /\ media \in Collection /\ Distinct(media) /\ Elements(media) \subseteq media.alive
  /\ media.alive \subseteq media.taken /\ media.files \subseteq media.alive
  /\ uploading \subseteq media.taken /\ uploading \subseteq Number
  /\ uploading \cap media.alive = {}

EntriesInv ==
  /\ entries \in Collection /\ entries.files \subseteq entries.alive
  /\ count \in Number
  /\ CountFollowsEntries

LEMMA MediaInvInit == StoreInit => MediaInv
<1>. SUFFICES ASSUME StoreInit PROVE MediaInv
  OBVIOUS
<1>1. media = NoMembers /\ uploading = {}
  BY DEF StoreInit
<1>. QED BY <1>1, NoMembersFacts DEF MediaInv

LEMMA EntriesInvInit == StoreInit => EntriesInv
<1>. SUFFICES ASSUME StoreInit PROVE EntriesInv
  OBVIOUS
<1>1. entries = NoMembers /\ count \in Number /\ counted = FALSE
  BY StoreAssumption DEF StoreInit
<1>. QED BY <1>1, NoMembersFacts DEF EntriesInv, CountFollowsEntries

LEMMA MediaInvBegin == MediaInv /\ BeginUpload => MediaInv'
<1>. SUFFICES ASSUME MediaInv, BeginUpload PROVE MediaInv'
  OBVIOUS
<1>. DEFINE n == NextNumber(media)
<1>1. /\ CanAllocate(media) /\ media \in Collection /\ media' = Allocated(media)
      /\ uploading' = uploading \cup {n}
  BY DEF BeginUpload, MediaInv
<1>2. n \in Number /\ n \notin media.taken
  BY <1>1, NextNumberIsFree
<1>3. /\ media' \in Collection /\ Elements(media') = Elements(media)
      /\ Distinct(media) => Distinct(media')
      /\ media'.alive = media.alive /\ media'.files = media.files
      /\ media'.taken = media.taken \cup {n}
  BY <1>1, AllocatedFacts
<1>. HIDE DEF n
<1>. QED BY <1>1, <1>2, <1>3 DEF MediaInv

LEMMA MediaInvEnd == ASSUME MediaInv, NEW n \in Number, EndUpload(n) PROVE MediaInv'
<1>1. /\ n \in uploading /\ uploading' = uploading \ {n} /\ media \in Collection
      /\ media' = Filed(Joined(Registered(media, n), n), n)
  BY DEF EndUpload, MediaInv
<1>2. /\ media' \in Collection /\ Elements(media') = Elements(media) \cup {n}
      /\ Distinct(media) /\ n \notin Elements(media) => Distinct(media')
      /\ media'.alive = media.alive \cup {n} /\ media'.taken = media.taken
      /\ media'.files \subseteq media.files \cup {n}
  BY <1>1, MadeFacts
<1>. QED BY <1>1, <1>2 DEF MediaInv

LEMMA MediaInvEject == ASSUME MediaInv, NEW n \in Number, EjectMedia(n) PROVE MediaInv'
<1>1. CASE n \in Elements(media)
  <2>1. n \in media.alive /\ media' = Ejected(media, n) /\ uploading' = uploading
    BY <1>1 DEF EjectMedia
  <2>2. /\ media' \in Collection /\ Distinct(media') /\ Elements(media') = Elements(media) \ {n}
        /\ media'.alive = media.alive \ {n} /\ media'.taken = media.taken \ {n}
        /\ media'.files = media.files \ {n}
    BY <1>1, <2>1, EjectedFacts DEF MediaInv
  <2>. QED BY <2>1, <2>2 DEF MediaInv
<1>2. CASE n \notin Elements(media)
  BY <1>2 DEF EjectMedia, MediaInv
<1>. QED BY <1>1, <1>2

LEMMA MediaInvDelete ==
  ASSUME MediaInv, (\E n \in Number : DelUsb(n)) \/ DelUsbPermanent
  PROVE  MediaInv'
<1>1. ASSUME NEW n \in Number, DelUsb(n) PROVE MediaInv'
  <2>1. n \in media.alive /\ media' = [media EXCEPT !.files = @ \cup {n}] /\ uploading' = uploading
    BY <1>1 DEF DelUsb, Filed
  <2>2. /\ media' \in Collection /\ media'.members = media.members
        /\ media'.alive = media.alive /\ media'.taken = media.taken
        /\ media'.files = media.files \cup {n}
    BY <2>1 DEF MediaInv, Collection
  <2>. QED BY <2>1, <2>2 DEF MediaInv, Distinct, Elements
<1>2. CASE DelUsbPermanent
  <2>1. /\ media' = [media EXCEPT !.files = @ \ Elements(media), !.members = <<>>]
        /\ uploading' = uploading /\ media \in Collection
    BY <1>2 DEF DelUsbPermanent, MediaInv
  <2>. DEFINE E == Elements(media)
  <2>2. media' = [media EXCEPT !.files = media.files \ E, !.members = <<>>]
    BY <2>1
  <2>. HIDE DEF E
  <2>3. /\ media' \in Collection /\ media'.members = <<>> /\ media'.alive = media.alive
        /\ media'.taken = media.taken /\ media'.files \subseteq media.files
    <3>. DEFINE none == <<>>
    <3>1. none \in Seq(Number)
      OBVIOUS
    <3>2. media' = [media EXCEPT !.files = media.files \ E, !.members = none]
      BY <2>2
    <3>. HIDE DEF none
    <3>3. /\ media' \in Collection /\ media'.members = none /\ media'.alive = media.alive
          /\ media'.taken = media.taken /\ media'.files \subseteq media.files
      BY <2>1, <3>1, <3>2 DEF Collection
    <3>. QED BY <3>3 DEF none
  <2>4. Elements(media') = {} /\ Distinct(media')
    BY <2>3 DEF Elements, Distinct
  <2>. QED BY <2>1, <2>3, <2>4 DEF MediaInv
<1>. QED BY <1>1, <1>2

LEMMA EntriesInvNew == EntriesInv /\ NewLogEntry => EntriesInv'
<1>. SUFFICES ASSUME EntriesInv, NewLogEntry PROVE EntriesInv'
  OBVIOUS
<1>1. /\ count <= MaxRecords /\ count \in Number /\ entries \in Collection
      /\ entries' = Joined(Registered(entries, count), count)
      /\ count' = count + 1 /\ counted' = counted
  BY DEF NewLogEntry, EntriesInv
<1>2. /\ entries' \in Collection /\ Elements(entries') = Elements(entries) \cup {count}
      /\ entries'.alive = entries.alive \cup {count} /\ entries'.files = entries.files
      /\ Len(entries'.members) = Len(entries.members) + 1
  BY <1>1, MadeFacts
<1>3. count' \in Number /\ count' <= MaxRecords + 1 /\ count \in Nat
  BY <1>1, NumMaxAssumption, StoreAssumption DEF Number
<1>4. (0 .. count - 1) \cup {count} = 0 .. count' - 1
  BY <1>1, <1>3
<1>. QED BY <1>1, <1>2, <1>3, <1>4 DEF EntriesInv, CountFollowsEntries

LEMMA EntriesInvClear == EntriesInv /\ ClearLog => EntriesInv'
<1>. SUFFICES ASSUME EntriesInv, ClearLog PROVE EntriesInv'
  OBVIOUS
<1>. DEFINE E == Elements(entries)
<1>1. /\ entries' = [entries EXCEPT !.members = <<>>, !.alive = @ \ E, !.files = @ \ E]
      /\ count' = 0 /\ entries \in Collection
  BY DEF ClearLog, EntriesInv
<1>. HIDE DEF E
<1>2. /\ entries' \in Collection /\ entries'.members = <<>>
      /\ entries'.alive = entries.alive \ E /\ entries'.files = entries.files \ E
  <2>. DEFINE none == <<>>
  <2>1. none \in Seq(Number)
    OBVIOUS
  <2>2. entries' = [entries EXCEPT !.members = none, !.alive = entries.alive \ E,
                                   !.files = entries.files \ E]
    BY <1>1
  <2>. HIDE DEF none
  <2>3. /\ entries' \in Collection /\ entries'.members = none
        /\ entries'.alive = entries.alive \ E /\ entries'.files = entries.files \ E
    BY <1>1, <2>1, <2>2 DEF Collection
  <2>. QED BY <2>3 DEF none
<1>3. Elements(entries') = {} /\ 0 .. count' - 1 = {} /\ Len(entries'.members) = 0
  BY <1>1, <1>2 DEF Elements
<1>. QED BY <1>1, <1>2, <1>3, NumberFacts, StoreAssumption DEF EntriesInv, CountFollowsEntries

(* A store, which is where nothing that is gone stays behind. *)
LEMMA StoreSaves ==
  ASSUME MediaInv, EntriesInv, SaveStore
  PROVE  /\ MediaInv' /\ EntriesInv'
         /\ media'.files = media'.alive /\ entries'.files = entries'.alive
<1>1. /\ media' = RecordSaved(media) /\ entries' = RecordSaved(entries)
      /\ media \in Collection /\ entries \in Collection
      /\ UNCHANGED <<uploading, count, counted>>
  BY DEF SaveStore, MediaInv, EntriesInv
<1>2. /\ media' \in Collection /\ Elements(media') = Elements(media)
      /\ Distinct(media) => Distinct(media')
      /\ media'.alive = media.alive /\ media'.taken = media.taken
      /\ media.files \subseteq media.alive => media'.files = media.alive
  BY <1>1, SavedFacts
<1>3. /\ entries' \in Collection /\ Elements(entries') = Elements(entries)
      /\ entries'.members = entries.members /\ entries'.alive = entries.alive
      /\ entries.files \subseteq entries.alive => entries'.files = entries.alive
  BY <1>1, SavedFacts
<1>. QED BY <1>1, <1>2, <1>3 DEF MediaInv, EntriesInv, CountFollowsEntries

LEMMA StoreRestarts ==
  ASSUME MediaInv, EntriesInv, RestartStore
  PROVE  MediaInv' /\ EntriesInv'
<1>1. PICK o \in Orders(media.files) : media' = Loaded(media, o)
  BY DEF RestartStore
<1>2. PICK p \in Orders(entries.files) : entries' = Loaded(entries, p)
  BY DEF RestartStore
<1>3. uploading' = {} /\ count' \in Number /\ counted' = FALSE
  BY StoreAssumption DEF RestartStore
<1>4. media' \in Collection /\ Elements(media') = media.files /\ Distinct(media')
  BY <1>1, LoadedFacts DEF MediaInv
<1>5. media'.alive = media.files /\ media'.files = media.files /\ media'.taken = media.files
  BY <1>1 DEF Loaded
<1>6. entries' \in Collection
  BY <1>2, LoadedFacts DEF EntriesInv
<1>7. entries'.alive = entries.files /\ entries'.files = entries.files
  BY <1>2 DEF Loaded
<1>. QED BY <1>3, <1>4, <1>5, <1>6, <1>7 DEF MediaInv, EntriesInv, CountFollowsEntries

LEMMA StoreInvStep ==
  ASSUME MediaInv, EntriesInv, [StoreNext]_storeVars
  PROVE  MediaInv' /\ EntriesInv'
<1>1. ASSUME UNCHANGED logVars PROVE EntriesInv'
  BY <1>1 DEF logVars, EntriesInv, CountFollowsEntries
<1>2. ASSUME UNCHANGED mediaVars PROVE MediaInv'
  BY <1>2 DEF mediaVars, MediaInv
<1>3. CASE MediaNext
  <2>1. UNCHANGED logVars
    BY <1>3 DEF MediaNext, BeginUpload, DelUsbPermanent, EndUpload, EjectMedia, DelUsb, logVars
  <2>2. MediaInv'
    BY <1>3, MediaInvBegin, MediaInvEnd, MediaInvEject, MediaInvDelete DEF MediaNext
  <2>. QED BY <1>1, <2>1, <2>2
<1>4. CASE NewLogEntry \/ ClearLog
  <2>1. UNCHANGED mediaVars
    BY <1>4 DEF NewLogEntry, ClearLog
  <2>. QED BY <1>2, <1>4, <2>1, EntriesInvNew, EntriesInvClear
<1>5. CASE SaveStore
  BY <1>5, StoreSaves
<1>6. CASE RestartStore
  BY <1>6, StoreRestarts
<1>7. CASE UNCHANGED storeVars
  BY <1>1, <1>2, <1>7 DEF storeVars, logVars, mediaVars
<1>. QED BY <1>3, <1>4, <1>5, <1>6, <1>7 DEF StoreNext

(* No number is given out that a medium or an upload under way has, in     *)
(* whatever order uploads end and media are ejected and deleted.           *)
THEOREM MediaStayNumbered == StoreSpec => []MediaNumbered
<1>1. MediaInv => MediaNumbered
  BY DEF MediaInv, MediaNumbered, Numbered, Distinct
<1>. QED BY <1>1, MediaInvInit, EntriesInvInit, StoreInvStep, PTL DEF StoreSpec

(* Once ClearLog has set the counter, entries are numbered without a gap   *)
(* and are at most one more than the maximum (new_log_entry).              *)
THEOREM CountAlwaysFollows == StoreSpec => []CountFollowsEntries
<1>1. EntriesInv => CountFollowsEntries
  BY DEF EntriesInv
<1>. QED BY <1>1, MediaInvInit, EntriesInvInit, StoreInvStep, PTL DEF StoreSpec

(* record_save_json leaves the files of what is registered and no others.  *)
THEOREM SavesMatchRegistry == StoreSpec => SaveMatchesRegistry
<1>1. MediaInv /\ EntriesInv /\ [StoreNext]_storeVars =>
        [SaveStore => /\ media'.files = media'.alive
                      /\ entries'.files = entries'.alive]_storeVars
  BY StoreSaves
<1>. QED BY <1>1, MediaInvInit, EntriesInvInit, StoreInvStep, PTL DEF StoreSpec, SaveMatchesRegistry
=============================================================================

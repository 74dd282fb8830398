---------------------------- MODULE RedfishStore ----------------------------
(***************************************************************************)
(* Two collections of the Redfish tree and the store they share: the       *)
(* virtual media that the web page uploads, ejects and deletes             *)
(* (libs/web/rest_post.cpp, rest_delete.cpp, libs/redfish/resource.cpp),   *)
(* and the entries of a log service (resource.cpp).  Both are written and  *)
(* read back by record_save_json and record_load_json.                     *)
(***************************************************************************)
EXTENDS RedfishCollection

CONSTANTS
  MaxRecords, \* MaxNumberOfRecords of the log service
  Leftover    \* the values record_count may be found with in a new object

ASSUME StoreAssumption ==
  /\ MaxRecords \in Nat /\ MaxRecords + 1 <= NumMax
  /\ Leftover # {} /\ Leftover \subseteq Number

VARIABLES
  media,     \* the virtual media
  uploading, \* numbers of uploads that are under way
  entries,   \* the entries of the log service, by record number
  count,     \* record_count
  counted,   \* history: has ClearLog set record_count in this object?
  broken     \* a handler has followed an iterator past the end

storeVars == <<media, uploading, entries, count, counted, broken>>
logVars == <<entries, count, counted>>
mediaVars == <<media, uploading>>
----------------------------------------------------------------------------
(* Virtual media.                                                          *)

(* Set_Usb_upload takes a number, waits for the body of the request ... *)
BeginUpload ==
  /\ CanAllocate(media)
  /\ media' = Allocated(media)
  /\ uploading' = uploading \cup {NextNumber(media)}
  /\ UNCHANGED <<logVars, broken>>

(* ... and then makes the medium. *)
EndUpload(n) ==
  /\ n \in uploading
  /\ media' = Filed(Joined(Registered(media, n), n), n)
  /\ uploading' = uploading \ {n}
  /\ UNCHANGED <<logVars, broken>>

EjectedMutant(c, n) == Erased(Destroyed(Released(c, n), n), PlaceOf(c, n))
Ejected(c, n) ==
  DeleteResource(Erased(Destroyed(Released(c, n), n), PlaceOf(c, n)), n)

(* EjectMedia, once the unmount succeeded.  A medium that is registered    *)
(* but not a member is not found, and the end of the vector is deleted.    *)
EjectMedia(n) ==
  /\ n \in media.alive
  /\ IF n \in Elements(media)
     THEN media' = Ejected(media, n) /\ UNCHANGED broken
     ELSE broken' = TRUE /\ UNCHANGED media
  /\ UNCHANGED <<uploading, logVars>>

(* Del_Usb: detaches the medium and stores it. *)
DelUsb(n) ==
  /\ n \in media.alive
  /\ media' = Filed(media, n)
  /\ UNCHANGED <<uploading, logVars, broken>>

(* Del_Usb_permanent: files and members go, objects and numbers stay. *)
DelUsbPermanentMutant ==
  /\ media' = [media EXCEPT !.files = @ \ Elements(media), !.members = <<>>,
                            !.taken = @ \ Elements(media)]
  /\ UNCHANGED <<uploading, logVars, broken>>
DelUsbPermanent ==
  /\ media' = [media EXCEPT !.files = @ \ Elements(media), !.members = <<>>]
  /\ UNCHANGED <<uploading, logVars, broken>>
----------------------------------------------------------------------------
(* Log service.                                                            *)

NewLogEntryMutant ==
  /\ entries' = Joined(Registered(entries, count), count)
  /\ count' = IF count > MaxRecords THEN count ELSE count + 1
  /\ UNCHANGED <<mediaVars, counted, broken>>
(* new_log_entry: refused only beyond the maximum.  The number is that of  *)
(* the record counter, registered whether or not it is in use.             *)
NewLogEntry ==
  /\ count <= MaxRecords
  /\ entries' = Joined(Registered(entries, count), count)
  /\ count' = count + 1
  /\ UNCHANGED <<mediaVars, counted, broken>>

ClearLog ==
  /\ entries' = [entries EXCEPT !.members = <<>>, !.alive = @ \ Elements(entries),
                                !.files = @ \ Elements(entries)]
  /\ count' = 0
  /\ counted' = TRUE
  /\ UNCHANGED <<mediaVars, broken>>
----------------------------------------------------------------------------
(* The store.                                                              *)

SaveStore ==
  /\ media' = RecordSaved(media)
  /\ entries' = RecordSaved(entries)
  /\ UNCHANGED <<uploading, count, counted, broken>>

(* The log service is a new object: nothing sets its record_count, neither *)
(* its constructor nor its file.                                           *)
RestartStore ==
  /\ \E order \in Orders(media.files) : media' = Loaded(media, order)
  /\ \E order \in Orders(entries.files) : entries' = Loaded(entries, order)
  /\ uploading' = {}
  /\ count' \in Leftover
  /\ counted' = FALSE
  /\ broken' = FALSE

NoMembers == [members |-> <<>>, alive |-> {}, files |-> {}, listed |-> {},
              taken |-> {}, last |-> 0]

StoreInit ==
  /\ media = NoMembers /\ uploading = {}
  /\ entries = NoMembers /\ count \in Leftover /\ counted = FALSE
  /\ broken = FALSE

MediaNext ==
  \/ BeginUpload \/ DelUsbPermanent
  \/ \E n \in Number : EndUpload(n) \/ EjectMedia(n) \/ DelUsb(n)

StoreNext ==
  \/ ~broken /\ (MediaNext \/ NewLogEntry \/ ClearLog \/ SaveStore)
  \/ RestartStore

StoreSpec == StoreInit /\ [][StoreNext]_storeVars
----------------------------------------------------------------------------
(* A medium keeps its number to itself from the start of its upload on,    *)
(* through uploads that overtake each other, deletions of all media while  *)
(* one is under way, and restarts.                                         *)
MediaNumbered ==
  /\ Numbered(media)
  /\ uploading \subseteq media.taken
  /\ uploading \cap (Elements(media) \cup media.alive) = {}

(* From a clear of the log on, the entries are numbered from zero without  *)
(* a gap or a number used twice, and are one more than the maximum at most.*)
CountFollowsEntries ==
  counted => /\ Elements(entries) = 0 .. count - 1
             /\ Len(entries.members) = count
             /\ count <= MaxRecords + 1

(* What record_save_json leaves on file is what is registered, whatever    *)
(* was made, stored one by one, ejected and cleared before: nothing that   *)
(* is gone stays behind for the next restart.                              *)
SaveMatchesRegistry ==
  [][SaveStore => /\ media'.files = media'.alive
                    /\ entries'.files = entries'.alive]_storeVars

=============================================================================

------------------------------ MODULE MCRedfish ------------------------------
(* What clients reach through the web: "part" says which of it a behaviour *)
(* is about, the rest stays as it is; Parts chooses among them.            *)
(*   sessions  at most MaxSessions open or on file                         *)
(*   media     the virtual media                                           *)
(*   log       the entries of a log service                                *)
(*   file      the file of eth1, with settings over IPMI that the LAN      *)
(*             monitors are not told of, the web page and restarts         *)
(*   threads   settings that wake the LAN monitors                         *)
(* Both LAN channels have an interface in the Redfish tree.                *)
EXTENDS RedfishSessions, RedfishStore, LanMonitor, TLC

CONSTANTS MaxSessions, Parts

MCContiguous == ("0.0.0.0" :> "0.0.0.0") @@ ("mask" :> "mask")

Set(c, p, v) == [chan |-> c, param |-> p, value |-> v]
Quiet == {Set(1, "ip_addr", "a"), Set(1, "ip_addr", Zero), Set(6, "ip_addr", "a")}
Waking == {Set(1, "net_mask", "mask"), Set(6, "mac_addr", "any")}
MCRequests == Quiet \cup Waking

VARIABLE part

MCInit ==
  /\ SessionsInit /\ StoreInit /\ LanInit
  /\ part \in Parts

MCLanNext ==
  /\ LanNext
  /\ part = "file" =>
       /\ UNCHANGED <<changed, locked, monitor>>
       /\ \A c \in Channels : config'[c].net_mask = Zero
       /\ file'.conf.net_mask = Zero
  /\ part = "threads" =>
       /\ UNCHANGED web /\ ~file'.dhcp
       /\ command' # Idle => command'.setting \in Waking

MCNext ==
  /\ UNCHANGED part
  /\ \/ /\ part = "sessions" /\ SessionsNext
        /\ Cardinality(col'.alive \cup col'.files) <= MaxSessions
        /\ UNCHANGED <<storeVars, lanVars>>
     \/ /\ StoreNext
        /\ \/ part = "media" /\ UNCHANGED logVars
           \/ part = "log" /\ UNCHANGED mediaVars
        /\ UNCHANGED <<vars, lanVars>>
     \/ part \in {"file", "threads"} /\ MCLanNext /\ UNCHANGED <<vars, storeVars>>

(* Where a behaviour is not about sessions no task of theirs is enabled.   *)
MCFairness ==
  /\ SessionsFairness
  /\ \A c \in Channels : WF_lanVars(part = "threads" /\ MonitorStep(c))

MCSpec == MCInit /\ [][MCNext]_<<vars, storeVars, lanVars, part>> /\ MCFairness
=============================================================================

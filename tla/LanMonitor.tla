----------------------------- MODULE LanMonitor -----------------------------
(***************************************************************************)
(* The LAN configuration (libs/network/network.cpp): the IPMI command that *)
(* sets a parameter, the monitor thread of each channel it wakes, and the  *)
(* file of the interface eth1 that commands and the web page write.        *)
(*                                                                         *)
(* The model has one command at a time, as a client that waits for each    *)
(* answer sends them; no lock sees to it.  The monitors run beside them:   *)
(* every one has a mutex of its own, which commands do not take, and all   *)
(* share one condition variable.  What a monitor makes of the flags has no *)
(* effect, for set_ip returns before it sets anything and the commands are *)
(* commented out; the model leaves it out.  Parameters that are only       *)
(* stored and read back are left out too.                                  *)
(***************************************************************************)
EXTENDS Sequences, Integers

CONSTANTS
  Channels,   \* the channels, one Ipminetwork each
  Eth1,       \* the channel of the interface eth1
  Nics,       \* channels with an EthernetInterface in the Redfish tree
  Addresses, Masks,   \* addresses and network masks
  Zero, Broadcast,    \* 0.0.0.0 and 255.255.255.255
  Contiguous, \* for each mask, the one with as many leading ones
  Requests,   \* the settings that clients ask for
  FilePresent \* does the file of eth1 exist?

Flagged == {"ip_src", "mac_addr", "net_mask"}

(* What a command may set.  The kind of source and the MAC address matter  *)
(* only by their flags; the gateway is flagged, stored and saved like the  *)
(* mask, and left out.                                                     *)
Settings ==
  [chan : Channels, param : {"ip_addr"}, value : Addresses \cup {Zero, Broadcast}]
    \cup [chan : Channels, param : {"net_mask"}, value : Masks \cup {Zero, Broadcast}]
    \cup [chan : Channels, param : {"ip_src", "mac_addr"}, value : {"any"}]

Config == [ip_addr : Addresses \cup {Zero}, net_mask : Masks \cup {Zero}]

(* What get_ip_info finds of an interface that is not there. *)
NoInterface == [ip_addr |-> Zero, net_mask |-> Zero]

ASSUME LanAssumption ==
  /\ Eth1 \in Channels /\ Nics \subseteq Channels
  /\ {Zero, Broadcast} \cap (Addresses \cup Masks) = {} /\ Zero # Broadcast
  /\ Contiguous \in [Masks \cup {Zero} -> Masks \cup {Zero}]
  /\ \A m \in Masks \cup {Zero} : Contiguous[Contiguous[m]] = Contiguous[m]
  /\ Requests \subseteq Settings
  /\ FilePresent \in BOOLEAN

VARIABLES
  config,   \* the configuration of each channel
  changed,  \* lanConfigChanged
  locked,   \* lockFlag
  command,  \* the command under way, and how far it is
  monitor,  \* where each monitor thread is
  file,     \* Address with its prefix length and DHCP in the file of eth1
  countt,   \* saves since the file was written
  recent,   \* history: the last three configurations saved, of any channel
  web       \* history: was the file last written by the web page?

lanVars == <<config, changed, locked, command, monitor, file, countt, recent, web>>
monitorVars == <<changed, locked, monitor>>
fileVars == <<file, countt, recent, web>>

Idle == [at |-> "idle"]
Doing(at, s) == [at |-> at, setting |-> s]
----------------------------------------------------------------------------
(* Set LAN Configuration Parameters.                                       *)

Accepted(s) == s.value \notin {Broadcast} \cup (IF s.param = "net_mask" THEN {} ELSE {Zero})

Stored(s) ==
  IF Accepted(s) /\ s.param \in DOMAIN config[s.chan]
  THEN [config EXCEPT ![s.chan][s.param] = s.value] ELSE config

(* A parameter the monitor is not told of, or a value that is refused. *)
SetQuietly(s) ==
  /\ command = Idle
  /\ s.param \notin Flagged \/ ~Accepted(s)
  /\ config' = Stored(s)
  /\ command' = Doing("save", s)
  /\ UNCHANGED <<monitorVars, fileVars>>

(* Otherwise the parameter is flagged, ... *)
Flag(s) ==
  /\ command = Idle
  /\ s.param \in Flagged /\ Accepted(s)
  /\ changed' = [changed EXCEPT ![s.chan] = @ \cup {s.param}]
  /\ command' = Doing("lock", s)
  /\ UNCHANGED <<config, locked, monitor, fileVars>>

(* ... lockFlag is set without the monitor's mutex, ... *)
Lock ==
  /\ command.at = "lock"
  /\ locked' = [locked EXCEPT ![command.setting.chan] = TRUE]
  /\ command' = [command EXCEPT !.at = "store"]
  /\ UNCHANGED <<config, changed, monitor, fileVars>>

(* ... the value stored and whoever waits notified. *)
Woken == [c \in Channels |-> IF monitor[c] = "blocked" THEN "test" ELSE monitor[c]]
NotifyMutant ==
  /\ command.at = "store"
  /\ config' = Stored(command.setting)
  /\ \E c \in Channels : monitor' = [monitor EXCEPT ![c] = Woken[c]]
  /\ command' = [command EXCEPT !.at = "save"]
  /\ UNCHANGED <<changed, locked, fileVars>>
Notify ==
  /\ command.at = "store"
  /\ config' = Stored(command.setting)
  /\ monitor' = Woken
  /\ command' = [command EXCEPT !.at = "save"]
  /\ UNCHANGED <<changed, locked, fileVars>>
----------------------------------------------------------------------------
(* The file of eth1.                                                       *)

(* A configuration as the file keeps it: of the mask, the number of ones.  *)
Written(c) == [c EXCEPT !.net_mask = Contiguous[@]]

DueMutant == countt + 1 > 3
(* countt, one for all channels, has it written by each third save. *)
Due == countt + 1 > 2

LastThree(s) == SubSeq(s, 1, IF Len(s) < 3 THEN Len(s) ELSE 3)

(* plat_network_save ends every command.  The file is that of eth1, the    *)
(* configuration that of the channel the command was for.  Without the     *)
(* file it returns, and countt stays where it is; what it counts beyond 2  *)
(* makes no difference.                                                    *)
PlatNetworkSave ==
  /\ command.at = "save"
  /\ LET c == command.setting.chan IN
       IF c \notin Nics THEN UNCHANGED fileVars
       ELSE /\ recent' = LastThree(<<Written(config[c])>> \o recent)
            /\ IF Due /\ FilePresent
               THEN /\ file' = [file EXCEPT !.conf = Written(config[c])]
                    /\ countt' = 0 /\ web' = FALSE
               ELSE /\ countt' = IF Due THEN countt ELSE countt + 1
                    /\ UNCHANGED <<file, web>>
  /\ command' = Idle
  /\ UNCHANGED <<config, monitorVars>>

(* Set_Network of the web page: whichever interface it is for, the file is *)
(* that of eth1, and the configuration of no channel is told.              *)
SetNetwork(conf) ==
  /\ FilePresent
  /\ file' = [dhcp |-> FALSE, conf |-> Written(conf)]
  /\ web' = TRUE
  /\ UNCHANGED <<config, command, monitorVars, countt, recent>>

SetDhcp ==
  /\ FilePresent
  /\ file' = [file EXCEPT !.dhcp = TRUE]
  /\ UNCHANGED <<config, command, monitorVars, countt, recent, web>>
----------------------------------------------------------------------------
(* lanMonitorHandler.                                                      *)

Go(c, from, to) == monitor[c] = from /\ monitor' = [monitor EXCEPT ![c] = to]

(* The test of lockFlag and the wait that follows it are two steps: the    *)
(* mutex between them is not one that the commands take.                   *)
Test(c) ==
  /\ Go(c, "test", IF locked[c] THEN "clear" ELSE "block")
  /\ UNCHANGED <<config, changed, locked, command, fileVars>>

Block(c) ==
  /\ Go(c, "block", "blocked")
  /\ UNCHANGED <<config, changed, locked, command, fileVars>>

(* A wait may end for no reason. *)
WakeUp(c) ==
  /\ Go(c, "blocked", "test")
  /\ UNCHANGED <<config, changed, locked, command, fileVars>>

(* Five seconds later, all flags are cleared ... *)
Clear(c) ==
  /\ Go(c, "clear", "unlock")
  /\ changed' = [changed EXCEPT ![c] = {}]
  /\ UNCHANGED <<config, locked, command, fileVars>>

(* ... and then lockFlag. *)
Unlock(c) ==
  /\ Go(c, "unlock", "test")
  /\ locked' = [locked EXCEPT ![c] = FALSE]
  /\ UNCHANGED <<config, changed, command, fileVars>>
----------------------------------------------------------------------------
(* After a restart eth1 has what its file says, or what a DHCP server gave *)
(* it.  The interfaces of the other channels keep nothing.                 *)
RestartLan(conf) ==
  /\ ~file.dhcp => conf = file.conf
  /\ config' = [c \in Channels |-> IF c = Eth1 THEN conf ELSE NoInterface]
  /\ changed' = [c \in Channels |-> {}]
  /\ locked' = [c \in Channels |-> FALSE]
  /\ monitor' = [c \in Channels |-> "test"]
  /\ command' = Idle
  /\ countt' = 0
  /\ recent' = <<Written(config'[Eth1])>>
  /\ web' = FALSE
  /\ UNCHANGED file

LanInit ==
  /\ config = [c \in Channels |-> NoInterface]
  /\ file = [dhcp |-> FALSE, conf |-> Written(NoInterface)]
  /\ recent = <<Written(NoInterface)>>
  /\ changed = [c \in Channels |-> {}]
  /\ locked = [c \in Channels |-> FALSE]
  /\ command = Idle
  /\ monitor = [c \in Channels |-> "test"]
  /\ countt = 0 /\ web = FALSE

MonitorStep(c) == Test(c) \/ Block(c) \/ Clear(c) \/ Unlock(c)

LanNext ==
  \/ \E s \in Requests : SetQuietly(s) \/ Flag(s)
  \/ Lock \/ Notify \/ PlatNetworkSave
  \/ \E conf \in Config : SetNetwork(conf) \/ RestartLan(conf)
  \/ SetDhcp
  \/ \E c \in Channels : MonitorStep(c) \/ WakeUp(c)

LanFairness == \A c \in Channels : WF_lanVars(MonitorStep(c))

LanSpec == LanInit /\ [][LanNext]_lanVars /\ LanFairness
----------------------------------------------------------------------------
LanTypeOK ==
  /\ config \in [Channels -> Config]
  /\ changed \in [Channels -> SUBSET Flagged] /\ locked \in [Channels -> BOOLEAN]
  /\ command \in {Idle} \cup [at : {"lock", "store", "save"}, setting : Settings]
  /\ monitor \in [Channels -> {"test", "block", "blocked", "clear", "unlock"}]
  /\ file \in [dhcp : BOOLEAN, conf : Config]
  /\ countt \in 0 .. 2 /\ web \in BOOLEAN

(* What the file of eth1 says, when neither the web page nor DHCP has set  *)
(* it, is what one of the last three saves wrote or would have written,    *)
(* each the configuration of the channel its command was for: it is two    *)
(* saves old at most.  That these were saves of eth1 is not claimed: if    *)
(* the one that wrote it was for another channel, a restart gives eth1 the *)
(* configuration of that channel, and all of its own settings are lost.    *)
FileIsRecent ==
  FilePresent /\ ~web /\ ~file.dhcp => file.conf \in {recent[i] : i \in DOMAIN recent}

(* A wake-up that falls between a monitor's test and its wait is lost, but *)
(* the next setting of any channel makes up for it: as long as settings    *)
(* are made, no channel stays locked.                                      *)
NextSettingWakes ==
  []<><<Notify>>_lanVars => \A c \in Channels : locked[c] ~> ~locked[c]
=============================================================================

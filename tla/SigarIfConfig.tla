---------------------------- MODULE SigarIfConfig ----------------------------
(***************************************************************************)
(* sigar_net_interface_config_get (src/src/sigar.c) composed with the      *)
(* session and interface list of SigarIfList.  The caller may ask for any  *)
(* name, for instance one from a list that is out of date.  The hardware   *)
(* address is found by one of three strategies fixed when sigar is built:  *)
(*   "ioctl"   SIOCGIFHWADDR (Linux),                                      *)
(*   "aixscan" hwaddr_aix_lookup: a scan of the session's SIOCGIFCONF      *)
(*             buffer for the AF_LINK record of that name (AIX, OSF/1),    *)
(*   "arp"     hwaddr_arp_lookup: SIOCGARP on the interface's own address. *)
(* An interface's address is represented by the interface itself.  Only   *)
(* the AF_LINK records of the AIX buffer are modelled: both loops that     *)
(* read it skip every other family.                                       *)
(***************************************************************************)
EXTENDS SigarIfList

CONSTANTS
  Builds,     \* the hardware address strategies of the builds checked
  Loopbacks   \* the interfaces whose flags carry IFF_LOOPBACK

ASSUME Builds \subseteq {"ioctl", "aixscan", "arp"} /\ Builds # {}
ASSUME Loopbacks \subseteq Ifaces

VARIABLES
  build,      \* the strategy of this build (fixed)
  ifconfig    \* the caller's sigar_net_interface_config_t and return value

cfgvars == <<build, ifconfig>>

allvars == <<vars, cfgvars>>

(* Values of an address field: the interface's own address, another      *)
(* address the kernel reported, or zero.                                 *)
AddrValues == Ifaces \cup {"other", "zero"}

(* Values of the hwaddr string: a kernel hardware address, the formatted *)
(* null address of sigar_hwaddr_set_null, or the empty string left by    *)
(* SIGAR_ZERO when no strategy wrote it.                                 *)
HwValues == HwAddrs \cup {"null_hw", "empty_hw"}

(* The returned errno is named after the call that failed. *)
Errors == {"none", "socket", "SIOCGIFADDR", "SIOCGIFFLAGS"}

NoConfig == [name |-> "none", err |-> "none", address |-> "zero",
             destination |-> "zero", broadcast |-> "zero",
             hwaddr |-> "empty_hw", loopback |-> FALSE]

-----------------------------------------------------------------------------
(* hwaddr_aix_lookup: the first AF_LINK record named n among the          *)
(* ifconf_len slots of sigar->ifconf_buf, else the null address.          *)
AixScan(n) ==
  LET hits == {k \in DOMAIN ifconf_recs :
                 ifconf_recs[k] # NoRec /\ ifconf_recs[k].name = n}
  IN IF hits = {} THEN "null_hw"
     ELSE ifconf_recs[CHOOSE k \in hits : \A j \in hits : k <= j].hw

(* hwaddr_arp_lookup: SIOCGARP for the interface's own address; an       *)
(* absent entry leaves the zeroed arp_ha, formatted as the null address. *)
ArpLookup(n, ok) == IF ok THEN khw[n] ELSE "null_hw"

(* The hardware address of a non-loopback interface n, given whether the *)
(* strategy's ioctl succeeded.                                           *)
HwaddrLookup(n, ok) ==
  CASE build = "ioctl" -> IF ok THEN khw[n] ELSE "empty_hw"
    [] build = "aixscan" -> AixScan(n)
    [] build = "arp" -> ArpLookup(n, ok)

(* sigar_net_interface_config_get(n).  SIGAR_ZERO, then socket();         *)
(* SIOCGIFADDR fails for a name the kernel no longer has, and aborts;     *)
(* SIOCGIFNETMASK is best effort; SIOCGIFFLAGS may fail when the device   *)
(* goes away in between, and aborts.  A loopback mirrors its address into *)
(* destination, zeroes broadcast and sets the null hardware address; any  *)
(* other interface gets destination and broadcast if their ioctls succeed *)
(* and a hardware address from the build's strategy.  MTU and metric are  *)
(* best effort and no property tells them apart.                          *)
sigar_net_interface_config_get(n) ==
  /\ pc = "idle"
  /\ \/ /\ faults < MaxFaults
        /\ faults' = faults + 1
        /\ ifconfig' = [NoConfig EXCEPT !.err = "socket"]
     \/ /\ n \notin ToSet(kifs)
        /\ ifconfig' = [NoConfig EXCEPT !.name = n, !.err = "SIOCGIFADDR"]
        /\ UNCHANGED faults
     \/ /\ n \in ToSet(kifs)
        /\ faults < MaxFaults
        /\ faults' = faults + 1
        /\ ifconfig' = [NoConfig EXCEPT !.name = n, !.address = n,
                                        !.err = "SIOCGIFFLAGS"]
     \/ /\ n \in ToSet(kifs)
        /\ n \in Loopbacks
        /\ ifconfig' = [NoConfig EXCEPT !.name = n, !.address = n,
                           !.destination = n, !.hwaddr = "null_hw",
                           !.loopback = TRUE]
        /\ UNCHANGED faults
     \/ /\ n \in ToSet(kifs)
        /\ n \notin Loopbacks
        /\ \E dst, brd \in {"other", "zero"}, ok \in BOOLEAN :
             ifconfig' = [NoConfig EXCEPT !.name = n, !.address = n,
                            !.destination = dst, !.broadcast = brd,
                            !.hwaddr = HwaddrLookup(n, ok)]
        /\ UNCHANGED faults
  /\ ub' = ub \cup (IF build = "aixscan" /\ ifconf_buf = "freed"
                      THEN {"use_after_free"} ELSE {})
  /\ UNCHANGED <<platform, kifs, changes, pc, ifconf_buf, ifconf_len, lastlen,
                 sockets, iflist, status, khw, ifconf_recs, build>>

-----------------------------------------------------------------------------
ConfigInit ==
  /\ Init
  /\ build \in Builds
  /\ ifconfig = NoConfig

ConfigNext ==
  \/ Next /\ UNCHANGED cfgvars
  \/ \E n \in Ifaces : sigar_net_interface_config_get(n)

ConfigSpec == ConfigInit /\ [][ConfigNext]_allvars

-----------------------------------------------------------------------------
(* Properties *)

(* Spec, InterfaceConfigResolver steps 1-2 and error taxonomy (4): only  *)
(* the mandatory first lookup, the address, may fail the call; netmask    *)
(* and flags are best effort, a failure leaving the field at zero.        *)
(* sigar_net_interface_config_get instead closes the socket and returns   *)
(* errno when SIOCGIFFLAGS fails after SIOCGIFADDR succeeded, as when the *)
(* device goes away between the two ioctls.                               *)
FlagsBestEffort == ifconfig.err \in {"none", "socket", "SIOCGIFADDR"}

(* The hardware address sigar_net_interface_config_get returns for a     *)
(* non-loopback interface is the one the kernel has for that interface    *)
(* at the time of the call, or a zero value: never the address of a      *)
(* device that has since gone, whatever enumerations ran before.          *)
HwaddrCurrent ==
  [][\A n \in Ifaces :
       sigar_net_interface_config_get(n)
         /\ ifconfig'.err = "none" /\ ~ifconfig'.loopback
       => ifconfig'.hwaddr \in {khw[n], "null_hw", "empty_hw"}]_allvars

=============================================================================

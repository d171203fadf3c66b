------------------------------ MODULE SigarFqdn ------------------------------
(***************************************************************************)
(* sigar_fqdn_get and fqdn_ip_get (src/src/sigar.c) composed with the      *)
(* interface list and config queries of SigarIfConfig.                     *)
(*                                                                         *)
(* The resolver is the environment.  Each call meets one "world":         *)
(*   host     what gethostname returns,                                    *)
(*   fwd      gethostbyname(host): NULL or a hostent                       *)
(*            [h_name, h_aliases, h_addr_list],                            *)
(*   rev      gethostbyaddr of each address: NULL or a hostent whose       *)
(*            h_addr_list is the one address asked for,                    *)
(*   domain   getdomainname's answer, "fail" when the call fails,          *)
(*   shared   whether the C library returns the same static hostent from   *)
(*            gethostbyname and gethostbyaddr (the code's "XXX use _r").   *)
(* Names are strings, and the checks IS_FQDN and H_ALIAS_MATCH and the     *)
(* copies into the caller's buffer of namelen bytes are modelled by what   *)
(* they do to them.  Everything up to the IP fallback touches no session   *)
(* state and is one step (fqdn_resolve, over the operators of             *)
(* FqdnResolve).  fqdn_ip_get runs a list query and one config query per  *)
(* listed name, and interleaves with the kernel.                          *)
(* gethostname is glibc's: a name that does not fit fails with             *)
(* ENAMETOOLONG.                                                           *)
(***************************************************************************)
EXTENDS SigarIfConfig, FqdnResolve

CONSTANTS
  Hostnames,      \* answers of gethostname
  FwdAnswers,     \* answers of gethostbyname
  RevAnswers,     \* answers of gethostbyaddr, without their h_addr_list
  DomainAnswers,  \* answers of getdomainname, or "fail"
  Addrs,          \* addresses in forward answers (model values)
  SharedHostent,  \* the static-hostent sharing of the C libraries checked
  NameLen,        \* the caller's namelen
  IfAddr          \* the network-order bytes of each interface's address

ASSUME SharedHostent \subseteq BOOLEAN /\ SharedHostent # {}
ASSUME NameLen \in Nat \ {0}

Ntoa == INSTANCE SigarInetNtoa

Worlds == [host : Hostnames, fwd : FwdAnswers,
           rev : [Addrs -> RevAnswers], domain : DomainAnswers,
           shared : SharedHostent, namelen : {NameLen}]

VARIABLES
  fpc,      \* "idle", "ip_list" (fqdn_ip_get about to list), "ip_wait" (the
            \* list query running), "ip_scan" (its loop), "crashed"
  expect,   \* what the spec's chain gives for the current call's world
            \* (history, for FqdnFallbackOrder)
  fname,    \* the caller's name buffer
  fstatus,  \* "none" (call in progress), "ok" or "error": what it returned
  ipk,      \* fqdn_ip_get's loop index i (1-based)
  fub       \* writes past the caller's buffer and NULL dereferences (history)

fvars == <<fpc, expect, fname, fstatus, ipk, fub>>

fqdnvars == <<vars, cfgvars, fvars>>

(* sigar_inet_ntoa of interface i's address, little-endian host. *)
IpText(i) == Ntoa!InetNtoa(Ntoa!StoredAddress(IfAddr[i], "little"), "little")

-----------------------------------------------------------------------------
(* sigar_fqdn_get up to fqdn_ip_get: gethostname (may fail), then the     *)
(* fallback chain.  The call holds the session, so no list query runs.    *)
fqdn_resolve ==
  /\ fpc = "idle" /\ pc = "idle"
  /\ \E w \in Worlds :
       /\ expect' = SpecName(w)
       /\ \/ /\ faults < MaxFaults \/ ~GethostnameFits(w.host, w.namelen)
             /\ faults' = IF GethostnameFits(w.host, w.namelen) THEN faults + 1 ELSE faults
             /\ fstatus' = "error"
             /\ UNCHANGED <<fpc, fname, fub>>
          \/ /\ GethostnameFits(w.host, w.namelen)
             /\ LET r == Resolve(w) IN
                  \/ /\ r.kind \in {"set", "done"}
                     /\ fname' = r.name /\ fstatus' = "ok"
                     /\ UNCHANGED <<fpc, fub>>
                  \/ /\ r.kind = "crash"
                     /\ fpc' = "crashed" /\ fub' = fub \cup {"null_deref"}
                     /\ fstatus' = "none"
                     /\ UNCHANGED fname
                  \/ /\ r.kind = "ip"
                     /\ fname' = r.name /\ fstatus' = "none"
                     /\ fpc' = "ip_list"
                     /\ UNCHANGED fub
             /\ UNCHANGED faults
  /\ UNCHANGED <<platform, kifs, changes, pc, ifconf_buf, ifconf_len, lastlen,
                 sockets, iflist, status, ub, khw, ifconf_recs, cfgvars, ipk>>

(* fqdn_ip_get: sigar_net_interface_list_get, first step. *)
fqdn_ip_list ==
  /\ fpc = "ip_list"
  /\ ifconf_enter
  /\ fpc' = "ip_wait"
  /\ UNCHANGED <<cfgvars, expect, fname, fstatus, ipk, fub>>

(* The list query has returned: on error fqdn_ip_get returns at once (and *)
(* sigar_fqdn_get returns SIGAR_OK with the short name), else the loop.    *)
fqdn_ip_listed ==
  /\ fpc = "ip_wait" /\ pc = "idle"
  /\ \/ /\ status = "error"
        /\ fpc' = "idle" /\ fstatus' = "ok"
        /\ UNCHANGED ipk
     \/ /\ status = "ok"
        /\ fpc' = "ip_scan" /\ ipk' = 1
        /\ UNCHANGED fstatus
  /\ UNCHANGED <<vars, cfgvars, expect, fname, fub>>

(* Fault-injection variant of IpScanNext: the index is not advanced. *)
IpScanStay(i) == i

IpScanNext(i) == i + 1

(* One pass of the for loop: config of iflist.data[i]; skip it on error  *)
(* or loopback, else write its address with sigar_inet_ntoa (which knows *)
(* nothing of namelen) and break.                                        *)
fqdn_ip_config ==
  /\ fpc = "ip_scan" /\ ipk <= iflist.number
  /\ sigar_net_interface_config_get(iflist.data[ipk])
  /\ IF ifconfig'.err # "none" \/ ifconfig'.loopback
       THEN /\ ipk' = IpScanNext(ipk)
            /\ UNCHANGED <<fname, fub>>
       ELSE /\ ipk' = iflist.number + 1
            /\ fname' = IpText(ifconfig'.address)
            /\ fub' = fub \cup (IF Len(IpText(ifconfig'.address)) + 1 > NameLen
                                  THEN {"overflow"} ELSE {})
  /\ UNCHANGED <<fpc, expect, fstatus>>

(* After the loop: sigar_net_interface_list_destroy, return SIGAR_OK. *)
fqdn_ip_done ==
  /\ fpc = "ip_scan" /\ ipk > iflist.number
  /\ sigar_net_interface_list_destroy
  /\ fpc' = "idle" /\ fstatus' = "ok"
  /\ UNCHANGED <<cfgvars, expect, fname, ipk, fub>>

-----------------------------------------------------------------------------
FqdnInit ==
  /\ ConfigInit
  /\ fpc = "idle"
  /\ expect = [kind |-> "error", name |-> ""]
  /\ fname = ""
  /\ fstatus = "none"
  /\ ipk = 1
  /\ fub = {}

(* The caller opens and closes the session between calls; the kernel      *)
(* changes at any time; the library's own steps are those of the call.    *)
FqdnNext ==
  \/ /\ fpc = "idle"
     /\ sigar_open \/ sigar_close
     /\ UNCHANGED <<cfgvars, fvars>>
  \/ (kernel_add \/ kernel_remove \/ ifconf_ioctl) /\ UNCHANGED <<cfgvars, fvars>>
  \/ fqdn_resolve \/ fqdn_ip_list \/ fqdn_ip_listed
  \/ fqdn_ip_config \/ fqdn_ip_done

(* A call runs synchronously on the caller's thread: each of its steps is *)
(* taken once enabled.                                                    *)
FqdnSpec ==
  /\ FqdnInit /\ [][FqdnNext]_fqdnvars
  /\ WF_fqdnvars(ifconf_ioctl /\ UNCHANGED <<cfgvars, fvars>>)
  /\ WF_fqdnvars(fqdn_ip_list) /\ WF_fqdnvars(fqdn_ip_listed)
  /\ WF_fqdnvars(fqdn_ip_config) /\ WF_fqdnvars(fqdn_ip_done)

-----------------------------------------------------------------------------
(* Properties *)

(* sigar_fqdn_get returns the first name of the spec's fallback order:    *)
(* the canonical name, an alias of this host, a reverse lookup of any of  *)
(* the host's addresses, then hostname.domain; only when all fail the     *)
(* address of a non-loopback interface (or the short name when there is   *)
(* none to be had), whatever the kernel's interfaces do meanwhile.        *)
FqdnFallbackOrder ==
  fpc = "idle" /\ fstatus = "ok" =>
    IF expect.kind = "ip"
      THEN fname \in {IpText(i) : i \in Ifaces \ Loopbacks} \cup {expect.name}
      ELSE fname = expect.name

(* Every sigar_fqdn_get that reaches the IP fallback returns: the list    *)
(* query terminates and the loop over its names ends.                     *)
FqdnReturns == fpc \in {"ip_list", "ip_wait", "ip_scan"} ~> fpc = "idle"

(* The reverse lookup loop never dereferences a NULL hostent returned by  *)
(* gethostbyaddr (an address without a PTR record).                       *)
NoNullDeref == "null_deref" \notin fub

=============================================================================

---------------------------- MODULE FqdnResolve ----------------------------
(***************************************************************************)
(* The part of sigar_fqdn_get (src/src/sigar.c) before fqdn_ip_get, as     *)
(* operators over one resolver "world" (see SigarFqdn for its fields) and  *)
(* the caller's namelen, w.namelen: what the call leaves in the caller's   *)
(* buffer and whether it goes on to the IP fallback.  It touches no        *)
(* session state.  The reference chain of the spec, SpecName, follows.     *)
(***************************************************************************)
EXTENDS Integers, Sequences, FiniteSetsExt

CONSTANT NULL   \* a NULL hostent pointer

(* The string tests and copies of sigar_fqdn_get. *)

IS_FQDN(s) == \E k \in 1..Len(s) : SubSeq(s, k, k) = "."

(* strnEQ(alias, name, strlen(name)): alias starts with name. *)
H_ALIAS_MATCH(alias, name) ==
  /\ IS_FQDN(alias)
  /\ Len(name) <= Len(alias)
  /\ SubSeq(alias, 1, Len(name)) = name

(* SIGAR_STRNCPY(dest, src, len): strncpy, then dest[len-1] = '\0'. *)
StrNCpy(s, len) == SubSeq(s, 1, IF Len(s) < len - 1 THEN Len(s) ELSE len - 1)

(* Fault-injection variant of FQDN_SET: a plain strncpy, which leaves a   *)
(* name of namelen characters or more unterminated.                      *)
FQDN_SETUnterminated(s, namelen) == StrNCpy(s, namelen + 1)

(* FQDN_SET(fqdn): SIGAR_STRNCPY(name, fqdn, namelen). *)
FQDN_SET(s, namelen) == StrNCpy(s, namelen)

(* gethostname(name, namelen - 1) succeeds when the name and its NUL fit. *)
GethostnameFits(host, namelen) == Len(host) + 1 <= namelen - 1

(* The first alias of aliases that H_ALIAS_MATCHes hname, as a sequence  *)
(* of at most one element.                                              *)
AliasMatches(aliases, hname) ==
  SelectSeq(aliases, LAMBDA a : H_ALIAS_MATCH(a, hname))

(* The loop over p->h_addr_list from index i.  A NULL answer is           *)
(* dereferenced (q->h_name).  When the hostent is shared, gethostbyaddr   *)
(* has replaced p's address list by q's, which holds one address, so the  *)
(* next index reads its terminating NULL.                                 *)
RECURSIVE AddrLoop(_, _, _)
AddrLoop(w, addrs, i) ==
  IF i > Len(addrs) THEN [kind |-> "none"]
  ELSE LET q == w.rev[addrs[i]] IN
    IF q = NULL THEN [kind |-> "crash"]
    ELSE IF IS_FQDN(q.h_name) THEN [kind |-> "set", name |-> q.h_name]
    ELSE IF AliasMatches(q.h_aliases, q.h_name) # <<>>
      THEN [kind |-> "set", name |-> Head(AliasMatches(q.h_aliases, q.h_name))]
    ELSE AddrLoop(w, IF w.shared THEN <<addrs[i]>> ELSE addrs, i + 1)

(* Fault-injection variant of DomainUsable: the "(none)" test forgotten. *)
DomainUsableAnySet(d) == d # "fail" /\ d # ""

(* getdomainname succeeded, and the domain is neither empty nor Linux's   *)
(* "(none)".                                                             *)
DomainUsable(d) == d # "fail" /\ d # "" /\ SubSeq(d, 1, 1) # "("

(* name "." domain, the domain copied with SIGAR_STRNCPY into what is     *)
(* left of the buffer (namelen - strlen(name) - 1 bytes).                 *)
AppendDomain(name, d, namelen) ==
  name \o "." \o StrNCpy(d, namelen - (Len(name) + 1))

(* What sigar_fqdn_get decides before any IP fallback: "set" (return      *)
(* this name), "ip" (call fqdn_ip_get, the buffer holding name), "done"   *)
(* (return the buffer as it is) or "crash".                               *)
Resolve(w) ==
  LET p == w.fwd
      host == w.host
      loop == AddrLoop(w, p.h_addr_list, 1)
      IpUnlessFqdn(name) == IF IS_FQDN(name) THEN [kind |-> "done", name |-> name]
                            ELSE [kind |-> "ip", name |-> name]
      withDomain == IF ~IS_FQDN(host) /\ DomainUsable(w.domain)
                      THEN AppendDomain(host, w.domain, w.namelen) ELSE host
  IN CASE p = NULL -> IpUnlessFqdn(host)
       [] IS_FQDN(p.h_name) -> [kind |-> "set", name |-> FQDN_SET(p.h_name, w.namelen)]
       [] AliasMatches(p.h_aliases, p.h_name) # <<>> ->
            [kind |-> "set",
             name |-> FQDN_SET(Head(AliasMatches(p.h_aliases, p.h_name)), w.namelen)]
       [] loop.kind = "set" -> [kind |-> "set", name |-> FQDN_SET(loop.name, w.namelen)]
       [] loop.kind = "crash" -> loop
       [] OTHER -> IpUnlessFqdn(withDomain)

(* sigar_fqdn_get up to fqdn_ip_get, when gethostname fails only for a   *)
(* name that does not fit.                                              *)
FqdnGet(w) ==
  IF GethostnameFits(w.host, w.namelen) THEN Resolve(w) ELSE [kind |-> "error"]

-----------------------------------------------------------------------------
(* The name the spec's fallback chain (section 4.4) gives for world w:    *)
(* kind "error" when the hostname is unavailable, "ip" (with the short   *)
(* name) when the chain ends in the address substitution.  An alias      *)
(* belongs to this host when its part before the first dot is the short  *)
(* hostname.                                                              *)
FirstLabel(s) ==
  LET dots == {k \in 1..Len(s) : SubSeq(s, k, k) = "."}
  IN IF dots = {} THEN s ELSE SubSeq(s, 1, Min(dots) - 1)

OwnAlias(a, host) == IS_FQDN(a) /\ FirstLabel(a) = host

OwnAliases(aliases, host) == SelectSeq(aliases, LAMBDA a : OwnAlias(a, host))

RECURSIVE SpecReverse(_, _)
SpecReverse(w, addrs) ==
  IF addrs = <<>> THEN "none"
  ELSE LET q == w.rev[Head(addrs)] IN
    CASE q # NULL /\ IS_FQDN(q.h_name) -> q.h_name
      [] q # NULL /\ OwnAliases(q.h_aliases, w.host) # <<>> ->
           Head(OwnAliases(q.h_aliases, w.host))
      [] OTHER -> SpecReverse(w, Tail(addrs))

SpecName(w) ==
  LET host == w.host
      p == w.fwd
      Name(n) == [kind |-> "name", name |-> n]
      dottedOrIp == IF IS_FQDN(host) THEN Name(host)
                    ELSE [kind |-> "ip", name |-> host]
  IN CASE ~GethostnameFits(host, w.namelen) -> [kind |-> "error", name |-> ""]
       [] p = NULL -> dottedOrIp
       [] IS_FQDN(p.h_name) -> Name(p.h_name)
       [] OwnAliases(p.h_aliases, host) # <<>> ->
            Name(Head(OwnAliases(p.h_aliases, host)))
       [] SpecReverse(w, p.h_addr_list) # "none" ->
            Name(SpecReverse(w, p.h_addr_list))
       [] ~IS_FQDN(host) /\ w.domain \notin {"fail", "", "(none)"} ->
            Name(host \o "." \o w.domain)
       [] OTHER -> dottedOrIp

=============================================================================

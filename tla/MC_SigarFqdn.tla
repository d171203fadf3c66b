---------------------------- MODULE MC_SigarFqdn ----------------------------
(* Model-checking instance of SigarFqdn: two interfaces (i1 the loopback *)
(* 127.0.0.1, i2 at 10.0.0.5), a host with two addresses, and resolver   *)
(* answers that reach every step of the fallback chain.  The answer sets *)
(* named Hostile and Null add the cases the violation runs need.        *)
EXTENDS SigarFqdn, TLC

CONSTANTS i1, i2, h1, h2, a1, a2

MCIfaces == {i1, i2}

MCIfAddr == (i1 :> <<127, 0, 0, 1>>) @@ (i2 :> <<10, 0, 0, 5>>)

MCAddrs == {a1, a2}

(* Canonical name dotted; an alias of this host; nothing but addresses. *)
MCFwd ==
  { NULL,
    [h_name |-> "host.example.com", h_aliases |-> <<>>, h_addr_list |-> <<a1>>],
    [h_name |-> "host", h_aliases |-> <<"localhost", "host.lan">>,
     h_addr_list |-> <<a1, a2>>],
    [h_name |-> "host", h_aliases |-> <<>>, h_addr_list |-> <<a1, a2>>] }

(* An alias that only shares its first letters with the host's name. *)
MCFwdHostile ==
  MCFwd \cup {[h_name |-> "host", h_aliases |-> <<"hostile.example.com">>,
               h_addr_list |-> <<a1>>]}

(* Reverse answers: dotted, an alias of this host, or neither. *)
MCRev ==
  { [h_name |-> "host.example.com", h_aliases |-> <<>>],
    [h_name |-> "host", h_aliases |-> <<"host.lan">>],
    [h_name |-> "host", h_aliases |-> <<>>] }

(* An address without a PTR record. *)
MCRevNull == MCRev \cup {NULL}

MCDomains == {"fail", "", "(none)", "example.com"}

=============================================================================

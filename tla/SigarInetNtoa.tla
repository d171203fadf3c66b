---------------------------- MODULE SigarInetNtoa ----------------------------
(***************************************************************************)
(* sigar_inet_ntoa (src/src/sigar.c), the thread-safe replacement of       *)
(* inet_ntoa that fqdn_ip_get uses to turn an interface address into a     *)
(* name.  The address arrives as a sigar_uint64_t holding the s_addr value *)
(* in network byte order; the function assigns it to a struct in_addr     *)
(* (keeping the low 32 bits), then prints the four bytes in memory order,  *)
(* each without leading zeros and followed by '.', and overwrites the last *)
(* '.' with the terminator.  The byte order of the host is a build choice. *)
(* The operators are used by SigarFqdn (the name fqdn_ip_get returns) and  *)
(* checked against the dotted-decimal form in SigarCalls.                 *)
(***************************************************************************)
EXTENDS Naturals, Sequences, TLC

Endians == {"little", "big"}

(* The sigar_uint64_t the kernel hands over for the network-order bytes  *)
(* o (o[1] is the first octet of the dotted form), as its eight bytes     *)
(* from least to most significant: s_addr read as a number by this host,  *)
(* widened with zero high bytes.                                          *)
StoredAddress(o, endian) ==
  IF endian = "little" THEN <<o[1], o[2], o[3], o[4], 0, 0, 0, 0>>
                       ELSE <<o[4], o[3], o[2], o[1], 0, 0, 0, 0>>

(* The k-th byte of in_addr in memory: addr.s_addr = address keeps the    *)
(* four low-order bytes, and src walks them from the lowest address.      *)
MemoryByte(address, endian, k) ==
  IF endian = "little" THEN address[k] ELSE address[5 - k]

Digit(d) == SubSeq("0123456789", d + 1, d + 1)

(* Fault-injection variant of OctetText: after the hundreds digit the    *)
(* tens digit is only written when the rest is above 9 (drops the 0 of   *)
(* 105).                                                                 *)
OctetTextSkipZero(u) ==
  CASE u > 99 -> Digit(u \div 100)
                   \o (IF u % 100 > 9 THEN Digit((u % 100) \div 10) ELSE "")
                   \o Digit(u % 10)
    [] u > 9  -> Digit(u \div 10) \o Digit(u % 10)
    [] OTHER  -> Digit(u)

(* One pass of the do-while body: the byte's digits, hundreds and tens   *)
(* only when the value needs them.                                       *)
OctetText(u) ==
  CASE u > 99 -> Digit(u \div 100) \o Digit((u % 100) \div 10)
                   \o Digit(u % 10)
    [] u > 9  -> Digit(u \div 10) \o Digit(u % 10)
    [] OTHER  -> Digit(u)

(* The text sigar_inet_ntoa leaves in addr_str. *)
InetNtoa(address, endian) ==
  LET b(k) == OctetText(MemoryByte(address, endian, k))
      written == b(1) \o "." \o b(2) \o "." \o b(3) \o "." \o b(4) \o "."
  IN SubSeq(written, 1, Len(written) - 1)

=============================================================================

----------------------------- MODULE SigarFormat -----------------------------
(***************************************************************************)
(* The pure conversions of src/src/sigar.c: sigar_format_size,           *)
(* sigar_uptime_string, sigar_fs_type_get and sigar_hwaddr_format (and    *)
(* sigar_inet_ntoa, in SigarInetNtoa).  Each is an operator that does     *)
(* what the C does, digit by digit and branch by branch.  SigarCalls       *)
(* calls them and checks them against reference definitions.             *)
(***************************************************************************)
EXTENDS SigarInetNtoa, Naturals, Sequences

-----------------------------------------------------------------------------
(* sigar_format_size *)

(* The sigar_uint64_t with every bit set. *)
SIGAR_FIELD_NOTIMPL == <<1023, 1023, 1023, 1023, 1023, 1023, 15>>

(* size >= 973, read off the digits. *)
AtLeast973(d) == Len(d) > 1 \/ (Len(d) = 1 /\ d[1] >= 973)

(* The value of a size known to be below 973. *)
Small(d) == IF d = <<>> THEN 0 ELSE d[1]

(* "%d" of a non-negative int. *)
RECURSIVE Decimal(_)
Decimal(n) == IF n < 10 THEN Digit(n) ELSE Decimal(n \div 10) \o Digit(n % 10)

(* "%3d": right-aligned in three columns. *)
Width3(n) == LET t == Decimal(n) IN SubSeq("  ", 1, 3 - Len(t)) \o t

(* Fault-injection variant of Tenths: the rounding bias dropped. *)
TenthsTruncated(remain) == (remain * 5) \div 512

(* remain, in 1024ths of the unit, rounded to tenths. *)
Tenths(remain) == ((remain * 5) + 256) \div 512

(* The do-while loop: shift off ten bits, move to the next ord while the *)
(* rest is still >= 973, then print one decimal below 9 + 973/1024 units  *)
(* (carrying into the units when the tenths round to 10), else the units  *)
(* rounded half up in three columns.  o indexes ord[] = "KMGTPE".         *)
RECURSIVE FormatLoop(_, _)
FormatLoop(d, o) ==
  LET remain == d[1]
      size   == Tail(d)
      s      == Small(size)
      unit   == SubSeq("KMGTPE", o, o)
  IN CASE AtLeast973(size) -> FormatLoop(size, o + 1)
       [] s < 9 \/ (s = 9 /\ remain < 973) ->
            IF Tenths(remain) >= 10 THEN Decimal(s + 1) \o ".0" \o unit
                                    ELSE Decimal(s) \o "." \o Digit(Tenths(remain)) \o unit
       [] OTHER -> Width3(IF remain >= 512 THEN s + 1 ELSE s) \o unit

(* The text sigar_format_size leaves in buf. *)
FormatSize(d) ==
  CASE d = SIGAR_FIELD_NOTIMPL -> "-"
    [] ~AtLeast973(d)          -> Width3(Small(d)) \o " "
    [] OTHER                   -> FormatLoop(d, 1)

-----------------------------------------------------------------------------
(* sigar_uptime_string *)

(* "%2d" (pad " ") and "%02d" (pad "0") of a value below 100. *)
Width2(n, pad) == LET t == Decimal(n) IN IF Len(t) < 2 THEN pad \o t ELSE t

(* Fault-injection variant of HoursOfDay: hours not reduced modulo 24. *)
HoursOfDayNoWrap(minutes) == minutes \div 60

(* hours = minutes / 60; hours = hours % 24. *)
HoursOfDay(minutes) == (minutes \div 60) % 24

(* "%d day%s, " when days is not zero. *)
DayText(days) ==
  IF days # 0 THEN Decimal(days) \o " day" \o (IF days > 1 THEN "s" ELSE "") \o ", "
              ELSE ""

(* The text sigar_uptime_string writes for an uptime of u seconds (the C *)
(* truncates the double twice, in the division for days and in the cast *)
(* for minutes; for whole non-negative seconds both are \div).           *)
UptimeString(u) ==
  LET days    == u \div (60 * 60 * 24)
      minutes == u \div 60
      hours   == HoursOfDay(minutes)
  IN DayText(days) \o
       IF hours # 0 THEN Width2(hours, " ") \o ":" \o Width2(minutes % 60, "0")
                    ELSE Decimal(minutes % 60) \o " min"

-----------------------------------------------------------------------------
(* sigar_fs_type_get *)

(* sigar_file_system_type_e, as fstype_names[] is indexed by it. *)
SIGAR_FSTYPE_UNKNOWN    == 0
SIGAR_FSTYPE_NONE       == 1
SIGAR_FSTYPE_LOCAL_DISK == 2
SIGAR_FSTYPE_NETWORK    == 3
SIGAR_FSTYPE_CDROM      == 5
SIGAR_FSTYPE_SWAP       == 6
SIGAR_FSTYPE_MAX        == 7

fstype_names == <<"unknown", "none", "local", "remote", "ram", "cdrom", "swap">>

(* The names sigar_common_fs_type_get recognises (its switch on the first *)
(* character only dispatches to the strEQ tests).                        *)
CommonFsTypes ==
  [n \in {"nfs", "smbfs", "afs"} |-> SIGAR_FSTYPE_NETWORK]
  @@ ("swap" :> SIGAR_FSTYPE_SWAP) @@ ("iso9660" :> SIGAR_FSTYPE_CDROM)
  @@ [n \in {"msdos", "minix", "hpfs", "vfat"} |-> SIGAR_FSTYPE_LOCAL_DISK]

(* sigar_common_fs_type_get: set the type of a recognised name and       *)
(* return fsp->type, which is still what the OS hook left otherwise.     *)
CommonFsType(name, type) ==
  IF name \in DOMAIN CommonFsTypes THEN CommonFsTypes[name] ELSE type

(* Fault-injection variant of FsClamp: the bound test off by one. *)
FsClampPastMax(t) == IF t > SIGAR_FSTYPE_MAX THEN SIGAR_FSTYPE_NONE ELSE t

(* if (fsp->type >= SIGAR_FSTYPE_MAX) fsp->type = SIGAR_FSTYPE_NONE; *)
FsClamp(t) == IF t >= SIGAR_FSTYPE_MAX THEN SIGAR_FSTYPE_NONE ELSE t

(* strcpy from fstype_names[type]: past the table it reads whatever      *)
(* follows it, an undefined result.                                       *)
FsTypeName(t) ==
  IF t \in 0..SIGAR_FSTYPE_MAX - 1 THEN fstype_names[t + 1] ELSE "(past fstype_names)"

(* sigar_fs_type_get: the preset type, else the OS hook (which sets the   *)
(* type to what it returns), else the common table; all zero gives NONE;  *)
(* then the clamp and the name.                                           *)
FsTypeGet(preset, os, name) ==
  LET found == CASE preset # 0 -> preset
                 [] os # 0     -> os
                 [] OTHER      -> CommonFsType(name, os)
      type  == FsClamp(IF found = 0 THEN SIGAR_FSTYPE_NONE ELSE found)
  IN [type |-> type, type_name |-> FsTypeName(type)]

-----------------------------------------------------------------------------
(* sigar_hwaddr_format *)

HexDigit(d) == SubSeq("0123456789ABCDEF", d + 1, d + 1)

(* Fault-injection variant of Hex2: "%X" without the zero padding. *)
Hex2Unpadded(b) == IF b < 16 THEN HexDigit(b) ELSE HexDigit(b \div 16) \o HexDigit(b % 16)

(* "%02X" of ptr[i] & 0377. *)
Hex2(b) == HexDigit(b \div 16) \o HexDigit(b % 16)

(* The text sigar_hwaddr_format writes for the six bytes at ptr. *)
HwaddrFormat(ptr) ==
  Hex2(ptr[1]) \o ":" \o Hex2(ptr[2]) \o ":" \o Hex2(ptr[3]) \o ":"
    \o Hex2(ptr[4]) \o ":" \o Hex2(ptr[5]) \o ":" \o Hex2(ptr[6])

=============================================================================

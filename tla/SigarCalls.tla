------------------------------ MODULE SigarCalls ------------------------------
(***************************************************************************)
(* A caller of the single-shot functions of src/src/sigar.c: the pure     *)
(* conversions of SigarFormat and SigarInetNtoa and the lookups of        *)
(* SigarLookup, the resolver part of sigar_fqdn_get (FqdnResolve) and    *)
(* the session functions of SigarErrors.  Each step makes one call with an input drawn from a small *)
(* set of boundary values (or, for the functions of many inputs, changes  *)
(* one input of the previous call), and keeps only the last call, so that *)
(* every input is reached without forming the product of the inputs of   *)
(* all functions.  The properties compare each result with a reference    *)
(* definition written from what the function promises.                   *)
(***************************************************************************)
EXTENDS SigarErrors, Integers, Sequences, TLC

CONSTANTS
  Octets,      \* byte values of the addresses given to sigar_inet_ntoa
  Sizes,       \* sizes given to sigar_format_size, as base-1024 digits
  Uptimes,     \* whole seconds of uptime given to sigar_uptime_string
  FsPresets,   \* fsp->type on entry to sigar_fs_type_get
  OsTypes,     \* what the platform's sigar_os_fs_type_get sets and returns
  FsNames,     \* fsp->sys_type_name
  HwBytes,     \* byte values of the hardware addresses formatted
  NameBufLen,  \* size of the user and group fields of sigar_proc_cred_name_t
  UserAnswers, \* what the passwd lookup of a uid or a name answers
  GroupAnswers,\* what the group lookup of a gid answers
  Gids,        \* gids of the processes asked about
  CredStatuses,\* what sigar_proc_cred_get returns
  RlimitAnswers,\* what getrlimit answers for one resource
  FqdnWorlds,  \* resolver worlds and namelens given to sigar_fqdn_get
  NoHostent,   \* a NULL hostent pointer
  Errs,        \* error codes given to sigar_strerror
  LibTexts,    \* messages of the C library (or Windows), "" for none
  OsTexts,     \* what sigar_os_error_string returns, "" for NULL
  Pids,        \* pids of the calling process
  KillAnswers  \* what kill, or OpenProcess and TerminateProcess, answer

(* A sigar_uint64_t is given by its base-1024 digits, least significant   *)
(* first, without a zero most significant digit (<<>> is 0): at most 7    *)
(* digits, the seventh below 16.                                           *)
ASSUME /\ Octets \cup HwBytes \subseteq 0..255
       /\ NameBufLen >= 2
       /\ \A d \in Sizes : /\ Len(d) <= 7
                           /\ \A i \in DOMAIN d : d[i] \in 0..1023
                           /\ d # <<>> => d[Len(d)] # 0
                           /\ Len(d) = 7 => d[7] < 16

Fq == INSTANCE FqdnResolve WITH NULL <- NoHostent

-----------------------------------------------------------------------------
VARIABLES
  endian,   \* the host byte order of the build (fixed)
  last      \* the last call: function, input and output

vars == <<endian, last>>

(* The address of the last sigar_inet_ntoa call, the first one's input   *)
(* after another function was called.                                    *)
InetPrev == IF last.fn = "inet_ntoa" THEN last.in ELSE <<0, 0, 0, 0>>

(* The resources getrlimit is asked about. *)
Resources == {"CPU", "FSIZE", "DATA", "STACK", "CORE", "RSS", "NPROC", "NOFILE", "AS"}

(* A caller's buffer never written: no terminator anywhere. *)
Garbage == [i \in 1..NameBufLen |-> "?"]

(* The fields of sigar_resource_limit_t, as the caller's uninitialised  *)
(* struct holds them.                                                    *)
RlimitFields ==
  {"unlimited"} \cup {f \o s : f \in {"cpu", "file_size", "data", "stack", "core",
                                      "memory", "processes", "open_files",
                                      "virtual_memory"},
                               s \in {"_cur", "_max"}}

(* A call of sigar_inet_ntoa on an address differing from the previous   *)
(* one in one byte.                                                      *)
sigar_inet_ntoa ==
  \E k \in 1..4, u \in Octets :
    LET o == [InetPrev EXCEPT ![k] = u]
    IN last' = [fn |-> "inet_ntoa", in |-> o,
                out |-> InetNtoa(StoredAddress(o, endian), endian)]

sigar_format_size ==
  \E d \in Sizes : last' = [fn |-> "format_size", in |-> d, out |-> FormatSize(d)]

sigar_uptime_string ==
  \E u \in Uptimes : last' = [fn |-> "uptime_string", in |-> u, out |-> UptimeString(u)]

sigar_fs_type_get ==
  \E p \in FsPresets, r \in OsTypes, n \in FsNames :
    last' = [fn |-> "fs_type_get", in |-> <<p, r, n>>, out |-> FsTypeGet(p, r, n)]

(* A call on six bytes equal to b but the k-th, which is c. *)
sigar_hwaddr_format ==
  \E k \in 1..6, b \in HwBytes, c \in HwBytes :
    LET p == [i \in 1..6 |-> IF i = k THEN c ELSE b]
    IN last' = [fn |-> "hwaddr_format", in |-> p, out |-> HwaddrFormat(p)]

(* A call on a fresh sigar_proc_cred_name_t, in either build. *)
sigar_proc_cred_name_get_call ==
  \E r \in BOOLEAN, s \in CredStatuses, gid \in Gids,
    ua \in UserAnswers, ga \in GroupAnswers :
    LET cred == [status |-> s, gid |-> gid]
    IN last' = [fn |-> "proc_cred_name_get",
                in |-> [r |-> r, cred |-> cred, ua |-> ua, ga |-> ga],
                out |-> sigar_proc_cred_name_get(cred, r, ua, ga,
                                                 [user |-> Garbage, group |-> Garbage])]

sigar_user_id_get_call ==
  \E r \in BOOLEAN, a \in UserAnswers :
    last' = [fn |-> "user_id_get", in |-> [r |-> r, a |-> a],
             out |-> sigar_user_id_get(r, a, "stale")]

(* A call where getrlimit answers ans for one resource and "unlimited"  *)
(* for the others, on a build with or without RLIMIT_RSS.                *)
sigar_resource_limit_get_call ==
  \E rss \in BOOLEAN, res \in Resources, ans \in RlimitAnswers :
    LET g == [r \in Resources |->
               IF r = res THEN ans ELSE [cur |-> "RLIM_INFINITY", max |-> "RLIM_INFINITY"]]
    IN last' = [fn |-> "resource_limit_get", in |-> [rss |-> rss, getrlimit |-> g],
                out |-> sigar_resource_limit_get(rss, g,
                                                 [f \in RlimitFields |-> "stale"])]

(* sigar_fqdn_get up to its IP fallback, in one resolver world. *)
sigar_fqdn_get_call ==
  \E w \in FqdnWorlds : last' = [fn |-> "fqdn_get", in |-> w, out |-> Fq!FqdnGet(w)]

(* A call of sigar_strerror on a session whose errbuf holds a text an    *)
(* earlier call left there.                                              *)
sigar_strerror_call ==
  \E build \in StrerrorBuilds, err \in Errs, lib \in LibTexts, os \in OsTexts,
    prev \in LibTexts :
    last' = [fn |-> "strerror",
             in |-> [build |-> build, err |-> err, lib |-> lib, os |-> os, prev |-> prev],
             out |-> sigar_strerror(build, err, lib, os, prev)]

(* A call of sigar_pid_get on a handle whose cache is empty or was       *)
(* filled by a process of Pids.                                          *)
sigar_pid_get_call ==
  \E cache \in {0} \cup Pids, self \in Pids :
    last' = [fn |-> "pid_get", in |-> [cache |-> cache, self |-> self],
             out |-> sigar_pid_get(cache, self)]

(* A call with signal 0 or SIGTERM; the answers of Windows's calls make  *)
(* it a WIN32 build.                                                     *)
sigar_proc_kill_call ==
  \E signum \in {0, 15}, os \in KillAnswers :
    LET win == "opened" \in DOMAIN os
    IN last' = [fn |-> "proc_kill", in |-> [win |-> win, signum |-> signum, os |-> os],
                out |-> sigar_proc_kill(win, signum, os)]

Init ==
  /\ endian \in Endians
  /\ last = [fn |-> "inet_ntoa", in |-> <<0, 0, 0, 0>>, out |-> "0.0.0.0"]

Next ==
  /\ \/ sigar_inet_ntoa \/ sigar_format_size
     \/ sigar_uptime_string \/ sigar_fs_type_get \/ sigar_hwaddr_format
     \/ sigar_proc_cred_name_get_call \/ sigar_user_id_get_call
     \/ sigar_resource_limit_get_call \/ sigar_fqdn_get_call
     \/ sigar_strerror_call \/ sigar_pid_get_call \/ sigar_proc_kill_call
  /\ UNCHANGED endian

Spec == Init /\ [][Next]_vars

-----------------------------------------------------------------------------
(* Properties *)

(* The dotted-decimal form the spec asks for: the four network-order     *)
(* octets in decimal, first octet first, separated by '.'.               *)
Dotted(o) ==
  ToString(o[1]) \o "." \o ToString(o[2]) \o "." \o ToString(o[3])
    \o "." \o ToString(o[4])

(* Whatever the host byte order, sigar_inet_ntoa writes exactly the      *)
(* dotted-decimal form of the address, first octet first, and never more *)
(* than the 15 characters of "255.255.255.255".                          *)
InetNtoaDotted ==
  last.fn = "inet_ntoa" =>
    /\ last.out = Dotted(last.in)
    /\ Len(last.out) <= 15

Distance(a, b) == IF a >= b THEN a - b ELSE b - a

(* A figure of n (in tenths when tenth) in unit 1024^k, "%3d"-aligned. *)
Shown(n, tenth, k) ==
  LET t == ToString(n)
  IN (IF tenth THEN ToString(n \div 10) \o "." \o ToString(n % 10)
               ELSE SubSeq("  ", 1, 3 - Len(t)) \o t)
     \o (IF k = 0 THEN " " ELSE SubSeq("KMGTPE", k, k))

(* 1024 times the size in units of 1024^k, truncated to an integer. *)
Scaled(d, k) ==
  LET at(i) == IF i \in DOMAIN d THEN d[i] ELSE 0
  IN IF k = 0 THEN 1024 * at(1) ELSE 1024 * at(k + 1) + at(k)

(* sigar_format_size prints "-" for SIGAR_FIELD_NOTIMPL and otherwise     *)
(* four characters: a figure in bytes or in the unit K..E it names, at     *)
(* most three digits, one decimal only below 10, never below 1.0 of a      *)
(* unit other than bytes (the smaller unit is used), and within half its  *)
(* last digit of the size (cut to 1/1024 of the unit): the carries at      *)
(* x.95 and 972.5 and the sentinel are where this breaks.                  *)
FormatSizeAccurate ==
  last.fn = "format_size" =>
    \/ last.in = SIGAR_FIELD_NOTIMPL /\ last.out = "-"
    \/ \E k \in 0..6, tenth \in BOOLEAN, n \in 0..999 :
         /\ last.in # SIGAR_FIELD_NOTIMPL
         /\ last.out = Shown(n, tenth, k)
         /\ Len(last.out) = 4
         /\ Len(last.in) <= k + 1
         /\ k = 0 => ~tenth
         /\ k > 0 => n >= 10
         /\ tenth => n < 100
         /\ Distance(n * 1024, (IF tenth THEN 10 ELSE 1) * Scaled(last.in, k)) <= 512

(* The uptime as a reader takes it: whole minutes split into days, hours *)
(* of the day and minutes, "day" singular for one, hours space-padded   *)
(* and minutes zero-padded, and "M min" in the first hour of a day.     *)
UptimeText(u) ==
  LET m  == u \div 60
      d  == m \div 1440
      h  == (m % 1440) \div 60
      mm == m % 60
  IN (IF d = 0 THEN "" ELSE ToString(d) \o (IF d = 1 THEN " day, " ELSE " days, "))
     \o IF h = 0 THEN ToString(mm) \o " min"
        ELSE (IF h < 10 THEN " " ELSE "") \o ToString(h) \o ":"
               \o (IF mm < 10 THEN "0" ELSE "") \o ToString(mm)

(* sigar_uptime_string, which computes days from the seconds but hours   *)
(* and minutes from the minutes, writes the uptime's reading, at the day *)
(* and hour boundaries too.                                             *)
UptimeReadsBack == last.fn = "uptime_string" => last.out = UptimeText(last.in)

(* sigar_fs_type_get always leaves a known type other than UNKNOWN with  *)
(* its own name, whatever the caller preset or the OS hook returned: a   *)
(* valid preset wins, then a valid OS answer, then the common table,     *)
(* else NONE; an out-of-range value never indexes past fstype_names.     *)
FsTypeNamed ==
  last.fn = "fs_type_get" =>
    LET p == last.in[1]
        r == last.in[2]
        n == last.in[3]
        t == last.out.type
        valid == SIGAR_FSTYPE_NONE..SIGAR_FSTYPE_MAX - 1
    IN /\ t \in valid
       /\ last.out.type_name = fstype_names[t + 1]
       /\ p \in valid => t = p
       /\ p = 0 /\ r \in valid => t = r
       /\ p = 0 /\ r = 0 =>
            t = IF n \in DOMAIN CommonFsTypes THEN CommonFsTypes[n]
                ELSE SIGAR_FSTYPE_NONE

(* Reading sigar_hwaddr_format's text back: six pairs of hexadecimal     *)
(* digits separated by ':', each pair the value of its byte.              *)
HexValue(c) == CHOOSE v \in 0..15 : SubSeq("0123456789ABCDEF", v + 1, v + 1) = c

(* sigar_hwaddr_format writes the 17 characters "XX:XX:XX:XX:XX:XX" that *)
(* read back as the six bytes, zero-padded ones (0x00-0x0F) included.    *)
HwaddrReadsBack ==
  last.fn = "hwaddr_format" =>
    /\ Len(last.out) = 17
    /\ \A i \in 1..6 :
         /\ i < 6 => SubSeq(last.out, 3 * i, 3 * i) = ":"
         /\ 16 * HexValue(SubSeq(last.out, 3 * i - 2, 3 * i - 2))
              + HexValue(SubSeq(last.out, 3 * i - 1, 3 * i - 1)) = last.in[i]

(* A C string read from a buffer: the characters before the first NUL. *)
Terminated(b) == \E i \in DOMAIN b : b[i] = NUL
CText(b) ==
  LET z == CHOOSE i \in DOMAIN b : b[i] = NUL /\ \A j \in 1..i - 1 : b[j] # NUL
  IN SubSeq(b, 1, z - 1)

(* A name as it fits a field of NameBufLen bytes with its terminator. *)
Cut(name) == SubSeq(name, 1, IF Len(name) < NameBufLen THEN Len(name) ELSE NameBufLen - 1)

(* A call of sigar_proc_cred_name_get that returns writes a field only   *)
(* after every step before it succeeded, and what it writes is a C       *)
(* string that fits the field: the user's name (cut to the field), and   *)
(* the group's name or, for a gid without a named group (Group #-1), the *)
(* gid in decimal.  Names as long as the field are where the terminator  *)
(* matters.                                                              *)
CredNamesTerminated ==
  last.fn = "proc_cred_name_get" /\ last.out.fault = "none" =>
    LET in  == last.in
        rec == last.out.rec
        ga  == in.ga.entry
    IN /\ rec.user # Garbage =>
            /\ in.cred.status = SIGAR_OK
            /\ Terminated(rec.user)
            /\ CText(rec.user) = Cut(in.ua.entry.name)
       /\ rec.group # Garbage =>
            /\ in.cred.status = SIGAR_OK
            /\ Terminated(rec.group)
            /\ CText(rec.group) =
                 IF ga \in {NoEntry, NoName}
                 THEN [i \in 1..Len(ToString(in.cred.gid)) |-> SubSeq(ToString(in.cred.gid), i, i)]
                 ELSE Cut(ga.name)

(* The resource a field of sigar_resource_limit_t reports, by its name. *)
FieldResource ==
  [cpu |-> "CPU", file_size |-> "FSIZE", data |-> "DATA", stack |-> "STACK",
   core |-> "CORE", memory |-> "RSS", processes |-> "NPROC",
   open_files |-> "NOFILE", virtual_memory |-> "AS"]

(* sigar_resource_limit_get leaves no field of the caller's struct unset: *)
(* each _cur and _max is getrlimit's value for its own resource, or      *)
(* NOTIMPL when the platform lacks the resource (RLIMIT_RSS) or the call *)
(* fails, and unlimited is RLIM_INFINITY.                                *)
RlimitFaithful ==
  last.fn = "resource_limit_get" =>
    LET g == last.in.getrlimit
        v(f, s) == IF (FieldResource[f] = "RSS" /\ ~last.in.rss)
                      \/ g[FieldResource[f]] = GetrlimitFails
                   THEN NOTIMPL ELSE g[FieldResource[f]][s]
    IN /\ last.out["unlimited"] = "RLIM_INFINITY"
       /\ \A f \in DOMAIN FieldResource :
            /\ last.out[f \o "_cur"] = v(f, "cur")
            /\ last.out[f \o "_max"] = v(f, "max")

(* A name as a buffer of n bytes holds it with its terminator. *)
SpecCut(s, n) == SubSeq(s, 1, IF Len(s) < n THEN Len(s) ELSE n - 1)

(* sigar_fqdn_get, in a caller's buffer of any size, fails only when the *)
(* hostname does not fit, goes on to the IP fallback exactly when the    *)
(* spec's chain does, and otherwise leaves the spec's name cut to what   *)
(* the buffer holds with its terminator: the canonical name and the      *)
(* domain suffix are each cut where they reach namelen - 1 (down to      *)
(* "host." when the hostname fills the buffer but two bytes).            *)
FqdnNameCut ==
  last.fn = "fqdn_get" =>
    LET s == Fq!SpecName(last.in)
        r == last.out
    IN CASE s.kind = "name" ->
              r.kind \in {"set", "done"} /\ r.name = SpecCut(s.name, last.in.namelen)
         [] s.kind = "ip" -> r = [kind |-> "ip", name |-> s.name]
         [] OTHER -> r.kind = "error"

(* A text as errbuf holds it with its terminator. *)
InErrbuf(s) == SubSeq(s, 1, IF Len(s) < ErrbufLen THEN Len(s) ELSE ErrbufLen - 1)

(* sigar_strerror gives each range of codes its own source of text: a    *)
(* code above SIGAR_OS_START_ERROR the platform layer's string (a fixed  *)
(* text when it has none), one of sigar's own codes sigar's message      *)
(* (ENOTIMPL's, and a placeholder for the rest), and any other code the  *)
(* C library's message, or a text naming the code unknown, which is     *)
(* then what the session's errbuf holds, terminated within it.  Only the *)
(* C-library branch writes errbuf.  (On WIN32 a code FormatMessage has   *)
(* no message for is left out: see the hazard at line 116.)             *)
StrerrorText ==
  last.fn = "strerror" =>
    LET in == last.in
        r  == last.out
        notimpl == "This function has not been implemented on this platform"
    IN CASE in.err > SIGAR_OS_START_ERROR ->
              /\ r.ret = IF in.os = "" THEN "Unknown OS Error" ELSE in.os
              /\ r.errbuf = in.prev
         [] in.err > SIGAR_START_ERROR ->
              /\ (r.ret = notimpl) <=> (in.err = SIGAR_ENOTIMPL)
              /\ r.ret \in {notimpl, "Error string not specified yet"}
              /\ r.errbuf = in.prev
         [] OTHER ->
              /\ r.ret = r.errbuf
              /\ in.lib # "" => r.ret = InErrbuf(in.lib)
              /\ in.lib = "" /\ in.build # "win32" =>
                   r.ret \in {InErrbuf(UnknownError(in.err)), "Unknown Error"}

=============================================================================

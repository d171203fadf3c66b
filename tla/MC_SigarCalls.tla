----------------------------- MODULE MC_SigarCalls -----------------------------
(* Model-checking instance of SigarCalls.  Octets: every boundary of the *)
(* digit count (0, 9, 10, 99, 100, 255) and a value with a zero tens      *)
(* digit.  Sizes: every branch and carry of sigar_format_size at the      *)
(* byte, K, M, G and E levels and the sentinel.  Uptimes: the minute,     *)
(* hour and day boundaries and a plural day count.  The file system      *)
(* inputs: zero, valid and out-of-range (SIGAR_FSTYPE_MAX and above)      *)
(* presets and OS answers, and names of every branch of the switch.       *)
(* Hardware bytes: both sides of the zero padding (15, 16).  Lookups: a  *)
(* four-byte field, so that a four-letter name is cut and a three-letter *)
(* one fills it; entries found, missing or failing, with errno 0 or set; *)
(* a group without a name; gids 0, -1 and one of three digits.         *)
(* getrlimit:                                                            *)
(* failing, a finite limit with cur # max, and unlimited.                *)
EXTENDS SigarCalls

MCOctets == {0, 9, 10, 99, 100, 105, 255}

MCSizes ==
  { <<>>, <<972>>, <<973>>, <<1000>>, <<1023>>,         \* bytes / 0.9K-1.0K
    <<0, 1>>, <<1023, 8>>, <<972, 9>>, <<973, 9>>,      \* 1.0K, 9.0K carry, 9.9K, 10K
    <<511, 972>>, <<512, 972>>, <<0, 973>>,             \* 972K, 973K, 1.0M
    <<300, 51, 1>>, <<0, 0, 0, 1>>,                     \* 1.0M cut, 1.0G
    <<5, 0, 0, 0, 0, 0, 1>>,                            \* 1.0E
    <<1022, 1023, 1023, 1023, 1023, 1023, 15>>,         \* 16E
    SIGAR_FIELD_NOTIMPL }

MCUptimes == {0, 59, 60, 3599, 3600, 3660, 36000, 86399, 86400, 90061, 172800, 2147483647}

MCFsPresets == {0, SIGAR_FSTYPE_LOCAL_DISK, SIGAR_FSTYPE_MAX, 9}
MCOsTypes   == {0, SIGAR_FSTYPE_NETWORK, SIGAR_FSTYPE_MAX}
MCFsNames   == {"nfs", "smbfs", "swap", "afs", "iso9660", "msdos", "minix",
                "hpfs", "vfat", "ext4", "sysfs", ""}

(* errno values of Linux. *)
ENOENT == 2
ESRCH  == 3
EIO    == 5

MCHwBytes == {0, 15, 16, 171, 255}

MCUserAnswers ==
  { [rc |-> 0, entry |-> [name |-> <<"r", "o", "o", "t">>, uid |-> 0], errno |-> 0],
    [rc |-> 0, entry |-> [name |-> <<"b", "i", "n">>, uid |-> 2], errno |-> 0],
    [rc |-> 0, entry |-> NoEntry, errno |-> 0],
    [rc |-> 0, entry |-> NoEntry, errno |-> ENOENT],
    [rc |-> EIO, entry |-> NoEntry, errno |-> EIO],
    [rc |-> EIO, entry |-> NoEntry, errno |-> 0] }

MCGroupAnswers ==
  { [rc |-> 0, entry |-> [name |-> <<"w", "h", "e", "e", "l">>], errno |-> 0],
    [rc |-> 0, entry |-> [name |-> <<"a", "d", "m">>], errno |-> 0],
    [rc |-> 0, entry |-> NoName, errno |-> 0],
    [rc |-> 0, entry |-> NoEntry, errno |-> 0],
    [rc |-> 0, entry |-> NoEntry, errno |-> ENOENT],
    [rc |-> EIO, entry |-> NoEntry, errno |-> EIO],
    [rc |-> EIO, entry |-> NoEntry, errno |-> 0] }

MCGids == {0, -1, 100}

MCCredStatuses == {0, ESRCH}

MCRlimitAnswers ==
  { GetrlimitFails, [cur |-> "soft", max |-> "hard"], [cur |-> "RLIM_INFINITY", max |-> "RLIM_INFINITY"] }

(* Resolver worlds for sigar_fqdn_get: a forward lookup failing, giving  *)
(* a dotted canonical name (the host's, or the "localhost.localdomain"   *)
(* of a hosts file, whose first label outgrows a short buffer), an alias *)
(* of the host, or nothing but its addresses; reverse answers dotted, an *)
(* alias of the host, or neither; every domain answer; and namelens      *)
(* where the hostname does not fit (5), fills the buffer but "." (6),    *)
(* cuts the domain (12), and leaves room (64).                           *)
MCFqdnFwd ==
  { NoHostent,
    [h_name |-> "host.example.com", h_aliases |-> <<>>, h_addr_list |-> <<"a1">>],
    [h_name |-> "localhost.localdomain", h_aliases |-> <<>>, h_addr_list |-> <<"a1">>],
    [h_name |-> "host", h_aliases |-> <<"localhost", "host.lan">>,
     h_addr_list |-> <<"a1", "a2">>],
    [h_name |-> "host", h_aliases |-> <<>>, h_addr_list |-> <<"a1", "a2">>] }

MCFqdnRev ==
  { [h_name |-> "host.example.com", h_aliases |-> <<>>],
    [h_name |-> "host", h_aliases |-> <<"host.lan">>],
    [h_name |-> "host", h_aliases |-> <<>>] }

MCFqdnWorlds ==
  [host : {"host"}, fwd : MCFqdnFwd, rev : [{"a1", "a2"} -> MCFqdnRev],
   domain : {"fail", "", "(none)", "example.com"}, shared : {FALSE},
   namelen : {5, 6, 12, 64}]

(* sigar_strerror: codes on each side of both range boundaries (20000 and *)
(* 40000 of sigar.h); a C-library message and none; a platform string    *)
(* and NULL; a 16-byte errbuf, so that the long texts are cut.           *)
MCErrs == {ENOENT, 20000, 20001, 20002, 40000, 40001}
MCLibTexts == {"", "No such file or directory"}
MCOsTexts == {"", "Bad ODM data"}

MCPids == {100, 101}

(* kill: success or ESRCH; WIN32: OpenProcess failing (error 87),        *)
(* TerminateProcess failing (error 5) or succeeding.                     *)
MCKillAnswers ==
  { [kill |-> 0], [kill |-> ESRCH],
    [opened |-> FALSE, terminated |-> FALSE, lastError |-> 87],
    [opened |-> TRUE, terminated |-> FALSE, lastError |-> 5],
    [opened |-> TRUE, terminated |-> TRUE, lastError |-> 0] }

=============================================================================

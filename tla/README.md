# TLA+ models of sigar (src/src/sigar.c)

This directory holds TLA+ models of the platform-independent core of sigar:
the `src/src/sigar.c` file, together with the TLC configurations that check them.
`spec.md` in the repository root describes what the code is meant to do. Every
definition here is translated from the C source. A definition mapped as
`spec_modelled` in `PROJECT.json` is the exception: it models a macro or type
from a header that is not under `src/`.

## 1. The system and its parts (inventory)

sigar.c is a library, and every public function runs synchronously on the
caller's thread. The concurrency it meets comes from outside:

- the kernel changes its interface list between two ioctls;
- devices are replaced while their names are kept;
- login and logout rewrite utmp while the library reads it;
- one `sigar_t` session is used for a sequence of calls.

The hard parts are therefore of four kinds:

- retry loops against a moving kernel;
- state cached in the session handle across calls;
- error paths that leave resources behind;
- sequences of legal calls (query, fail, query again, close) that reach an
  illegal state.

| Part | Code | State | Operations |
|---|---|---|---|
| Session handle | `sigar_open`, `sigar_close` (13-36) | `ifconf_buf`, `ifconf_len` (the cached SIOCGIFCONF buffer), pid and log fields | open, close |
| Growable collections | nine `*_list_create/grow/destroy` families (e.g. 716-744) | `number`, `size`, `data` | create, grow by a chunk, append, destroy |
| Interface enumerator | `sigar_net_interface_list_get` (1085-1170), `sigar_net_interface_list_destroy` (616-631) | session buffer, `lastlen`, a socket, the result list | adaptive-buffer SIOCGIFCONF retry loop, list building, destroy |
| Interface config | `sigar_net_interface_config_get` (980-1077), `hwaddr_aix_lookup` (925-953), `hwaddr_arp_lookup` (959-976) | the caller's config record | address (fatal), netmask, flags, loopback branch, destination/broadcast, hardware address by a build-time strategy |
| Who list | `sigar_who_list_get` (796-838) | the utmp stream, the who list | fopen, fread loop with filter, grow, fclose |
| FQDN resolver | `sigar_fqdn_get`, `fqdn_ip_get` (1172-1399) | the caller's name buffer | gethostname → gethostbyname → alias/addr reverse lookups → IP fallback → getdomainname |
| Formatting and fs type | `sigar_uptime_string` (148-178), `sigar_format_size` (181-224), `sigar_common_fs_type_get` and `sigar_fs_type_get` (428-490), `sigar_hwaddr_format` (902-907), `sigar_inet_ntoa` (1179-1212) | none | pure functions |
| Lookups | `sigar_user_name_get`, `sigar_group_name_get`, `sigar_user_id_get`, `sigar_proc_cred_name_get` (230-335), `sigar_resource_limit_get` and its table (841-899) | the caller's record | one C-library lookup per step, results copied into the caller's fields |
| Password prompt | `sigar_password_get` (1407-1472 Windows, 1538-1558 Unix), `termios_getpass` (1490-1535, HP-UX) | a static password buffer, the terminal's echo flag | prompt, one key or character per read, return |
| strerror, kill, pid | `sigar_pid_get` (38-46), `sigar_proc_kill` (48-80), `sigar_error_string` and `sigar_strerror` (84-143) | the pid cache and `errbuf` in the handle | single calls |

The parts interact in three ways:

- The config query reads the enumerator's session buffer. On AIX/OSF it scans
  that buffer for the AF_LINK record.
- The FQDN resolver uses the enumerator and the config query to find a
  non-loopback IP.
- All collections share one grow-and-destroy discipline.

## 2. Modules

| Module | Models |
|---|---|
| `SigarCollection` | Operators on one collection record `[number, size, data, store]`, where `store` is `"null"`, `"live"` or `"freed"`, the state of the data block. `Create`, `Grow` (size += chunk; the block may become NULL when realloc fails), `Insert`, `Destroy` (frees only when `size # 0`, then zeroes size). Instantiated `WITH K <- ` the list's chunk size. |
| `SigarWhoList` | `sigar_who_list_get` over a utmp file of record kinds (user process, empty name, other type). Actions `who_fopen_fail`, `who_fopen` (create), `who_fread` (one record: skip, or grow-if-full then append), `who_fclose`, `sigar_who_list_destroy` (repeatable), `who_requery`. Allocation failures are a bounded nondeterministic choice. The environment actions `utmp_login` and `utmp_logout` rewrite a slot (or append a record) between two freads, as login and logout do through `pututline`; they are bounded by `MaxRewrites`, and `touched` records the slots they changed since fopen. |
| `IfListAbstract` | The promise of the list query: a call either returns the kernel's list as it stood at one instant, or fails because of a genuine kernel error. It always returns. The kernel list changes freely. |
| `SigarIfList` | Session plus the enumerator. `platform` chooses how the kernel signals a too-small buffer: `"truncate"` (Linux: success with as many records as fit) or `"einval"` (Solaris/HP-UX: EINVAL, `ifc_len` unchanged). Actions: `sigar_open`, `sigar_close`, `ifconf_enter` (socket, which may fail), `ifconf_ioctl` (one pass of the retry loop, with three outcomes: fail, got everything and build the list, retry), `sigar_net_interface_list_destroy`, and the kernel's `kernel_add` / `kernel_remove`. Memory errors are recorded in a history variable `ub` and the run continues, so one trace shows the whole consequence. |
| `SigarIfConfig` | Extends `SigarIfList` with `sigar_net_interface_config_get(n)` for any name `n`, including one the kernel no longer has. The five outcomes are socket failure, SIOCGIFADDR failure, SIOCGIFFLAGS failure, loopback, and non-loopback. The hardware-address strategy `build` is fixed per run: `"ioctl"`, `"aixscan"` or `"arp"`. |
| `SigarInetNtoa` | `sigar_inet_ntoa` as pure operators: `StoredAddress` (the `s_addr` value as the eight bytes of the `sigar_uint64_t`), `MemoryByte` (the `in_addr` bytes in memory order, host byte order a build choice), `OctetText` (the digits of one byte, hundreds and tens only when needed), `InetNtoa` (four bytes with dots, the last dot overwritten). Used by `SigarFqdn` and checked in `SigarCalls`. |
| `SigarFormat` | The library's pure formatters as operators. `FormatSize` is `sigar_format_size`: sizes are `sigar_uint64_t` values held as base-1024 digit sequences (TLC integers are 32 bits), and `FormatLoop` is the loop that divides by 1024 and picks the `%.1f`/`%3d` form with the code's rounding `((remain*5)+256)/512`. `UptimeString` is `sigar_uptime_string` (days, `%2d:%02d` hours and minutes). `FsTypeGet` is `sigar_fs_type_get`: preset type, then the OS hook, then the common-name table, then NONE, with the clamp past `SIGAR_FSTYPE_MAX`. `HwaddrFormat` is `sigar_hwaddr_format` (`%02X` six times). |
| `SigarLookup` | The lookups that fill a caller's record, with the C library's answer as an input and the reentrant or plain lookup functions as a build choice. `sigar_user_name_get`, `sigar_group_name_get` and `sigar_user_id_get` return errno when the lookup fails or finds nothing, and read the entry through NULL when a reentrant lookup succeeds without one (recorded as the fault `null_deref`). `StrNCpy` and `TerminateLast` are `strncpy` and `buf[buflen-1] = '\0'`; `SprintfInt` is `sprintf(buf, "%d", gid)`. `sigar_proc_cred_name_get` chains the three steps with their early returns. `RlimitTable` is `sigar_rlimits[]` (which fields each resource's values go to), `RlimitLoop` the loop to the `{ -1 }` entry, `sigar_resource_limit_get` the whole call. |
| `SigarErrors` | Extends `SigarLookup` with the session functions that are not lookups. `sigar_strerror` dispatches on the code's range (`IsOsError`, `IsSigarError`; the boundaries are the sigar.h constants `SIGAR_START_ERROR` and `SIGAR_OS_START_ERROR`) to the platform layer's string, `sigar_error_string`, or `LibraryText`: the C-library branch in each build (GNU `strerror_r`, XSI `strerror_r` returning the error number or -1, `strerror`, WIN32 `FormatMessage`), which leaves the text in `errbuf` with `SSTRCPY`. `sigar_pid_get` is the handle's pid cache, `sigar_proc_kill` the Unix `kill` or the WIN32 OpenProcess / TerminateProcess / GetLastError sequence. |
| `FqdnResolve` | The part of `sigar_fqdn_get` before its IP fallback as operators over one resolver world and the caller's `namelen`: `IS_FQDN`, `H_ALIAS_MATCH`, `SIGAR_STRNCPY` / `FQDN_SET` (cut to `namelen - 1`), `GethostnameFits`, the reverse-lookup loop `AddrLoop`, `AppendDomain` (the domain copied into what is left of the buffer), `Resolve` and `FqdnGet`. After them, `SpecName`, the spec's section 4.4 chain written independently of the code. Used by `SigarFqdn` and checked in `SigarCalls`. |
| `SigarCalls` | A caller of the single-shot functions of `SigarFormat`, `SigarInetNtoa`, `SigarLookup`, `SigarErrors` and `FqdnResolve`. Each step makes one call and records `last = [fn, in, out]`; inputs come from small sets of boundary values, or differ from a base in one position (addresses from the previous address, hardware addresses from six equal bytes, getrlimit answers from all-unlimited), so every input is reached without forming the product of the inputs of all functions. The properties compare each output with a reference definition. |
| `SigarPassword` | `sigar_password_get`. On Windows (`sigar_password_get_win`, `win_getch`) a line editor over `_getch` into a static buffer, with backspace, delete, ESC, Ctrl+C (exit), Ctrl+Z and EOF. On HP-UX (`sigar_password_get_unix`, `tp_getchar`) `termios_getpass`: echo off, `getchar` into a static buffer, any character that is not printable or does not fit restarts the line. Other Unixes call the C library's `getpass`, which is outside this code and returns NULL or a line. `process_restart` is the user starting the program again after Ctrl+C. `line` is the history of the line as the user edited it; `ub` records writes outside the buffer. |
| `SigarFqdn` | Extends `SigarIfConfig` and `FqdnResolve` with `sigar_fqdn_get` and `fqdn_ip_get`. Names are strings; `IS_FQDN`, `H_ALIAS_MATCH`, `SIGAR_STRNCPY` / `FQDN_SET` and the domain concatenation are modelled by what they do to them. Each call meets a resolver "world": the gethostname answer, the gethostbyname hostent (or NULL), a gethostbyaddr answer per address (or NULL), the getdomainname answer, and whether the C library shares one static hostent. `fqdn_resolve` is everything up to the IP fallback, in one step, because it touches no session state. The IP fallback is four steps that drive the real list and config actions while the kernel changes: `fqdn_ip_list` (`ifconf_enter`), `fqdn_ip_listed`, `fqdn_ip_config` (one `sigar_net_interface_config_get` per listed name) and `fqdn_ip_done` (destroy). The call records `SpecName` in the history variable `expect`. |
| `MC_*` | Model values and the resolver answer sets. |

State correspondence in `SigarIfList`:

| Variable | Models |
|---|---|
| `ifconf_buf` / `ifconf_len` | `sigar->ifconf_buf` / `sigar->ifconf_len` |
| `lastlen` | the local `lastlen` |
| `ifconf_recs` | the records in the session buffer, slot by slot; slots past the last answer keep older records |
| `iflist` | the caller's `sigar_net_interface_list_t` |
| `sockets` | descriptors opened and not closed |
| `kifs` and `khw` | the kernel's list and hardware addresses |

Buffer lengths and `ifc_len` are counted in `struct ifreq` records.
`iflist.size` is in bytes (`RecSize` per record), as the code sets it.

The refinement: `SigarIfList` implements `IfListAbstract` under the mapping
`pc <- IF pc = "loop" THEN "busy" ELSE pc` and
`result <- iflist.data`. Every loop pass that neither fails nor finishes is a
stuttering step of the abstract call.

## 3. Runs

| Run (cfg) | Expect | Shows |
|---|---|---|
| `SigarIfList.cfg` | pass | `TypeOK` (the buffer never exceeds one chunk beyond the longest list) and `IfListRefinement`. Under both overflow signals, with interfaces appearing and disappearing between retries, each query returns one consistent snapshot, fails only on a genuine error, and always terminates. |
| `SigarIfList_MemorySafe.cfg` | violation | After an ioctl error (line 1123) the freed session buffer is left dangling. `sigar_close` frees it again. |
| `SigarIfList_SocketsReleased.cfg` | violation | The same error path returns without `close(sock)`. Spec §5 says sockets are released on every exit path. |
| `SigarWhoList.cfg` | pass | `WhoListFaithful`: while login and logout rewrite utmp between freads, every listed entry is a user record at its position, read in file order; every untouched slot already passed is listed exactly when it is a user record; the list is in the fewest whole chunks. `NoDoubleFree`: destroy may be repeated. |
| `SigarIfConfig.cfg` | violation | `FlagsBestEffort`: the spec makes only the address lookup fatal, with flags best effort, but a SIOCGIFFLAGS failure after SIOCGIFADDR succeeded closes the socket and returns errno (line 1034). |
| `SigarIfConfig_aix.cfg` | violation | `HwaddrCurrent` for the AIX scan: a device replaced since the last enumeration is reported with its predecessor's address. |
| `SigarCalls.cfg` | pass | `InetNtoaDotted`: the digit loop prints exactly the dotted-decimal address on both byte orders at every digit-count boundary. `FormatSizeAccurate`: the four-character text of `sigar_format_size` names the right unit, and its value is within half a displayed unit of the exact size, for sizes at every unit boundary up to the 7-digit maximum. `UptimeReadsBack`: the uptime text reads back as the days, hours and minutes of the input. `FsTypeNamed`: the type has a name and follows the preset > OS > table > NONE precedence. `HwaddrReadsBack`: the hardware address text reads back as its six bytes. `CredNamesTerminated`: `sigar_proc_cred_name_get` writes a field only after the steps before it succeeded, and what it writes is a terminated string that fits: the name cut to the field, or the gid in decimal. `RlimitFaithful`: every field of the caller's `sigar_resource_limit_t` is getrlimit's value for its own resource, or NOTIMPL. `FqdnNameCut`: in a buffer of any size, `sigar_fqdn_get` fails only when the hostname does not fit, goes to the IP fallback exactly when the spec's chain does, and otherwise leaves the spec's name cut to `namelen - 1` characters, down to `host.` when the hostname fills the buffer but two bytes (lines 1261, 1383). `StrerrorText`: `sigar_strerror` takes each code range's text from its own source (platform layer, sigar's table, C library), the C-library text is what `errbuf` holds, terminated within it, and the boundary codes 20000 and 40000 fall to the lower range. |
| `SigarFqdn.cfg` | pass | `FqdnFallbackOrder`: with well-behaved resolver answers, the returned name is the first of the spec's chain. The chain is canonical name, then alias of this host, then reverse lookups in address order, then `hostname.domain` (not for `""` or `"(none)"`), then the address of a non-loopback interface. `FqdnReturns`: the IP fallback always returns, whatever the kernel and the list and config errors do. |
| `SigarFqdn_hostile.cfg` | violation | `FqdnFallbackOrder`: `H_ALIAS_MATCH` is a bare prefix test against `h_name`, so `hostile.example.com` is returned for host `host` (line 1258). |
| `SigarFqdn_nullrev.cfg` | violation | `NoNullDeref`: an address without a PTR record makes `gethostbyaddr` return NULL, and `q->h_name` is read (line 1344). |
| `SigarPassword.cfg` | pass | `PasswordInBounds`: neither editor writes outside its buffer, not below it on a delete at `n = 0` and not past it with a line that fills it. `PasswordTyped`: the returned password is the line as the user typed and edited it; characters of earlier calls and of abandoned lines left in the static buffer never show. |
| `SigarPassword_eof.cfg` | violation | `PasswordReturns`: on HP-UX, `termios_getpass` stores getchar's EOF, which fails the printable test, so the line restarts and the loop reads EOF for ever with echo off (line 1509). The Windows reader returns NULL at EOF. |

`PROJECT.json` lists the findings, the hazards with their source lines, and a
mutant for every property of the passing runs. Each mutant is a plausible
slip in the mapped code that the property catches:

- grow when not needed;
- accept a full buffer;
- grow one record late;
- append the wrong element;
- destroy without zeroing the size;
- the tens digit dropped after a hundreds digit;
- the `"(none)"` test forgotten;
- the IP loop index not advanced;
- the size rounding truncated instead of rounded;
- the hours of the uptime not taken modulo 24;
- the fs type clamp letting `SIGAR_FSTYPE_MAX` through;
- ESC not resetting `n`;
- the `&& n` guard of backspace dropped;
- `%X` instead of `%02X` in the hardware address;
- the terminator after `strncpy` not written;
- the rlimit loop testing the next table entry;
- `FQDN_SET` as a plain `strncpy` (no room kept for the terminator);
- `>=` instead of `>` in the test for platform-layer codes.

The model also shows behaviours that no run checks:

- an empty kernel list leaks the list's malloc(0) block;
- a C library sharing one hostent cuts the reverse loop short (line 1340);
- a failing SIOCGIFHWADDR leaves the empty string rather than the null
  address the other builds give (line 1052); the spec does not say which;
- `sigar_proc_kill` and `sigar_user_id_get` are driven by the `SigarCalls`
  harness, but they pass the system's answer through and no property checks
  them beyond the NULL entry `sigar_user_id_get` shares with
  `sigar_user_name_get`;
- a failed malloc or realloc in the who list is reported as success, and the
  next record is written through NULL (the model records it in `ub` when
  `MaxAllocFailures > 0`);
- the IP fallback copies the address text with `SIGAR_SSTRCPY` into the
  caller's buffer whatever `namelen` is (line 1235); the model records an
  overflow in `fub`.

- a reentrant passwd lookup that finds no entry returns 0 with a NULL
  result, and `pw->pw_name` is read (line 248): a process whose uid has no
  passwd entry crashes `sigar_proc_cred_name_get`;
- a lookup that returns NULL without setting errno makes the call return
  SIGAR_OK with the caller's field unwritten (line 244);
- on WIN32, a code `FormatMessage` has no message for leaves `errbuf` as the
  previous call wrote it, and that older text is returned (line 116);
- `sigar_pid_get` on a handle whose cache a parent filled before `fork`
  returns the parent's pid (line 40).

The who-list and overflow behaviours were violation runs in an earlier
version. The run budget now goes to the password reader.

Their hazards in `PROJECT.json` describe the trace.

### Bounds

- **SigarIfList:**
  - Three interfaces with a chunk of two records, so the list can outgrow the
    first buffer and a second grow happens.
  - `MaxChanges = 2` allows an add and a remove, between retries or between
    queries.
  - `MaxFaults = 1` allows one socket or ioctl error.
  - Two hardware addresses let a device be replaced by a different one.
  - These bounds cover all of the following:
    - the exact-fit case (two records in a two-record buffer);
    - growth under each platform;
    - a list that shrinks or grows mid-loop;
    - error then close;
    - the empty list.
- **SigarIfConfig:**
  - Two interfaces, one of them loopback, with a chunk of one record.
  - This keeps the composition at about 0.8 M states while still giving
    stale slots in the buffer.
- **SigarWhoList:**
  - Files of up to five records with a chunk of two, which covers several
    grows and records on either side of a grow.
  - Two rewrites: a logout and a login, or two of either, before or after
    the reader passes the slot, and a login that appends past the end.

- **SigarCalls (formatters):**
  - Octets {0, 9, 10, 99, 100, 105, 255}: both sides of every digit-count
    test of the loop and a zero tens digit. An address differs from the
    previous one in one byte, which reaches every octet in every position.
  - Sizes: 0, 972/973 (the `< 973` test), 1023/1024, values whose remainder
    rounds up to a tenth of 10 (the 9.95 boundary), one of each unit up to
    the largest 7-digit value, and the `SIGAR_FIELD_NOTIMPL` sentinel.
  - Uptimes: 0, 59, 60, an hour either side, a day either side, 90061
    (1 day 1:01), two days, and the largest 32-bit value.
  - Fs types: presets 0, 2, 7 (past the maximum) and 9; OS answers 0, 3
    and 7; names in and out of the common table.
- **SigarCalls (hardware addresses and lookups):**
  - Hardware bytes {0, 15, 16, 171, 255}: both sides of the zero padding.
  - A four-byte name field: `root` is cut, `bin` and `adm` fill it exactly,
    `wheel` is cut; gids 0, -1 (the "Group #-1" case the code comments on)
    and 100 (which fills the field with its terminator).
  - Lookups found, missing, failing, and missing or failing with errno 0;
    a group without a name; the credentials lookup failing; both builds.
  - getrlimit failing, a finite limit with different soft and hard values,
    or unlimited, for each resource in turn, on builds with and without
    RLIMIT_RSS.
- **SigarCalls (FQDN and errors):**
  - Resolver worlds: the forward lookup failing, giving `host.example.com`,
    giving `localhost.localdomain` (a canonical name whose first label
    outgrows a short buffer), an alias of the host, or addresses only; the
    three reverse answers for each of two addresses; the four domain
    answers; `namelen` 5 (the hostname does not fit), 6 (`host.`), 12 (the
    domain is cut) and 64.
  - Error codes 2, 20000, 20001 (`SIGAR_ENOTIMPL`), 20002, 40000 and 40001:
    both sides of both range boundaries. A C-library message and none, a
    platform string and NULL, a previous `errbuf` holding a message or
    nothing, all five builds, and a 16-byte `errbuf` so that the long
    message is cut (the real one holds 256).
  - pid caches empty or holding either of two pids; `kill` succeeding or
    failing with ESRCH; OpenProcess failing, TerminateProcess failing or
    succeeding; signals 0 and 15.
- **SigarPassword:** a buffer of three bytes (two characters and the
  terminator), all three builds, and four ordinary keys per call. Four keys
  fill the buffer, overrun it by one, delete below it, and abandon a line
  with ESC or an unprintable character before the line returned.
- **SigarFqdn:**
  - Two interfaces: `i1` is the loopback at 127.0.0.1 and `i2` is at 10.0.0.5.
  - One kernel change and one fault (a failing socket, ioctl or gethostname).
  - A host with two addresses.
  - Forward answers: NULL, a dotted canonical name, an alias list holding `localhost` and `host.lan`, and addresses only.
  - Three reverse answers: dotted, own alias, and neither.
  - Four domain answers: fail, `""`, `"(none)"` and `example.com`.
  - `namelen` is 64; truncation is checked on the resolver part alone, in `SigarCalls`.
  - Every step of the chain is the first to succeed in some world, and the IP fallback meets a removed interface, a loopback and a list error.

### Fairness

Only `ifconf_ioctl` is weakly fair. Once the loop has started, the library
runs it to completion on the caller's thread. The caller (open, query, close,
destroy) and the kernel (add, remove, replace) are not obliged to act. The
abstract spec's fairness on `Return`/`Fail` is what the refinement must
establish. That is the termination of the retry loop, which the code's
"same length twice" test (line 1121) cannot provide, because `ifc_len` is reset
before every call.

In `SigarFqdn`, each step of the IP fallback and the list loop is weakly fair,
because `sigar_fqdn_get` runs to completion on its caller's thread. The kernel
and the caller's open and close are not fair.

In `SigarPassword`, `win_getch` and `tp_getchar` are weakly fair: once the
input is at end of file `_getch` and `getchar` return at once, so a read in
progress is always enabled and nothing but the call's own loop is waiting.
Ordinary keys are bounded per call (`MaxKeys`), so the user is not assumed to
type for ever; the caller is not obliged to call again.

## 4. Not modelled, and why

- **The AF_LINK family filter (AIX) and `sigar_netif_configured` (OSF/1) in
  the enumerator.** The records are abstracted to one record per interface.
- **Netmask, MTU and metric values.** These are best-effort fields that no
  property tells apart.
- **`fork` itself.** `sigar_pid_get` is called on a handle whose cache
  another process filled, which is what a child sees; no run checks the
  result, because neither the spec nor a comment says what a session used
  across `fork` should return.
- **`CloseHandle` clearing the last error.** `sigar_proc_kill` reads
  `GetLastError()` after `CloseHandle`; the model takes it to be the code of
  the call that failed.
- **`sigar_net_connection_type_get` and `sigar_net_connection_state_get`
  (665-714).** They map header constants to string literals; there is no
  state and nothing a property could tell apart beyond the table itself.
- **The other eight collection families (337-614, 633-663).** Their create,
  grow and destroy are the same code as the who list's, which
  `SigarCollection` models; `sigar_proc_args_destroy`, which also frees the
  elements, is the same code as `sigar_net_interface_list_destroy`.
- **The WIN32 stubs of `sigar_who_list_get` and `sigar_resource_limit_get`
  (746-772).** One returns `SIGAR_ENOTIMPL`; the other sets every field to
  all ones and writes the stack and address-space limits from `VirtualQuery`
  and a constant, with no loop or table a property could tell apart.
- **RLIM_INFINITY against SIGAR_FIELD_NOTIMPL.** Their values come from
  headers; the model keeps them apart and lists the 64-bit Linux collision
  as a hazard.
- **The C library's `getpass`.** It is outside this code; the model lets it
  return NULL or a line.
- **Printed text of the password prompt** (prompt, bell, echoed spaces).
  No property is about the terminal's display.
- **The errno returned after logging (line 1279).** The model tells success
  from failure, not one errno from another.
- **gethostname on platforms that truncate silently.** The model uses glibc's
  ENAMETOOLONG.

## 5. Plan

Built so far:

1. `SigarCollection`, `SigarWhoList`, with utmp rewritten between freads.
2. `SigarIfList` with the refinement to `IfListAbstract`.
3. `SigarIfConfig` with the three hardware-address builds.
4. `SigarInetNtoa` and `SigarFormat`: the pure formatters and fs-type
   classification, each checked against a reference definition.
5. `SigarFqdn`, composed with the list and config queries.
6. `SigarPassword`: the Windows and HP-UX readers, with end of file and
   Ctrl+C.
7. `SigarLookup` and the `SigarCalls` harness: user and group names,
   credentials, resource limits, hardware-address text.
8. `SigarErrors`: `sigar_strerror`, `sigar_pid_get`, `sigar_proc_kill`;
   `FqdnResolve`, the resolver part of `sigar_fqdn_get` for any `namelen`.

Left:

9. An abstract specification of the FQDN chain, with `SigarFqdn` shown to
   refine it. The OSF/1 `sigar_netif_configured` filter.

----------------------------- MODULE SigarErrors -----------------------------
(***************************************************************************)
(* The session functions of src/src/sigar.c that are not lookups of the   *)
(* machine's state: sigar_strerror with sigar_error_string (the text of an *)
(* error code, kept in the session's errbuf), sigar_pid_get (the pid cached *)
(* in the handle) and sigar_proc_kill.  What the C library, Windows and    *)
(* the platform layer answer is an input.  The error ranges and the size  *)
(* of errbuf come from sigar.h and sigar_private.h and are constants.      *)
(***************************************************************************)
EXTENDS SigarLookup, Integers, Sequences, TLC

CONSTANTS
  SIGAR_START_ERROR,     \* codes above it are sigar's own
  SIGAR_OS_START_ERROR,  \* codes above it are the platform layer's
  SIGAR_ENOTIMPL,        \* SIGAR_START_ERROR + 1
  ErrbufLen              \* sizeof(sigar->errbuf)

ASSUME /\ SIGAR_START_ERROR < SIGAR_ENOTIMPL
       /\ SIGAR_ENOTIMPL <= SIGAR_OS_START_ERROR
       /\ ErrbufLen > 1

(* The builds of the C-library branch: HAVE_STRERROR_R_GLIBC, an XSI      *)
(* strerror_r returning the error number (POSIX.1-2008) or -1 (older),    *)
(* plain strerror, and WIN32's FormatMessage.                             *)
StrerrorBuilds == {"glibc", "xsi", "xsi_old", "plain", "win32"}

sigar_error_string(err) ==
  IF err = SIGAR_ENOTIMPL
  THEN "This function has not been implemented on this platform"
  ELSE "Error string not specified yet"

(* SIGAR_SSTRCPY(sigar->errbuf, buf): cut to sizeof(errbuf) - 1. *)
SSTRCPY(s) == SubSeq(s, 1, IF Len(s) < ErrbufLen THEN Len(s) ELSE ErrbufLen - 1)

(* The C library's text for a code it has no message for. *)
UnknownError(err) == "Unknown error " \o ToString(err)

(* errbuf after the C-library branch; lib is the library's message for   *)
(* err, "" when it has none.  GNU strerror_r returns the message (or     *)
(* errbuf holding the unknown text, which SSTRCPY copies onto itself),    *)
(* which is copied; XSI strerror_r writes errbuf itself and leaves buf   *)
(* NULL, except that an older one returns -1 for an unknown code and      *)
(* "Unknown Error" is copied; strerror's result is copied; FormatMessage *)
(* writes errbuf when it finds a message and leaves it alone when not.   *)
LibraryText(build, err, lib, errbuf) ==
  LET text == IF lib # "" THEN lib ELSE UnknownError(err)
  IN CASE build = "win32" -> IF lib # "" THEN SSTRCPY(lib) ELSE errbuf
       [] build = "xsi_old" /\ lib = "" -> SSTRCPY("Unknown Error")
       [] OTHER -> SSTRCPY(text)

(* Fault-injection variant of IsOsError: the boundary code included. *)
IsOsErrorInclusive(err) == err >= SIGAR_OS_START_ERROR

IsOsError(err) == err > SIGAR_OS_START_ERROR

IsSigarError(err) == err > SIGAR_START_ERROR

(* sigar_strerror: the platform layer's string (os, "" for NULL) above   *)
(* SIGAR_OS_START_ERROR, sigar's own above SIGAR_START_ERROR, else the     *)
(* C library's text left in errbuf.  ret is the text returned.            *)
sigar_strerror(build, err, lib, os, errbuf) ==
  CASE IsOsError(err) ->
         [ret |-> IF os # "" THEN os ELSE "Unknown OS Error", errbuf |-> errbuf]
    [] IsSigarError(err) -> [ret |-> sigar_error_string(err), errbuf |-> errbuf]
    [] OTHER -> LET e == LibraryText(build, err, lib, errbuf)
                IN [ret |-> e, errbuf |-> e]

-----------------------------------------------------------------------------
(* sigar_pid_get (not the Linux build): getpid() the first time, cached   *)
(* in the handle (0 is no pid).                                           *)
sigar_pid_get(cache, getpid) ==
  LET pid == IF cache = 0 THEN getpid ELSE cache
  IN [ret |-> pid, cache |-> pid]

(* sigar_proc_kill: status, and whether a signal reached the process.    *)
(* On Unix, kill()'s answer (SIGAR_OK or its errno).  On WIN32,          *)
(* OpenProcess may fail; signal 0 only tests that it opened; any other   *)
(* signal is TerminateProcess; CloseHandle; and a failure returns         *)
(* GetLastError(), the code of the call that failed.                      *)
sigar_proc_kill(win, signum, os) ==
  IF ~win
  THEN [status |-> os.kill, signalled |-> os.kill = SIGAR_OK /\ signum # 0]
  ELSE LET terminated == os.opened /\ signum # 0 /\ os.terminated
       IN [status |-> IF os.opened /\ (signum = 0 \/ os.terminated) THEN SIGAR_OK
                      ELSE os.lastError,
           signalled |-> terminated]

=============================================================================

----------------------------- MODULE SigarLookup -----------------------------
(***************************************************************************)
(* The single-shot lookups of src/src/sigar.c that fill a caller's record: *)
(* sigar_user_name_get, sigar_group_name_get, sigar_user_id_get and their *)
(* composition sigar_proc_cred_name_get (the passwd and group databases    *)
(* are the C library's answer, an input), and sigar_resource_limit_get     *)
(* (getrlimit's answer per resource is an input).  The reentrant and the  *)
(* plain lookup functions are a build choice (HAVE_GETPWUID_R and kin).   *)
(* A caller's char buffer is a sequence of characters; a name is a        *)
(* sequence of characters too.                                            *)
(***************************************************************************)
EXTENDS SigarFormat, Integers, Sequences

NUL == "NUL"
SIGAR_OK == 0

(* The entry a lookup finds: none, or (for groups) one whose gr_name is  *)
(* NULL.                                                                 *)
NoEntry == [entry |-> "none"]
NoName  == [entry |-> "no_name"]

(* The status of a call whose process has crashed: it never returns. *)
CRASHED == -1

(* "%d" of an int as characters. *)
IntChars(n) ==
  LET t == IF n < 0 THEN "-" \o Decimal(-n) ELSE Decimal(n)
  IN [i \in 1..Len(t) |-> SubSeq(t, i, i)]

(* strncpy(buf, src, buflen): src's characters, then NULs to the end. *)
StrNCpy(buf, src) == [i \in DOMAIN buf |-> IF i <= Len(src) THEN src[i] ELSE NUL]

(* sprintf(buf, "%d", n): the digits and their NUL from buf[0] on, the   *)
(* rest untouched; the caller's buflen is not looked at.                 *)
SprintfInt(buf, n) ==
  LET t == IntChars(n) \o <<NUL>>
  IN [i \in DOMAIN buf |-> IF i <= Len(t) THEN t[i] ELSE buf[i]]

SprintfIntOverflows(buf, n) == Len(IntChars(n)) + 1 > Len(buf)

(* Fault-injection variant of TerminateLast: the terminator not written. *)
TerminateLastNot(buf) == buf

(* buf[buflen-1] = '\0' *)
TerminateLast(buf) == [buf EXCEPT ![Len(buf)] = NUL]

(* The answer of getpwuid_r / getgrgid_r / getpwnam_r (rc: 0 or an error *)
(* number; entry: what *result points at, NoEntry for NULL) and, in the  *)
(* plain build, of getpwuid / getgrgid / getpwnam (NULL when rc # 0 or   *)
(* there is no entry, errno then being errno).                           *)
Found(a) == a.rc = SIGAR_OK /\ a.entry # NoEntry

(* How a lookup returns before using the entry: the reentrant call      *)
(* failing, or the plain call returning NULL, both returning errno (not *)
(* the reentrant call's result); <<>> when it goes on.                  *)
LookupFails(r, a) ==
  CASE r /\ a.rc # SIGAR_OK -> <<a.errno>>
    [] ~r /\ ~Found(a)       -> <<a.errno>>
    [] OTHER                 -> <<>>

(* sigar_user_name_get: strncpy the name, terminate.  A reentrant call   *)
(* that succeeds without an entry leaves pw NULL, and pw->pw_name is     *)
(* read.                                                                 *)
sigar_user_name_get(r, a, buf) ==
  CASE LookupFails(r, a) # <<>> ->
         [status |-> LookupFails(r, a)[1], buf |-> buf, fault |-> "none"]
    [] a.entry = NoEntry ->
         [status |-> CRASHED, buf |-> buf, fault |-> "null_deref"]
    [] OTHER ->
         [status |-> SIGAR_OK, buf |-> TerminateLast(StrNCpy(buf, a.entry.name)),
          fault |-> "none"]

(* sigar_group_name_get: the name when there is a group with a name,    *)
(* else the gid printed in decimal; then terminate.                     *)
sigar_group_name_get(r, a, gid, buf) ==
  LET named == a.entry \notin {NoEntry, NoName}
  IN CASE LookupFails(r, a) # <<>> ->
            [status |-> LookupFails(r, a)[1], buf |-> buf, fault |-> "none"]
       [] OTHER ->
            [status |-> SIGAR_OK,
             buf |-> TerminateLast(IF named THEN StrNCpy(buf, a.entry.name)
                                           ELSE SprintfInt(buf, gid)),
             fault |-> IF ~named /\ SprintfIntOverflows(buf, gid)
                       THEN "overflow" ELSE "none"]

(* sigar_user_id_get: *uid = pw->pw_uid, with the same NULL entry.       *)
sigar_user_id_get(r, a, uid) ==
  CASE LookupFails(r, a) # <<>> ->
         [status |-> LookupFails(r, a)[1], uid |-> uid, fault |-> "none"]
    [] a.entry = NoEntry -> [status |-> CRASHED, uid |-> uid, fault |-> "null_deref"]
    [] OTHER -> [status |-> SIGAR_OK, uid |-> a.entry.uid, fault |-> "none"]

(* sigar_proc_cred_name_get: the process's credentials, then the user    *)
(* name of its uid, then the group name of its gid, into the caller's    *)
(* record, returning at the first failing status.                        *)
sigar_proc_cred_name_get(cred, r, ua, ga, rec) ==
  LET u == sigar_user_name_get(r, ua, rec.user)
      g == sigar_group_name_get(r, ga, cred.gid, rec.group)
  IN CASE cred.status # SIGAR_OK ->
            [status |-> cred.status, rec |-> rec, fault |-> "none"]
       [] u.status # SIGAR_OK ->
            [status |-> u.status, rec |-> [rec EXCEPT !.user = u.buf], fault |-> u.fault]
       [] OTHER ->
            [status |-> g.status, rec |-> [user |-> u.buf, group |-> g.buf],
             fault |-> g.fault]

-----------------------------------------------------------------------------
(* sigar_resource_limit_get *)

(* The value written for a limit the platform cannot report: every bit  *)
(* of the sigar_uint64_t set.                                            *)
NOTIMPL == "NOTIMPL"

(* The resource -1 of the { -1 } entry that ends sigar_rlimits[]. *)
RLIMIT_END == "-1"

(* sigar_rlimits[]: each resource with the fields of                     *)
(* sigar_resource_limit_t its _cur and _max values go to (the offsets     *)
(* RlimitOffsets computes), ended by { -1 }.  RLIMIT_RSS is               *)
(* RLIMIT_UNSUPPORTED on a platform without it.                           *)
RlimitTable(rss) ==
  << [resource |-> "CPU",    cur |-> "cpu_cur",            max |-> "cpu_max"],
     [resource |-> "FSIZE",  cur |-> "file_size_cur",      max |-> "file_size_max"],
     [resource |-> "DATA",   cur |-> "data_cur",           max |-> "data_max"],
     [resource |-> "STACK",  cur |-> "stack_cur",          max |-> "stack_max"],
     [resource |-> "CORE",   cur |-> "core_cur",           max |-> "core_max"],
     [resource |-> IF rss THEN "RSS" ELSE "UNSUPPORTED",
                             cur |-> "memory_cur",         max |-> "memory_max"],
     [resource |-> "NPROC",  cur |-> "processes_cur",      max |-> "processes_max"],
     [resource |-> "NOFILE", cur |-> "open_files_cur",     max |-> "open_files_max"],
     [resource |-> "AS",     cur |-> "virtual_memory_cur", max |-> "virtual_memory_max"],
     [resource |-> RLIMIT_END] >>

(* Fault-injection variant of RlimitEnds: the loop test looking one      *)
(* entry ahead, so the last resource is never read.                      *)
RlimitEndsEarly(table, i) == table[i + 1].resource = RLIMIT_END

(* for (i=0; sigar_rlimits[i].resource != -1; i++) ends here. *)
RlimitEnds(table, i) == table[i].resource = RLIMIT_END

(* getrlimit returning -1. *)
GetrlimitFails == [failed |-> TRUE]

(* One pass of the loop per table entry until resource is -1: an        *)
(* unsupported resource or a failing getrlimit gives NOTIMPL for both     *)
(* values, and RlimitSet stores them at the entry's offsets.  getrlimit   *)
(* maps each resource to its answer (a [cur, max] record or GetrlimitFails).     *)
RECURSIVE RlimitLoop(_, _, _, _)
RlimitLoop(table, i, getrlimit, rlimit) ==
  IF RlimitEnds(table, i) THEN rlimit
  ELSE LET e  == table[i]
           rl == IF e.resource = "UNSUPPORTED" \/ getrlimit[e.resource] = GetrlimitFails
                 THEN [cur |-> NOTIMPL, max |-> NOTIMPL]
                 ELSE getrlimit[e.resource]
       IN RlimitLoop(table, i + 1, getrlimit,
                     [rlimit EXCEPT ![e.cur] = rl.cur, ![e.max] = rl.max])

(* sigar_resource_limit_get: rlimit->unlimited = RLIM_INFINITY, then the  *)
(* loop over the table.                                                  *)
sigar_resource_limit_get(rss, getrlimit, rlimit) ==
  RlimitLoop(RlimitTable(rss), 1, getrlimit,
             [rlimit EXCEPT !["unlimited"] = "RLIM_INFINITY"])

=============================================================================

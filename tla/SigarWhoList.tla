----------------------------- MODULE SigarWhoList -----------------------------
(***************************************************************************)
(* sigar_who_list_get (src/src/sigar.c) over the SigarCollection list: it  *)
(* reads the utmp file one record at a time, skips records with an empty  *)
(* user name or a type other than USER_PROCESS, and appends the rest,     *)
(* growing the list first when it is full.  The caller destroys the list, *)
(* possibly twice, and may query again.  A record is abstracted to its    *)
(* kind; the list stores the position of the record it was copied from.   *)
(* The file is shared: login and logout rewrite it (outside this code, by *)
(* pututline: a logout turns its slot into a dead record in place, a      *)
(* login reuses a slot that holds no session or appends one) while it is  *)
(* being read, and sigar_who_list_get takes no lock.                      *)
(***************************************************************************)
EXTENDS Naturals, Sequences

CONSTANTS
  SIGAR_WHO_LIST_MAX,  \* the chunk size of sigar_who_list_t
  MaxRecords,          \* bound on the length of the utmp file
  MaxAllocFailures,    \* bound on malloc/realloc returning NULL
  MaxRewrites          \* bound on logins and logouts rewriting the file

Kinds == {"user", "empty_name", "other_type"}

VARIABLES
  utmp,        \* the utmp file: a sequence of record kinds
  pos,         \* records read so far by fread
  pc,          \* "start", "reading", "returned", "destroyed", "failed"
  wholist,     \* the caller's sigar_who_list_t
  allocFails,  \* allocation failures so far
  ub,          \* memory errors that have happened (history)
  rewrites,    \* logins and logouts so far
  touched      \* slots rewritten since the last fopen (history)

vars == <<utmp, pos, pc, wholist, allocFails, ub, rewrites, touched>>

L == INSTANCE SigarCollection WITH K <- SIGAR_WHO_LIST_MAX

(* Outcomes of one allocation: it may fail while failures remain. *)
AllocOutcomes == IF allocFails < MaxAllocFailures THEN BOOLEAN ELSE {TRUE}

CountFailure(ok) == allocFails' = IF ok THEN allocFails ELSE allocFails + 1

(* The record filter of the read loop: a non-empty ut_name and, where the *)
(* platform has it, ut_type USER_PROCESS.                                 *)
Listed(kind) == kind = "user"

-----------------------------------------------------------------------------
(* fopen of the utmp file fails: errno is returned, the list untouched. *)
who_fopen_fail ==
  /\ pc = "start"
  /\ pc' = "failed"
  /\ UNCHANGED <<utmp, pos, wholist, allocFails, ub, rewrites, touched>>

(* fopen succeeds; sigar_who_list_create. *)
who_fopen ==
  /\ pc = "start"
  /\ \E ok \in AllocOutcomes :
       /\ wholist' = L!Create(ok)
       /\ CountFailure(ok)
  /\ pos' = 0
  /\ pc' = "reading"
  /\ touched' = {}
  /\ UNCHANGED <<utmp, ub, rewrites>>

(* One fread of a whole record: skip it, or grow if full and store it.    *)
(* Storing through a NULL data pointer is recorded in ub.                 *)
who_fread ==
  /\ pc = "reading"
  /\ pos < Len(utmp)
  /\ pos' = pos + 1
  /\ IF ~Listed(utmp[pos + 1])
       THEN UNCHANGED <<wholist, allocFails, ub>>
       ELSE \E ok \in AllocOutcomes :
              LET grown == IF L!NeedsGrow(wholist)
                             THEN L!Grow(wholist, ok) ELSE wholist
              IN /\ wholist' = L!Insert(grown, pos + 1)
                 /\ CountFailure(ok \/ ~L!NeedsGrow(wholist))
                 /\ ub' = ub \cup (IF grown.store = "null"
                                     THEN {"null_write"} ELSE {})
  /\ UNCHANGED <<utmp, pc, rewrites, touched>>

(* fread returns 0 at the end of the file: fclose, return SIGAR_OK. *)
who_fclose ==
  /\ pc = "reading"
  /\ pos = Len(utmp)
  /\ pc' = "returned"
  /\ UNCHANGED <<utmp, pos, wholist, allocFails, ub, rewrites, touched>>

(* sigar_who_list_destroy, after a successful query; may be repeated. *)
sigar_who_list_destroy ==
  /\ pc \in {"returned", "destroyed"}
  /\ wholist' = L!Destroy(wholist)
  /\ ub' = ub \cup (IF L!Frees(wholist) /\ wholist.store = "freed"
                      THEN {"double_free"} ELSE {})
  /\ pc' = "destroyed"
  /\ UNCHANGED <<utmp, pos, allocFails, rewrites, touched>>

(* The caller queries again. *)
who_requery ==
  /\ pc \in {"destroyed", "failed"}
  /\ pc' = "start"
  /\ UNCHANGED <<utmp, pos, wholist, allocFails, ub, rewrites, touched>>

(* Environment: another process logs out; pututline marks the session's *)
(* slot as a dead record in place.                                      *)
utmp_logout ==
  /\ rewrites < MaxRewrites
  /\ \E i \in DOMAIN utmp :
       /\ utmp[i] = "user"
       /\ utmp' = [utmp EXCEPT ![i] = "other_type"]
       /\ touched' = touched \cup {i}
  /\ rewrites' = rewrites + 1
  /\ UNCHANGED <<pos, pc, wholist, allocFails, ub>>

(* Environment: another process logs in, reusing a slot with no session  *)
(* or appending a record at the end of the file.                         *)
utmp_login ==
  /\ rewrites < MaxRewrites
  /\ \E i \in 1..Len(utmp) + 1 :
       /\ i <= MaxRecords
       /\ i <= Len(utmp) => utmp[i] # "user"
       /\ utmp' = IF i <= Len(utmp) THEN [utmp EXCEPT ![i] = "user"]
                                    ELSE Append(utmp, "user")
       /\ touched' = touched \cup {i}
  /\ rewrites' = rewrites + 1
  /\ UNCHANGED <<pos, pc, wholist, allocFails, ub>>

-----------------------------------------------------------------------------
Init ==
  /\ utmp \in UNION {[1..n -> Kinds] : n \in 0..MaxRecords}
  /\ pos = 0
  /\ pc = "start"
  /\ wholist = [number |-> 0, size |-> 0, data |-> <<>>, store |-> "null"]
  /\ allocFails = 0
  /\ ub = {}
  /\ rewrites = 0
  /\ touched = {}

Next ==
  \/ who_fopen_fail \/ who_fopen \/ who_fread \/ who_fclose
  \/ sigar_who_list_destroy \/ who_requery
  \/ utmp_logout \/ utmp_login

Spec == Init /\ [][Next]_vars

-----------------------------------------------------------------------------
(* Properties *)

TypeOK ==
  /\ utmp \in Seq(Kinds)
  /\ pos \in 0..MaxRecords
  /\ pc \in {"start", "reading", "returned", "destroyed", "failed"}
  /\ wholist \in L!Collection(1..MaxRecords)
  /\ allocFails \in 0..MaxAllocFailures
  /\ ub \subseteq {"null_write", "double_free"}
  /\ rewrites \in 0..MaxRewrites
  /\ touched \subseteq 1..MaxRecords

(* While being filled and once returned, while login and logout rewrite  *)
(* the file under the unlocked fread loop, the list is as good as a read *)
(* without a snapshot can be: its entries are distinct slots already     *)
(* read, in file order; a slot read and not rewritten since fopen is     *)
(* listed exactly when it holds a user session; a listed slot held a     *)
(* user session at some moment of the read (it still does, or it was    *)
(* rewritten).  Every entry is stored within the allocated size, and the *)
(* size is the fewest whole chunks that hold them: insertion is          *)
(* grow-then-write, and grow happens only when full.                     *)
WhoListFaithful ==
  pc \in {"reading", "returned"} =>
    /\ \A k \in 1..Len(wholist.data) - 1 : wholist.data[k] < wholist.data[k + 1]
    /\ \A i \in 1..pos :
         i \notin touched =>
           (utmp[i] = "user" <=> \E k \in DOMAIN wholist.data : wholist.data[k] = i)
    /\ \A k \in DOMAIN wholist.data :
         /\ wholist.data[k] <= pos
         /\ utmp[wholist.data[k]] = "user" \/ wholist.data[k] \in touched
    /\ wholist.number = Len(wholist.data)
    /\ wholist.size = SIGAR_WHO_LIST_MAX * L!ChunksFor(wholist.number)

(* Destroying a list, once or repeatedly, never frees its block twice. *)
NoDoubleFree == "double_free" \notin ub

=============================================================================

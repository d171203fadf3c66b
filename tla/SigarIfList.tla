----------------------------- MODULE SigarIfList -----------------------------
(***************************************************************************)
(* The session handle's reusable SIOCGIFCONF buffer and the adaptive       *)
(* buffer retry loop of sigar_net_interface_list_get (src/src/sigar.c),    *)
(* with sigar_open / sigar_close, which own the buffer, and                *)
(* sigar_net_interface_list_destroy, which releases the returned list.     *)
(*                                                                         *)
(* Buffer lengths are counted in struct ifreq records.  The kernel is the  *)
(* environment: its interface list may change between two ioctl calls of  *)
(* one query, and its ioctl may fail with a genuine error (EIO stands for  *)
(* any errno other than EINVAL).  How the kernel signals a list that does  *)
(* not fit is per platform: Linux truncates to whole records and succeeds  *)
(* ("truncate"); Solaris and HP-UX fail with EINVAL ("einval").            *)
(*                                                                         *)
(* Memory is abstracted to the state of each block: "null", "live" or      *)
(* "freed".  A use or free of a freed block is recorded in ub; the model   *)
(* then carries on as the C program usually does, with the dangling block. *)
(***************************************************************************)
EXTENDS Naturals, FiniteSets, Sequences, SequencesExt

CONSTANTS
  Ifaces,      \* interface names (model values)
  Chunk,       \* SIGAR_NET_IFLIST_MAX: records added to the buffer per growth
  RecSize,     \* sizeof(struct ifreq): iflist->size is set in bytes
  MaxChanges,  \* bound on kernel interface list changes
  MaxFaults,   \* bound on genuine errors (socket() or ioctl() failing)
  HwAddrs,     \* hardware addresses an interface may carry (model values)
  NoRec        \* a buffer slot holding no interface record

ASSUME Chunk \in Nat \ {0} /\ RecSize \in Nat \ {0}
ASSUME MaxChanges \in Nat /\ MaxFaults \in Nat

Platforms == {"truncate", "einval"}

(* The longest the session buffer needs to become: one chunk past the    *)
(* longest list the kernel can report.                                   *)
MaxBufLen == Chunk * (Cardinality(Ifaces) \div Chunk + 1)

VARIABLES
  platform,    \* how this build's kernel signals overflow (fixed)
  kifs,        \* the kernel's interface list, in kernel order
  changes,     \* kernel list changes so far
  faults,      \* genuine errors so far
  pc,          \* "closed" (no session), "idle", or "loop" (in the retry loop)
  ifconf_buf,  \* sigar->ifconf_buf: "null", "live" or "freed" (dangling)
  ifconf_len,  \* sigar->ifconf_len, in records
  lastlen,     \* local lastlen of the query in progress
  sockets,     \* sockets opened and not closed (process file descriptors)
  iflist,      \* the caller's sigar_net_interface_list_t
  status,      \* "none", "ok" or "error": what the last query returned
  ub,          \* memory errors that have happened (history)
  khw,         \* the kernel's hardware address of each interface
  ifconf_recs  \* contents of ifconf_buf: one record or NoRec per slot

vars == <<platform, kifs, changes, faults, pc, ifconf_buf, ifconf_len,
          lastlen, sockets, iflist, status, ub, khw, ifconf_recs>>

(* The record the kernel writes for interface i. *)
Rec(i) == [name |-> i, hw |-> khw[i]]

-----------------------------------------------------------------------------
(* Kernel side: SIOCGIFCONF on a buffer of len records.  An outcome is the *)
(* return code and the ifc_len written back (records).                    *)

IoctlOutcomes(len) ==
  LET n == Len(kifs) IN
    { IF platform = "einval" /\ n > len
        THEN [rc |-> "EINVAL", len |-> len]
        ELSE [rc |-> "OK", len |-> IF n < len THEN n ELSE len] }
    \cup (IF faults < MaxFaults THEN {[rc |-> "EIO", len |-> len]} ELSE {})

-----------------------------------------------------------------------------
(* sigar_open: a fresh handle with no SIOCGIFCONF buffer. *)
sigar_open ==
  /\ pc = "closed"
  /\ pc' = "idle"
  /\ ifconf_buf' = "null"
  /\ ifconf_len' = 0
  /\ ifconf_recs' = <<>>
  /\ UNCHANGED <<platform, kifs, changes, faults, lastlen, sockets, iflist,
                 status, ub, khw>>

(* sigar_close: frees ifconf_buf when the pointer is not NULL. *)
sigar_close ==
  /\ pc = "idle"
  /\ pc' = "closed"
  /\ ub' = ub \cup (IF ifconf_buf = "freed" THEN {"double_free"} ELSE {})
  /\ ifconf_buf' = IF ifconf_buf = "null" THEN "null" ELSE "freed"
  /\ UNCHANGED <<platform, kifs, changes, faults, ifconf_len, lastlen,
                 sockets, iflist, status, khw, ifconf_recs>>

-----------------------------------------------------------------------------
(* sigar_net_interface_list_get, entry: open the ioctl socket.  A failing *)
(* socket() returns errno at once.  The caller holds no undestroyed list. *)
ifconf_enter ==
  /\ pc = "idle"
  /\ ~iflist.held
  /\ \/ /\ pc' = "loop"
        /\ lastlen' = 0
        /\ sockets' = sockets + 1
        /\ UNCHANGED <<faults, status>>
     \/ /\ faults < MaxFaults
        /\ faults' = faults + 1
        /\ status' = "error"
        /\ UNCHANGED <<pc, lastlen, sockets>>
  /\ UNCHANGED <<platform, kifs, changes, ifconf_buf, ifconf_len, iflist, ub,
                 khw, ifconf_recs>>

(* Fault-injection variant of Grows: realloc on every pass. *)
GrowsAlways == TRUE

(* The buffer is grown when there is none yet or after an inconclusive    *)
(* answer; realloc of a dangling pointer is a use after free.             *)
Grows == ifconf_buf = "null" \/ lastlen # 0

BufLenAfterGrow == IF Grows THEN ifconf_len + Chunk ELSE ifconf_len

AccessUB == IF ifconf_buf = "freed" THEN {"use_after_free"} ELSE {}

(* The ioctl failed and the failure is not the "retry larger" signal.     *)
Fails(o) == o.rc # "OK" /\ (o.rc # "EINVAL" \/ lastlen = o.len)

(* Fault-injection variant of GotAll: a full buffer is taken as complete. *)
GotAllFullBuffer(o) ==
  ~Fails(o) /\ (o.len <= BufLenAfterGrow \/ o.len = lastlen)

(* The loop breaks: the answer is shorter than the buffer, or the same    *)
(* length was seen twice.                                                 *)
GotAll(o) == ~Fails(o) /\ (o.len < BufLenAfterGrow \/ o.len = lastlen)

(* The list built from the first o.len records: malloc of iflist->size    *)
(* bytes (malloc(0) may return NULL or a unique block) and one strdup per *)
(* record.                                                                *)
BuildList(o) ==
  \E store \in IF o.len = 0 THEN {"null", "live"} ELSE {"live"} :
    iflist' = [number |-> o.len, size |-> o.len * RecSize,
               data |-> SubSeq(kifs, 1, o.len), store |-> store,
               held |-> TRUE]

(* The buffer contents after realloc (new slots hold no record), and     *)
(* after the kernel wrote its first n records into it; slots past n keep  *)
(* whatever an earlier call left there.                                  *)
Grown == [k \in 1..BufLenAfterGrow |->
            IF k <= Len(ifconf_recs) THEN ifconf_recs[k] ELSE NoRec]

Written(n) == [k \in 1..BufLenAfterGrow |->
                 IF k <= n THEN Rec(kifs[k]) ELSE Grown[k]]

(* One pass of the for(;;) loop: grow, SIOCGIFCONF, then one of: fail     *)
(* (free the buffer, return errno), done (close the socket and build the  *)
(* list), or retry with lastlen set.                                      *)
ifconf_ioctl ==
  /\ pc = "loop"
  /\ ifconf_len' = BufLenAfterGrow
  /\ \E o \in IoctlOutcomes(BufLenAfterGrow) :
       /\ faults' = IF o.rc = "EIO" THEN faults + 1 ELSE faults
       /\ ifconf_recs' = IF o.rc = "OK" THEN Written(o.len) ELSE Grown
       /\ \/ /\ Fails(o)
             /\ ifconf_buf' = "freed"
             /\ ub' = ub \cup AccessUB
                    \cup (IF ~Grows /\ ifconf_buf = "freed"
                            THEN {"double_free"} ELSE {})
             /\ pc' = "idle"
             /\ status' = "error"
             /\ UNCHANGED <<lastlen, sockets, iflist>>
          \/ /\ GotAll(o)
             /\ ifconf_buf' = IF Grows THEN "live" ELSE ifconf_buf
             /\ ub' = ub \cup AccessUB
             /\ sockets' = sockets - 1
             /\ BuildList(o)
             /\ pc' = "idle"
             /\ status' = "ok"
             /\ UNCHANGED lastlen
          \/ /\ ~Fails(o) /\ ~GotAll(o)
             /\ ifconf_buf' = IF Grows THEN "live" ELSE ifconf_buf
             /\ ub' = ub \cup AccessUB
             /\ lastlen' = o.len
             /\ UNCHANGED <<pc, sockets, iflist, status>>
  /\ UNCHANGED <<platform, kifs, changes, khw>>

-----------------------------------------------------------------------------
(* sigar_net_interface_list_destroy: frees the names and the array only   *)
(* when iflist->size is not zero.  The caller no longer holds the list.   *)
sigar_net_interface_list_destroy ==
  /\ pc = "idle"
  /\ iflist.held
  /\ iflist' = IF iflist.size # 0
                 THEN [iflist EXCEPT !.number = 0, !.size = 0,
                                     !.store = "freed", !.held = FALSE]
                 ELSE [iflist EXCEPT !.held = FALSE]
  /\ UNCHANGED <<platform, kifs, changes, faults, pc, ifconf_buf, ifconf_len,
                 lastlen, sockets, status, ub, khw, ifconf_recs>>

-----------------------------------------------------------------------------
(* The environment: interfaces appear (at the end), possibly as another *)
(* device with another hardware address, and disappear.                 *)
kernel_add ==
  /\ changes < MaxChanges
  /\ \E i \in Ifaces \ ToSet(kifs), h \in HwAddrs :
       /\ kifs' = Append(kifs, i)
       /\ khw' = [khw EXCEPT ![i] = h]
  /\ changes' = changes + 1
  /\ UNCHANGED <<platform, faults, pc, ifconf_buf, ifconf_len, lastlen,
                 sockets, iflist, status, ub, ifconf_recs>>

kernel_remove ==
  /\ changes < MaxChanges
  /\ \E k \in DOMAIN kifs : kifs' = RemoveAt(kifs, k)
  /\ changes' = changes + 1
  /\ UNCHANGED <<platform, faults, pc, ifconf_buf, ifconf_len, lastlen,
                 sockets, iflist, status, ub, khw, ifconf_recs>>

-----------------------------------------------------------------------------
Init ==
  /\ platform \in Platforms
  /\ kifs \in UNION {SetToSeqs(S) : S \in SUBSET Ifaces}
  /\ changes = 0
  /\ faults = 0
  /\ pc = "closed"
  /\ ifconf_buf = "null"
  /\ ifconf_len = 0
  /\ lastlen = 0
  /\ sockets = 0
  /\ iflist = [number |-> 0, size |-> 0, data |-> <<>>, store |-> "null",
               held |-> FALSE]
  /\ status = "none"
  /\ ub = {}
  /\ khw = [i \in Ifaces |-> CHOOSE h \in HwAddrs : TRUE]
  /\ ifconf_recs = <<>>

Next ==
  \/ sigar_open \/ sigar_close
  \/ ifconf_enter \/ ifconf_ioctl
  \/ sigar_net_interface_list_destroy
  \/ kernel_add \/ kernel_remove

(* The retry loop runs synchronously once entered; the kernel and the     *)
(* caller are not assumed to do anything.                                 *)
Spec == Init /\ [][Next]_vars /\ WF_vars(ifconf_ioctl)

-----------------------------------------------------------------------------
(* Properties *)

TypeOK ==
  /\ platform \in Platforms
  /\ kifs \in Seq(Ifaces) /\ changes \in 0..MaxChanges
  /\ faults \in 0..MaxFaults
  /\ pc \in {"closed", "idle", "loop"}
  /\ ifconf_buf \in {"null", "live", "freed"}
  /\ ifconf_len \in 0..MaxBufLen /\ lastlen \in 0..MaxBufLen
  /\ sockets \in 0..MaxFaults + 1
  /\ iflist \in [number : Nat, size : Nat, data : Seq(Ifaces),
                 store : {"null", "live", "freed"}, held : BOOLEAN]
  /\ status \in {"none", "ok", "error"}
  /\ ub \subseteq {"use_after_free", "double_free"}
  /\ khw \in [Ifaces -> HwAddrs]
  /\ ifconf_recs \in Seq([name : Ifaces, hw : HwAddrs] \cup {NoRec})

(* The retry loop implements the abstract query: a successful             *)
(* sigar_net_interface_list_get returns exactly the kernel's list at one  *)
(* instant (never a truncated one, however the kernel signals overflow    *)
(* and however the list changes between retries), it fails only on a     *)
(* genuine kernel error, and every call returns.                          *)
Abs == INSTANCE IfListAbstract
         WITH pc <- IF pc = "loop" THEN "busy" ELSE pc,
              result <- iflist.data

IfListRefinement == Abs!FairSpec

(* sigar_net_interface_list_get and sigar_close never use or free the     *)
(* session's ifconf_buf after it has been freed.                          *)
MemorySafe == ub = {}

(* Every socket sigar_net_interface_list_get opens is closed before it    *)
(* returns, on every exit path.                                           *)
SocketsReleased == pc # "loop" => sockets = 0

=============================================================================

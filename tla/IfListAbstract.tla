--------------------------- MODULE IfListAbstract ---------------------------
(***************************************************************************)
(* What sigar_net_interface_list_get promises its caller, stated without   *)
(* the adaptive buffer: a call on an open session either returns the       *)
(* kernel's interface list as it stood at one instant during the call, in *)
(* kernel order, or fails, and it fails only because the kernel reported a *)
(* genuine error (never because the list did not fit a buffer).  Every     *)
(* call returns.  The kernel's list may change at any time.                *)
(***************************************************************************)
EXTENDS Naturals, Sequences

CONSTANTS
  Ifaces,      \* interface names the kernel may report (model values)
  MaxChanges,  \* bound on interfaces appearing or disappearing
  MaxFaults    \* bound on genuine kernel errors

VARIABLES
  kifs,      \* the kernel's current interface list, in kernel order
  changes,   \* interface appearances and disappearances so far
  faults,    \* genuine kernel errors so far
  pc,        \* "closed", "idle" or "busy" (a list query in progress)
  result,    \* the list the last successful query returned
  status     \* "none", "ok" or "error": outcome of the last query

avars == <<kifs, changes, faults, pc, result, status>>

Open ==
  /\ pc = "closed"
  /\ pc' = "idle"
  /\ UNCHANGED <<kifs, changes, faults, result, status>>

Close ==
  /\ pc = "idle"
  /\ pc' = "closed"
  /\ UNCHANGED <<kifs, changes, faults, result, status>>

Call ==
  /\ pc = "idle"
  /\ pc' = "busy"
  /\ UNCHANGED <<kifs, changes, faults, result, status>>

\* The query takes effect at one instant: the list is the kernel's list then.
Return ==
  /\ pc = "busy"
  /\ pc' = "idle"
  /\ result' = kifs
  /\ status' = "ok"
  /\ UNCHANGED <<kifs, changes, faults>>

\* A failure consumes one genuine kernel error.
Fail ==
  /\ pc \in {"idle", "busy"}
  /\ faults < MaxFaults
  /\ faults' = faults + 1
  /\ pc' = "idle"
  /\ status' = "error"
  /\ UNCHANGED <<kifs, changes, result>>

\* The environment: an interface appears at the end of the kernel's list,
\* or one disappears.
KernelAdd ==
  /\ changes < MaxChanges
  /\ \E i \in Ifaces \ {kifs[k] : k \in DOMAIN kifs} : kifs' = Append(kifs, i)
  /\ changes' = changes + 1
  /\ UNCHANGED <<faults, pc, result, status>>

KernelRemove ==
  /\ changes < MaxChanges
  /\ \E k \in DOMAIN kifs :
       kifs' = SubSeq(kifs, 1, k - 1) \o SubSeq(kifs, k + 1, Len(kifs))
  /\ changes' = changes + 1
  /\ UNCHANGED <<faults, pc, result, status>>

ANext ==
  \/ Open \/ Close \/ Call \/ Return \/ Fail
  \/ KernelAdd \/ KernelRemove

\* The initial kernel list and session state are given by the refining
\* specification; this one only constrains how they evolve.
AInit ==
  /\ pc = "closed"
  /\ changes = 0
  /\ faults = 0
  /\ status = "none"

\* A query in progress is always completed: the library's loop runs
\* synchronously, so nothing but the call itself can be scheduled.
FairSpec ==
  AInit /\ [][ANext]_avars /\ WF_avars(Return \/ (pc = "busy" /\ Fail))

=============================================================================

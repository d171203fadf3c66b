--------------------------- MODULE SigarCollection ---------------------------
(***************************************************************************)
(* The growable list shared by every list-typed result of sigar.c         *)
(* (sigar_proc_list_t, sigar_who_list_t, sigar_net_interface_list_t, ...): *)
(* create allocates one chunk of K elements, grow reallocs to size + K,    *)
(* destroy frees when size is not zero and zeroes number and size.  A      *)
(* collection is a record; store is the state of its data block.  A failed *)
(* malloc or realloc leaves data NULL ("null") and is not reported.        *)
(***************************************************************************)
EXTENDS Naturals, Sequences

CONSTANT K   \* the family's chunk constant (SIGAR_WHO_LIST_MAX, ...)

Collection(T) == [number : Nat, size : Nat, data : Seq(T),
                  store : {"null", "live", "freed"}]

(* *_create: malloc of K elements; the result of malloc is not checked. *)
Create(allocated) ==
  [number |-> 0, size |-> K, data |-> <<>>,
   store |-> IF allocated THEN "live" ELSE "null"]

(* Fault-injection variant of NeedsGrow: grows one element too late. *)
NeedsGrowLate(c) == c.number > c.size

(* The SIGAR_*_LIST_GROW guard: grow only when the list is full. *)
NeedsGrow(c) == c.number >= c.size

(* *_grow: realloc to size + K.  size grows even when realloc fails. *)
Grow(c, allocated) ==
  [c EXCEPT !.size = @ + K,
            !.store = IF allocated THEN "live" ELSE "null"]

(* Fault-injection variant of Insert: copies the previous record. *)
InsertPrevious(c, x) == [c EXCEPT !.number = @ + 1, !.data = Append(@, x - 1)]

(* Storing the next element: data[number++] = x. *)
Insert(c, x) == [c EXCEPT !.number = @ + 1, !.data = Append(@, x)]

(* *_destroy frees only when size is not zero. *)
Frees(c) == c.size # 0

(* Fault-injection variant of Destroy: size is not reset. *)
DestroyKeepSize(c) ==
  IF Frees(c) THEN [c EXCEPT !.number = 0, !.store = "freed"] ELSE c

Destroy(c) ==
  IF Frees(c) THEN [c EXCEPT !.number = 0, !.size = 0, !.store = "freed"]
              ELSE c

(* Chunks needed to hold n elements, one chunk at least. *)
ChunksFor(n) == IF n = 0 THEN 1 ELSE (n + K - 1) \div K

=============================================================================

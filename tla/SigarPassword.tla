---------------------------- MODULE SigarPassword ----------------------------
(***************************************************************************)
(* sigar_password_get (src/src/sigar.c): on Windows a line editor over    *)
(* _getch into a static buffer; elsewhere the prompt goes to /dev/tty and *)
(* getpass reads the password, which on HP-UX is termios_getpass (echo    *)
(* off, getchar into a static buffer, any unprintable character restarts  *)
(* the line) and on the other Unixes the C library's getpass.  A key or   *)
(* character read is one step; everything between two reads is part of    *)
(* the step.  Printed text (prompt, bell, echo of spaces) is left out.    *)
(***************************************************************************)
EXTENDS Naturals, Sequences

CONSTANTS
  MAX_STRING_LEN,  \* size of the static password buffers
  Platforms,       \* builds: "win32", "hpux", "libc"
  MaxKeys,         \* bound on ordinary keys typed in one call
  NULL

(* Keys as _getch reports them ("FN_DEL": 0 or 0xE0 then a delete or left *)
(* arrow scan code; "FN_OTHER": any other function key; "CTRL": another  *)
(* control character), and characters as getchar returns them.          *)
Printable == {"a", "b"}
WinKeys   == Printable \cup {"BS", "FN_DEL", "FN_OTHER", "CTRL", "ESC",
                             "CR", "CTRLZ", "CTRLC", "EOF"}
TtyChars  == Printable \cup {"CTRL", "NL", "EOF"}
NUL == "NUL"

(* Keys after which the call no longer reads: they are always possible, *)
(* the others only MaxKeys times per call.                               *)
Final == {"CR", "CTRLZ", "CTRLC", "EOF", "NL"}

VARIABLES
  platform,   \* the build (fixed)
  pc,         \* "idle", "win_read", "tp_read" or "exited"
  password,   \* the static buffer: index 0..MAX_STRING_LEN-1 -> character
  n,          \* the index of the next character
  ret,        \* what the last call returned: NULL or a string (sequence)
  eof,        \* the input has reached end of file
  echo,       \* the terminal's ECHO flag
  typed,      \* ordinary keys read in this call
  line,       \* the line as the user has edited it so far (history)
  ub          \* writes outside password[] (history)

vars == <<platform, pc, password, n, ret, eof, echo, typed, line, ub>>

Buffer == [0..MAX_STRING_LEN - 1 -> Printable \cup {NUL, "CTRL", "NL", "EOF"}]

(* password[i] = c, recording a write outside the array. *)
Store(i, c) ==
  /\ password' = IF i \in DOMAIN password THEN [password EXCEPT ![i] = c]
                                          ELSE password
  /\ ub' = IF i \in DOMAIN password THEN ub ELSE ub \cup {"out_of_bounds"}

(* The C string at password: the characters before the first NUL. *)
CString(pw) ==
  LET ends == {i \in DOMAIN pw : pw[i] = NUL}
      len  == IF ends = {} THEN MAX_STRING_LEN
              ELSE CHOOSE i \in ends : \A j \in ends : i <= j
  IN [k \in 1..len |-> pw[k - 1]]

(* The next key or character: after end of file only "EOF" again. *)
Input(keys) ==
  IF eof THEN {"EOF"}
  ELSE keys \ (IF typed < MaxKeys THEN {} ELSE keys \ Final)

Read(k) ==
  /\ eof' = (k = "EOF")
  /\ typed' = IF k \in Final THEN typed ELSE typed + 1

(* The line the user sees being edited on Windows: characters appended  *)
(* while they fit, backspace and delete remove the last one, ESC starts   *)
(* over.                                                                 *)
WinEdit(l, k) ==
  CASE k \in Printable -> IF Len(l) < MAX_STRING_LEN - 1 THEN Append(l, k) ELSE l
    [] k \in {"BS", "FN_DEL"} -> IF l = <<>> THEN l ELSE SubSeq(l, 1, Len(l) - 1)
    [] k = "ESC" -> <<>>
    [] OTHER -> l

(* On HP-UX the newline ends the line, and any other character than a    *)
(* printable one that fits starts it over.                               *)
TtyEdit(l, c) ==
  CASE c = "NL" -> l
    [] c \in Printable /\ Len(l) < MAX_STRING_LEN - 1 -> Append(l, c)
    [] OTHER -> <<>>

-----------------------------------------------------------------------------
(* Windows *)

(* Fault-injection variant of WinDeletes: the "&& n" guard dropped. *)
WinDeletesUnguarded(k, i) == k \in {"BS", "FN_DEL"}

(* {DELETE}, {<--} and BS/DEL remove a character only when n > 0; with   *)
(* n = 0 they ring the bell.                                             *)
WinDeletes(k, i) == k \in {"BS", "FN_DEL"} /\ i # 0

(* Fault-injection variant of WinRestarts: ESC not resetting n. *)
WinRestartsNever(k) == FALSE

(* ESC reprints the prompt and sets n = 0. *)
WinRestarts(k) == k = "ESC"

(* sigar_password_get on Windows: print the prompt, start reading. *)
sigar_password_get_win ==
  /\ pc = "idle"
  /\ platform = "win32"
  /\ pc' = "win_read"
  /\ n' = 0
  /\ typed' = 0
  /\ line' = <<>>
  /\ UNCHANGED <<platform, password, ret, eof, echo, ub>>

(* One pass of the while loop on the key k from _getch. *)
win_getch ==
  /\ pc = "win_read"
  /\ \E k \in Input(WinKeys) :
       /\ Read(k)
       /\ line' = WinEdit(line, k)
       /\ CASE k = "CR" ->
                 \* password[n] = '\0'; return password
                 /\ Store(n, NUL)
                 /\ ret' = CString([password EXCEPT ![n] = NUL])
                 /\ pc' = "idle"
                 /\ UNCHANGED n
            [] k \in {"EOF", "CTRLZ"} ->
                 /\ ret' = NULL
                 /\ pc' = "idle"
                 /\ UNCHANGED <<n, password, ub>>
            [] k = "CTRLC" ->
                 \* exit(-1)
                 /\ pc' = "exited"
                 /\ UNCHANGED <<n, ret, password, ub>>
            [] WinDeletes(k, n) ->
                 \* password[--n] = '\0'
                 /\ Store(n - 1, NUL)
                 /\ n' = n - 1
                 /\ UNCHANGED <<pc, ret>>
            [] WinRestarts(k) ->
                 /\ n' = 0
                 /\ UNCHANGED <<pc, ret, password, ub>>
            [] k \in Printable /\ n < MAX_STRING_LEN - 1 ->
                 \* password[n++] = ch
                 /\ Store(n, k)
                 /\ n' = n + 1
                 /\ UNCHANGED <<pc, ret>>
            [] OTHER ->
                 \* the bell
                 UNCHANGED <<n, pc, ret, password, ub>>
  /\ UNCHANGED <<platform, echo>>

-----------------------------------------------------------------------------
(* Unix: sigar_password_get and termios_getpass *)

(* sigar_password_get: fopen("/dev/tty") failing returns NULL without   *)
(* prompting; otherwise the prompt goes to the tty and getpass("") is    *)
(* called.  The C library's getpass is outside this code: it returns     *)
(* NULL or a line.  termios_getpass returns NULL when tcgetattr or        *)
(* tcsetattr fails (echo untouched), and otherwise turns echo off and     *)
(* reads from n = 0.  fclose(tty) follows every return.                  *)
sigar_password_get_unix ==
  /\ pc = "idle"
  /\ platform \in {"hpux", "libc"}
  /\ typed' = 0
  /\ line' = <<>>
  /\ \/ /\ ret' = NULL
        /\ UNCHANGED <<pc, n, echo>>
     \/ /\ platform = "libc"
        /\ ret' = <<"a">>
        /\ UNCHANGED <<pc, n, echo>>
     \/ /\ platform = "hpux"
        /\ pc' = "tp_read"
        /\ n' = 0
        /\ echo' = FALSE
        /\ UNCHANGED ret
  /\ UNCHANGED <<platform, password, eof, ub>>

(* Fault-injection variant of TtyKeeps: the last slot filled too. *)
TtyKeepsLast(c, i) == c \in Printable /\ i < MAX_STRING_LEN

(* The character just stored is kept (n++) when there is room for the    *)
(* terminator after it and it lies between ' ' and '~'.                  *)
TtyKeeps(c, i) == c \in Printable /\ i < MAX_STRING_LEN - 1

(* One pass of while ((password[n] = getchar()) != '\n'); on '\n' the    *)
(* terminator, echo back on, return password.                            *)
tp_getchar ==
  /\ pc = "tp_read"
  /\ \E c \in Input(TtyChars) :
       /\ Read(c)
       /\ line' = TtyEdit(line, c)
       /\ IF c = "NL"
            THEN /\ Store(n, NUL)
                 /\ ret' = CString([password EXCEPT ![n] = NUL])
                 /\ echo' = TRUE
                 /\ pc' = "idle"
                 /\ UNCHANGED n
            ELSE /\ Store(n, c)
                 /\ n' = IF TtyKeeps(c, n) THEN n + 1 ELSE 0
                 /\ UNCHANGED <<ret, echo, pc>>
  /\ UNCHANGED platform

-----------------------------------------------------------------------------
(* The user runs the program again after Ctrl+C ended it: fresh static    *)
(* buffers, a new input.                                                 *)
process_restart ==
  /\ pc = "exited"
  /\ pc' = "idle"
  /\ password' = [i \in 0..MAX_STRING_LEN - 1 |-> NUL]
  /\ eof' = FALSE
  /\ ret' = NULL
  /\ UNCHANGED <<platform, n, echo, typed, line, ub>>

Init ==
  /\ platform \in Platforms
  /\ pc = "idle"
  /\ password = [i \in 0..MAX_STRING_LEN - 1 |-> NUL]
  /\ n = 0
  /\ ret = NULL
  /\ eof = FALSE
  /\ echo = TRUE
  /\ typed = 0
  /\ line = <<>>
  /\ ub = {}

Next ==
  \/ sigar_password_get_win \/ win_getch
  \/ sigar_password_get_unix \/ tp_getchar
  \/ process_restart

(* A call in progress reads on: at end of file _getch and getchar return *)
(* at once, so nothing but the call's own loop is waiting.  The user is   *)
(* not obliged to call again.                                             *)
Spec == Init /\ [][Next]_vars /\ WF_vars(win_getch) /\ WF_vars(tp_getchar)

-----------------------------------------------------------------------------
(* Properties *)

(* Neither editor ever writes outside its static buffer: not below it    *)
(* (a delete with n = 0) and not past it (the terminator of a line that  *)
(* filled the buffer).                                                   *)
PasswordInBounds == ub = {}

(* The password a call returns is the line the user typed and edited      *)
(* before Enter: on Windows with backspace, delete and ESC applied and    *)
(* characters past the buffer dropped; on HP-UX the printable run since   *)
(* the last unprintable character.  The static buffer keeps characters    *)
(* of earlier calls and of lines given up with ESC; none may show.        *)
PasswordTyped ==
  pc = "idle" /\ ret # NULL /\ platform # "libc" => ret = line

(* Once the input is at end of file, a call in progress returns (NULL)   *)
(* rather than reading on.                                               *)
PasswordReturns ==
  [](eof /\ pc \in {"win_read", "tp_read"} => <>(pc \in {"idle", "exited"}))

=============================================================================

------------------------------ MODULE Console --------------------------------
(***************************************************************************)
(* The console's input (console.c): the ring in which consoleintr() edits  *)
(* a line, and consoleread().  Both hold cons.lock except in sleep(), so a *)
(* key is a step, and so is what a reader does from one sleep to the next. *)
(* kill() can come between a reader's test of p->killed and its sleep.     *)
(*                                                                         *)
(* Control-N finds the start of the line by the column of the cursor,      *)
(* which any output moves too.  The history, and the keys Tab and          *)
(* control-R that copy text from it or from the ring to the line, are left *)
(* out.                                                                    *)
(***************************************************************************)
EXTENDS Integers, Sequences, FiniteSets, SequencesExt

CONSTANTS
  ConsReader,         \* processes that read the console
  INPUT_BUF,
  Letters, Digits,    \* characters
  ReadCounts,         \* third arguments of read
  COLS,               \* columns of the screen
  Columns,            \* those in which output may leave the cursor
  IndexRange,         \* values of an index of the ring, an unsigned int
  MaxIndex            \* bound: characters entered into the ring

Newline == "nl"
Eof == "eof"

ASSUME ConsoleAssumption ==
  /\ {INPUT_BUF, IndexRange, MaxIndex} \subseteq Nat \ {0} /\ COLS \in Nat \ 0 .. 2 /\ Columns \subseteq 0 .. COLS - 1
  /\ IndexRange % INPUT_BUF = 0
  /\ Letters \intersect Digits = {} /\ {Newline, Eof} \intersect (Letters \union Digits) = {}
  /\ ReadCounts \subseteq Nat \ {0}

VARIABLES
  input,      \* [buf, r, w, e, end], and col, the column of the cursor
  stray,      \* control-N was pressed when the cursor was not where e says
  rd,         \* reader -> [at, target, n]: where it is, bytes asked for, bytes left
  ckilled     \* processes killed

consvars == <<input, stray, rd, ckilled>>

NotReading == [at |-> "idle", target |-> 0, n |-> 0]

\* The ring is zero at first; a zero is no character that can be typed.
ConsoleInit ==
  /\ input = [buf |-> [k \in 0 .. INPUT_BUF - 1 |-> "nul"],
             r |-> 0, w |-> 0, e |-> 0, end |-> 0, col |-> 0]
  /\ stray = FALSE
  /\ rd = [p \in ConsReader |-> NotReading]
  /\ ckilled = {}

-----------------------------------------------------------------------------
(* Editing: operators from one input to the next.                          *)

CharAt(x, k) == x.buf[k % INPUT_BUF]

\* An index, and the cursor, n further on (or back).
Index(k, n) == (k + n) % IndexRange
Column(k, n) == (k + n) % COLS

\* The indices of a loop that runs while index < end.
Run(from, end) == [j \in 1 .. end - from |-> from + j - 1]

\* shift_input_right: room for a character at e.
shift_input_right(x) ==
  LET moved(y, k) == [buf |-> [y.buf EXCEPT ![(k + 1) % INPUT_BUF] = y.next], next |-> CharAt(y, k + 1)]
      all == FoldLeft(moved, [buf |-> x.buf, next |-> CharAt(x, x.e)], Run(x.e, x.end))
  IN [x EXCEPT !.buf = all.buf, !.end = Index(@, 1)]

\* shift_input_left: the character before e is overwritten, up to one behind the end.
shift_input_left(x) ==
  LET moved(y, k) == [y EXCEPT !.buf[k % INPUT_BUF] = CharAt(y, k + 1)]
  IN [FoldLeft(moved, x, Run(Index(x.e, -1), x.end)) EXCEPT !.end = Index(@, -1)]

\* back_space.
back_space(x) ==
  IF x.e = x.w THEN x ELSE [shift_input_left(x) EXCEPT !.e = Index(@, -1), !.col = Column(@, -1)]

\* kill_line: back to the start, or to a newline.
kill_line(x) ==
  LET step(y, k) ==
        IF y.e # y.w /\ CharAt(y, Index(y.e, -1)) # Newline THEN back_space(y) ELSE y
  IN FoldLeft(step, x, [k \in 1 .. Index(x.e, -x.w) |-> k])

\* go_to_first_of_line: "pos%80 - 2" characters back, from wherever the cursor is.
go_to_first_of_line(x) == [x EXCEPT !.e = Index(@, 2 - x.col), !.col = 2]

\* Mutant: the character before the digit is erased.
DropDigitBefore(y) == shift_input_left(y)

\* delete_num_of_line at a digit: step over it, then erase it backwards.
DropDigit(y) == [shift_input_left([y EXCEPT !.e = Index(@, 1)]) EXCEPT !.e = Index(@, -1)]

\* delete_num_of_line, from the first column of the line to its end.
delete_num_of_line(x) ==
  LET step(y, k) ==
        IF y.e >= y.end THEN y
        ELSE IF CharAt(y, y.e) \in Digits THEN DropDigit(y)
        ELSE [y EXCEPT !.e = Index(@, 1), !.col = Column(@, 1)]
      start == go_to_first_of_line(x)
  IN FoldLeft(step, start, Run(start.e, start.end))

\* consoleintr takes a character only if there is space.
Space(x) == Index(x.e, -x.r) < INPUT_BUF

\* consoleintr, default: a character is entered.
Entered(x, c) ==
  IF c \in {Newline, Eof}
  THEN [x EXCEPT !.buf[x.end % INPUT_BUF] = c, !.end = Index(@, 1),
                 !.col = IF c = Newline THEN 0 ELSE Column(@, 1)]
  ELSE [shift_input_right(x) EXCEPT !.buf[x.e % INPUT_BUF] = c, !.e = Index(@, 1), !.col = Column(@, 1)]

-----------------------------------------------------------------------------
(* Keys and readers.                                                       *)

\* cons.lock is free: no reader is about to sleep.
ConsUnlocked == \A p \in ConsReader : rd[p].at # "doze"

\* Mutant: the readers are not woken up.
WakeNone(c) == c

\* wakeup(&input.r).
Wake(c) == [p \in ConsReader |-> IF c[p].at = "sleep" THEN [c[p] EXCEPT !.at = "run"] ELSE c[p]]

\* consoleintr: a character, perhaps one that ends the line.
KeyChar(c) ==
  LET x == Entered(input, c)
      ends == c \in {Newline, Eof} \/ x.e = Index(x.r, INPUT_BUF)
  IN /\ ConsUnlocked /\ Space(input)
     /\ Index(input.end, INPUT_BUF) < MaxIndex + INPUT_BUF
     /\ IF ends THEN input' = [x EXCEPT !.e = x.end, !.w = x.end] /\ rd' = Wake(rd)
        ELSE input' = x /\ UNCHANGED rd
     /\ UNCHANGED <<stray, ckilled>>

\* consoleintr: the keys that edit.
KeyEdit(f) ==
  /\ ConsUnlocked
  /\ input' = CASE f = "U" -> kill_line(input)
                [] f = "H" -> back_space(input)
                [] f = "N" -> delete_num_of_line(input)
  /\ f = "N" => ~stray   \* bound: one stray control-N
  /\ stray' = (stray \/ (f = "N" /\ go_to_first_of_line(input).e # input.w))
  /\ UNCHANGED <<rd, ckilled>>

\* consolewrite, and cprintf: the cursor is somewhere afterwards.
consolewrite(k) ==
  /\ ConsUnlocked
  /\ input' = [input EXCEPT !.col = k]
  /\ UNCHANGED <<stray, rd, ckilled>>

ReadStart(p, n) ==
  /\ rd[p].at = "idle" /\ p \notin ckilled
  /\ rd' = [rd EXCEPT ![p] = [at |-> "run", target |-> n, n |-> n]]
  /\ UNCHANGED <<input, stray, ckilled>>

\* "Save ^D for next time, to make sure caller gets a 0-byte result."
EofLeft(p, n) == n < rd[p].target

\* --n for every character taken.
LeftOver(n, k) == n - k

\* The characters from one index to another.
Between(from, to) == [k \in 1 .. Index(to, -from) |-> CharAt(input, from + k - 1)]

\* consoleread, from the start or a wakeup to the end or a sleep: it takes what
\* there is, up to n characters, a newline, or an end of file.  What it returns is
\* not kept.
consoleread(p) ==
  LET n == rd[p].n
      ready == Between(input.r, input.w)
      most == IF Len(ready) < n THEN Len(ready) ELSE n
      stops == {k \in 1 .. most : ready[k] \in {Newline, Eof}}
      j == CHOOSE k \in stops : \A i \in stops : k <= i
      take(k) == input' = [input EXCEPT !.r = Index(@, k)]
      done == rd' = [rd EXCEPT ![p] = NotReading]
  IN /\ ConsUnlocked /\ rd[p].at = "run"
     /\ CASE stops # {} /\ ready[j] = Newline -> take(j) /\ done
          [] stops # {} /\ ready[j] = Eof -> take(IF EofLeft(p, n - j + 1) THEN j - 1 ELSE j) /\ done
          [] stops = {} /\ most = n -> take(n) /\ done
          [] stops = {} /\ most < n ->
               /\ take(most)
               /\ IF p \in ckilled THEN done
                  ELSE rd' = [rd EXCEPT ![p] = [@ EXCEPT !.at = "doze", !.n = LeftOver(n, most)]]
     /\ UNCHANGED <<stray, ckilled>>

\* sleep() gives cons.lock up.
ConsSleep(p) ==
  /\ rd[p].at = "doze"
  /\ rd' = [rd EXCEPT ![p].at = "sleep"]
  /\ UNCHANGED <<input, stray, ckilled>>

\* kill() of a reader; one that sleeps is made RUNNABLE.
ConsoleKill(p) ==
  /\ p \notin ckilled /\ rd[p].at # "idle"
  /\ ckilled' = ckilled \union {p}
  /\ rd' = [rd EXCEPT ![p].at = IF @ = "sleep" THEN "run" ELSE @]
  /\ UNCHANGED <<input, stray>>

ConsoleNext ==
  \/ \E c \in Letters \union Digits \union {Newline, Eof} : KeyChar(c)
  \/ \E f \in {"U", "H", "N"} : KeyEdit(f)
  \/ \E k \in Columns : consolewrite(k)
  \/ \E p \in ConsReader : (\E n \in ReadCounts : ReadStart(p, n)) \/ consoleread(p) \/ ConsSleep(p) \/ ConsoleKill(p)

-----------------------------------------------------------------------------
(* Properties.                                                             *)

Chars == Letters \union Digits \union {Newline, Eof, "nul"}

ConsoleTypeOK ==
  /\ input.buf \in [0 .. INPUT_BUF - 1 -> Chars]
  /\ rd \in [ConsReader -> [at : {"idle", "run", "doze", "sleep"}, target : Nat, n : Nat]]
  /\ \A p \in ConsReader : rd[p].n <= rd[p].target

\* No wakeup is lost: a reader sleeps only while there is nothing to read,
\* whatever keys are mixed with whatever reads and output.  The indices of the ring
\* keep their order and its size, and e is the end of the line, until control-N is
\* pressed when output, or a line longer than a row, has moved the cursor away.
ConsoleSleepers ==
  /\ ConsoleTypeOK
  /\ \A p \in ConsReader : rd[p].at = "sleep" => input.r = input.w
  /\ ~stray =>
       /\ input.r <= input.w /\ input.w <= input.e /\ input.e = input.end
       /\ input.end - input.r <= INPUT_BUF

Editor == INSTANCE LineEditor WITH
  Room <- INPUT_BUF, line <- Between(input.w, input.end), ready <- Between(input.r, input.w),
  orderly <- ~stray

\* Until then the ring behaves as a line editor in front of a queue: erasing never
\* touches what was handed over, a digit is taken out wherever it is, and readers
\* get what was typed, in order.
ImplementsLineEditor == Editor!EditSpec

==============================================================================

----------------------------- MODULE LineEditor ------------------------------
(***************************************************************************)
(* What the console's input promises as long as orderly is true: a line    *)
(* that is edited at its end until it is handed over, and handed-over      *)
(* characters that are read in order.                                      *)
(***************************************************************************)
EXTENDS Naturals, Sequences

CONSTANTS Letters, Digits, Newline, Eof, Room   \* Room: characters there is space for

VARIABLES line, ready,   \* the line being edited; characters that can be read
          orderly        \* nothing is promised from when this is false

Fits == Len(line) + Len(ready) < Room

EditInit == line = <<>> /\ ready = <<>>

\* A character is added; the line is handed over when the space is used up.
Type(c) ==
  /\ Fits
  /\ IF Len(line) + Len(ready) + 1 = Room
     THEN line' = <<>> /\ ready' = ready \o Append(line, c)
     ELSE line' = Append(line, c) /\ UNCHANGED ready

HandOver(c) == Fits /\ ready' = ready \o Append(line, c) /\ line' = <<>>

Erase == line # <<>> /\ line' = SubSeq(line, 1, Len(line) - 1) /\ UNCHANGED ready

EraseAll == line' = <<>> /\ UNCHANGED ready

EraseDigits == line' = SelectSeq(line, LAMBDA c : c \notin Digits) /\ UNCHANGED ready

\* Some characters are read: up to a newline, and the end of file by itself.
Take ==
  \E n \in 1 .. Len(ready) :
    /\ \A k \in 1 .. n - 1 : ready[k] # Newline
    /\ \A k \in 1 .. n : ready[k] = Eof => n = 1
    /\ ready' = SubSeq(ready, n + 1, Len(ready))
    /\ UNCHANGED line

EditNext ==
  \/ \E c \in Letters \union Digits : Type(c)
  \/ \E c \in {Newline, Eof} : HandOver(c)
  \/ Erase \/ EraseAll \/ EraseDigits
  \/ Take

EditSpec == EditInit /\ [][orderly' => EditNext]_<<line, ready>>

==============================================================================

----------------------------- MODULE LineBuffer -----------------------------
(***************************************************************************)
(* nLineBuffer: a ring of lines of fixed length that text is put into.     *)
(* Text wraps where a line is full and starts a new one at a newline; a    *)
(* carriage return begins the line again.  The oldest lines are given up.  *)
(*                                                                         *)
(* A line is the text up to its terminating 0, which Append has always     *)
(* written when it returns.                                                *)
(***************************************************************************)
EXTENDS Integers, Sequences

LOCAL SeqExt == INSTANCE SequencesExt

CONSTANTS
    Letter,         \* characters that are neither of the next two
    NewLine,
    CarriageReturn,
    LineLen,        \* N_LINE_LEN, the terminating 0 included
    NumLines,       \* N_NUM_LINES
    MaxText         \* bound: the characters put in all

ASSUME LineBufferAssumption == LineLen \in Nat \ {0, 1} /\ NumLines \in Nat \ {0, 1} /\ MaxText \in Nat

VARIABLES
    line_array, tail_line, head_line,
    text            \* history: everything that was put

lineVars == <<line_array, tail_line, head_line, text>>

Char == Letter \cup {NewLine, CarriageReturn}

nextLine(l) == IF l + 1 >= NumLines THEN 0 ELSE l + 1
prevLine(l) == IF l - 1 < 0 THEN NumLines - 1 ELSE l - 1

IsFull(line) == Len(line) >= LineLen - 1

\* nLine::Append: what becomes of a line, what is left of s, and whether Append returns
\* a pointer to it (to the 0 behind it when nothing is left) or NULL.
Appended(line, s) ==
    LET Run[i \in 1 .. Len(s) + 1, l \in Seq(Letter)] ==
            IF IsFull(l)            THEN [line |-> l, rest |-> SubSeq(s, i, Len(s)), more |-> TRUE]
            ELSE IF i > Len(s)      THEN [line |-> l, rest |-> <<>>, more |-> FALSE]
            ELSE IF s[i] = NewLine  THEN [line |-> l, rest |-> SubSeq(s, i + 1, Len(s)), more |-> TRUE]
            ELSE Run[i + 1, IF s[i] = CarriageReturn THEN <<>> ELSE Append(l, s[i])]
    IN Run[1, line]

\* Put moves on to a next line, which it empties, as long as Append returns a pointer.
PutInto(ring, s) ==
    LET Run[r \in [lines : Seq(Seq(Letter)), tail : Nat, head : Nat], cont \in Seq(Char)] ==
            IF cont = <<>> THEN r
            ELSE LET a    == Appended(r.lines[r.head + 1], cont)
                     here == [r EXCEPT !.lines[r.head + 1] = a.line]
                     next == nextLine(r.head)
                 IN IF ~a.more THEN here
                    ELSE Run[[lines |-> [here.lines EXCEPT ![next + 1] = <<>>],
                              head  |-> next,
                              tail  |-> IF next = r.tail THEN nextLine(r.tail) ELSE r.tail], a.rest]
    IN Run[ring, s]

LinesInit ==
    /\ line_array = [l \in 1 .. NumLines |-> <<>>]
    /\ tail_line = 0 /\ head_line = 0
    /\ text = <<>>

PutLines(s) ==
    /\ Len(text) + Len(s) <= MaxText
    /\ LET ring == PutInto([lines |-> line_array, tail |-> tail_line, head |-> head_line], s) IN
       /\ line_array' = ring.lines
       /\ tail_line' = ring.tail
       /\ head_line' = ring.head
    /\ text' = text \o s

LinesNext == \E s \in SeqExt!BoundedSeq(Char, MaxText) : PutLines(s)

LinesSpec == LinesInit /\ [][LinesNext]_lineVars

-----------------------------------------------------------------------------
GetLine(l)     == line_array[l + 1]
GetNextLine(l) == IF l = head_line THEN -1 ELSE nextLine(l)

\* Mutant: the oldest line is not reached.
GetPrevLineEarly(l) == IF l = tail_line \/ prevLine(l) = tail_line THEN -1 ELSE prevLine(l)

GetPrevLine(l) == IF l = tail_line THEN -1 ELSE prevLine(l)

\* The size latest lines that are not empty, newest first.
GetLines(size) ==
    LET From[i \in -1 .. NumLines - 1, n \in 0 .. size] ==
            IF i = -1 \/ n = 0 THEN <<>>
            ELSE IF GetLine(i) = <<>> THEN From[GetPrevLine(i), n]
            ELSE <<GetLine(i)>> \o From[GetPrevLine(i), n - 1]
    IN From[head_line, size]

\* The lines of a text put one character at a time into lines that are never given up: a
\* line ends at a newline and as soon as it is full.
LinesOf(s) ==
    LET Typed(lines, c) ==
            LET last == SeqExt!Last(lines)
                line == IF c = CarriageReturn THEN <<>> ELSE IF c = NewLine THEN last ELSE Append(last, c)
                ends == c = NewLine \/ Len(line) = LineLen - 1
            IN SeqExt!Front(lines) \o <<line>> \o (IF ends THEN <<<<>>>> ELSE <<>>)
    IN SeqExt!FoldLeft(Typed, <<<<>>>>, s)

\* From the head back to the tail.
RingLines ==
    LET From[l \in -1 .. NumLines - 1] ==
            IF l = -1 THEN <<>> ELSE <<GetLine(l)>> \o From[GetPrevLine(l)]
    IN From[head_line]

LatestOf(lines, n) == SubSeq(lines, 1, IF n < Len(lines) THEN n ELSE Len(lines))

Kept == LatestOf(SeqExt!Reverse(LinesOf(text)), NumLines)

\* The ring holds the last lines of the text, whatever pieces the text came in and
\* wherever the pieces began and ended in a line, and GetLines gives the latest of them
\* that are not empty, however few it is asked for.
RingHolds ==
    /\ RingLines = Kept
    /\ \A n \in 0 .. NumLines : GetLines(n) = LatestOf(SelectSeq(Kept, LAMBDA l : l # <<>>), n)
=============================================================================

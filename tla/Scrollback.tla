----------------------------- MODULE Scrollback -----------------------------
(***************************************************************************)
(* What a terminal's screen buffer promises: a transcript of the lines     *)
(* that have scrolled off the top, oldest first, above the screen, and a   *)
(* mark on a row of the screen, the cursor's.  Rows are numbered from 0.   *)
(***************************************************************************)
EXTENDS Integers, Sequences, FiniteSets

CONSTANTS
  Line,   \* contents of a line
  Blank   \* the content of a cleared line, one of Line

VARIABLES
  transcript,  \* lines above the screen
  screen,      \* lines of the screen, from the top
  total,       \* how many lines are kept
  mark         \* the row of the cursor

svars == <<transcript, screen, total, mark>>

Last(s, n) == SubSeq(s, Len(s) - n + 1, Len(s))

\* The newest n lines of s, or all when there are fewer.
Newest(s, n) == IF Len(s) <= n THEN s ELSE Last(s, n)

Blanks(n) == [i \in 1 .. n |-> Blank]

SInit ==
  /\ transcript = <<>>
  /\ screen \in Seq(Line)
  /\ \A i \in 1 .. Len(screen) : screen[i] = Blank
  /\ total \in Nat /\ total >= Len(screen)
  /\ mark = 0

\* A line of the screen is drawn.
Draw(row) ==
  /\ \E l \in Line : screen' = [screen EXCEPT ![row + 1] = l]
  /\ mark' = row
  /\ UNCHANGED <<transcript, total>>

\* The lines top .. bottom - 1 move up by one; the first goes to the transcript.
ScrollUp(top, bottom) ==
  /\ transcript' = Newest(Append(transcript, screen[top + 1]), total - Len(screen))
  /\ screen' = SubSeq(screen, 1, top) \o SubSeq(screen, top + 2, bottom)
                 \o <<Blank>> \o SubSeq(screen, bottom + 1, Len(screen))
  /\ UNCHANGED <<total, mark>>

\* The blank rows below the mark.
BlankBelow(row) == {i \in 1 .. Len(screen) - 1 : i > row /\ screen[i + 1] = Blank}

\* The screen loses n lines.  As many as there are blank rows below the mark are
\* dropped at its bottom, whether or not those are the blank ones; the others go
\* to the transcript from the top.
Shrink(n) ==
  LET blank == Cardinality(BlankBelow(mark))
      d     == IF blank <= n THEN blank ELSE n
      kept  == transcript \o SubSeq(screen, 1, Len(screen) - d)
      rows  == Len(screen) - n
  IN  /\ screen' = Last(kept, rows)
      /\ transcript' = SubSeq(kept, 1, Len(kept) - rows)
      /\ mark' = IF mark < n - d THEN 0 ELSE mark - (n - d)
      /\ UNCHANGED total

\* The screen gains n lines: the newest of the transcript, then blank ones.
Grow(n) ==
  LET pulled == IF n <= Len(transcript) THEN n ELSE Len(transcript)
      kept   == transcript \o screen \o Blanks(n - pulled)
      rows   == Len(screen) + n
  IN  /\ rows <= total
      /\ screen' = Last(kept, rows)
      /\ transcript' = SubSeq(kept, 1, Len(kept) - rows)
      /\ mark' = mark + pulled
      /\ UNCHANGED total

Forget ==
  /\ transcript' = <<>>
  /\ UNCHANGED <<screen, total, mark>>

SNext ==
  \/ \E row \in 0 .. Len(screen) - 1 : Draw(row)
  \/ \E bottom \in 1 .. Len(screen) : \E top \in 0 .. bottom - 1 : ScrollUp(top, bottom)
  \/ \E n \in 1 .. Len(screen) - 1 : Shrink(n)
  \/ \E n \in 1 .. total - Len(screen) : Grow(n)
  \/ Forget

SSpec == SInit /\ [][SNext]_svars
=============================================================================

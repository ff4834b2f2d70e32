--------------------------- MODULE TerminalBuffer ---------------------------
(***************************************************************************)
(* terminal-emulator/.../TerminalBuffer.java with rows of a fixed width:   *)
(* a circular array of row objects, the screen a window on it and the      *)
(* transcript the rows above that window.                                  *)
(*                                                                         *)
(* mLines holds references, as in Java, so that two slots can share a row  *)
(* object; text gives the content of each object.  The buffer is the main  *)
(* one or, with AltScreen, the alternate one, as TerminalEmulator uses     *)
(* them.  resize() to another width is not part of this module.            *)
(***************************************************************************)
EXTENDS Integers, Sequences, FiniteSets

CONSTANTS
  Line,       \* contents of a line
  Blank,      \* what isBlank() accepts, one of Line
  Row,        \* TerminalRow objects
  Null,       \* the null reference
  TotalRows,  \* length of mLines
  Heights,    \* numbers of rows a screen may have
  AltScreen   \* whether this is mAltBuffer

ASSUME BlankAssumption == Blank \in Line
ASSUME NullAssumption == Null \notin Row
ASSUME TotalRowsAssumption == TotalRows \in Nat \ {0}
ASSUME HeightsAssumption == Heights \subseteq 1 .. TotalRows
ASSUME AltAssumption == AltScreen \in BOOLEAN

VARIABLES
  mLines,                 \* TerminalRow[] mLines, indices from 0
  text,                   \* the content of each row object
  mLineWrap,              \* the row objects whose mLineWrap is set
  mTotalRows,
  mScreenRows,
  mScreenFirstRow,
  mActiveTranscriptRows,
  cursor                  \* mCursorRow of the emulator

vars == <<mLines, text, mLineWrap, mTotalRows, mScreenRows, mScreenFirstRow,
          mActiveTranscriptRows, cursor>>

Slot == 0 .. TotalRows - 1

Lesser(a, b) == IF a <= b THEN a ELSE b

\* i % mTotalRows for an i below twice mTotalRows, as all of them are here.
Fold(i, total) == IF i >= total THEN i - total ELSE i

\* Row objects no slot refers to.
Unused(lines) == {r \in Row : \A i \in Slot : lines[i] # r}

\* What can become of an array when every slot of S that is null is given a
\* new row object.
Allocated(lines, S) ==
  LET empty == {i \in S : lines[i] = Null}
  IN  {[i \in Slot |-> IF i \in empty THEN f[i] ELSE lines[i]] :
         f \in {g \in [empty -> Unused(lines)] :
                  \A i, j \in empty : g[i] = g[j] => i = j}}

\* Mutant: rows revealed are shown as they were.
ClearedNot(t, lines, S) == t

\* The objects at the slots S are cleared.
Cleared(t, lines, S) ==
  [r \in Row |-> IF \E i \in S : lines[i] = r THEN Blank ELSE t[r]]

-----------------------------------------------------------------------------
\* The slot of a row, for rows from -mActiveTranscriptRows to mScreenRows.
ExternalToInternalRow(row) ==
  LET i == mScreenFirstRow + row
  IN  IF i < 0 THEN mTotalRows + i ELSE i % mTotalRows

\* The constructor, with its trailing blockSet() of the screen.
Init ==
  /\ mTotalRows = TotalRows
  /\ mScreenRows \in Heights
  /\ AltScreen => mScreenRows = TotalRows
  /\ mScreenFirstRow = 0
  /\ mActiveTranscriptRows = 0
  /\ mLines \in Allocated([i \in Slot |-> Null], 0 .. mScreenRows - 1)
  /\ text = [r \in Row |-> Blank]
  /\ mLineWrap = {}
  /\ cursor = 0

\* setChar(), blockSet() and copyInterval() of one row: it is allocated if
\* necessary and its content changes.  The cursor is where text is written.
Put(row, l) ==
  LET i == ExternalToInternalRow(row)
  IN  /\ mLines' \in Allocated(mLines, {i})
      /\ text' = [text EXCEPT ![mLines'[i]] = l]
      /\ cursor' = row
      /\ UNCHANGED <<mLineWrap, mTotalRows, mScreenRows, mScreenFirstRow, mActiveTranscriptRows>>

\* setLineWrap() and clearLineWrap(): text has run over the end of the row, or
\* the cursor has been moved back over it.
LineWrap(row) ==
  LET r == mLines[ExternalToInternalRow(row)]
  IN  /\ mLineWrap' = IF r \in mLineWrap THEN mLineWrap \ {r} ELSE mLineWrap \cup {r}
      /\ UNCHANGED <<mLines, text, mTotalRows, mScreenRows, mScreenFirstRow,
                     mActiveTranscriptRows, cursor>>

\* Mutant: the line to be overwritten is not put back above the block.
BlockCopyLinesDownOver(lines, src, len) ==
  LET Distance(i) == IF i >= src THEN i - src ELSE i - src + mTotalRows
  IN  [i \in Slot |->
         IF i < mTotalRows /\ Distance(i) <= len /\ Distance(i) > 0
           THEN lines[IF i = 0 THEN mTotalRows - 1 ELSE i - 1]
           ELSE lines[i]]

\* The len lines from slot src on move one slot down; the line they overwrite
\* is put back above them.
BlockCopyLinesDown(lines, src, len) ==
  LET Distance(i) == IF i >= src THEN i - src ELSE i - src + mTotalRows
  IN  [i \in Slot |->
         IF len = 0 \/ i >= mTotalRows \/ Distance(i) > len THEN lines[i]
         ELSE IF Distance(i) = 0 THEN lines[Fold(src + len, mTotalRows)]
         ELSE lines[IF i = 0 THEN mTotalRows - 1 ELSE i - 1]]

\* The history after a scroll: it grows if not already full.
Grown(active) == IF active < mTotalRows - mScreenRows THEN active + 1 ELSE active

ScrollDownOneLine(topMargin, bottomMargin) ==
  /\ topMargin <= bottomMargin - 1 /\ topMargin >= 0 /\ bottomMargin <= mScreenRows
  /\ LET first  == mScreenFirstRow % mTotalRows
         lines1 == BlockCopyLinesDown(mLines, first, topMargin)
         lines2 == BlockCopyLinesDown(lines1, ExternalToInternalRow(bottomMargin),
                                      mScreenRows - bottomMargin)
         blankRow == ExternalToInternalRow(bottomMargin)
     IN  /\ mScreenFirstRow' = (mScreenFirstRow + 1) % mTotalRows
         /\ mActiveTranscriptRows' = Grown(mActiveTranscriptRows)
         /\ \E lines \in {lines2} : mLines' \in Allocated(lines, {blankRow})
         /\ text' = Cleared(text, mLines', {blankRow})
  /\ UNCHANGED <<mLineWrap, mTotalRows, mScreenRows, cursor>>

\* The rows below the cursor that resize() counts as blank.
BlankBelow(row) ==
  {i \in 1 .. mScreenRows - 1 :
     /\ i > row
     /\ LET r == mLines[ExternalToInternalRow(i)] IN r = Null \/ text[r] = Blank}

\* actualShift, not positive: an expanding screen moves up over its transcript.
ShiftUp(rows) ==
  IF rows - mScreenRows <= mActiveTranscriptRows
    THEN mScreenRows - rows ELSE -mActiveTranscriptRows

\* shiftDownOfTopRow of a shrinking screen.
ShiftDown(rows) ==
  LET n == Cardinality(BlankBelow(cursor))
  IN  mScreenRows - rows - Lesser(n, mScreenRows - rows)

\* Mutant: the cursor does not follow the lines of an expanding screen.
CursorShiftedDown(row, shift) == IF shift <= 0 THEN row ELSE IF row < shift THEN 0 ELSE row - shift

\* The cursor's row after resize(): the top row when its line has left the screen.
CursorShifted(row, shift) == IF row - shift < 0 THEN 0 ELSE row - shift

\* resize() when only the number of rows changes and mLines is long enough.
Resize(rows) ==
  /\ rows # mScreenRows
  /\ rows <= mTotalRows
  /\ LET shift == IF rows < mScreenRows THEN ShiftDown(rows) ELSE ShiftUp(rows)
         first == mScreenFirstRow + shift
         below == {(mScreenFirstRow + mScreenRows + i) % mTotalRows :
                     i \in 0 .. rows - mScreenRows + shift - 1}
     IN  /\ mLines' \in Allocated(mLines, below)
         /\ text' = Cleared(text, mLines', below)
         /\ mScreenFirstRow' = IF first < 0 THEN first + mTotalRows ELSE first % mTotalRows
         /\ mTotalRows' = IF AltScreen THEN rows ELSE mTotalRows
         /\ mActiveTranscriptRows' =
              IF AltScreen \/ mActiveTranscriptRows + shift < 0
                THEN 0 ELSE mActiveTranscriptRows + shift
         /\ cursor' = CursorShifted(cursor, shift)
         /\ mScreenRows' = rows
         /\ UNCHANGED mLineWrap

\* Mutant: the upper bound of the second fill is taken as inclusive.
TranscriptSlotsPast ==
  {i \in 0 .. mTotalRows - 1 :
     IF mScreenFirstRow < mActiveTranscriptRows
       THEN i >= mTotalRows + mScreenFirstRow - mActiveTranscriptRows \/ i <= mScreenFirstRow
       ELSE i >= mScreenFirstRow - mActiveTranscriptRows /\ i < mScreenFirstRow}

\* What clearTranscript() fills with null.
TranscriptSlots ==
  {i \in 0 .. mTotalRows - 1 :
     IF mScreenFirstRow < mActiveTranscriptRows
       THEN i >= mTotalRows + mScreenFirstRow - mActiveTranscriptRows \/ i < mScreenFirstRow
       ELSE i >= mScreenFirstRow - mActiveTranscriptRows /\ i < mScreenFirstRow}

\* clearTranscript(), which is called for the main buffer only.  A row object
\* that is dropped is as good as new.
ClearTranscript ==
  /\ ~AltScreen
  /\ mLines' = [i \in Slot |-> IF i \in TranscriptSlots THEN Null ELSE mLines[i]]
  /\ mActiveTranscriptRows' = 0
  /\ text' = Cleared(text, mLines, TranscriptSlots)
  /\ mLineWrap' = mLineWrap \ {mLines[i] : i \in TranscriptSlots}
  /\ UNCHANGED <<mTotalRows, mScreenRows, mScreenFirstRow, cursor>>

Next ==
  \/ \E row \in 0 .. mScreenRows - 1 : LineWrap(row) \/ \E l \in Line : Put(row, l)
  \/ \E bottom \in 1 .. mScreenRows : \E top \in 0 .. bottom - 1 : ScrollDownOneLine(top, bottom)
  \/ \E rows \in Heights : Resize(rows)
  \/ ClearTranscript

Spec == Init /\ [][Next]_vars

-----------------------------------------------------------------------------
\* The fields of TerminalBuffer.java keep their types, the screen and the
\* transcript fit into mLines together, and the cursor stays on the screen.
TypeOK ==
  /\ mLines \in [Slot -> Row \cup {Null}]
  /\ text \in [Row -> Line]
  /\ mLineWrap \subseteq Row
  /\ mTotalRows \in 1 .. TotalRows
  /\ mScreenRows \in Heights
  /\ mScreenFirstRow \in Slot
  /\ mActiveTranscriptRows \in 0 .. mTotalRows - mScreenRows
  /\ cursor \in 0 .. mScreenRows - 1

\* "Line exists at multiple places": no row object is in two slots, so drawing
\* one line never changes another, however often rows have been rotated.
NoSharedRows == \A i, j \in Slot : mLines[i] = mLines[j] /\ mLines[i] # Null => i = j

\* Every row of the screen and of the transcript has a row object:
\* setLineWrap(), setOrClearEffect() and the renderer dereference it unchecked.
ActiveRowsAllocated ==
  \A row \in -mActiveTranscriptRows .. mScreenRows - 1 :
    mLines[ExternalToInternalRow(row)] # Null

\* The content of the rows from one to another.
Contents(from, to) ==
  [i \in 1 .. to - from + 1 |-> text[mLines[ExternalToInternalRow(from + i - 1)]]]

Lines == INSTANCE Scrollback
           WITH transcript <- Contents(-mActiveTranscriptRows, -1),
                screen <- Contents(0, mScreenRows - 1),
                total <- mTotalRows,
                mark <- cursor

\* The circular array shows the same lines as a plain list of lines, and the
\* cursor is on the same line of it: scrolling within margins, resizing and
\* clearing repeat or reorder none, and lose none that the list would keep.
\* What the list loses is Forget's transcript, what its transcript has no room
\* for and, when the screen shrinks, as many lines at the bottom as resize() has
\* counted blank ones below the cursor, text among them (ShrinkSkipsBlank).
ImplementsScrollback == Lines!SSpec

\* The cursor stays on its row object through resize(), unless that has left
\* the screen at the top.
CursorKeepsLine ==
  [][mScreenRows' # mScreenRows =>
       \/ mLines'[ExternalToInternalRow(cursor)'] = mLines[ExternalToInternalRow(cursor)]
       \/ /\ cursor' = 0
          /\ \E row \in -mActiveTranscriptRows' .. -1 :
               mLines'[ExternalToInternalRow(row)'] = mLines[ExternalToInternalRow(cursor)]]_vars

\* "Check if we can skip blank rows at bottom below cursor": the rows that a
\* shrinking screen leaves behind at its bottom are blank.
ShrinkSkipsBlank ==
  [][mScreenRows' < mScreenRows =>
       \A row \in 0 .. mScreenRows - 1 :
         LET r == mLines[ExternalToInternalRow(row)]
         IN  \/ text[r] = Blank
             \/ \E now \in -mActiveTranscriptRows' .. mScreenRows' - 1 :
                  mLines'[ExternalToInternalRow(now)'] = r]_vars
=============================================================================

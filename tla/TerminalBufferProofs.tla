------------------------ MODULE TerminalBufferProofs ------------------------
(***************************************************************************)
(* Proofs about module TerminalBuffer, for any number of rows.             *)
(***************************************************************************)
EXTENDS TerminalBuffer, FiniteSetTheorems, TLAPS

\* The remainder of a sum of two indices.
LEMMA Remainder ==
  ASSUME NEW t \in Nat \ {0}, NEW i \in Nat
  PROVE  /\ i % t \in 0 .. t - 1
         /\ i < t => i % t = i
         /\ i >= t /\ i < t + t => i % t = i - t
         /\ i < t + t => i % t = Fold(i, t)
  BY DEF Fold

\* The slot of a row by cases: what externalToInternalRow() computes when the
\* first row of the screen is an index below t.
At(f, row, t) == IF f + row < 0 THEN f + row + t ELSE IF f + row < t THEN f + row ELSE f + row - t

\* Every slot has a row object.
NoneNull == \A i \in Slot : mLines[i] # Null

\* A buffer that can be scrolled and resized: its fields are typed, no two slots
\* share a row object and the active rows have one.  The alternate buffer has no
\* room for a transcript and no empty slots.
IInv ==
  /\ TypeOK
  /\ NoSharedRows
  /\ ActiveRowsAllocated
  /\ IF AltScreen THEN mTotalRows = mScreenRows /\ NoneNull
                  ELSE mTotalRows = TotalRows

\* externalToInternalRow() as a function of the first row and the total.
Ext(f, row, t) == IF f + row < 0 THEN t + f + row ELSE (f + row) % t

\* externalToInternalRow() gives an index below mTotalRows, the one At() says.
LEMMA RowSlot ==
  ASSUME NEW t \in Nat \ {0}, NEW f \in Nat, NEW row \in -t .. t
  PROVE  /\ Ext(f, row, t) \in 0 .. t - 1
         /\ f < t => Ext(f, row, t) = At(f, row, t)
<1>1. CASE f + row < 0
  BY <1>1 DEF Ext, At
<1>2. CASE f + row >= 0
  <2> DEFINE i == f + row
  <2>1. i \in Nat
    BY <1>2
  <2> HIDE DEF i
  <2>2. /\ i % t \in 0 .. t - 1
        /\ i < t => i % t = i
        /\ i >= t /\ i < t + t => i % t = i - t
    BY <2>1, Remainder, ZenonT(30)
  <2>3. Ext(f, row, t) = i % t
    BY <1>2 DEF Ext, i
  <2>4. f < t => i <= t + t
    BY DEF i
  <2>5. i = t + t => f >= t
    BY DEF i
  <2>6. At(f, row, t) = IF i < t THEN i ELSE i - t
    BY <1>2 DEF At, i
  <2> QED
    BY <2>1, <2>2, <2>3, <2>4, <2>5, <2>6
<1> QED
  BY <1>1, <1>2

\* What the fields are when the invariant holds.
LEMMA Fields ==
  ASSUME TypeOK
  PROVE  /\ mTotalRows \in Nat \ {0} /\ mTotalRows <= TotalRows
         /\ mScreenRows \in Nat \ {0} /\ mScreenRows <= mTotalRows
         /\ mActiveTranscriptRows \in Nat /\ mActiveTranscriptRows <= mTotalRows - mScreenRows
         /\ mScreenFirstRow \in Nat /\ mScreenFirstRow < TotalRows
         /\ cursor \in Nat /\ cursor < mScreenRows
BY TotalRowsAssumption, HeightsAssumption DEF TypeOK, Slot

\* Every active row, and the one below the screen, has a slot below mTotalRows.
LEMMA ActiveSlot ==
  ASSUME TypeOK, NEW row \in -mActiveTranscriptRows .. mScreenRows
  PROVE  /\ ExternalToInternalRow(row) = Ext(mScreenFirstRow, row, mTotalRows)
         /\ ExternalToInternalRow(row) \in 0 .. mTotalRows - 1
         /\ ExternalToInternalRow(row) \in Slot
<1>1. row \in -mTotalRows .. mTotalRows
  BY Fields
<1>2. Ext(mScreenFirstRow, row, mTotalRows) \in 0 .. mTotalRows - 1
  BY <1>1, Fields, RowSlot
<1>3. ExternalToInternalRow(row) = Ext(mScreenFirstRow, row, mTotalRows)
  BY <1>1, Fields DEF ExternalToInternalRow, Ext
<1> QED
  BY <1>2, <1>3, Fields, TotalRowsAssumption DEF Slot

\* Giving empty slots new row objects keeps the others and shares none.
LEMMA Allocation ==
  ASSUME NEW lines \in [Slot -> Row \cup {Null}], NEW S \in SUBSET Slot,
         NEW new \in Allocated(lines, S),
         \A i, j \in Slot : lines[i] = lines[j] /\ lines[i] # Null => i = j
  PROVE  /\ new \in [Slot -> Row \cup {Null}]
         /\ \A i, j \in Slot : new[i] = new[j] /\ new[i] # Null => i = j
         /\ \A i \in S : new[i] # Null
         /\ \A i \in Slot : lines[i] # Null => new[i] = lines[i]
         /\ \A i \in Slot \ S : new[i] = lines[i]
<1> DEFINE empty == {i \in S : lines[i] = Null}
<1>1. PICK f \in [empty -> Unused(lines)] :
        /\ \A i, j \in empty : f[i] = f[j] => i = j
        /\ new = [i \in Slot |-> IF i \in empty THEN f[i] ELSE lines[i]]
  BY ZenonT(30) DEF Allocated
<1>2. \A i \in empty : f[i] \in Row /\ \A j \in Slot : lines[j] # f[i]
  BY <1>1 DEF Unused
<1>3. new \in [Slot -> Row \cup {Null}]
  BY <1>1, <1>2
<1>4. \A i \in Slot : new[i] = IF i \in empty THEN f[i] ELSE lines[i]
  BY <1>1
<1>5. \A i \in S : new[i] # Null
  BY <1>2, <1>4, NullAssumption
<1>6. ASSUME NEW i \in Slot, NEW j \in Slot, new[i] = new[j], new[i] # Null
      PROVE  i = j
  BY <1>1, <1>2, <1>4, <1>6
<1>7. \A i \in Slot : lines[i] # Null => new[i] = lines[i]
  BY <1>4
<1>8. \A i \in Slot \ S : new[i] = lines[i]
  BY <1>4
<1> QED
  BY <1>3, <1>5, <1>6, <1>7, <1>8

\* How far below slot src of a circle of t slots slot i is.
Distance(i, src, t) == IF i >= src THEN i - src ELSE i - src + t

\* What moving len lines down from slot src makes of lines: no row object is lost
\* or shared.  When the lines moved are there, only the topmost slot can become
\* null, and it does so only if the line that is overwritten was.
Moved(lines, new, src, len) ==
  /\ new \in [Slot -> Row \cup {Null}]
  /\ \A i, j \in Slot : new[i] = new[j] /\ new[i] # Null => i = j
  /\ (\A i \in Slot : lines[i] # Null) => \A i \in Slot : new[i] # Null
  /\ (\A i \in 0 .. mTotalRows - 1 : Distance(i, src, mTotalRows) < len => lines[i] # Null) =>
       /\ \A i \in Slot : i # src /\ lines[i] # Null => new[i] # Null
       /\ \A i \in 0 .. mTotalRows - 1 :
            Distance(i, src, mTotalRows) \in 1 .. len => new[i] # Null
  /\ lines[Fold(src + len, mTotalRows)] # Null => new[src] # Null

\* blockCopyLinesDown() permutes the slots below mTotalRows.
LEMMA BlockCopy ==
  ASSUME NEW lines \in [Slot -> Row \cup {Null}], NEW src \in 0 .. mTotalRows - 1,
         NEW len \in Nat, len < mTotalRows, mTotalRows \in 1 .. TotalRows,
         \A i, j \in Slot : lines[i] = lines[j] /\ lines[i] # Null => i = j
  PROVE  Moved(lines, BlockCopyLinesDown(lines, src, len), src, len)
<1> DEFINE D(i) == IF i >= src THEN i - src ELSE i - src + mTotalRows
           P(i) == IF len = 0 \/ i >= mTotalRows \/ D(i) > len THEN i
                   ELSE IF D(i) = 0 THEN Fold(src + len, mTotalRows)
                   ELSE IF i = 0 THEN mTotalRows - 1 ELSE i - 1
           new == BlockCopyLinesDown(lines, src, len)
<1>1. new = [i \in Slot |-> lines[P(i)]]
  BY DEF BlockCopyLinesDown
<1>2. \A i \in Slot : P(i) \in Slot
  BY TotalRowsAssumption DEF Slot, Fold
<1>3. \A i, j \in Slot : P(i) = P(j) => i = j
  BY TotalRowsAssumption DEF Slot, Fold
<1>4. \A i \in Slot : i # src => \/ P(i) = i
                                 \/ P(i) \in 0 .. mTotalRows - 1 /\ Distance(P(i), src, mTotalRows) < len
  BY TotalRowsAssumption DEF Slot, Fold, Distance
<1>5. \A i \in 0 .. mTotalRows - 1 : Distance(i, src, mTotalRows) \in 1 .. len =>
        i \in Slot /\ P(i) \in 0 .. mTotalRows - 1 /\ Distance(P(i), src, mTotalRows) < len
  BY TotalRowsAssumption DEF Slot, Fold, Distance
<1>6. src \in Slot /\ P(src) = Fold(src + len, mTotalRows)
  BY TotalRowsAssumption DEF Slot, Fold
<1> HIDE DEF P
<1>7. \A i \in Slot : new[i] = lines[P(i)]
  BY <1>1
<1> HIDE DEF new
<1>8. new \in [Slot -> Row \cup {Null}]
  BY <1>1, <1>2
<1>9. \A i, j \in Slot : new[i] = new[j] /\ new[i] # Null => i = j
  BY <1>2, <1>3, <1>7
<1>10. (\A i \in Slot : lines[i] # Null) => \A i \in Slot : new[i] # Null
  BY <1>2, <1>7
<1>11. ASSUME \A i \in 0 .. mTotalRows - 1 : Distance(i, src, mTotalRows) < len => lines[i] # Null
       PROVE  /\ \A i \in Slot : i # src /\ lines[i] # Null => new[i] # Null
              /\ \A i \in 0 .. mTotalRows - 1 :
                   Distance(i, src, mTotalRows) \in 1 .. len => new[i] # Null
  BY <1>4, <1>5, <1>7, <1>11
<1>12. lines[Fold(src + len, mTotalRows)] # Null => new[src] # Null
  BY <1>6, <1>7
<1> QED
  <2>1. Moved(lines, new, src, len)
    BY <1>8, <1>9, <1>10, <1>11, <1>12, Zenon DEF Moved
  <2> QED
    BY <2>1 DEF new

\* The constructor allocates the screen.
LEMMA InitIInv == Init => IInv
<1> SUFFICES ASSUME Init PROVE IInv
  OBVIOUS
<1> DEFINE none == [i \in Slot |-> Null]
<1>1. /\ mTotalRows \in Nat \ {0} /\ mTotalRows = TotalRows
      /\ mScreenRows \in Nat \ {0} /\ mScreenRows <= mTotalRows /\ 0 .. mScreenRows - 1 \subseteq Slot
  BY TotalRowsAssumption, HeightsAssumption DEF Init, Slot
<1>2. none \in [Slot -> Row \cup {Null}] /\ \A i, j \in Slot : none[i] = none[j] /\ none[i] # Null => i = j
  OBVIOUS
<1>3. mLines \in Allocated(none, 0 .. mScreenRows - 1)
  BY DEF Init
<1> HIDE DEF none
<1>4. /\ mLines \in [Slot -> Row \cup {Null}] /\ NoSharedRows
      /\ \A i \in 0 .. mScreenRows - 1 : mLines[i] # Null
  BY <1>1, <1>2, <1>3, Allocation DEF NoSharedRows
<1>5. TypeOK
  BY <1>1, <1>4, BlankAssumption, TotalRowsAssumption DEF Init, TypeOK, Slot
<1>6. \A row \in 0 .. mScreenRows - 1 : ExternalToInternalRow(row) = row
  <2> TAKE row \in 0 .. mScreenRows - 1
  <2>1. row \in -mTotalRows .. mTotalRows /\ At(0, row, mTotalRows) = row
    BY <1>1 DEF At
  <2>2. Ext(0, row, mTotalRows) = row
    BY <1>1, <2>1, RowSlot
  <2> QED
    BY <2>2 DEF Init, ExternalToInternalRow, Ext
<1>7. ActiveRowsAllocated
  BY <1>1, <1>4, <1>6 DEF ActiveRowsAllocated, Init
<1>8. AltScreen => mScreenRows = mTotalRows /\ \A i \in Slot : mLines[i] # Null
  BY <1>1, <1>4 DEF Init, Slot
<1> QED
  BY <1>1, <1>4, <1>5, <1>7, <1>8, AltAssumption DEF IInv, NoneNull

\* Drawing a character.
LEMMA PutIInv ==
  ASSUME IInv, NEW row \in 0 .. mScreenRows - 1, NEW l \in Line, Put(row, l)
  PROVE  IInv'
<1> DEFINE i == ExternalToInternalRow(row)
<1>1. TypeOK /\ NoSharedRows /\ mLines \in [Slot -> Row \cup {Null}]
  BY DEF IInv, TypeOK
<1>2. row \in -mActiveTranscriptRows .. mScreenRows
  BY <1>1, Fields
<1>3. i \in Slot
  BY <1>1, <1>2, ActiveSlot
<1>4. mLines' \in Allocated(mLines, {i})
  BY DEF Put
<1> HIDE DEF i
<1>5. /\ mLines' \in [Slot -> Row \cup {Null}]
      /\ NoSharedRows'
      /\ mLines'[i] # Null
      /\ \A j \in Slot : mLines[j] # Null => mLines'[j] = mLines[j]
  BY <1>1, <1>3, <1>4, Allocation DEF NoSharedRows
<1>6. UNCHANGED <<mLineWrap, mTotalRows, mScreenRows, mScreenFirstRow, mActiveTranscriptRows>> /\ cursor' = row
  BY DEF Put
<1>7. text' \in [Row -> Line]
  BY <1>1, <1>3, <1>5, ZenonT(30) DEF Put, TypeOK
<1>8. TypeOK'
  BY <1>1, <1>5, <1>6, <1>7 DEF TypeOK
<1>9. ActiveRowsAllocated'
  <2> SUFFICES ASSUME NEW k \in -mActiveTranscriptRows .. mScreenRows - 1
               PROVE  mLines'[ExternalToInternalRow(k)'] # Null
    BY <1>6 DEF ActiveRowsAllocated
  <2>1. ExternalToInternalRow(k)' = ExternalToInternalRow(k)
    BY <1>6 DEF ExternalToInternalRow
  <2>2. mLines[ExternalToInternalRow(k)] # Null
    BY DEF IInv, ActiveRowsAllocated
  <2>3. ExternalToInternalRow(k) \in Slot
    BY <1>1, Fields, ActiveSlot
  <2> QED
    BY <1>5, <2>1, <2>2, <2>3
<1> QED
  BY <1>1, <1>5, <1>6, <1>8, <1>9 DEF IInv, NoneNull

\* When every slot has a row object, so have the active rows.
LEMMA AllAllocated == TypeOK /\ NoneNull => ActiveRowsAllocated
<1> USE DEF NoneNull
<1> SUFFICES ASSUME TypeOK, NoneNull,
                    NEW row \in -mActiveTranscriptRows .. mScreenRows - 1
             PROVE  mLines[ExternalToInternalRow(row)] # Null
  BY DEF ActiveRowsAllocated
<1>1. row \in -mActiveTranscriptRows .. mScreenRows
  BY Fields
<1> QED
  BY <1>1, ActiveSlot

\* A row object marked as wrapped, or no longer.
LEMMA LineWrapIInv ==
  ASSUME IInv, NEW row \in 0 .. mScreenRows - 1, LineWrap(row)
  PROVE  IInv'
<1>1. TypeOK /\ row \in -mActiveTranscriptRows .. mScreenRows - 1 /\ row \in -mActiveTranscriptRows .. mScreenRows
  BY Fields DEF IInv
<1>2. mLines[ExternalToInternalRow(row)] \in Row
  BY <1>1, ActiveSlot DEF IInv, TypeOK, ActiveRowsAllocated
<1>3. mLineWrap' \subseteq Row
  BY <1>1, <1>2 DEF LineWrap, TypeOK
<1>4. UNCHANGED <<mLines, text, mTotalRows, mScreenRows, mScreenFirstRow, mActiveTranscriptRows, cursor>>
  BY DEF LineWrap
<1> QED
  BY <1>1, <1>3, <1>4 DEF IInv, TypeOK, NoSharedRows, ActiveRowsAllocated,
     ExternalToInternalRow, NoneNull

\* Rows in terms of the slots of a circle: the next row is one slot on, and the
\* distance of two rows' slots is that of the rows.
LEMMA Circle ==
  ASSUME NEW t \in Nat \ {0}, NEW f \in 0 .. t - 1
  PROVE  /\ \A row \in -t .. t - 1 : At(At(f, 1, t), row, t) = At(f, row + 1, t)
         /\ \A a, b \in 0 .. t : a <= b /\ b - a < t => Distance(At(f, b, t), At(f, a, t), t) = b - a
         /\ \A a \in 0 .. t, i \in 0 .. t - 1 :
              a + Distance(i, At(f, a, t), t) <= t => i = At(f, a + Distance(i, At(f, a, t), t), t)
<1>1. \A row \in -t .. t - 1 : At(At(f, 1, t), row, t) = At(f, row + 1, t)
  BY DEF At
<1>2. \A a, b \in 0 .. t : a <= b /\ b - a < t => Distance(At(f, b, t), At(f, a, t), t) = b - a
  BY DEF At, Distance
<1>3. \A a \in 0 .. t, i \in 0 .. t - 1 :
        a + Distance(i, At(f, a, t), t) <= t => i = At(f, a + Distance(i, At(f, a, t), t), t)
  BY DEF At, Distance
<1> QED
  BY <1>1, <1>2, <1>3

\* scrollDownOneLine(): the fixed lines above and below the margins are moved
\* along, and the row revealed has an object.
LEMMA ScrollIInv ==
  ASSUME IInv, NEW bottom \in 1 .. mScreenRows, NEW top \in 0 .. bottom - 1,
         ScrollDownOneLine(top, bottom)
  PROVE  IInv'
<1> DEFINE t == mTotalRows
           f == mScreenFirstRow % t
           b == ExternalToInternalRow(bottom)
           len == mScreenRows - bottom
           lines1 == BlockCopyLinesDown(mLines, f, top)
           lines2 == BlockCopyLinesDown(lines1, b, len)
<1>1. TypeOK /\ NoSharedRows /\ ActiveRowsAllocated /\ mLines \in [Slot -> Row \cup {Null}]
  BY DEF IInv, TypeOK
<1>2. /\ t \in Nat \ {0} /\ t \in 1 .. TotalRows
      /\ mScreenRows \in 1 .. t /\ bottom \in 1 .. mScreenRows /\ top \in 0 .. bottom - 1
      /\ mActiveTranscriptRows \in 0 .. t - mScreenRows /\ mScreenFirstRow \in Nat
      /\ len \in Nat /\ len < t /\ top \in Nat /\ top < t
  BY <1>1, Fields
<1>3. f \in 0 .. t - 1 /\ (mScreenFirstRow + 1) % t \in 0 .. t - 1 /\ (~AltScreen => f = mScreenFirstRow)
  <2>1. mScreenFirstRow + 1 \in Nat /\ (~AltScreen => mScreenFirstRow < t)
    BY <1>1, <1>2, Fields DEF IInv
  <2> HIDE DEF t
  <2> QED
    BY <1>2, <2>1, Remainder, ZenonT(30)
<1>4. b \in 0 .. t - 1 /\ b \in Slot
  BY <1>1, <1>2, ActiveSlot
<1>5. /\ mScreenFirstRow' = (mScreenFirstRow + 1) % t
      /\ mActiveTranscriptRows' = Grown(mActiveTranscriptRows)
      /\ mLines' \in Allocated(lines2, {b})
      /\ text' = Cleared(text, mLines', {b})
      /\ UNCHANGED <<mLineWrap, mTotalRows, mScreenRows, cursor>>
  BY DEF ScrollDownOneLine
<1> HIDE DEF f, b, len
<1>6. /\ lines1 \in [Slot -> Row \cup {Null}]
      /\ \A i, j \in Slot : lines1[i] = lines1[j] /\ lines1[i] # Null => i = j
      /\ (\A i \in Slot : mLines[i] # Null) => \A i \in Slot : lines1[i] # Null
      /\ (\A i \in 0 .. t - 1 : Distance(i, f, t) < top => mLines[i] # Null) =>
           \A i \in Slot : i # f /\ mLines[i] # Null => lines1[i] # Null
      /\ mLines[Fold(f + top, t)] # Null => lines1[f] # Null
  <2>1. \A i, j \in Slot : mLines[i] = mLines[j] /\ mLines[i] # Null => i = j
    BY <1>1 DEF NoSharedRows
  <2>2. top \in Nat /\ top < mTotalRows /\ mTotalRows \in 1 .. TotalRows /\ f \in 0 .. mTotalRows - 1
    BY <1>2, <1>3
  <2>3. Moved(mLines, lines1, f, top)
    BY <1>1, <2>1, <2>2, BlockCopy
  <2> HIDE DEF lines1
  <2> QED
    BY <2>3 DEF Moved
<1> HIDE DEF lines1
<1>7. /\ lines2 \in [Slot -> Row \cup {Null}]
      /\ \A i, j \in Slot : lines2[i] = lines2[j] /\ lines2[i] # Null => i = j
      /\ (\A i \in Slot : lines1[i] # Null) => \A i \in Slot : lines2[i] # Null
      /\ (\A i \in 0 .. t - 1 : Distance(i, b, t) < len => lines1[i] # Null) =>
           /\ \A i \in Slot : i # b /\ lines1[i] # Null => lines2[i] # Null
           /\ \A i \in 0 .. t - 1 : Distance(i, b, t) \in 1 .. len => lines2[i] # Null
  <2>1. /\ lines1 \in [Slot -> Row \cup {Null}]
        /\ \A i, j \in Slot : lines1[i] = lines1[j] /\ lines1[i] # Null => i = j
    BY <1>6, Zenon
  <2>2. len \in Nat /\ len < mTotalRows /\ mTotalRows \in 1 .. TotalRows /\ b \in 0 .. mTotalRows - 1
    BY <1>2, <1>4
  <2>3. Moved(lines1, lines2, b, len)
    BY <2>1, <2>2, BlockCopy
  <2> HIDE DEF lines2
  <2> QED
    BY <2>3 DEF Moved
<1> HIDE DEF lines2
<1>8. /\ mLines' \in [Slot -> Row \cup {Null}]
      /\ NoSharedRows'
      /\ mLines'[b] # Null
      /\ \A i \in Slot : lines2[i] # Null => mLines'[i] # Null
  BY <1>4, <1>5, <1>7, Allocation DEF NoSharedRows
<1>9. TypeOK'
  <2>1. text' \in [Row -> Line]
    BY <1>1, <1>5, BlankAssumption DEF TypeOK, Cleared
  <2>2. mActiveTranscriptRows' \in 0 .. t - mScreenRows
    BY <1>2, <1>5 DEF Grown
  <2>3. mScreenFirstRow' \in Slot
    BY <1>2, <1>3, <1>5, TotalRowsAssumption DEF Slot
  <2> QED
    BY <1>1, <1>5, <1>8, <2>1, <2>2, <2>3, ZenonT(30) DEF TypeOK
<1>10. CASE AltScreen
  <2>1. NoneNull'
    BY <1>6, <1>7, <1>8, <1>10, SMTT(30) DEF IInv, NoneNull
  <2> QED
    <3>1. ActiveRowsAllocated'
      BY <1>9, <2>1, AllAllocated, PTL
    <3> QED
      BY <1>5, <1>8, <1>9, <1>10, <2>1, <3>1 DEF IInv
<1>11. CASE ~AltScreen
  <2> DEFINE Row1(k) == At(f, k, t)
  <2>1. \A k \in -mActiveTranscriptRows .. mScreenRows : ExternalToInternalRow(k) = Row1(k) /\ Row1(k) \in Slot /\ Row1(k) \in 0 .. t - 1
    <3> TAKE k \in -mActiveTranscriptRows .. mScreenRows
    <3>1. k \in -t .. t
      BY <1>2
    <3>2. /\ ExternalToInternalRow(k) = Ext(f, k, t)
          /\ ExternalToInternalRow(k) \in 0 .. t - 1 /\ ExternalToInternalRow(k) \in Slot
      BY <1>1, <1>2, <1>3, <1>11, ActiveSlot
    <3>3. Ext(f, k, t) = Row1(k)
      BY <1>2, <1>3, <3>1, RowSlot
    <3> QED
      BY <3>2, <3>3
  <2>2. \A k \in -mActiveTranscriptRows .. mScreenRows - 1 : mLines[Row1(k)] # Null
    BY <1>1, <1>2, <2>1 DEF ActiveRowsAllocated
  <2>3. b = Row1(bottom)
    BY <1>2, <2>1 DEF b
  <2>4. \A i \in 0 .. t - 1 : Distance(i, f, t) < top => mLines[i] # Null
    <3>1. \A i \in 0 .. t - 1 : Distance(i, f, t) < top =>
            Distance(i, f, t) \in -mActiveTranscriptRows .. mScreenRows - 1 /\ i = Row1(Distance(i, f, t))
      BY <1>2, <1>3 DEF Distance, At
    <3> QED
      BY <2>2, <3>1
  <2>5. Fold(f + top, t) = Row1(top)
    BY <1>2, <1>3 DEF Fold, At
  <2>6. \A i \in Slot : mLines[i] # Null => lines1[i] # Null
    BY <1>2, <1>6, <2>2, <2>4, <2>5, SMTT(30)
  <2>7. \A i \in 0 .. t - 1 : Distance(i, b, t) < len => lines1[i] # Null
    <3>1. \A i \in 0 .. t - 1 : Distance(i, b, t) < len =>
            /\ bottom + Distance(i, b, t) \in -mActiveTranscriptRows .. mScreenRows - 1
            /\ i = Row1(bottom + Distance(i, b, t))
      BY <1>2, <1>3, <2>3 DEF Distance, At, len
    <3> QED
      BY <2>1, <2>2, <2>6, <3>1, <1>2, SMTT(30)
  <2>8. \A k \in -mActiveTranscriptRows .. mScreenRows : mLines'[Row1(k)] # Null
    <3> TAKE k \in -mActiveTranscriptRows .. mScreenRows
    <3>1. CASE Row1(k) = b
      BY <1>8, <3>1, SMTT(30)
    <3>2. CASE Row1(k) # b /\ k < mScreenRows
      <4>1. k \in -mActiveTranscriptRows .. mScreenRows - 1
        BY <1>2, <3>2
      <4> QED
        BY <1>7, <1>8, <2>1, <2>2, <2>6, <2>7, <3>2, <4>1, SMTT(30)
    <3>3. CASE Row1(k) # b /\ k = mScreenRows
      <4>1. Distance(Row1(k), b, t) \in 1 .. len
        BY <1>2, <1>3, <2>3, <3>3 DEF Distance, At, len
      <4> QED
        BY <1>7, <1>8, <2>1, <2>7, <4>1
    <3> QED
      BY <1>2, <3>1, <3>2, <3>3
  <2>9. \A k \in -mActiveTranscriptRows' .. mScreenRows - 1 :
          ExternalToInternalRow(k)' = Row1(k + 1) /\ k + 1 \in -mActiveTranscriptRows .. mScreenRows
    <3> TAKE k \in -mActiveTranscriptRows' .. mScreenRows - 1
    <3>1. k \in -t .. t - 1 /\ k + 1 \in -mActiveTranscriptRows .. mScreenRows /\ k \in -t .. t
      BY <1>2, <1>5 DEF Grown
    <3>2. mScreenFirstRow' = At(f, 1, t)
      <4>1. f + 1 \in Nat /\ f + 1 < t + t
        BY <1>2, <1>3
      <4>2. mScreenFirstRow' = (f + 1) % t
        BY <1>3, <1>5, <1>11
      <4>3. (f + 1) % t = Fold(f + 1, t)
        BY <1>2, <4>1, Remainder
      <4> QED
        BY <1>2, <1>3, <4>2, <4>3 DEF At, Fold
    <3>3. ExternalToInternalRow(k)' = Ext(mScreenFirstRow', k, t)
      BY <1>2, <1>3, <1>5, <3>1 DEF ExternalToInternalRow, Ext
    <3>4. ExternalToInternalRow(k)' = At(mScreenFirstRow', k, t)
      BY <1>2, <1>3, <1>5, <3>1, <3>3, RowSlot
    <3> QED
      BY <1>2, <1>3, <3>1, <3>2, <3>4, Circle
  <2>10. ActiveRowsAllocated'
    BY <1>5, <2>8, <2>9 DEF ActiveRowsAllocated
  <2> QED
    BY <1>5, <1>8, <1>9, <1>11, <2>10, SMTT(30) DEF IInv
<1> QED
  BY <1>10, <1>11, AltAssumption

\* The rows resize() finds blank lie between the cursor and the bottom.
LEMMA BlankRows ==
  ASSUME TypeOK
  PROVE  Cardinality(BlankBelow(cursor)) \in 0 .. mScreenRows - 1 - cursor
<1> DEFINE below == (cursor + 1) .. (mScreenRows - 1)
<1>1. /\ cursor + 1 \in Int /\ mScreenRows - 1 \in Int /\ cursor + 1 <= mScreenRows
      /\ (mScreenRows - 1) - (cursor + 1) + 1 = mScreenRows - 1 - cursor
      /\ cursor + 1 > mScreenRows - 1 => mScreenRows - 1 - cursor = 0
  BY Fields
<1>2. BlankBelow(cursor) \subseteq below
  BY Fields DEF BlankBelow
<1>3. IsFiniteSet(below) /\ Cardinality(below) = mScreenRows - 1 - cursor
  BY <1>1, FS_Interval
<1> HIDE DEF below
<1>4. IsFiniteSet(BlankBelow(cursor)) /\ Cardinality(BlankBelow(cursor)) <= Cardinality(below)
  BY <1>2, <1>3, FS_Subset
<1>5. Cardinality(BlankBelow(cursor)) \in Nat
  BY <1>4, FS_CardinalityType
<1> QED
  BY <1>3, <1>4, <1>5, Fields

\* By how much resize() moves the top row, and where that leaves the cursor and
\* the transcript.
LEMMA Shift ==
  ASSUME TypeOK, NEW rows \in Nat \ {0}, rows <= mTotalRows,
         NEW shift, shift = IF rows < mScreenRows THEN ShiftDown(rows) ELSE ShiftUp(rows)
  PROVE  /\ shift \in Int /\ shift >= -mActiveTranscriptRows /\ shift <= mScreenRows
         /\ rows < mScreenRows => shift >= 0 /\ shift <= mScreenRows - rows
         /\ rows >= mScreenRows => shift <= 0 /\ mScreenRows - rows <= shift
         /\ mActiveTranscriptRows + shift <= mTotalRows - rows
         /\ CursorShifted(cursor, shift) \in 0 .. rows - 1
<1> DEFINE n == Cardinality(BlankBelow(cursor))
<1>1. n \in Nat /\ n <= mScreenRows - 1 - cursor
  BY BlankRows, Fields
<1> HIDE DEF n
<1>2. CASE rows < mScreenRows
  <2>1. shift = mScreenRows - rows - Lesser(n, mScreenRows - rows)
    BY <1>2 DEF ShiftDown, n
  <2> QED
    BY <1>1, <1>2, <2>1, Fields DEF Lesser, CursorShifted
<1>3. CASE rows >= mScreenRows
  <2>1. shift = ShiftUp(rows)
    BY <1>3, Fields
  <2> QED
    BY <1>3, <2>1, Fields DEF ShiftUp, CursorShifted
<1> QED
  BY <1>2, <1>3, Fields

\* Moving the window over the circle by a number of rows.
LEMMA Turn ==
  ASSUME NEW t \in Nat \ {0}, NEW f \in 0 .. t - 1, NEW shift \in -t .. t, NEW row \in -t .. t,
         row + shift \in -t .. t
  PROVE  /\ At(f, shift, t) \in 0 .. t - 1
         /\ At(At(f, shift, t), row, t) = At(f, row + shift, t)
BY DEF At

\* resize(): what the screen leaves joins the transcript or is dropped, and what
\* it gains comes from the transcript or is allocated below.
LEMMA ResizeIInv ==
  ASSUME IInv, NEW rows \in Heights, Resize(rows)
  PROVE  IInv'
<1> DEFINE t == mTotalRows
           shift == IF rows < mScreenRows THEN ShiftDown(rows) ELSE ShiftUp(rows)
           first == mScreenFirstRow + shift
           below == {(mScreenFirstRow + mScreenRows + i) % t : i \in 0 .. rows - mScreenRows + shift - 1}
<1>1. TypeOK /\ NoSharedRows /\ ActiveRowsAllocated /\ mLines \in [Slot -> Row \cup {Null}]
  BY DEF IInv, TypeOK
<1>2. /\ t \in Nat \ {0} /\ t <= TotalRows
      /\ mScreenRows \in 1 .. t /\ rows \in 1 .. t /\ rows # mScreenRows
      /\ mActiveTranscriptRows \in 0 .. t - mScreenRows
      /\ mScreenFirstRow \in Nat /\ rows \in Nat \ {0}
  BY <1>1, Fields, HeightsAssumption, TotalRowsAssumption DEF Resize
<1>3. /\ shift \in Int /\ shift >= -mActiveTranscriptRows /\ shift <= mScreenRows
      /\ rows < mScreenRows => shift >= 0 /\ shift <= mScreenRows - rows
      /\ rows >= mScreenRows => shift <= 0 /\ mScreenRows - rows <= shift
      /\ mActiveTranscriptRows + shift <= t - rows
      /\ CursorShifted(cursor, shift) \in 0 .. rows - 1
  <2> DEFINE sh == shift
  <2>1. sh = IF rows < mScreenRows THEN ShiftDown(rows) ELSE ShiftUp(rows)
    OBVIOUS
  <2>2. rows <= mTotalRows
    BY <1>2
  <2> HIDE DEF sh
  <2>3. /\ sh \in Int /\ sh >= -mActiveTranscriptRows /\ sh <= mScreenRows
        /\ rows < mScreenRows => sh >= 0 /\ sh <= mScreenRows - rows
        /\ rows >= mScreenRows => sh <= 0 /\ mScreenRows - rows <= sh
        /\ mActiveTranscriptRows + sh <= t - rows
        /\ CursorShifted(cursor, sh) \in 0 .. rows - 1
    BY <1>1, <1>2, <2>1, <2>2, Shift
  <2> QED
    BY <2>3 DEF sh
<1>4. /\ mLines' \in Allocated(mLines, below)
      /\ text' = Cleared(text, mLines', below)
      /\ mScreenFirstRow' = IF first < 0 THEN first + t ELSE first % t
      /\ mTotalRows' = IF AltScreen THEN rows ELSE t
      /\ mActiveTranscriptRows' =
           IF AltScreen \/ mActiveTranscriptRows + shift < 0 THEN 0 ELSE mActiveTranscriptRows + shift
      /\ cursor' = CursorShifted(cursor, shift)
      /\ mScreenRows' = rows
      /\ UNCHANGED mLineWrap
  BY DEF Resize
<1> HIDE DEF shift
<1>5. mScreenFirstRow' = Ext(mScreenFirstRow, shift, t) /\ mScreenFirstRow' \in 0 .. t - 1
  <2>1. shift \in -t .. t
    BY <1>2, <1>3
  <2>2. Ext(mScreenFirstRow, shift, t) \in 0 .. t - 1
    BY <1>2, <2>1, RowSlot, ZenonT(30)
  <2>3. first < 0 => first + t = t + mScreenFirstRow + shift
    BY <1>2, <1>3
  <2> QED
    BY <1>4, <2>2, <2>3 DEF Ext
<1>6. below \subseteq Slot
  <2> SUFFICES ASSUME NEW i \in 0 .. rows - mScreenRows + shift - 1
               PROVE  (mScreenFirstRow + mScreenRows + i) % t \in Slot
    OBVIOUS
  <2>1. mScreenFirstRow + mScreenRows + i \in Nat
    BY <1>2, <1>3
  <2>2. (mScreenFirstRow + mScreenRows + i) % t \in 0 .. t - 1
    BY <1>2, <2>1, Remainder, ZenonT(30)
  <2> QED
    BY <1>2, <2>2, TotalRowsAssumption DEF Slot
<1> HIDE DEF below
<1>7. /\ mLines' \in [Slot -> Row \cup {Null}]
      /\ NoSharedRows'
      /\ \A i \in below : mLines'[i] # Null
      /\ \A i \in Slot : mLines[i] # Null => mLines'[i] # Null
  BY <1>1, <1>4, <1>6, Allocation DEF NoSharedRows
<1>8. AltScreen => mTotalRows = mScreenRows /\ NoneNull
  BY DEF IInv
<1>9. TypeOK'
  <2>1. text' \in [Row -> Line]
    BY <1>1, <1>4, BlankAssumption DEF TypeOK, Cleared
  <2>2. mActiveTranscriptRows' \in 0 .. mTotalRows' - mScreenRows'
    BY <1>2, <1>3, <1>4
  <2>3. mScreenFirstRow' \in Slot
    BY <1>2, <1>5, TotalRowsAssumption DEF Slot
  <2>4. mTotalRows' \in 1 .. TotalRows /\ mScreenRows' \in Heights
    BY <1>2, <1>4, TotalRowsAssumption
  <2>5. cursor' \in 0 .. mScreenRows' - 1
    BY <1>3, <1>4
  <2>6. mLineWrap' \subseteq Row
    BY <1>1, <1>4 DEF TypeOK
  <2> QED
    BY <1>7, <2>1, <2>2, <2>3, <2>4, <2>5, <2>6 DEF TypeOK
<1>10. CASE AltScreen
  <2>1. NoneNull'
    BY <1>7, <1>8, <1>10 DEF NoneNull
  <2>2. ActiveRowsAllocated'
    BY <1>9, <2>1, AllAllocated, PTL
  <2> QED
    BY <1>4, <1>7, <1>9, <1>10, <2>1, <2>2 DEF IInv
<1>11. CASE ~AltScreen
  <2> DEFINE f == mScreenFirstRow
  <2>1. f \in 0 .. t - 1 /\ shift \in -t .. t
    BY <1>1, <1>2, <1>3, <1>11, Fields DEF IInv
  <2>2. mScreenFirstRow' = At(f, shift, t)
    BY <1>2, <1>5, <2>1, RowSlot
  <2>3. ASSUME NEW k \in -mActiveTranscriptRows' .. rows - 1
        PROVE  mLines'[ExternalToInternalRow(k)'] # Null
    <3>1. /\ k \in -t .. t /\ k + shift \in -t .. t
          /\ k + shift >= -mActiveTranscriptRows /\ k + shift < rows + shift
      BY <1>2, <1>3, <1>4, <1>11
    <3>2. ExternalToInternalRow(k)' = Ext(mScreenFirstRow', k, t)
      BY <1>2, <1>4, <1>5, <1>11, <3>1, SMTT(40) DEF ExternalToInternalRow, Ext
    <3>3. ExternalToInternalRow(k)' = At(f, k + shift, t)
      BY <1>2, <1>5, <2>1, <2>2, <3>1, <3>2, RowSlot, Turn
    <3>4. Ext(f, k + shift, t) = At(f, k + shift, t)
      BY <1>2, <2>1, <3>1, RowSlot
    <3>5. CASE k + shift < mScreenRows
      <4>1. k + shift \in -mActiveTranscriptRows .. mScreenRows - 1 /\ k + shift \in -mActiveTranscriptRows .. mScreenRows
        BY <1>2, <3>1, <3>5
      <4>2. ExternalToInternalRow(k + shift) = At(f, k + shift, t) /\ ExternalToInternalRow(k + shift) \in Slot
        BY <1>1, <3>4, <4>1, ActiveSlot
      <4> QED
        BY <1>1, <1>7, <3>3, <4>1, <4>2 DEF ActiveRowsAllocated
    <3>6. CASE k + shift >= mScreenRows
      <4> DEFINE i == k + shift - mScreenRows
      <4>1. i \in 0 .. rows - mScreenRows + shift - 1 /\ f + (k + shift) = f + mScreenRows + i /\ f + (k + shift) >= 0
        BY <1>2, <1>3, <2>1, <3>1, <3>6
      <4>2. Ext(f, k + shift, t) = (f + mScreenRows + i) % t
        <5>1. Ext(f, k + shift, t) = (f + (k + shift)) % t
          BY <1>2, <2>1, <3>1, <4>1 DEF Ext
        <5> QED
          BY <4>1, <5>1
      <4>3. At(f, k + shift, t) \in below
        BY <3>4, <4>1, <4>2 DEF below
      <4> QED
        BY <1>7, <3>3, <4>3
    <3> QED
      BY <1>2, <3>1, <3>5, <3>6
  <2>4. ActiveRowsAllocated'
    BY <1>4, <2>3 DEF ActiveRowsAllocated
  <2> QED
    BY <1>4, <1>7, <1>9, <1>11, <2>4 DEF IInv
<1> QED
  BY <1>10, <1>11, AltAssumption

\* clearTranscript() drops no row of the screen.
LEMMA ClearIInv ==
  ASSUME IInv, ClearTranscript
  PROVE  IInv'
<1> DEFINE t == mTotalRows
           f == mScreenFirstRow
<1>1. TypeOK /\ NoSharedRows /\ ActiveRowsAllocated /\ mLines \in [Slot -> Row \cup {Null}]
  BY DEF IInv, TypeOK
<1>2. /\ t \in Nat \ {0} /\ f \in 0 .. t - 1
      /\ mScreenRows \in 1 .. t /\ mActiveTranscriptRows \in 0 .. t - mScreenRows
  BY <1>1, Fields DEF IInv, ClearTranscript
<1>3. /\ mLines' = [i \in Slot |-> IF i \in TranscriptSlots THEN Null ELSE mLines[i]]
      /\ mActiveTranscriptRows' = 0 /\ ~AltScreen
      /\ text' = Cleared(text, mLines, TranscriptSlots)
      /\ mLineWrap' \subseteq mLineWrap
      /\ UNCHANGED <<mTotalRows, mScreenRows, mScreenFirstRow, cursor>>
  BY DEF ClearTranscript
<1>4. TypeOK'
  <2>1. text' \in [Row -> Line]
    BY <1>1, <1>3, BlankAssumption DEF TypeOK, Cleared
  <2>2. mLines' \in [Slot -> Row \cup {Null}]
    BY <1>1, <1>3
  <2>3. mActiveTranscriptRows' \in 0 .. t - mScreenRows
    BY <1>2, <1>3
  <2> QED
    BY <1>1, <1>3, <2>1, <2>2, <2>3 DEF TypeOK
<1>5. NoSharedRows'
  BY <1>1, <1>3 DEF NoSharedRows
<1>6. ActiveRowsAllocated'
  <2> SUFFICES ASSUME NEW k \in 0 .. mScreenRows - 1
               PROVE  mLines'[ExternalToInternalRow(k)'] # Null
    BY <1>3 DEF ActiveRowsAllocated
  <2>1. k \in -mActiveTranscriptRows .. mScreenRows - 1 /\ k \in -mActiveTranscriptRows .. mScreenRows /\ k \in -t .. t
    BY <1>2
  <2>2. ExternalToInternalRow(k) = At(f, k, t) /\ ExternalToInternalRow(k) \in Slot
    BY <1>1, <1>2, <2>1, ActiveSlot, RowSlot
  <2>3. At(f, k, t) \notin TranscriptSlots
    BY <1>2 DEF At, TranscriptSlots
  <2>4. mLines[ExternalToInternalRow(k)] # Null
    BY <1>1, <2>1 DEF ActiveRowsAllocated
  <2>5. ExternalToInternalRow(k)' = ExternalToInternalRow(k)
    BY <1>3 DEF ExternalToInternalRow
  <2> QED
    BY <1>3, <2>2, <2>3, <2>4, <2>5
<1> QED
  BY <1>3, <1>4, <1>5, <1>6 DEF IInv

\* The invariant holds throughout.
LEMMA Invariance == Spec => []IInv
<1>1. ASSUME IInv, [Next]_vars
      PROVE  IInv'
  <2>1. CASE Next
    BY <1>1, <2>1, PutIInv, LineWrapIInv, ScrollIInv, ResizeIInv, ClearIInv DEF Next
  <2>2. CASE UNCHANGED vars
    BY <1>1, <2>2 DEF vars, IInv, TypeOK, NoSharedRows, ActiveRowsAllocated,
       ExternalToInternalRow, NoneNull
  <2> QED
    BY <1>1, <2>1, <2>2
<1> QED
  BY InitIInv, <1>1, PTL DEF Spec

\* The fields of TerminalBuffer keep their types: however the screen is scrolled
\* and resized, screen and transcript fit into mLines and the cursor stays on the
\* screen.
THEOREM TypeCorrect == Spec => []TypeOK
<1>1. IInv => TypeOK
  BY DEF IInv
<1> QED
  BY Invariance, <1>1, PTL

\* blockCopyLinesDown() and the allocations never put a row object into two
\* slots of mLines.
THEOREM RowsNeverShared == Spec => []NoSharedRows
<1>1. IInv => NoSharedRows
  BY DEF IInv
<1> QED
  BY Invariance, <1>1, PTL

\* No active row is null, so that setLineWrap(), setOrClearEffect() and the
\* renderer dereference none.
THEOREM ActiveAlwaysAllocated == Spec => []ActiveRowsAllocated
<1>1. IInv => ActiveRowsAllocated
  BY DEF IInv
<1> QED
  BY Invariance, <1>1, PTL

\* By how many rows resize() moves the top row, and the slots below the screen
\* that it clears.
ShiftOf(rows) == IF rows < mScreenRows THEN ShiftDown(rows) ELSE ShiftUp(rows)
Revealed(rows) ==
  {(mScreenFirstRow + mScreenRows + i) % mTotalRows :
     i \in 0 .. rows - mScreenRows + ShiftOf(rows) - 1}

\* resize() of the main buffer moves the rows by that, and the rows it adds at
\* the bottom are at the slots it clears.
LEMMA ResizeRows ==
  ASSUME IInv, ~AltScreen, NEW rows \in Heights, Resize(rows)
  PROVE  /\ mScreenRows' = rows /\ mTotalRows' = mTotalRows
         /\ rows \in 1 .. mTotalRows /\ rows # mScreenRows
         /\ ShiftOf(rows) \in Int
         /\ rows < mScreenRows => ShiftOf(rows) >= 0 /\ ShiftOf(rows) <= mScreenRows - rows
         /\ rows >= mScreenRows => ShiftOf(rows) = ShiftUp(rows)
         /\ mActiveTranscriptRows' = mActiveTranscriptRows + ShiftOf(rows)
         /\ mActiveTranscriptRows' \in 0 .. mTotalRows - rows
         /\ cursor' = CursorShifted(cursor, ShiftOf(rows))
         /\ \A k \in -mActiveTranscriptRows' .. rows - 1 :
              IF k + ShiftOf(rows) < mScreenRows
              THEN /\ k + ShiftOf(rows) \in -mActiveTranscriptRows .. mScreenRows - 1
                   /\ ExternalToInternalRow(k)' = ExternalToInternalRow(k + ShiftOf(rows))
              ELSE ExternalToInternalRow(k)' \in Revealed(rows)
         /\ Revealed(rows) \subseteq Slot
         /\ \A k \in -mActiveTranscriptRows .. mScreenRows - 1 :
              ExternalToInternalRow(k) \notin Revealed(rows)
         /\ mLines' \in Allocated(mLines, Revealed(rows))
         /\ text' = Cleared(text, mLines', Revealed(rows))
<1> DEFINE t == mTotalRows
           f == mScreenFirstRow
           shift == ShiftOf(rows)
           first == mScreenFirstRow + shift
<1>1. TypeOK /\ t = TotalRows
  BY Zenon DEF IInv
<1>2. /\ t \in Nat \ {0} /\ f \in 0 .. t - 1 /\ f \in Nat /\ f < t
      /\ mScreenRows \in 1 .. t /\ rows \in 1 .. t /\ rows # mScreenRows
      /\ mActiveTranscriptRows \in 0 .. t - mScreenRows
      /\ rows \in Nat \ {0} /\ rows <= t
  BY <1>1, Fields, HeightsAssumption, TotalRowsAssumption DEF Resize
<1>3. /\ shift \in Int /\ shift >= -mActiveTranscriptRows /\ shift <= mScreenRows
      /\ rows < mScreenRows => shift >= 0 /\ shift <= mScreenRows - rows
      /\ rows >= mScreenRows => shift <= 0 /\ mScreenRows - rows <= shift
      /\ mActiveTranscriptRows + shift <= t - rows
  <2> DEFINE sh == shift
  <2>1. sh = IF rows < mScreenRows THEN ShiftDown(rows) ELSE ShiftUp(rows)
    BY DEF ShiftOf
  <2> HIDE DEF sh
  <2>2. /\ sh \in Int /\ sh >= -mActiveTranscriptRows /\ sh <= mScreenRows
        /\ rows < mScreenRows => sh >= 0 /\ sh <= mScreenRows - rows
        /\ rows >= mScreenRows => sh <= 0 /\ mScreenRows - rows <= sh
        /\ mActiveTranscriptRows + sh <= t - rows
    BY <1>1, <1>2, <2>1, Shift
  <2> QED
    BY <2>2 DEF sh
<1>4. /\ mLines' \in Allocated(mLines, Revealed(rows))
      /\ text' = Cleared(text, mLines', Revealed(rows))
      /\ mScreenFirstRow' = IF first < 0 THEN first + t ELSE first % t
      /\ mTotalRows' = t
      /\ mActiveTranscriptRows' =
           IF mActiveTranscriptRows + shift < 0 THEN 0 ELSE mActiveTranscriptRows + shift
      /\ cursor' = CursorShifted(cursor, shift)
      /\ mScreenRows' = rows
  BY Zenon DEF Resize, ShiftOf, Revealed
<1>5. rows >= mScreenRows => shift = ShiftUp(rows)
  BY <1>2 DEF ShiftOf
<1> HIDE DEF shift
<1>6. /\ mActiveTranscriptRows' = mActiveTranscriptRows + shift
      /\ mActiveTranscriptRows' \in 0 .. t - rows
  BY <1>2, <1>3, <1>4
<1>7. /\ mScreenFirstRow' = Ext(f, shift, t) /\ mScreenFirstRow' \in 0 .. t - 1
      /\ mScreenFirstRow' = At(f, shift, t)
  <2>1. shift \in -t .. t
    BY <1>2, <1>3
  <2>2. Ext(f, shift, t) \in 0 .. t - 1 /\ Ext(f, shift, t) = At(f, shift, t)
    BY <1>2, <2>1, RowSlot, Zenon
  <2>3. first < 0 => first + t = t + f + shift
    BY <1>2, <1>3
  <2> QED
    BY <1>4, <2>2, <2>3 DEF Ext
<1>8. \A k \in -mActiveTranscriptRows .. mScreenRows : ExternalToInternalRow(k) = At(f, k, t)
  <2> TAKE k \in -mActiveTranscriptRows .. mScreenRows
  <2>1. k \in -t .. t
    BY <1>2
  <2>2. ExternalToInternalRow(k) = Ext(f, k, t)
    BY <1>1, ActiveSlot
  <2> QED
    BY <1>2, <2>1, <2>2, RowSlot
<1>9. Revealed(rows) = {At(f, j, t) : j \in mScreenRows .. rows + shift - 1}
  <2>1. \A i \in 0 .. rows - mScreenRows + shift - 1 :
          /\ mScreenRows + i \in mScreenRows .. rows + shift - 1
          /\ (mScreenFirstRow + mScreenRows + i) % t = At(f, mScreenRows + i, t)
    <3> TAKE i \in 0 .. rows - mScreenRows + shift - 1
    <3>1. /\ mScreenRows + i \in -t .. t
          /\ mScreenRows + i \in mScreenRows .. rows + shift - 1
          /\ f + (mScreenRows + i) >= 0
      BY <1>2, <1>3
    <3>2. /\ Ext(f, mScreenRows + i, t) = (f + (mScreenRows + i)) % t
          /\ f + (mScreenRows + i) = f + mScreenRows + i
      BY <1>2, <3>1 DEF Ext
    <3>3. Ext(f, mScreenRows + i, t) = At(f, mScreenRows + i, t)
      BY <1>2, <3>1, RowSlot
    <3> QED BY <3>1, <3>2, <3>3
  <2>2. \A j \in mScreenRows .. rows + shift - 1 :
          j - mScreenRows \in 0 .. rows - mScreenRows + shift - 1 /\ mScreenRows + (j - mScreenRows) = j
    BY <1>2, <1>3
  <2>3. Revealed(rows) = {(mScreenFirstRow + mScreenRows + i) % t : i \in 0 .. rows - mScreenRows + shift - 1}
    BY Zenon DEF Revealed, shift
  <2> DEFINE I == 0 .. rows - mScreenRows + shift - 1
             J == mScreenRows .. rows + shift - 1
             slot(i) == (mScreenFirstRow + mScreenRows + i) % t
             at(j) == At(f, j, t)
  <2>4. /\ \A i \in I : mScreenRows + i \in J /\ slot(i) = at(mScreenRows + i)
        /\ \A j \in J : j - mScreenRows \in I /\ mScreenRows + (j - mScreenRows) = j
    BY <2>1, <2>2, Zenon
  <2> HIDE DEF I, J, slot, at
  <2>5. {slot(i) : i \in I} = {at(j) : j \in J}
    <3>1. ASSUME NEW i \in I PROVE slot(i) \in {at(j) : j \in J}
      BY <2>4, Zenon
    <3>2. ASSUME NEW j \in J PROVE at(j) \in {slot(i) : i \in I}
      <4>1. j - mScreenRows \in I /\ slot(j - mScreenRows) = at(j)
        BY <2>4, Zenon
      <4> QED BY <4>1, Zenon
    <3> QED BY <3>1, <3>2, Zenon
  <2> QED BY <2>3, <2>5, Zenon DEF I, J, slot, at
<1>10. ASSUME NEW k \in -mActiveTranscriptRows' .. rows - 1
       PROVE  IF k + shift < mScreenRows
              THEN /\ k + shift \in -mActiveTranscriptRows .. mScreenRows - 1
                   /\ ExternalToInternalRow(k)' = ExternalToInternalRow(k + shift)
              ELSE ExternalToInternalRow(k)' \in Revealed(rows)
  <2>1. /\ k \in -t .. t /\ k + shift \in -t .. t
        /\ k + shift \in -mActiveTranscriptRows .. rows + shift - 1
    BY <1>2, <1>3, <1>6
  <2>2. ExternalToInternalRow(k)' = Ext(mScreenFirstRow', k, t)
    BY <1>2, <1>4, <1>7, <2>1 DEF ExternalToInternalRow, Ext
  <2>3. ExternalToInternalRow(k)' = At(f, k + shift, t)
    <3>1. Ext(mScreenFirstRow', k, t) = At(mScreenFirstRow', k, t)
      <4>1. mScreenFirstRow' \in Nat /\ mScreenFirstRow' < t
        BY <1>2, <1>7
      <4> QED BY <1>2, <2>1, <4>1, RowSlot, Zenon
    <3>2. At(At(f, shift, t), k, t) = At(f, k + shift, t)
      <4>1. shift \in -t .. t
        BY <1>2, <1>3
      <4> QED BY <1>2, <2>1, <4>1, Turn, Zenon
    <3> QED BY <1>7, <2>2, <3>1, <3>2, Zenon
  <2>4. CASE k + shift < mScreenRows
    <3>1. /\ k + shift \in -mActiveTranscriptRows .. mScreenRows - 1
          /\ k + shift \in -mActiveTranscriptRows .. mScreenRows
      BY <1>2, <2>1, <2>4
    <3> QED BY <1>8, <2>3, <2>4, <3>1
  <2>5. CASE ~(k + shift < mScreenRows)
    <3>1. k + shift \in mScreenRows .. rows + shift - 1
      BY <1>2, <2>1, <2>5
    <3> QED BY <1>9, <2>3, <2>5, <3>1
  <2> QED BY <2>4, <2>5
<1>11. Revealed(rows) \subseteq Slot
  <2>1. \A j \in mScreenRows .. rows + shift - 1 : At(f, j, t) \in Slot
    BY <1>1, <1>2, <1>3 DEF At, Slot
  <2> QED BY <1>9, <2>1, Zenon
<1>12. \A k \in -mActiveTranscriptRows .. mScreenRows - 1 :
         ExternalToInternalRow(k) \notin Revealed(rows)
  <2> SUFFICES ASSUME NEW k \in -mActiveTranscriptRows .. mScreenRows - 1,
                      NEW j \in mScreenRows .. rows + shift - 1, At(f, k, t) = At(f, j, t)
               PROVE  FALSE
    <3>1. \A k \in -mActiveTranscriptRows .. mScreenRows - 1 : k \in -mActiveTranscriptRows .. mScreenRows
      BY <1>2
    <3> QED BY <1>8, <1>9, <3>1, Zenon
  <2>1. j - k < t /\ j - k > 0
    BY <1>2, <1>3
  <2> QED BY <1>2, <1>3, <2>1 DEF At
<1> QED
  BY <1>2, <1>3, <1>4, <1>5, <1>6, <1>10, <1>11, <1>12, Zenon DEF shift
\* What a row of the screen or of the transcript shows.
LineAt(row) == text[mLines[ExternalToInternalRow(row)]]

\* resize() of the main buffer keeps the row objects of the rows it keeps and
\* their lines, and the rows it adds are blank.
LEMMA ResizeLines ==
  ASSUME IInv, ~AltScreen, NEW rows \in Heights, Resize(rows),
         NEW k \in -mActiveTranscriptRows' .. rows - 1
  PROVE  IF k + ShiftOf(rows) < mScreenRows
         THEN /\ k + ShiftOf(rows) \in -mActiveTranscriptRows .. mScreenRows - 1
              /\ mLines'[ExternalToInternalRow(k)'] = mLines[ExternalToInternalRow(k + ShiftOf(rows))]
              /\ LineAt(k)' = LineAt(k + ShiftOf(rows))
         ELSE LineAt(k)' = Blank
<1> DEFINE shift == ShiftOf(rows)
           S == Revealed(rows)
           slot == ExternalToInternalRow(k)'
<1>1. TypeOK /\ NoSharedRows /\ ActiveRowsAllocated /\ mLines \in [Slot -> Row \cup {Null}]
  BY Zenon DEF IInv, TypeOK
<1>2. /\ S \in SUBSET Slot /\ mLines' \in Allocated(mLines, S)
      /\ text' = Cleared(text, mLines', S)
  BY ResizeRows, Zenon
<1>3. IF k + shift < mScreenRows
      THEN /\ k + shift \in -mActiveTranscriptRows .. mScreenRows - 1
           /\ slot = ExternalToInternalRow(k + shift)
           /\ slot \notin S
      ELSE slot \in S
  BY ResizeRows, Zenon
<1> HIDE DEF S
<1>4. /\ mLines' \in [Slot -> Row \cup {Null}]
      /\ \A i, j \in Slot : mLines'[i] = mLines'[j] /\ mLines'[i] # Null => i = j
      /\ \A i \in S : mLines'[i] # Null
      /\ \A i \in Slot : mLines[i] # Null => mLines'[i] = mLines[i]
  BY <1>1, <1>2, Allocation DEF NoSharedRows
<1>5. LineAt(k)' = text'[mLines'[slot]]
  BY Zenon DEF LineAt
<1>6. CASE k + shift < mScreenRows
  <2>1. slot \in Slot /\ mLines[slot] # Null
    <3>1. k + shift \in -mActiveTranscriptRows .. mScreenRows
      BY <1>1, <1>3, <1>6, Fields
    <3> QED BY <1>1, <1>3, <1>6, <3>1, ActiveSlot, Zenon DEF ActiveRowsAllocated
  <2>2. mLines'[slot] = mLines[slot] /\ mLines[slot] \in Row
    BY <1>1, <1>4, <2>1, Zenon
  <2>3. \A i \in S : mLines'[i] # mLines'[slot]
    BY <1>2, <1>3, <1>4, <1>6, <2>1, Zenon
  <2> HIDE DEF slot
  <2>4. text'[mLines[slot]] = text[mLines[slot]]
    BY <1>2, <2>2, <2>3, Zenon DEF Cleared
  <2> QED BY <1>3, <1>5, <1>6, <2>2, <2>4, Zenon DEF LineAt, slot
<1>7. CASE ~(k + shift < mScreenRows)
  <2>1. slot \in S /\ mLines'[slot] \in Row
    BY <1>2, <1>3, <1>4, <1>7, Zenon
  <2> HIDE DEF slot
  <2>2. text'[mLines'[slot]] = Blank
    BY <1>2, <2>1, Zenon DEF Cleared
  <2> QED BY <1>5, <1>7, <2>2, Zenon
<1> QED BY <1>6, <1>7, Zenon

\* The cursor of the main buffer follows its line through resize().
THEOREM CursorAlwaysKeepsLine ==
  ASSUME ~AltScreen
  PROVE  Spec => CursorKeepsLine
<1> DEFINE A == mScreenRows' # mScreenRows =>
                  \/ mLines'[ExternalToInternalRow(cursor)'] = mLines[ExternalToInternalRow(cursor)]
                  \/ /\ cursor' = 0
                     /\ \E row \in -mActiveTranscriptRows' .. -1 :
                          mLines'[ExternalToInternalRow(row)'] = mLines[ExternalToInternalRow(cursor)]
<1>1. ASSUME IInv, NEW rows \in Heights, Resize(rows)
      PROVE  A
  <2> DEFINE shift == ShiftOf(rows)
  <2>1. /\ cursor \in 0 .. mScreenRows - 1 /\ mScreenRows \in Nat
        /\ mActiveTranscriptRows \in Nat
    BY <1>1, Fields DEF IInv
  <2>2. /\ shift \in Int /\ rows \in Nat
        /\ mActiveTranscriptRows' = mActiveTranscriptRows + shift
        /\ cursor' = CursorShifted(cursor, shift) /\ mScreenRows' = rows
    BY <1>1, ResizeRows
  <2>3. cursor' \in 0 .. rows - 1
    <3>1. IInv'
      BY <1>1, ResizeIInv
    <3> QED BY <2>2, <3>1 DEF IInv, TypeOK
  <2> HIDE DEF shift
  <2> PICK k : k = cursor - shift
    OBVIOUS
  <2>4. /\ k \in -mActiveTranscriptRows' .. rows - 1 /\ k + shift = cursor
        /\ k + shift < mScreenRows
    BY <2>1, <2>2, <2>3 DEF CursorShifted
  <2>5. mLines'[ExternalToInternalRow(k)'] = mLines[ExternalToInternalRow(cursor)]
    BY <1>1, <2>4, ResizeLines, Zenon DEF shift
  <2>6. CASE k >= 0
    <3>1. cursor' = k
      BY <2>1, <2>2, <2>6 DEF CursorShifted
    <3> QED BY <2>5, <3>1, Zenon DEF ExternalToInternalRow
  <2>7. CASE ~(k >= 0)
    <3>1. cursor' = 0 /\ k \in -mActiveTranscriptRows' .. -1
      BY <2>1, <2>2, <2>4, <2>7 DEF CursorShifted
    <3> QED BY <2>5, <3>1, Zenon
  <2> QED BY <2>6, <2>7, Zenon
<1>2. ASSUME IInv, [Next]_vars
      PROVE  A
  <2>1. (\E rows \in Heights : Resize(rows)) \/ mScreenRows' = mScreenRows
    BY <1>2, Zenon DEF Next, LineWrap, Put, ScrollDownOneLine, ClearTranscript, vars
  <2> QED BY <1>1, <1>2, <2>1, Zenon
<1> QED
  BY <1>2, Invariance, PTL DEF Spec, CursorKeepsLine

\* The elements of a part of a sequence.
LEMMA SubSeqAt ==
  ASSUME NEW S, NEW s \in Seq(S), NEW a \in 1 .. Len(s) + 1, NEW b \in 0 .. Len(s), a <= b + 1
  PROVE  /\ SubSeq(s, a, b) \in Seq(S) /\ Len(SubSeq(s, a, b)) = b - a + 1
         /\ \A i \in 1 .. b - a + 1 : SubSeq(s, a, b)[i] = s[a + i - 1]
BY SMTT(40)

\* The elements of two sequences one after the other.
LEMMA ConcatAt ==
  ASSUME NEW S, NEW s \in Seq(S), NEW u \in Seq(S)
  PROVE  /\ s \o u \in Seq(S) /\ Len(s \o u) = Len(s) + Len(u)
         /\ \A i \in 1 .. Len(s) + Len(u) :
              (s \o u)[i] = IF i <= Len(s) THEN s[i] ELSE u[i - Len(s)]
OBVIOUS

\* Sequences are the same when their elements are.
LEMMA SeqEqual ==
  ASSUME NEW S, NEW s \in Seq(S), NEW u \in Seq(S), Len(s) = Len(u),
         \A i \in 1 .. Len(s) : s[i] = u[i]
  PROVE  s = u
OBVIOUS

\* A function on 1 .. n is a sequence of length n.
LEMMA FunctionIsSeq ==
  ASSUME NEW S, NEW n \in Nat, NEW r \in [1 .. n -> S]
  PROVE  r \in Seq(S) /\ Len(r) = n
<1>1. r \in Seq(S)
  OBVIOUS
<1>2. DOMAIN r = 1..n /\ DOMAIN r = 1..Len(r) /\ Len(r) \in Nat
  BY <1>1
<1> QED BY <1>1, <1>2

\* rows are what the transcript and the screen show.
View(rows, tr, sc, A, R) ==
  /\ tr \in Seq(Line) /\ Len(tr) = A /\ \A i \in 1 .. A : tr[i] = rows[i - A - 1]
  /\ sc \in Seq(Line) /\ Len(sc) = R /\ \A i \in 1 .. R : sc[i] = rows[i - 1]

\* What the rows of the transcript and of the screen show.
Shown ==
  [k \in -mActiveTranscriptRows .. mScreenRows - 1 |-> text[mLines[ExternalToInternalRow(k)]]]

\* The lines above the screen and the lines of the screen.
Transcript == Contents(-mActiveTranscriptRows, -1)
Screen == Contents(0, mScreenRows - 1)

\* The two sequences the abstract specification is given are what the rows show.
LEMMA Viewed ==
  ASSUME IInv
  PROVE  View(Shown, Transcript, Screen, mActiveTranscriptRows, mScreenRows)
<1> DEFINE A == mActiveTranscriptRows
           R == mScreenRows
           line(k) == text[mLines[ExternalToInternalRow(k)]]
<1>1. A \in Nat /\ R \in Nat /\ TypeOK
  BY Fields DEF IInv
<1>2. \A k \in -A .. R - 1 : line(k) \in Line
  <2> TAKE k \in -A .. R - 1
  <2>1. k \in -A .. R
    BY <1>1
  <2>2. ExternalToInternalRow(k) \in Slot /\ mLines[ExternalToInternalRow(k)] # Null
    BY <1>1, <2>1, ActiveSlot, Zenon DEF IInv, ActiveRowsAllocated
  <2> QED BY <2>2, Zenon DEF IInv, TypeOK
<1>3. Shown = [k \in -A .. R - 1 |-> line(k)]
  BY Zenon DEF Shown
<1>4. Transcript = [i \in 1 .. -1 + A + 1 |-> line(-A + i - 1)]
  <2>1. -1 - -A + 1 = -1 + A + 1
    BY <1>1
  <2> QED BY <2>1, Zenon DEF Transcript, Contents
<1>5. Screen = [i \in 1 .. R - 1 - 0 + 1 |-> line(0 + i - 1)]
  BY Zenon DEF Screen, Contents
<1>6. /\ 1 .. -1 + A + 1 = 1 .. A /\ 1 .. R - 1 - 0 + 1 = 1 .. R
      /\ \A i \in 1 .. A : -A + i - 1 \in -A .. R - 1 /\ -A + i - 1 = i - A - 1
      /\ \A i \in 1 .. R : 0 + i - 1 \in -A .. R - 1 /\ 0 + i - 1 = i - 1
  BY <1>1
<1> HIDE DEF A, R, line
<1>7. /\ Transcript \in [1 .. A -> Line]
      /\ \A i \in 1 .. A : Transcript[i] = Shown[i - A - 1]
  BY <1>2, <1>3, <1>4, <1>6, ZenonT(60)
<1>8. /\ Screen \in [1 .. R -> Line] /\ \A i \in 1 .. R : Screen[i] = Shown[i - 1]
  BY <1>2, <1>3, <1>5, <1>6, Zenon
<1>9. /\ Transcript \in Seq(Line) /\ Len(Transcript) = A /\ Screen \in Seq(Line)
      /\ Len(Screen) = R
  BY <1>1, <1>7, <1>8, FunctionIsSeq, Zenon
<1> QED BY <1>7, <1>8, <1>9, Zenon DEF View, A, R

\* The first n elements of a sequence, and the last.
LEMMA FirstOnes ==
  ASSUME NEW S, NEW s \in Seq(S), NEW n \in 0 .. Len(s)
  PROVE  /\ SubSeq(s, 1, n) \in Seq(S) /\ Len(SubSeq(s, 1, n)) = n
         /\ \A i \in 1 .. n : SubSeq(s, 1, n)[i] = s[i]
OBVIOUS

\* The last n elements of a sequence.
LEMMA LastOnes ==
  ASSUME NEW S, NEW s \in Seq(S), NEW n \in 0 .. Len(s)
  PROVE  /\ Lines!Last(s, n) \in Seq(S) /\ Len(Lines!Last(s, n)) = n
         /\ \A i \in 1 .. n : Lines!Last(s, n)[i] = s[Len(s) - n + i]
BY DEF Lines!Last

\* Lines kept are divided into transcript and screen.
LEMMA Divided ==
  ASSUME NEW A \in Nat, NEW R \in Nat, NEW rows, NEW tr, NEW sc, View(rows, tr, sc, A, R),
         NEW kept \in Seq(Line), Len(kept) = A + R,
         \A j \in 1 .. A + R : kept[j] = rows[j - A - 1]
  PROVE  sc = Lines!Last(kept, R) /\ tr = SubSeq(kept, 1, Len(kept) - R)
<1> DEFINE last == Lines!Last(kept, R)
           rest == SubSeq(kept, 1, Len(kept) - R)
<1>1. /\ R \in 0 .. Len(kept) /\ Len(kept) - R \in 0 .. Len(kept) /\ Len(kept) - R = A
      /\ \A i \in 1 .. R : A + i \in 1 .. A + R /\ A + i - A - 1 = i - 1
      /\ \A i \in 1 .. A : i \in 1 .. A + R
  OBVIOUS
<1>2. last \in Seq(Line) /\ Len(last) = R /\ \A i \in 1 .. R : last[i] = kept[A + i]
  BY <1>1, LastOnes, ZenonT(60)
<1>3. rest \in Seq(Line) /\ Len(rest) = A /\ \A i \in 1 .. A : rest[i] = kept[i]
  BY <1>1, FirstOnes, ZenonT(60)
<1> HIDE DEF last, rest
<1>4. sc \in Seq(Line) /\ Len(sc) = R /\ \A i \in 1 .. R : sc[i] = last[i]
  <2>1. ASSUME NEW i \in 1 .. R PROVE last[i] = rows[i - 1]
    <3>1. A + i \in 1 .. A + R /\ A + i - A - 1 = i - 1
      OBVIOUS
    <3>2. kept[A + i] = rows[A + i - A - 1]
      BY <3>1
    <3> QED BY <1>2, <3>1, <3>2, Zenon
  <2> QED BY <2>1, Zenon DEF View
<1>5. tr \in Seq(Line) /\ Len(tr) = A /\ \A i \in 1 .. A : tr[i] = rest[i]
  <2>1. \A i \in 1 .. A : rest[i] = rows[i - A - 1]
    BY <1>1, <1>3, Zenon
  <2> QED BY <2>1, Zenon DEF View
<1>6. sc = last /\ tr = rest
  BY <1>2, <1>3, <1>4, <1>5, SeqEqual, Zenon
<1> QED BY <1>6, Zenon DEF last, rest

\* resize() to fewer rows.
LEMMA ResizeShrinks ==
  ASSUME IInv, IInv', ~AltScreen, NEW rows \in Heights, Resize(rows), rows < mScreenRows
  PROVE  \E n \in 1 .. Len(Screen) - 1 : Lines!Shrink(n)
<1> DEFINE A == mActiveTranscriptRows
           R == mScreenRows
           shift == ShiftOf(rows)
           n == R - rows
           d == R - rows - shift
           blank == Cardinality(BlankBelow(cursor))
           head == SubSeq(Screen, 1, Len(Screen) - d)
           kept == Transcript \o head
<1>1. A \in Nat /\ R \in Nat /\ View(Shown, Transcript, Screen, A, R)
  BY Viewed, Fields DEF IInv
<1>2. /\ mScreenRows' = rows /\ mTotalRows' = mTotalRows /\ mTotalRows \in Nat
      /\ rows \in Nat /\ rows >= 1 /\ shift \in Int /\ shift >= 0 /\ shift <= R - rows
      /\ mActiveTranscriptRows' = A + shift /\ A + shift <= mTotalRows - rows
  BY ResizeRows, Fields DEF IInv
<1>3. View(Shown', Transcript', Screen', A + shift, rows)
  <2>1. View(Shown, Transcript, Screen, mActiveTranscriptRows, mScreenRows)'
    BY Viewed, PTL
  <2> QED BY <1>2, <2>1, Zenon DEF View
<1>4. \A k \in -(A + shift) .. rows - 1 : k + shift \in -A .. R - 1 /\ Shown'[k] = Shown[k + shift]
  <2> SUFFICES ASSUME NEW k \in -(A + shift) .. rows - 1
               PROVE  k + shift \in -A .. R - 1 /\ Shown'[k] = Shown[k + shift]
    OBVIOUS
  <2>1. k + shift < mScreenRows
    BY <1>1, <1>2
  <2>2. k + shift \in -A .. R - 1 /\ LineAt(k)' = LineAt(k + shift)
    BY <1>2, <2>1, ResizeLines, Zenon
  <2>3. Shown'[k] = LineAt(k)'
    BY <1>2, Zenon DEF Shown, LineAt
  <2>4. Shown[k + shift] = LineAt(k + shift)
    BY <2>2, Zenon DEF Shown, LineAt
  <2> QED BY <2>2, <2>3, <2>4, Zenon
<1> HIDE DEF A, R, shift
<1>5. /\ Len(Screen) = R /\ Screen \in Seq(Line) /\ Transcript \in Seq(Line)
      /\ Len(Transcript) = A
  BY <1>1, Zenon DEF View
<1>6. n \in 1 .. Len(Screen) - 1 /\ d \in 0 .. n
  BY <1>1, <1>2, <1>5, rows < R DEF R
<1>7. head \in Seq(Line) /\ Len(head) = R - d /\ \A i \in 1 .. R - d : head[i] = Screen[i]
  <2>1. R - d \in 0 .. Len(Screen) /\ Len(Screen) - d = R - d
    BY <1>1, <1>2, <1>5, <1>6
  <2> HIDE DEF d
  <2> QED BY <1>5, <2>1, FirstOnes, Zenon
<1> HIDE DEF head
<1>8. /\ kept \in Seq(Line) /\ Len(kept) = (A + shift) + rows
      /\ \A j \in 1 .. (A + shift) + rows : kept[j] = Shown'[j - (A + shift) - 1]
  <2>1. /\ kept \in Seq(Line) /\ Len(kept) = A + (R - d)
        /\ \A i \in 1 .. A + (R - d) : kept[i] = IF i <= A THEN Transcript[i] ELSE head[i - A]
    <3> DEFINE m == R - d
    <3>1. Len(head) = m /\ head \in Seq(Line)
      BY <1>7, Zenon
    <3> HIDE DEF m
    <3>2. /\ kept \in Seq(Line) /\ Len(kept) = A + m
          /\ \A i \in 1 .. A + m : kept[i] = IF i <= A THEN Transcript[i] ELSE head[i - A]
      BY <1>5, <3>1, ConcatAt, Zenon
    <3> QED BY <3>2, Zenon DEF m
  <2>2. A + (R - d) = (A + shift) + rows
    BY <1>1, <1>2
  <2> HIDE DEF kept
  <2>3. ASSUME NEW j \in 1 .. (A + shift) + rows
        PROVE  kept[j] = Shown'[j - (A + shift) - 1]
    <3>1. /\ j - (A + shift) - 1 \in -(A + shift) .. rows - 1
          /\ j - (A + shift) - 1 + shift = j - A - 1
      BY <1>1, <1>2
    <3>2. Shown'[j - (A + shift) - 1] = Shown[j - A - 1]
      BY <1>4, <3>1, Zenon
    <3>3. CASE j <= A
      <4>1. j \in 1 .. A
        BY <1>1, <1>2, <3>3
      <4> QED BY <1>1, <2>1, <2>2, <3>2, <3>3, <4>1, Zenon DEF View
    <3>4. CASE ~(j <= A)
      <4>1. j - A \in 1 .. R - d /\ j - A \in 1 .. R
        BY <1>1, <1>2, <1>6, <3>4
      <4> QED BY <1>1, <1>7, <2>1, <2>2, <3>2, <3>4, <4>1, Zenon DEF View
    <3> QED BY <3>3, <3>4, Zenon
  <2> QED BY <2>1, <2>2, <2>3, Zenon
<1> HIDE DEF kept
<1>9. Screen' = Lines!Last(kept, rows) /\ Transcript' = SubSeq(kept, 1, Len(kept) - rows)
  <2>1. A + shift \in Nat
    BY <1>1, <1>2
  <2> QED BY <1>2, <1>3, <1>8, <2>1, Divided, Zenon
<1>10. d = IF blank <= n THEN blank ELSE n
  <2>1. blank \in Nat
    BY BlankRows, Fields DEF IInv, blank
  <2>2. shift = n - Lesser(blank, n)
    BY rows < mScreenRows, Zenon DEF shift, ShiftOf, ShiftDown, n, R, blank
  <2> QED BY <1>1, <1>2, <1>6, <2>1, <2>2 DEF Lesser, n
<1>11. Len(Screen) - n = rows
  BY <1>1, <1>2, <1>5
<1>12. blank = Cardinality(Lines!BlankBelow(cursor))
  <2>1. ASSUME NEW i \in 1 .. mScreenRows - 1
        PROVE  /\ mLines[ExternalToInternalRow(i)] # Null
               /\ text[mLines[ExternalToInternalRow(i)]] = Screen[i + 1]
    <3>1. i \in -A .. R - 1 /\ i + 1 \in 1 .. R /\ (i + 1) - 1 = i
      BY <1>1 DEF R
    <3>2. mLines[ExternalToInternalRow(i)] # Null /\ Shown[i] = LineAt(i)
      BY <3>1, Zenon DEF IInv, ActiveRowsAllocated, A, R, Shown, LineAt
    <3>3. Screen[i + 1] = Shown[(i + 1) - 1]
      BY <1>1, <3>1, Zenon DEF View
    <3> QED BY <3>1, <3>2, <3>3, Zenon DEF LineAt
  <2>2. Lines!BlankBelow(cursor) = {i \in 1 .. mScreenRows - 1 : i > cursor /\ Screen[i + 1] = Blank}
    BY <1>5, Zenon DEF Lines!BlankBelow, Screen, R
  <2>3. BlankBelow(cursor) = Lines!BlankBelow(cursor)
    BY <2>1, <2>2, Zenon DEF BlankBelow
  <2> QED BY <2>3, Zenon DEF blank
<1>13. cursor' = IF cursor < n - d THEN 0 ELSE cursor - (n - d)
  <2>1. cursor' = CursorShifted(cursor, shift)
    BY rows < mScreenRows, Zenon DEF Resize, shift, ShiftOf
  <2>2. cursor \in Int /\ n - d = shift
    BY <1>1, <1>2, Fields DEF IInv
  <2> QED BY <1>2, <2>1, <2>2 DEF CursorShifted
<1>14. Lines!Shrink(n)
  <2> DEFINE c == Lines!Cardinality(Lines!BlankBelow(cursor))
             e == IF c <= n THEN c ELSE n
  <2>1. d = e
    <3>1. c = Cardinality(Lines!BlankBelow(cursor))
      BY Zenon DEF Lines!Cardinality, Cardinality
    <3> QED BY <1>10, <1>12, <3>1, Zenon
  <2> HIDE DEF n, d, blank
  <2>2. /\ Screen' = Lines!Last(Transcript \o SubSeq(Screen, 1, Len(Screen) - d), Len(Screen) - n)
        /\ Transcript' = SubSeq(Transcript \o SubSeq(Screen, 1, Len(Screen) - d), 1,
                            Len(Transcript \o SubSeq(Screen, 1, Len(Screen) - d)) - (Len(Screen) - n))
    BY <1>9, <1>11, Zenon DEF kept, head
  <2>3. /\ Screen' = Lines!Last(Transcript \o SubSeq(Screen, 1, Len(Screen) - e), Len(Screen) - n)
        /\ Transcript' = SubSeq(Transcript \o SubSeq(Screen, 1, Len(Screen) - e), 1,
                            Len(Transcript \o SubSeq(Screen, 1, Len(Screen) - e)) - (Len(Screen) - n))
        /\ cursor' = IF cursor < n - e THEN 0 ELSE cursor - (n - e)
    BY <1>13, <2>1, <2>2, Zenon
  <2> QED BY <1>2, <2>3, Zenon DEF Lines!Shrink, Screen, Transcript
<1> QED BY <1>6, <1>14, Zenon

\* resize() to more rows.
LEMMA ResizeGrows ==
  ASSUME IInv, IInv', ~AltScreen, NEW rows \in Heights, Resize(rows), rows > mScreenRows
  PROVE  \E n \in 1 .. mTotalRows - Len(Screen) : Lines!Grow(n)
<1> DEFINE A == mActiveTranscriptRows
           R == mScreenRows
           n == rows - R
           pulled == IF n <= A THEN n ELSE A
           blank == Lines!Blanks(n - pulled)
           kept == Transcript \o Screen \o blank
<1>1. A \in Nat /\ R \in Nat /\ View(Shown, Transcript, Screen, A, R)
  BY Viewed, Fields DEF IInv
<1>2. /\ mScreenRows' = rows /\ mTotalRows' = mTotalRows /\ mTotalRows \in Nat
      /\ rows \in Nat /\ rows > R /\ rows <= mTotalRows /\ ShiftOf(rows) = -pulled
      /\ mActiveTranscriptRows' = A - pulled
  <2>1. /\ mScreenRows' = rows /\ mTotalRows' = mTotalRows
        /\ rows \in 1 .. mTotalRows /\ ShiftOf(rows) = ShiftUp(rows)
        /\ mActiveTranscriptRows' = A + ShiftOf(rows)
    <3>1. rows >= mScreenRows
      BY <1>1, HeightsAssumption, TotalRowsAssumption
    <3> QED BY <3>1, ResizeRows, Zenon
  <2>2. mTotalRows \in Nat
    BY Fields DEF IInv
  <2> QED BY <1>1, <2>1, <2>2 DEF ShiftUp
<1>3. View(Shown', Transcript', Screen', A - pulled, rows)
  <2>1. View(Shown, Transcript, Screen, mActiveTranscriptRows, mScreenRows)'
    BY Viewed, PTL
  <2> QED BY <1>2, <2>1, Zenon DEF View
<1>4. n \in Nat /\ n >= 1 /\ pulled \in Nat /\ pulled <= A /\ pulled <= n /\ rows = R + n
  BY <1>1, <1>2
<1> HIDE DEF n, pulled
<1>5. \A k \in -(A - pulled) .. rows - 1 :
        Shown'[k] = IF k - pulled < R THEN Shown[k - pulled] ELSE Blank
  <2> SUFFICES ASSUME NEW k \in -(A - pulled) .. rows - 1
               PROVE  Shown'[k] = IF k - pulled < R THEN Shown[k - pulled] ELSE Blank
    OBVIOUS
  <2>1. k + ShiftOf(rows) = k - pulled
    BY <1>1, <1>2, <1>4
  <2>2. Shown'[k] = LineAt(k)'
    BY <1>2, Zenon DEF Shown, LineAt
  <2>3. CASE k - pulled < R
    <3>1. k - pulled \in -A .. R - 1 /\ LineAt(k)' = LineAt(k - pulled)
      BY <1>2, <2>1, <2>3, ResizeLines, Zenon
    <3>2. Shown[k - pulled] = LineAt(k - pulled)
      BY <3>1, Zenon DEF Shown, LineAt
    <3> QED BY <2>2, <2>3, <3>1, <3>2, Zenon
  <2>4. CASE ~(k - pulled < R)
    <3>1. LineAt(k)' = Blank
      BY <1>2, <2>1, <2>4, ResizeLines, Zenon
    <3> QED BY <2>2, <2>4, <3>1, Zenon
  <2> QED BY <2>3, <2>4, Zenon
<1>6. /\ Len(Screen) = R /\ Screen \in Seq(Line) /\ Transcript \in Seq(Line)
      /\ Len(Transcript) = A
  BY <1>1, Zenon DEF View
<1> DEFINE m == n - pulled
<1>7. /\ m \in Nat /\ blank \in [1 .. m -> Line] /\ \A i \in 1 .. m : blank[i] = Blank
  <2>1. m \in Nat
    BY <1>4
  <2> HIDE DEF m
  <2> QED BY <2>1, BlankAssumption, Zenon DEF Lines!Blanks, m
<1>8. blank \in Seq(Line) /\ Len(blank) = m
  <2> HIDE DEF m, blank
  <2> QED BY <1>7, FunctionIsSeq, Zenon
<1> HIDE DEF blank, A, R, m
<1>9. /\ kept \in Seq(Line) /\ Len(kept) = A + R + m
      /\ \A j \in 1 .. A + R + m : kept[j] = IF j <= A + R THEN (Transcript \o Screen)[j] ELSE blank[j - (A + R)]
      /\ \A j \in 1 .. A + R : (Transcript \o Screen)[j] = IF j <= A THEN Transcript[j] ELSE Screen[j - A]
  <2> DEFINE two == Transcript \o Screen
  <2>1. /\ two \in Seq(Line) /\ Len(two) = A + R
        /\ \A j \in 1 .. A + R : two[j] = IF j <= A THEN Transcript[j] ELSE Screen[j - A]
    BY <1>6, ConcatAt, Zenon
  <2> DEFINE a == A + R
  <2>2. two \in Seq(Line) /\ Len(two) = a
    BY <2>1, Zenon
  <2> HIDE DEF two, a
  <2>3. /\ two \o blank \in Seq(Line) /\ Len(two \o blank) = a + m
        /\ \A j \in 1 .. a + m : (two \o blank)[j] = IF j <= a THEN two[j] ELSE blank[j - a]
    BY <1>8, <2>2, ConcatAt, Zenon
  <2> QED BY <2>1, <2>3, Zenon DEF two, a
<1>10. A + R + m = (A - pulled) + rows /\ A - pulled \in Nat /\ m \in Nat
  BY <1>1, <1>4, <1>7 DEF m
<1> HIDE DEF kept
<1>11. ASSUME NEW j \in 1 .. (A - pulled) + rows
       PROVE  kept[j] = Shown'[j - (A - pulled) - 1]
  <2> DEFINE k == j - (A - pulled) - 1
  <2>1. k \in -(A - pulled) .. rows - 1 /\ k - pulled = j - A - 1 /\ (k - pulled < R <=> j <= A + R)
    BY <1>1, <1>2, <1>4
  <2>2. CASE j <= A
    <3>1. j <= A + R /\ j \in 1 .. A /\ j \in 1 .. A + R
      BY <1>1, <1>2, <1>4, <2>2
    <3>2. kept[j] = Shown[j - A - 1]
      BY <1>1, <1>9, <1>10, <2>2, <3>1, Zenon DEF View
    <3> QED BY <1>5, <2>1, <3>1, <3>2, Zenon
  <2>3. CASE ~(j <= A) /\ j <= A + R
    <3>1. j - A \in 1 .. R /\ j \in 1 .. A + R
      BY <1>1, <1>2, <1>4, <2>3
    <3>2. kept[j] = Shown[j - A - 1]
      BY <1>1, <1>9, <1>10, <2>3, <3>1, Zenon DEF View
    <3> QED BY <1>5, <2>1, <2>3, <3>2, Zenon
  <2>4. CASE ~(j <= A + R)
    <3>1. j - (A + R) \in 1 .. m
      BY <1>1, <1>2, <1>4, <1>10, <2>4
    <3>2. kept[j] = Blank
      BY <1>7, <1>9, <1>10, <2>4, <3>1, Zenon
    <3> QED BY <1>5, <2>1, <2>4, <3>2, Zenon
  <2> QED BY <2>2, <2>3, <2>4, Zenon
<1>12. Screen' = Lines!Last(kept, rows) /\ Transcript' = SubSeq(kept, 1, Len(kept) - rows)
  <2> DEFINE a == A - pulled
  <2>1. /\ a \in Nat /\ rows \in Nat /\ View(Shown', Transcript', Screen', a, rows)
        /\ kept \in Seq(Line) /\ Len(kept) = a + rows
        /\ \A j \in 1 .. a + rows : kept[j] = Shown'[j - a - 1]
    BY <1>2, <1>3, <1>9, <1>10, <1>11, Zenon
  <2> HIDE DEF a
  <2> QED BY <2>1, Divided, Zenon
<1>13. n \in 1 .. mTotalRows - Len(Screen) /\ Len(Screen) + n = rows
  BY <1>1, <1>2, <1>4, <1>6
<1>14. cursor' = cursor + pulled
  <2>1. cursor' = CursorShifted(cursor, ShiftOf(rows))
    BY Zenon DEF Resize, ShiftOf
  <2>2. cursor \in Nat
    BY Fields DEF IInv
  <2> QED BY <1>2, <1>4, <2>1, <2>2 DEF CursorShifted
<1>15. Lines!Grow(n)
  BY <1>2, <1>6, <1>12, <1>13, <1>14, Zenon DEF Lines!Grow, kept, blank, pulled, Screen,
     Transcript
<1> QED BY <1>13, <1>15, Zenon

\* What blockCopyLinesDown() does to the rows from a to a + len.
LEMMA BlockCopyRows ==
  ASSUME mTotalRows \in 1 .. TotalRows, NEW lines, NEW f \in 0 .. mTotalRows - 1,
         NEW a \in 0 .. mTotalRows, NEW len \in Nat, a + len <= mTotalRows, len > 0 => a < mTotalRows,
         NEW j \in -mTotalRows .. mTotalRows
  PROVE  LET t == mTotalRows
             new == BlockCopyLinesDown(lines, At(f, a, t), len)
         IN  /\ j > a /\ j <= a + len /\ len < t => new[At(f, j, t)] = lines[At(f, j - 1, t)]
             /\ len = 0 \/ (j < a /\ j > a + len - t) \/ (j > a + len /\ j < a + t)
                  => new[At(f, j, t)] = lines[At(f, j, t)]
             /\ j = a /\ len < t => new[At(f, j, t)] = lines[At(f, a + len, t)]
<1> DEFINE t == mTotalRows
           src == At(f, a, t)
           new == BlockCopyLinesDown(lines, src, len)
           D(i) == IF i >= src THEN i - src ELSE i - src + t
           P(i) == IF len = 0 \/ i >= t \/ D(i) > len THEN i
                   ELSE IF D(i) = 0 THEN Fold(src + len, t)
                   ELSE IF i = 0 THEN t - 1 ELSE i - 1
           i == At(f, j, t)
<1>1. new = [s \in Slot |-> lines[P(s)]]
  BY DEF BlockCopyLinesDown
<1>2. i \in Slot /\ t \in Nat /\ t >= 1 /\ i < t /\ i >= 0 /\ f >= 0 /\ f < t
  BY TotalRowsAssumption DEF Slot, At
<1>3. j > a /\ j <= a + len /\ len < t => P(i) = At(f, j - 1, t)
  BY <1>2 DEF At, Fold
<1>4. len = 0 \/ (j < a /\ j > a + len - t) \/ (j > a + len /\ j < a + t) => P(i) = i
  BY <1>2 DEF At, Fold
<1>6. j = a /\ len < t => P(i) = At(f, a + len, t)
  BY <1>2 DEF At, Fold
<1> HIDE DEF P, i
<1>5. new[i] = lines[P(i)]
  BY <1>1, <1>2, Zenon
<1> HIDE DEF new
<1> QED BY <1>3, <1>4, <1>5, <1>6, Zenon DEF new, i

\* The row that row k was before scrollDownOneLine().
Before(k, top, bottom) ==
  IF k = -1 THEN top
  ELSE IF (k >= 0 /\ k < top) \/ k >= bottom THEN k
  ELSE k + 1

\* scrollDownOneLine() of the main buffer moves the lines between the margins up,
\* the topmost of them into the transcript; the row it reveals is blank.
LEMMA ScrollRows ==
  ASSUME IInv, ~AltScreen, NEW bottom \in 1 .. mScreenRows, NEW top \in 0 .. bottom - 1,
         ScrollDownOneLine(top, bottom), NEW k \in -mActiveTranscriptRows' .. mScreenRows - 1
  PROVE  IF k = bottom - 1
         THEN LineAt(k)' = Blank
         ELSE /\ Before(k, top, bottom) \in -mActiveTranscriptRows .. mScreenRows - 1
              /\ LineAt(k)' = LineAt(Before(k, top, bottom))
<1> DEFINE t == mTotalRows
           A == mActiveTranscriptRows
           R == mScreenRows
           f == mScreenFirstRow
           b == At(f, bottom, t)
           len == R - bottom
           lines1 == BlockCopyLinesDown(mLines, f, top)
           lines2 == BlockCopyLinesDown(lines1, b, len)
           g == Before(k, top, bottom)
           j == k + 1
           slot == At(f, j, t)
<1>1. TypeOK /\ NoSharedRows /\ ActiveRowsAllocated /\ mLines \in [Slot -> Row \cup {Null}]
  BY Zenon DEF IInv, TypeOK
<1>2. /\ t \in Nat \ {0} /\ t \in 1 .. TotalRows /\ f \in 0 .. t - 1 /\ f \in Nat /\ f < t
      /\ R \in 1 .. t /\ A \in 0 .. t - R
      /\ len \in Nat /\ len < t /\ top \in Nat /\ top < t /\ bottom \in 0 .. t
  BY <1>1, Fields DEF IInv
<1>3. \A r \in -A .. R : ExternalToInternalRow(r) = At(f, r, t) /\ At(f, r, t) \in Slot
  <2> TAKE r \in -A .. R
  <2>1. r \in -t .. t
    BY <1>2
  <2>2. ExternalToInternalRow(r) = Ext(f, r, t) /\ ExternalToInternalRow(r) \in Slot
    BY <1>1, ActiveSlot, Zenon
  <2>3. Ext(f, r, t) = At(f, r, t)
    BY <1>2, <2>1, RowSlot, Zenon
  <2> QED BY <2>2, <2>3, Zenon
<1>4. f % t = f /\ ExternalToInternalRow(bottom) = b
  <2>1. bottom \in -A .. R
    BY <1>2
  <2> QED BY <1>2, <1>3, <2>1, Remainder, SMTT(40)
<1>5. /\ mScreenFirstRow' = (f + 1) % t
      /\ mActiveTranscriptRows' = Grown(A)
      /\ mLines' \in Allocated(lines2, {b})
      /\ text' = Cleared(text, mLines', {b})
      /\ mTotalRows' = t
  BY <1>4, Zenon DEF ScrollDownOneLine
<1>6. /\ mActiveTranscriptRows' = IF A < t - R THEN A + 1 ELSE A
      /\ j \in -t .. t /\ k \in -t .. t /\ k \in -t .. t - 1 /\ j > R - t /\ j <= R
      /\ j >= -A
  BY <1>2, <1>5 DEF Grown
<1>7. ExternalToInternalRow(k)' = slot /\ slot \in Slot
  <2>1. mScreenFirstRow' = At(f, 1, t) /\ mScreenFirstRow' \in Nat /\ mScreenFirstRow' < t
    <3>1. f + 1 \in Nat /\ f + 1 < t + t
      BY <1>2
    <3>2. (f + 1) % t = Fold(f + 1, t)
      BY <1>2, <3>1, Remainder, Zenon
    <3> QED BY <1>2, <1>5, <3>2 DEF At, Fold
  <2>2. ExternalToInternalRow(k)' = Ext(mScreenFirstRow', k, t)
    BY <1>2, <1>5, <1>6, <2>1 DEF ExternalToInternalRow, Ext
  <2>3. Ext(mScreenFirstRow', k, t) = At(mScreenFirstRow', k, t)
    BY <1>2, <1>6, <2>1, RowSlot, Zenon
  <2>4. At(At(f, 1, t), k, t) = slot
    BY <1>2, <1>6, Circle, ZenonT(60)
  <2>5. j \in -A .. R
    BY <1>2, <1>6
  <2> QED BY <1>3, <2>1, <2>2, <2>3, <2>4, <2>5, Zenon
<1>8. lines1 \in [Slot -> Row \cup {Null}] /\ lines2 \in [Slot -> Row \cup {Null}]
      /\ \A x, y \in Slot : lines2[x] = lines2[y] /\ lines2[x] # Null => x = y
  <2>1. \A x, y \in Slot : mLines[x] = mLines[y] /\ mLines[x] # Null => x = y
    BY <1>1, Zenon DEF NoSharedRows
  <2>2. Moved(mLines, lines1, f, top)
    BY <1>1, <1>2, <2>1, BlockCopy
  <2> HIDE DEF lines1
  <2>3. /\ lines1 \in [Slot -> Row \cup {Null}]
        /\ \A x, y \in Slot : lines1[x] = lines1[y] /\ lines1[x] # Null => x = y
    BY <2>2, Zenon DEF Moved
  <2>4. b \in 0 .. t - 1
    BY <1>2 DEF At
  <2>5. Moved(lines1, lines2, b, len)
    BY <1>2, <2>3, <2>4, BlockCopy
  <2> HIDE DEF lines2
  <2> QED BY <2>3, <2>5, Zenon DEF Moved
<1>9. b \in Slot
  BY <1>2, <1>3
<1>10. /\ mLines' \in [Slot -> Row \cup {Null}]
       /\ \A x, y \in Slot : mLines'[x] = mLines'[y] /\ mLines'[x] # Null => x = y
       /\ mLines'[b] # Null
       /\ \A x \in Slot : lines2[x] # Null => mLines'[x] = lines2[x]
  <2> HIDE DEF lines2, b
  <2> QED BY <1>5, <1>8, <1>9, Allocation
<1>11. LineAt(k)' = text'[mLines'[slot]]
  BY <1>7, Zenon DEF LineAt
<1>12. CASE k = bottom - 1
  <2>1. slot = b
    BY <1>2, <1>12, SMTT(40)
  <2>2. mLines'[b] \in Row
    BY <1>9, <1>10, Zenon
  <2>3. text'[mLines'[b]] = Blank
    BY <1>5, <2>2, Zenon DEF Cleared
  <2> QED BY <1>11, <1>12, <2>1, <2>3, Zenon
<1>13. CASE k # bottom - 1
  <2>1. g \in -A .. R - 1 /\ g \in -A .. R
    BY <1>2, <1>6, <1>13 DEF Before
  <2>2. lines2[slot] = mLines[At(f, g, t)]
    <3>1. At(f, 0, t) = f
      BY <1>2 DEF At
    <3>2. ASSUME NEW i \in -t .. t, i >= -A, i < R
          PROVE  /\ i > 0 /\ i <= top => lines1[At(f, i, t)] = mLines[At(f, i - 1, t)]
                 /\ i < 0 \/ i > top => lines1[At(f, i, t)] = mLines[At(f, i, t)]
                 /\ i = 0 => lines1[At(f, i, t)] = mLines[At(f, top, t)]
      <4>1. lines1 = BlockCopyLinesDown(mLines, At(f, 0, t), top)
        BY <3>1, Zenon
      <4>2. /\ 0 \in 0 .. t /\ 0 + top <= t /\ (top > 0 => 0 < t)
            /\ 0 + top = top
            /\ (i > 0 /\ i <= top => i > 0 /\ i <= 0 + top /\ top < t)
            /\ (i < 0 => i < 0 /\ i > 0 + top - t)
            /\ (i > top => i > 0 + top /\ i < 0 + t)
        BY <1>2, <3>2
      <4> HIDE DEF lines1
      <4>3. LET new == BlockCopyLinesDown(mLines, At(f, 0, t), top)
            IN  /\ i > 0 /\ i <= 0 + top /\ top < t => new[At(f, i, t)] = mLines[At(f, i - 1, t)]
                /\ top = 0 \/ (i < 0 /\ i > 0 + top - t) \/ (i > 0 + top /\ i < 0 + t)
                     => new[At(f, i, t)] = mLines[At(f, i, t)]
                /\ i = 0 /\ top < t => new[At(f, i, t)] = mLines[At(f, 0 + top, t)]
        <5>1. PICK a : a = 0
          OBVIOUS
        <5>2. /\ a \in 0 .. mTotalRows /\ a + top <= mTotalRows /\ (top > 0 => a < mTotalRows)
              /\ f \in 0 .. mTotalRows - 1 /\ top \in Nat /\ i \in -mTotalRows .. mTotalRows
              /\ mTotalRows \in 1 .. TotalRows
          BY <1>2, <5>1
        <5>3. LET new == BlockCopyLinesDown(mLines, At(f, a, t), top)
              IN  /\ i > a /\ i <= a + top /\ top < t => new[At(f, i, t)] = mLines[At(f, i - 1, t)]
                  /\ top = 0 \/ (i < a /\ i > a + top - t) \/ (i > a + top /\ i < a + t)
                       => new[At(f, i, t)] = mLines[At(f, i, t)]
                  /\ i = a /\ top < t => new[At(f, i, t)] = mLines[At(f, a + top, t)]
          BY <5>2, BlockCopyRows, ZenonT(60)
        <5> QED BY <5>1, <5>3, Zenon
      <4> QED BY <1>2, <4>1, <4>2, <4>3, Zenon
    <3>3. /\ j > bottom => lines2[slot] = lines1[At(f, k, t)]
          /\ j < bottom => lines2[slot] = lines1[slot]
      <4>1. /\ bottom + len <= t /\ (len > 0 => bottom < t)
            /\ (j > bottom => j > bottom /\ j <= bottom + len /\ len < t /\ j - 1 = k)
            /\ (j < bottom => j < bottom /\ j > bottom + len - t)
        BY <1>2, <1>6
      <4>2. len \in Nat /\ mTotalRows \in 1 .. TotalRows /\ j \in -mTotalRows .. mTotalRows
        BY <1>2, <1>6
      <4> HIDE DEF lines1, len, j
      <4>3. LET new == BlockCopyLinesDown(lines1, At(f, bottom, t), len)
            IN  /\ j > bottom /\ j <= bottom + len /\ len < t => new[At(f, j, t)] = lines1[At(f, j - 1, t)]
                /\ len = 0 \/ (j < bottom /\ j > bottom + len - t) \/ (j > bottom + len /\ j < bottom + t)
                     => new[At(f, j, t)] = lines1[At(f, j, t)]
        BY <1>2, <4>1, <4>2, BlockCopyRows
      <4> QED BY <4>1, <4>3, Zenon
    <3> HIDE DEF lines1, lines2
    <3>4. CASE j > bottom
      <4>1. k >= -A /\ k < R /\ k > top /\ g = k
        BY <1>2, <1>6, <3>4 DEF Before
      <4> QED BY <1>6, <3>2, <3>3, <3>4, <4>1, Zenon
    <3>5. CASE j < bottom
      <4>1. j < R
        BY <1>2, <3>5
      <4>2. CASE j < 0 \/ j > top
        <5>1. g = j
          BY <1>2, <1>6, <3>5, <4>2 DEF Before
        <5> HIDE DEF j, g
        <5> QED BY <1>6, <3>2, <3>3, <3>5, <4>1, <4>2, <5>1, Zenon
      <4>3. CASE j = 0
        <5>1. g = top
          BY <1>2, <1>6, <3>5, <4>3 DEF Before
        <5> HIDE DEF j, g
        <5> QED BY <1>6, <3>2, <3>3, <3>5, <4>1, <4>3, <5>1, Zenon
      <4>4. CASE j > 0 /\ j <= top
        <5>1. g = j - 1
          BY <1>2, <1>6, <3>5, <4>4 DEF Before
        <5> HIDE DEF j, g
        <5> QED BY <1>6, <3>2, <3>3, <3>5, <4>1, <4>4, <5>1, Zenon
      <4> QED BY <1>2, <4>2, <4>3, <4>4
    <3> QED BY <1>13, <3>4, <3>5
  <2>3. slot # b
    BY <1>2, <1>6, <1>13 DEF At
  <2>4. mLines[At(f, g, t)] # Null /\ mLines[At(f, g, t)] \in Row
    BY <1>1, <1>3, <2>1, Zenon DEF ActiveRowsAllocated
  <2>5. mLines'[slot] = mLines[At(f, g, t)] /\ mLines'[slot] # mLines'[b]
    BY <1>7, <1>9, <1>10, <2>2, <2>3, <2>4, Zenon
  <2>6. text'[mLines'[slot]] = text[mLines'[slot]]
    BY <1>5, <2>4, <2>5, Zenon DEF Cleared
  <2> QED BY <1>3, <1>11, <1>13, <2>1, <2>5, <2>6, Zenon DEF LineAt
<1> QED BY <1>12, <1>13, Zenon

\* Rows and what they are after a scroll.
Shifted(rows, rows1, A1, R, top, bottom) ==
  \A k \in -A1 .. R - 1 : rows1[k] = IF k = bottom - 1 THEN Blank ELSE rows[Before(k, top, bottom)]

\* The transcript after the screen has scrolled: the line that left the screen is
\* its newest one, and its oldest is dropped when there is no more room.
LEMMA ScrolledTranscript ==
  ASSUME NEW A \in Nat, NEW R \in Nat, NEW room \in Nat, A <= room, NEW A1 \in Nat,
         A1 = IF A < room THEN A + 1 ELSE A,
         NEW bottom \in 1 .. R, NEW top \in 0 .. bottom - 1,
         NEW rows, NEW tr, NEW sc, NEW rows1, NEW tr1, NEW sc1,
         View(rows, tr, sc, A, R), View(rows1, tr1, sc1, A1, R),
         Shifted(rows, rows1, A1, R, top, bottom)
  PROVE  tr1 = Lines!Newest(Append(tr, sc[top + 1]), room)
<1> DEFINE x == sc[top + 1]
           ap == Append(tr, x)
           new == Lines!Newest(ap, room)
<1> SUFFICES tr1 = new
  BY Zenon
<1> HIDE DEF new
<1>1. /\ tr \in Seq(Line) /\ Len(tr) = A /\ \A i \in 1 .. A : tr[i] = rows[i - A - 1]
      /\ tr1 \in Seq(Line) /\ Len(tr1) = A1 /\ \A i \in 1 .. A1 : tr1[i] = rows1[i - A1 - 1]
      /\ sc \in Seq(Line) /\ Len(sc) = R
      /\ x \in Line /\ x = rows[top]
  BY DEF View
<1> HIDE DEF x
<1>2. ap \in Seq(Line) /\ Len(ap) = A + 1 /\ ap[A + 1] = x /\ \A i \in 1 .. A : ap[i] = rows[i - A - 1]
  BY <1>1
<1> HIDE DEF ap
<1>3. \A i \in 1 .. A1 : tr1[i] = IF i = A1 THEN x ELSE rows[i - A1]
  <2> TAKE i \in 1 .. A1
  <2>1. /\ i - A1 - 1 \in -A1 .. R - 1 /\ i - A1 - 1 # bottom - 1
        /\ Before(i - A1 - 1, top, bottom) = IF i = A1 THEN top ELSE i - A1
    BY DEF Before
  <2> QED BY <1>1, <2>1, Zenon DEF Shifted
<1>4. CASE A < room
  <2>1. A1 = A + 1 /\ A + 1 <= room
    BY <1>4
  <2>2. new = ap
    BY <1>2, <2>1, Zenon DEF new, Lines!Newest
  <2>3. \A i \in 1 .. A1 : tr1[i] = ap[i]
    <3> TAKE i \in 1 .. A1
    <3>1. CASE i = A1
      BY <1>2, <1>3, <2>1, <3>1
    <3>2. CASE i # A1
      <4>1. i \in 1 .. A /\ i - A1 = i - A - 1
        BY <2>1, <3>2
      <4>2. tr1[i] = rows[i - A1]
        BY <1>3, <3>2, Zenon
      <4>3. ap[i] = rows[i - A - 1]
        BY <1>2, <4>1, Zenon
      <4> QED BY <4>1, <4>2, <4>3, Zenon
    <3> QED BY <3>1, <3>2, Zenon
  <2>4. Len(tr1) = Len(ap) /\ \A i \in 1 .. Len(tr1) : tr1[i] = ap[i]
    BY <1>1, <1>2, <2>1, <2>3
  <2>5. tr1 = ap
    BY <1>1, <1>2, <2>4, SeqEqual, Zenon
  <2> QED BY <2>2, <2>5, Zenon
<1>5. CASE ~(A < room)
  <2>1. A1 = A /\ A = room /\ ~(A + 1 <= room) /\ A + 1 - room + 1 = 2
    BY <1>5
  <2> DEFINE last == SubSeq(ap, 2, A + 1)
  <2>2. new = last
    <3>1. Len(ap) - room + 1 = 2 /\ Len(ap) = A + 1 /\ ~(Len(ap) <= room)
      BY <1>2, <2>1
    <3> QED BY <3>1, Zenon DEF new, Lines!Newest, Lines!Last
  <2>3. last \in Seq(Line) /\ Len(last) = A /\ \A i \in 1 .. A : last[i] = ap[i + 1]
    <3>1. /\ 2 \in 1 .. Len(ap) + 1 /\ A + 1 \in 0 .. Len(ap) /\ 2 <= A + 1 + 1
          /\ A + 1 - 2 + 1 = A
      BY <1>2
    <3>2. /\ last \in Seq(Line) /\ Len(last) = A + 1 - 2 + 1
          /\ \A i \in 1 .. A + 1 - 2 + 1 : last[i] = ap[2 + i - 1]
      BY <1>2, <3>1, SubSeqAt
    <3>3. \A i \in 1 .. A : 2 + i - 1 = i + 1
      OBVIOUS
    <3> QED BY <3>1, <3>2, <3>3, Zenon
  <2> HIDE DEF last
  <2>4. \A i \in 1 .. A1 : tr1[i] = last[i]
    <3> TAKE i \in 1 .. A1
    <3>1. CASE i = A1
      BY <1>2, <1>3, <2>1, <2>3, <3>1
    <3>2. CASE i # A1
      <4>1. i + 1 \in 1 .. A /\ i - A1 = i + 1 - A - 1 /\ i \in 1 .. A
        BY <2>1, <3>2
      <4>2. tr1[i] = rows[i - A1]
        BY <1>3, <3>2, Zenon
      <4>3. last[i] = ap[i + 1]
        BY <2>3, <4>1, Zenon
      <4>4. ap[i + 1] = rows[i + 1 - A - 1]
        <5> DEFINE h == i + 1
        <5>1. h \in 1 .. A
          BY <4>1
        <5> HIDE DEF h
        <5>2. ap[h] = rows[h - A - 1]
          BY <1>2, <5>1, Zenon
        <5> QED BY <5>2 DEF h
      <4> QED BY <4>1, <4>2, <4>3, <4>4, Zenon
    <3> QED BY <3>1, <3>2, Zenon
  <2>5. Len(tr1) = Len(last) /\ \A i \in 1 .. Len(tr1) : tr1[i] = last[i]
    BY <1>1, <2>1, <2>3, <2>4
  <2>6. tr1 = last
    BY <1>1, <2>3, <2>5, SeqEqual, Zenon
  <2> QED BY <2>2, <2>6, Zenon
<1> QED BY <1>4, <1>5, Zenon

\* The lines between two margins moved up by one.
MovedUp(lines, top, bottom) ==
  SubSeq(lines, 1, top) \o SubSeq(lines, top + 2, bottom)
    \o <<Blank>> \o SubSeq(lines, bottom + 1, Len(lines))

\* The screen after it has scrolled between two margins.
LEMMA ScrolledScreen ==
  ASSUME NEW A \in Nat, NEW R \in Nat, NEW A1 \in Nat,
         NEW bottom \in 1 .. R, NEW top \in 0 .. bottom - 1,
         NEW rows, NEW tr, NEW sc, NEW rows1, NEW tr1, NEW sc1,
         View(rows, tr, sc, A, R), View(rows1, tr1, sc1, A1, R),
         Shifted(rows, rows1, A1, R, top, bottom)
  PROVE  sc1 = MovedUp(sc, top, bottom)
<1> DEFINE above == SubSeq(sc, 1, top)
           moved == SubSeq(sc, top + 2, bottom)
           below == SubSeq(sc, bottom + 1, Len(sc))
           two == above \o moved
           three == two \o <<Blank>>
           all == three \o below
<1>1. /\ sc \in Seq(Line) /\ Len(sc) = R /\ \A i \in 1 .. R : sc[i] = rows[i - 1]
      /\ sc1 \in Seq(Line) /\ Len(sc1) = R /\ \A i \in 1 .. R : sc1[i] = rows1[i - 1]
  BY Zenon DEF View
<1>2. above \in Seq(Line) /\ Len(above) = top /\ \A i \in 1 .. top : above[i] = sc[i]
  <2>1. 1 \in 1 .. Len(sc) + 1 /\ top \in 0 .. Len(sc) /\ 1 <= top + 1 /\ top - 1 + 1 = top
    BY <1>1
  <2> QED BY <1>1, <2>1, SubSeqAt
<1>3. /\ moved \in Seq(Line) /\ Len(moved) = bottom - top - 1
      /\ \A i \in 1 .. bottom - top - 1 : moved[i] = sc[top + i + 1]
  <2>1. /\ top + 2 \in 1 .. Len(sc) + 1 /\ bottom \in 0 .. Len(sc) /\ top + 2 <= bottom + 1
        /\ bottom - (top + 2) + 1 = bottom - top - 1
    BY <1>1
  <2> QED BY <1>1, <2>1, SubSeqAt
<1>4. /\ below \in Seq(Line) /\ Len(below) = R - bottom
      /\ \A i \in 1 .. R - bottom : below[i] = sc[bottom + i]
  <2>1. /\ bottom + 1 \in 1 .. Len(sc) + 1 /\ Len(sc) \in 0 .. Len(sc)
        /\ bottom + 1 <= Len(sc) + 1
        /\ Len(sc) - (bottom + 1) + 1 = R - bottom
    BY <1>1
  <2> QED BY <1>1, <2>1, SubSeqAt
<1> HIDE DEF above, moved, below
<1>5. /\ two \in Seq(Line) /\ Len(two) = bottom - 1
      /\ \A i \in 1 .. bottom - 1 : two[i] = IF i <= top THEN sc[i] ELSE sc[i + 1]
  <2>1. /\ two \in Seq(Line) /\ Len(two) = top + (bottom - top - 1)
        /\ \A i \in 1 .. top + (bottom - top - 1) : two[i] = IF i <= top THEN above[i] ELSE moved[i - top]
    <3>1. /\ two \in Seq(Line) /\ Len(two) = Len(above) + Len(moved)
          /\ \A i \in 1 .. Len(above) + Len(moved) :
               two[i] = IF i <= Len(above) THEN above[i] ELSE moved[i - Len(above)]
      BY <1>2, <1>3, ConcatAt, Zenon
    <3> QED BY <1>2, <1>3, <3>1
  <2> HIDE DEF two
  <2>2. top + (bottom - top - 1) = bottom - 1
    OBVIOUS
  <2>3. ASSUME NEW i \in 1 .. bottom - 1
        PROVE  two[i] = IF i <= top THEN sc[i] ELSE sc[i + 1]
    <3>1. CASE i <= top
      <4>1. i \in 1 .. top
        BY <3>1
      <4> QED BY <1>2, <2>1, <2>2, <3>1, <4>1, Zenon
    <3>2. CASE ~(i <= top)
      <4>1. i - top \in 1 .. bottom - top - 1 /\ top + (i - top) + 1 = i + 1
        BY <3>2
      <4> QED BY <1>3, <2>1, <2>2, <3>2, <4>1, Zenon
    <3> QED BY <3>1, <3>2, Zenon
  <2> QED BY <2>1, <2>2, <2>3, Zenon
<1> HIDE DEF two
<1>6. /\ three \in Seq(Line) /\ Len(three) = bottom /\ three[bottom] = Blank
      /\ \A i \in 1 .. bottom - 1 : three[i] = two[i]
  <2>1. <<Blank>> \in Seq(Line) /\ Len(<<Blank>>) = 1 /\ <<Blank>>[1] = Blank
    BY BlankAssumption
  <2> QED BY <1>5, <2>1, ConcatAt
<1> HIDE DEF three
<1>7. /\ all \in Seq(Line) /\ Len(all) = R
      /\ \A i \in 1 .. R : all[i] = IF i <= bottom THEN three[i] ELSE sc[i]
  <2>1. /\ all \in Seq(Line) /\ Len(all) = bottom + (R - bottom)
        /\ \A i \in 1 .. bottom + (R - bottom) : all[i] = IF i <= bottom THEN three[i] ELSE below[i - bottom]
    <3>1. /\ all \in Seq(Line) /\ Len(all) = Len(three) + Len(below)
          /\ \A i \in 1 .. Len(three) + Len(below) :
               all[i] = IF i <= Len(three) THEN three[i] ELSE below[i - Len(three)]
      BY <1>4, <1>6, ConcatAt, ZenonT(60)
    <3> QED BY <1>4, <1>6, <3>1, SMTT(40)
  <2> HIDE DEF all
  <2>2. bottom + (R - bottom) = R
    OBVIOUS
  <2>3. \A i \in 1 .. R : ~(i <= bottom) => i - bottom \in 1 .. R - bottom /\ bottom + (i - bottom) = i
    OBVIOUS
  <2> QED BY <1>4, <2>1, <2>2, <2>3, Zenon
<1> HIDE DEF all
<1>8. ASSUME NEW i \in 1 .. R
      PROVE  sc1[i] = all[i]
  <2>1. /\ i - 1 \in -A1 .. R - 1 /\ (i - 1 = bottom - 1 <=> i = bottom)
        /\ sc1[i] = rows1[i - 1]
    BY <1>1
  <2>2. CASE i = bottom
    <3>1. i <= bottom
      BY <2>2
    <3> QED BY <1>6, <1>7, <2>1, <2>2, <3>1, Zenon DEF Shifted
  <2>3. CASE i > bottom
    <3>1. Before(i - 1, top, bottom) = i - 1 /\ i # bottom /\ ~(i <= bottom)
      BY <2>3 DEF Before
    <3> QED BY <1>1, <1>7, <2>1, <3>1, Zenon DEF Shifted
  <2>4. CASE i < bottom /\ i <= top
    <3>1. /\ Before(i - 1, top, bottom) = i - 1 /\ i # bottom /\ i <= bottom
          /\ i \in 1 .. bottom - 1
      BY <2>4 DEF Before
    <3>2. sc1[i] = rows[i - 1] /\ sc[i] = rows[i - 1]
      BY <1>1, <2>1, <3>1, Zenon DEF Shifted
    <3>3. all[i] = sc[i]
      BY <1>5, <1>6, <1>7, <2>4, <3>1, Zenon
    <3> QED BY <3>2, <3>3, Zenon
  <2>5. CASE i < bottom /\ ~(i <= top)
    <3>1. /\ Before(i - 1, top, bottom) = i + 1 - 1 /\ i # bottom /\ i <= bottom
          /\ i \in 1 .. bottom - 1
          /\ i + 1 \in 1 .. R
      BY <2>5 DEF Before
    <3>2. sc[i + 1] = rows[i + 1 - 1]
      BY <1>1, <3>1
    <3>4. sc1[i] = rows[i + 1 - 1]
      BY <2>1, <3>1, Zenon DEF Shifted
    <3>3. all[i] = sc[i + 1]
      BY <1>5, <1>6, <1>7, <2>5, <3>1, Zenon
    <3> QED BY <3>2, <3>3, <3>4, Zenon
  <2> QED BY <2>2, <2>3, <2>4, <2>5
<1> QED BY <1>1, <1>7, <1>8, SeqEqual, Zenon DEF MovedUp, all, three, two, above, moved,
           below

\* The rows of the main buffer have row objects, each its own.
LEMMA ActiveObject ==
  ASSUME IInv, ~AltScreen, NEW k \in -mActiveTranscriptRows .. mScreenRows - 1
  PROVE  /\ ExternalToInternalRow(k) = At(mScreenFirstRow, k, mTotalRows)
         /\ ExternalToInternalRow(k) \in Slot
         /\ mLines[ExternalToInternalRow(k)] \in Row
         /\ mLines[ExternalToInternalRow(k)] # Null
         /\ \A i \in Slot : mLines[i] = mLines[ExternalToInternalRow(k)] => i = ExternalToInternalRow(k)
<1>1. TypeOK /\ NoSharedRows /\ ActiveRowsAllocated /\ mLines \in [Slot -> Row \cup {Null}]
  BY Zenon DEF IInv, TypeOK
<1>2. /\ mTotalRows \in Nat \ {0} /\ mScreenFirstRow \in Nat /\ mScreenFirstRow < mTotalRows
      /\ k \in -mTotalRows .. mTotalRows /\ k \in -mActiveTranscriptRows .. mScreenRows
  BY <1>1, Fields DEF IInv
<1>3. /\ ExternalToInternalRow(k) = At(mScreenFirstRow, k, mTotalRows)
      /\ ExternalToInternalRow(k) \in Slot
  BY <1>1, <1>2, ActiveSlot, RowSlot, Zenon
<1>4. mLines[ExternalToInternalRow(k)] # Null
  BY <1>1, Zenon DEF ActiveRowsAllocated
<1> QED BY <1>1, <1>3, <1>4, Zenon DEF NoSharedRows

\* What Shown says of a row.
LEMMA ShownAt ==
  ASSUME NEW k \in -mActiveTranscriptRows .. mScreenRows - 1
  PROVE  Shown[k] = LineAt(k)
BY Zenon DEF Shown, LineAt

\* scrollDownOneLine() is a scroll of the plain list of lines.
LEMMA ScrollScrolls ==
  ASSUME IInv, IInv', ~AltScreen, NEW bottom \in 1 .. mScreenRows, NEW top \in 0 .. bottom - 1,
         ScrollDownOneLine(top, bottom)
  PROVE  Lines!ScrollUp(top, bottom)
<1> DEFINE A == mActiveTranscriptRows
           R == mScreenRows
           A1 == mActiveTranscriptRows'
           room == mTotalRows - mScreenRows
<1>1. /\ A \in Nat /\ R \in Nat /\ room \in Nat /\ A <= room
      /\ View(Shown, Transcript, Screen, A, R)
  BY Viewed, Fields DEF IInv
<1>2. /\ mScreenRows' = R /\ mTotalRows' = mTotalRows
      /\ A1 = (IF A < room THEN A + 1 ELSE A) /\ cursor' = cursor
  BY Zenon DEF ScrollDownOneLine, Grown
<1>3. A1 \in Nat
  BY <1>1, <1>2
<1>4. View(Shown', Transcript', Screen', A1, R)
  <2>1. View(Shown, Transcript, Screen, mActiveTranscriptRows, mScreenRows)'
    BY Viewed, PTL
  <2> QED BY <1>2, <2>1, Zenon DEF View
<1>5. ASSUME NEW k \in -A1 .. R - 1
      PROVE  Shown'[k] = IF k = bottom - 1 THEN Blank ELSE Shown[Before(k, top, bottom)]
  <2>1. Shown'[k] = LineAt(k)'
    BY <1>2, Zenon DEF Shown, LineAt
  <2>2. IF k = bottom - 1 THEN LineAt(k)' = Blank
        ELSE /\ Before(k, top, bottom) \in -A .. R - 1
             /\ LineAt(k)' = LineAt(Before(k, top, bottom))
    BY ScrollRows, Zenon
  <2>3. CASE k = bottom - 1
    BY <2>1, <2>2, <2>3, Zenon
  <2>4. CASE k # bottom - 1
    <3>1. /\ Before(k, top, bottom) \in -A .. R - 1
          /\ LineAt(k)' = LineAt(Before(k, top, bottom))
      BY <2>2, <2>4, Zenon
    <3>2. Shown[Before(k, top, bottom)] = LineAt(Before(k, top, bottom))
      BY <3>1, ShownAt, Zenon
    <3> QED BY <2>1, <2>4, <3>1, <3>2, Zenon
  <2> QED BY <2>3, <2>4, ZenonT(60)
<1>10. Shifted(Shown, Shown', A1, R, top, bottom)
  BY <1>5, Zenon DEF Shifted
<1> HIDE DEF A, R, A1, room
<1>6. bottom \in 1 .. R
  BY Zenon DEF R
<1>7. Transcript' = Lines!Newest(Append(Transcript, Screen[top + 1]), room)
  BY <1>1, <1>2, <1>3, <1>4, <1>6, <1>10, ScrolledTranscript, Zenon
<1>8. Screen' = MovedUp(Screen, top, bottom)
  BY <1>1, <1>3, <1>4, <1>6, <1>10, ScrolledScreen, ZenonT(60)
<1>9. room = mTotalRows - Len(Screen)
  BY <1>1, Zenon DEF View, room, R
<1> QED BY <1>2, <1>7, <1>8, <1>9, Zenon DEF Lines!ScrollUp, MovedUp, Transcript, Screen

\* Drawing one line of the screen draws no other line.
LEMMA PutDraws ==
  ASSUME IInv, IInv', ~AltScreen, NEW row \in 0 .. mScreenRows - 1, NEW l \in Line, Put(row, l)
  PROVE  row \in 0 .. Len(Screen) - 1 /\ Lines!Draw(row)
<1> DEFINE A == mActiveTranscriptRows
           R == mScreenRows
           slot == ExternalToInternalRow(row)
<1>1. /\ A \in Nat /\ R \in Nat /\ A <= mTotalRows - R
      /\ View(Shown, Transcript, Screen, A, R)
      /\ mTotalRows \in Nat \ {0} /\ mScreenFirstRow \in 0 .. mTotalRows - 1
      /\ row \in -A .. R - 1
  BY Viewed, Fields DEF IInv
<1>2. /\ mScreenRows' = R /\ mTotalRows' = mTotalRows /\ mActiveTranscriptRows' = A
      /\ mScreenFirstRow' = mScreenFirstRow
      /\ mLines' \in Allocated(mLines, {slot}) /\ text' = [text EXCEPT ![mLines'[slot]] = l]
  BY Zenon DEF Put
<1>3. View(Shown', Transcript', Screen', A, R)
  <2>1. View(Shown, Transcript, Screen, mActiveTranscriptRows, mScreenRows)'
    BY Viewed, PTL
  <2> QED BY <1>2, <2>1, Zenon DEF View
<1>9. cursor' = row
  BY Zenon DEF Put
<1>4. \A i \in Slot : mLines[i] # Null => mLines'[i] = mLines[i]
  <2>1. TypeOK /\ NoSharedRows /\ mLines \in [Slot -> Row \cup {Null}] /\ slot \in Slot
    BY <1>1, ActiveObject, Zenon DEF IInv, TypeOK
  <2> HIDE DEF slot
  <2> QED BY <1>2, <2>1, Allocation DEF NoSharedRows
<1>5. ASSUME NEW k \in -A .. R - 1
      PROVE  Shown'[k] = IF k = row THEN l ELSE Shown[k]
  <2>1. Shown'[k] = LineAt(k)' /\ Shown[k] = LineAt(k)
    BY <1>2, Zenon DEF Shown, LineAt
  <2>2. ExternalToInternalRow(k)' = ExternalToInternalRow(k)
    BY <1>2 DEF ExternalToInternalRow
  <2>3. /\ ExternalToInternalRow(k) \in Slot /\ mLines[ExternalToInternalRow(k)] \in Row
        /\ mLines[ExternalToInternalRow(k)] # Null
        /\ ExternalToInternalRow(k) = At(mScreenFirstRow, k, mTotalRows)
    BY ActiveObject, Zenon
  <2>4. /\ slot \in Slot /\ mLines[slot] \in Row /\ mLines[slot] # Null
        /\ slot = At(mScreenFirstRow, row, mTotalRows)
        /\ \A i \in Slot : mLines[i] = mLines[slot] => i = slot
    BY <1>1, ActiveObject, Zenon
  <2>5. LineAt(k)' = text'[mLines[ExternalToInternalRow(k)]]
    BY <1>4, <2>2, <2>3, Zenon DEF LineAt
  <2>6. text' = [text EXCEPT ![mLines[slot]] = l] /\ text \in [Row -> Line]
    BY <1>2, <1>4, <2>4, Zenon DEF IInv, TypeOK
  <2> HIDE DEF slot
  <2>7. CASE k = row
    BY <2>1, <2>4, <2>5, <2>6, <2>7, Zenon DEF slot
  <2>8. CASE k # row
    <3>1. At(mScreenFirstRow, k, mTotalRows) # At(mScreenFirstRow, row, mTotalRows)
      BY <1>1, <2>8 DEF At
    <3>2. mLines[ExternalToInternalRow(k)] # mLines[slot]
      BY <2>3, <2>4, <3>1, Zenon
    <3>3. text'[mLines[ExternalToInternalRow(k)]] = text[mLines[ExternalToInternalRow(k)]]
      BY <2>3, <2>6, <3>2, Zenon
    <3> QED BY <2>1, <2>5, <2>8, <3>3, Zenon DEF LineAt
  <2> QED BY <2>7, <2>8, Zenon
<1>6. /\ Transcript \in Seq(Line) /\ Len(Transcript) = A /\ Transcript' \in Seq(Line)
      /\ Len(Transcript') = A
      /\ Screen \in Seq(Line) /\ Len(Screen) = R /\ Screen' \in Seq(Line)
      /\ Len(Screen') = R
  BY <1>1, <1>3, Zenon DEF View
<1>7. Transcript' = Transcript
  <2>1. ASSUME NEW i \in 1 .. A
        PROVE  Transcript'[i] = Transcript[i]
    <3>1. i - A - 1 \in -A .. R - 1 /\ i - A - 1 # row
      BY <1>1
    <3>2. Shown'[i - A - 1] = Shown[i - A - 1]
      BY <1>5, <3>1, Zenon
    <3> QED BY <1>1, <1>3, <3>2, Zenon DEF View
  <2>2. \A i \in 1 .. Len(Transcript') : Transcript'[i] = Transcript[i]
    BY <1>6, <2>1, Zenon
  <2> QED BY <1>6, <2>2, SeqEqual, Zenon
<1>8. Screen' = [Screen EXCEPT ![row + 1] = l]
  <2> DEFINE drawn == [Screen EXCEPT ![row + 1] = l]
  <2>1. ASSUME NEW i \in 1 .. R
        PROVE  Screen'[i] = IF i = row + 1 THEN l ELSE Screen[i]
    <3>1. i - 1 \in -A .. R - 1 /\ (i - 1 = row <=> i = row + 1)
      BY <1>1
    <3>2. Shown'[i - 1] = IF i = row + 1 THEN l ELSE Shown[i - 1]
      BY <1>5, <3>1, Zenon
    <3> QED BY <1>1, <1>3, <3>2, Zenon DEF View
  <2>2. drawn \in Seq(Line) /\ Len(drawn) = R /\ \A i \in 1 .. R : drawn[i] = IF i = row + 1 THEN l ELSE Screen[i]
    BY <1>1, <1>6
  <2> HIDE DEF drawn
  <2>3. \A i \in 1 .. Len(Screen') : Screen'[i] = drawn[i]
    BY <1>6, <2>1, <2>2, Zenon
  <2>4. Screen' = drawn
    BY <1>6, <2>2, <2>3, SeqEqual, Zenon
  <2> QED BY <2>4, Zenon DEF drawn
<1> QED BY <1>2, <1>6, <1>7, <1>8, <1>9, Zenon DEF Lines!Draw, Transcript, Screen

\* clearTranscript() forgets the transcript and leaves the screen as it is.
LEMMA ClearForgets ==
  ASSUME IInv, IInv', ClearTranscript
  PROVE  Lines!Forget
<1> DEFINE A == mActiveTranscriptRows
           R == mScreenRows
<1>1. /\ A \in Nat /\ R \in Nat /\ A <= mTotalRows - R
      /\ View(Shown, Transcript, Screen, A, R)
      /\ mTotalRows \in Nat \ {0} /\ mScreenFirstRow \in 0 .. mTotalRows - 1 /\ ~AltScreen
  BY Viewed, Fields DEF IInv, ClearTranscript
<1>2. /\ mScreenRows' = R /\ mTotalRows' = mTotalRows /\ mActiveTranscriptRows' = 0
      /\ mScreenFirstRow' = mScreenFirstRow
      /\ mLines' = [i \in Slot |-> IF i \in TranscriptSlots THEN Null ELSE mLines[i]]
      /\ text' = Cleared(text, mLines, TranscriptSlots) /\ cursor' = cursor
  BY Zenon DEF ClearTranscript
<1>3. View(Shown', Transcript', Screen', 0, R)
  <2>1. View(Shown, Transcript, Screen, mActiveTranscriptRows, mScreenRows)'
    BY Viewed, PTL
  <2> QED BY <1>2, <2>1, Zenon DEF View
<1>4. ASSUME NEW k \in 0 .. R - 1
      PROVE  Shown'[k] = Shown[k]
  <2> DEFINE slot == ExternalToInternalRow(k)
  <2>1. k \in -A .. R - 1 /\ k \in -0 .. R - 1
    BY <1>1
  <2>2. Shown'[k] = LineAt(k)' /\ Shown[k] = LineAt(k)
    BY <1>2, <2>1, Zenon DEF Shown, LineAt
  <2>3. ExternalToInternalRow(k)' = slot
    BY <1>2 DEF ExternalToInternalRow
  <2>4. /\ slot \in Slot /\ mLines[slot] \in Row
        /\ slot = At(mScreenFirstRow, k, mTotalRows)
        /\ \A i \in Slot : mLines[i] = mLines[slot] => i = slot
    BY <1>1, <2>1, ActiveObject, Zenon
  <2>5. slot \notin TranscriptSlots /\ TranscriptSlots \subseteq Slot
    <3>1. At(mScreenFirstRow, k, mTotalRows) \notin TranscriptSlots
      BY <1>1 DEF At, TranscriptSlots
    <3>2. TranscriptSlots \subseteq Slot
      BY <1>1, Fields, TotalRowsAssumption DEF IInv, TranscriptSlots, Slot
    <3> QED BY <2>4, <3>1, <3>2, Zenon
  <2> HIDE DEF slot
  <2>6. mLines'[slot] = mLines[slot]
    BY <1>2, <2>4, <2>5, Zenon
  <2>7. text'[mLines[slot]] = text[mLines[slot]]
    BY <1>2, <2>4, <2>5, Zenon DEF Cleared
  <2> QED BY <2>2, <2>3, <2>6, <2>7, Zenon DEF LineAt, slot
<1>5. /\ Screen \in Seq(Line) /\ Len(Screen) = R /\ Screen' \in Seq(Line)
      /\ Len(Screen') = R
      /\ Transcript' \in Seq(Line) /\ Len(Transcript') = 0
  BY <1>1, <1>3, Zenon DEF View
<1>6. Transcript' = <<>>
  BY <1>5
<1>7. Screen' = Screen
  <2>1. ASSUME NEW i \in 1 .. R
        PROVE  Screen'[i] = Screen[i]
    <3>1. i - 1 \in 0 .. R - 1
      BY <1>1
    <3> QED BY <1>1, <1>3, <1>4, <3>1, Zenon DEF View
  <2>2. \A i \in 1 .. Len(Screen') : Screen'[i] = Screen[i]
    BY <1>5, <2>1, Zenon
  <2> QED BY <1>5, <2>2, SeqEqual, Zenon
<1> QED BY <1>2, <1>6, <1>7, Zenon DEF Lines!Forget, Transcript, Screen

\* A new buffer shows a blank screen and no transcript.
LEMMA InitBlank == Init => Lines!SInit
<1> SUFFICES ASSUME Init
             PROVE  Lines!SInit
  OBVIOUS
<1>1. IInv /\ TypeOK
  BY InitIInv DEF IInv
<1>2. /\ mActiveTranscriptRows = 0 /\ text = [r \in Row |-> Blank] /\ cursor = 0
  BY Zenon DEF Init
<1>3. View(Shown, Transcript, Screen, 0, mScreenRows)
  BY <1>1, <1>2, Viewed, Zenon
<1>4. mScreenRows \in Nat /\ mTotalRows \in Nat /\ mScreenRows <= mTotalRows
  BY <1>1, Fields
<1>5. /\ Transcript \in Seq(Line) /\ Len(Transcript) = 0
      /\ Screen \in Seq(Line) /\ Len(Screen) = mScreenRows
      /\ \A i \in 1 .. mScreenRows : Screen[i] = Shown[i - 1]
  BY <1>3, Zenon DEF View
<1>6. Transcript = <<>>
  BY <1>5
<1>7. ASSUME NEW i \in 1 .. Len(Screen)
      PROVE  Screen[i] = Blank
  <2>1. i \in 1 .. mScreenRows /\ i - 1 \in -0 .. mScreenRows - 1
    BY <1>4, <1>5
  <2> DEFINE k == i - 1
  <2>2. /\ k \in -mActiveTranscriptRows .. mScreenRows - 1
        /\ k \in -mActiveTranscriptRows .. mScreenRows
    BY <1>2, <1>4, <2>1
  <2> HIDE DEF k
  <2>3. Shown[k] = LineAt(k)
    BY <2>2, ShownAt, Zenon
  <2>4. ExternalToInternalRow(k) \in Slot /\ mLines[ExternalToInternalRow(k)] # Null
    BY <1>1, <2>2, ActiveSlot, Zenon DEF IInv, ActiveRowsAllocated
  <2>5. mLines[ExternalToInternalRow(k)] \in Row
    BY <1>1, <2>4, Zenon DEF TypeOK
  <2>6. LineAt(k) = Blank
    BY <1>2, <2>5, Zenon DEF LineAt
  <2> QED BY <1>5, <2>1, <2>3, <2>6, Zenon DEF k
<1>8. mTotalRows >= Len(Screen)
  BY <1>4, <1>5
<1> QED BY <1>2, <1>4, <1>5, <1>6, <1>7, <1>8, Zenon DEF Lines!SInit, Transcript, Screen

\* Every step of the main buffer is a step of the plain list of lines or leaves
\* what it shows as it is.
LEMMA NextImplements ==
  ASSUME IInv, IInv', ~AltScreen, [Next]_vars
  PROVE  [Lines!SNext]_(Lines!svars)
<1>1. Len(Screen) = mScreenRows /\ mScreenRows \in Nat
  BY Viewed, Fields, Zenon DEF View, IInv
<1>2. ASSUME UNCHANGED <<mLines, text, mTotalRows, mScreenRows, mScreenFirstRow,
                         mActiveTranscriptRows, cursor>>
      PROVE  UNCHANGED Lines!svars
  BY <1>2 DEF Lines!svars, Contents, ExternalToInternalRow
<1>3. ASSUME NEW row \in 0 .. mScreenRows - 1, LineWrap(row)
      PROVE  UNCHANGED Lines!svars
  BY <1>2, <1>3, Zenon DEF LineWrap
<1>4. ASSUME NEW row \in 0 .. mScreenRows - 1, NEW l \in Line, Put(row, l)
      PROVE  Lines!SNext
  BY <1>4, PutDraws, Zenon DEF Lines!SNext, Screen
<1>5. ASSUME NEW bottom \in 1 .. mScreenRows, NEW top \in 0 .. bottom - 1,
             ScrollDownOneLine(top, bottom)
      PROVE  Lines!SNext
  BY <1>1, <1>5, ScrollScrolls, Zenon DEF Lines!SNext, Screen
<1>6. ASSUME NEW rows \in Heights, Resize(rows)
      PROVE  Lines!SNext
  <2>1. rows < mScreenRows \/ rows > mScreenRows
    BY <1>1, <1>6, HeightsAssumption, TotalRowsAssumption DEF Resize
  <2>2. CASE rows < mScreenRows
    BY <1>6, <2>2, ResizeShrinks, Zenon DEF Lines!SNext, Screen
  <2>3. CASE rows > mScreenRows
    BY <1>6, <2>3, ResizeGrows, Zenon DEF Lines!SNext, Screen
  <2> QED BY <2>1, <2>2, <2>3, Zenon
<1>7. ASSUME ClearTranscript
      PROVE  Lines!SNext
  BY <1>7, ClearForgets, Zenon DEF Lines!SNext
<1> QED BY <1>2, <1>3, <1>4, <1>5, <1>6, <1>7, Zenon DEF Next, vars

\* The main buffer of TerminalBuffer.java, for every size of its circular array,
\* shows what a plain list of lines would, with the cursor on the same line: no
\* operation loses, repeats or reorders a line that the list would not.
THEOREM Implements ==
  ASSUME ~AltScreen
  PROVE  Spec => ImplementsScrollback
<1>1. Init => Lines!SInit
  BY InitBlank
<1>2. IInv /\ IInv' /\ [Next]_vars => [Lines!SNext]_(Lines!svars)
  BY NextImplements
<1> QED BY <1>1, <1>2, Invariance, PTL DEF Spec, ImplementsScrollback, Lines!SSpec
=============================================================================

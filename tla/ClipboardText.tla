--------------------------- MODULE ClipboardText ---------------------------
(***************************************************************************)
(* The text conversions of clipboard.c.  A text is a sequence of code      *)
(* points; the C strings are sequences of bytes without the final NUL.     *)
(***************************************************************************)
EXTENDS Naturals, Sequences

CR == 13
Replacement == 65533        \* 0xfffd

\* pieces written one after the other
Written(pieces) ==
    LET upTo[i \in 1..Len(pieces)] ==
            IF i = 1 THEN pieces[i] ELSE upTo[i - 1] \o pieces[i]
    IN  IF pieces = <<>> THEN <<>> ELSE upTo[Len(pieces)]

lorieConvertLF(bytes) ==
    Written([i \in 1..Len(bytes) |->
        IF bytes[i] = CR THEN <<>> ELSE <<bytes[i]>>])

\* the bytes written for one of Latin-1
TwoBytes(b) ==
    IF b < 128 THEN <<b>>
    ELSE <<194 + (IF b > 191 THEN 1 ELSE 0), (b % 64) + 128>>

lorieLatin1ToUTF8(bytes) ==
    Written([i \in 1..Len(bytes) |-> TwoBytes(bytes[i])])

\* (b & 0xc0) == 0x80, for the byte at i, or for what is after the text
Continues(bytes, i) == i <= Len(bytes) /\ bytes[i] \div 64 = 2

(***************************************************************************)
(* lorieCheckUTF8(): the masks 0x80, 0xe0, 0xf0 and 0xf8 are tested in     *)
(* this order, so that any byte from 0x80 to 0xdf starts two bytes.  The   *)
(* bytes after the text are not the text's: "past" are the distances from  *)
(* its end at which they look like the rest of a sequence.                 *)
(***************************************************************************)
CodeLength(c) ==
    CASE c < 128 -> 1
      [] 128 <= c /\ c < 224 -> 2
      [] 224 <= c /\ c < 240 -> 3
      [] OTHER -> 4

lorieCheckUTF8(bytes, past) ==
    LET Ok[i \in 1..(Len(bytes) + 4)] ==
            \/ i > Len(bytes)
            \/ /\ bytes[i] < 248
               /\ \A k \in 1..(CodeLength(bytes[i]) - 1) :
                      Continues(bytes, i + k) \/ (i + k) - Len(bytes) \in past
               /\ Ok[i + CodeLength(bytes[i])]
    IN  Ok[1]

LeastOf(S) == CHOOSE k \in S : \A l \in S : k <= l
IsSurrogate(c) == 55296 <= c /\ c <= 57343                \* 0xd800 to 0xdfff

(***************************************************************************)
(* lorieUtf8ToUCS4(): the code point at i, and how many bytes it takes.    *)
(* The byte that cuts a sequence short is taken with it.                   *)
(***************************************************************************)
lorieUtf8ToUCS4(bytes, i) ==
    LET c == bytes[i]
        count == CASE c < 128 -> 0
                   [] 192 <= c /\ c < 224 -> 1
                   [] 224 <= c /\ c < 240 -> 2
                   [] 240 <= c /\ c < 248 -> 3
                   [] OTHER -> 4                                  \* invalid
        lead == CASE count = 0 -> c
                  [] count = 1 -> c % 32
                  [] count = 2 -> c % 16
                  [] OTHER -> c % 8
        short == {k \in 1..count : ~Continues(bytes, i + k)}
        ends == {k \in 1..(Len(bytes) - i + 1) : ~Continues(bytes, i + k)}
        low(k) == bytes[i + k] % 64
        value == CASE count = 0 -> lead
                   [] count = 1 -> lead * 64 + low(1)
                   [] count = 2 -> (lead * 64 + low(1)) * 64 + low(2)
                   [] OTHER -> ((lead * 64 + low(1)) * 64 + low(2)) * 64 + low(3)
    IN  CASE count = 4 -> [ucs |-> Replacement, consumed |-> LeastOf(ends)]
          [] count < 4 /\ short # {} ->
                 [ucs |-> Replacement, consumed |-> LeastOf(short) + 1]
          [] OTHER -> [ucs |-> IF IsSurrogate(value)
                               THEN Replacement ELSE value,
                       consumed |-> count + 1]

\* lorieUtf8ToLatin1(): what Latin-1 does not have becomes a question mark
lorieUtf8ToLatin1(bytes) ==
    LET From[i \in 1..(Len(bytes) + 4)] ==
            IF i > Len(bytes) THEN <<>>
            ELSE LET u == lorieUtf8ToUCS4(bytes, i)
                 IN  <<IF u.ucs > 255 THEN 63 ELSE u.ucs>>
                         \o From[i + u.consumed]
    IN  From[1]

-----------------------------------------------------------------------------
(***************************************************************************)
(* What the texts are compared with: UTF-8 and Latin-1 as they are         *)
(* defined.  The activity encodes its strings with String.getBytes(UTF_8). *)
(***************************************************************************)
CodePoint == {c \in Nat : 0 < c /\ c < 1114112 /\ ~IsSurrogate(c)}
Code(c) ==
    LET cont(n) == ((c \div n) % 64) + 128
    IN  CASE c < 128 -> <<c>>
          [] 128 <= c /\ c < 2048 -> <<(c \div 64) + 192, cont(1)>>
          [] 2048 <= c /\ c < 65536 ->
                 <<(c \div 4096) + 224, cont(64), cont(1)>>
          [] OTHER -> <<(c \div 262144) + 240, cont(4096), cont(64), cont(1)>>
UTF8(text) == Written([i \in 1..Len(text) |-> Code(text[i])])

Latin1(text) == [i \in 1..Len(text) |-> IF text[i] > 255 THEN 63 ELSE text[i]]
IsLatin1(text) == \A i \in 1..Len(text) : text[i] < 256
=============================================================================

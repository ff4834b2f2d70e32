-------------------------- MODULE ClipboardProofs --------------------------
(***************************************************************************)
(* Proofs about the clipboard, for any clients, texts and bounds: the      *)
(* conversions of clipboard.c are right on every text, and the clipboard   *)
(* shared with Android keeps what Clipboard states.                        *)
(***************************************************************************)
EXTENDS Clipboard, WellFoundedInduction, TLAPS

USE Zenon

-----------------------------------------------------------------------------
(***************************************************************************)
(* Induction, and recursion by position: what lorieUtf8ToLatin1(),         *)
(* lorieCheckUTF8() and Written() compute is the solution of an equation   *)
(* that every longer input extends.                                        *)
(***************************************************************************)

\* The elements of a sequence.
LEMMA ElementOfSeq ==
  ASSUME NEW S, NEW s \in Seq(S), NEW n \in 1..Len(s)
  PROVE  s[n] \in S
BY SMT

\* The length of a sequence, and its domain.
LEMMA LenProperties ==
  ASSUME NEW S, NEW s \in Seq(S)
  PROVE  Len(s) \in Nat /\ DOMAIN s = 1..Len(s)
BY SMT

\* Nothing put before or after a sequence.
LEMMA ConcatEmptySeq ==
  ASSUME NEW S, NEW s \in Seq(S)
  PROVE  s \o <<>> = s /\ <<>> \o s = s
BY SMT

\* One more element is a sequence of one put after it.
LEMMA AppendIsConcat ==
  ASSUME NEW S, NEW s \in Seq(S), NEW e \in S
  PROVE  Append(s, e) = s \o <<e>>
BY SMT

\* Sequences are the same when their elements are.
LEMMA SeqEqual ==
  ASSUME NEW S, NEW s \in Seq(S), NEW t \in Seq(S), Len(s) = Len(t),
         \A i \in 1..Len(s) : s[i] = t[i]
  PROVE  s = t
BY SMT

\* A function on 1..n is a sequence of length n.
LEMMA FunctionIsSeq ==
  ASSUME NEW S, NEW n \in Nat, NEW r \in [1..n -> S]
  PROVE  r \in Seq(S) /\ Len(r) = n
<1>1. r \in Seq(S)
  BY SMT
<1>2. DOMAIN r = 1..n /\ DOMAIN r = 1..Len(r) /\ Len(r) \in Nat
  BY <1>1, LenProperties, SMT
<1> QED BY <1>1, <1>2, SMT

\* A sequence that is not empty has a last element.
LEMMA LastOfSeq ==
  ASSUME NEW S, NEW s \in Seq(S), s # <<>>
  PROVE  \E r \in Seq(S), e \in S : s = Append(r, e)
<1> DEFINE n == Len(s) - 1
           r == [i \in 1..n |-> s[i]]
           e == s[n + 1]
<1>1. n \in Nat /\ n + 1 = Len(s) /\ e \in S /\ \A i \in 1..n : s[i] \in S
  BY SMT
<1>2. r \in [1..n -> S]
  BY <1>1
<1>3. r \in Seq(S) /\ Len(r) = n
  <2> HIDE DEF r, n
  <2> QED BY <1>1, <1>2, FunctionIsSeq
<1>4. \A i \in 1..n : r[i] = s[i]
  OBVIOUS
<1> HIDE DEF r, n
<1>5. s = Append(r, e)
  BY <1>1, <1>3, <1>4, SMT
<1> QED BY <1>1, <1>3, <1>5

\* A set of naturals that is not empty has a least member.
LEMMA Least ==
  ASSUME NEW T \in SUBSET Nat, T # {}
  PROVE  \E x \in T : \A y \in T : x <= y
<1> DEFINE R == {p \in Nat \X Nat : p[1] < p[2]}
<1>1. IsWellFoundedOn(OpToRel(<, Nat), Nat)
  BY NatLessThanWellFounded
<1>2. OpToRel(<, Nat) = R
  BY SMT DEF OpToRel
<1>3. IsWellFoundedOn(R, Nat)
  BY <1>1, <1>2
<1> HIDE DEF R
<1>4. PICK x \in T : \A y \in T : ~(<<y, x>> \in R)
  BY <1>3, WFMin
<1>5. ASSUME NEW y \in T  PROVE x <= y
  <2>1. <<y, x>> \in Nat \X Nat /\ <<y, x>>[1] = y /\ <<y, x>>[2] = x
    BY SMT
  <2>2. ~(y < x)
    BY <1>4, <2>1, SMT DEF R
  <2>3. QED
    BY <2>2, SMT
<1>6. QED
  BY <1>5, SMT

\* Induction over the naturals, for the set of those of which something holds.
LEMMA SetInduction ==
  ASSUME NEW S \in SUBSET Nat, 0 \in S, \A n \in Nat : n \in S => n + 1 \in S
  PROVE  S = Nat
<1>1. SUFFICES ASSUME Nat \ S # {} PROVE FALSE
  OBVIOUS
<1>2. PICK x \in Nat \ S : \A y \in Nat \ S : x <= y
  BY <1>1, Least
<1>3. x # 0 /\ x - 1 \in Nat /\ ~(x <= x - 1)
  BY <1>2, SMT
<1>4. x - 1 \in S
  BY <1>2, <1>3, SMT
<1>5. (x - 1) + 1 \in S
  BY <1>3, <1>4, SMT
<1>6. QED
  BY <1>5, SMT

Climbs(f, N, a, h) == \A i \in 1..N : f[i] = IF i = 1 THEN a ELSE h[i][f[i - 1]]
Descends(f, N, L, a, next, h) ==
    \A i \in 1..N : f[i] = IF i > L THEN a ELSE h[i][f[next[i]]]

\* recursion downwards from L
LEMMA RecursionDown ==
  ASSUME NEW S, NEW L \in Nat, NEW N \in Nat, L < N, NEW a \in S,
         NEW next \in [1..L -> 1..N], \A i \in 1..L : i < next[i],
         NEW h \in [1..L -> [S -> S]]
  PROVE  \E f \in [1..N -> S] : Descends(f, N, L, a, next, h)
<1> DEFINE Good(f, n) == \A i \in 1..N :
                 i > L - n => f[i] = IF i > L THEN a ELSE h[i][f[next[i]]]
           P == {n \in Nat : n <= L => \E f \in [1..N -> S] : Good(f, n)}
<1>1. 0 \in P
  <2>1. [i \in 1..N |-> a] \in [1..N -> S] /\ Good([i \in 1..N |-> a], 0)
    BY SMT
  <2> QED BY <2>1
<1>2. ASSUME NEW n \in Nat, n \in P
      PROVE  n + 1 \in P
  <2> SUFFICES ASSUME n + 1 <= L
               PROVE  \E f \in [1..N -> S] : Good(f, n + 1)
    BY SMT
  <2>1. PICK f \in [1..N -> S] : Good(f, n)
    BY <1>2, SMT
  <2> DEFINE k == L - n
             g == [f EXCEPT ![k] = h[k][f[next[k]]]]
  <2>2. k \in 1..L /\ k \in 1..N /\ k \in Nat /\ next[k] \in 1..N /\ k < next[k]
    BY SMT
  <2>3. h[k][f[next[k]]] \in S
    BY <2>2, SMT
  <2>4. g \in [1..N -> S] /\ g[k] = h[k][f[next[k]]] /\ \A i \in 1..N : i # k => g[i] = f[i]
    BY <2>2, <2>3, SMT
  <2> HIDE DEF g, k
  <2>5. ASSUME NEW i \in 1..N, i > L - (n + 1)
        PROVE  g[i] = IF i > L THEN a ELSE h[i][g[next[i]]]
    <3>1. CASE i = k
      <4>1. next[k] # k /\ ~(k > L)
        BY <2>2, SMT
      <4> QED BY <2>2, <2>4, <3>1, <4>1, SMT
    <3>2. CASE i # k
      <4>1. i > L - n
        BY <2>2, <2>5, <3>2, SMT DEF k
      <4>2. i <= L => next[i] # k /\ next[i] \in 1..N
        BY <4>1, <2>2, SMT DEF k
      <4> QED BY <2>1, <2>4, <3>2, <4>1, <4>2, SMT
    <3> QED BY <3>1, <3>2, SMT
  <2> QED BY <2>4, <2>5, SMT
<1>3. L \in P
  <2> HIDE DEF P
  <2>1. P \in SUBSET Nat
    BY SMT DEF P
  <2> QED BY <1>1, <1>2, <2>1, SetInduction
<1>4. PICK f \in [1..N -> S] : Good(f, L)
  BY <1>3, SMT
<1>5. \A i \in 1..N : i > L - L
  BY SMT
<1> QED BY <1>4, <1>5, SMT DEF Descends

\* recursion upwards from 1
LEMMA RecursionUp ==
  ASSUME NEW S, NEW N \in Nat, NEW a \in S, NEW h \in [1..N -> [S -> S]]
  PROVE  \E f \in [1..N -> S] : Climbs(f, N, a, h)
<1> DEFINE Good(f, n) == \A i \in 1..N :
                 i <= n => f[i] = IF i = 1 THEN a ELSE h[i][f[i - 1]]
           P == {n \in Nat : \E f \in [1..N -> S] : Good(f, n)}
<1>1. 0 \in P
  <2>1. [i \in 1..N |-> a] \in [1..N -> S] /\ Good([i \in 1..N |-> a], 0)
    BY SMT
  <2> QED BY <2>1, SMT
<1>2. ASSUME NEW n \in Nat, n \in P
      PROVE  n + 1 \in P
  <2>1. PICK f \in [1..N -> S] : Good(f, n)
    BY <1>2, SMT
  <2> DEFINE k == n + 1
             v == IF k = 1 THEN a ELSE h[k][f[k - 1]]
             g == [f EXCEPT ![k] = v]
  <2>2. k \in Nat /\ (k \in 1..N => k = 1 \/ k - 1 \in 1..N) /\ k - 1 # k
    BY SMT
  <2>3. k \in 1..N => v \in S
    BY <2>2, SMT
  <2>4. g \in [1..N -> S] /\ (k \in 1..N => g[k] = v) /\ \A i \in 1..N : i # k => g[i] = f[i]
    BY <2>3
  <2> HIDE DEF g
  <2>5. ASSUME NEW i \in 1..N, i <= n + 1
        PROVE  g[i] = IF i = 1 THEN a ELSE h[i][g[i - 1]]
    <3>1. CASE i = k
      <4>1. k # 1 => g[k - 1] = f[k - 1]
        BY <2>2, <2>4, <3>1, SMT
      <4> QED BY <2>4, <3>1, <4>1, SMT
    <3>2. CASE i # k
      <4>1. i <= n /\ i - 1 # k /\ (i # 1 => i - 1 \in 1..N)
        BY <2>5, <3>2, SMT
      <4> QED BY <2>1, <2>4, <3>2, <4>1, SMT
    <3> QED BY <3>1, <3>2, SMT
  <2> QED BY <2>4, <2>5, SMT
<1>3. N \in P
  <2> HIDE DEF P
  <2>1. P \in SUBSET Nat
    BY SMT DEF P
  <2> QED BY <1>1, <1>2, <2>1, SetInduction
<1>4. PICK f \in [1..N -> S] : Good(f, N)
  BY <1>3, SMT
<1> QED BY <1>4, SMT DEF Climbs

\* induction over sequences, from their ends
LEMMA SeqInduction ==
  ASSUME NEW S, NEW P \in SUBSET Seq(S), <<>> \in P,
         \A s \in P, e \in S : Append(s, e) \in P
  PROVE  P = Seq(S)
<1> DEFINE M == {n \in Nat : \A s \in Seq(S) : Len(s) = n => s \in P}
<1>1. 0 \in M
  <2>1. \A s \in Seq(S) : Len(s) = 0 => s = <<>>
    BY SMT
  <2> QED BY <2>1, SMT
<1>2. ASSUME NEW n \in Nat, n \in M
      PROVE  n + 1 \in M
  <2> SUFFICES ASSUME NEW s \in Seq(S), Len(s) = n + 1
               PROVE  s \in P
    BY SMT
  <2>1. s # <<>>
    BY SMT
  <2>2. PICK r \in Seq(S), e \in S : s = Append(r, e)
    BY <2>1, LastOfSeq
  <2>3. Len(r) = n
    BY <2>2, SMT
  <2>4. r \in P
    BY <1>2, <2>3
  <2> QED BY <2>2, <2>4
<1>3. M = Nat
  <2> HIDE DEF M
  <2>1. M \in SUBSET Nat
    BY SMT DEF M
  <2> QED BY <1>1, <1>2, <2>1, SetInduction
<1>4. ASSUME NEW s \in Seq(S)
      PROVE  s \in P
  <2>1. Len(s) \in M
    BY <1>3, SMT
  <2> QED BY <2>1, SMT
<1> QED BY <1>4

Joins(f, q) == \A i \in 1..Len(q) : f[i] = IF i = 1 THEN q[1] ELSE f[i - 1] \o q[i]

\* Written() joins its parts one after the other.
LEMMA WrittenDef ==
  ASSUME NEW S, NEW q \in Seq(Seq(S)), q # <<>>
  PROVE  \E f \in [1..Len(q) -> Seq(S)] :
            Written(q) = f[Len(q)] /\ Joins(f, q)
<1> DEFINE N == Len(q)
           F == CHOOSE f : f = [i \in 1..N |-> IF i = 1 THEN q[i] ELSE f[i - 1] \o q[i]]
           h == [i \in 1..N |-> [s \in Seq(S) |-> s \o q[i]]]
<1>1. N \in Nat /\ N # 0 /\ q[1] \in Seq(S) /\ \A i \in 1..N : q[i] \in Seq(S)
  BY SMT
<1>2. Written(q) = F[N]
  BY <1>1 DEF Written
<1>3. h \in [1..N -> [Seq(S) -> Seq(S)]]
  BY <1>1, SMT
<1>4. PICK f \in [1..N -> Seq(S)] :
        \A i \in 1..N : f[i] = IF i = 1 THEN q[1] ELSE h[i][f[i - 1]]
  <2> DEFINE T == Seq(S)
             a == q[1]
  <2>1. N \in Nat /\ a \in T /\ h \in [1..N -> [T -> T]]
    BY <1>1, <1>3
  <2> HIDE DEF h, N, T, a
  <2>2. \E f \in [1..N -> T] : Climbs(f, N, a, h)
    BY <2>1, RecursionUp
  <2> QED BY <2>2 DEF a, T, Climbs
<1>5. \A i \in 1..N : f[i] = IF i = 1 THEN q[i] ELSE f[i - 1] \o q[i]
  <2>1. \A i \in 1..N : i # 1 => i - 1 \in 1..N
    BY <1>1, SMT
  <2> QED BY <1>4, <2>1
<1>6. f = [i \in 1..N |-> IF i = 1 THEN q[i] ELSE f[i - 1] \o q[i]]
  BY <1>5
<1>7. F = [i \in 1..N |-> IF i = 1 THEN q[i] ELSE F[i - 1] \o q[i]]
  BY <1>6
<1> HIDE DEF F
<1>8. ASSUME NEW i \in 1..N
      PROVE  F[i] = f[i]
  <2> DEFINE M == {n \in Nat : n + 1 \in 1..N => F[n + 1] = f[n + 1]}
  <2>1. 0 \in M
    <3>1. 0 + 1 = 1
      BY SMT
    <3>2. 1 \in 1..N => F[1] = f[1]
      BY <1>5, <1>7
    <3> QED BY <3>1, <3>2, SMT
  <2>2. ASSUME NEW n \in Nat, n \in M
        PROVE  n + 1 \in M
    <3> SUFFICES ASSUME n + 2 \in 1..N
                 PROVE  F[n + 2] = f[n + 2]
      BY SMT
    <3>1. F[n + 1] = f[n + 1]
      BY <1>1, <2>2, SMT
    <3>2. F[n + 2] = F[n + 1] \o q[n + 2] /\ f[n + 2] = f[n + 1] \o q[n + 2]
      <4>1. n + 2 # 1 /\ (n + 2) - 1 = n + 1
        BY SMT
      <4> QED BY <1>5, <1>7, <4>1, ZenonT(60)
    <3> QED BY <3>1, <3>2, SMT
  <2>3. M = Nat
    <3> HIDE DEF M
    <3>1. M \in SUBSET Nat
      BY SMT DEF M
    <3> QED BY <2>1, <2>2, <3>1, SetInduction
  <2>4. i - 1 \in Nat /\ (i - 1) + 1 = i
    BY <1>1, SMT
  <2>5. i - 1 \in M
    BY <2>3, <2>4
  <2> QED BY <2>4, <2>5, SMT
<1>9. Written(q) = f[N]
  <2>1. N \in 1..N
    BY <1>1, SMT
  <2> QED BY <1>2, <1>8, <2>1
<1>10. Joins(f, q)
  BY <1>5 DEF Joins
<1> QED BY <1>9, <1>10

Pieces(p, A, S) == p \in [A -> Seq(S)]
Spell(p, t) == Written([i \in 1..Len(t) |-> p[t[i]]])

\* The empty text is spelled by nothing.
LEMMA SpellNil == ASSUME NEW p PROVE Spell(p, <<>>) = <<>>
<1> DEFINE q == [i \in 1..Len(<<>>) |-> p[<<>>[i]]]
<1>1. q = <<>> /\ Len(q) = 0
  BY SMT
<1> HIDE DEF q
<1>2. Written(q) = <<>>
  BY <1>1 DEF Written
<1> QED BY <1>1, <1>2 DEF Spell, q

\* One more letter puts its piece at the end.
LEMMA SpellAppend ==
  ASSUME NEW S, NEW A, NEW p, Pieces(p, A, S), NEW t \in Seq(A), NEW c \in A
  PROVE  /\ Spell(p, t) \in Seq(S)
         /\ Spell(p, Append(t, c)) = Spell(p, t) \o p[c]
<1> DEFINE n == Len(t)
           u == Append(t, c)
           q == [i \in 1..n |-> p[t[i]]]
           r == [i \in 1..Len(u) |-> p[u[i]]]
<1>0. p \in [A -> Seq(S)]
  BY DEF Pieces
<1>1. /\ n \in Nat /\ u \in Seq(A) /\ Len(u) = n + 1 /\ u[n + 1] = c
      /\ \A i \in 1..n : u[i] = t[i] /\ t[i] \in A
  BY SMT
<1>2. q \in Seq(Seq(S)) /\ Len(q) = n /\ \A i \in 1..n : q[i] = p[t[i]]
  BY <1>0, <1>1, SMT
<1>3. r \in Seq(Seq(S)) /\ Len(r) = n + 1 /\ \A i \in 1..(n + 1) : r[i] = p[u[i]]
  <2>1. \A i \in 1..(n + 1) : p[u[i]] \in Seq(S)
    BY <1>0, <1>1, SMT
  <2>2. r \in [1..(n + 1) -> Seq(S)] /\ \A i \in 1..(n + 1) : r[i] = p[u[i]]
    BY <1>1, <2>1
  <2>3. n + 1 \in Nat
    BY <1>1, SMT
  <2> HIDE DEF n, r
  <2> QED BY <2>2, <2>3, FunctionIsSeq
<1>4. Spell(p, t) = Written(q) /\ Spell(p, u) = Written(r) /\ p[c] \in Seq(S)
  BY <1>0 DEF Spell
<1> HIDE DEF n, u, q, r
<1>5. r # <<>>
  BY <1>1, <1>3, SMT
<1>6. PICK g \in [1..Len(r) -> Seq(S)] :
        Written(r) = g[Len(r)] /\ Joins(g, r)
  BY <1>3, <1>5, WrittenDef
<1>7. CASE n = 0
  <2>1. Spell(p, t) = <<>>
    <3>1. t = <<>>
      BY <1>7, SMT DEF n
    <3> QED BY <3>1, SpellNil
  <2>2. Spell(p, u) = p[c]
    <3>1. Len(r) = 1 /\ 1 \in 1..Len(r) /\ 1 \in 1..(n + 1) /\ u[1] = c
      BY <1>1, <1>3, <1>7, SMT
    <3> QED BY <1>3, <1>4, <1>6, <3>1 DEF Joins
  <2>3. <<>> \in Seq(S) /\ <<>> \o p[c] = p[c]
    BY <1>4, ConcatEmptySeq, SMT
  <2> QED BY <2>1, <2>2, <2>3 DEF u
<1>8. CASE n # 0
  <2>1. q # <<>>
    BY <1>1, <1>2, <1>8, SMT
  <2>2. PICK f \in [1..Len(q) -> Seq(S)] :
          Written(q) = f[Len(q)] /\ Joins(f, q)
    BY <1>2, <2>1, WrittenDef
  <2> DEFINE M == {k \in Nat : k + 1 \in 1..n => g[k + 1] = f[k + 1]}
  <2>3. ASSUME NEW i \in 1..n
        PROVE  q[i] = r[i] /\ i \in 1..(n + 1)
    <3>1. i \in 1..(n + 1)
      BY <1>1, SMT
    <3>2. q[i] = p[t[i]] /\ r[i] = p[u[i]] /\ u[i] = t[i]
      BY <1>1, <1>2, <1>3, <3>1
    <3> QED BY <3>1, <3>2
  <2>4. 0 \in M
    <3>1. 1 \in 1..n /\ 1 \in 1..(n + 1) /\ 0 + 1 = 1
      BY <1>1, <1>8, SMT
    <3>2. f[1] = q[1] /\ g[1] = r[1]
      BY <1>2, <1>3, <1>6, <2>2, <3>1 DEF Joins
    <3> QED BY <2>3, <3>1, <3>2, SMT
  <2>5. ASSUME NEW k \in Nat, k \in M
        PROVE  k + 1 \in M
    <3> SUFFICES ASSUME k + 2 \in 1..n
                 PROVE  g[k + 2] = f[k + 2]
      BY SMT
    <3>1. k + 1 \in 1..n /\ k + 2 # 1 /\ (k + 2) - 1 = k + 1 /\ k + 2 \in 1..(n + 1)
      BY <1>1, SMT
    <3>2. g[k + 1] = f[k + 1]
      BY <2>5, <3>1, SMT
    <3>3. f[k + 2] = f[k + 1] \o q[k + 2] /\ g[k + 2] = g[k + 1] \o r[k + 2]
      BY <1>2, <1>3, <1>6, <2>2, <3>1 DEF Joins
    <3>4. q[k + 2] = r[k + 2]
      BY <2>3
    <3> QED BY <3>2, <3>3, <3>4
  <2>6. M = Nat
    <3> HIDE DEF M
    <3>1. M \in SUBSET Nat
      BY SMT DEF M
    <3> QED BY <2>4, <2>5, <3>1, SetInduction
  <2>7. n - 1 \in Nat /\ (n - 1) + 1 = n /\ n \in 1..n /\ n + 1 \in 1..(n + 1) /\ n + 1 # 1
        /\ (n + 1) - 1 = n
    BY <1>1, <1>8, SMT
  <2>8. g[n] = f[n]
    <3>1. n - 1 \in M
      BY <2>6, <2>7
    <3> QED BY <2>7, <3>1, SMT
  <2>9. Written(q) = f[n] /\ f[n] \in Seq(S)
    BY <1>2, <2>2, <2>7
  <2>10. Written(r) = g[n] \o r[n + 1] /\ r[n + 1] = p[c]
    BY <1>1, <1>3, <1>6, <2>7 DEF Joins
  <2> QED BY <1>4, <2>8, <2>9, <2>10 DEF u
<1> QED BY <1>7, <1>8

-----------------------------------------------------------------------------
(***************************************************************************)
(* The conversions of texts.                                               *)
(***************************************************************************)

\* The four lengths of a code point in UTF-8, and their bytes.
LEMMA CodeCases ==
  ASSUME NEW c \in CodePoint
  PROVE  /\ c \in Nat /\ ~IsSurrogate(c)
         /\ \/ 0 < c /\ c < 128 /\ Code(c) = <<c>>
            \/ /\ 128 <= c /\ c < 2048
               /\ Code(c) = <<(c \div 64) + 192, (c % 64) + 128>>
            \/ /\ 2048 <= c /\ c < 65536
               /\ Code(c) = <<(c \div 4096) + 224, ((c \div 64) % 64) + 128, (c % 64) + 128>>
            \/ /\ 65536 <= c /\ c < 1114112
               /\ Code(c) = <<(c \div 262144) + 240, ((c \div 4096) % 64) + 128,
                             ((c \div 64) % 64) + 128, (c % 64) + 128>>
<1>1. c \in Nat /\ ~IsSurrogate(c) /\ 0 < c /\ c < 1114112
  BY SMT DEF CodePoint
<1>2. c \div 1 = c
  BY <1>1, SMT
<1>3. CASE c < 128
  BY <1>1, <1>3, SMT DEF Code
<1>4. CASE 128 <= c /\ c < 2048
  BY <1>1, <1>2, <1>4, SMT DEF Code
<1>5. CASE 2048 <= c /\ c < 65536
  BY <1>1, <1>2, <1>5, SMT DEF Code
<1>6. CASE 65536 <= c /\ c < 1114112
  BY <1>1, <1>2, <1>6, SMT DEF Code
<1> QED BY <1>1, <1>3, <1>4, <1>5, <1>6, SMT

\* Digits in base 64, as they are put into bytes and taken out again.
LEMMA Digits ==
  ASSUME NEW x \in Nat
  PROVE  /\ x % 64 \in Nat /\ x \div 64 \in Nat
         /\ (x \div 64) * 64 + (x % 64) = x
         /\ ((x % 64) + 128) \div 64 = 2 /\ ((x % 64) + 128) % 64 = x % 64
<1>1. x % 64 \in Nat /\ x \div 64 \in Nat /\ x % 64 < 64 /\ x = 64 * (x \div 64) + (x % 64)
  BY SMT
<1> DEFINE r == x % 64
<1> HIDE DEF r
<1>2. (r + 128) \div 64 = 2 /\ (r + 128) % 64 = r
  BY <1>1, SMT DEF r
<1> QED BY <1>1, <1>2, SMT DEF r

\* the bytes b that c is written as, as the decoders tell them apart
Shape(b, c) ==
    /\ b \in Seq(Nat) /\ b[1] < 248
    /\ \A k \in 2..Len(b) : b[k] \div 64 = 2
    /\ \/ Len(b) = 1 /\ b[1] = c /\ c < 128
       \/ /\ Len(b) = 2 /\ 192 <= b[1] /\ b[1] < 224
          /\ (b[1] % 32) * 64 + (b[2] % 64) = c
       \/ /\ Len(b) = 3 /\ 224 <= b[1] /\ b[1] < 240
          /\ ((b[1] % 16) * 64 + (b[2] % 64)) * 64 + (b[3] % 64) = c
       \/ /\ Len(b) = 4 /\ 240 <= b[1] /\ b[1] < 248
          /\ (((b[1] % 8) * 64 + (b[2] % 64)) * 64 + (b[3] % 64)) * 64 + (b[4] % 64) = c

\* Code() writes bytes that the decoders tell apart as they should.
LEMMA CodeShape ==
  ASSUME NEW c \in CodePoint
  PROVE  Shape(Code(c), c)
<1> DEFINE b == Code(c)
           x == c \div 64
           y == x \div 64
           z == y \div 64
<1> HIDE DEF b, x, y, z
<1>0. c \in Nat /\ x \in Nat /\ y \in Nat /\ z \in Nat
  <2>1. c \in Nat
    BY CodeCases, SMT
  <2>2. x \in Nat
    BY <2>1, Digits, SMT DEF x
  <2>3. y \in Nat
    BY <2>2, Digits, SMT DEF y
  <2> QED BY <2>1, <2>2, <2>3, Digits, SMT DEF z
<1>1. /\ x * 64 + (c % 64) = c /\ y * 64 + (x % 64) = x /\ z * 64 + (y % 64) = y
      /\ ((c % 64) + 128) \div 64 = 2 /\ ((c % 64) + 128) % 64 = c % 64
      /\ ((x % 64) + 128) \div 64 = 2 /\ ((x % 64) + 128) % 64 = x % 64
      /\ ((y % 64) + 128) \div 64 = 2 /\ ((y % 64) + 128) % 64 = y % 64
      /\ c % 64 \in Nat /\ x % 64 \in Nat /\ y % 64 \in Nat
  BY <1>0, Digits, SMT DEF x, y, z
<1>2. y = c \div 4096 /\ z = c \div 262144
  BY <1>0, SMT DEF x, y, z
<1>3. ASSUME 0 < c, c < 128, b = <<c>>
      PROVE  /\ b \in Seq(Nat) /\ b[1] < 248 /\ \A k \in 2..Len(b) : b[k] \div 64 = 2
             /\ Len(b) = 1 /\ b[1] = c /\ c < 128
  BY <1>0, <1>3, SMT
<1>4. ASSUME 128 <= c, c < 2048, b = <<x + 192, (c % 64) + 128>>
      PROVE  /\ b \in Seq(Nat) /\ b[1] < 248 /\ \A k \in 2..Len(b) : b[k] \div 64 = 2
             /\ Len(b) = 2 /\ 192 <= b[1] /\ b[1] < 224
             /\ (b[1] % 32) * 64 + (b[2] % 64) = c
  <2>1. x < 32
    BY <1>0, <1>4, SMT DEF x
  <2>2. 192 <= x + 192 /\ x + 192 < 224 /\ (x + 192) % 32 = x
    BY <1>0, <2>1, SMT
  <2> QED BY <1>0, <1>1, <1>4, <2>2, SMT
<1>5. ASSUME 2048 <= c, c < 65536, b = <<y + 224, (x % 64) + 128, (c % 64) + 128>>
      PROVE  /\ b \in Seq(Nat) /\ b[1] < 248 /\ \A k \in 2..Len(b) : b[k] \div 64 = 2
             /\ Len(b) = 3 /\ 224 <= b[1] /\ b[1] < 240
             /\ ((b[1] % 16) * 64 + (b[2] % 64)) * 64 + (b[3] % 64) = c
  <2>1. y < 16
    BY <1>0, <1>2, <1>5, SMT
  <2>2. 224 <= y + 224 /\ y + 224 < 240 /\ (y + 224) % 16 = y
    BY <1>0, <2>1, SMT
  <2> QED BY <1>0, <1>1, <1>5, <2>2, SMT
<1>6. ASSUME 65536 <= c, c < 1114112,
             b = <<z + 240, (y % 64) + 128, (x % 64) + 128, (c % 64) + 128>>
      PROVE  /\ b \in Seq(Nat) /\ b[1] < 248 /\ \A k \in 2..Len(b) : b[k] \div 64 = 2
             /\ Len(b) = 4 /\ 240 <= b[1] /\ b[1] < 248
             /\ (((b[1] % 8) * 64 + (b[2] % 64)) * 64 + (b[3] % 64)) * 64 + (b[4] % 64) = c
  <2>1. z < 8
    BY <1>0, <1>2, <1>6, SMT
  <2>2. 240 <= z + 240 /\ z + 240 < 248 /\ (z + 240) % 8 = z
    BY <1>0, <2>1, SMT
  <2> QED BY <1>0, <1>1, <1>6, <2>2, SMT
<1>7. \/ 0 < c /\ c < 128 /\ b = <<c>>
      \/ 128 <= c /\ c < 2048 /\ b = <<x + 192, (c % 64) + 128>>
      \/ 2048 <= c /\ c < 65536 /\ b = <<y + 224, (x % 64) + 128, (c % 64) + 128>>
      \/ /\ 65536 <= c /\ c < 1114112
         /\ b = <<z + 240, (y % 64) + 128, (x % 64) + 128, (c % 64) + 128>>
  BY <1>2, CodeCases, SMT DEF b, x
<1> QED BY <1>3, <1>4, <1>5, <1>6, <1>7, SMT DEF b, Shape

\* A code point is one to four bytes, and all but the first continue it.
LEMMA CodeSeq ==
  ASSUME NEW c \in CodePoint
  PROVE  /\ Code(c) \in Seq(Nat) /\ Len(Code(c)) \in 1..4
         /\ \A k \in 2..Len(Code(c)) : Code(c)[k] \div 64 = 2
<1>1. Shape(Code(c), c)
  BY CodeShape
<1> QED BY <1>1, SMT DEF Shape

\* The pieces that the conversions are put together from.
CodeMap == [c \in CodePoint |-> Code(c)]
LineEndMap(S) == [b \in S |-> IF b = CR THEN <<>> ELSE <<b>>]
TwoBytesMap(S) == [b \in S |-> TwoBytes(b)]

\* UTF-8 spells a text code point by code point.
LEMMA UTF8Spell ==
  ASSUME NEW s \in Seq(CodePoint)
  PROVE  UTF8(s) = Spell(CodeMap, s)
<1>1. \A i \in 1..Len(s) : s[i] \in CodePoint
  BY SMT
<1>2. [i \in 1..Len(s) |-> Code(s[i])] = [i \in 1..Len(s) |-> CodeMap[s[i]]]
  BY <1>1 DEF CodeMap
<1> QED BY <1>2 DEF UTF8, Spell

\* The bytes of a text with one more code point end in the bytes of that.
LEMMA UTF8Append ==
  /\ UTF8(<<>>) = <<>>
  /\ \A t \in Seq(CodePoint) : UTF8(t) \in Seq(Nat)
  /\ \A t \in Seq(CodePoint), c \in CodePoint : UTF8(Append(t, c)) = UTF8(t) \o Code(c)
<1> DEFINE S == Nat
<1>1. Pieces(CodeMap, CodePoint, S) /\ \A c \in CodePoint : CodeMap[c] = Code(c)
  BY CodeSeq DEF CodeMap, Pieces
<1> HIDE DEF S
<1>2. ASSUME NEW t \in Seq(CodePoint), NEW c \in CodePoint
      PROVE  UTF8(t) \in Seq(S) /\ UTF8(Append(t, c)) = UTF8(t) \o Code(c)
  <2>1. Append(t, c) \in Seq(CodePoint)
    BY SMT
  <2>2. /\ Spell(CodeMap, t) \in Seq(S)
        /\ Spell(CodeMap, Append(t, c)) = Spell(CodeMap, t) \o CodeMap[c]
    <3>1. Pieces(CodeMap, CodePoint, S)
      BY <1>1
    <3> QED BY <3>1, SpellAppend, SMT
  <2> QED BY <1>1, <2>1, <2>2, UTF8Spell
<1>3. UTF8(<<>>) = <<>>
  <2>1. <<>> \in Seq(CodePoint)
    BY SMT
  <2> QED BY <2>1, SpellNil, UTF8Spell
<1>4. \E c : c \in CodePoint
  <2>1. 65 \in CodePoint
    BY SMT DEF CodePoint, IsSurrogate
  <2> QED BY <2>1, SMT
<1>5. \A t \in Seq(CodePoint) : UTF8(t) \in Seq(Nat)
  BY <1>2, <1>4 DEF S
<1> QED BY <1>2, <1>3, <1>5

\* lorieConvertLF() spells a text with nothing for a carriage return.
LEMMA LineEndSpell ==
  ASSUME NEW S, NEW s \in Seq(S)
  PROVE  lorieConvertLF(s) = Spell(LineEndMap(S), s)
<1>1. \A i \in 1..Len(s) : s[i] \in S
  BY SMT
<1>2. [i \in 1..Len(s) |-> IF s[i] = CR THEN <<>> ELSE <<s[i]>>]
        = [i \in 1..Len(s) |-> LineEndMap(S)[s[i]]]
  BY <1>1 DEF LineEndMap
<1> QED BY <1>2 DEF lorieConvertLF, Spell

\* lorieConvertLF() of one more letter: the letter, or nothing.
LEMMA LineEndAppend ==
  ASSUME NEW S
  PROVE  /\ lorieConvertLF(<<>>) = <<>>
         /\ \A s \in Seq(S) : lorieConvertLF(s) \in Seq(S)
         /\ \A s \in Seq(S), b \in S :
              lorieConvertLF(Append(s, b)) =
                  IF b = CR THEN lorieConvertLF(s) ELSE Append(lorieConvertLF(s), b)
<1> DEFINE p == LineEndMap(S)
<1>1. Pieces(p, S, S) /\ \A b \in S : p[b] = IF b = CR THEN <<>> ELSE <<b>>
  BY SMT DEF LineEndMap, Pieces
<1>2. lorieConvertLF(<<>>) = <<>>
  <2>1. <<>> \in Seq(S)
    BY SMT
  <2> QED BY <2>1, SpellNil, LineEndSpell
<1> HIDE DEF p
<1>3. ASSUME NEW s \in Seq(S), NEW b \in S
      PROVE  /\ lorieConvertLF(s) \in Seq(S)
             /\ lorieConvertLF(Append(s, b)) =
                  IF b = CR THEN lorieConvertLF(s) ELSE Append(lorieConvertLF(s), b)
  <2>1. Append(s, b) \in Seq(S)
    BY SMT
  <2>2. Spell(p, s) \in Seq(S) /\ Spell(p, Append(s, b)) = Spell(p, s) \o p[b]
    <3>1. Pieces(p, S, S)
      BY <1>1
    <3> QED BY <3>1, SpellAppend, SMT
  <2>3. Spell(p, s) \o <<>> = Spell(p, s) /\ Spell(p, s) \o <<b>> = Append(Spell(p, s), b)
    BY <2>2, ConcatEmptySeq, AppendIsConcat
  <2>4. /\ lorieConvertLF(s) = Spell(p, s)
        /\ lorieConvertLF(Append(s, b)) = Spell(p, Append(s, b))
    BY <2>1, LineEndSpell DEF p
  <2> QED BY <1>1, <2>2, <2>3, <2>4
<1>4. ASSUME NEW s \in Seq(S)
      PROVE  lorieConvertLF(s) \in Seq(S)
  <2>1. CASE s = <<>>
    <3>1. <<>> \in Seq(S)
      BY SMT
    <3> QED BY <1>2, <2>1, <3>1
  <2>2. CASE s # <<>>
    <3>1. \E b : b \in S
      BY <2>2, LastOfSeq
    <3> QED BY <1>3, <3>1
  <2> QED BY <2>1, <2>2
<1> QED BY <1>2, <1>3, <1>4

\* A code point that Latin-1 has is written as lorieLatin1ToUTF8() writes it.
LEMMA TwoBytesCode ==
  ASSUME NEW c \in CodePoint, c < 256
  PROVE  Code(c) = TwoBytes(c)
<1>1. c \in Nat
  BY CodeCases, SMT
<1>2. CASE c < 128
  BY <1>1, <1>2, CodeCases, SMT DEF TwoBytes
<1>3. CASE 128 <= c
  <2>1. Code(c) = <<(c \div 64) + 192, (c % 64) + 128>>
    BY <1>1, <1>3, CodeCases, SMT
  <2>2. (c \div 64) + 192 = 194 + (IF c > 191 THEN 1 ELSE 0) /\ ~(c < 128)
    BY <1>1, <1>3, SMT
  <2>3. TwoBytes(c) = <<194 + (IF c > 191 THEN 1 ELSE 0), (c % 64) + 128>>
    BY <2>2, SMT DEF TwoBytes
  <2> QED BY <2>1, <2>2, <2>3, SMT
<1> QED BY <1>1, <1>2, <1>3, SMT

\* lorieLatin1ToUTF8() of a text in Latin-1 is the text in UTF-8.
THEOREM Latin1ToUTF8 ==
  ASSUME NEW t \in Seq(CodePoint), IsLatin1(t)
  PROVE  lorieLatin1ToUTF8(t) = UTF8(t)
<1>1. \A i \in 1..Len(t) : t[i] \in CodePoint /\ t[i] < 256
  BY SMT DEF IsLatin1
<1>2. [i \in 1..Len(t) |-> TwoBytes(t[i])] = [i \in 1..Len(t) |-> Code(t[i])]
  <2>1. \A i \in 1..Len(t) : TwoBytes(t[i]) = Code(t[i])
    BY <1>1, TwoBytesCode, SMT
  <2> QED BY <2>1, SMT
<1> QED BY <1>2, SMT DEF UTF8, lorieLatin1ToUTF8

\* Latin-1 of such a text is the text.
LEMMA Latin1Same ==
  ASSUME NEW t \in Seq(CodePoint), IsLatin1(t)
  PROVE  Latin1(t) = t
<1>1. \A i \in 1..Len(t) : t[i] \in Nat /\ t[i] < 256
  BY CodeCases, SMT DEF IsLatin1
<1>2. \A i \in 1..Len(t) : ~(t[i] > 255)
  BY <1>1, SMT
<1>3. Latin1(t) = [i \in 1..Len(t) |-> t[i]]
  BY <1>2, SMT DEF Latin1
<1> QED BY <1>3, SMT

\* No byte of a code point is a carriage return, but for the carriage return.
LEMMA CodeWithoutCR ==
  ASSUME NEW c \in CodePoint
  PROVE  IF c = CR THEN Code(c) = <<CR>>
         ELSE \A k \in 1..Len(Code(c)) : Code(c)[k] # CR
<1>1. c \in Nat
  BY CodeCases, SMT
<1>2. CASE c < 128
  <2>1. Code(c) = <<c>>
    BY <1>1, <1>2, CodeCases, SMT
  <2> QED BY <2>1, SMT
<1>3. CASE ~(c < 128)
  <2> DEFINE b == Code(c)
  <2>1. c # CR
    BY <1>1, <1>3, SMT DEF CR
  <2>2. b \in Seq(Nat) /\ Len(b) # 1 /\ b[1] >= 192 /\ \A k \in 2..Len(b) : b[k] \div 64 = 2
    <3>1. b \in Seq(Nat) /\ \A k \in 2..Len(b) : b[k] \div 64 = 2
      BY CodeSeq, SMT
    <3>2. \/ Len(b) = 1 /\ c < 128
          \/ Len(b) = 2 /\ 192 <= b[1]
          \/ Len(b) = 3 /\ 224 <= b[1]
          \/ Len(b) = 4 /\ 240 <= b[1]
      <4>1. Shape(b, c)
        BY CodeShape
      <4> HIDE DEF b
      <4> QED BY <4>1, SMT DEF Shape
    <3> HIDE DEF b
    <3>3. b \in Seq(Nat)
      BY <3>1
    <3>4. b[1] \in Nat
      BY <3>2, <3>3, SMT
    <3>5. Len(b) # 1 /\ b[1] >= 192
      BY <1>3, <3>2, <3>4, SMT
    <3> QED BY <3>1, <3>5
  <2> HIDE DEF b
  <2>3. ASSUME NEW k \in 1..Len(b)
        PROVE  b[k] # CR
    <3>1. k \in Nat /\ (k = 1 \/ k \in 2..Len(b)) /\ b[k] \in Nat
      BY <2>2, SMT
    <3>2. CASE k = 1
      BY <2>2, <3>2, SMT DEF CR
    <3>3. CASE k \in 2..Len(b)
      <4>1. b[k] \div 64 = 2
        BY <2>2, <3>3, SMT
      <4> QED BY <3>1, <4>1, SMT DEF CR
    <3> QED BY <3>1, <3>2, <3>3, SMT
  <2> QED BY <2>1, <2>3, SMT DEF b
<1> QED BY <1>2, <1>3, SMT

\* What lorieConvertLF() does to bytes without a carriage return: nothing.
LEMMA LineEndConcat ==
  ASSUME NEW S, NEW s \in Seq(S), NEW u \in Seq(S), \A k \in 1..Len(u) : u[k] # CR
  PROVE  lorieConvertLF(s \o u) = lorieConvertLF(s) \o u
<1> DEFINE P == {w \in Seq(S) : (\A k \in 1..Len(w) : w[k] # CR)
                      => lorieConvertLF(s \o w) = lorieConvertLF(s) \o w}
<1>0. lorieConvertLF(s) \in Seq(S)
  BY LineEndAppend
<1>1. <<>> \in P
  <2>1. s \o <<>> = s /\ lorieConvertLF(s) \o <<>> = lorieConvertLF(s) /\ <<>> \in Seq(S)
    BY <1>0, ConcatEmptySeq, SMT
  <2> QED BY <2>1
<1>2. ASSUME NEW w \in P, NEW e \in S
      PROVE  Append(w, e) \in P
  <2> DEFINE v == Append(w, e)
  <2>1. w \in Seq(S) /\ v \in Seq(S)
    BY SMT
  <2> SUFFICES ASSUME \A k \in 1..Len(v) : v[k] # CR
               PROVE  lorieConvertLF(s \o v) = lorieConvertLF(s) \o v
    BY <2>1
  <2>2. e # CR /\ \A k \in 1..Len(w) : w[k] # CR
    <3>1. /\ Len(v) = Len(w) + 1 /\ Len(w) \in Nat /\ v[Len(w) + 1] = e
          /\ \A k \in 1..Len(w) : v[k] = w[k] /\ k \in 1..Len(v)
      BY <2>1, SMT
    <3>2. Len(w) + 1 \in 1..Len(v)
      BY <3>1, SMT
    <3> QED BY <3>1, <3>2
  <2>3. lorieConvertLF(s \o w) = lorieConvertLF(s) \o w
    BY <2>2
  <2>4. \A x \in Seq(S) : x \o v = Append(x \o w, e)
    BY <2>1, SMTT(40)
  <2>5. s \o w \in Seq(S)
    BY <2>1, SMT
  <2>6. lorieConvertLF(Append(s \o w, e)) = Append(lorieConvertLF(s \o w), e)
    BY <2>2, <2>5, LineEndAppend
  <2> HIDE DEF v
  <2> QED BY <1>0, <2>3, <2>4, <2>6
<1>3. P = Seq(S)
  <2> HIDE DEF P
  <2>1. P \in SUBSET Seq(S)
    BY SMT DEF P
  <2> QED BY <1>1, <1>2, <2>1, SeqInduction
<1>4. u \in P
  BY <1>3
<1> QED BY <1>4

\* lorieConvertLF() may filter the bytes before they are decoded: it removes the
\* carriage returns of the text and nothing of another code point.
THEOREM LineEndUTF8 ==
  ASSUME NEW t \in Seq(CodePoint)
  PROVE  /\ lorieConvertLF(t) \in Seq(CodePoint)
         /\ lorieConvertLF(UTF8(t)) = UTF8(lorieConvertLF(t))
<1> DEFINE P == {s \in Seq(CodePoint) : lorieConvertLF(UTF8(s)) = UTF8(lorieConvertLF(s))}
<1>1. <<>> \in P
  <2>1. <<>> \in Seq(CodePoint)
    BY SMT
  <2> QED BY <2>1, UTF8Append, LineEndAppend
<1>2. ASSUME NEW s \in P, NEW c \in CodePoint
      PROVE  Append(s, c) \in P
  <2> DEFINE bytes == UTF8(s)
             rest == lorieConvertLF(s)
  <2>1. s \in Seq(CodePoint) /\ Append(s, c) \in Seq(CodePoint)
    BY SMT
  <2>2. bytes \in Seq(Nat) /\ UTF8(Append(s, c)) = bytes \o Code(c) /\ Code(c) \in Seq(Nat)
    BY <2>1, UTF8Append, CodeSeq
  <2>3. /\ rest \in Seq(CodePoint) /\ lorieConvertLF(bytes) = UTF8(rest)
        /\ lorieConvertLF(Append(s, c)) = IF c = CR THEN rest ELSE Append(rest, c)
    BY <2>1, LineEndAppend
  <2>4. lorieConvertLF(bytes) \in Seq(Nat)
    BY <2>2, LineEndAppend
  <2> HIDE DEF bytes, rest
  <2>5. CASE c = CR
    <3>1. Code(c) = <<CR>> /\ CR \in Nat
      BY <2>5, CodeWithoutCR, SMT DEF CR
    <3>2. bytes \o Code(c) = Append(bytes, CR)
      BY <2>2, <3>1, AppendIsConcat
    <3>3. lorieConvertLF(Append(bytes, CR)) = lorieConvertLF(bytes)
      BY <2>2, <3>1, LineEndAppend
    <3> QED BY <2>1, <2>2, <2>3, <2>5, <3>2, <3>3
  <2>6. CASE c # CR
    <3>1. \A k \in 1..Len(Code(c)) : Code(c)[k] # CR
      BY <2>6, CodeWithoutCR
    <3>2. lorieConvertLF(bytes \o Code(c)) = lorieConvertLF(bytes) \o Code(c)
      BY <2>2, <3>1, LineEndConcat
    <3>3. UTF8(Append(rest, c)) = UTF8(rest) \o Code(c)
      BY <2>3, UTF8Append
    <3> QED BY <2>1, <2>2, <2>3, <2>6, <3>2, <3>3
  <2> QED BY <2>5, <2>6
<1>3. P = Seq(CodePoint)
  <2> HIDE DEF P
  <2>1. P \in SUBSET Seq(CodePoint)
    BY SMT DEF P
  <2> QED BY <1>1, <1>2, <2>1, SeqInduction
<1>4. t \in P
  BY <1>3
<1> QED BY <1>4, LineEndAppend

\* A text of Latin-1 stays one without its carriage returns.
LEMMA LineEndLatin1 ==
  ASSUME NEW t \in Seq(CodePoint), IsLatin1(t)
  PROVE  IsLatin1(lorieConvertLF(t))
<1> DEFINE S == {c \in CodePoint : c < 256}
<1>1. t \in Seq(S)
  BY SMT DEF IsLatin1
<1>2. lorieConvertLF(t) \in Seq(S)
  <2> HIDE DEF S
  <2> QED BY <1>1, LineEndAppend
<1> QED BY <1>2, SMT DEF IsLatin1

(* Where the code points of a text begin and end among its bytes. *)
Laid(t, o) ==
    /\ o \in [0..Len(t) -> Nat] /\ o[0] = 0 /\ o[Len(t)] = Len(UTF8(t))
    /\ \A n \in 1..Len(t) :
        /\ o[n] = o[n - 1] + Len(Code(t[n])) /\ o[n] <= Len(UTF8(t))
        /\ \A k \in 1..Len(Code(t[n])) : UTF8(t)[o[n - 1] + k] = Code(t[n])[k]

\* Every text has such a layout.
LEMMA Layout ==
  ASSUME NEW t \in Seq(CodePoint)
  PROVE  \E o : Laid(t, o)
<1> DEFINE P == {s \in Seq(CodePoint) : \E o : Laid(s, o)}
<1>1. <<>> \in P
  <2> DEFINE o == [n \in {0} |-> 0]
  <2>1. Len(<<>>) = 0 /\ 0..0 = {0} /\ \A n : n \notin 1..0
    BY SMT
  <2>2. UTF8(<<>>) = <<>> /\ <<>> \in Seq(CodePoint)
    BY UTF8Append, SMT
  <2>3. o \in [{0} -> Nat] /\ o[0] = 0
    BY SMT
  <2> HIDE DEF o
  <2>4. Laid(<<>>, o)
    BY <2>1, <2>2, <2>3 DEF Laid
  <2> QED BY <2>2, <2>4
<1>2. ASSUME NEW s \in P, NEW c \in CodePoint
      PROVE  Append(s, c) \in P
  <2>1. PICK o : Laid(s, o)
    BY <1>2, SMT
  <2> DEFINE N == Len(s)
             B == UTF8(s)
             C == Code(c)
             u == Append(s, c)
             D == UTF8(u)
             p == [n \in 0..(N + 1) |-> IF n <= N THEN o[n] ELSE o[N] + Len(C)]
  <2>2. /\ s \in Seq(CodePoint) /\ N \in Nat /\ u \in Seq(CodePoint) /\ Len(u) = N + 1
        /\ u[N + 1] = c /\ \A n \in 1..N : u[n] = s[n]
    BY SMT
  <2>3. B \in Seq(Nat) /\ C \in Seq(Nat) /\ D = B \o C
    BY <2>2, UTF8Append, CodeSeq
  <2>4. /\ o \in [0..N -> Nat] /\ o[0] = 0 /\ o[N] = Len(B)
        /\ \A n \in 1..N :
             /\ o[n] = o[n - 1] + Len(Code(s[n])) /\ o[n] <= Len(B)
             /\ \A k \in 1..Len(Code(s[n])) : B[o[n - 1] + k] = Code(s[n])[k]
    BY <2>1 DEF Laid
  <2> HIDE DEF N, B, C, D, u
  <2>5. /\ Len(D) = Len(B) + Len(C) /\ Len(B) \in Nat /\ Len(C) \in Nat
        /\ \A i \in 1..Len(B) : D[i] = B[i]
        /\ \A k \in 1..Len(C) : D[Len(B) + k] = C[k]
    BY <2>3, SMT
  <2>6. /\ p \in [0..(N + 1) -> Nat] /\ \A n \in 0..N : p[n] = o[n]
        /\ p[N + 1] = Len(D)
    BY <2>2, <2>4, <2>5, SMT
  <2> HIDE DEF p
  <2>7. p[0] = 0
    BY <2>2, <2>4, <2>6, SMT
  <2>8. ASSUME NEW n \in 1..N
        PROVE  /\ p[n] = p[n - 1] + Len(Code(u[n])) /\ p[n] <= Len(D)
               /\ \A k \in 1..Len(Code(u[n])) : D[p[n - 1] + k] = Code(u[n])[k]
    <3>1. n \in 0..N /\ n - 1 \in 0..N /\ u[n] = s[n] /\ o[n] \in Nat /\ o[n - 1] \in Nat
      BY <2>2, <2>4, SMT
    <3>2. /\ o[n] = o[n - 1] + Len(Code(s[n])) /\ o[n] <= Len(B)
          /\ \A k \in 1..Len(Code(s[n])) : B[o[n - 1] + k] = Code(s[n])[k]
      BY <2>4
    <3>3. s[n] \in CodePoint
      BY <2>2, SMT DEF N
    <3>4. Len(Code(s[n])) \in Nat
      BY <3>3, CodeSeq, SMT
    <3>5. \A k \in 1..Len(Code(s[n])) : o[n - 1] + k \in 1..Len(B)
      <4> DEFINE from == o[n - 1]
                 size == Len(Code(s[n]))
                 end  == Len(B)
      <4>1. from \in Nat /\ size \in Nat /\ end \in Nat /\ from + size <= end
        BY <2>5, <3>1, <3>2, <3>4
      <4> HIDE DEF from, size, end
      <4>2. \A k \in 1..size : from + k \in 1..end
        BY <4>1, SMT
      <4> QED BY <4>2 DEF from, size, end
    <3>6. \A k \in 1..Len(Code(s[n])) : D[o[n - 1] + k] = Code(s[n])[k]
      BY <2>5, <3>2, <3>5
    <3>7. o[n] <= Len(D)
      BY <2>5, <3>1, <3>2, SMT
    <3> QED BY <2>6, <3>1, <3>2, <3>6, <3>7, ZenonT(60)
  <2>9. /\ p[N + 1] = p[(N + 1) - 1] + Len(Code(u[N + 1])) /\ p[N + 1] <= Len(D)
        /\ \A k \in 1..Len(Code(u[N + 1])) : D[p[(N + 1) - 1] + k] = Code(u[N + 1])[k]
    <3>1. (N + 1) - 1 = N /\ N \in 0..N /\ Len(D) <= Len(D)
      BY <2>2, <2>5, SMT
    <3>2. p[N] = Len(B)
      BY <2>4, <2>6, <3>1
    <3> QED BY <2>2, <2>5, <2>6, <3>1, <3>2, ZenonT(60) DEF C
  <2>10. \A n \in 1..(N + 1) : n \in 1..N \/ n = N + 1
    BY <2>2, SMT
  <2>11. Laid(u, p)
    BY <2>2, <2>6, <2>7, <2>8, <2>9, <2>10 DEF Laid, D
  <2> QED BY <2>2, <2>11 DEF u
<1>3. P = Seq(CodePoint)
  <2> HIDE DEF P
  <2>1. P \in SUBSET Seq(CodePoint)
    BY SMT DEF P
  <2> QED BY <1>1, <1>2, <2>1, SeqInduction
<1>4. t \in P
  BY <1>3
<1> QED BY <1>4

\* the bytes of the nth code point of a text, seen from where it begins
LEMMA CodeAt ==
  ASSUME NEW t \in Seq(CodePoint), NEW o, Laid(t, o), NEW n \in 1..Len(t)
  PROVE  LET c == t[n]
             len == Len(Code(c))
             i == o[n - 1] + 1
         IN  /\ c \in CodePoint /\ len \in 1..4 /\ o[n - 1] \in Nat
             /\ o[n] = o[n - 1] + len /\ o[n] <= Len(UTF8(t)) /\ i \in 1..Len(UTF8(t))
             /\ UTF8(t)[i] = Code(c)[1]
             /\ 2 <= len => UTF8(t)[i + 1] = Code(c)[2] /\ Continues(UTF8(t), i + 1)
             /\ 3 <= len => UTF8(t)[i + 2] = Code(c)[3] /\ Continues(UTF8(t), i + 2)
             /\ 4 <= len => UTF8(t)[i + 3] = Code(c)[4] /\ Continues(UTF8(t), i + 3)
<1> DEFINE c == t[n]
           C == Code(c)
           len == Len(C)
           B == UTF8(t)
           i == o[n - 1] + 1
<1>1. c \in CodePoint /\ Len(t) \in Nat /\ n \in Nat /\ n - 1 \in 0..Len(t)
  BY SMT
<1>2. /\ o \in [0..Len(t) -> Nat] /\ o[n] = o[n - 1] + len /\ o[n] <= Len(B)
      /\ \A k \in 1..len : B[o[n - 1] + k] = C[k]
  BY DEF Laid
<1>3. B \in Seq(Nat)
  BY UTF8Append
<1> HIDE DEF B
<1>4. C \in Seq(Nat) /\ len \in 1..4 /\ \A k \in 2..len : C[k] \div 64 = 2
  BY <1>1, CodeSeq
<1> HIDE DEF C, c
<1>5. o[n - 1] \in Nat /\ Len(B) \in Nat
  <2>1. Len(B) \in Nat
    BY <1>3, LenProperties
  <2> QED BY <1>1, <1>2, <2>1
<1> DEFINE base == o[n - 1]
<1> HIDE DEF base, len
<1>6. /\ 1 \in 1..len /\ base + 1 \in 1..Len(B)
      /\ 2 <= len => /\ 2 \in 2..len /\ 2 \in 1..len
                     /\ (base + 1) + 1 = base + 2 /\ base + 2 <= Len(B)
      /\ 3 <= len => /\ 3 \in 2..len /\ 3 \in 1..len
                     /\ (base + 1) + 2 = base + 3 /\ base + 3 <= Len(B)
      /\ 4 <= len => /\ 4 \in 2..len /\ 4 \in 1..len
                     /\ (base + 1) + 3 = base + 4 /\ base + 4 <= Len(B)
  <2>1. base \in Nat /\ len \in 1..4 /\ Len(B) \in Nat /\ base + len <= Len(B)
    BY <1>2, <1>4, <1>5 DEF base
  <2> HIDE DEF B
  <2> QED BY <2>1, SMT
<1>7. ASSUME NEW k \in 2..len, k \in 1..len, base + k <= Len(B)
      PROVE  B[base + k] = C[k] /\ Continues(B, base + k)
  <2>1. B[base + k] = C[k] /\ C[k] \div 64 = 2
    BY <1>2, <1>4, <1>7 DEF base
  <2> QED BY <1>7, <2>1 DEF Continues
<1>8. B[base + 1] = C[1]
  BY <1>2, <1>6 DEF base
<1>9. /\ 2 <= len => B[(base + 1) + 1] = C[2] /\ Continues(B, (base + 1) + 1)
      /\ 3 <= len => B[(base + 1) + 2] = C[3] /\ Continues(B, (base + 1) + 2)
      /\ 4 <= len => B[(base + 1) + 3] = C[4] /\ Continues(B, (base + 1) + 3)
  BY <1>6, <1>7
<1> QED BY <1>1, <1>2, <1>4, <1>5, <1>6, <1>8, <1>9 DEF B, C, c, len, base

\* lorieUtf8ToUCS4() reads what was written
LEMMA Decoded ==
  ASSUME NEW t \in Seq(CodePoint), NEW o, Laid(t, o), NEW n \in 1..Len(t)
  PROVE  lorieUtf8ToUCS4(UTF8(t), o[n - 1] + 1)
             = [ucs |-> t[n], consumed |-> Len(Code(t[n]))]
<1> DEFINE c == t[n]
           C == Code(c)
           len == Len(C)
           B == UTF8(t)
           i == o[n - 1] + 1
<1>1. /\ c \in CodePoint /\ B[i] = C[1] /\ len \in 1..4
      /\ 2 <= len => B[i + 1] = C[2] /\ Continues(B, i + 1)
      /\ 3 <= len => B[i + 2] = C[3] /\ Continues(B, i + 2)
      /\ 4 <= len => B[i + 3] = C[4] /\ Continues(B, i + 3)
  BY CodeAt
<1>2. c \in Nat /\ ~IsSurrogate(c)
  BY <1>1, CodeCases, SMT
<1>3. Shape(C, c) /\ C \in Seq(Nat)
  BY <1>1, CodeShape, CodeSeq
<1> HIDE DEF B, C, c, i
<1>4. CASE Len(C) = 1
  <2>1. B[i] \in Nat /\ B[i] < 128 /\ B[i] = c
    BY <1>1, <1>2, <1>3, <1>4, SMT DEF Shape
  <2>2. lorieUtf8ToUCS4(B, i) = [ucs |-> c, consumed |-> 1]
    BY <1>2, <2>1, SMT DEF lorieUtf8ToUCS4
  <2> QED BY <1>4, <2>2 DEF B, C, c, i
<1>5. CASE Len(C) = 2
  <2>1. /\ B[i] \in Nat /\ 192 <= B[i] /\ B[i] < 224 /\ Continues(B, i + 1)
        /\ (B[i] % 32) * 64 + (B[i + 1] % 64) = c
    <3>0. 1 \in 1..len /\ 2 <= len
      BY <1>5, SMT
    <3>1. C[1] \in Nat /\ 2 <= len
      BY <1>3, <3>0, ElementOfSeq
    <3>2. B[i] = C[1] /\ B[i + 1] = C[2]
      BY <1>1, <3>1
    <3>3. Continues(B, i + 1)
      BY <1>1, <3>1
    <3> QED BY <1>3, <1>5, <3>1, <3>2, <3>3, SMT DEF Shape
  <2>2. lorieUtf8ToUCS4(B, i) = [ucs |-> c, consumed |-> 2]
    BY <1>2, <2>1, SMTT(40) DEF lorieUtf8ToUCS4
  <2> QED BY <1>5, <2>2 DEF B, C, c, i
<1>6. CASE Len(C) = 3
  <2>1. /\ B[i] \in Nat /\ 224 <= B[i] /\ B[i] < 240
        /\ Continues(B, i + 1) /\ Continues(B, i + 2)
        /\ ((B[i] % 16) * 64 + (B[i + 1] % 64)) * 64 + (B[i + 2] % 64) = c
    <3>0. 1 \in 1..len /\ 2 <= len /\ 3 <= len
      BY <1>6, SMT
    <3>1. C[1] \in Nat /\ 2 <= len /\ 3 <= len
      BY <1>3, <3>0, ElementOfSeq
    <3>2. B[i] = C[1] /\ B[i + 1] = C[2] /\ B[i + 2] = C[3]
      BY <1>1, <3>1
    <3>3. Continues(B, i + 1) /\ Continues(B, i + 2)
      BY <1>1, <3>1
    <3> QED BY <1>3, <1>6, <3>1, <3>2, <3>3, SMT DEF Shape
  <2>2. lorieUtf8ToUCS4(B, i) = [ucs |-> c, consumed |-> 3]
    BY <1>2, <2>1, SMTT(40) DEF lorieUtf8ToUCS4
  <2> QED BY <1>6, <2>2 DEF B, C, c, i
<1>7. CASE Len(C) = 4
  <2>1. /\ B[i] \in Nat /\ 240 <= B[i] /\ B[i] < 248
        /\ Continues(B, i + 1) /\ Continues(B, i + 2) /\ Continues(B, i + 3)
        /\ (((B[i] % 8) * 64 + (B[i + 1] % 64)) * 64 + (B[i + 2] % 64)) * 64
             + (B[i + 3] % 64) = c
    <3>0. 1 \in 1..len /\ 2 <= len /\ 3 <= len /\ 4 <= len
      BY <1>7, SMT
    <3>1. C[1] \in Nat /\ 2 <= len /\ 3 <= len /\ 4 <= len
      BY <1>3, <3>0, ElementOfSeq
    <3>2. B[i] = C[1] /\ B[i + 1] = C[2] /\ B[i + 2] = C[3] /\ B[i + 3] = C[4]
      BY <1>1, <3>1
    <3>3. Continues(B, i + 1) /\ Continues(B, i + 2) /\ Continues(B, i + 3)
      BY <1>1, <3>1
    <3> QED BY <1>3, <1>7, <3>1, <3>2, <3>3, SMT DEF Shape
  <2>2. lorieUtf8ToUCS4(B, i) = [ucs |-> c, consumed |-> 4]
    BY <1>2, <2>1, SMTT(30) DEF lorieUtf8ToUCS4
  <2> QED BY <1>7, <2>2 DEF B, C, c, i
<1>8. Len(C) \in {1, 2, 3, 4}
  BY <1>3, SMT DEF Shape
<1> QED BY <1>8, <1>4, <1>5, <1>6, <1>7

\* lorieUtf8ToUCS4() reads c from the bytes B after the ith, up to the jth
Reads(B, c, i, j) ==
    /\ lorieUtf8ToUCS4(B, i + 1) = [ucs |-> c, consumed |-> Len(Code(c))]
    /\ i \in Nat /\ Len(Code(c)) \in 1..4
    /\ j = i + Len(Code(c)) /\ j <= Len(B)

\* lorieUtf8ToUCS4() reads the nth code point of a text where it begins.
LEMMA ReadsNth ==
  ASSUME NEW t \in Seq(CodePoint), NEW o, Laid(t, o), NEW n \in 1..Len(t)
  PROVE  Reads(UTF8(t), t[n], o[n - 1], o[n])
<1>1. lorieUtf8ToUCS4(UTF8(t), o[n - 1] + 1) = [ucs |-> t[n], consumed |-> Len(Code(t[n]))]
  BY Decoded
<1>2. /\ o[n - 1] \in Nat /\ Len(Code(t[n])) \in 1..4
      /\ o[n] = o[n - 1] + Len(Code(t[n])) /\ o[n] <= Len(UTF8(t))
  BY CodeAt
<1> QED BY <1>1, <1>2 DEF Reads

\* Where a code point can be read the bytes have not ended.
LEMMA ReadsMore ==
  ASSUME NEW B, Len(B) \in Nat, NEW c, NEW i, NEW j, Reads(B, c, i, j)
  PROVE  i # Len(B)
<1> DEFINE len == Len(Code(c))
           m == Len(B)
<1>1. i \in Nat /\ len \in 1..4 /\ i + len <= m /\ m \in Nat
  BY DEF Reads
<1> HIDE DEF len, m
<1>2. i # m
  BY <1>1, SMT
<1> QED BY <1>2 DEF m

\* Two texts that are encoded alike are the same: who decodes what
\* lorieSendClipboardData() sends can only find the text that was encoded.
LEMMA UTF8Injective ==
  ASSUME NEW s \in Seq(CodePoint), NEW t \in Seq(CodePoint), UTF8(s) = UTF8(t)
  PROVE  s = t
<1> DEFINE B == UTF8(s)
<1>1. PICK o : Laid(s, o)
  BY Layout
<1>2. PICK p : Laid(t, p)
  BY Layout
<1>3. /\ Len(s) \in Nat /\ Len(t) \in Nat /\ Len(B) \in Nat
      /\ o[0] = 0 /\ p[0] = 0 /\ o[Len(s)] = Len(B) /\ p[Len(t)] = Len(B)
  <2>1. B \in Seq(Nat)
    BY UTF8Append
  <2> HIDE DEF B
  <2>2. Len(s) \in Nat /\ Len(t) \in Nat /\ Len(B) \in Nat
    BY <2>1, LenProperties
  <2> QED BY <1>1, <1>2, <2>2 DEF Laid, B
<1>4. \A n \in 1..Len(s) : Reads(B, s[n], o[n - 1], o[n])
  BY <1>1, ReadsNth
<1>5. \A n \in 1..Len(t) : Reads(B, t[n], p[n - 1], p[n])
  BY <1>2, ReadsNth
<1> HIDE DEF B
<1> DEFINE G == {n \in Nat : n <= Len(s) =>
                     n <= Len(t) /\ o[n] = p[n] /\ \A m \in 1..n : s[m] = t[m]}
<1>6. 0 \in G
  BY <1>3, SMT
<1>7. ASSUME NEW n \in Nat, n \in G
      PROVE  n + 1 \in G
  <2> SUFFICES ASSUME n + 1 <= Len(s)
               PROVE  /\ n + 1 <= Len(t) /\ o[n + 1] = p[n + 1]
                      /\ \A m \in 1..(n + 1) : s[m] = t[m]
    BY SMT
  <2>1. n <= Len(t) /\ o[n] = p[n] /\ \A m \in 1..n : s[m] = t[m]
    BY <1>3, <1>7, SMT
  <2>2. n + 1 \in 1..Len(s) /\ (n + 1) - 1 = n
    BY <1>3, SMT
  <2>3. Reads(B, s[n + 1], o[n], o[n + 1])
    BY <1>4, <2>2
  <2>4. o[n] # Len(B)
    BY <1>3, <2>3, ReadsMore
  <2>5. n # Len(t)
    BY <1>3, <2>1, <2>4
  <2>6. n + 1 \in 1..Len(t) /\ n + 1 <= Len(t)
    BY <1>3, <2>1, <2>5, SMT
  <2>7. Reads(B, t[n + 1], p[n], p[n + 1])
    BY <1>5, <2>2, <2>6
  <2>8. s[n + 1] = t[n + 1]
    <3>1. [ucs |-> s[n + 1], consumed |-> Len(Code(s[n + 1]))]
            = [ucs |-> t[n + 1], consumed |-> Len(Code(t[n + 1]))]
      BY <2>1, <2>3, <2>7 DEF Reads
    <3> QED BY <3>1
  <2>9. o[n + 1] = p[n + 1]
    BY <2>1, <2>3, <2>7, <2>8 DEF Reads
  <2>10. \A m \in 1..(n + 1) : m \in 1..n \/ m = n + 1
    BY SMT
  <2> QED BY <2>1, <2>6, <2>8, <2>9, <2>10
<1>8. G = Nat
  <2> HIDE DEF G
  <2>1. G \in SUBSET Nat
    BY SMT DEF G
  <2> QED BY <1>6, <1>7, <2>1, SetInduction
<1>9. Len(s) <= Len(t) /\ o[Len(s)] = p[Len(s)] /\ \A m \in 1..Len(s) : s[m] = t[m]
  <2>1. Len(s) \in G /\ Len(s) <= Len(s)
    BY <1>3, <1>8, SMT
  <2> QED BY <2>1
<1>10. Len(s) = Len(t)
  <2> SUFFICES ASSUME Len(s) # Len(t) PROVE FALSE
    OBVIOUS
  <2>1. Len(s) + 1 \in 1..Len(t) /\ (Len(s) + 1) - 1 = Len(s)
    BY <1>3, <1>9, SMT
  <2>2. Reads(B, t[Len(s) + 1], p[Len(s)], p[Len(s) + 1]) /\ p[Len(s)] = Len(B)
    BY <1>3, <1>5, <1>9, <2>1
  <2> QED BY <1>3, <2>2, ReadsMore
<1> QED BY <1>9, <1>10, SeqEqual

\* LeastOf() is one of the set.
LEMMA LeastMember ==
  ASSUME NEW T \in SUBSET Nat, T # {}
  PROVE  LeastOf(T) \in T
BY Least DEF LeastOf

\* lorieUtf8ToUCS4() consumes a byte at least, and never more than four
\* unless they are there
LEMMA Consumes ==
  ASSUME NEW bytes \in Seq(Nat), NEW i \in 1..Len(bytes)
  PROVE  /\ lorieUtf8ToUCS4(bytes, i).ucs \in Nat
         /\ lorieUtf8ToUCS4(bytes, i).consumed \in Nat
         /\ i < i + lorieUtf8ToUCS4(bytes, i).consumed
         /\ i + lorieUtf8ToUCS4(bytes, i).consumed <= Len(bytes) + 4
<1> DEFINE c == bytes[i]
           L == Len(bytes)
           count == CASE c < 128 -> 0
                      [] 192 <= c /\ c < 224 -> 1
                      [] 224 <= c /\ c < 240 -> 2
                      [] 240 <= c /\ c < 248 -> 3
                      [] OTHER -> 4
           lead == CASE count = 0 -> c
                     [] count = 1 -> c % 32
                     [] count = 2 -> c % 16
                     [] OTHER -> c % 8
           short == {k \in 1..count : ~Continues(bytes, i + k)}
           ends == {k \in 1..(L - i + 1) : ~Continues(bytes, i + k)}
           low(k) == bytes[i + k] % 64
           value == CASE count = 0 -> lead
                      [] count = 1 -> lead * 64 + low(1)
                      [] count = 2 -> (lead * 64 + low(1)) * 64 + low(2)
                      [] OTHER -> ((lead * 64 + low(1)) * 64 + low(2)) * 64 + low(3)
           u == CASE count = 4 -> [ucs |-> Replacement, consumed |-> LeastOf(ends)]
                  [] count < 4 /\ short # {} ->
                         [ucs |-> Replacement, consumed |-> LeastOf(short) + 1]
                  [] OTHER -> [ucs |-> IF IsSurrogate(value) THEN Replacement ELSE value,
                               consumed |-> count + 1]
<1>1. u = lorieUtf8ToUCS4(bytes, i)
  BY DEF lorieUtf8ToUCS4
<1>2. c \in Nat /\ L \in Nat /\ i \in Nat /\ 1 <= i /\ i <= L
  BY SMT
<1>3. count \in 0..4
  BY <1>2, SMT
<1>4. lead \in Nat
  <2>1. c % 32 \in Nat /\ c % 16 \in Nat /\ c % 8 \in Nat
    BY <1>2, SMT
  <2> HIDE DEF count, c
  <2> QED BY <1>2, <2>1, SMT
<1>5. LeastOf(ends) \in Nat /\ 1 <= LeastOf(ends) /\ LeastOf(ends) <= (L - i) + 1
  <2>1. L - i + 1 \in ends
    <3>1. L - i + 1 \in 1..(L - i + 1) /\ ~(i + (L - i + 1) <= L)
      BY <1>2, SMT
    <3> QED BY <3>1 DEF Continues
  <2>2. ends \in SUBSET Nat /\ \A k \in ends : k \in 1..(L - i + 1)
    BY <1>2, SMT
  <2> HIDE DEF ends
  <2>3. LeastOf(ends) \in 1..(L - i + 1)
    BY <2>1, <2>2, LeastMember
  <2> DEFINE m == LeastOf(ends)
  <2> HIDE DEF m, L
  <2>4. m \in 1..(L - i + 1) => m \in Nat /\ 1 <= m /\ m <= (L - i) + 1
    BY <1>2, SMT
  <2> QED BY <2>3, <2>4 DEF m
<1>6. short # {} => LeastOf(short) \in 1..count
  <2>1. short \in SUBSET Nat /\ \A k \in short : k \in 1..count
    BY <1>3, SMT
  <2> HIDE DEF short
  <2> QED BY <2>1, LeastMember
<1>7. short = {} /\ count < 4 => value \in Nat
  <2> SUFFICES ASSUME short = {}, count < 4 PROVE value \in Nat
    OBVIOUS
  <2>1. \A k \in 1..count : Continues(bytes, i + k)
    BY ZenonT(60)
  <2>2. \A k \in 1..count : low(k) \in Nat
    <3> SUFFICES ASSUME NEW k \in 1..count PROVE bytes[i + k] % 64 \in Nat
      OBVIOUS
    <3>1. i + k <= L
      BY <2>1, ZenonT(60) DEF Continues
    <3>2. i + k \in 1..L
      BY <1>2, <1>3, <3>1, SMTT(40)
    <3>3. bytes[i + k] \in Nat
      BY <3>2, ElementOfSeq, ZenonT(60)
    <3> QED BY <3>3, SMTT(40)
  <2>3. /\ count = 1 => low(1) \in Nat
        /\ count = 2 => low(1) \in Nat /\ low(2) \in Nat
        /\ count = 3 => low(1) \in Nat /\ low(2) \in Nat /\ low(3) \in Nat
    <3> HIDE DEF low, count
    <3> QED BY <1>3, <2>2, SMT
  <2> HIDE DEF low, count, lead, short
  <2>4. count \in {0, 1, 2, 3}
    BY <1>3, SMT
  <2>5. \A x, y \in Nat : x * 64 + y \in Nat
    BY SMT
  <2>6. /\ count = 0 => value = lead
        /\ count = 1 => value = lead * 64 + low(1)
        /\ count = 2 => value = (lead * 64 + low(1)) * 64 + low(2)
        /\ count = 3 => value = ((lead * 64 + low(1)) * 64 + low(2)) * 64 + low(3)
    BY SMT
  <2> HIDE DEF value
  <2>7. CASE count = 0
    BY <1>4, <2>6, <2>7
  <2>8. CASE count = 1
    BY <1>4, <2>3, <2>5, <2>6, <2>8, ZenonT(60)
  <2>9. CASE count = 2
    <3>1. lead * 64 + low(1) \in Nat
      BY <1>4, <2>3, <2>5, <2>9
    <3> QED BY <2>3, <2>5, <2>6, <2>9, <3>1, ZenonT(60)
  <2>10. CASE count = 3
    <3>1. lead * 64 + low(1) \in Nat
      BY <1>4, <2>3, <2>5, <2>10
    <3>2. (lead * 64 + low(1)) * 64 + low(2) \in Nat
      BY <2>3, <2>5, <2>10, <3>1
    <3> QED BY <2>3, <2>5, <2>6, <2>10, <3>2, ZenonT(60)
  <2> QED BY <2>4, <2>7, <2>8, <2>9, <2>10
<1> HIDE DEF count, short, ends, value
<1>8. CASE count = 4
  <2>1. u = [ucs |-> Replacement, consumed |-> LeastOf(ends)]
    BY <1>8, SMT
  <2> HIDE DEF u
  <2> QED BY <1>1, <1>2, <1>5, <2>1, SMT DEF Replacement
<1>9. CASE count < 4 /\ short # {}
  <2>1. u = [ucs |-> Replacement, consumed |-> LeastOf(short) + 1]
    BY <1>3, <1>9, SMT
  <2> HIDE DEF u
  <2> QED BY <1>1, <1>2, <1>3, <1>6, <1>9, <2>1, SMTT(40) DEF Replacement
<1>10. CASE count < 4 /\ short = {}
  <2> DEFINE v == IF IsSurrogate(value) THEN Replacement ELSE value
  <2>1. u = [ucs |-> v, consumed |-> count + 1]
    BY <1>3, <1>10, SMT
  <2>2. v \in Nat
    BY <1>7, <1>10, SMT DEF Replacement
  <2> HIDE DEF u, v
  <2> QED BY <1>1, <1>2, <1>3, <1>10, <2>1, <2>2, SMT
<1>11. count = 4 \/ count < 4
  BY <1>3, SMT
<1> QED BY <1>8, <1>9, <1>10, <1>11

\* the equation of the recursion in lorieUtf8ToLatin1()
Step(bytes, i) ==
    LET u == lorieUtf8ToUCS4(bytes, i)
    IN  [piece |-> <<IF u.ucs > 255 THEN 63 ELSE u.ucs>>, next |-> i + u.consumed]

Translates(f, bytes) ==
    \A i \in 1..(Len(bytes) + 4) :
        f[i] = IF i > Len(bytes) THEN <<>>
               ELSE Step(bytes, i).piece \o f[Step(bytes, i).next]

\* lorieUtf8ToLatin1() obeys that equation on any bytes: the recursion ends.
LEMMA Latin1Def ==
  ASSUME NEW bytes \in Seq(Nat)
  PROVE  \E f : Translates(f, bytes) /\ lorieUtf8ToLatin1(bytes) = f[1]
<1> DEFINE L == Len(bytes)
           N == L + 4
           F == CHOOSE f : f = [i \in 1..N |->
                    IF i > L THEN <<>>
                    ELSE <<IF lorieUtf8ToUCS4(bytes, i).ucs > 255 THEN 63
                           ELSE lorieUtf8ToUCS4(bytes, i).ucs>>
                             \o f[i + lorieUtf8ToUCS4(bytes, i).consumed]]
           S == Seq(Nat)
           next == [i \in 1..L |-> Step(bytes, i).next]
           h == [i \in 1..L |-> [s \in S |-> Step(bytes, i).piece \o s]]
<1>1. L \in Nat /\ N \in Nat /\ L < N
  BY SMT
<1>2. lorieUtf8ToLatin1(bytes) = F[1]
  BY DEF lorieUtf8ToLatin1
<1>3. ASSUME NEW i \in 1..L
      PROVE  /\ Step(bytes, i).piece \in S
             /\ i < Step(bytes, i).next /\ Step(bytes, i).next \in 1..N
  <2> DEFINE x == lorieUtf8ToUCS4(bytes, i).ucs
             y == lorieUtf8ToUCS4(bytes, i).consumed
  <2>1. x \in Nat /\ y \in Nat /\ i < i + y /\ i + y <= N
    BY Consumes
  <2>2. Step(bytes, i) = [piece |-> <<IF x > 255 THEN 63 ELSE x>>, next |-> i + y]
    BY DEF Step
  <2> HIDE DEF x, y
  <2>3. <<IF x > 255 THEN 63 ELSE x>> \in Seq(Nat) /\ i + y \in 1..N
    BY <1>1, <2>1, SMT
  <2> DEFINE piece == <<IF x > 255 THEN 63 ELSE x>>
  <2>4. Step(bytes, i).piece = piece /\ Step(bytes, i).next = i + y
    <3>1. Step(bytes, i) = [piece |-> piece, next |-> i + y]
      BY <2>2
    <3> HIDE DEF piece
    <3> QED BY <3>1, SMT
  <2> QED BY <2>1, <2>3, <2>4
<1>4. next \in [1..L -> 1..N] /\ \A i \in 1..L : i < next[i]
  BY <1>3
<1>5. h \in [1..L -> [S -> S]]
  <2>1. \A p, s \in Seq(Nat) : p \o s \in Seq(Nat)
    BY SMT
  <2> QED BY <1>3, <2>1
<1>6. <<>> \in S
  BY SMT
<1>7. PICK f \in [1..N -> S] : Descends(f, N, L, <<>>, next, h)
  <2> HIDE DEF next, h, N, L, S
  <2> QED BY <1>1, <1>4, <1>5, <1>6, RecursionDown
<1>8. ASSUME NEW i \in 1..N
      PROVE  f[i] = IF i > L THEN <<>> ELSE Step(bytes, i).piece \o f[Step(bytes, i).next]
  <2>1. CASE i > L
    BY <1>7, <2>1 DEF Descends
  <2>2. CASE ~(i > L)
    <3>1. i \in 1..L
      BY <1>1, <2>2, SMT
    <3>2. f[Step(bytes, i).next] \in S
      BY <1>3, <3>1
    <3>3. f[i] = h[i][f[next[i]]]
      BY <1>7, <2>2 DEF Descends
    <3> QED BY <2>2, <3>1, <3>2, <3>3
  <2> QED BY <2>1, <2>2
<1>9. f = [i \in 1..N |->
             IF i > L THEN <<>>
             ELSE <<IF lorieUtf8ToUCS4(bytes, i).ucs > 255 THEN 63
                    ELSE lorieUtf8ToUCS4(bytes, i).ucs>>
                      \o f[i + lorieUtf8ToUCS4(bytes, i).consumed]]
  BY <1>8 DEF Step
<1>10. F = [i \in 1..N |->
             IF i > L THEN <<>>
             ELSE <<IF lorieUtf8ToUCS4(bytes, i).ucs > 255 THEN 63
                    ELSE lorieUtf8ToUCS4(bytes, i).ucs>>
                      \o F[i + lorieUtf8ToUCS4(bytes, i).consumed]]
  BY <1>9, ZenonT(60)
<1> HIDE DEF F
<1>11. Translates(F, bytes)
  BY <1>10 DEF Translates, Step
<1> QED BY <1>2, <1>11

\* what follows the nth element
Rest(q, n) == [k \in 1..(Len(q) - n) |-> q[n + k]]

\* What follows, from the end of the sequence to its beginning.
LEMMA RestStep ==
  ASSUME NEW S, NEW q \in Seq(S)
  PROVE  /\ Rest(q, Len(q)) = <<>> /\ Rest(q, 0) = q
         /\ \A n \in 1..Len(q) : <<q[n]>> \o Rest(q, n) = Rest(q, n - 1)
<1>0. Len(q) \in Nat /\ DOMAIN q = 1..Len(q) /\ \A k \in 1..Len(q) : q[k] \in S
  BY SMT
<1>1. Rest(q, Len(q)) = <<>>
  BY <1>0, SMT DEF Rest
<1>2. Rest(q, 0) = q
  <2>1. Rest(q, 0) = [k \in 1..Len(q) |-> q[k]]
    BY <1>0, SMT DEF Rest
  <2>2. q = [k \in 1..Len(q) |-> q[k]]
    BY <1>0, SMT
  <2> QED BY <2>1, <2>2
<1>3. ASSUME NEW n \in 1..Len(q)
      PROVE  <<q[n]>> \o Rest(q, n) = Rest(q, n - 1)
  <2> DEFINE m == Len(q) - n
             r == Rest(q, n)
             r1 == Rest(q, n - 1)
  <2>1. m \in Nat /\ m + 1 \in Nat /\ Len(q) - (n - 1) = m + 1 /\ n \in Nat
    BY <1>0, SMT
  <2>2. /\ r \in [1..m -> S] /\ r1 \in [1..(m + 1) -> S]
        /\ \A k \in 1..m : r[k] = q[n + k]
        /\ \A k \in 1..(m + 1) : r1[k] = q[(n - 1) + k]
    <3>1. \A k \in 1..m : n + k \in 1..Len(q)
      BY <1>0, <2>1, SMT
    <3>2. \A k \in 1..(m + 1) : (n - 1) + k \in 1..Len(q)
      BY <1>0, <2>1, SMT
    <3>3. r = [k \in 1..m |-> q[n + k]] /\ r1 = [k \in 1..(m + 1) |-> q[(n - 1) + k]]
      BY <2>1 DEF Rest
    <3> HIDE DEF r, r1, m
    <3> QED BY <1>0, <3>1, <3>2, <3>3
  <2> HIDE DEF r, r1, m
  <2>3. r \in Seq(S) /\ Len(r) = m /\ r1 \in Seq(S) /\ Len(r1) = m + 1
    BY <2>1, <2>2, FunctionIsSeq
  <2>4. <<q[n]>> \in Seq(S) /\ Len(<<q[n]>>) = 1 /\ <<q[n]>>[1] = q[n]
    BY <1>0, SMT
  <2> DEFINE s == <<q[n]>> \o r
  <2>5. s \in Seq(S) /\ Len(s) = m + 1 /\ s[1] = q[n] /\ \A k \in 2..(m + 1) : s[k] = r[k - 1]
    BY <1>0, <2>1, <2>3, <2>4, SMT
  <2> HIDE DEF s
  <2>6. ASSUME NEW k \in 1..(m + 1)
        PROVE  s[k] = r1[k]
    <3>1. CASE k = 1
      <4>1. (n - 1) + k = n
        BY <2>1, <3>1, SMT
      <4> QED BY <2>2, <2>5, <3>1, <4>1
    <3>2. CASE k # 1
      <4>1. k \in 2..(m + 1) /\ k - 1 \in 1..m /\ n + (k - 1) = (n - 1) + k
        BY <2>1, <3>2, SMT
      <4> QED BY <2>2, <2>5, <4>1
    <3> QED BY <3>1, <3>2
  <2>7. s = r1
    BY <2>3, <2>5, <2>6, SeqEqual
  <2> QED BY <2>7 DEF s, r, r1
<1> QED BY <1>1, <1>2, <1>3

\* lorieUtf8ToLatin1() of a text in UTF-8 is the text in Latin-1, with a question
\* mark for each code point that Latin-1 does not have.
THEOREM Utf8ToLatin1 ==
  ASSUME NEW t \in Seq(CodePoint)
  PROVE  lorieUtf8ToLatin1(UTF8(t)) = Latin1(t)
<1> DEFINE B == UTF8(t)
           N == Len(t)
           q == Latin1(t)
<1>1. PICK o : Laid(t, o)
  BY Layout
<1>2. B \in Seq(Nat) /\ N \in Nat
  BY UTF8Append, LenProperties
<1>3. Len(B) \in Nat
  <2> HIDE DEF B
  <2> QED BY <1>2, LenProperties
<1>4. o[0] = 0 /\ o[N] = Len(B) /\ \A n \in 1..N : Reads(B, t[n], o[n - 1], o[n])
  BY <1>1, ReadsNth DEF Laid
<1>5. PICK f : Translates(f, B) /\ lorieUtf8ToLatin1(B) = f[1]
  <2> HIDE DEF B
  <2> QED BY <1>2, Latin1Def
<1>6. /\ q \in Seq(Nat) /\ Len(q) = N
      /\ \A n \in 1..N : q[n] = IF t[n] > 255 THEN 63 ELSE t[n]
  <2>1. \A n \in 1..N : t[n] \in CodePoint
    BY SMT
  <2>2. \A n \in 1..N : (IF t[n] > 255 THEN 63 ELSE t[n]) \in Nat
    BY <2>1, CodeCases, SMT
  <2>3. q = [n \in 1..N |-> IF t[n] > 255 THEN 63 ELSE t[n]]
    BY DEF Latin1
  <2> HIDE DEF q, N
  <2>4. q \in [1..N -> Nat] /\ \A n \in 1..N : q[n] = IF t[n] > 255 THEN 63 ELSE t[n]
    BY <2>2, <2>3
  <2> QED BY <1>2, <2>4, FunctionIsSeq
<1> HIDE DEF B, N, q
<1>7. ASSUME NEW n \in 1..N
      PROVE  f[o[n - 1] + 1] = <<q[n]>> \o f[o[n] + 1]
  <2> DEFINE i == o[n - 1]
             j == o[n]
             c == t[n]
             len == Len(Code(c))
  <2>1. Reads(B, c, i, j)
    BY <1>4
  <2>2. /\ lorieUtf8ToUCS4(B, i + 1) = [ucs |-> c, consumed |-> len]
        /\ i \in Nat /\ len \in 1..4 /\ j = i + len /\ j <= Len(B)
    BY <2>1 DEF Reads
  <2>3. q[n] = IF c > 255 THEN 63 ELSE c
    BY <1>6
  <2> HIDE DEF i, j, c, len
  <2>4. i + 1 \in 1..(Len(B) + 4) /\ ~(i + 1 > Len(B)) /\ (i + 1) + len = j + 1
    BY <1>3, <2>2, SMT
  <2>5. Step(B, i + 1) = [piece |-> <<q[n]>>, next |-> j + 1]
    <3>1. Step(B, i + 1) = [piece |-> <<IF c > 255 THEN 63 ELSE c>>, next |-> (i + 1) + len]
      BY <2>2, SMT DEF Step
    <3> QED BY <2>3, <2>4, <3>1
  <2>6. Step(B, i + 1).piece = <<q[n]>> /\ Step(B, i + 1).next = j + 1
    BY <2>5, SMT
  <2>7. f[i + 1] = Step(B, i + 1).piece \o f[Step(B, i + 1).next]
    BY <1>5, <2>4 DEF Translates
  <2> QED BY <2>6, <2>7 DEF i, j
<1> DEFINE G == {m \in Nat : m <= N => f[o[N - m] + 1] = Rest(q, N - m)}
<1>8. 0 \in G
  <2>1. Len(B) + 1 \in 1..(Len(B) + 4) /\ Len(B) + 1 > Len(B) /\ N - 0 = N
    BY <1>2, <1>3, SMT
  <2>2. f[o[N] + 1] = <<>>
    BY <1>4, <1>5, <2>1 DEF Translates
  <2>3. Rest(q, N) = <<>>
    BY <1>6, RestStep
  <2> QED BY <2>1, <2>2, <2>3, SMT
<1>9. ASSUME NEW m \in Nat, m \in G
      PROVE  m + 1 \in G
  <2> SUFFICES ASSUME m + 1 <= N
               PROVE  f[o[N - (m + 1)] + 1] = Rest(q, N - (m + 1))
    BY SMT
  <2>1. N - m \in 1..N /\ N - (m + 1) = (N - m) - 1 /\ m <= N
    BY <1>2, SMT
  <2>2. f[o[N - m] + 1] = Rest(q, N - m)
    BY <1>9, <2>1
  <2>3. <<q[N - m]>> \o Rest(q, N - m) = Rest(q, (N - m) - 1)
    BY <1>6, <2>1, RestStep
  <2> QED BY <1>7, <2>1, <2>2, <2>3
<1>10. G = Nat
  <2> HIDE DEF G
  <2>1. G \in SUBSET Nat
    BY SMT DEF G
  <2> QED BY <1>8, <1>9, <2>1, SetInduction
<1>11. f[1] = q
  <2>0. N \in G
    BY <1>2, <1>10
  <2>1. N <= N /\ N - N = 0 /\ 0 + 1 = 1
    BY <1>2, SMT
  <2>2. f[1] = Rest(q, 0)
    BY <1>4, <2>0, <2>1
  <2> QED BY <1>6, <2>2, RestStep
<1> QED BY <1>5, <1>11 DEF B, q

\* the equation of the recursion in lorieCheckUTF8()
Sound(bytes, past, i) ==
    /\ bytes[i] < 248
    /\ \A k \in 1..(CodeLength(bytes[i]) - 1) :
           Continues(bytes, i + k) \/ (i + k) - Len(bytes) \in past

Checks(f, bytes, past) ==
    \A i \in 1..(Len(bytes) + 4) :
        f[i] <=> (i > Len(bytes) \/ (Sound(bytes, past, i) /\ f[i + CodeLength(bytes[i])]))

\* lorieCheckUTF8() obeys that equation on any bytes: the recursion ends.
LEMMA CheckDef ==
  ASSUME NEW bytes \in Seq(Nat), NEW past
  PROVE  \E f \in [1..(Len(bytes) + 4) -> BOOLEAN] :
             Checks(f, bytes, past) /\ lorieCheckUTF8(bytes, past) = f[1]
<1> DEFINE L == Len(bytes)
           N == L + 4
           F == CHOOSE f : f = [i \in 1..N |->
                    \/ i > L
                    \/ /\ bytes[i] < 248
                       /\ \A k \in 1..(CodeLength(bytes[i]) - 1) :
                              Continues(bytes, i + k) \/ (i + k) - L \in past
                       /\ f[i + CodeLength(bytes[i])]]
           next == [i \in 1..L |-> i + CodeLength(bytes[i])]
           h == [i \in 1..L |-> [b \in BOOLEAN |-> Sound(bytes, past, i) /\ b]]
<1>1. L \in Nat /\ N \in Nat /\ L < N
  BY SMT
<1>2. lorieCheckUTF8(bytes, past) = F[1]
  BY DEF lorieCheckUTF8
<1>3. ASSUME NEW i \in 1..L
      PROVE  i < i + CodeLength(bytes[i]) /\ i + CodeLength(bytes[i]) \in 1..N
  <2>1. bytes[i] \in Nat
    BY ElementOfSeq
  <2>2. CodeLength(bytes[i]) \in 1..4
    BY <2>1, SMT DEF CodeLength
  <2> QED BY <1>1, <2>2, SMTT(40)
<1>4. next \in [1..L -> 1..N] /\ \A i \in 1..L : i < next[i]
  BY <1>3
<1>5. h \in [1..L -> [BOOLEAN -> BOOLEAN]]
  <2>1. \A i \in 1..L : \A b \in BOOLEAN : (Sound(bytes, past, i) /\ b) \in BOOLEAN
    BY DEF Sound
  <2> QED BY <2>1
<1>6. PICK f \in [1..N -> BOOLEAN] : Descends(f, N, L, TRUE, next, h)
  <2> HIDE DEF next, h, N, L
  <2>1. TRUE \in BOOLEAN
    OBVIOUS
  <2> QED BY <1>1, <1>4, <1>5, <2>1, RecursionDown
<1>7. ASSUME NEW i \in 1..N
      PROVE  f[i] = (i > L \/ (Sound(bytes, past, i) /\ f[i + CodeLength(bytes[i])]))
  <2>1. CASE i > L
    BY <1>6, <2>1 DEF Descends
  <2>2. CASE ~(i > L)
    <3>1. i \in 1..L
      BY <1>1, <2>2, SMT
    <3>2. f[i + CodeLength(bytes[i])] \in BOOLEAN
      BY <1>3, <3>1
    <3>3. f[i] = h[i][f[next[i]]]
      BY <1>6, <2>2 DEF Descends
    <3>4. f[i] = (Sound(bytes, past, i) /\ f[i + CodeLength(bytes[i])])
      BY <3>1, <3>2, <3>3
    <3> QED BY <2>2, <3>4
  <2> QED BY <2>1, <2>2
<1>8. f = [i \in 1..N |->
             \/ i > L
             \/ /\ bytes[i] < 248
                /\ \A k \in 1..(CodeLength(bytes[i]) - 1) :
                       Continues(bytes, i + k) \/ (i + k) - L \in past
                /\ f[i + CodeLength(bytes[i])]]
  BY <1>7 DEF Sound
<1>9. F = [i \in 1..N |->
             \/ i > L
             \/ /\ bytes[i] < 248
                /\ \A k \in 1..(CodeLength(bytes[i]) - 1) :
                       Continues(bytes, i + k) \/ (i + k) - L \in past
                /\ F[i + CodeLength(bytes[i])]]
  BY <1>8
<1> HIDE DEF F
<1>10. ASSUME NEW i \in 1..N
       PROVE  /\ F[i] \in BOOLEAN
              /\ F[i] <=> (i > L \/ (Sound(bytes, past, i) /\ F[i + CodeLength(bytes[i])]))
  BY <1>9 DEF Sound
<1>11. F \in [1..N -> BOOLEAN]
  BY <1>9, <1>10
<1>12. Checks(F, bytes, past)
  BY <1>10 DEF Checks
<1> QED BY <1>2, <1>11, <1>12

\* what the first byte says of how many there are
LEMMA FirstByte ==
  ASSUME NEW c \in CodePoint
  PROVE  Code(c)[1] < 248 /\ CodeLength(Code(c)[1]) = Len(Code(c))
<1> DEFINE b == Code(c)
<1>1. Shape(b, c) /\ b \in Seq(Nat) /\ Len(b) \in 1..4
  BY CodeShape, CodeSeq
<1> HIDE DEF b
<1>2. 1 \in 1..Len(b)
  <2>1. Len(b) \in 1..4
    BY <1>1
  <2> QED BY <2>1, SMT
<1>3. b[1] \in Nat
  BY <1>1, <1>2, ElementOfSeq
<1>4. /\ b[1] < 248
      /\ \/ Len(b) = 1 /\ b[1] < 128
         \/ Len(b) = 2 /\ 192 <= b[1] /\ b[1] < 224
         \/ Len(b) = 3 /\ 224 <= b[1] /\ b[1] < 240
         \/ Len(b) = 4 /\ 240 <= b[1]
  BY <1>1, SMT DEF Shape
<1>5. CodeLength(b[1]) = Len(b)
  BY <1>3, <1>4, SMT DEF CodeLength
<1> QED BY <1>4, <1>5 DEF b

\* lorieCheckUTF8() accepts every text in UTF-8: the test before
\* lorieSendClipboardData() refuses no well-formed text, whatever comes after it.
THEOREM CheckUTF8 ==
  ASSUME NEW t \in Seq(CodePoint), NEW past
  PROVE  lorieCheckUTF8(UTF8(t), past)
<1> DEFINE B == UTF8(t)
           N == Len(t)
<1>1. PICK o : Laid(t, o)
  BY Layout
<1>2. B \in Seq(Nat) /\ N \in Nat
  BY UTF8Append, LenProperties
<1>3. Len(B) \in Nat
  <2> HIDE DEF B
  <2> QED BY <1>2, LenProperties
<1>4. o[0] = 0 /\ o[N] = Len(B)
  BY <1>1 DEF Laid
<1>5. PICK f \in [1..(Len(B) + 4) -> BOOLEAN] : Checks(f, B, past) /\ lorieCheckUTF8(B, past) = f[1]
  <2> HIDE DEF B
  <2> QED BY <1>2, CheckDef
<1>6. ASSUME NEW n \in 1..N, f[o[n] + 1]
      PROVE  f[o[n - 1] + 1]
  <2> DEFINE i == o[n - 1]
             j == o[n]
             c == t[n]
             len == Len(Code(c))
  <2>1. /\ c \in CodePoint /\ len \in 1..4 /\ i \in Nat /\ j = i + len /\ j <= Len(B)
        /\ B[i + 1] = Code(c)[1]
        /\ 2 <= len => Continues(B, (i + 1) + 1)
        /\ 3 <= len => Continues(B, (i + 1) + 2)
        /\ 4 <= len => Continues(B, (i + 1) + 3)
    <3>1. /\ c \in CodePoint /\ len \in 1..4 /\ i \in Nat /\ j = i + len /\ j <= Len(B)
      BY <1>1, ReadsNth, ElementOfSeq DEF Reads
    <3>3. B[i + 1] = Code(c)[1]
      <4>1. 1 \in 1..len
        <5>1. len \in 1..4
          BY <3>1
        <5> HIDE DEF len
        <5> QED BY <5>1, SMT
      <4> QED BY <1>1, <4>1 DEF Laid
    <3>2. /\ 2 <= len => Continues(B, (i + 1) + 1)
          /\ 3 <= len => Continues(B, (i + 1) + 2)
          /\ 4 <= len => Continues(B, (i + 1) + 3)
      BY <1>1, CodeAt
    <3> HIDE DEF i, j, c, len, B
    <3> QED BY <3>1, <3>2, <3>3
  <2>2. B[i + 1] < 248 /\ CodeLength(B[i + 1]) = len
    BY <2>1, FirstByte
  <2> HIDE DEF i, j, c, len, B
  <2>3. i + 1 \in 1..(Len(B) + 4) /\ (i + 1) + len = j + 1
    BY <1>3, <2>1, SMT
  <2>4. \A k \in 1..(len - 1) : Continues(B, (i + 1) + k)
    <3>1. \A k \in 1..(len - 1) :
              (k = 1 /\ 2 <= len) \/ (k = 2 /\ 3 <= len) \/ (k = 3 /\ 4 <= len)
      BY <2>1, SMT
    <3> QED BY <2>1, <3>1
  <2>5. Sound(B, past, i + 1)
    BY <2>2, <2>4 DEF Sound
  <2>6. f[j + 1]
    BY <1>6 DEF j
  <2>7. f[i + 1]
    BY <1>5, <2>2, <2>3, <2>5, <2>6 DEF Checks
  <2> QED BY <2>7 DEF i
<1> HIDE DEF B, N
<1> DEFINE G == {m \in Nat : m <= N => f[o[N - m] + 1]}
<1>7. 0 \in G
  <2>1. Len(B) + 1 \in 1..(Len(B) + 4) /\ Len(B) + 1 > Len(B) /\ N - 0 = N /\ 0 \in Nat
    BY <1>2, <1>3, SMT
  <2>2. f[o[N] + 1]
    BY <1>4, <1>5, <2>1 DEF Checks
  <2> QED BY <2>1, <2>2
<1>8. ASSUME NEW m \in Nat, m \in G
      PROVE  m + 1 \in G
  <2>0. m + 1 \in Nat
    BY SMT
  <2> SUFFICES ASSUME m + 1 <= N
               PROVE  f[o[N - (m + 1)] + 1]
    BY <2>0
  <2>1. N - m \in 1..N /\ N - (m + 1) = (N - m) - 1 /\ m <= N
    BY <1>2, SMT
  <2>2. f[o[N - m] + 1]
    BY <1>8, <2>1
  <2> QED BY <1>6, <2>1, <2>2
<1>9. G = Nat
  <2> HIDE DEF G
  <2>1. G \in SUBSET Nat
    BY SMT DEF G
  <2> QED BY <1>7, <1>8, <2>1, SetInduction
<1>10. f[1]
  <2>0. N \in G
    BY <1>2, <1>9
  <2>1. N <= N /\ N - N = 0 /\ 0 + 1 = 1
    BY <1>2, SMT
  <2> QED BY <1>4, <2>0, <2>1
<1> QED BY <1>5, <1>10 DEF B

-----------------------------------------------------------------------------
(***************************************************************************)
(* The inductive invariant.  Shapes: what the variables hold, the messages *)
(* of each queue included.                                                 *)
(***************************************************************************)
TextMessage ==
    {[type |-> "text", bytes |-> UTF8(lorieConvertLF(t)), text |-> t] : t \in Text}
Malformed ==
    {[type |-> "text", bytes |-> lorieConvertLF(b), text |-> NULL] : b \in Truncated}
Message == {[type |-> "focus"]} \cup TextMessage \cup Malformed

Shapes ==
    /\ owner \in Client \cup {NULL} /\ clipboardEnabled \in BOOLEAN
    /\ offer \in [Client -> Offer \cup {NULL}]
    /\ asked \in [Client -> Seq(Target)]
    /\ connected \in BOOLEAN /\ sync \in BOOLEAN /\ torn \in BOOLEAN
    /\ clip \in ClipText \cup {NULL}
    /\ toServer \in Seq(BOOLEAN) /\ toActivity \in Seq(Message)
    /\ overtaken \in BOOLEAN /\ disturbed \in BOOLEAN /\ copied \in BOOLEAN

\* who is asked, or owns the selection, has something to paste
Offering == \A c \in Client : asked[c] # <<>> \/ owner = c => offer[c] # NULL

\* a lost connection leaves nothing on its way to the server, and the sync off;
\* while nothing has disturbed it, it is on, and stays so
Calm ==
    /\ ~connected => toServer = <<>> /\ ~clipboardEnabled
    /\ ~disturbed /\ owner \in Client
           => connected /\ clipboardEnabled /\ toServer = <<>>

\* the last the server has read, or will read, is the preference
Synced ==
    connected => IF toServer = <<>> THEN clipboardEnabled = sync
                 ELSE toServer[Len(toServer)] = sync

(***************************************************************************)
(* The owner's text is Android's, or will be.                              *)
(***************************************************************************)
LastText(q, b) ==
    \E i \in DOMAIN q :
        /\ q[i].type = "text" /\ q[i].bytes = b
        /\ \A j \in DOMAIN q : j > i => q[j].type # "text"
NoText(q) == \A i \in DOMAIN q : q[i].type # "text"
Wanted(o) == IF o.utf8 THEN "UTF8_STRING" ELSE "STRING"
WillAsk(q, o) == \E i \in DOMAIN q : q[i] \in {"TARGETS", Wanted(o)}
Reaches(o, q) ==
    LET r == lorieConvertLF(o.text)
    IN  \/ o.text = NULL \/ r = <<>>
        \/ WillAsk(q, o)
        \/ LastText(toActivity, UTF8(r))
        \/ NoText(toActivity) /\ (copied \/ clip = r)

Due ==
    owner \in Client /\ ~overtaken /\ ~disturbed /\ ~torn
        => Reaches(offer[owner], asked[owner])

IInv == Shapes /\ Offering /\ Calm /\ Synced /\ Due

\* Where the elements of a queue are when one is put at its end.
LEMMA Positions ==
  ASSUME NEW S, NEW q \in Seq(S), NEW m \in S
  PROVE  /\ Append(q, m) \in Seq(S)
         /\ \A i : i \in DOMAIN Append(q, m) <=> i \in DOMAIN q \/ i = Len(q) + 1
         /\ \A i \in DOMAIN q : Append(q, m)[i] = q[i] /\ i < Len(q) + 1 /\ i \in Nat
         /\ Append(q, m)[Len(q) + 1] = m /\ Len(q) + 1 \notin DOMAIN q
<1>1. /\ DOMAIN q = 1..Len(q) /\ Len(q) \in Nat
      /\ DOMAIN Append(q, m) = 1..(Len(q) + 1)
      /\ \A i \in 1..Len(q) : Append(q, m)[i] = q[i]
      /\ Append(q, m)[Len(q) + 1] = m
      /\ Append(q, m) \in Seq(S)
  BY SMT
<1>2. \A i : i \in 1..(Len(q) + 1) <=> i \in 1..Len(q) \/ i = Len(q) + 1
  BY <1>1, SMT
<1>3. \A i \in 1..Len(q) : i < Len(q) + 1 /\ i \in Nat
  BY <1>1, SMT
<1>4. Len(q) + 1 \notin 1..Len(q)
  BY <1>1, SMT
<1> QED BY <1>1, <1>2, <1>3, <1>4

\* Where the elements of a queue are when its head is taken.
LEMMA Shifted ==
  ASSUME NEW S, NEW q \in Seq(S), q # <<>>
  PROVE  /\ Head(q) = q[1] /\ Head(q) \in S /\ Tail(q) \in Seq(S) /\ 1 \in DOMAIN q
         /\ \A i \in DOMAIN Tail(q) :
                i + 1 \in DOMAIN q /\ Tail(q)[i] = q[i + 1] /\ i \in Nat /\ i + 1 # 1
         /\ \A i \in DOMAIN q : i = 1 \/ (i - 1 \in DOMAIN Tail(q) /\ Tail(q)[i - 1] = q[i])
         /\ \A i \in DOMAIN q : i \in Nat
<1>1. /\ DOMAIN q = 1..Len(q) /\ Len(q) \in Nat /\ Len(q) # 0
      /\ DOMAIN Tail(q) = 1..(Len(q) - 1)
      /\ \A i \in 1..(Len(q) - 1) : Tail(q)[i] = q[i + 1]
      /\ Tail(q) \in Seq(S) /\ Head(q) = q[1]
  BY SMT
<1>2. 1 \in 1..Len(q)
  BY <1>1, SMT
<1>3. Head(q) \in S
  BY <1>1, <1>2, ElementOfSeq
<1>4. \A i \in 1..(Len(q) - 1) : i + 1 \in 1..Len(q) /\ i \in Nat /\ i + 1 # 1
  BY <1>1, SMT
<1>5. \A i \in 1..Len(q) : i \in Nat /\ (i = 1 \/ i - 1 \in 1..(Len(q) - 1)) /\ (i - 1) + 1 = i
  BY <1>1, SMT
<1> QED BY <1>1, <1>2, <1>3, <1>4, <1>5

\* A queue without a text, when something else is put into it, or its head taken.
LEMMA NoTextAppend ==
  ASSUME NEW S, NEW q \in Seq(S), NEW m \in S, NoText(q), m.type # "text"
  PROVE  NoText(Append(q, m))
<1> DEFINE p == Append(q, m)
<1>1. /\ \A i : i \in DOMAIN p <=> i \in DOMAIN q \/ i = Len(q) + 1
      /\ \A i \in DOMAIN q : p[i] = q[i]
      /\ p[Len(q) + 1] = m
  BY Positions, ZenonT(60)
<1> HIDE DEF p
<1>2. NoText(p)
  BY <1>1 DEF NoText
<1> QED BY <1>2 DEF p

LEMMA NoTextTail ==
  ASSUME NEW S, NEW q \in Seq(S), q # <<>>, NoText(q)
  PROVE  NoText(Tail(q)) /\ Head(q).type # "text"
<1> DEFINE p == Tail(q)
<1>1. /\ \A i \in DOMAIN p : i + 1 \in DOMAIN q /\ p[i] = q[i + 1]
      /\ 1 \in DOMAIN q /\ Head(q) = q[1]
  BY Shifted
<1> HIDE DEF p
<1>2. NoText(p) /\ q[1].type # "text"
  BY <1>1 DEF NoText
<1> QED BY <1>1, <1>2 DEF p

\* The last text in a queue, when something is put into it.
LEMMA LastTextAppend ==
  ASSUME NEW S, NEW q \in Seq(S), NEW m \in S
  PROVE  /\ m.type = "text" => LastText(Append(q, m), m.bytes)
         /\ \A b : m.type # "text" /\ LastText(q, b) => LastText(Append(q, m), b)
<1> DEFINE r == Append(q, m)
           n == Len(q) + 1
<1>1. /\ \A i : i \in DOMAIN r <=> i \in DOMAIN q \/ i = n
      /\ \A i \in DOMAIN q : r[i] = q[i] /\ i < n /\ i \in Nat
      /\ r[n] = m /\ n \in Nat
  <2>1. n \in Nat
    BY SMT
  <2> QED BY <2>1, Positions
<1> HIDE DEF r, n
<1>2. \A i \in Nat : i < n => ~(i > n)
  BY <1>1, SMT
<1>3. ~(n > n)
  BY <1>1, SMT
<1>4. ASSUME m.type = "text"
      PROVE  LastText(r, m.bytes)
  <2>1. \A j \in DOMAIN r : ~(j > n)
    BY <1>1, <1>2, <1>3
  <2> QED BY <1>1, <1>4, <2>1 DEF LastText
<1>5. ASSUME NEW b, m.type # "text", LastText(q, b)
      PROVE  LastText(r, b)
  <2>1. PICK i \in DOMAIN q : /\ q[i].type = "text" /\ q[i].bytes = b
                              /\ \A j \in DOMAIN q : j > i => q[j].type # "text"
    BY <1>5 DEF LastText
  <2>2. i \in DOMAIN r /\ r[i].type = "text" /\ r[i].bytes = b
    BY <1>1, <2>1
  <2>3. \A j \in DOMAIN r : j > i => r[j].type # "text"
    BY <1>1, <1>5, <2>1
  <2> QED BY <2>2, <2>3 DEF LastText
<1> QED BY <1>4, <1>5 DEF r

\* The last text in a queue, when its head is taken.
LEMMA LastTextTail ==
  ASSUME NEW S, NEW q \in Seq(S), q # <<>>, NEW b, LastText(q, b)
  PROVE  \/ LastText(Tail(q), b)
         \/ Head(q).type = "text" /\ Head(q).bytes = b /\ NoText(Tail(q))
<1> DEFINE r == Tail(q)
           h == Head(q)
<1>1. /\ h = q[1]
      /\ \A i \in DOMAIN r : i + 1 \in DOMAIN q /\ r[i] = q[i + 1] /\ i \in Nat /\ i + 1 > 1
      /\ \A i \in DOMAIN q : i \in Nat /\ (i = 1 \/ (i - 1 \in DOMAIN r /\ r[i - 1] = q[i]))
  <2>1. \A i \in DOMAIN r : i + 1 > 1
    <3>1. r \in Seq(S)
      BY Shifted
    <3> HIDE DEF r
    <3> QED BY <3>1, SMT
  <2> QED BY <2>1, Shifted
<1> HIDE DEF r, h
<1>2. PICK i \in DOMAIN q : /\ q[i].type = "text" /\ q[i].bytes = b
                            /\ \A j \in DOMAIN q : j > i => q[j].type # "text"
  BY DEF LastText
<1>3. CASE i = 1
  <2>1. NoText(r)
    <3>1. \A j \in DOMAIN q : j > 1 => q[j].type # "text"
      BY <1>2, <1>3
    <3>2. \A j \in DOMAIN r : j + 1 \in DOMAIN q /\ j + 1 > 1 /\ r[j] = q[j + 1]
      BY <1>1
    <3> QED BY <3>1, <3>2 DEF NoText
  <2> QED BY <1>1, <1>2, <1>3, <2>1 DEF r, h
<1>4. CASE i # 1
  <2>1. \A j \in Nat : j > i - 1 => j + 1 > i
    BY <1>1, SMT
  <2>2. \A j \in DOMAIN r : j > i - 1 => r[j].type # "text"
    BY <1>1, <1>2, <2>1, ZenonT(60)
  <2>3. i - 1 \in DOMAIN r /\ r[i - 1].type = "text" /\ r[i - 1].bytes = b
    BY <1>1, <1>2, <1>4
  <2>4. LastText(r, b)
    BY <2>2, <2>3 DEF LastText
  <2> QED BY <2>4 DEF r
<1> QED BY <1>3, <1>4

\* what the owner is still to be asked for
LEMMA WillAskAppend ==
  ASSUME NEW q \in Seq(Target), NEW m \in Target, NEW o
  PROVE  WillAsk(q, o) \/ m \in {"TARGETS", Wanted(o)} <=> WillAsk(Append(q, m), o)
<1> DEFINE r == Append(q, m)
           n == Len(q) + 1
           w == Wanted(o)
<1>1. /\ \A i : i \in DOMAIN r <=> i \in DOMAIN q \/ i = n
      /\ \A i \in DOMAIN q : r[i] = q[i]
      /\ r[n] = m
  BY Positions
<1> HIDE DEF r, n, w
<1>2. (\E i \in DOMAIN q : q[i] \in {"TARGETS", w}) \/ m \in {"TARGETS", w}
          <=> \E i \in DOMAIN r : r[i] \in {"TARGETS", w}
  BY <1>1
<1> QED BY <1>2 DEF WillAsk, r, w

\* What the owner is still to be asked for, when it answers.
LEMMA WillAskTail ==
  ASSUME NEW q \in Seq(Target), q # <<>>, NEW o, WillAsk(q, o)
  PROVE  Head(q) \in {"TARGETS", Wanted(o)} \/ WillAsk(Tail(q), o)
<1> DEFINE r == Tail(q)
           h == Head(q)
           w == Wanted(o)
<1>1. /\ h = q[1]
      /\ \A i \in DOMAIN q : i = 1 \/ (i - 1 \in DOMAIN r /\ r[i - 1] = q[i])
  BY Shifted
<1> HIDE DEF r, h, w
<1>2. \E i \in DOMAIN q : q[i] \in {"TARGETS", w}
  BY DEF WillAsk, w
<1>3. h \in {"TARGETS", w} \/ \E i \in DOMAIN r : r[i] \in {"TARGETS", w}
  BY <1>1, <1>2
<1> QED BY <1>3 DEF WillAsk, r, h, w

-----------------------------------------------------------------------------
(***************************************************************************)
(* Messages, and what they say.                                            *)
(***************************************************************************)

\* The texts that Android may have can be encoded, and are no NULL.
LEMMA ClipTexts ==
  /\ <<Replacement>> \in ClipText
  /\ \A t \in Text : t \in ClipText /\ lorieConvertLF(t) \in ClipText
  /\ \A t \in ClipText : t \in Seq(CodePoint) /\ Encoded[t] = UTF8(t) /\ t # NULL
<1>1. \A t \in Text : t \in Seq(CodePoint) /\ lorieConvertLF(t) \in Seq(CodePoint)
  BY TextAssumption, LineEndUTF8
<1>2. <<Replacement>> \in Seq(CodePoint)
  <2>1. Replacement \in CodePoint
    BY SMT DEF Replacement, CodePoint, IsSurrogate
  <2> QED BY <2>1, SMT
<1>3. \A t \in ClipText : t \in Seq(CodePoint)
  BY <1>1, <1>2 DEF ClipText
<1>4. \A t \in ClipText : t # NULL
  BY DistinctAssumption
<1>5. \A t \in ClipText : Encoded[t] = UTF8(t)
  BY DEF Encoded
<1>6. /\ <<Replacement>> \in ClipText
      /\ \A t \in Text : t \in ClipText /\ lorieConvertLF(t) \in ClipText
  BY DEF ClipText
<1> QED BY <1>3, <1>4, <1>5, <1>6

\* What the server sends for an offer is its text in UTF-8 without carriage
\* returns, whichever the target; truncated bytes stand for no text.
LEMMA Offers ==
  ASSUME NEW o \in Offer, NEW past
  PROVE  /\ o.utf8 \in BOOLEAN
         /\ \/ o.text = NULL /\ o.utf8 /\ o.bytes \in Truncated
            \/ /\ o.text \in Text /\ o.text # NULL
               /\ o.utf8 => lorieCheckUTF8(o.bytes, past)
               /\ Filtered(o) = UTF8(lorieConvertLF(o.text))
<1>1. CASE \E b \in Truncated : o = [utf8 |-> TRUE, text |-> NULL, bytes |-> b]
  <2>1. PICK b \in Truncated : o = [utf8 |-> TRUE, text |-> NULL, bytes |-> b]
    BY <1>1
  <2> QED BY <2>1, SMT
<1>2. CASE \E t \in Text : o = [utf8 |-> ~IsLatin1(t), text |-> t,
                                bytes |-> IF IsLatin1(t) THEN Latin1(t) ELSE UTF8(t)]
  <2>1. PICK t \in Text : o = [utf8 |-> ~IsLatin1(t), text |-> t,
                               bytes |-> IF IsLatin1(t) THEN Latin1(t) ELSE UTF8(t)]
    BY <1>2
  <2>2. o.utf8 = ~IsLatin1(t) /\ o.text = t
        /\ o.bytes = IF IsLatin1(t) THEN Latin1(t) ELSE UTF8(t)
    BY <2>1
  <2>3. t \in Seq(CodePoint) /\ t # NULL
    BY ClipTexts
  <2>4. (~IsLatin1(t)) \in BOOLEAN
    BY DEF IsLatin1
  <2>5. CASE IsLatin1(t)
    <3>1. ~o.utf8 /\ o.bytes = t
      BY <2>2, <2>3, <2>5, Latin1Same
    <3>2. lorieLatin1ToUTF8(lorieConvertLF(t)) = UTF8(lorieConvertLF(t))
      BY <2>3, <2>5, LineEndUTF8, LineEndLatin1, Latin1ToUTF8
    <3> QED BY <2>2, <2>3, <2>4, <3>1, <3>2 DEF Filtered
  <2>6. CASE ~IsLatin1(t)
    <3>1. o.utf8 /\ o.bytes = UTF8(t)
      BY <2>2, <2>6
    <3>2. /\ lorieCheckUTF8(UTF8(t), past)
          /\ lorieConvertLF(UTF8(t)) = UTF8(lorieConvertLF(t))
      BY <2>3, CheckUTF8, LineEndUTF8
    <3> QED BY <2>2, <2>3, <2>4, <3>1, <3>2 DEF Filtered
  <2> QED BY <2>5, <2>6
<1> QED BY <1>1, <1>2 DEF Offer

\* The activity decodes what was encoded, and always to a text.
LEMMA Decodes ==
  /\ \A t \in ClipText : Decode(UTF8(t)) = t
  /\ \A b : Decode(b) \in ClipText
<1>1. ASSUME NEW t \in ClipText
      PROVE  Decode(UTF8(t)) = t
  <2>1. \A s \in ClipText : Encoded[s] = UTF8(t) => s = t
    BY ClipTexts, UTF8Injective
  <2>2. Encoded[t] = UTF8(t)
    BY ClipTexts
  <2> QED BY <2>1, <2>2 DEF Decode
<1>2. \A b : Decode(b) \in ClipText
  BY ClipTexts DEF Decode
<1> QED BY <1>1, <1>2

\* the messages to the activity, by their types
LEMMA ActivityTypes ==
  \A m \in Message :
      \/ m.type = "focus"
      \/ /\ m.type = "text"
         /\ m.text # NULL => m.bytes = UTF8(lorieConvertLF(m.text))
<1>1. ASSUME NEW m, m = [type |-> "focus"]
      PROVE  m.type = "focus"
  BY <1>1
<1>2. ASSUME NEW m, NEW t \in Text,
             m = [type |-> "text", bytes |-> UTF8(lorieConvertLF(t)), text |-> t]
      PROVE  m.type = "text" /\ m.bytes = UTF8(lorieConvertLF(m.text))
  BY <1>2
<1>3. ASSUME NEW m, NEW b \in Truncated,
             m = [type |-> "text", bytes |-> lorieConvertLF(b), text |-> NULL]
      PROVE  m.type = "text" /\ m.text = NULL
  BY <1>3
<1> QED BY <1>1, <1>2, <1>3, ZenonT(60) DEF Message, TextMessage, Malformed

-----------------------------------------------------------------------------
(***************************************************************************)
(* The steps of the clients.                                               *)
(***************************************************************************)

\* The invariant holds at first.
LEMMA InitIInv == Init => IInv
<1> SUFFICES ASSUME Init PROVE IInv
  BY SMT
<1>1. /\ toServer \in Seq(BOOLEAN) /\ toActivity \in Seq(Message)
      /\ toServer # <<>> /\ toServer[Len(toServer)] = sync
  <2>1. toServer = <<TRUE>> /\ toActivity = <<>> /\ sync = TRUE
    BY DEF Init
  <2>2. <<TRUE>> \in Seq(BOOLEAN) /\ <<>> \in Seq(Message)
    BY SMT
  <2>3. <<TRUE>> # <<>> /\ <<TRUE>>[Len(<<TRUE>>)] = TRUE
    BY SMT
  <2> QED BY <2>1, <2>2, <2>3
<1>2. Shapes
  <2>1. offer \in [Client -> Offer \cup {NULL}]
    BY DEF Init
  <2>2. asked \in [Client -> Seq(Target)]
    <3>1. <<>> \in Seq(Target)
      BY SMT
    <3> QED BY <3>1 DEF Init
  <2> QED BY <1>1, <2>1, <2>2 DEF Init, Shapes
<1>3. owner \notin Client /\ connected /\ \A c \in Client : asked[c] = <<>> /\ owner # c
  BY DistinctAssumption DEF Init
<1> QED BY <1>1, <1>2, <1>3 DEF IInv, Offering, Calm, Synced, Due

\* lorieSelectionRequest(), by client
LEMMA Requests ==
  ASSUME NEW requests \in [Client -> Seq(Target)], NEW own \in Client \cup {NULL},
         NEW target \in Target
  PROVE  /\ lorieSelectionRequest(requests, own, target) \in [Client -> Seq(Target)]
         /\ \A d \in Client : lorieSelectionRequest(requests, own, target)[d] =
              IF clipboardEnabled /\ d = own THEN Append(requests[d], target) ELSE requests[d]
<1>1. \A q \in Seq(Target) : Append(q, target) \in Seq(Target)
  BY SMT
<1>2. CASE clipboardEnabled /\ own \in Client
  <2>1. lorieSelectionRequest(requests, own, target)
          = [requests EXCEPT ![own] = Append(requests[own], target)]
    BY <1>2 DEF lorieSelectionRequest
  <2> QED BY <1>1, <1>2, <2>1
<1>3. CASE ~(clipboardEnabled /\ own \in Client)
  BY <1>3 DEF lorieSelectionRequest
<1> QED BY <1>2, <1>3

\* lorieSelectionCallback() preserves the invariant: the new owner will be asked.
LEMMA SelectionIInv ==
  ASSUME IInv, NEW c \in Client, NEW o \in Offer, lorieSelectionCallback(c, o)
  PROVE  IInv'
<1>1. /\ owner' = c /\ offer' = [offer EXCEPT ![c] = o]
      /\ asked' = lorieSelectionRequest(asked, c, "TARGETS")
      /\ overtaken' = FALSE /\ disturbed' = (~clipboardEnabled \/ toServer # <<>>)
      /\ clipboardEnabled' = clipboardEnabled
      /\ connected' = connected /\ sync' = sync /\ clip' = clip /\ torn' = torn
      /\ toServer' = toServer /\ toActivity' = toActivity /\ copied' = copied
  BY DEF lorieSelectionCallback, activityVars
<1>2. Shapes /\ o # NULL /\ "TARGETS" \in Target
  BY DistinctAssumption DEF IInv, Target
<1>3. /\ asked' \in [Client -> Seq(Target)]
      /\ \A d \in Client : asked'[d] = IF clipboardEnabled /\ d = c
                                       THEN Append(asked[d], "TARGETS") ELSE asked[d]
  <2>1. asked \in [Client -> Seq(Target)] /\ c \in Client \cup {NULL}
    BY <1>2 DEF Shapes
  <2> QED BY <1>1, <1>2, <2>1, Requests
<1>4. /\ offer' \in [Client -> Offer \cup {NULL}] /\ offer'[c] = o
      /\ \A d \in Client : d # c => offer'[d] = offer[d]
  BY <1>1, <1>2 DEF Shapes
<1>5. Shapes'
  <2>1. disturbed' \in BOOLEAN
    BY <1>1
  <2> QED BY <1>1, <1>2, <1>3, <1>4, <2>1 DEF Shapes
<1>6. Offering'
  BY <1>1, <1>2, <1>3, <1>4 DEF IInv, Offering
<1>7. Calm' /\ Synced'
  BY <1>1 DEF IInv, Calm, Synced
<1>8. Due'
  <2> SUFFICES ASSUME ~disturbed'
               PROVE  WillAsk(asked'[c], o)
    BY <1>1, <1>4 DEF Due, Reaches, WillAsk, Wanted
  <2>1. asked'[c] = Append(asked[c], "TARGETS") /\ asked[c] \in Seq(Target)
    BY <1>1, <1>2, <1>3 DEF Shapes
  <2> QED BY <1>2, <2>1, WillAskAppend
<1> QED BY <1>5, <1>6, <1>7, <1>8 DEF IInv

\* The exit of a client preserves the invariant: it does not own the selection.
LEMMA GoneIInv ==
  ASSUME IInv, NEW c \in Client, ClientGone(c)
  PROVE  IInv'
<1>1. /\ owner' = IF owner = c THEN NULL ELSE owner
      /\ asked' = [asked EXCEPT ![c] = <<>>]
      /\ offer' = offer /\ clipboardEnabled' = clipboardEnabled
      /\ connected' = connected /\ sync' = sync /\ clip' = clip /\ torn' = torn
      /\ toServer' = toServer /\ toActivity' = toActivity
      /\ overtaken' = overtaken /\ disturbed' = disturbed /\ copied' = copied
  BY DEF ClientGone, activityVars, ghosts
<1>2. Shapes /\ NULL \notin Client /\ <<>> \in Seq(Target)
  <2>1. <<>> \in Seq(Target)
    BY SMT
  <2> QED BY <2>1, DistinctAssumption DEF IInv
<1>3. /\ asked' \in [Client -> Seq(Target)] /\ asked'[c] = <<>>
      /\ \A d \in Client : d # c => asked'[d] = asked[d]
  BY <1>1, <1>2 DEF Shapes
<1>4. owner' \in Client \cup {NULL} /\ (owner' \in Client => owner' = owner /\ owner # c)
  BY <1>1, <1>2 DEF Shapes
<1>5. Shapes'
  BY <1>1, <1>2, <1>3, <1>4, ZenonT(60) DEF Shapes
<1>6. Offering'
  BY <1>1, <1>3, <1>4 DEF IInv, Offering
<1>7. Calm' /\ Synced'
  BY <1>1, <1>4 DEF IInv, Calm, Synced
<1>8. Due'
  BY <1>1, <1>3, <1>4 DEF IInv, Due, Reaches
<1> QED BY <1>5, <1>6, <1>7, <1>8 DEF IInv

\* One request less for a client that answers.
LEMMA AnsweredShape ==
  ASSUME Shapes, NEW c \in Client, asked[c] # <<>>
  PROVE  /\ Answered(c) \in [Client -> Seq(Target)]
         /\ Answered(c)[c] = Tail(asked[c])
         /\ \A d \in Client : d # c => Answered(c)[d] = asked[d]
         /\ asked[c] \in Seq(Target) /\ Head(asked[c]) \in Target
<1>1. asked \in [Client -> Seq(Target)]
  BY DEF Shapes
<1>2. asked[c] \in Seq(Target)
  BY <1>1
<1>3. Tail(asked[c]) \in Seq(Target) /\ Head(asked[c]) \in Target
  BY <1>2, Shifted
<1>4. Answered(c) = [asked EXCEPT ![c] = Tail(asked[c])]
  BY DEF Answered
<1> QED BY <1>1, <1>2, <1>3, <1>4

\* The answer to TARGETS preserves the invariant: the owner is asked for its text.
LEMMA HandleTargetsIInv ==
  ASSUME IInv, NEW c \in Client, HandleTargets(c)
  PROVE  IInv'
<1> DEFINE target == Wanted(offer[c])
<1>1. /\ asked' = lorieSelectionRequest(Answered(c), owner, target)
      /\ owner' = owner /\ offer' = offer /\ clipboardEnabled' = clipboardEnabled
      /\ connected' = connected /\ sync' = sync /\ clip' = clip /\ torn' = torn
      /\ toServer' = toServer /\ toActivity' = toActivity
      /\ overtaken' = overtaken /\ disturbed' = disturbed /\ copied' = copied
  BY DEF HandleTargets, Wanted, activityVars, ghosts
<1>2. /\ Shapes /\ asked[c] # <<>> /\ Head(asked[c]) = "TARGETS" /\ target \in Target
      /\ owner \in Client \cup {NULL}
  BY DEF IInv, HandleTargets, Asked, Target, Wanted, Shapes
<1> DEFINE a == Answered(c)
<1>3. /\ a \in [Client -> Seq(Target)] /\ a[c] = Tail(asked[c])
      /\ \A d \in Client : d # c => a[d] = asked[d]
      /\ asked[c] \in Seq(Target)
  BY <1>2, AnsweredShape
<1>4. /\ asked' \in [Client -> Seq(Target)]
      /\ \A d \in Client : asked'[d] = IF clipboardEnabled /\ d = owner
                                       THEN Append(a[d], target) ELSE a[d]
  <2> HIDE DEF a, target
  <2>1. asked' = lorieSelectionRequest(a, owner, target)
    BY <1>1 DEF a, target
  <2> QED BY <1>2, <1>3, <2>1, Requests DEF target
<1>5. Shapes'
  BY <1>1, <1>2, <1>4, ZenonT(60) DEF Shapes
<1>6. Offering'
  <2> SUFFICES ASSUME NEW d \in Client, asked'[d] # <<>> \/ owner = d
               PROVE  offer[d] # NULL
    BY <1>1 DEF Offering
  <2>1. Offering
    BY DEF IInv
  <2>2. CASE owner = d
    BY <2>1, <2>2 DEF Offering
  <2>3. CASE owner # d /\ d = c
    BY <1>2, <2>1, <2>3 DEF Offering
  <2>4. CASE owner # d /\ d # c
    BY <1>3, <1>4, <2>1, <2>4 DEF Offering
  <2> QED BY <2>2, <2>3, <2>4
<1>7. Calm' /\ Synced'
  BY <1>1 DEF IInv, Calm, Synced
<1>8. Due'
  <2> DEFINE o == offer[owner]
  <2> SUFFICES ASSUME owner \in Client, ~overtaken, ~disturbed, WillAsk(asked[owner], o)
               PROVE  WillAsk(asked'[owner], o)
    BY <1>1 DEF IInv, Due, Reaches
  <2>1. asked'[owner] = Append(a[owner], target) /\ a[owner] \in Seq(Target)
    <3>1. clipboardEnabled
      BY DEF IInv, Calm
    <3> QED BY <1>3, <1>4, <3>1
  <2>2. CASE owner = c
    BY <1>2, <2>1, <2>2, WillAskAppend
  <2>3. CASE owner # c
    <3>1. WillAsk(a[owner], o)
      BY <1>3, <2>3
    <3> HIDE DEF a, target, o
    <3> QED BY <1>2, <2>1, <3>1, WillAskAppend
  <2> QED BY <2>2, <2>3
<1> QED BY <1>5, <1>6, <1>7, <1>8 DEF IInv

\* A refusal preserves the invariant: it is not the owner that refuses.
LEMMA RefuseIInv ==
  ASSUME IInv, NEW c \in Client, Refuse(c)
  PROVE  IInv'
<1>1. /\ asked' = Answered(c) /\ asked[c] # <<>> /\ owner # c
      /\ owner' = owner /\ offer' = offer /\ clipboardEnabled' = clipboardEnabled
      /\ connected' = connected /\ sync' = sync /\ clip' = clip /\ torn' = torn
      /\ toServer' = toServer /\ toActivity' = toActivity
      /\ overtaken' = overtaken /\ disturbed' = disturbed /\ copied' = copied
  BY DEF Refuse, activityVars, ghosts
<1>2. Shapes
  BY DEF IInv
<1>3. /\ asked' \in [Client -> Seq(Target)]
      /\ \A d \in Client : d # c => asked'[d] = asked[d]
  BY <1>1, <1>2, AnsweredShape
<1>4. Shapes'
  BY <1>1, <1>2, <1>3, ZenonT(60) DEF Shapes
<1>5. Offering'
  BY <1>1, <1>3 DEF IInv, Offering
<1>6. Calm' /\ Synced'
  BY <1>1 DEF IInv, Calm, Synced
<1>7. Due'
  BY <1>1, <1>3 DEF IInv, Due, Reaches
<1> QED BY <1>4, <1>5, <1>6, <1>7 DEF IInv

Grants(c, past) ==
    LET o == offer[c]
    IN  /\ clipboardEnabled /\ o.utf8 = Asked(c, "UTF8_STRING")
        /\ (o.utf8 => lorieCheckUTF8(o.bytes, past))

\* lorieHandleSelection() of a text preserves the invariant: the owner's text is
\* the last on its way, or was not what was asked for.
LEMMA HandleTextIInv ==
  ASSUME IInv, NEW c \in Client, NEW past, HandleText(c, past)
  PROVE  IInv'
<1> DEFINE o == offer[c]
           m == [type |-> "text", bytes |-> Filtered(o), text |-> o.text]
           grants == Grants(c, past)
<1>1. /\ asked' = Answered(c) /\ overtaken' = (overtaken \/ (grants /\ owner # c))
      /\ owner' = owner /\ offer' = offer /\ clipboardEnabled' = clipboardEnabled
      /\ connected' = connected /\ sync' = sync /\ clip' = clip /\ torn' = torn
      /\ toServer' = toServer /\ disturbed' = disturbed /\ copied' = copied
  BY DEF HandleText, Grants, activityVars
<1>2. toActivity' = IF grants /\ connected THEN Append(toActivity, m) ELSE toActivity
  BY DEF HandleText, Grants, lorieSendClipboardData, ToActivity
<1>3. /\ Shapes /\ asked[c] # <<>> /\ Head(asked[c]) \in {"UTF8_STRING", "STRING"}
      /\ Asked(c, "UTF8_STRING") <=> Head(asked[c]) = "UTF8_STRING"
  BY DEF IInv, HandleText, Asked
<1>4. /\ asked' \in [Client -> Seq(Target)] /\ asked'[c] = Tail(asked[c])
      /\ \A d \in Client : d # c => asked'[d] = asked[d]
      /\ asked[c] \in Seq(Target)
  BY <1>1, <1>3, AnsweredShape
<1>5. o \in Offer
  BY <1>3 DEF IInv, Offering, Shapes
<1>6. /\ o.utf8 \in BOOLEAN
      /\ \/ o.text = NULL /\ o.utf8 /\ o.bytes \in Truncated
         \/ /\ o.text \in Text /\ o.text # NULL /\ (o.utf8 => lorieCheckUTF8(o.bytes, past))
            /\ Filtered(o) = UTF8(lorieConvertLF(o.text))
  BY <1>5, Offers
<1>7. m.type = "text" /\ m.bytes = Filtered(o)
  OBVIOUS
<1>8. m \in Message
  <2>1. CASE o.text = NULL /\ o.utf8 /\ o.bytes \in Truncated
    <3>1. m = [type |-> "text", bytes |-> lorieConvertLF(o.bytes), text |-> NULL]
      BY <2>1 DEF Filtered
    <3> QED BY <2>1, <3>1 DEF Message, Malformed
  <2>2. CASE o.text \in Text /\ Filtered(o) = UTF8(lorieConvertLF(o.text))
    BY <2>2 DEF Message, TextMessage
  <2> QED BY <1>6, <2>1, <2>2
<1>9. toActivity \in Seq(Message)
  BY <1>3 DEF Shapes
<1> HIDE DEF m, grants
<1>10. toActivity' \in Seq(Message)
  BY <1>2, <1>8, <1>9, Positions
<1>11. Shapes'
  <2>1. overtaken' \in BOOLEAN
    BY <1>1
  <2> QED BY <1>1, <1>3, <1>4, <1>10, <2>1, ZenonT(60) DEF Shapes
<1>12. Offering'
  <2> SUFFICES ASSUME NEW d \in Client, asked'[d] # <<>> \/ owner = d
               PROVE  offer[d] # NULL
    BY <1>1 DEF Offering
  <2> QED BY <1>3, <1>4 DEF IInv, Offering
<1>13. Calm' /\ Synced'
  BY <1>1 DEF IInv, Calm, Synced
<1>14. Due'
  <2> SUFFICES ASSUME owner \in Client, ~overtaken', ~disturbed, ~torn
               PROVE  Reaches(offer[owner], asked[owner])'
    BY <1>1 DEF Due
  <2>1. Reaches(offer[owner], asked[owner]) /\ clipboardEnabled /\ connected
    BY <1>1 DEF IInv, Due, Calm
  <2>2. CASE owner # c
    BY <1>1, <1>2, <1>4, <2>1, <2>2 DEF Reaches
  <2>3. CASE owner = c /\ grants
    <3>1. LastText(toActivity', Filtered(o))
      BY <1>2, <1>7, <1>8, <1>9, <2>1, <2>3, LastTextAppend DEF m
    <3>2. o.text # NULL => LastText(toActivity', UTF8(lorieConvertLF(o.text)))
      BY <1>6, <3>1
    <3> QED BY <1>1, <2>3, <3>2 DEF Reaches
  <2>4. CASE owner = c /\ ~grants
    <3>1. ASSUME o.text # NULL, WillAsk(asked[c], o)
          PROVE  WillAsk(asked'[c], o)
      <4>1. Head(asked[c]) # Wanted(o)
        <5>1. Asked(c, "UTF8_STRING") \in BOOLEAN
          BY DEF Asked
        <5>2. o.utf8 => lorieCheckUTF8(o.bytes, past)
          BY <1>6, <3>1
        <5>3. ~(o.utf8 = Asked(c, "UTF8_STRING"))
          BY <2>1, <2>4, <5>2 DEF Grants, grants
        <5>4. CASE o.utf8 = TRUE
          <6>1. Asked(c, "UTF8_STRING") = FALSE
            BY <5>1, <5>3, <5>4
          <6> QED BY <1>3, <5>4, <6>1 DEF Wanted
        <5>5. CASE o.utf8 = FALSE
          <6>1. Asked(c, "UTF8_STRING") = TRUE
            BY <5>1, <5>3, <5>5
          <6> QED BY <1>3, <5>5, <6>1 DEF Wanted
        <5> QED BY <1>6, <5>4, <5>5
      <4>2. Head(asked[c]) # "TARGETS"
        BY <1>3
      <4> HIDE DEF o
      <4> QED BY <1>3, <1>4, <3>1, <4>1, <4>2, WillAskTail
    <3> QED BY <1>1, <1>2, <2>1, <2>4, <3>1 DEF Reaches
  <2> QED BY <2>2, <2>3, <2>4
<1> QED BY <1>11, <1>12, <1>13, <1>14 DEF IInv

-----------------------------------------------------------------------------
(***************************************************************************)
(* The steps of the server, of the activity and of the connection.         *)
(***************************************************************************)

\* handleLorieEvents() preserves the invariant: the last event counts.
LEMMA EventsIInv ==
  ASSUME IInv, handleLorieEvents
  PROVE  IInv'
<1>1. /\ toServer # <<>> /\ toServer' = Tail(toServer)
      /\ clipboardEnabled' = Head(toServer)
      /\ owner' = owner /\ offer' = offer /\ asked' = asked
      /\ connected' = connected /\ sync' = sync /\ clip' = clip /\ torn' = torn
      /\ toActivity' = toActivity
      /\ overtaken' = overtaken /\ disturbed' = disturbed /\ copied' = copied
  BY DEF handleLorieEvents, clientVars, activityVars, ghosts
<1>2. Shapes /\ toServer \in Seq(BOOLEAN)
  BY DEF IInv, Shapes
<1>3. Head(toServer) \in BOOLEAN /\ Tail(toServer) \in Seq(BOOLEAN)
  BY <1>1, <1>2, Shifted
<1>4. IF Tail(toServer) = <<>> THEN Head(toServer) = toServer[Len(toServer)]
      ELSE Tail(toServer)[Len(Tail(toServer))] = toServer[Len(toServer)]
  <2> DEFINE q == toServer
  <2>1. q \in Seq(BOOLEAN) /\ q # <<>>
    BY <1>1, <1>2
  <2> HIDE DEF q
  <2>2. /\ Len(q) \in Nat /\ Len(q) > 0 /\ Head(q) = q[1]
        /\ Len(Tail(q)) = Len(q) - 1 /\ (Tail(q) = <<>> => Len(q) = 1)
        /\ (Tail(q) # <<>> => Len(q) > 1)
    <3>1. Len(q) \in Nat /\ Len(q) > 0 /\ Head(q) = q[1]
      BY <2>1, SMT
    <3>2. Tail(q) \in Seq(BOOLEAN) /\ Len(Tail(q)) = Len(q) - 1
      BY <2>1, SMT
    <3>3. \A s \in Seq(BOOLEAN) : Len(s) \in Nat /\ (s = <<>> <=> Len(s) = 0)
      BY SMT
    <3>4. Tail(q) = <<>> <=> Len(q) - 1 = 0
      BY <3>2, <3>3
    <3> QED BY <3>1, <3>2, <3>4, SMT
  <2>3. \A i \in 1..(Len(q) - 1) : Tail(q)[i] = q[i + 1]
    BY <2>1, SMT
  <2>4. Len(q) > 1 => Len(q) - 1 \in 1..(Len(q) - 1) /\ (Len(q) - 1) + 1 = Len(q)
    BY <2>2, SMT
  <2>5. Tail(q) = <<>> => Head(q) = q[Len(q)]
    BY <2>2
  <2>6. Tail(q) # <<>> => Tail(q)[Len(Tail(q))] = q[Len(q)]
    BY <2>2, <2>3, <2>4
  <2> QED BY <2>5, <2>6 DEF q
<1>5. connected
  BY <1>1 DEF IInv, Calm
<1>6. Shapes'
  BY <1>1, <1>2, <1>3 DEF Shapes
<1>7. Offering' /\ Calm' /\ Due'
  BY <1>1, <1>5 DEF IInv, Offering, Calm, Due, Reaches
<1>8. Synced'
  BY <1>1, <1>4 DEF IInv, Synced
<1> QED BY <1>6, <1>7, <1>8 DEF IInv

\* Another event for the activity preserves the invariant: it is no text.
LEMMA FocusIInv ==
  ASSUME IInv, DDXNotifyFocusChanged
  PROVE  IInv'
<1> DEFINE m == [type |-> "focus"]
<1>1. /\ toActivity' = IF connected THEN Append(toActivity, m) ELSE toActivity
      /\ toServer' = toServer /\ clipboardEnabled' = clipboardEnabled
      /\ owner' = owner /\ offer' = offer /\ asked' = asked
      /\ connected' = connected /\ sync' = sync /\ clip' = clip /\ torn' = torn
      /\ overtaken' = overtaken /\ disturbed' = disturbed /\ copied' = copied
  BY DEF DDXNotifyFocusChanged, ToActivity, clientVars, activityVars, ghosts
<1>2. Shapes /\ toActivity \in Seq(Message) /\ m \in Message /\ m.type # "text"
  BY DEF IInv, Shapes, Message
<1> HIDE DEF m
<1>3. toActivity' \in Seq(Message)
  BY <1>1, <1>2, Positions
<1>4. /\ \A b : LastText(toActivity, b) => LastText(toActivity', b)
      /\ NoText(toActivity) => NoText(toActivity')
  BY <1>1, <1>2, LastTextAppend, NoTextAppend
<1>5. Shapes'
  BY <1>1, <1>2, <1>3 DEF Shapes
<1>6. Offering' /\ Calm' /\ Synced'
  BY <1>1 DEF IInv, Offering, Calm, Synced
<1>7. Due'
  BY <1>1, <1>4 DEF IInv, Due, Reaches
<1> QED BY <1>5, <1>6, <1>7 DEF IInv

\* A copy in Android preserves the invariant.
LEMMA CopyIInv ==
  ASSUME IInv, NEW t \in Text, Copy(t)
  PROVE  IInv'
<1>1. /\ clip' = t /\ copied' = TRUE /\ toActivity' = toActivity
      /\ toServer' = toServer /\ clipboardEnabled' = clipboardEnabled
      /\ owner' = owner /\ offer' = offer /\ asked' = asked
      /\ connected' = connected /\ sync' = sync /\ torn' = torn
      /\ overtaken' = overtaken /\ disturbed' = disturbed
  BY DEF Copy, clientVars
<1>2. Shapes /\ t \in ClipText
  BY ClipTexts DEF IInv
<1>3. Shapes'
  BY <1>1, <1>2 DEF Shapes
<1>4. Offering' /\ Calm' /\ Synced'
  BY <1>1 DEF IInv, Offering, Calm, Synced
<1>5. Due'
  BY <1>1 DEF IInv, Due, Reaches
<1> QED BY <1>3, <1>4, <1>5 DEF IInv

\* xcallback() preserves the invariant: the text that is read is the last, or the
\* stream is out of step.
LEMMA CallbackIInv ==
  ASSUME IInv, xcallback
  PROVE  IInv'
<1> DEFINE h == Head(toActivity)
           stored == ~torn /\ h.type = "text" /\ h.bytes # <<>>
<1>1. /\ toActivity # <<>> /\ toActivity' = Tail(toActivity)
      /\ clip' = IF stored THEN Decode(h.bytes) ELSE clip
      /\ torn' = (torn \/ (stored /\ Tail(toActivity) # <<>>))
      /\ copied' = (copied /\ ~stored)
      /\ owner' = owner /\ clipboardEnabled' = clipboardEnabled
      /\ offer' = offer /\ asked' = asked
      /\ connected' = connected /\ sync' = sync /\ toServer' = toServer
      /\ overtaken' = overtaken /\ disturbed' = disturbed
  BY DEF xcallback, clientVars
<1>2. Shapes /\ toActivity \in Seq(Message)
  BY DEF IInv, Shapes
<1>3. toActivity' \in Seq(Message)
  BY <1>1, <1>2, Shifted
<1>4. /\ \A b : LastText(toActivity, b) =>
              \/ LastText(toActivity', b)
              \/ h.type = "text" /\ h.bytes = b /\ NoText(toActivity')
      /\ NoText(toActivity) => NoText(toActivity') /\ h.type # "text"
  BY <1>1, <1>2, LastTextTail, NoTextTail
<1>5. stored \in BOOLEAN
  OBVIOUS
<1>6. \A b : stored /\ ~torn' => ~LastText(toActivity', b)
  <2>1. DOMAIN <<>> = {}
    BY SMT
  <2> QED BY <1>1, <2>1 DEF LastText
<1>7. Shapes'
  <2>1. clip' \in ClipText \cup {NULL}
    BY <1>1, <1>2, Decodes DEF Shapes
  <2>2. torn' \in BOOLEAN /\ copied' \in BOOLEAN
    BY <1>1
  <2> QED BY <1>1, <1>2, <1>3, <2>1, <2>2 DEF Shapes
<1>8. Offering' /\ Calm' /\ Synced'
  BY <1>1 DEF IInv, Offering, Calm, Synced
<1>9. Due'
  <2> DEFINE o == offer[owner]
             r == lorieConvertLF(o.text)
  <2>1. SUFFICES ASSUME owner \in Client, ~overtaken, ~disturbed, ~torn', o.text # NULL,
                        r # <<>>, ~WillAsk(asked[owner], o)
                 PROVE  \/ LastText(toActivity', UTF8(r))
                        \/ NoText(toActivity') /\ (copied' \/ clip' = r)
    BY <1>1 DEF Due, Reaches
  <2>2. ~torn
    BY <1>1, <2>1
  <2>3. LastText(toActivity, UTF8(r)) \/ (NoText(toActivity) /\ (copied \/ clip = r))
    BY <2>1, <2>2 DEF IInv, Due, Reaches
  <2>4. r \in ClipText
    <3>1. o \in Offer
      BY <2>1 DEF IInv, Offering, Shapes
    <3>2. o.text \in Text
      BY <2>1, <3>1, Offers
    <3> QED BY <3>2, ClipTexts
  <2> HIDE DEF r, h, o
  <2>5. Decode(UTF8(r)) = r /\ UTF8(r) # <<>>
    <3>1. r \in Seq(CodePoint) /\ <<>> \in Seq(CodePoint) /\ UTF8(<<>>) = <<>>
      <4>1. <<>> \in Seq(CodePoint)
        BY SMT
      <4> QED BY <2>4, <4>1, ClipTexts, UTF8Append
    <3>2. UTF8(r) = UTF8(<<>>) => r = <<>>
      BY <3>1, UTF8Injective
    <3> QED BY <2>1, <2>4, <3>1, <3>2, Decodes
  <2>6. CASE NoText(toActivity) /\ (copied \/ clip = r)
    BY <1>1, <1>4, <2>6
  <2>7. CASE LastText(toActivity, UTF8(r))
    BY <1>1, <1>4, <2>2, <2>5, <2>7
  <2> QED BY <2>3, <2>6, <2>7
<1> QED BY <1>7, <1>8, <1>9 DEF IInv

\* reloadPreferences() preserves the invariant: the new preference is the last
\* that is sent, if there is a connection.
LEMMA PreferencesIInv ==
  ASSUME IInv, reloadPreferences
  PROVE  IInv'
<1>1. /\ sync' = ~sync /\ disturbed' = TRUE
      /\ toServer' = IF connected THEN Append(toServer, sync') ELSE toServer
      /\ owner' = owner /\ clipboardEnabled' = clipboardEnabled
      /\ offer' = offer /\ asked' = asked /\ connected' = connected /\ clip' = clip
      /\ torn' = torn /\ toActivity' = toActivity
      /\ overtaken' = overtaken /\ copied' = copied
  BY DEF reloadPreferences, clientVars
<1>2. Shapes /\ toServer \in Seq(BOOLEAN) /\ sync' \in BOOLEAN
  BY <1>1 DEF IInv, Shapes
<1>3. /\ Append(toServer, sync') \in Seq(BOOLEAN) /\ Append(toServer, sync') # <<>>
      /\ Append(toServer, sync')[Len(Append(toServer, sync'))] = sync'
  BY <1>2, SMT
<1>4. Shapes'
  BY <1>1, <1>2, <1>3 DEF Shapes
<1>5. Offering' /\ Calm' /\ Due'
  BY <1>1 DEF IInv, Offering, Calm, Due
<1>6. Synced'
  BY <1>1, <1>3 DEF Synced
<1> QED BY <1>4, <1>5, <1>6 DEF IInv

\* A lost connection preserves the invariant.
LEMMA HangUpIInv ==
  ASSUME IInv, HangUp
  PROVE  IInv'
<1>1. /\ connected' = FALSE /\ torn' = FALSE /\ toServer' = <<>> /\ toActivity' = <<>>
      /\ clipboardEnabled' = FALSE /\ disturbed' = TRUE
      /\ owner' = owner /\ offer' = offer /\ asked' = asked
      /\ sync' = sync /\ clip' = clip /\ overtaken' = overtaken /\ copied' = copied
  BY DEF HangUp, clientVars
<1>2. Shapes /\ <<>> \in Seq(BOOLEAN) /\ <<>> \in Seq(Message)
  <2>1. <<>> \in Seq(BOOLEAN) /\ <<>> \in Seq(Message)
    BY SMT
  <2> QED BY <2>1 DEF IInv
<1>3. Shapes'
  BY <1>1, <1>2 DEF Shapes
<1>4. Offering' /\ Calm' /\ Synced' /\ Due'
  BY <1>1 DEF IInv, Offering, Calm, Synced, Due
<1> QED BY <1>3, <1>4 DEF IInv

\* tryConnect() preserves the invariant: the preference is sent.
LEMMA ConnectIInv ==
  ASSUME IInv, tryConnect
  PROVE  IInv'
<1>1. /\ ~connected /\ connected' = TRUE /\ toServer' = <<sync>>
      /\ owner' = owner /\ clipboardEnabled' = clipboardEnabled
      /\ offer' = offer /\ asked' = asked
      /\ sync' = sync /\ clip' = clip /\ torn' = torn /\ toActivity' = toActivity
      /\ overtaken' = overtaken /\ disturbed' = disturbed /\ copied' = copied
  BY DEF tryConnect, clientVars, ghosts
<1>2. Shapes /\ sync \in BOOLEAN
  BY DEF IInv, Shapes
<1>3. <<sync>> \in Seq(BOOLEAN) /\ <<sync>> # <<>> /\ <<sync>>[Len(<<sync>>)] = sync
  BY <1>2, SMT
<1>4. Shapes'
  BY <1>1, <1>2, <1>3 DEF Shapes
<1>5. disturbed \/ owner \notin Client
  BY <1>1 DEF IInv, Calm
<1>6. Offering' /\ Calm' /\ Due'
  BY <1>1, <1>5 DEF IInv, Offering, Calm, Due
<1>7. Synced'
  BY <1>1, <1>3 DEF Synced
<1> QED BY <1>4, <1>6, <1>7 DEF IInv

-----------------------------------------------------------------------------
(***************************************************************************)
(* The theorems.                                                           *)
(***************************************************************************)

\* Every step preserves the invariant.
LEMMA NextIInv == IInv /\ [Next]_vars => IInv'
<1> SUFFICES ASSUME IInv, [Next]_vars PROVE IInv'
  BY SMT
<1>1. CASE handleLorieEvents \/ DDXNotifyFocusChanged \/ xcallback
  BY <1>1, EventsIInv, FocusIInv, CallbackIInv
<1>2. CASE reloadPreferences \/ HangUp \/ tryConnect
  BY <1>2, PreferencesIInv, HangUpIInv, ConnectIInv
<1>3. CASE \E t \in Text : Copy(t)
  BY <1>3, CopyIInv
<1>4. ASSUME NEW c \in Client, ClientStep(c)
      PROVE  IInv'
  BY <1>4, HandleTargetsIInv, HandleTextIInv, RefuseIInv, GoneIInv, SelectionIInv
     DEF ClientStep
<1>5. CASE UNCHANGED vars
  <2>1. /\ owner' = owner /\ clipboardEnabled' = clipboardEnabled
        /\ offer' = offer /\ asked' = asked /\ torn' = torn
        /\ connected' = connected /\ sync' = sync /\ clip' = clip
        /\ toServer' = toServer /\ toActivity' = toActivity
        /\ overtaken' = overtaken /\ disturbed' = disturbed /\ copied' = copied
    BY <1>5 DEF vars, clientVars, activityVars, ghosts
  <2>2. Shapes'
    BY <2>1 DEF IInv, Shapes
  <2>3. Offering' /\ Calm' /\ Synced'
    BY <2>1 DEF IInv, Offering, Calm, Synced
  <2>4. Due'
    BY <2>1 DEF IInv, Due, Reaches
  <2> QED BY <2>2, <2>3, <2>4 DEF IInv
<1> QED BY <1>1, <1>2, <1>3, <1>4, <1>5 DEF Next

\* The inductive invariant of the clipboard holds in every reachable state, for
\* any clients, texts and bounds.
LEMMA Invariance == Spec => []IInv
BY InitIInv, NextIInv, PTL DEF Spec

\* The type invariant holds for any clients and texts.
THEOREM TypeCorrect == Spec => []TypeOK
<1>1. IInv => TypeOK
  <2> SUFFICES ASSUME IInv PROVE TypeOK
    BY SMT
  <2>1. Shapes
    BY DEF IInv
  <2>2. \A c \in Client : Range(asked[c]) \subseteq Target
    <3> SUFFICES ASSUME NEW c \in Client PROVE Range(asked[c]) \subseteq Target
      OBVIOUS
    <3> DEFINE q == asked[c]
    <3>1. q \in Seq(Target)
      BY <2>1 DEF Shapes
    <3> HIDE DEF q
    <3>2. \A i \in DOMAIN q : q[i] \in Target
      BY <3>1, SMT
    <3>3. Range(q) \subseteq Target
      BY <3>2 DEF Range
    <3> QED BY <3>3 DEF q
  <2> QED BY <2>1, <2>2 DEF TypeOK, Shapes
<1> QED BY <1>1, Invariance, PTL

\* For any clients and texts, when all has been said Android has the text of the
\* owner of the selection, decoded from either target (lorieHandleSelection()).
THEOREM AndroidAlwaysHasOwnersText == Spec => []AndroidHasOwnersText
<1>1. IInv => AndroidHasOwnersText
  <2> SUFFICES ASSUME IInv, Quiet, owner \in Client, ~overtaken, ~disturbed, ~torn, ~copied
               PROVE  \/ offer[owner].text = NULL
                      \/ lorieConvertLF(offer[owner].text) \in {clip, <<>>}
    BY DEF AndroidHasOwnersText
  <2>1. \A b : ~LastText(toActivity, b)
    <3>1. DOMAIN toActivity = {}
      <4>1. toActivity = <<>>
        BY DEF Quiet
      <4> QED BY <4>1, SMT
    <3> QED BY <3>1 DEF LastText
  <2>2. ~WillAsk(asked[owner], offer[owner])
    <3>1. asked[owner] = <<>>
      BY DEF Quiet
    <3>2. DOMAIN <<>> = {}
      BY SMT
    <3>3. DOMAIN asked[owner] = {}
      BY <3>1, <3>2
    <3> QED BY <3>3 DEF WillAsk
  <2> QED BY <2>1, <2>2 DEF IInv, Due, Reaches
<1> QED BY <1>1, Invariance, PTL

\* For any texts, what is on its way to Android is a text that a client offered, in
\* UTF-8 and without carriage returns (lorieHandleSelection()).
THEOREM SentAlwaysIsText == Spec => []SentIsText
<1>1. IInv => SentIsText
  <2> SUFFICES ASSUME IInv, NEW i \in DOMAIN toActivity,
                      toActivity[i].type = "text", toActivity[i].text # NULL
               PROVE  toActivity[i].bytes = UTF8(lorieConvertLF(toActivity[i].text))
    BY DEF SentIsText
  <2>1. toActivity \in Seq(Message)
    BY DEF IInv, Shapes
  <2>2. toActivity[i] \in Message
    BY <2>1, SMT
  <2> QED BY <2>2, ActivityTypes
<1> QED BY <1>1, Invariance, PTL

\* Whatever preferences were changed and connections lost, the server ends up with
\* the preference (reloadPreferences(), lorieEnableClipboardSync()).
THEOREM SyncAlwaysAgrees == Spec => []SyncAgrees
<1>1. IInv => SyncAgrees
  BY DEF IInv, Synced, SyncAgrees
<1> QED BY <1>1, Invariance, PTL

=============================================================================

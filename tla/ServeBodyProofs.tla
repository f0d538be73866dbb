--------------------------- MODULE ServeBodyProofs ---------------------------
(***************************************************************************)
(* Proofs about the bytes of a POST in Serve, for any message, buffer size *)
(* and token limit: what strtok() leaves of the message, what the          *)
(* tokenizer takes for the body, and what gets into the file.              *)
(*                                                                         *)
(* The tokenizer is a recursive function.  What it yields is proved by     *)
(* induction over the set of the steps at which it is true.                *)
(***************************************************************************)
EXTENDS ServeProofs, WellFoundedInduction

\* What is left of b from place j on.
From(b, j) == SubSeq(b, j, Len(b))

\* c is a line of b, behind its first h symbols, and what remains behind the line.
Piece(b, h, c) ==
  \E i \in h + 1 .. Len(b) + 1, e \in Nat, j \in h + 1 .. Len(b) + 2 :
    /\ i - 1 <= e /\ e <= Len(b)
    /\ c.token = SubSeq(b, i, e) /\ \A x \in i .. e : b[x] # LF
    /\ c.content = From(b, j)

\* f is the function of LastToken(b), up to m.
Chops(b, m, f) == f = [n \in 0 .. m |-> IF n = 0 THEN ChopLine(b) ELSE NextToken(f[n - 1])]
-----------------------------------------------------------------------------
\* Every set of numbers that is not empty has a least element.
LEMMA Least ==
  ASSUME NEW T, T \subseteq Nat, T # {}
  PROVE  \E x \in T : \A y \in T : x <= y
<1> DEFINE R == OpToRel(<, Nat)
<1>1. IsWellFoundedOn(R, Nat)
  BY NatLessThanWellFounded
<1>2. \A x, y \in Nat : y < x => <<y, x>> \in R
  BY DEF OpToRel
<1> HIDE DEF R
<1>3. PICK x \in T : \A y \in T : ~ (<<y, x>> \in R)
  BY <1>1, WFMin
<1>4. x \in Nat /\ \A y \in T : y \in Nat /\ ~(y < x)
  BY <1>2, <1>3
<1>5. \A y \in T : x <= y
  BY <1>4
<1> QED
  BY <1>3, <1>5

\* Induction over the numbers, for a set instead of a predicate.
LEMMA SetInduction ==
  ASSUME NEW T, 0 \in T, \A n \in Nat : n \in T => n + 1 \in T
  PROVE  Nat \subseteq T
<1> SUFFICES ASSUME Nat \ T # {} PROVE FALSE
  OBVIOUS
<1>1. PICK x \in Nat \ T : \A y \in Nat \ T : x <= y
  BY Least
<1>2. x - 1 \in Nat /\ x - 1 \in T
  BY <1>1
<1> QED
  BY <1>1, <1>2

\* Min() of places in a sequence is the first of them.
LEMMA MinIsLeast ==
  ASSUME NEW S, S \subseteq Nat, S # {}
  PROVE  Min(S) \in S /\ \A y \in S : Min(S) <= y
<1>1. \E x \in S : \A y \in S : x <= y
  BY Least
<1> QED
  BY <1>1 DEF Min

\* Max() of places in a sequence is the last of them.
LEMMA MaxIsGreatest ==
  ASSUME NEW n \in Nat, NEW S, S \subseteq 1 .. n, S # {}
  PROVE  Max(S) \in S /\ \A y \in S : Max(S) >= y
<1> DEFINE T == {n - x : x \in S}
<1>1. T \subseteq Nat /\ T # {}
  OBVIOUS
<1>2. PICK t \in T : \A y \in T : t <= y
  BY <1>1, Least
<1>3. PICK x \in S : t = n - x
  BY <1>2
<1>4. \A y \in S : n - x <= n - y
  BY <1>2, <1>3
<1>5. \A y \in S : x >= y
  BY <1>4
<1>6. \E z \in S : \A y \in S : z >= y
  BY <1>5
<1> QED
  BY <1>6 DEF Max
-----------------------------------------------------------------------------
\* nob_sv_chop_by_delim(): the line up to the first LF, and what is behind it.
LEMMA ChopFacts ==
  ASSUME NEW S, NEW s \in Seq(S)
  PROVE  \E i \in 1 .. Len(s) + 1 :
           /\ ChopLine(s) = [token |-> SubSeq(s, 1, i - 1), content |-> SubSeq(s, i + 1, Len(s))]
           /\ \A x \in 1 .. i - 1 : s[x] # LF
           /\ i <= Len(s) => s[i] = LF
<1> DEFINE I == {x \in 1 .. Len(s) : s[x] = LF}
           i == IF I # {} THEN Min(I) ELSE Len(s) + 1
<1>1. Len(s) \in Nat /\ I \subseteq Nat
  OBVIOUS
<1>2. I # {} => Min(I) \in I /\ \A y \in I : Min(I) <= y
  <2> HIDE DEF I
  <2> QED  BY <1>1, MinIsLeast
<1>3. First(s, LAMBDA c : c = LF) = i
  BY <1>1, <1>2 DEF First, SelectInSeq
<1>4. ChopLine(s) = [token |-> SubSeq(s, 1, i - 1), content |-> SubSeq(s, i + 1, Len(s))]
  BY <1>3 DEF ChopLine
<1>5. /\ i \in 1 .. Len(s) + 1
      /\ \A x \in 1 .. i - 1 : s[x] # LF
      /\ i <= Len(s) => s[i] = LF
  <2>1. CASE I = {}
    BY <1>1, <2>1
  <2>2. CASE I # {}
    <3>1. i \in 1 .. Len(s) /\ s[i] = LF /\ \A y \in 1 .. Len(s) : s[y] = LF => i <= y
      BY <1>2, <2>2
    <3> HIDE DEF i, I
    <3> QED  BY <1>1, <3>1
  <2> QED  BY <2>1, <2>2
<1> QED
  BY <1>4, <1>5

\* nob_sv_trim_left(): what is left from the first symbol on that is no white space.
LEMMA TrimFacts ==
  ASSUME NEW S, NEW s \in Seq(S)
  PROVE  \E i \in 1 .. Len(s) + 1 :
           /\ TrimLeft(s) = SubSeq(s, i, Len(s))
           /\ \A x \in 1 .. i - 1 : s[x] \in Spaces
           /\ i <= Len(s) => s[i] \notin Spaces
<1> DEFINE I == {x \in 1 .. Len(s) : s[x] \notin Spaces}
           i == IF I # {} THEN Min(I) ELSE Len(s) + 1
<1>1. Len(s) \in Nat /\ I \subseteq Nat
  OBVIOUS
<1>2. I # {} => Min(I) \in I /\ \A y \in I : Min(I) <= y
  <2> HIDE DEF I
  <2> QED  BY <1>1, MinIsLeast
<1>3. First(s, LAMBDA c : c \notin Spaces) = i
  BY <1>1, <1>2 DEF First, SelectInSeq
<1>4. TrimLeft(s) = SubSeq(s, i, Len(s))
  BY <1>3 DEF TrimLeft
<1>5. /\ i \in 1 .. Len(s) + 1
      /\ \A x \in 1 .. i - 1 : s[x] \in Spaces
      /\ i <= Len(s) => s[i] \notin Spaces
  <2>1. CASE I = {}
    BY <1>1, <2>1
  <2>2. CASE I # {}
    <3>1. i \in 1 .. Len(s) /\ s[i] \notin Spaces /\ \A y \in 1 .. Len(s) : s[y] \notin Spaces => i <= y
      BY <1>2, <2>2
    <3> HIDE DEF i, I
    <3> QED  BY <1>1, <3>1
  <2> QED  BY <2>1, <2>2
<1> QED
  BY <1>4, <1>5

\* The end of a sequence, place by place.
LEMMA FromFacts ==
  ASSUME NEW S, NEW b \in Seq(S), NEW j \in 1 .. Len(b) + 2
  PROVE  /\ From(b, j) \in Seq(S)
         /\ Len(From(b, j)) = IF j <= Len(b) THEN Len(b) - j + 1 ELSE 0
         /\ \A x \in 1 .. Len(From(b, j)) : From(b, j)[x] = b[j + x - 1]
         /\ From(b, j) = <<>> <=> j > Len(b)
<1>1. Len(b) \in Nat /\ j \in Int /\ \A x \in j .. Len(b) : b[x] \in S
  OBVIOUS
<1>2. /\ From(b, j) \in Seq(S)
      /\ Len(From(b, j)) = IF j <= Len(b) THEN Len(b) - j + 1 ELSE 0
      /\ \A x \in 1 .. Len(b) - j + 1 : From(b, j)[x] = b[j + x - 1]
  BY <1>1, SubSeqProperties DEF From
<1>3. \A x \in 1 .. Len(From(b, j)) : From(b, j)[x] = b[j + x - 1]
  BY <1>1, <1>2
<1>4. From(b, j) = <<>> <=> j > Len(b)
  BY <1>1, <1>2
<1> QED
  BY <1>2, <1>3, <1>4

\* A part of the end of a sequence is a part of the sequence.
LEMMA PartOfEnd ==
  ASSUME NEW S, NEW b \in Seq(S), NEW j \in 1 .. Len(b) + 1,
         NEW m \in Nat, m >= 1, NEW n \in Nat, n <= Len(From(b, j))
  PROVE  SubSeq(From(b, j), m, n) = SubSeq(b, j + m - 1, j + n - 1)
<1>1. Len(b) \in Nat /\ Len(From(b, j)) = Len(b) - j + 1
  BY FromFacts
<1>2. CASE n < m
  <2>1. SubSeq(From(b, j), m, n) = <<>>
    BY <1>2, SubSeqEmpty
  <2>2. SubSeq(b, j + m - 1, j + n - 1) = <<>>
    BY <1>1, <1>2, SubSeqEmpty
  <2> QED  BY <2>1, <2>2
<1>3. CASE m <= n
  <2>1. j \in 1 .. Len(b) /\ Len(b) \in 1 .. Len(b)
        /\ m \in 1 .. Len(b) - j + 1 /\ n \in 1 .. Len(b) - j + 1
    BY <1>1, <1>3
  <2> QED  BY <2>1, SubSeqOfSubSeq DEF From
<1> QED
  BY <1>2, <1>3

\* Chopping a line off the end of b.
LEMMA ChopFrom ==
  ASSUME NEW S, NEW b \in Seq(S), NEW j \in 1 .. Len(b) + 1
  PROVE  \E e \in Nat :
           /\ j - 1 <= e /\ e <= Len(b)
           /\ ChopLine(From(b, j)).token = SubSeq(b, j, e)
           /\ ChopLine(From(b, j)).content = From(b, e + 2)
           /\ \A x \in j .. e : b[x] # LF
           /\ e < Len(b) => b[e + 1] = LF
<1> DEFINE s == From(b, j)
<1>1. /\ Len(b) \in Nat /\ s \in Seq(S) /\ Len(s) = Len(b) - j + 1
      /\ \A x \in 1 .. Len(s) : s[x] = b[j + x - 1]
  BY FromFacts
<1> HIDE DEF s
<1>2. PICK i \in 1 .. Len(s) + 1 :
        /\ ChopLine(s) = [token |-> SubSeq(s, 1, i - 1), content |-> SubSeq(s, i + 1, Len(s))]
        /\ \A x \in 1 .. i - 1 : s[x] # LF
        /\ i <= Len(s) => s[i] = LF
  BY <1>1, ChopFacts
<1> DEFINE e == j + i - 2
<1>3. e \in Nat /\ j - 1 <= e /\ e <= Len(b)
  BY <1>1
<1>4. SubSeq(s, 1, i - 1) = SubSeq(b, j, e)
  <2>1. i - 1 \in Nat /\ i - 1 <= Len(s) /\ j + 1 - 1 = j /\ j + (i - 1) - 1 = e
    BY <1>1
  <2>2. \A m, n \in Nat : m >= 1 /\ n <= Len(s) => SubSeq(s, m, n) = SubSeq(b, j + m - 1, j + n - 1)
    BY PartOfEnd DEF s
  <2>3. SubSeq(s, 1, i - 1) = SubSeq(b, j + 1 - 1, j + (i - 1) - 1)
    BY <2>1, <2>2
  <2> QED  BY <2>1, <2>3
<1>5. SubSeq(s, i + 1, Len(s)) = From(b, e + 2)
  <2>1. i + 1 \in Nat /\ i + 1 >= 1 /\ Len(s) \in Nat /\ j + (i + 1) - 1 = e + 2 /\ j + Len(s) - 1 = Len(b)
    BY <1>1
  <2> QED  BY <2>1, PartOfEnd DEF s, From
<1>6. \A x \in j .. e : b[x] # LF
  <2> TAKE x \in j .. e
  <2>1. x - j + 1 \in 1 .. i - 1 /\ x - j + 1 \in 1 .. Len(s) /\ j + (x - j + 1) - 1 = x
    BY <1>1
  <2> QED  BY <1>1, <1>2, <2>1
<1>7. e < Len(b) => b[e + 1] = LF
  <2> HAVE e < Len(b)
  <2>1. i \in 1 .. Len(s) /\ j + i - 1 = e + 1
    BY <1>1
  <2>2. s[i] = LF /\ s[i] = b[j + i - 1]
    BY <1>1, <1>2, <2>1
  <2> QED  BY <2>1, <2>2
<1> HIDE DEF e
<1> QED
  BY <1>2, <1>3, <1>4, <1>5, <1>6, <1>7 DEF s

\* Trimming the end of b.
LEMMA TrimFrom ==
  ASSUME NEW S, NEW b \in Seq(S), NEW j \in 1 .. Len(b) + 1
  PROVE  \E k \in j .. Len(b) + 1 :
           /\ TrimLeft(From(b, j)) = From(b, k)
           /\ \A x \in j .. k - 1 : b[x] \in Spaces
           /\ k <= Len(b) => b[k] \notin Spaces
<1> DEFINE s == From(b, j)
<1>1. /\ Len(b) \in Nat /\ s \in Seq(S) /\ Len(s) = Len(b) - j + 1
      /\ \A x \in 1 .. Len(s) : s[x] = b[j + x - 1]
  BY FromFacts
<1> HIDE DEF s
<1>2. PICK i \in 1 .. Len(s) + 1 :
        /\ TrimLeft(s) = SubSeq(s, i, Len(s))
        /\ \A x \in 1 .. i - 1 : s[x] \in Spaces
        /\ i <= Len(s) => s[i] \notin Spaces
  BY <1>1, TrimFacts
<1> DEFINE k == j + i - 1
<1>3. k \in j .. Len(b) + 1
  BY <1>1
<1>4. SubSeq(s, i, Len(s)) = From(b, k)
  <2>1. i \in Nat /\ i >= 1 /\ Len(s) \in Nat /\ j + Len(s) - 1 = Len(b)
    BY <1>1
  <2> QED  BY <2>1, PartOfEnd DEF s, From
<1>5. \A x \in j .. k - 1 : b[x] \in Spaces
  <2> TAKE x \in j .. k - 1
  <2>1. x - j + 1 \in 1 .. i - 1 /\ x - j + 1 \in 1 .. Len(s) /\ j + (x - j + 1) - 1 = x
    BY <1>1
  <2> QED  BY <1>1, <1>2, <2>1
<1>6. k <= Len(b) => b[k] \notin Spaces
  BY <1>1, <1>2
<1> HIDE DEF k
<1> QED
  BY <1>2, <1>3, <1>4, <1>5, <1>6 DEF s

-----------------------------------------------------------------------------
\* The first line is a piece of the buffer.
LEMMA FirstPiece ==
  ASSUME NEW S, NEW b \in Seq(S)
  PROVE  Piece(b, 0, ChopLine(b))
<1>1. Len(b) \in Nat /\ 1 \in 1 .. Len(b) + 1
  OBVIOUS
<1>2. From(b, 1) = b
  BY SubSeqFull DEF From
<1>3. PICK e \in Nat :
        /\ e <= Len(b)
        /\ ChopLine(From(b, 1)).token = SubSeq(b, 1, e)
        /\ ChopLine(From(b, 1)).content = From(b, e + 2)
        /\ \A x \in 1 .. e : b[x] # LF
  BY <1>1, ChopFrom
<1>4. 1 \in 0 + 1 .. Len(b) + 1 /\ e + 2 \in 0 + 1 .. Len(b) + 2 /\ 1 - 1 <= e
  BY <1>1, <1>3
<1> QED
  BY <1>2, <1>3, <1>4 DEF Piece

\* A line behind a piece is one.
LEMMA LineBehind ==
  ASSUME NEW S, NEW b \in Seq(S), NEW h \in Nat, NEW j \in h + 1 .. Len(b) + 1
  PROVE  Piece(b, h, ChopLine(TrimLeft(From(b, j))))
<1>1. Len(b) \in Nat /\ j \in 1 .. Len(b) + 1
  OBVIOUS
<1>2. PICK k \in j .. Len(b) + 1 : TrimLeft(From(b, j)) = From(b, k)
  BY <1>1, TrimFrom
<1>3. k \in 1 .. Len(b) + 1
  BY <1>1
<1>4. PICK e \in Nat :
        /\ k - 1 <= e /\ e <= Len(b)
        /\ ChopLine(From(b, k)).token = SubSeq(b, k, e)
        /\ ChopLine(From(b, k)).content = From(b, e + 2)
        /\ \A x \in k .. e : b[x] # LF
  BY <1>3, ChopFrom
<1>5. k \in h + 1 .. Len(b) + 1 /\ e + 2 \in h + 1 .. Len(b) + 2
  BY <1>1, <1>4
<1> QED
  BY <1>2, <1>4, <1>5 DEF Piece

\* The tokenizer never goes back.
LEMMA NextPiece ==
  ASSUME NEW S, NEW b \in Seq(S), NEW h \in Nat, NEW c, Piece(b, h, c)
  PROVE  Piece(b, h, NextToken(c))
<1>1. PICK j \in h + 1 .. Len(b) + 2 : c.content = From(b, j)
  BY DEF Piece
<1>2. Len(b) \in Nat /\ j \in 1 .. Len(b) + 2
  OBVIOUS
<1>3. CASE c.content = <<>>
  BY <1>3 DEF NextToken
<1>4. CASE c.content # <<>>
  <2>1. j <= Len(b)
    BY <1>1, <1>2, <1>4, FromFacts
  <2>2. j \in h + 1 .. Len(b) + 1
    BY <1>2, <2>1
  <2>3. Piece(b, h, ChopLine(TrimLeft(From(b, j))))
    BY <2>2, LineBehind
  <2> QED  BY <1>1, <1>4, <2>3 DEF NextToken
<1> QED
  BY <1>3, <1>4

\* The steps of the tokenizer, one by one.
LEMMA ChopsSteps ==
  ASSUME NEW b, NEW m \in Nat, NEW f, Chops(b, m, f)
  PROVE  /\ f[0] = ChopLine(b)
         /\ \A n \in Nat : n < m => f[n + 1] = NextToken(f[n])
<1>1. \A n \in 0 .. m : f[n] = IF n = 0 THEN ChopLine(b) ELSE NextToken(f[n - 1])
  BY DEF Chops
<1>2. f[0] = ChopLine(b)
  BY <1>1
<1>3. ASSUME NEW n \in Nat, n < m
      PROVE  f[n + 1] = NextToken(f[n])
  <2>1. n + 1 \in 0 .. m /\ n + 1 # 0 /\ n + 1 - 1 = n
    BY <1>3
  <2>2. f[n + 1] = NextToken(f[n + 1 - 1])
    BY <1>1, <2>1
  <2> QED  BY <2>1, <2>2
<1> QED
  BY <1>2, <1>3

\* The recursive definition defines a function.
LEMMA ChopsExist ==
  ASSUME NEW b
  PROVE  \A m \in Nat : \E f : Chops(b, m, f)
<1> DEFINE T == {m \in Nat : \E f : Chops(b, m, f)}
<1>1. 0 \in T
  <2> DEFINE f == [n \in 0 .. 0 |-> ChopLine(b)]
  <2>1. Chops(b, 0, f)
    BY DEF Chops
  <2> QED  BY <2>1
<1>2. ASSUME NEW m \in Nat, m \in T
      PROVE  m + 1 \in T
  <2>1. PICK f : Chops(b, m, f)
    BY <1>2
  <2> DEFINE g == [n \in 0 .. m + 1 |-> IF n <= m THEN f[n] ELSE NextToken(f[m])]
  <2>2. \A n \in 0 .. m : f[n] = IF n = 0 THEN ChopLine(b) ELSE NextToken(f[n - 1])
    BY <2>1 DEF Chops
  <2>3. ASSUME NEW n \in 0 .. m + 1
        PROVE  g[n] = IF n = 0 THEN ChopLine(b) ELSE NextToken(g[n - 1])
    <3>1. CASE n = 0
      BY <2>2, <3>1
    <3>2. CASE n # 0 /\ n <= m
      <4>1. n \in 0 .. m /\ n - 1 \in 0 .. m /\ g[n] = f[n] /\ g[n - 1] = f[n - 1]
        BY <3>2
      <4> QED  BY <2>2, <3>2, <4>1
    <3>3. CASE n = m + 1
      <4>1. n # 0 /\ n - 1 = m /\ g[n] = NextToken(f[m]) /\ g[m] = f[m]
        BY <3>3
      <4> QED  BY <4>1
    <3> QED  BY <3>1, <3>2, <3>3
  <2>4. g = [n \in 0 .. m + 1 |-> IF n = 0 THEN ChopLine(b) ELSE NextToken(g[n - 1])]
    <3> DEFINE h == [n \in 0 .. m + 1 |-> IF n = 0 THEN ChopLine(b) ELSE NextToken(g[n - 1])]
    <3>1. \A n \in 0 .. m + 1 : g[n] = h[n]
      BY <2>3
    <3>2. g = [n \in 0 .. m + 1 |-> g[n]] /\ h = [n \in 0 .. m + 1 |-> h[n]]
      OBVIOUS
    <3> HIDE DEF g, h
    <3>3. g = h
      BY <3>1, <3>2
    <3> QED  BY <3>3 DEF h
  <2>5. Chops(b, m + 1, g)
    BY <2>4 DEF Chops
  <2> QED  BY <2>5
<1> HIDE DEF T
<1>3. Nat \subseteq T
  BY <1>1, <1>2, SetInduction
<1> QED
  BY <1>3 DEF T

\* LastToken() is the token of the last step.
LEMMA LastOfChops ==
  ASSUME NEW b
  PROVE  \E f : Chops(b, TokenLimit, f) /\ LastToken(b) = f[TokenLimit].token
<1> DEFINE f == CHOOSE g : g = [n \in 0 .. TokenLimit |->
                                 IF n = 0 THEN ChopLine(b) ELSE NextToken(g[n - 1])]
<1>1. LastToken(b) = f[TokenLimit].token
  BY DEF LastToken
<1>2. \E g : g = [n \in 0 .. TokenLimit |-> IF n = 0 THEN ChopLine(b) ELSE NextToken(g[n - 1])]
  BY SizesAssumption, ChopsExist DEF Chops
<1>3. Chops(b, TokenLimit, f)
  BY <1>2 DEF Chops
<1> QED
  BY <1>1, <1>3

\* From a step on whose line lies behind the first h symbols, so do all that follow.
LEMMA PieceFrom ==
  ASSUME NEW S, NEW b \in Seq(S), NEW f, Chops(b, TokenLimit, f),
         NEW h \in Nat, NEW k \in Nat, k <= TokenLimit, Piece(b, h, f[k])
  PROVE  Piece(b, h, f[TokenLimit])
<1>1. TokenLimit \in Nat
  BY SizesAssumption
<1>0. f[0] = ChopLine(b) /\ \A m \in Nat : m < TokenLimit => f[m + 1] = NextToken(f[m])
  BY <1>1, ChopsSteps
<1> DEFINE T == {n \in Nat : k + n <= TokenLimit => Piece(b, h, f[k + n])}
<1>2. 0 \in T
  OBVIOUS
<1>3. ASSUME NEW n \in Nat, n \in T
      PROVE  n + 1 \in T
  <2> SUFFICES ASSUME k + (n + 1) <= TokenLimit
               PROVE  Piece(b, h, f[k + (n + 1)])
    BY <1>1
  <2>1. k + n \in Nat /\ k + n < TokenLimit /\ k + (n + 1) = k + n + 1
    BY <1>1
  <2>2. k + n <= TokenLimit
    BY <1>1, <2>1
  <2>3. Piece(b, h, f[k + n])
    <3>1. k + n <= TokenLimit => Piece(b, h, f[k + n])
      BY <1>3
    <3> QED  BY <2>2, <3>1
  <2>4. f[k + n + 1] = NextToken(f[k + n])
    BY <2>1, <1>0, Zenon
  <2>5. Piece(b, h, NextToken(f[k + n]))
    BY <2>3, NextPiece
  <2> QED  BY <2>1, <2>4, <2>5
<1> HIDE DEF T
<1>4. Nat \subseteq T
  BY <1>2, <1>3, SetInduction
<1>5. TokenLimit - k \in Nat /\ k + (TokenLimit - k) = TokenLimit /\ k + (TokenLimit - k) <= TokenLimit
  BY <1>1
<1>6. Piece(b, h, f[k + (TokenLimit - k)])
  BY <1>4, <1>5, Zenon DEF T
<1> QED
  BY <1>5, <1>6

\* Whatever is in the buffer, what the tokenizer takes for the body is a piece of it
\* without a line end.
LEMMA TokenIsPiece ==
  ASSUME NEW S, NEW b \in Seq(S)
  PROVE  /\ LastToken(b) \in Seq(S) /\ Len(LastToken(b)) <= Len(b)
         /\ \A x \in 1 .. Len(LastToken(b)) : LastToken(b)[x] # LF
<1>1. PICK f : Chops(b, TokenLimit, f) /\ LastToken(b) = f[TokenLimit].token
  BY LastOfChops
<1>2. f[0] = ChopLine(b)
  BY <1>1, SizesAssumption, ChopsSteps
<1>3. Piece(b, 0, f[TokenLimit])
  BY <1>1, <1>2, SizesAssumption, FirstPiece, PieceFrom
<1>4. PICK i \in 1 .. Len(b) + 1, e \in Nat :
        i - 1 <= e /\ e <= Len(b) /\ LastToken(b) = SubSeq(b, i, e) /\ \A x \in i .. e : b[x] # LF
  BY <1>1, <1>3 DEF Piece
<1>5. Len(b) \in Nat /\ i \in Int /\ e \in Int /\ \A x \in i .. e : b[x] \in S
  BY <1>4
<1>6. /\ LastToken(b) \in Seq(S)
      /\ Len(LastToken(b)) = IF i <= e THEN e - i + 1 ELSE 0
      /\ \A x \in 1 .. e - i + 1 : LastToken(b)[x] = b[i + x - 1]
  BY <1>4, <1>5, SubSeqProperties
<1>7. Len(LastToken(b)) = e - i + 1
  BY <1>4, <1>5, <1>6
<1>8. \A x \in 1 .. e - i + 1 : i + x - 1 \in i .. e
  BY <1>5
<1> QED
  BY <1>4, <1>5, <1>6, <1>7, <1>8

-----------------------------------------------------------------------------
\* Where everything is in a message: a line of the head is a symbol, CR and LF; the body
\* begins behind the empty line.
HeadEnd(q) == 3 * Len(q.head) + 5

LEMMA MessagePlaces ==
  ASSUME NEW q \in Requests
  PROVE  /\ Message(q)[1] = RequestLine
         /\ \A k \in 1 .. Len(q.head) : Message(q)[3 * k + 1] = q.head[k]
         /\ \A k \in 0 .. Len(q.head) : Message(q)[3 * k + 2] = CR /\ Message(q)[3 * k + 3] = LF
         /\ Message(q)[3 * Len(q.head) + 4] = CR /\ Message(q)[3 * Len(q.head) + 5] = LF
         /\ \A x \in 1 .. Len(q.body) : Message(q)[HeadEnd(q) + x] = q.body[x]
<1> DEFINE a == <<RequestLine, CR, LF>>
           l == Lines(q.head)
           c == <<CR, LF>>
           d == q.body
           n == Len(q.head)
<1>1. /\ n \in Nat /\ Len(d) \in Nat
      /\ a \in Seq(Alphabet) /\ Len(a) = 3 /\ c \in Seq(Alphabet) /\ Len(c) = 2
      /\ l \in Seq(Alphabet) /\ Len(l) = 3 * n /\ d \in Seq(Alphabet)
  <2>1. n \in Nat /\ Len(d) \in Nat
    BY MessageShape
  <2>2. a \in Seq(Alphabet) /\ Len(a) = 3 /\ c \in Seq(Alphabet) /\ Len(c) = 2
    BY DEF Alphabet
  <2>3. l \in Seq(Alphabet) /\ Len(l) = 3 * n /\ d \in Seq(Alphabet)
    BY LinesShape
  <2> QED  BY <2>1, <2>2, <2>3
<1>2. a[1] = RequestLine /\ a[2] = CR /\ a[3] = LF /\ c[1] = CR /\ c[2] = LF
  OBVIOUS
<1>3. \A k \in 1 .. n : l[3 * (k - 1) + 1] = q.head[k] /\ l[3 * (k - 1) + 2] = CR /\ l[3 * (k - 1) + 3] = LF
  <2> TAKE k \in 1 .. n
  <2>1. k \in Nat /\ k >= 1 /\ k <= n
    BY <1>1
  <2>2. /\ 3 * (k - 1) + 1 \in 1 .. 3 * n /\ (3 * (k - 1) + 1) % 3 = 1 /\ (3 * (k - 1) + 1 + 2) \div 3 = k
        /\ 3 * (k - 1) + 2 \in 1 .. 3 * n /\ (3 * (k - 1) + 2) % 3 = 2
        /\ 3 * (k - 1) + 3 \in 1 .. 3 * n /\ (3 * (k - 1) + 3) % 3 = 0
    BY <1>1, <2>1
  <2> HIDE DEF n
  <2> QED  BY <2>2 DEF Lines, n
<1> HIDE DEF a, l, c, d, n
<1>4. a \o l \in Seq(Alphabet) /\ Len(a \o l) = 3 + 3 * n
      /\ \A i \in 1 .. 3 + 3 * n : (a \o l)[i] = IF i <= 3 THEN a[i] ELSE l[i - 3]
  <2>1. a \o l \in Seq(Alphabet) /\ Len(a \o l) = Len(a) + Len(l)
        /\ \A i \in 1 .. Len(a) + Len(l) : (a \o l)[i] = IF i <= Len(a) THEN a[i] ELSE l[i - Len(a)]
    BY <1>1, ConcatProperties
  <2> QED  BY <1>1, <2>1
<1>5. (a \o l) \o c \in Seq(Alphabet) /\ Len((a \o l) \o c) = 5 + 3 * n
      /\ \A i \in 1 .. 5 + 3 * n : ((a \o l) \o c)[i] =
           IF i <= 3 + 3 * n THEN (a \o l)[i] ELSE c[i - (3 + 3 * n)]
  <2> DEFINE al == a \o l
  <2>1. al \in Seq(Alphabet) /\ Len(al) = 3 + 3 * n
    BY <1>4
  <2> HIDE DEF al
  <2>2. al \o c \in Seq(Alphabet) /\ Len(al \o c) = Len(al) + Len(c)
        /\ \A i \in 1 .. Len(al) + Len(c) : (al \o c)[i] = IF i <= Len(al) THEN al[i] ELSE c[i - Len(al)]
    BY <1>1, <2>1, ConcatProperties
  <2>3. Len(al) + Len(c) = 5 + 3 * n
    BY <1>1, <2>1
  <2> QED  BY <2>1, <2>2, <2>3 DEF al
<1>6. \A i \in 1 .. 5 + 3 * n + Len(d) : (((a \o l) \o c) \o d)[i] =
           IF i <= 5 + 3 * n THEN ((a \o l) \o c)[i] ELSE d[i - (5 + 3 * n)]
  BY <1>1, <1>5, ConcatProperties
<1>7. Message(q) = ((a \o l) \o c) \o d
  BY DEF Message, a, l, c, d
<1> DEFINE M == Message(q)
<1>8. /\ \A i \in 1 .. 3 : M[i] = a[i]
      /\ \A i \in 1 .. 3 * n : M[3 + i] = l[i]
      /\ \A i \in 1 .. 2 : M[3 + 3 * n + i] = c[i]
      /\ \A i \in 1 .. Len(d) : M[5 + 3 * n + i] = d[i]
  <2>1. ASSUME NEW i \in 1 .. 3 PROVE M[i] = a[i]
    <3>1. i \in 1 .. 5 + 3 * n + Len(d) /\ i \in 1 .. 5 + 3 * n /\ i \in 1 .. 3 + 3 * n
          /\ i <= 3 /\ i <= 5 + 3 * n /\ i <= 3 + 3 * n
      BY <1>1
    <3> QED  BY <1>4, <1>5, <1>6, <1>7, <3>1
  <2>2. ASSUME NEW i \in 1 .. 3 * n PROVE M[3 + i] = l[i]
    <3>1. 3 + i \in 1 .. 5 + 3 * n + Len(d) /\ 3 + i \in 1 .. 5 + 3 * n /\ 3 + i \in 1 .. 3 + 3 * n
          /\ ~(3 + i <= 3) /\ 3 + i <= 5 + 3 * n /\ 3 + i <= 3 + 3 * n /\ 3 + i - 3 = i
      BY <1>1
    <3> QED  BY <1>4, <1>5, <1>6, <1>7, <3>1
  <2>3. ASSUME NEW i \in 1 .. 2 PROVE M[3 + 3 * n + i] = c[i]
    <3> DEFINE j == 3 + 3 * n + i
    <3>1. j \in 1 .. 5 + 3 * n + Len(d) /\ j \in 1 .. 5 + 3 * n
          /\ ~(j <= 3 + 3 * n) /\ j <= 5 + 3 * n /\ j - (3 + 3 * n) = i
      BY <1>1
    <3> HIDE DEF j
    <3>2. M[j] = c[i]
      BY <1>4, <1>5, <1>6, <1>7, <3>1
    <3> QED  BY <3>2 DEF j
  <2>4. ASSUME NEW i \in 1 .. Len(d) PROVE M[5 + 3 * n + i] = d[i]
    <3> DEFINE j == 5 + 3 * n + i
    <3>1. j \in 1 .. 5 + 3 * n + Len(d) /\ ~(j <= 5 + 3 * n) /\ j - (5 + 3 * n) = i
      BY <1>1
    <3> HIDE DEF j
    <3>2. M[j] = d[i]
      BY <1>6, <1>7, <3>1
    <3> QED  BY <3>2 DEF j
  <2> QED  BY <2>1, <2>2, <2>3, <2>4
<1> HIDE DEF M
<1>9. M[1] = RequestLine
  BY <1>2, <1>8
<1>10. \A k \in 1 .. n : M[3 * k + 1] = q.head[k] /\ M[3 * k + 2] = CR /\ M[3 * k + 3] = LF
  <2> TAKE k \in 1 .. n
  <2> DEFINE i == 3 * (k - 1) + 1
  <2>1. i \in 1 .. 3 * n /\ i + 1 \in 1 .. 3 * n /\ i + 2 \in 1 .. 3 * n
        /\ 3 + i = 3 * k + 1 /\ 3 + (i + 1) = 3 * k + 2 /\ 3 + (i + 2) = 3 * k + 3
        /\ i + 1 = 3 * (k - 1) + 2 /\ i + 2 = 3 * (k - 1) + 3
    BY <1>1
  <2>2. l[i] = q.head[k] /\ l[i + 1] = CR /\ l[i + 2] = LF
    BY <1>3, <2>1
  <2> HIDE DEF i
  <2>3. M[3 + i] = l[i] /\ M[3 + (i + 1)] = l[i + 1] /\ M[3 + (i + 2)] = l[i + 2]
    BY <1>8, <2>1
  <2> QED  BY <2>1, <2>2, <2>3
<1>11. M[3 * 0 + 2] = CR /\ M[3 * 0 + 3] = LF
  BY <1>2, <1>8
<1>12. \A k \in 0 .. n : M[3 * k + 2] = CR /\ M[3 * k + 3] = LF
  <2> TAKE k \in 0 .. n
  <2>1. k = 0 \/ k \in 1 .. n
    BY <1>1
  <2> QED  BY <1>10, <1>11, <2>1
<1>13. M[3 * n + 4] = CR /\ M[3 * n + 5] = LF
  <2>1. 3 + 3 * n + 1 = 3 * n + 4 /\ 3 + 3 * n + 2 = 3 * n + 5
    BY <1>1
  <2>2. M[3 + 3 * n + 1] = c[1] /\ M[3 + 3 * n + 2] = c[2]
    BY <1>8
  <2> QED  BY <1>2, <2>1, <2>2
<1>14. \A x \in 1 .. Len(d) : M[3 * n + 5 + x] = d[x]
  <2> TAKE x \in 1 .. Len(d)
  <2>1. 5 + 3 * n + x = 3 * n + 5 + x
    BY <1>1
  <2> QED  BY <1>8, <2>1
<1> QED
  BY <1>9, <1>10, <1>12, <1>13, <1>14 DEF M, n, d, HeadEnd

-----------------------------------------------------------------------------
\* strtok() changes nothing but line ends.
LEMMA StrtokFacts ==
  ASSUME NEW b \in Seq(Alphabet)
  PROVE  /\ Strtok(b) \in Seq(Alphabet) /\ Len(Strtok(b)) = Len(b)
         /\ \A x \in 1 .. Len(b) : Strtok(b)[x] = b[x] \/ (Strtok(b)[x] = NUL /\ b[x] \in Delims)
<1>1. Len(b) \in Nat /\ DOMAIN b = 1 .. Len(b) /\ \A x \in 1 .. Len(b) : b[x] \in Alphabet
  OBVIOUS
<1>2. NUL \in Alphabet
  BY DEF Alphabet
<1>3. \A x \in 1 .. Len(b) : Strtok(b)[x] = b[x] \/ (Strtok(b)[x] = NUL /\ b[x] \in Delims)
  BY <1>1 DEF Strtok
<1>4. Strtok(b) \in [1 .. Len(b) -> Alphabet]
  BY <1>1, <1>2 DEF Strtok
<1> QED
  BY <1>1, <1>3, <1>4, MapIsSeq

\* What it leaves of a whole message: each line ends with NUL and LF, the empty line with
\* CR and LF.
LEMMA StrtokHead ==
  ASSUME NEW q \in Requests
  PROVE  LET b == Strtok(Message(q))
         IN /\ \A k \in 0 .. Len(q.head) :
                 b[3 * k + 1] \notin Spaces /\ b[3 * k + 2] = NUL /\ b[3 * k + 3] = LF
            /\ b[3 * Len(q.head) + 4] = CR /\ b[3 * Len(q.head) + 5] = LF
<1> DEFINE M == Message(q)
           b == Strtok(M)
           n == Len(q.head)
           e == Len(q.body)
<1>0. M \in Seq(Alphabet) /\ Len(M) = 5 + 3 * n + e /\ n \in Nat /\ e \in Nat
  BY MessageShape
<1>2. /\ M[1] = RequestLine
      /\ \A k \in 1 .. n : M[3 * k + 1] = q.head[k]
      /\ \A k \in 0 .. n : M[3 * k + 2] = CR /\ M[3 * k + 3] = LF
      /\ M[3 * n + 4] = CR /\ M[3 * n + 5] = LF
  BY MessagePlaces
<1>3. /\ CR \in Delims /\ LF \in Delims /\ CR # NUL /\ LF # NUL
      /\ RequestLine \notin {CR, LF, SP, NUL}
      /\ \A k \in 1 .. n : q.head[k] \notin {CR, LF, SP, NUL}
  <2>1. DOMAIN q.head = 1 .. n
    BY LinesShape
  <2>2. \A k \in 1 .. n : q.head[k] \in Range(q.head)
    BY <2>1 DEF Range
  <2> QED  BY <2>2, SymbolsAssumption DEF Delims
<1> HIDE DEF M, n, e
<1>1. /\ M \in Seq(Alphabet) /\ n \in Nat /\ DOMAIN M = 1 .. Len(M)
      /\ Len(M) \in Nat /\ 3 * n + 5 \in Nat /\ 3 * n + 5 <= Len(M)
  BY <1>0
<1>4. \A k \in 0 .. n : M[3 * k + 1] \notin {CR, LF, SP, NUL}
  <2> TAKE k \in 0 .. n
  <2>1. CASE k = 0
    <3>1. 3 * k + 1 = 1
      BY <2>1
    <3> QED  BY <3>1, <1>2, <1>3
  <2>2. CASE k # 0
    <3>1. k \in 1 .. n
      BY <1>1, <2>2
    <3> QED  BY <3>1, <1>2, <1>3
  <2> QED  BY <2>1, <2>2
<1>5. \A i \in 1 .. 3 * n + 5 : M[i] # NUL
  <2> TAKE i \in 1 .. 3 * n + 5
  <2>1. i = 3 * n + 4 \/ i = 3 * n + 5
        \/ \E k \in 0 .. n : i = 3 * k + 1 \/ i = 3 * k + 2 \/ i = 3 * k + 3
    <3>1. i - 1 \in Nat /\ (i - 1) \div 3 \in Nat /\ 3 * ((i - 1) \div 3) <= i - 1
          /\ i - 1 <= 3 * ((i - 1) \div 3) + 2
      BY <1>1
    <3> DEFINE k == (i - 1) \div 3
    <3>2. i = 3 * k + 1 \/ i = 3 * k + 2 \/ i = 3 * k + 3
      BY <1>1, <3>1
    <3>3. CASE k <= n
      <4>1. k \in 0 .. n
        BY <1>1, <3>1, <3>3
      <4> HIDE DEF k
      <4> QED  BY <3>2, <4>1
    <3>4. CASE k > n
      BY <1>1, <3>1, <3>2, <3>4
    <3> QED  BY <1>1, <3>1, <3>3, <3>4
  <2> QED  BY <1>2, <1>3, <1>4, <2>1
<1>6. ASSUME NEW i \in 1 .. 3 * n + 5
      PROVE  b[i] = IF M[i] \in Delims /\ i > 1 /\ M[i - 1] \notin Delims THEN NUL ELSE M[i]
  <2>1. /\ i \in 1 .. Len(M) /\ i - 1 \in Nat
        /\ \A x \in 1 .. i - 1 : x \in 1 .. Len(M) /\ x \in 1 .. 3 * n + 5
    BY <1>1
  <2>2. ~Contains(SubSeq(M, 1, i - 1), NUL)
    <3>1. \A x \in 1 .. i - 1 : M[x] \in Alphabet
      BY <1>1, <2>1
    <3> DEFINE m == i - 1
    <3>2. m \in Nat /\ (IF 1 <= m THEN m - 1 + 1 ELSE 0) = m /\ m - 1 + 1 = m
      BY <2>1
    <3> HIDE DEF m
    <3>3. Len(SubSeq(M, 1, m)) = m /\ \A x \in 1 .. m : SubSeq(M, 1, m)[x] = M[1 + x - 1]
      <4>1. \A x \in 1 .. m : M[x] \in Alphabet
        BY <3>1 DEF m
      <4> QED  BY <3>2, <4>1, SubSeqProperties
    <3>4. \A x \in 1 .. m : 1 + x - 1 = x /\ x \in 1 .. 3 * n + 5
      BY <2>1, <3>2 DEF m
    <3>5. \A x \in 1 .. m : SubSeq(M, 1, m)[x] # NUL
      BY <1>5, <3>3, <3>4
    <3> QED  BY <3>3, <3>5 DEF Contains, m
  <2> QED  BY <1>1, <2>1, <2>2 DEF Strtok
<1> HIDE DEF b
<1>7. ASSUME NEW k \in 0 .. n
      PROVE  b[3 * k + 1] \notin Spaces /\ b[3 * k + 2] = NUL /\ b[3 * k + 3] = LF
  <2> DEFINE i == 3 * k + 1
  <2>1. /\ i \in 1 .. 3 * n + 5 /\ i + 1 \in 1 .. 3 * n + 5 /\ i + 2 \in 1 .. 3 * n + 5
        /\ i + 1 > 1 /\ i + 2 > 1 /\ i + 1 - 1 = i /\ i + 2 - 1 = i + 1
        /\ i + 1 = 3 * k + 2 /\ i + 2 = 3 * k + 3
    BY <1>1
  <2>2. M[i] \notin {CR, LF, SP, NUL} /\ M[i + 1] = CR /\ M[i + 2] = LF
    BY <1>2, <1>4, <2>1
  <2> HIDE DEF i
  <2>3. b[i] = M[i]
    BY <1>6, <2>1, <2>2 DEF Delims
  <2>4. b[i + 1] = NUL
    BY <1>3, <1>6, <2>1, <2>2 DEF Delims
  <2>5. b[i + 2] = LF
    BY <1>3, <1>6, <2>1, <2>2
  <2> QED  BY <2>1, <2>2, <2>3, <2>4, <2>5 DEF i, Spaces
<1>8. b[3 * n + 4] = CR /\ b[3 * n + 5] = LF
  <2>1. /\ 3 * n + 4 \in 1 .. 3 * n + 5 /\ 3 * n + 5 \in 1 .. 3 * n + 5
        /\ 3 * n + 4 - 1 = 3 * n + 3 /\ 3 * n + 5 - 1 = 3 * n + 4 /\ n \in 0 .. n
    BY <1>1
  <2>2. M[3 * n + 4 - 1] = LF /\ M[3 * n + 5 - 1] = CR
    BY <1>2, <2>1
  <2> QED  BY <1>2, <1>3, <1>6, <2>1, <2>2
<1> QED
  BY <1>7, <1>8 DEF M, b, n

\* Line by line the tokenizer gets to the empty line.
LEMMA HeadChopped ==
  ASSUME NEW q \in Requests, NEW f, Chops(Strtok(Message(q)), TokenLimit, f), Len(q.head) <= TokenLimit
  PROVE  f[Len(q.head)].content = From(Strtok(Message(q)), 3 * Len(q.head) + 4)
<1> DEFINE b == Strtok(Message(q))
           n == Len(q.head)
           d == Len(q.body)
<1>0. b \in Seq(Alphabet) /\ Len(b) = 5 + 3 * n + d /\ n \in Nat /\ d \in Nat
  BY MessageShape, StrtokFacts
<1>2. \A k \in 0 .. n : b[3 * k + 1] \notin Spaces /\ b[3 * k + 2] = NUL /\ b[3 * k + 3] = LF
  BY StrtokHead
<1>3. TokenLimit \in Nat
  BY SizesAssumption
<1>4. f[0] = ChopLine(b) /\ \A m \in Nat : m < TokenLimit => f[m + 1] = NextToken(f[m])
  BY <1>3, ChopsSteps
<1>n. n <= TokenLimit
  OBVIOUS
<1> HIDE DEF b, n, d
<1>1. b \in Seq(Alphabet) /\ Len(b) \in Nat /\ n \in Nat /\ 5 + 3 * n <= Len(b)
  BY <1>0
<1>5. ASSUME NEW k \in 0 .. n
      PROVE  ChopLine(From(b, 3 * k + 1)).content = From(b, 3 * k + 4)
  <2> DEFINE i == 3 * k + 1
  <2>1. /\ i \in 1 .. Len(b) + 1 /\ i + 2 <= Len(b)
        /\ i + 1 = 3 * k + 2 /\ i + 2 = 3 * k + 3 /\ i + 3 = 3 * k + 4
    BY <1>1
  <2>2. b[i] # LF /\ b[i + 1] # LF /\ b[i + 2] = LF
    <3>1. b[i] \notin Spaces /\ b[i + 1] = NUL /\ b[i + 2] = LF
      BY <1>2, <2>1
    <3> QED  BY <3>1, SymbolsAssumption DEF Spaces
  <2> HIDE DEF i
  <2>3. PICK e \in Nat :
          /\ i - 1 <= e /\ e <= Len(b)
          /\ ChopLine(From(b, i)).content = From(b, e + 2)
          /\ \A x \in i .. e : b[x] # LF
          /\ e < Len(b) => b[e + 1] = LF
    BY <1>1, <2>1, ChopFrom
  <2>4. e < i + 2
    <3>1. i + 2 \notin i .. e
      BY <2>2, <2>3
    <3> QED  BY <2>1, <3>1
  <2>5. e < Len(b)
    BY <1>1, <2>1, <2>3, <2>4
  <2>6. b[e + 1] = LF
    BY <2>3, <2>5
  <2>7. e + 1 # i /\ e + 1 # i + 1
    BY <2>2, <2>6
  <2>8. e = i + 1 /\ e + 2 = i + 3
    BY <2>1, <2>3, <2>4, <2>7
  <2> QED  BY <2>1, <2>3, <2>8 DEF i
<1> DEFINE T == {k \in Nat : k <= n => f[k].content = From(b, 3 * k + 4)}
<1>6. 0 \in T
  <2>1. 0 \in 0 .. n /\ 3 * 0 + 1 = 1
    BY <1>1
  <2>2. From(b, 1) = b
    BY <1>1, SubSeqFull DEF From
  <2>3. ChopLine(From(b, 3 * 0 + 1)).content = From(b, 3 * 0 + 4)
    BY <1>5, <2>1
  <2> QED  BY <1>4, <2>1, <2>2, <2>3
<1>7. ASSUME NEW k \in Nat, k \in T
      PROVE  k + 1 \in T
  <2> SUFFICES ASSUME k + 1 <= n
               PROVE  f[k + 1].content = From(b, 3 * (k + 1) + 4)
    BY <1>1
  <2> DEFINE j == 3 * k + 4
  <2>1. /\ k <= n /\ k < TokenLimit /\ k + 1 \in 0 .. n /\ j \in 1 .. Len(b) + 1 /\ j \in 1 .. Len(b) + 2
        /\ j <= Len(b) /\ j = 3 * (k + 1) + 1
    BY <1>1, <1>3, <1>n
  <2>2. f[k].content = From(b, j)
    BY <1>7, <2>1
  <2>3. b[j] \notin Spaces
    BY <1>2, <2>1
  <2>4. ChopLine(From(b, j)).content = From(b, 3 * (k + 1) + 4)
    <3>1. ChopLine(From(b, 3 * (k + 1) + 1)).content = From(b, 3 * (k + 1) + 4)
      BY <1>5, <2>1
    <3> QED  BY <2>1, <3>1
  <2> HIDE DEF j
  <2>5. From(b, j) # <<>>
    BY <1>1, <2>1, FromFacts
  <2>6. PICK l \in j .. Len(b) + 1 :
          TrimLeft(From(b, j)) = From(b, l) /\ \A x \in j .. l - 1 : b[x] \in Spaces
    BY <1>1, <2>1, TrimFrom
  <2>7. l = j
    BY <1>1, <2>1, <2>3, <2>6
  <2>8. f[k + 1] = NextToken(f[k])
    BY <1>4, <2>1
  <2> QED  BY <2>2, <2>4, <2>5, <2>6, <2>7, <2>8 DEF NextToken
<1> HIDE DEF T
<1>8. Nat \subseteq T
  BY <1>6, <1>7, SetInduction
<1>9. n \in T /\ n <= n
  BY <1>1, <1>8
<1> QED
  BY <1>9 DEF T, b, n

\* The line behind the last one of the head begins in the body, at the first symbol that is
\* no white space.
LEMMA BodyChopped ==
  ASSUME NEW q \in Requests, NEW f, Chops(Strtok(Message(q)), TokenLimit, f), Len(q.head) < TokenLimit
  PROVE  LET b == Strtok(Message(q))
         IN \E k \in HeadEnd(q) + 1 .. Len(b) + 1 :
              /\ f[Len(q.head) + 1] = ChopLine(From(b, k))
              /\ \A x \in HeadEnd(q) + 1 .. k - 1 : b[x] \in Spaces
<1> DEFINE b == Strtok(Message(q))
           n == Len(q.head)
           d == Len(q.body)
           h == HeadEnd(q)
<1>1. b \in Seq(Alphabet) /\ Len(b) = 5 + 3 * n + d /\ n \in Nat /\ d \in Nat
  BY MessageShape, StrtokFacts
<1>2. b[3 * n + 4] = CR /\ b[3 * n + 5] = LF
  BY StrtokHead
<1>3. TokenLimit \in Nat /\ n < TokenLimit /\ n <= TokenLimit
  BY <1>1, SizesAssumption
<1>4. f[n].content = From(b, 3 * n + 4)
  BY <1>3, HeadChopped
<1>5. f[n + 1] = NextToken(f[n])
  <2>1. f[0] = ChopLine(b) /\ \A m \in Nat : m < TokenLimit => f[m + 1] = NextToken(f[m])
    BY <1>3, ChopsSteps
  <2> QED  BY <1>1, <1>3, <2>1
<1> HIDE DEF b, n, d
<1> DEFINE j == 3 * n + 4
<1>6. /\ j \in 1 .. Len(b) /\ j \in 1 .. Len(b) + 1 /\ j \in 1 .. Len(b) + 2 /\ j <= Len(b)
      /\ j + 1 = 3 * n + 5 /\ h = j + 1 /\ Len(b) \in Nat /\ h <= Len(b)
  BY <1>1 DEF HeadEnd, n
<1>7. f[n].content = From(b, j) /\ b[j] \in Spaces /\ b[j + 1] \in Spaces
  BY <1>2, <1>4, <1>6 DEF Spaces
<1> HIDE DEF j, h
<1>8. From(b, j) # <<>>
  BY <1>1, <1>6, FromFacts
<1>9. PICK k \in j .. Len(b) + 1 :
        /\ TrimLeft(From(b, j)) = From(b, k)
        /\ \A x \in j .. k - 1 : b[x] \in Spaces
        /\ k <= Len(b) => b[k] \notin Spaces
  BY <1>1, <1>6, TrimFrom
<1>10. k # j /\ k # j + 1
  BY <1>6, <1>7, <1>9
<1>11. k \in h + 1 .. Len(b) + 1 /\ \A x \in h + 1 .. k - 1 : x \in j .. k - 1
  BY <1>6, <1>9, <1>10
<1>12. f[n + 1] = ChopLine(From(b, k))
  BY <1>5, <1>7, <1>8, <1>9 DEF NextToken
<1> QED
  BY <1>9, <1>11, <1>12 DEF b, n, h

\* What the tokenizer takes for the body of a whole message is a piece of it, with the line
\* ends that strtok() has found in it as NULs.
LEMMA TokenFromBody ==
  ASSUME NEW q \in Requests, Len(q.head) < TokenLimit
  PROVE  LET s == LastToken(Strtok(Message(q)))
         IN \E k \in 0 .. Len(q.body) - Len(s) :
              \A i \in DOMAIN s : s[i] = q.body[k + i] \/ (s[i] = NUL /\ q.body[k + i] \in Delims)
<1> DEFINE M == Message(q)
           b == Strtok(M)
           n == Len(q.head)
           d == Len(q.body)
           h == HeadEnd(q)
           s == LastToken(b)
<1>1. M \in Seq(Alphabet) /\ Len(M) = 5 + 3 * n + d /\ n \in Nat /\ d \in Nat
  BY MessageShape
<1>2. /\ b \in Seq(Alphabet) /\ Len(b) = Len(M)
      /\ \A x \in 1 .. Len(M) : b[x] = M[x] \/ (b[x] = NUL /\ M[x] \in Delims)
  BY <1>1, StrtokFacts
<1>3. \A x \in 1 .. d : M[h + x] = q.body[x]
  BY MessagePlaces
<1>4. PICK f : Chops(b, TokenLimit, f) /\ s = f[TokenLimit].token
  BY LastOfChops
<1>5. PICK l \in h + 1 .. Len(b) + 1 : f[n + 1] = ChopLine(From(b, l))
  BY <1>4, BodyChopped
<1>6. TokenLimit \in Nat /\ n < TokenLimit
  BY SizesAssumption
<1> HIDE DEF M, b, n, d, s
<1>7. h \in Nat /\ Len(b) = h + d /\ Len(b) \in Nat
  BY <1>1, <1>2 DEF HeadEnd, n
<1> HIDE DEF h
<1>8. PICK e \in Nat :
        /\ l - 1 <= e /\ e <= Len(b)
        /\ ChopLine(From(b, l)).token = SubSeq(b, l, e)
        /\ ChopLine(From(b, l)).content = From(b, e + 2)
        /\ \A x \in l .. e : b[x] # LF
  <2>1. l \in 1 .. Len(b) + 1
    BY <1>7
  <2> QED  BY <1>2, <2>1, ChopFrom
<1>9. Piece(b, h, f[n + 1])
  <2>1. l \in h + 1 .. Len(b) + 1 /\ e + 2 \in h + 1 .. Len(b) + 2
    BY <1>7, <1>8
  <2> QED  BY <1>5, <1>8, <2>1 DEF Piece
<1>10. Piece(b, h, f[TokenLimit])
  <2>1. n + 1 \in Nat /\ n + 1 <= TokenLimit
    BY <1>1, <1>6
  <2> QED  BY <1>2, <1>4, <1>7, <1>9, <2>1, PieceFrom
<1>11. PICK i \in h + 1 .. Len(b) + 1, t \in Nat : i - 1 <= t /\ t <= Len(b) /\ s = SubSeq(b, i, t)
  BY <1>4, <1>10 DEF Piece
<1> DEFINE k == i - 1 - h
           m == t - i + 1
<1>12. /\ i \in Int /\ t \in Int /\ \A x \in i .. t : x \in 1 .. Len(b)
       /\ k \in Nat /\ m \in Nat /\ k <= d - m /\ m = IF i <= t THEN t - i + 1 ELSE 0
       /\ \A x \in 1 .. m : i + x - 1 = h + (k + x) /\ k + x \in 1 .. d /\ i + x - 1 \in 1 .. Len(b)
  BY <1>1, <1>7, <1>11
<1>13. s \in Seq(Alphabet) /\ Len(s) = m /\ \A x \in 1 .. m : s[x] = b[i + x - 1]
  <2>1. \A x \in i .. t : b[x] \in Alphabet
    BY <1>2, <1>12
  <2> QED  BY <1>11, <1>12, <2>1, SubSeqProperties
<1> HIDE DEF k, m
<1>14. \A x \in 1 .. m : s[x] = q.body[k + x] \/ (s[x] = NUL /\ q.body[k + x] \in Delims)
  <2> TAKE x \in 1 .. m
  <2>1. s[x] = b[h + (k + x)] /\ M[h + (k + x)] = q.body[k + x] /\ h + (k + x) \in 1 .. Len(M)
    BY <1>2, <1>3, <1>12, <1>13
  <2> QED  BY <1>2, <2>1
<1>15. DOMAIN s = 1 .. m /\ k \in 0 .. d - Len(s)
  BY <1>1, <1>12, <1>13
<1> QED
  BY <1>14, <1>15 DEF s, b, M, d

\* A plain body is what the tokenizer takes for it.
LEMMA PlainBodyToken ==
  ASSUME NEW q \in Requests, Len(q.head) < TokenLimit, PlainBody(q.body)
  PROVE  LastToken(Strtok(Message(q))) = q.body
<1> DEFINE M == Message(q)
           b == Strtok(M)
           n == Len(q.head)
           d == Len(q.body)
           h == HeadEnd(q)
<1>1. M \in Seq(Alphabet) /\ Len(M) = 5 + 3 * n + d /\ n \in Nat /\ d \in Nat
  BY MessageShape
<1>2. /\ b \in Seq(Alphabet) /\ Len(b) = Len(M)
      /\ \A x \in 1 .. Len(M) : b[x] = M[x] \/ (b[x] = NUL /\ M[x] \in Delims)
  BY <1>1, StrtokFacts
<1>3. \A x \in 1 .. d : M[h + x] = q.body[x]
  BY MessagePlaces
<1>4. q.body \in Seq(Alphabet) /\ DOMAIN q.body = 1 .. d
  BY LinesShape
<1>5. /\ \A x \in 1 .. d : q.body[x] \notin Delims
      /\ d # 0 => q.body[1] \notin Spaces
  <2>1. \A x \in 1 .. d : q.body[x] \in Range(q.body)
    BY <1>4 DEF Range
  <2>2. \A x \in 1 .. d : q.body[x] \notin Delims
    BY <2>1 DEF PlainBody
  <2>3. d # 0 => 1 \in 1 .. d /\ q.body[1] # SP
    BY <1>1, <1>4 DEF PlainBody
  <2> QED  BY <2>2, <2>3 DEF Spaces, Delims
<1>6. PICK f : Chops(b, TokenLimit, f) /\ LastToken(b) = f[TokenLimit].token
  BY LastOfChops
<1>7. PICK k \in h + 1 .. Len(b) + 1 :
        /\ f[n + 1] = ChopLine(From(b, k))
        /\ \A x \in h + 1 .. k - 1 : b[x] \in Spaces
  BY <1>6, BodyChopped
<1>8. TokenLimit \in Nat /\ n < TokenLimit
  BY SizesAssumption
<1>9. f[0] = ChopLine(b) /\ \A m \in Nat : m < TokenLimit => f[m + 1] = NextToken(f[m])
  BY <1>6, <1>8, ChopsSteps
<1> HIDE DEF M, b, n, d
<1>10. h \in Nat /\ Len(b) = h + d /\ Len(b) \in Nat
  BY <1>1, <1>2 DEF HeadEnd, n
<1> HIDE DEF h
<1>11. \A x \in 1 .. d : b[h + x] = q.body[x] /\ b[h + x] # LF
  <2> TAKE x \in 1 .. d
  <2>1. h + x \in 1 .. Len(M) /\ M[h + x] = q.body[x] /\ q.body[x] \notin Delims
    BY <1>1, <1>2, <1>3, <1>5, <1>10
  <2> QED  BY <1>2, <2>1 DEF Delims
<1>12. k = h + 1
  <2>1. CASE d = 0
    BY <1>10, <2>1
  <2>2. CASE d # 0
    <3>1. b[h + 1] \notin Spaces
      BY <1>1, <1>5, <1>11, <2>2
    <3>2. h + 1 \notin h + 1 .. k - 1
      BY <1>7, <3>1
    <3> QED  BY <1>10, <3>2
  <2> QED  BY <2>1, <2>2
<1>13. PICK e \in Nat :
        /\ k - 1 <= e /\ e <= Len(b)
        /\ ChopLine(From(b, k)).token = SubSeq(b, k, e)
        /\ ChopLine(From(b, k)).content = From(b, e + 2)
        /\ e < Len(b) => b[e + 1] = LF
  <2>1. k \in 1 .. Len(b) + 1
    BY <1>10
  <2> QED  BY <1>2, <2>1, ChopFrom
<1>14. e = Len(b)
  <2> SUFFICES ASSUME e < Len(b) PROVE FALSE
    BY <1>10, <1>13
  <2>1. e + 1 - h \in 1 .. d /\ h + (e + 1 - h) = e + 1
    BY <1>1, <1>10, <1>12, <1>13
  <2>2. b[e + 1] # LF
    BY <1>11, <2>1
  <2> QED  BY <1>13, <2>2
<1>15. SubSeq(b, k, e) = q.body
  <2>1. /\ k \in Int /\ e \in Int /\ (IF k <= e THEN e - k + 1 ELSE 0) = d /\ e - k + 1 = d
        /\ \A x \in k .. e : x \in 1 .. Len(b)
        /\ \A x \in 1 .. d : k + x - 1 = h + x
    BY <1>1, <1>10, <1>12, <1>14
  <2>2. \A x \in k .. e : b[x] \in Alphabet
    BY <1>2, <2>1
  <2> DEFINE s == SubSeq(b, k, e)
  <2>3. s \in Seq(Alphabet) /\ Len(s) = d /\ \A x \in 1 .. d : s[x] = b[k + x - 1]
    BY <2>1, <2>2, SubSeqProperties
  <2>4. \A x \in 1 .. d : s[x] = q.body[x]
    BY <1>11, <2>1, <2>3
  <2>5. Len(q.body) = d
    BY DEF d
  <2> HIDE DEF s
  <2>6. s = q.body
    BY <1>1, <1>4, <2>3, <2>4, <2>5, SeqEqual
  <2> QED  BY <2>6 DEF s
<1>16. From(b, e + 2) = <<>>
  <2>1. e + 2 \in 1 .. Len(b) + 2 /\ e + 2 > Len(b)
    BY <1>10, <1>14
  <2> QED  BY <1>2, <2>1, FromFacts
<1>17. f[n + 1].token = q.body /\ f[n + 1].content = <<>>
  BY <1>7, <1>13, <1>15, <1>16
<1> DEFINE T == {m \in Nat : n + 1 + m <= TokenLimit => f[n + 1 + m].token = q.body /\ f[n + 1 + m].content = <<>>}
<1>18. 0 \in T
  <2>1. n + 1 + 0 = n + 1
    BY <1>1
  <2> QED  BY <1>17, <2>1
<1>19. ASSUME NEW m \in Nat, m \in T
       PROVE  m + 1 \in T
  <2> SUFFICES ASSUME n + 1 + (m + 1) <= TokenLimit
               PROVE  f[n + 1 + (m + 1)].token = q.body /\ f[n + 1 + (m + 1)].content = <<>>
    BY <1>1
  <2> DEFINE x == n + 1 + m
  <2>1. x \in Nat /\ x < TokenLimit /\ x <= TokenLimit /\ n + 1 + (m + 1) = x + 1
    BY <1>1, <1>8
  <2>2. f[x].token = q.body /\ f[x].content = <<>>
    BY <1>19, <2>1
  <2> HIDE DEF x
  <2>3. f[x + 1] = NextToken(f[x])
    BY <1>9, <2>1
  <2>4. f[x + 1] = f[x]
    BY <2>2, <2>3 DEF NextToken
  <2> QED  BY <2>1, <2>2, <2>4
<1> HIDE DEF T
<1>20. Nat \subseteq T
  BY <1>18, <1>19, SetInduction
<1>21. TokenLimit - (n + 1) \in Nat /\ n + 1 + (TokenLimit - (n + 1)) = TokenLimit /\ TokenLimit <= TokenLimit
  BY <1>1, <1>8
<1>22. f[TokenLimit].token = q.body
  <2>1. TokenLimit - (n + 1) \in T
    BY <1>20, <1>21
  <2> QED  BY <1>21, <2>1 DEF T
<1> QED
  BY <1>6, <1>22 DEF b, M

-----------------------------------------------------------------------------
\* What readbuf holds at every place: the part of the message that arrived, as
\* parseHeaders() leaves it, or nothing that is routed to a POST.
Arrived == SubSeq(Message(req), 1, got)
Received ==
  /\ got \in 0 .. BufSize /\ got <= Len(Message(req))
  /\ buf \in Seq(Alphabet) /\ Len(buf) = got
  /\ pc = "recv" => faults = {} /\ header.route = ""
  /\ pc = "parse" => faults = {} /\ buf = Arrived
  /\ pc \in {"route", "POST_FILE"} => header.route = "" \/ (faults = {} /\ buf = Strtok(Arrived))

\* What a POST has stored, and that nothing else has stored anything before.
Kept ==
  /\ pc \in Receiving \cup Handlers \cup {"gzip", "echo"} => stored = None
  /\ stored = None \/ (Len(stored) <= got /\ LF \notin Range(stored))
  /\ PlainBodyStored /\ StoredFromBody

\* The coding that parseHeaders() chose, and the range of what else is set on the way.
Sizes ==
  /\ header.useEncoding \in ValidEncodings \cup {""}
  /\ contentLength \in Nat \cup {Uninit}
  /\ heap \subseteq {"header", "compressed", "data"}
  /\ faults \subseteq {"recv", "memory", "file", "data", "send"}

Posting == Received /\ Kept /\ Sizes

-----------------------------------------------------------------------------
\* What useEncoding becomes is one of the codings the server knows, or nothing.
LEMMA Chosen ==
  ASSUME NEW s, Len(s) \in Nat
  PROVE  UseEncoding(s) \in ValidEncodings \cup {""}
<1> DEFINE I == {i \in 1 .. Len(s) : s[i] \in ValidEncodings}
           i == IF I # {} THEN Max(I) ELSE 0
<1>1. UseEncoding(s) = IF i = 0 THEN "" ELSE s[i]
  BY DEF UseEncoding, SelectLastInSeq
<1>2. I # {} => Max(I) \in I
  <2>1. I \subseteq 1 .. Len(s)
    OBVIOUS
  <2> HIDE DEF I
  <2> QED  BY <2>1, MaxIsGreatest
<1>3. i = 0 \/ i \in I
  BY <1>2
<1> HIDE DEF i
<1> QED  BY <1>1, <1>3

\* A line cut short offers one coding less.
LEMMA FrontLength ==
  ASSUME NEW s, IsSequence(s)
  PROVE  Len(Front(s)) \in Nat
<1>1. s \in Seq(Range(s)) /\ Len(s) \in Nat
  BY IsSeq
<1>2. \A i \in 1 .. Len(s) - 1 : s[i] \in Range(s)
  BY <1>1
<1>3. Len(SubSeq(s, 1, Len(s) - 1)) = IF 1 <= Len(s) - 1 THEN Len(s) - 1 - 1 + 1 ELSE 0
  BY <1>1, <1>2, SubSeqProperties
<1> QED  BY <1>1, <1>3 DEF Front

\* So does parseHeaders(), whichever line it reads.
LEMMA ParsedEncoding ==
  ASSUME ParseHeaders
  PROVE  header'.useEncoding \in ValidEncodings \cup {""}
<1> DEFINE agents == LastLine(buf, DOMAIN AgentLen)
           offers == LastLine(buf, DOMAIN Offers)
           atEnd(cut, S) == cut /\ S = {Len(buf)}
           agent(cut) == IF agents = {} THEN 0
                         ELSE LET i == CHOOSE i \in agents : TRUE
                              IN IF atEnd(cut, agents) THEN AgentLen[buf[i]] - 1 ELSE AgentLen[buf[i]]
           encoding(cut) ==
             IF offers = {} THEN ""
             ELSE LET i == CHOOSE i \in offers : TRUE
                  IN UseEncoding(IF atEnd(cut, offers) THEN Front(Offers[buf[i]]) ELSE Offers[buf[i]])
<1>1. PICK cut \in BOOLEAN, path \in CutPaths(req) :
        header' = [method |-> req.method, route |-> path.route, name |-> path.name,
                   agent |-> agent(cut), useEncoding |-> encoding(cut)]
  BY Zenon DEF ParseHeaders
<1>2. encoding(cut) \in ValidEncodings \cup {""}
  <2>1. CASE offers = {}
    BY <2>1
  <2>2. CASE offers # {}
    <3> DEFINE i == CHOOSE i \in offers : TRUE
    <3>1. i \in offers
      BY <2>2
    <3>2. buf[i] \in DOMAIN Offers
      BY <3>1 DEF LastLine
    <3>3. IsSequence(Offers[buf[i]])
      BY <3>2, SizesAssumption
    <3>4. Len(Offers[buf[i]]) \in Nat /\ Len(Front(Offers[buf[i]])) \in Nat
      BY <3>3, FrontLength DEF IsSequence
    <3>5. /\ UseEncoding(Offers[buf[i]]) \in ValidEncodings \cup {""}
          /\ UseEncoding(Front(Offers[buf[i]])) \in ValidEncodings \cup {""}
      BY <3>4, Chosen
    <3>6. encoding(cut) = UseEncoding(IF atEnd(cut, offers) THEN Front(Offers[buf[i]]) ELSE Offers[buf[i]])
      BY <2>2, Zenon
    <3> HIDE DEF i, encoding
    <3> QED  BY <3>5, <3>6
  <2> QED  BY <2>1, <2>2
<1> HIDE DEF agent, encoding
<1>3. header'.useEncoding = encoding(cut)
  BY <1>1
<1> QED  BY <1>2, <1>3

\* Nothing is received twice: whatever leaves the request and readbuf alone keeps this, unless
\* it goes on to where they are read.
LEMMA ReceivedFrame ==
  ASSUME Received, UNCHANGED <<req, got, buf>>, pc' \notin {"recv", "parse", "route", "POST_FILE"}
  PROVE  Received'
BY DEF Received

\* What is stored is of the request as it is, and stays.
LEMMA KeptFrame ==
  ASSUME Kept, UNCHANGED <<req, got, stored>>,
         pc \in Receiving \cup Handlers \cup {"gzip", "echo"}
           \/ pc' \notin Receiving \cup Handlers \cup {"gzip", "echo"}
  PROVE  Kept'
<1>1. /\ pc' \in Receiving \cup Handlers \cup {"gzip", "echo"} => stored' = None
      /\ stored' = None \/ (Len(stored') <= got' /\ LF \notin Range(stored'))
  BY DEF Kept, Receiving, Handlers
<1>2. InTime' <=> InTime
  BY DEF InTime, Whole, Named
<1>3. PlainBodyStored'
  BY <1>2 DEF Kept, PlainBodyStored
<1>4. StoredFromBody'
  BY <1>2 DEF Kept, StoredFromBody
<1> QED  BY <1>1, <1>3, <1>4 DEF Kept, Receiving, Handlers

\* The part of a message that arrived has the length that recv() returned.
LEMMA PartArrived ==
  ASSUME NEW q \in Requests, NEW n \in 0 .. Len(Message(q))
  PROVE  SubSeq(Message(q), 1, n) \in Seq(Alphabet) /\ Len(SubSeq(Message(q), 1, n)) = n
<1>1. Message(q) \in Seq(Alphabet)
  BY MessageShape
<1>2. Len(Message(q)) \in Nat /\ \A i \in 1 .. Len(Message(q)) : Message(q)[i] \in Alphabet
  BY <1>1
<1>3. n \in Int /\ n >= 0 /\ \A i \in 1 .. n : Message(q)[i] \in Alphabet
  BY <1>2
<1>4. /\ SubSeq(Message(q), 1, n) \in Seq(Alphabet)
      /\ Len(SubSeq(Message(q), 1, n)) = IF 1 <= n THEN n - 1 + 1 ELSE 0
  BY <1>3, SubSeqProperties
<1> QED  BY <1>3, <1>4

\* At first nothing has arrived and nothing is stored.
LEMMA InitPosting == Init => Posting
<1> SUFFICES ASSUME Init PROVE Posting
  OBVIOUS
<1>1. Received
  <2>1. got = 0 /\ buf = <<>> /\ pc = "recv" /\ faults = {} /\ req \in Requests
    BY DEF Init
  <2>2. header.route = ""
    BY DEF Init, NoHeader
  <2>3. Message(req) \in Seq(Alphabet)
    BY <2>1, MessageShape
  <2>4. 0 <= Len(Message(req)) /\ 0 \in 0 .. BufSize
    <3>1. Len(Message(req)) \in Nat
      BY <2>3
    <3> QED  BY <3>1, SizesAssumption
  <2>5. buf \in Seq(Alphabet) /\ Len(buf) = 0
    BY <2>1
  <2> QED  BY <2>1, <2>2, <2>4, <2>5 DEF Received
<1>2. Kept
  BY DEF Init, Kept, PlainBodyStored, StoredFromBody
<1>3. Sizes
  <2>1. header.useEncoding = ""
    BY DEF Init, NoHeader
  <2> QED  BY <2>1 DEF Init, Sizes
<1> QED  BY <1>1, <1>2, <1>3 DEF Posting

\* readbuf is filled by recv() and worked on by parseHeaders(); the POST finds it as they leave it.
LEMMA ReceivedKept ==
  ASSUME Posting, Answering, Next
  PROVE  Received'
<1>1. CASE Recv
  <2>1. PICK n \in 1 .. Len(Message(req)) :
          n <= BufSize /\ got' = n /\ buf' = SubSeq(Message(req), 1, n)
    BY <1>1 DEF Recv
  <2>2. req' = req /\ req \in Requests /\ pc' = "parse" /\ faults' = faults /\ faults = {}
    BY <1>1 DEF Recv, Posting, Received, Answering, Routed
  <2>3. Len(Message(req)) \in Nat
    <3>1. Message(req) \in Seq(Alphabet)
      BY <2>2, MessageShape
    <3> QED  BY <3>1
  <2>4. n \in 0 .. Len(Message(req)) /\ n \in 0 .. BufSize
    BY <2>1, <2>3, SizesAssumption
  <2>5. buf' \in Seq(Alphabet) /\ Len(buf') = n
    BY <2>1, <2>2, <2>4, PartArrived
  <2>6. n <= Len(Message(req))
    BY <2>3
  <2>7. buf' = Arrived'
    BY <2>1, <2>2 DEF Arrived
  <2> QED  BY <2>1, <2>2, <2>4, <2>5, <2>6, <2>7 DEF Received
<1>2. CASE RecvFails
  BY <1>2, ReceivedFrame DEF RecvFails, Posting
<1>3. CASE RecvEmpty
  <2>1. /\ pc' = "route" /\ header' = header /\ header.route = ""
        /\ UNCHANGED <<req, got, buf>>
    BY <1>3 DEF RecvEmpty, Posting, Received
  <2> QED  BY <2>1 DEF Posting, Received
<1>4. CASE ParseHeaders
  <2>1. /\ pc' = "route" /\ req' = req /\ got' = got /\ faults' = faults /\ faults = {}
        /\ buf' = Strtok(buf) /\ buf = Arrived
    BY <1>4 DEF ParseHeaders, Posting, Received
  <2>2. Strtok(buf) \in Seq(Alphabet) /\ Len(Strtok(buf)) = Len(buf)
    BY StrtokFacts DEF Posting, Received
  <2>3. Arrived' = Arrived
    BY <2>1 DEF Arrived
  <2> QED  BY <2>1, <2>2, <2>3 DEF Posting, Received
<1>5. CASE ParseFails
  BY <1>5, ReceivedFrame DEF ParseFails, Posting
<1>6. CASE Route
  <2>1. UNCHANGED <<req, got, buf, header, faults>> /\ pc = "route"
    BY <1>6 DEF Route
  <2>2. pc' \notin {"recv", "parse", "route"}
    BY <1>6, Dispatch DEF Handlers
  <2>3. Arrived' = Arrived
    BY <2>1 DEF Arrived
  <2> QED  BY <2>1, <2>2, <2>3 DEF Posting, Received
<1>7. CASE Fixed
  BY <1>7, ReceivedFrame DEF Fixed, Posting
<1>8. CASE EchoNothing
  BY <1>8, ReceivedFrame DEF EchoNothing, Posting
<1>9. CASE EchoText
  BY <1>9, ReceivedFrame DEF EchoText, Posting
<1>10. CASE EchoGzip
  BY <1>10, ReceivedFrame DEF EchoGzip, Posting
<1>11. CASE EchoGzipFails
  BY <1>11, ReceivedFrame DEF EchoGzipFails, Posting
<1>12. CASE EchoReply
  BY <1>12, ReceivedFrame DEF EchoReply, Posting
<1>13. CASE UserAgent
  BY <1>13, ReceivedFrame DEF UserAgent, Posting
<1>14. CASE GetMissing
  BY <1>14, ReceivedFrame DEF GetMissing, Posting
<1>15. CASE GetFile
  BY <1>15, ReceivedFrame DEF GetFile, Posting
<1>16. CASE PostMissing
  BY <1>16, ReceivedFrame DEF PostMissing, Posting
<1>17. CASE PostFile
  BY <1>17, ReceivedFrame DEF PostFile, Posting
<1>18. CASE Send
  BY <1>18, ReceivedFrame DEF Send, Posting
<1>19. CASE SendFails
  BY <1>19, ReceivedFrame DEF SendFails, Posting
<1>20. CASE SendContent
  BY <1>20, ReceivedFrame DEF SendContent, Posting
<1>21. CASE Free
  BY <1>21, ReceivedFrame DEF Free, Posting
<1>22. CASE GetFileUnread
  BY <1>22, ReceivedFrame DEF GetFileUnread, Posting
<1> QED  BY <1>1, <1>2, <1>3, <1>4, <1>5, <1>6, <1>7, <1>8, <1>9, <1>10, <1>11, <1>12, <1>13, <1>14, <1>15, <1>16, <1>17, <1>18, <1>19, <1>20, <1>21, <1>22 DEF Next


\* A POST whose request arrived whole, and names its file, finds the whole message in readbuf.
LEMMA PostInTime ==
  ASSUME Posting, Answering, pc = "POST_FILE", InTime
  PROVE  header.name # "" /\ buf = Strtok(Message(req))
<1>1. Whole /\ Named(req) /\ req \in Requests
  BY DEF InTime, Answering, Routed
<1>2. header.route = "/files/"
  BY DEF Answering, Routed
<1>3. faults = {} /\ buf = Strtok(Arrived)
  BY <1>2 DEF Posting, Received
<1>4. header.route = req.route /\ header.name = req.name
  BY <1>1, <1>3 DEF Answering, Routed
<1>5. Arrived = Message(req)
  BY <1>1, MessageShape, SubSeqFull DEF Arrived, Whole
<1> QED  BY <1>1, <1>2, <1>3, <1>4, <1>5 DEF Named

\* Only a POST stores, and it stores a piece of the body.
LEMMA StoredKept ==
  ASSUME Posting, Answering, Next
  PROVE  Kept'
<1>1. CASE Recv
  BY <1>1 DEF Recv, Posting, Kept, PlainBodyStored, StoredFromBody, Receiving, Handlers
<1>2. CASE RecvFails
  BY <1>2, KeptFrame DEF RecvFails, Posting, Receiving, Handlers
<1>3. CASE RecvEmpty
  BY <1>3, KeptFrame DEF RecvEmpty, Posting, Receiving, Handlers
<1>4. CASE ParseHeaders
  BY <1>4, KeptFrame DEF ParseHeaders, Posting, Receiving, Handlers
<1>5. CASE ParseFails
  BY <1>5, KeptFrame DEF ParseFails, Posting, Receiving, Handlers
<1>6. CASE Route
  BY <1>6, KeptFrame, Dispatch DEF Route, Posting, Receiving, Handlers
<1>7. CASE Fixed
  BY <1>7, KeptFrame DEF Fixed, Posting, Receiving, Handlers
<1>8. CASE EchoNothing
  BY <1>8, KeptFrame DEF EchoNothing, Posting, Receiving, Handlers
<1>9. CASE EchoText
  BY <1>9, KeptFrame DEF EchoText, Posting, Receiving, Handlers
<1>10. CASE EchoGzip
  BY <1>10, KeptFrame DEF EchoGzip, Posting, Receiving, Handlers
<1>11. CASE EchoGzipFails
  BY <1>11, KeptFrame DEF EchoGzipFails, Posting, Receiving, Handlers
<1>12. CASE EchoReply
  BY <1>12, KeptFrame DEF EchoReply, Posting, Receiving, Handlers
<1>13. CASE UserAgent
  BY <1>13, KeptFrame DEF UserAgent, Posting, Receiving, Handlers
<1>14. CASE GetMissing
  BY <1>14, KeptFrame DEF GetMissing, Posting, Receiving, Handlers
<1>15. CASE GetFile
  BY <1>15, KeptFrame DEF GetFile, Posting, Receiving, Handlers
<1>16. CASE PostMissing
  BY <1>16, KeptFrame DEF PostMissing, Posting, Receiving, Handlers
<1>17. CASE PostFile
  <2>1. UNCHANGED <<req, got>> /\ req \in Requests /\ pc = "POST_FILE" /\ pc' \in {"crashed", "send"}
    BY <1>17 DEF PostFile, Answering, Routed
  <2>2. buf \in Seq(Alphabet) /\ Len(buf) = got
    BY DEF Posting, Received
  <2>3. CASE header.name = ""
    <3>1. stored' = <<>>
      BY <1>17, <2>3 DEF PostFile
    <3>2. Len(stored') <= got' /\ LF \notin Range(stored')
      <4>1. 0 <= got
        <5>1. got \in 0 .. BufSize
          BY DEF Posting, Received
        <5> QED  BY <5>1, SizesAssumption
      <4>2. Range(<<>>) = {}
        BY DEF Range
      <4>3. Len(<<>>) = 0
        OBVIOUS
      <4> QED  BY <2>1, <3>1, <4>1, <4>2, <4>3
    <3>3. ~ InTime
      BY <2>1, <2>3, PostInTime DEF InTime
    <3>4. ~ InTime'
      BY <2>1, <3>3 DEF InTime, Whole, Named
    <3> QED  BY <2>1, <3>2, <3>4 DEF Kept, PlainBodyStored, StoredFromBody, Receiving, Handlers
  <2>4. CASE header.name # ""
    <3>1. stored' = LastToken(buf)
      BY <1>17, <2>4 DEF PostFile
    <3>2. Len(stored') <= got' /\ LF \notin Range(stored')
      <4>1. /\ stored' \in Seq(Alphabet) /\ Len(stored') <= got
            /\ \A x \in 1 .. Len(stored') : stored'[x] # LF
        BY <2>2, <3>1, TokenIsPiece
      <4> QED  BY <2>1, <4>1 DEF Range
    <3>3. InTime' <=> InTime
      BY <2>1 DEF InTime, Whole, Named
    <3>4. InTime => buf = Strtok(Message(req)) /\ Len(req.head) < TokenLimit
      BY <2>1, PostInTime DEF InTime
    <3>5. PlainBodyStored'
      BY <2>1, <3>1, <3>3, <3>4, PlainBodyToken DEF PlainBodyStored
    <3>6. StoredFromBody'
      <4> SUFFICES ASSUME InTime'
                   PROVE  \E k \in 0 .. Len(req.body) - Len(stored') :
                            \A i \in DOMAIN stored' :
                              stored'[i] = req.body[k + i] \/ (stored'[i] = NUL /\ req.body[k + i] \in Delims)
        BY <2>1 DEF StoredFromBody
      <4>1. stored' = LastToken(Strtok(Message(req))) /\ Len(req.head) < TokenLimit
        BY <3>1, <3>3, <3>4
      <4>2. LET s == LastToken(Strtok(Message(req)))
            IN \E k \in 0 .. Len(req.body) - Len(s) :
                 \A i \in DOMAIN s : s[i] = req.body[k + i] \/ (s[i] = NUL /\ req.body[k + i] \in Delims)
        BY <2>1, <4>1, TokenFromBody
      <4> QED  BY <4>1, <4>2
    <3> QED  BY <2>1, <3>2, <3>5, <3>6 DEF Kept, Receiving, Handlers
  <2> QED  BY <2>3, <2>4
<1>18. CASE Send
  BY <1>18, KeptFrame DEF Send, Posting, Receiving, Handlers
<1>19. CASE SendFails
  BY <1>19, KeptFrame DEF SendFails, Posting, Receiving, Handlers
<1>20. CASE SendContent
  BY <1>20, KeptFrame DEF SendContent, Posting, Receiving, Handlers
<1>21. CASE Free
  BY <1>21, KeptFrame DEF Free, Posting, Receiving, Handlers
<1>22. CASE GetFileUnread
  BY <1>22, KeptFrame DEF GetFileUnread, Posting, Receiving, Handlers
<1> QED  BY <1>1, <1>2, <1>3, <1>4, <1>5, <1>6, <1>7, <1>8, <1>9, <1>10, <1>11, <1>12, <1>13, <1>14, <1>15, <1>16, <1>17, <1>18, <1>19, <1>20, <1>21, <1>22 DEF Next

\* The lengths that handlers set, and what they allocate.
LEMMA SizesKept ==
  ASSUME Posting, Answering, Next
  PROVE  Sizes'
<1>1. CASE Recv
  BY <1>1, LengthsAssumption DEF Recv, Posting, Sizes
<1>2. CASE RecvFails
  BY <1>2, LengthsAssumption DEF RecvFails, Posting, Sizes
<1>3. CASE RecvEmpty
  BY <1>3, LengthsAssumption DEF RecvEmpty, Posting, Sizes
<1>4. CASE ParseHeaders
  BY <1>4, ParsedEncoding DEF ParseHeaders, Posting, Sizes
<1>5. CASE ParseFails
  BY <1>5, LengthsAssumption DEF ParseFails, Posting, Sizes
<1>6. CASE Route
  BY <1>6, LengthsAssumption DEF Route, Posting, Sizes
<1>7. CASE Fixed
  BY <1>7, LengthsAssumption DEF Fixed, Posting, Sizes
<1>8. CASE EchoNothing
  BY <1>8, LengthsAssumption DEF EchoNothing, Posting, Sizes
<1>9. CASE EchoText
  BY <1>9, LengthsAssumption DEF EchoText, Posting, Sizes
<1>10. CASE EchoGzip
  <2>1. header' = header /\ faults' \subseteq faults \cup {"memory"} /\ heap' \subseteq heap \cup {"compressed"}
    BY <1>10 DEF EchoGzip
  <2>2. contentLength' \in {ZipLen, 0, contentLength}
    BY <1>10 DEF EchoGzip
  <2>3. contentLength' \in Nat \cup {Uninit}
    <3>1. contentLength \in Nat \cup {Uninit}
      BY DEF Posting, Sizes
    <3>2. ZipLen \in Nat /\ 0 \in Nat
      BY LengthsAssumption
    <3> QED  BY <2>2, <3>1, <3>2
  <2> QED  BY <2>1, <2>3 DEF Posting, Sizes
<1>11. CASE EchoGzipFails
  <2>1. header'.useEncoding \in ValidEncodings \cup {""}
    BY <1>11 DEF EchoGzipFails, Answering, Headed, ValidEncodings
  <2> QED  BY <1>11, <2>1 DEF EchoGzipFails, Posting, Sizes
<1>12. CASE EchoReply
  BY <1>12, LengthsAssumption DEF EchoReply, Posting, Sizes
<1>13. CASE UserAgent
  BY <1>13 DEF UserAgent, Posting, Sizes, Answering, Headed
<1>14. CASE GetMissing
  BY <1>14, LengthsAssumption DEF GetMissing, Posting, Sizes
<1>15. CASE GetFile
  BY <1>15, LengthsAssumption DEF GetFile, Posting, Sizes
<1>16. CASE PostMissing
  BY <1>16, LengthsAssumption DEF PostMissing, Posting, Sizes
<1>17. CASE PostFile
  BY <1>17, LengthsAssumption DEF PostFile, Posting, Sizes
<1>18. CASE Send
  BY <1>18, LengthsAssumption DEF Send, Posting, Sizes
<1>19. CASE SendFails
  BY <1>19, LengthsAssumption DEF SendFails, Posting, Sizes
<1>20. CASE SendContent
  BY <1>20, LengthsAssumption DEF SendContent, Posting, Sizes
<1>21. CASE Free
  BY <1>21, LengthsAssumption DEF Free, Posting, Sizes
<1>22. CASE GetFileUnread
  BY <1>22, LengthsAssumption DEF GetFileUnread, Posting, Sizes
<1> QED  BY <1>1, <1>2, <1>3, <1>4, <1>5, <1>6, <1>7, <1>8, <1>9, <1>10, <1>11, <1>12, <1>13, <1>14, <1>15, <1>16, <1>17, <1>18, <1>19, <1>20, <1>21, <1>22 DEF Next


\* What readbuf holds and what a POST stores of it, at every place of serve().
THEOREM Stores == Spec => []Posting
<1>1. ASSUME Posting, Answering, [Next]_vars
      PROVE  Posting'
  <2>1. CASE Next
    BY <1>1, <2>1, ReceivedKept, StoredKept, SizesKept DEF Posting
  <2>2. CASE UNCHANGED vars
    <3>1. Received'
      BY <1>1, <2>2 DEF vars, Posting, Received, Arrived
    <3>2. Kept'
      <4>1. UNCHANGED <<pc, req, got, stored>>
        BY <2>2 DEF vars
      <4> QED  BY <1>1, <4>1, KeptFrame DEF Posting
    <3>3. Sizes'
      BY <1>1, <2>2 DEF vars, Posting, Sizes
    <3> QED  BY <3>1, <3>2, <3>3 DEF Posting
  <2> QED  BY <1>1, <2>1, <2>2
<1> QED  BY <1>1, InitPosting, Answers, PTL DEF Spec

\* Every variable has the values it is meant to have.
THEOREM TypeCorrect == Spec => []TypeOK
<1>1. Answering /\ Posting => TypeOK
  BY DEF Answering, Outs, Headed, Contents, Posting, Received, Kept, Sizes, TypeOK, Receiving,
         Handlers, Sending
<1> QED  BY <1>1, Answers, Stores, PTL

\* A body of one line that does not begin with white space is stored as it is, whatever the head
\* it came with, if that has fewer lines than the tokenizer of server.c:444 takes.
THEOREM PlainBodyStoredHolds == Spec => []PlainBodyStored
<1>1. Posting => PlainBodyStored
  BY DEF Posting, Kept
<1> QED  BY <1>1, Stores, PTL

\* Nothing of the head gets into the file, whatever strtok() and the tokenizer do to readbuf.
THEOREM StoredFromBodyHolds == Spec => []StoredFromBody
<1>1. Posting => StoredFromBody
  BY DEF Posting, Kept
<1> QED  BY <1>1, Stores, PTL
=============================================================================

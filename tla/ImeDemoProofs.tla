----------------------------- MODULE ImeDemoProofs -----------------------------
(***************************************************************************)
(* Theorems about ImeDemo: what its editors hold, and what a generation    *)
(* and the candidates on the screen are conditioned on.                    *)
(*                                                                         *)
(* The demo's invariant is that of the session and its caches, that of the *)
(* manager's protection, and two of its own: every editor holds whole      *)
(* characters and its cursor stands between two of them (EditorsInv); the  *)
(* request the loop's body works on is for the text before the cursor      *)
(* (RequestInv).  Between two calls the session's invariant gives the      *)
(* manager the slots it expects, and the manager's answer gives the        *)
(* session's invariant back, so a step of the demo is shown from the       *)
(* lemmas about a step of its parts.                                       *)
(*                                                                         *)
(* That a concatenation of any number of pieces stays in a set which is    *)
(* closed under concatenation is shown by climbing the recursive function  *)
(* of FlattenSeq (FlattenStays).                                           *)
(***************************************************************************)
EXTENDS ImeDemo, InferenceSessionProofs, ContextManagerProofs

-----------------------------------------------------------------------------
(* Sequences put together from pieces *)

\* Pieces of a set that is closed under concatenation come to one of its sequences.
LEMMA FlattenStays ==
  ASSUME NEW D, <<>> \in D, \A a, b \in D : a \o b \in D, NEW pieces \in Seq(D)
  PROVE  FlattenSeq(pieces) \in D
<1> DEFINE n == Len(pieces)
           step(f, i) == IF i = 1 THEN pieces[i] ELSE f[i - 1] \o pieces[i]
           flat == CHOOSE f : f = [i \in 1 .. n |-> step(f, i)]
<1>0. n \in Nat /\ \A i \in 1 .. n : pieces[i] \in D
  OBVIOUS
<1>1. CASE n = 0
  <2>1. pieces = <<>>
    BY <1>1
  <2> QED BY <1>1, <2>1 DEF FlattenSeq
<1>2. CASE n # 0
  <2>1. FlattenSeq(pieces) = flat[n]
    BY <1>2 DEF FlattenSeq
  <2> DEFINE reached == {k \in 0 .. n : \E f \in [1 .. k -> D] :
                                          \A i \in 1 .. k : f[i] = step(f, i)}
  <2>2. 0 \in reached
    <3> DEFINE none == [i \in 1 .. 0 |-> <<>>]
    <3>1. none \in [1 .. 0 -> D] /\ 1 .. 0 = {} /\ 0 \in 0 .. n
      BY <1>0
    <3> HIDE DEF none, step, n
    <3> QED BY <3>1
  <2>3. ASSUME NEW k \in reached, k < n PROVE k + 1 \in reached
    <3>1. PICK f \in [1 .. k -> D] : \A i \in 1 .. k : f[i] = step(f, i)
      OBVIOUS
    <3>2. k \in Nat /\ k + 1 \in 1 .. n
      BY <1>0, <2>3
    <3> DEFINE last == IF k + 1 = 1 THEN pieces[k + 1] ELSE f[k] \o pieces[k + 1]
               g == [i \in 1 .. k + 1 |-> IF i = k + 1 THEN last ELSE f[i]]
    <3>3. last \in D
      BY <1>0, <3>2
    <3>4. g \in [1 .. k + 1 -> D]
      <4> HIDE DEF last
      <4> QED BY <3>2, <3>3
    <3>5. ASSUME NEW i \in 1 .. k + 1 PROVE g[i] = step(g, i)
      <4>1. CASE i = k + 1
        BY <3>2, <4>1
      <4>2. CASE i # k + 1
        <5>1. i \in 1 .. k /\ (i # 1 => i - 1 \in 1 .. k + 1 /\ i - 1 # k + 1)
          BY <3>2, <4>2
        <5>2. g[i] = f[i] /\ (i # 1 => g[i - 1] = f[i - 1])
          <6> HIDE DEF last
          <6> QED BY <4>2, <5>1
        <5> HIDE DEF g
        <5> QED BY <3>1, <5>1, <5>2
      <4> QED BY <4>1, <4>2
    <3>6. k + 1 \in 0 .. n
      BY <3>2
    <3> HIDE DEF g, step, n
    <3> QED BY <3>4, <3>5, <3>6
  <2>4. n \in reached
    <3>1. reached \in SUBSET (0 .. n)
      OBVIOUS
    <3> HIDE DEF reached, n
    <3> QED BY <1>0, <2>2, <2>3, <3>1, Climb
  <2>5. PICK f \in [1 .. n -> D] : \A i \in 1 .. n : f[i] = step(f, i)
    BY <2>4
  <2>6. flat = [i \in 1 .. n |-> step(flat, i)]
    <3>1. f = [i \in 1 .. n |-> step(f, i)]
      BY <2>5
    <3> HIDE DEF n, step
    <3> QED BY <3>1
  <2> HIDE DEF flat
  <2>7. \A i \in 1 .. n : flat[i] = step(flat, i)
    BY <2>6
  <2> DEFINE within == {k \in 0 .. n : \A i \in 1 .. k : flat[i] \in D}
  <2>8. ASSUME NEW k \in within, k < n PROVE k + 1 \in within
    <3>1. k \in Nat /\ k + 1 \in 1 .. n /\ \A i \in 1 .. k : flat[i] \in D
      BY <1>0, <2>8
    <3>2. flat[k + 1] = IF k + 1 = 1 THEN pieces[k + 1] ELSE flat[k] \o pieces[k + 1]
      BY <2>7, <3>1
    <3>3. flat[k + 1] \in D
      BY <1>0, <3>1, <3>2
    <3> QED BY <3>1, <3>3
  <2>9. n \in within
    <3>1. within \in SUBSET (0 .. n) /\ 0 \in within
      BY <1>0
    <3> HIDE DEF within, n
    <3> QED BY <1>0, <2>8, <3>1, Climb
  <2>10. flat[n] \in D
    BY <1>0, <1>2, <2>9
  <2> QED BY <2>1, <2>10
<1> QED BY <1>1, <1>2

-----------------------------------------------------------------------------
(* Whole characters *)

Byte  == UNION {{<<c, i>> : i \in 1 .. Width[c]} : c \in DOMAIN Width}
Whole == {bytes \in Seq(Byte) : IsWhole(bytes)}

\* A byte is one of the bytes of its character.
LEMMA ByteParts ==
  ASSUME NEW b \in Byte
  PROVE  /\ b = <<b[1], b[2]>> /\ b[1] \in DOMAIN Width
         /\ b[2] \in 1 .. Width[b[1]] /\ b[2] \in Nat /\ b[2] >= 1
         /\ Width[b[1]] \in 1 .. 4
<1>1. PICK c \in DOMAIN Width : \E i \in 1 .. Width[c] : b = <<c, i>>
  BY DEF Byte
<1>2. Width[c] \in 1 .. 4
  BY WidthConfig
<1> QED BY <1>1, <1>2

\* What IsWhole says of one position.
Neighboured(bytes, p) ==
  /\ bytes[p][2] > 1 => p > 1 /\ bytes[p - 1] = <<bytes[p][1], bytes[p][2] - 1>>
  /\ bytes[p][2] < Width[bytes[p][1]] =>
       p < Len(bytes) /\ bytes[p + 1] = <<bytes[p][1], bytes[p][2] + 1>>

\* Bytes are whole characters when each stands next to the rest of its own.
LEMMA WholeIsNeighboured ==
  ASSUME NEW bytes \in Seq(Byte)
  PROVE  bytes \in Whole <=> \A p \in 1 .. Len(bytes) : Neighboured(bytes, p)
<1>1. DOMAIN bytes = 1 .. Len(bytes)
  OBVIOUS
<1> QED BY <1>1 DEF Whole, IsWhole, Neighboured

\* Whole characters behind whole characters are whole.
LEMMA WholeConcat ==
  ASSUME NEW a \in Whole, NEW b \in Whole
  PROVE  a \o b \in Whole
<1> DEFINE t == a \o b
           m == Len(a)
           n == Len(b)
<1>1. /\ a \in Seq(Byte) /\ b \in Seq(Byte) /\ m \in Nat /\ n \in Nat
      /\ \A p \in 1 .. m : Neighboured(a, p)
      /\ \A p \in 1 .. n : Neighboured(b, p)
  <2>1. a \in Seq(Byte) /\ b \in Seq(Byte)
    BY DEF Whole
  <2> QED BY <2>1, WholeIsNeighboured
<1>2. /\ t \in Seq(Byte) /\ Len(t) = m + n
      /\ \A p \in 1 .. m + n : t[p] = IF p <= m THEN a[p] ELSE b[p - m]
  BY <1>1, ConcatProperties
<1> HIDE DEF t, m, n
<1>3. ASSUME NEW p \in 1 .. m PROVE Neighboured(t, p)
  <2>1. /\ p \in 1 .. m + n /\ p <= m /\ p \in Nat
        /\ p > 1 => p - 1 \in 1 .. m + n /\ p - 1 <= m
        /\ p < m => p + 1 \in 1 .. m + n /\ p + 1 <= m /\ p < m + n
    BY <1>1
  <2>2. /\ t[p] = a[p] /\ Neighboured(a, p)
        /\ p > 1 => t[p - 1] = a[p - 1]
        /\ p < m => t[p + 1] = a[p + 1] /\ p < Len(t)
    BY <1>1, <1>2, <2>1
  <2> QED BY <2>2 DEF Neighboured, m
<1>4. ASSUME NEW p \in m + 1 .. m + n PROVE Neighboured(t, p)
  <2>1. p - m \in 1 .. n /\ ~(p <= m) /\ p \in 1 .. m + n /\ p \in Int
    BY <1>1
  <2>2. t[p] = b[p - m] /\ Neighboured(b, p - m)
    BY <1>1, <1>2, <2>1
  <2>3. p - m > 1 => p > 1 /\ t[p - 1] = b[(p - m) - 1]
    <3>1. p - m > 1 => ~(p - 1 <= m) /\ p - 1 \in 1 .. m + n /\ (p - 1) - m = (p - m) - 1 /\ p > 1
      BY <1>1, <2>1
    <3> QED BY <1>2, <3>1
  <2>4. p - m < n => p < Len(t) /\ t[p + 1] = b[(p - m) + 1]
    <3>1. p - m < n => ~(p + 1 <= m) /\ p + 1 \in 1 .. m + n /\ (p + 1) - m = (p - m) + 1
                       /\ p < m + n
      BY <1>1, <2>1
    <3> QED BY <1>2, <3>1
  <2> QED BY <2>2, <2>3, <2>4 DEF Neighboured, n
<1>5. \A p \in 1 .. Len(t) : Neighboured(t, p)
  BY <1>1, <1>2, <1>3, <1>4
<1>6. t \in Whole
  BY <1>2, <1>5, WholeIsNeighboured
<1> QED BY <1>6 DEF t

\* A position where a text can be cut: one that no character spans.
Boundary(bytes, p) == p = 0 \/ p = Len(bytes) \/ bytes[p + 1][2] = 1

\* Whole characters cut there are whole on both sides.
LEMMA WholeCut ==
  ASSUME NEW bytes \in Whole, NEW p \in 0 .. Len(bytes), Boundary(bytes, p)
  PROVE  /\ SubSeq(bytes, 1, p) \in Whole /\ Len(SubSeq(bytes, 1, p)) = p
         /\ SubSeq(bytes, p + 1, Len(bytes)) \in Whole
         /\ Len(SubSeq(bytes, p + 1, Len(bytes))) = Len(bytes) - p
<1> DEFINE before == SubSeq(bytes, 1, p)
           after  == SubSeq(bytes, p + 1, Len(bytes))
           n == Len(bytes)
<1>1. /\ bytes \in Seq(Byte) /\ n \in Nat /\ p \in Nat /\ p <= n
      /\ \A q \in 1 .. n : Neighboured(bytes, q) /\ bytes[q] \in Byte
  <2>1. bytes \in Seq(Byte)
    BY DEF Whole
  <2> QED BY <2>1, WholeIsNeighboured
<1>2. /\ before \in Seq(Byte) /\ Len(before) = p
      /\ \A q \in 1 .. p : before[q] = bytes[q]
  <2>1. \A q \in 1 .. p : bytes[q] \in Byte
    BY <1>1
  <2>2. /\ before \in Seq(Byte) /\ Len(before) = IF 1 <= p THEN p - 1 + 1 ELSE 0
        /\ \A q \in 1 .. p - 1 + 1 : before[q] = bytes[1 + q - 1]
    BY <1>1, <2>1, SubSeqProperties
  <2> HIDE DEF before
  <2>3. p - 1 + 1 = p /\ \A q \in 1 .. p : 1 + q - 1 = q
    BY <1>1
  <2> QED BY <1>1, <2>2, <2>3
<1>3. /\ after \in Seq(Byte) /\ Len(after) = n - p
      /\ \A q \in 1 .. n - p : after[q] = bytes[p + q]
  <2>1. (\A q \in p + 1 .. n : bytes[q] \in Byte) /\ p + 1 \in Int /\ n \in Int
    BY <1>1
  <2>2. /\ after \in Seq(Byte) /\ Len(after) = IF p + 1 <= n THEN n - (p + 1) + 1 ELSE 0
        /\ \A q \in 1 .. n - (p + 1) + 1 : after[q] = bytes[p + 1 + q - 1]
    BY <2>1, SubSeqProperties
  <2> HIDE DEF after, n
  <2>3. n - (p + 1) + 1 = n - p /\ \A q \in 1 .. n - p : p + 1 + q - 1 = p + q
    BY <1>1
  <2> QED BY <1>1, <2>2, <2>3
<1>4. p \in 1 .. n - 1 => bytes[p + 1][2] = 1
  BY <1>1 DEF Boundary
<1> HIDE DEF before, after, n
<1>5. ASSUME NEW q \in 1 .. p PROVE Neighboured(before, q)
  <2>1. /\ q \in 1 .. n /\ before[q] = bytes[q] /\ Neighboured(bytes, q) /\ bytes[q] \in Byte
        /\ q > 1 => before[q - 1] = bytes[q - 1]
        /\ q < p => before[q + 1] = bytes[q + 1]
    BY <1>1, <1>2
  <2>2. bytes[q][2] \in Nat /\ bytes[q][2] >= 1
    BY <2>1, ByteParts
  <2>3. q < n /\ bytes[q + 1] = <<bytes[q][1], bytes[q][2] + 1>> => q < p
    <3> SUFFICES ASSUME q < n, bytes[q + 1] = <<bytes[q][1], bytes[q][2] + 1>>, ~(q < p)
                 PROVE  FALSE
      OBVIOUS
    <3>1. q = p /\ p \in 1 .. n - 1
      BY <1>1
    <3>2. bytes[q + 1][2] = bytes[q][2] + 1
      OBVIOUS
    <3> QED BY <1>4, <2>2, <3>1, <3>2
  <2> QED BY <1>2, <2>1, <2>3 DEF Neighboured, n
<1>6. ASSUME NEW q \in 1 .. n - p PROVE Neighboured(after, q)
  <2>1. /\ p + q \in 1 .. n /\ q \in Nat /\ q >= 1
        /\ q > 1 => q - 1 \in 1 .. n - p /\ p + (q - 1) = (p + q) - 1
        /\ p + q < n => q + 1 \in 1 .. n - p /\ p + (q + 1) = (p + q) + 1 /\ q < n - p
    BY <1>1
  <2>2. /\ after[q] = bytes[p + q] /\ Neighboured(bytes, p + q) /\ bytes[p + q] \in Byte
        /\ q > 1 => after[q - 1] = bytes[(p + q) - 1]
        /\ p + q < n => after[q + 1] = bytes[(p + q) + 1]
    <3>1. after[q] = bytes[p + q] /\ Neighboured(bytes, p + q) /\ bytes[p + q] \in Byte
      BY <1>1, <1>3, <2>1
    <3>2. ASSUME q > 1 PROVE after[q - 1] = bytes[(p + q) - 1]
      <4>1. after[q - 1] = bytes[p + (q - 1)]
        BY <1>3, <2>1, <3>2
      <4> QED BY <2>1, <3>2, <4>1
    <3>3. ASSUME p + q < n PROVE after[q + 1] = bytes[(p + q) + 1]
      <4>1. after[q + 1] = bytes[p + (q + 1)]
        BY <1>3, <2>1, <3>3
      <4> QED BY <2>1, <3>3, <4>1
    <3> QED BY <3>1, <3>2, <3>3
  <2>3. bytes[p + q][2] > 1 => q > 1
    <3> SUFFICES ASSUME bytes[p + q][2] > 1, ~(q > 1) PROVE FALSE
      OBVIOUS
    <3>1. q = 1 /\ p + q = p + 1 /\ p <= n - 1
      BY <1>1, <2>1
    <3>2. p > 0
      BY <1>1, <2>2, <3>1 DEF Neighboured
    <3> QED BY <1>1, <1>4, <3>1, <3>2
  <2> QED BY <1>3, <2>1, <2>2, <2>3 DEF Neighboured, n
<1>7. before \in Whole
  BY <1>2, <1>5, WholeIsNeighboured
<1>8. after \in Whole
  BY <1>3, <1>6, WholeIsNeighboured
<1> QED BY <1>2, <1>3, <1>7, <1>8 DEF before, after, n

\* The first of them is the first byte of a character.
LEMMA WholeFirst ==
  ASSUME NEW bytes \in Whole, Len(bytes) > 0
  PROVE  bytes[1][2] = 1
<1>1. bytes \in Seq(Byte) /\ 1 \in 1 .. Len(bytes)
  BY DEF Whole
<1>2. Neighboured(bytes, 1) /\ bytes[1] \in Byte
  BY <1>1, WholeIsNeighboured
<1>3. bytes[1][2] \in Nat /\ bytes[1][2] >= 1
  BY <1>2, ByteParts
<1> QED BY <1>2, <1>3 DEF Neighboured

\* Between whole characters and whole characters a text can be cut.
LEMMA WholeJoint ==
  ASSUME NEW a \in Whole, NEW b \in Whole
  PROVE  a \o b \in Whole /\ Len(a \o b) = Len(a) + Len(b) /\ Boundary(a \o b, Len(a))
<1>1. a \o b \in Whole
  BY WholeConcat
<1>2. a \in Seq(Byte) /\ b \in Seq(Byte)
  BY DEF Whole
<1>3. /\ Len(a) \in Nat /\ Len(b) \in Nat /\ Len(a \o b) = Len(a) + Len(b)
      /\ Len(b) > 0 => (a \o b)[Len(a) + 1] = b[1]
  <2>1. /\ Len(a \o b) = Len(a) + Len(b)
        /\ \A i \in 1 .. Len(a) + Len(b) :
             (a \o b)[i] = IF i <= Len(a) THEN a[i] ELSE b[i - Len(a)]
    BY <1>2, ConcatProperties
  <2>2. /\ Len(a) \in Nat /\ Len(b) \in Nat /\ ~(Len(a) + 1 <= Len(a))
        /\ Len(b) > 0 => Len(a) + 1 \in 1 .. Len(a) + Len(b)
        /\ (Len(a) + 1) - Len(a) = 1
    BY <1>2
  <2> QED BY <2>1, <2>2
<1>4. Boundary(a \o b, Len(a))
  <2>1. CASE Len(b) = 0
    BY <1>3, <2>1 DEF Boundary
  <2>2. CASE Len(b) > 0
    <3>1. b[1][2] = 1
      BY <2>2, WholeFirst
    <3>2. (a \o b)[Len(a) + 1][2] = 1
      BY <1>3, <2>2, <3>1
    <3> QED BY <3>2, Zenon DEF Boundary
  <2> QED BY <1>3, <2>1, <2>2
<1> QED BY <1>1, <1>3, <1>4

\* The encoding of a character is whole.
LEMMA Utf8Whole ==
  ASSUME NEW c \in DOMAIN Width
  PROVE  Utf8(c) \in Whole
<1>1. Width[c] \in 1 .. 4 /\ Width[c] \in Nat
  BY WidthConfig
<1>2. \A i \in 1 .. Width[c] : <<c, i>> \in Byte
  BY DEF Byte
<1>3. /\ Utf8(c) \in Seq(Byte) /\ Len(Utf8(c)) = Width[c]
      /\ \A i \in 1 .. Width[c] : Utf8(c)[i] = <<c, i>>
  BY <1>1, <1>2 DEF Utf8
<1>4. ASSUME NEW p \in 1 .. Width[c] PROVE Neighboured(Utf8(c), p)
  <2>1. Utf8(c)[p] = <<c, p>> /\ p \in Nat
    BY <1>3
  <2>2. p > 1 => Utf8(c)[p - 1] = <<c, p - 1>>
    <3>1. p > 1 => p - 1 \in 1 .. Width[c]
      BY <1>1
    <3> QED BY <1>3, <3>1
  <2>3. p < Width[c] => Utf8(c)[p + 1] = <<c, p + 1>>
    <3>1. p < Width[c] => p + 1 \in 1 .. Width[c]
      BY <1>1
    <3> QED BY <1>3, <3>1
  <2> QED BY <1>3, <2>1, <2>2, <2>3 DEF Neighboured
<1> QED BY <1>3, <1>4, WholeIsNeighboured

\* So is the encoding of a text.
LEMMA EncodedWhole ==
  ASSUME NEW chars \in Seq(DOMAIN Width)
  PROVE  Encoded(chars) \in Whole
<1> DEFINE pieces == [i \in DOMAIN chars |-> Utf8(chars[i])]
<1>1. <<>> \in Whole
  BY DEF Whole, IsWhole
<1>2. \A a, b \in Whole : a \o b \in Whole
  BY WholeConcat
<1>3. pieces \in Seq(Whole)
  <2>1. DOMAIN chars = 1 .. Len(chars) /\ Len(chars) \in Nat
    OBVIOUS
  <2>2. \A i \in 1 .. Len(chars) : Utf8(chars[i]) \in Whole
    BY Utf8Whole
  <2> QED BY <2>1, <2>2
<1> HIDE DEF pieces
<1>4. FlattenSeq(pieces) \in Whole
  BY <1>1, <1>2, <1>3, FlattenStays
<1> QED BY <1>4 DEF Encoded, pieces

\* The ids of a text are ids.
LEMMA EncodedIds ==
  ASSUME NEW bytes \in Seq(Byte)
  PROVE  encode_context(bytes) \in Seq(Tokens)
<1> DEFINE piece(p) == IF WholeAt(bytes, p) /\ bytes[p][1] \in Tokens
                       THEN <<bytes[p][1]>> ELSE <<>>
           pieces == [p \in DOMAIN bytes |-> piece(p)]
<1>1. \A p : piece(p) \in Seq(Tokens)
  OBVIOUS
<1>2. pieces \in Seq(Seq(Tokens))
  <2>1. DOMAIN bytes = 1 .. Len(bytes) /\ Len(bytes) \in Nat
    OBVIOUS
  <2> HIDE DEF piece
  <2> QED BY <1>1, <2>1
<1>3. <<>> \in Seq(Tokens) /\ \A a, b \in Seq(Tokens) : a \o b \in Seq(Tokens)
  OBVIOUS
<1>4. FlattenSeq(pieces) \in Seq(Tokens)
  <2> HIDE DEF pieces
  <2> QED BY <1>2, <1>3, FlattenStays
<1> QED BY <1>4 DEF encode_context

-----------------------------------------------------------------------------
(* The editor *)

\* An editor whose text is whole and whose cursor no character spans.
Editors == {e \in [text : Whole, cursor : Nat] :
              e.cursor <= Len(e.text) /\ Boundary(e.text, e.cursor)}

\* A text of whole characters and a cursor between two of them.
LEMMA EditorParts ==
  ASSUME NEW e \in Editors
  PROVE  /\ e \in [text : Whole, cursor : Nat] /\ e.text \in Whole /\ e.text \in Seq(Byte)
         /\ Len(e.text) \in Nat /\ e.cursor \in 0 .. Len(e.text) /\ Boundary(e.text, e.cursor)
<1>1. e.text \in Whole /\ e.text \in Seq(Byte)
  BY DEF Editors, Whole
<1> QED BY <1>1 DEF Editors

\* A byte that continues no character starts one.
LEMMA NotContinued ==
  ASSUME NEW bytes \in Seq(Byte), NEW p \in 1 .. Len(bytes), ~is_continuation(bytes[p])
  PROVE  bytes[p][2] = 1
<1>1. bytes[p] \in Byte
  OBVIOUS
<1> QED BY <1>1, ByteParts DEF is_continuation

\* The two searches end between characters, on their side of the cursor.
LEMMA PreviousBoundary ==
  ASSUME NEW e \in Editors, e.cursor > 0
  PROVE  /\ previous_boundary(e) \in 0 .. e.cursor - 1
         /\ Boundary(e.text, previous_boundary(e))
<1> DEFINE T == {p \in 0 .. e.cursor - 1 : p = 0 \/ ~is_continuation(e.text[p + 1])}
<1>0. e.cursor \in Nat /\ e.cursor <= Len(e.text) /\ Len(e.text) \in Nat /\ e.text \in Seq(Byte)
  BY EditorParts
<1>1. e.cursor - 1 \in Nat /\ T \in SUBSET (0 .. e.cursor - 1) /\ 0 \in T
  BY <1>0
<1>2. Max(T) \in T
  <2> HIDE DEF T
  <2> QED BY <1>1, MaxIsGreatest
<1>3. previous_boundary(e) \in T
  BY <1>2 DEF previous_boundary
<1> HIDE DEF previous_boundary
<1>4. CASE previous_boundary(e) = 0
  BY <1>3, <1>4 DEF Boundary
<1>5. CASE previous_boundary(e) # 0
  <2>1. ~is_continuation(e.text[previous_boundary(e) + 1])
    BY <1>3, <1>5
  <2>2. previous_boundary(e) + 1 \in 1 .. Len(e.text)
    BY <1>0, <1>3
  <2>3. e.text[previous_boundary(e) + 1][2] = 1
    BY <1>0, <2>1, <2>2, NotContinued
  <2> QED BY <1>3, <2>3 DEF Boundary
<1> QED BY <1>4, <1>5

\* The next boundary lies behind the cursor and between two characters.
LEMMA NextBoundary ==
  ASSUME NEW e \in Editors, e.cursor < Len(e.text)
  PROVE  /\ next_boundary(e) \in e.cursor + 1 .. Len(e.text)
         /\ Boundary(e.text, next_boundary(e))
<1> DEFINE T == {p \in e.cursor + 1 .. Len(e.text) :
                   p = Len(e.text) \/ ~is_continuation(e.text[p + 1])}
<1>0. e.cursor \in Nat /\ Len(e.text) \in Nat /\ e.text \in Seq(Byte)
  BY EditorParts
<1>1. T \in SUBSET Nat /\ Len(e.text) \in T
  BY <1>0
<1>2. Min(T) \in T
  <2> HIDE DEF T
  <2> QED BY <1>1, MinIsLeast
<1>3. next_boundary(e) \in T
  BY <1>2 DEF next_boundary
<1> HIDE DEF next_boundary
<1>4. CASE next_boundary(e) = Len(e.text)
  BY <1>3, <1>4 DEF Boundary
<1>5. CASE next_boundary(e) # Len(e.text)
  <2>1. ~is_continuation(e.text[next_boundary(e) + 1])
    BY <1>3, <1>5
  <2>2. next_boundary(e) + 1 \in 1 .. Len(e.text)
    BY <1>0, <1>3, <1>5
  <2>3. e.text[next_boundary(e) + 1][2] = 1
    BY <1>0, <2>1, <2>2, NotContinued
  <2> QED BY <1>3, <2>3 DEF Boundary
<1> QED BY <1>4, <1>5

\* Both sides of the cursor of an editor are whole.
LEMMA EditorOnBoundary ==
  ASSUME NEW e \in Editors
  PROVE  OnBoundary(e) /\ text_before_cursor(e) \in Seq(Byte)
<1>1. e.text \in Whole /\ e.cursor \in 0 .. Len(e.text) /\ Boundary(e.text, e.cursor)
  BY EditorParts
<1>2. SubSeq(e.text, 1, e.cursor) \in Whole /\ SubSeq(e.text, e.cursor + 1, Len(e.text)) \in Whole
  BY <1>1, WholeCut
<1> QED BY <1>2 DEF OnBoundary, text_before_cursor, Whole

\* What is cut out between two characters leaves an editor.
LEMMA CutKeepsEditor ==
  ASSUME NEW e \in Editors, NEW from \in 0 .. Len(e.text), NEW to \in 0 .. Len(e.text),
         Boundary(e.text, from), Boundary(e.text, to)
  PROVE  [text |-> Cut(e, from, to), cursor |-> from] \in Editors
<1> DEFINE before == SubSeq(e.text, 1, from)
           after  == SubSeq(e.text, to + 1, Len(e.text))
<1>1. e.text \in Whole
  BY EditorParts
<1>2. before \in Whole /\ Len(before) = from
  BY <1>1, WholeCut
<1>3. after \in Whole
  BY <1>1, WholeCut
<1> HIDE DEF before, after
<1>4. /\ before \o after \in Whole /\ Len(before \o after) = Len(before) + Len(after)
      /\ Boundary(before \o after, Len(before))
  BY <1>2, <1>3, WholeJoint
<1>5. Len(after) \in Nat /\ from \in Nat
  BY <1>3 DEF Whole
<1> DEFINE cut == before \o after
<1>6. cut \in Whole /\ from \in Nat /\ from <= Len(cut) /\ Boundary(cut, from)
  BY <1>2, <1>4, <1>5
<1>7. Cut(e, from, to) = cut
  BY DEF Cut, before, after
<1> HIDE DEF cut
<1> QED BY <1>6, <1>7 DEF Editors

\* Every operation of the editor does.
LEMMA InsertKeepsEditor ==
  ASSUME NEW e \in Editors, NEW bytes \in Whole
  PROVE  insert(e, bytes) \in Editors
<1> DEFINE before == SubSeq(e.text, 1, e.cursor)
           after  == SubSeq(e.text, e.cursor + 1, Len(e.text))
           whole  == (before \o bytes) \o after
<1>1. e.text \in Whole /\ e.cursor \in 0 .. Len(e.text) /\ Boundary(e.text, e.cursor)
  BY EditorParts
<1>2. before \in Whole /\ Len(before) = e.cursor /\ after \in Whole
  BY <1>1, WholeCut
<1> HIDE DEF before, after
<1>3. before \o bytes \in Whole /\ Len(before \o bytes) = e.cursor + Len(bytes)
  BY <1>2, WholeJoint
<1> DEFINE front == before \o bytes
<1> HIDE DEF front
<1>4. front \in Whole /\ Len(front) = e.cursor + Len(bytes)
  BY <1>3 DEF front
<1>5. /\ front \o after \in Whole /\ Len(front \o after) = Len(front) + Len(after)
      /\ Boundary(front \o after, Len(front))
  BY <1>2, <1>4, WholeJoint
<1>6. Len(front) \in Nat /\ Len(after) \in Nat
  BY <1>2, <1>4 DEF Whole
<1>7. insert(e, bytes) = [text |-> front \o after, cursor |-> Len(front)]
  BY <1>4 DEF insert, text_before_cursor, front, before, after
<1>8. [text |-> front \o after, cursor |-> Len(front)] \in Editors
  <2> DEFINE t == front \o after
  <2>1. t \in Whole /\ Len(front) <= Len(t) /\ Boundary(t, Len(front))
    BY <1>5, <1>6
  <2> HIDE DEF t
  <2> QED BY <1>6, <2>1 DEF Editors, t
<1> QED BY <1>7, <1>8

\* No key leaves half a character or puts the cursor inside one.
LEMMA KeysKeepEditor ==
  ASSUME NEW e \in Editors
  PROVE  {backspace(e), erase(e), move_left(e), move_right(e)} \subseteq Editors
<1>1. /\ e \in [text : Whole, cursor : Nat] /\ Len(e.text) \in Nat
      /\ e.cursor \in 0 .. Len(e.text) /\ Boundary(e.text, e.cursor)
  BY EditorParts
<1>2. e = [text |-> e.text, cursor |-> e.cursor]
  BY <1>1
<1>3. ASSUME e.cursor > 0
      PROVE  backspace(e) \in Editors /\ move_left(e) \in Editors
  <2> DEFINE p == previous_boundary(e)
  <2>1. p \in 0 .. e.cursor - 1 /\ Boundary(e.text, p)
    BY <1>3, PreviousBoundary
  <2>2. p \in Nat /\ p \in 0 .. Len(e.text) /\ p <= Len(e.text)
    BY <1>1, <2>1
  <2>3. backspace(e) = [text |-> Cut(e, p, e.cursor), cursor |-> p]
    BY <1>1, <1>3 DEF backspace
  <2>4. move_left(e) = [text |-> e.text, cursor |-> p]
    BY <1>1, <1>3 DEF move_left
  <2> HIDE DEF p
  <2>5. [text |-> Cut(e, p, e.cursor), cursor |-> p] \in Editors
    BY <1>1, <2>1, <2>2, CutKeepsEditor
  <2>6. [text |-> e.text, cursor |-> p] \in Editors
    BY <1>1, <2>1, <2>2 DEF Editors
  <2> QED BY <2>3, <2>4, <2>5, <2>6
<1>4. ASSUME e.cursor < Len(e.text)
      PROVE  erase(e) \in Editors /\ move_right(e) \in Editors
  <2> DEFINE p == next_boundary(e)
  <2>1. p \in e.cursor + 1 .. Len(e.text) /\ Boundary(e.text, p)
    BY <1>4, NextBoundary
  <2>2. p \in Nat /\ p \in 0 .. Len(e.text) /\ p <= Len(e.text)
    BY <1>1, <2>1
  <2>3. erase(e) = [text |-> Cut(e, e.cursor, p), cursor |-> e.cursor]
    BY <1>1, <1>4 DEF erase
  <2>4. move_right(e) = [text |-> e.text, cursor |-> p]
    BY <1>1, <1>4 DEF move_right
  <2> HIDE DEF p
  <2>5. [text |-> Cut(e, e.cursor, p), cursor |-> e.cursor] \in Editors
    BY <1>1, <2>1, <2>2, CutKeepsEditor
  <2>6. [text |-> e.text, cursor |-> p] \in Editors
    BY <1>1, <2>1, <2>2 DEF Editors
  <2> QED BY <2>3, <2>4, <2>5, <2>6
<1>5. ~(e.cursor > 0) => backspace(e) = e /\ move_left(e) = e
  BY <1>1 DEF backspace, move_left
<1>6. ~(e.cursor < Len(e.text)) => erase(e) = e /\ move_right(e) = e
  BY DEF erase, move_right
<1> QED BY <1>3, <1>4, <1>5, <1>6

-----------------------------------------------------------------------------
(* The invariant of the demo *)

\* The editors are whole, and so is everything that can be inserted into one.
EditorsInv ==
  /\ pinyin \in Editors /\ histories \in [Slots -> Editors] /\ history_index \in Slots
  /\ candidates.texts \in Seq(Seq(Candidates))

\* The request the loop's body works on is for the text before the cursor, from the
\* moment it is answered to the moment the candidates it led to leave the screen.
\* Without text there is no snapshot: then the slot has to be empty already.
RequestInv ==
  /\ phase \in {"key", "ask", "call", "exit"}
  /\ phase # "call" => pc = "idle"
  /\ phase = "call" => reply.slot \in Slots /\ reply.asked = model_history
  /\ phase = "call" /\ pc = "idle" /\ reply.asked = <<>> => context_ids[reply.slot] = <<>>
  /\ pc # "idle" => gen.ids = Below(Window(reply.asked))
  /\ candidates.texts # <<>> => phase = "key" /\ candidates.after = model_history

DemoInv == SessionInv /\ CacheInv /\ ProtectionInv /\ EditorsInv /\ RequestInv

\* One core config for the manager and the session: a slot holds a full history.
LEMMA DemoRoom == Roomy /\ MaxHistory <= SlotCapacity
BY DemoConfig, SessionConfig, SlotConfig DEF Roomy

\* The text a request asks for is made of ids, without BOS.
LEMMA ModelHistoryIds ==
  ASSUME EditorsInv
  PROVE  /\ history \in Editors /\ model_history \in Seq(Tokens)
         /\ model_history \in Seq(Vocab) /\ model_history \in Seq(Vocab \cup {BadId})
         /\ without_bos(model_history) = model_history
<1>1. history \in Editors
  BY DEF EditorsInv, history
<1>2. model_history \in Seq(Tokens)
  BY <1>1, EditorOnBoundary, EncodedIds DEF model_history
<1> DEFINE ids == model_history
<1> HIDE DEF ids
<1>3. ASSUME ids \in Seq(Tokens)
      PROVE  /\ ids \in Seq(Vocab) /\ ids \in Seq(Vocab \cup {BadId})
             /\ ids # <<>> => Head(ids) # BOS
  BY <1>3, SlotConfig DEF Vocab
<1>4. ids \in Seq(Tokens)
  BY <1>2 DEF ids
<1>5. without_bos(ids) = ids
  BY <1>3, <1>4 DEF without_bos
<1> QED BY <1>1, <1>3, <1>4, <1>5 DEF ids

\* A call that leaves the session alone keeps what is known of it.
LEMMA SameSession ==
  ASSUME SessionInv, CacheInv, UNCHANGED vars
  PROVE  SessionInv' /\ CacheInv'
BY NextKeepsHistories, NextKeepsCaches

\* A step that protects nothing and releases nothing.
LEMMA SameProtection ==
  ASSUME ProtectionInv, UNCHANGED protected_slots
  PROVE  ProtectionInv'
BY DEF ProtectionInv

-----------------------------------------------------------------------------
(* Keys *)

\* Switching to another history.
LEMMA SwitchKeepsDemo ==
  ASSUME DemoInv, switch_history
  PROVE  DemoInv'
<1> USE DEF DemoInv
<1>1. SessionInv' /\ CacheInv' /\ ProtectionInv'
  BY SameSession, SameProtection DEF switch_history
<1>2. history_index' \in Slots
  <2>1. /\ Slots = 0 .. NumContexts - 1 /\ NumContexts \in Nat /\ NumContexts >= 1
        /\ Cardinality(Slots) = NumContexts
    BY ManagerConfig DEF NumContexts
  <2>2. history_index \in Nat /\ history_index + 1 \in Nat /\ history_index + NumContexts - 1 \in Nat
    BY <2>1 DEF EditorsInv
  <2>3. \A n \in Nat, k \in Nat : n >= 1 => k % n \in 0 .. n - 1
    OBVIOUS
  <2>4. history_index' \in {(history_index + NumContexts - 1) % NumContexts,
                            (history_index + 1) % NumContexts}
    BY <2>1 DEF switch_history, previous_history, next_history
  <2> QED BY <2>1, <2>2, <2>3, <2>4
<1>3. EditorsInv'
  BY <1>2 DEF EditorsInv, switch_history, NoCandidates
<1>4. RequestInv'
  BY DEF RequestInv, switch_history, NoCandidates, AtPrompt, vars
<1> QED BY <1>1, <1>3, <1>4

\* Choosing a candidate.
LEMMA ChoiceKeepsDemo ==
  ASSUME DemoInv, choose_candidate
  PROVE  DemoInv'
<1> USE DEF DemoInv
<1>1. SessionInv' /\ CacheInv' /\ ProtectionInv'
  BY SameSession, SameProtection DEF choose_candidate
<1>2. histories' \in [Slots -> Editors]
  <2>1. PICK i \in DOMAIN candidates.texts :
          histories' = [histories EXCEPT ![history_index] =
                          insert(history, Encoded(candidates.texts[i]))]
    BY DEF choose_candidate
  <2>2. candidates.texts[i] \in Seq(DOMAIN Width)
    <3>1. candidates.texts[i] \in Seq(Candidates)
      BY DEF EditorsInv
    <3>2. \A text \in Seq(Candidates) : text \in Seq(DOMAIN Width)
      BY DemoConfig
    <3> QED BY <3>1, <3>2
  <2>3. Encoded(candidates.texts[i]) \in Whole
    BY <2>2, EncodedWhole
  <2>4. history \in Editors
    BY ModelHistoryIds
  <2>5. insert(history, Encoded(candidates.texts[i])) \in Editors
    BY <2>3, <2>4, InsertKeepsEditor
  <2> QED BY <2>1, <2>5 DEF EditorsInv
<1>3. EmptyEditor \in Editors
  <2>1. <<>> \in Whole /\ Len(<<>>) = 0
    BY DEF Whole, IsWhole
  <2> QED BY <2>1 DEF EmptyEditor, Editors, Boundary
<1>4. EditorsInv'
  BY <1>2, <1>3 DEF EditorsInv, choose_candidate, NoCandidates
<1>5. RequestInv'
  BY DEF RequestInv, choose_candidate, NoCandidates, AtPrompt, vars
<1> QED BY <1>1, <1>4, <1>5

\* A key that edits the pinyin or the history.
LEMMA EditKeepsDemo ==
  ASSUME DemoInv, edit
  PROVE  DemoInv'
<1> USE DEF DemoInv
<1>1. PICK after \in Edits :
        /\ pinyin' = after.pinyin
        /\ histories' = [histories EXCEPT ![history_index] = after.history]
        /\ phase' = IF after.pinyin.text = <<>> THEN "key" ELSE "ask"
  BY DEF edit
<1>2. after.pinyin \in Editors /\ after.history \in Editors
  <2>1. history \in Editors /\ pinyin \in Editors
    BY ModelHistoryIds DEF EditorsInv
  <2>2. insert(pinyin, Utf8(Letter)) \in Editors
    BY <2>1, DemoConfig, Utf8Whole, InsertKeepsEditor
  <2> DEFINE keys(e) == {backspace(e), erase(e), move_left(e), move_right(e)}
             typed == IF Len(pinyin.text) < MaxLetters THEN {insert(pinyin, Utf8(Letter))} ELSE {}
             edited == typed \cup IF pinyin.text = <<>> THEN {} ELSE keys(pinyin)
             moved == IF pinyin.text = <<>> THEN keys(history) ELSE {}
  <2>3. edited \subseteq Editors /\ moved \subseteq Editors
    BY <2>1, <2>2, KeysKeepEditor
  <2>4. after \in {[pinyin |-> e, history |-> history] : e \in edited}
                  \cup {[pinyin |-> pinyin, history |-> e] : e \in moved}
    BY DEF Edits
  <2> HIDE DEF edited, moved
  <2> QED BY <2>1, <2>3, <2>4
<1>3. EditorsInv'
  BY <1>1, <1>2 DEF EditorsInv, edit, NoCandidates
<1>4. SessionInv' /\ CacheInv'
  <2>1. /\ UNCHANGED <<self_kv, context_ids, current_seqlen, history_seqlen, fill_kv, pc, gen>>
        /\ ret' = [slot |-> NoSlot, err |-> "Ok"] /\ pc = "idle"
    BY DEF edit, NoCall, session_state, slot_vars, AtPrompt, RequestInv
  <2>2. SessionInv'
    BY <2>1 DEF SessionInv, SlotsInv, WindowAlwaysFits
  <2>3. CacheTypes'
    BY <2>1 DEF CacheInv, CacheTypes, Errors
  <2> QED BY <2>1, <2>2, <2>3 DEF CacheInv, Generating, SlotHolds, BeamReadsItsOwnPast,
     ActiveBeamsAreDistinct
<1>5. ProtectionInv'
  BY SameProtection DEF edit
<1>6. RequestInv'
  BY <1>1 DEF RequestInv, edit, NoCandidates, AtPrompt, session_state
<1> QED BY <1>3, <1>4, <1>5, <1>6

\* The demo starts with the invariant.
LEMMA InitDemo == DemoInit => DemoInv
<1> SUFFICES ASSUME DemoInit PROVE DemoInv
  OBVIOUS
<1>1. SessionInv /\ CacheInv
  BY InitHistory, InitCaches DEF DemoInit
<1>2. ProtectionInv
  BY Capacity, FS_EmptySet DEF DemoInit, ProtectionInv
<1>3. EmptyEditor \in Editors
  <2>1. <<>> \in Whole /\ Len(<<>>) = 0
    BY DEF Whole, IsWhole
  <2> QED BY <2>1 DEF EmptyEditor, Editors, Boundary
<1>4. 0 \in Slots
  BY ManagerConfig DEF NumContexts
<1>5. EditorsInv
  BY <1>3, <1>4 DEF EditorsInv, DemoInit, NoCandidates
<1>6. RequestInv
  BY DEF RequestInv, DemoInit, Init, NoCandidates
<1> QED BY <1>1, <1>2, <1>5, <1>6 DEF DemoInv

\* Everything is destroyed: the state is one the demo could start in.
LEMMA LeaveKeepsDemo ==
  ASSUME DemoInv, leave
  PROVE  DemoInv'
<1> USE DEF DemoInv
<1>1. Init'
  <2>1. pc = "idle" /\ gen = IdleGen
    BY DEF leave, RequestInv, CacheInv
  <2> QED BY <2>1 DEF Init, InitSlots, leave, NoCall
<1>2. SessionInv' /\ CacheInv'
  BY <1>1, InitHistory, InitCaches, PTL
<1>3. ProtectionInv'
  BY Capacity, FS_EmptySet DEF leave, ProtectionInv
<1>4. EmptyEditor \in Editors
  <2>1. <<>> \in Whole /\ Len(<<>>) = 0
    BY DEF Whole, IsWhole
  <2> QED BY <2>1 DEF EmptyEditor, Editors, Boundary
<1>5. 0 \in Slots
  BY ManagerConfig DEF NumContexts
<1>6. EditorsInv'
  BY <1>4, <1>5 DEF EditorsInv, leave, NoCandidates
<1>7. RequestInv'
  BY DEF RequestInv, leave, NoCandidates
<1> QED BY <1>2, <1>3, <1>6, <1>7

\* A signal, and a request the demo does not make.
LEMMA SignalKeepsDemo ==
  ASSUME DemoInv, handle_sigint \/ request_refused
  PROVE  DemoInv'
<1> USE DEF DemoInv
<1>1. /\ UNCHANGED <<vars, protected_slots, reply, editing, candidates>>
      /\ phase' = phase \/ (phase = "ask" /\ phase' = "key")
  BY DEF handle_sigint, request_refused
<1>2. SessionInv' /\ CacheInv' /\ ProtectionInv'
  BY <1>1, SameSession, SameProtection
<1>3. EditorsInv' /\ model_history' = model_history
  BY <1>1 DEF EditorsInv, editing, model_history, history
<1>4. RequestInv'
  BY <1>1, <1>3 DEF RequestInv, vars
<1> QED BY <1>2, <1>3, <1>4

-----------------------------------------------------------------------------
(* The request *)

\* Between two calls the slots are what the manager expects of them.
LEMMA SessionLeavesGoodSlots ==
  ASSUME SessionInv, CacheInv, pc = "idle"
  PROVE  GoodSlots
<1>1. SlotsTypeOK
  BY TypesFollow DEF TypeOK
<1>2. ASSUME NEW s \in Slots
      PROVE  GoodSlot(self_kv[s], context_ids[s], current_seqlen[s], history_seqlen[s])
  <2>1. History(context_ids[s], current_seqlen[s], history_seqlen[s])
    BY DEF SessionInv, SlotsInv
  <2>2. Fits(context_ids[s])
    <3>1. Len(context_ids[s]) \in Nat /\ Len(context_ids[s]) <= MaxHistory
      BY <2>1 DEF History
    <3> QED BY <3>1, DemoRoom, SessionConfig, SlotConfig DEF Fits
  <2>3. SlotHolds(s)
    BY DEF CacheInv, Generating
  <2>4. self_kv[s] \in [Lanes -> [Pos -> Cell]] /\ current_seqlen[s] \in 0 .. PreMax
    BY <1>1 DEF SlotsTypeOK
  <2> QED BY <2>1, <2>2, <2>3, <2>4, DemoRoom DEF GoodSlot, History, SlotHolds, LaneHolds
<1> QED BY <1>1, <1>2 DEF GoodSlots

\* And what the manager leaves is what the session expects: the slot it returns is cut
\* to the front of the text, with both cursors behind it.
LEMMA RequestKeepsSession ==
  ASSUME SessionInv, CacheInv, pc = "idle", UNCHANGED <<fill_kv, pc, gen, ret>>,
         GoodSlots', NEW s \in Slots, NEW asked, Answered(s, asked)
  PROVE  SessionInv' /\ CacheInv'
<1>1. SlotsTypeOK' /\ \A r \in Slots :
        GoodSlot(self_kv'[r], context_ids'[r], current_seqlen'[r], history_seqlen'[r])
  BY DEF GoodSlots
<1>2. MaxHistory \in Nat /\ MaxPinyin \in Nat
  BY SessionConfig
<1>3. ASSUME NEW r \in Slots
      PROVE  History(context_ids'[r], current_seqlen'[r], history_seqlen'[r])
  <2>1. History(context_ids[r], current_seqlen[r], history_seqlen[r])
    BY DEF SessionInv, SlotsInv
  <2>2. CASE r # s
    BY <2>1, <2>2 DEF Answered
  <2>3. CASE r = s
    <3>1. GoodSlot(self_kv'[s], context_ids'[s], current_seqlen'[s], history_seqlen'[s])
      BY <1>1
    <3>2. current_seqlen'[s] = history_seqlen'[s]
      BY SlotConfig DEF Answered, ReplyHoldsItsPiece
    <3>3. Len(context_ids'[s]) \in Nat /\ Len(context_ids'[s]) <= MaxHistory
      <4>1. Len(context_ids'[s]) \in Nat /\ Len(context_ids[s]) \in Nat
        BY <2>1, <2>3, <3>1 DEF GoodSlot, History
      <4> QED BY <1>2, <2>1, <2>3, <4>1 DEF Answered, History
    <3>4. history_seqlen'[s] \in Nat
      BY <3>1, <3>3 DEF GoodSlot
    <3> QED BY <1>2, <2>3, <3>1, <3>2, <3>3, <3>4 DEF GoodSlot, History
  <2> QED BY <2>2, <2>3
<1>4. SlotsInv'
  <2>1. /\ context_ids' \in [Slots -> Seq(Vocab)]
        /\ current_seqlen' \in [Slots -> Nat] /\ history_seqlen' \in [Slots -> Nat]
    BY <1>1, CacheShape DEF SlotsTypeOK
  <2> QED BY <1>3, <2>1 DEF SlotsInv, SessionInv, WindowAlwaysFits
<1>5. SessionInv'
  BY <1>4 DEF SessionInv
<1>6. CacheTypes'
  BY <1>1 DEF CacheInv, CacheTypes, SlotsTypeOK, Lane
<1>7. ASSUME NEW r \in Slots PROVE SlotHolds(r)'
  BY <1>1 DEF SlotHolds, LaneHolds, GoodSlot
<1> QED BY <1>5, <1>6, <1>7 DEF CacheInv, BeamReadsItsOwnPast, ActiveBeamsAreDistinct

\* Asking the manager for a slot.
LEMMA RequestKeepsDemo ==
  ASSUME DemoInv, request_slot
  PROVE  DemoInv'
<1> USE DEF DemoInv
<1>1. /\ phase = "ask" /\ phase' = "call" /\ pc = "idle"
      /\ UNCHANGED <<fill_kv, pc, gen, ret>> /\ get_context_auto(model_history)
      /\ UNCHANGED <<editing, candidates>> /\ candidates.texts = <<>>
  BY DEF request_slot, RequestInv
<1>2. model_history \in Seq(Vocab)
  BY ModelHistoryIds
<1>3. PICK s \in Slots : GoodSlots' /\ ProtectionInv' /\ Answered(s, model_history)
  BY <1>1, <1>2, SessionLeavesGoodSlots, RequestIsAnswered
<1>4. SessionInv' /\ CacheInv'
  BY <1>1, <1>3, RequestKeepsSession
<1>5. EditorsInv' /\ model_history' = model_history
  BY <1>1 DEF EditorsInv, editing, model_history, history
<1>6. ASSUME model_history = <<>> PROVE context_ids'[s] = <<>>
  <2>1. reply'.slot = s /\ reply'.asked = <<>> /\ reply'.slot # NoSlot
    BY <1>3, <1>6, SlotConfig DEF Answered
  <2>2. IsPrefix(context_ids'[s], Trimmed(<<>>))
    BY <1>3, <2>1 DEF Answered, ReplyHoldsItsPiece
  <2>3. Trimmed(<<>>) = <<>>
    BY SlotConfig DEF Trimmed
  <2>4. context_ids'[s] \in Seq(Vocab)
    BY <1>3 DEF GoodSlots, SlotsTypeOK
  <2>5. Len(context_ids'[s]) <= 0
    BY <2>2, <2>3 DEF IsPrefix
  <2> QED BY <2>4, <2>5
<1>7. RequestInv'
  BY <1>1, <1>3, <1>5, <1>6 DEF RequestInv, Answered
<1> QED BY <1>3, <1>4, <1>5, <1>7

-----------------------------------------------------------------------------
(* The call *)

\* What every call of generate starts from.
LEMMA CallIsForTheText ==
  ASSUME DemoInv, phase = "call"
  PROVE  /\ reply.slot \in Slots /\ reply.asked = model_history
         /\ reply.asked \in Seq(Vocab \cup {BadId}) /\ without_bos(reply.asked) = reply.asked
BY ModelHistoryIds DEF DemoInv, RequestInv

\* No text, and a text without characters.
LEMMA NoTexts == <<>> \in Seq(Seq(Candidates)) /\ <<<<>>>> \in Seq(Seq(Candidates))
<1> DEFINE T == Seq(Candidates)
<1>1. <<>> \in T
  OBVIOUS
<1> HIDE DEF T
<1>2. <<>> \in Seq(T) /\ <<<<>>>> \in Seq(T)
  BY <1>1
<1> QED BY <1>2 DEF T

\* A call that returned: the texts it left on the screen follow the text it was for.
LEMMA ReturnKeepsDemo ==
  ASSUME DemoInv, phase = "call", SessionInv', CacheInv', pc' = "idle",
         NEW beams \in Seq(Seq(Candidates)), Returned(beams)
  PROVE  DemoInv'
<1> USE DEF DemoInv
<1>1. UNCHANGED <<protected_slots, editing>>
  BY DEF Returned
<1>2. ProtectionInv'
  BY <1>1, SameProtection
<1>3. model_history' = model_history
  BY <1>1 DEF editing, model_history, history
<1>4. candidates' = [texts |-> <<>>, after |-> <<>>]
      \/ candidates' = [texts |-> beams, after |-> model_history]
  BY CallIsForTheText DEF Returned, NoCandidates
<1>5. EditorsInv'
  <2>1. candidates'.texts \in {<<>>, beams}
    BY <1>4
  <2>2. candidates'.texts \in Seq(Seq(Candidates))
    BY <2>1, NoTexts, Zenon
  <2> QED BY <1>1, <2>2 DEF EditorsInv, editing
<1>6. RequestInv'
  BY <1>3, <1>4 DEF RequestInv, Returned
<1> QED BY <1>2, <1>5, <1>6

\* A generation that returns before it decodes.
LEMMA ReturnsAtOnceKeepsDemo ==
  ASSUME DemoInv, call_returns_at_once
  PROVE  DemoInv'
<1>1. /\ phase = "call" /\ pc = "idle"
      /\ \/ generate_returns_early(reply.slot, reply.asked)
         \/ generate_cancelled(reply.slot, reply.asked)
         \/ generate_rejected(reply.slot, reply.asked)
  BY DEF call_returns_at_once
<1>2. reply.slot \in Slots /\ reply.asked \in Seq(Vocab \cup {BadId})
  BY <1>1, CallIsForTheText
<1>3. SessionInv' /\ CacheInv'
  BY <1>1, <1>2, CallKeepsHistories, CallKeepsCaches DEF DemoInv
<1>4. pc' = "idle"
  BY <1>1 DEF generate_returns_early, generate_cancelled, generate_rejected
<1>5. PICK beams \in {<<<<>>>>, <<>>} : Returned(beams)
  BY DEF call_returns_at_once
<1>6. beams \in Seq(Seq(Candidates))
  BY NoTexts, Zenon
<1> QED BY <1>1, <1>3, <1>4, <1>5, <1>6, ReturnKeepsDemo

\* What the decoder starts from is the newest part of the text that fits.
LEMMA StartIsForTheText ==
  ASSUME DemoInv, phase = "call", generate_starts(reply.slot, reply.asked)
  PROVE  gen'.ids = Below(Window(reply.asked))
<1> DEFINE s == reply.slot
           asked == reply.asked
<1>1. s \in Slots /\ asked \in Seq(Vocab \cup {BadId}) /\ without_bos(asked) = asked
  BY CallIsForTheText
<1>2. GoodView(sync_from_context(s))
  BY <1>1, SlotView DEF DemoInv, SessionInv
<1>3. PICK fails \in Faults :
        /\ Prepared(s, asked, fails).err = "Ok"
        /\ gen'.ids = Rewound(Prepared(s, asked, fails).st).ids
  BY DEF generate_starts, IdleGen
<1> DEFINE out == Prepared(s, asked, fails)
<1>4. gen'.ids = out.st.ids
  <2>1. GoodView(out.st)
    BY <1>1, <1>2, PreparedOutcome DEF GoodOutcome
  <2> HIDE DEF s, asked
  <2> QED BY <1>3, <2>1, CursorReset
<1>5. out.st.ids = Below(Base(s, asked))
  <2> HIDE DEF s, asked
  <2> QED BY <1>1, <1>2, <1>3, PreparedText
<1>6. Base(s, asked) = Window(asked)
  <2>1. CASE asked = <<>>
    <3>1. context_ids[s] = <<>>
      BY <2>1 DEF DemoInv, RequestInv, generate_starts
    <3>2. Window(<<>>) = <<>>
      BY SessionConfig DEF Window
    <3> QED BY <2>1, <3>1, <3>2 DEF Base
  <2>2. CASE asked # <<>>
    BY <1>1, <2>2 DEF Base
  <2> QED BY <2>1, <2>2
<1> QED BY <1>4, <1>5, <1>6

\* A call that goes on keeps what it was for.
LEMMA RunningKeepsDemo ==
  ASSUME DemoInv, phase = "call", SessionInv', CacheInv', pc' # "idle",
         gen'.ids = Below(Window(reply.asked)), Running
  PROVE  DemoInv'
<1> USE DEF DemoInv
<1>1. UNCHANGED <<protected_slots, reply, editing, candidates, phase>>
  BY DEF Running
<1>2. ProtectionInv'
  BY <1>1, SameProtection
<1>3. EditorsInv' /\ model_history' = model_history
  BY <1>1 DEF EditorsInv, editing, model_history, history
<1>4. RequestInv'
  BY <1>1, <1>3 DEF RequestInv
<1> QED BY <1>2, <1>3, <1>4

\* A generation that starts.
LEMMA CallStartsKeepsDemo ==
  ASSUME DemoInv, call_starts
  PROVE  DemoInv'
<1>1. phase = "call" /\ generate_starts(reply.slot, reply.asked) /\ Running
  BY DEF call_starts
<1>2. reply.slot \in Slots /\ reply.asked \in Seq(Vocab \cup {BadId})
  BY <1>1, CallIsForTheText
<1>3. SessionInv' /\ CacheInv'
  BY <1>1, <1>2, StartKeepsHistories, StartKeepsCaches DEF DemoInv
<1>4. pc' # "idle"
  BY <1>1 DEF generate_starts
<1>5. gen'.ids = Below(Window(reply.asked))
  BY <1>1, StartIsForTheText
<1> QED BY <1>1, <1>3, <1>4, <1>5, RunningKeepsDemo

\* A generation that decodes.
LEMMA CallDecodesKeepsDemo ==
  ASSUME DemoInv, call_decodes
  PROVE  DemoInv'
<1>1. (first_decode \/ step_decodes) /\ Running
  BY DEF call_decodes
<1>2. pc # "idle" /\ pc' # "idle" /\ Decoding
  <2>1. CASE first_decode
    <3>1. pc = "first" /\ pc' = "step"
      BY <2>1 DEF first_decode
    <3> QED BY <2>1, <3>1 DEF Decoding
  <2>2. CASE step_decodes
    <3>1. pc = "step" /\ pc' = "step"
      BY <2>2 DEF step_decodes
    <3> QED BY <2>2, <3>1 DEF Decoding
  <2> QED BY <1>1, <2>1, <2>2
<1>3. phase = "call" /\ gen.ids = Below(Window(reply.asked))
  BY <1>2 DEF DemoInv, RequestInv
<1>4. SessionInv' /\ CacheInv'
  BY <1>1, <1>2, DecodingKeepsHistories, FirstKeepsCaches, StepKeepsCaches DEF DemoInv
<1>5. gen'.ids = gen.ids
  <2>1. gen = [f \in GenFields |-> gen[f]]
    BY <1>2 DEF DemoInv, SessionInv, GenInv
  <2>2. "ids" \in DOMAIN gen
    BY <2>1 DEF GenFields
  <2>3. CASE first_decode
    <3>1. PICK tok \in FirstQueries, beams \in FirstBeams :
            LET st == FirstPass2(InCall, tok, "Ok")
            IN  /\ self_kv' = [self_kv EXCEPT ![gen.slot] = st.self]
                /\ fill_kv' = st.fill
                /\ gen' = [gen EXCEPT !.beams = beams, !.step = 1,
                                      !.cur = IF gen.hist > 0 THEN gen.hist ELSE 1]
      BY <2>3, Zenon DEF first_decode
    <3> QED BY <2>2, <3>1
  <2>4. CASE step_decodes
    <3> DEFINE st == StepPass2("Ok")
    <3>1. PICK e \in Selections :
            /\ self_kv' = [self_kv EXCEPT ![gen.slot] =
                 reorder_batch_slice(st.self, [l \in Lanes |-> e[l][1]],
                                     gen.hist, StepPosition - gen.hist + 1)]
            /\ gen' = [gen EXCEPT !.cur = StepPosition + 1, !.step = gen.step + 1,
                 !.beams = [l \in Lanes |->
                    [pred   |-> Append(gen.beams[e[l][1]].pred, e[l][2]),
                     active |-> gen.beams[e[l][1]].active]]]
      BY <2>4, Zenon DEF step_decodes
    <3> QED BY <2>2, <3>1
  <2> QED BY <1>1, <2>3, <2>4
<1> QED BY <1>1, <1>2, <1>3, <1>4, <1>5, RunningKeepsDemo

\* The texts of the beams returned are texts of candidates.
LEMMA DecodedTexts ==
  ASSUME CacheInv, pc # "idle"
  PROVE  Decoded \in Seq(Seq(Candidates)) /\ [i \in DOMAIN Decoded |-> <<>>] \in Seq(Seq(Candidates))
<1> DEFINE active == {l \in Lanes : gen.beams[l].active}
           n == Cardinality(active)
<1>1. n \in Nat /\ n <= Beam
  <2>1. Beam \in Nat /\ Beam - 1 \in Int
    BY CacheShape
  <2>2. IsFiniteSet(Lanes) /\ Cardinality(Lanes) = Beam
    BY <2>1, CacheShape, FS_Interval DEF Lanes
  <2>3. IsFiniteSet(active) /\ Cardinality(active) <= Cardinality(Lanes)
    BY <2>2, FS_Subset
  <2> QED BY <2>2, <2>3, FS_CardinalityType
<1>2. gen.beams \in [Lanes -> [pred : Seq(Candidates), active : BOOLEAN]]
  BY DEF CacheInv, GenHolds, BeamsOf
<1> HIDE DEF n
<1>3. \A i \in 1 .. n : i - 1 \in Lanes
  BY <1>1, CacheShape DEF Lanes
<1>4. \A i \in 1 .. n : gen.beams[i - 1].pred \in Seq(Candidates)
  BY <1>2, <1>3
<1>5. Decoded = [i \in 1 .. n |-> gen.beams[i - 1].pred]
  BY DEF Decoded, n
<1>6. Decoded \in Seq(Seq(Candidates)) /\ DOMAIN Decoded = 1 .. n
  BY <1>1, <1>4, <1>5
<1>7. <<>> \in Seq(Candidates)
  OBVIOUS
<1>8. [i \in 1 .. n |-> <<>>] \in Seq(Seq(Candidates))
  BY <1>1, <1>7
<1> QED BY <1>6, <1>8

\* A generation that ends.
LEMMA CallEndsKeepsDemo ==
  ASSUME DemoInv, call_stops \/ call_returns
  PROVE  DemoInv'
<1>1. /\ \/ first_decode_stops \/ step_stops_before_decoding
         \/ step_stops_after_decoding \/ generate_returns
      /\ pc # "idle"
  BY DEF call_stops, call_returns, first_decode_stops, step_stops_before_decoding,
     step_stops_after_decoding, generate_returns
<1>2. phase = "call"
  BY <1>1 DEF DemoInv, RequestInv
<1>3. SessionInv'
  BY <1>1, DecodingKeepsHistories DEF DemoInv, Decoding
<1>4. CacheInv'
  BY <1>1, StopKeepsCaches DEF DemoInv
<1>5. pc' = "idle"
  BY <1>1 DEF first_decode_stops, step_stops_before_decoding, step_stops_after_decoding,
     generate_returns, Finish
<1>6. PICK beams \in {Decoded, [i \in DOMAIN Decoded |-> <<>>], <<>>} : Returned(beams)
  BY DEF call_stops, call_returns
<1>7. beams \in Seq(Seq(Candidates))
  <2>1. /\ Decoded \in Seq(Seq(Candidates))
        /\ [i \in DOMAIN Decoded |-> <<>>] \in Seq(Seq(Candidates))
    BY <1>1, DecodedTexts DEF DemoInv
  <2> QED BY <2>1, NoTexts, Zenon
<1> QED BY <1>2, <1>3, <1>4, <1>5, <1>6, <1>7, ReturnKeepsDemo

-----------------------------------------------------------------------------
(* Theorems *)

\* Every step keeps the invariant.
LEMMA NextKeepsDemo == DemoInv /\ [DemoNext]_demo_vars => DemoInv'
<1> SUFFICES ASSUME DemoInv, [DemoNext]_demo_vars PROVE DemoInv'
  OBVIOUS
<1>1. CASE switch_history
  BY <1>1, SwitchKeepsDemo
<1>2. CASE choose_candidate
  BY <1>2, ChoiceKeepsDemo
<1>3. CASE edit
  BY <1>3, EditKeepsDemo
<1>4. CASE leave
  BY <1>4, LeaveKeepsDemo
<1>5. CASE handle_sigint
  BY <1>5, SignalKeepsDemo
<1>6. CASE ask_goes_on
  BY <1>6, SignalKeepsDemo, RequestKeepsDemo DEF ask_goes_on
<1>7. CASE call_begins
  BY <1>7, ReturnsAtOnceKeepsDemo, CallStartsKeepsDemo DEF call_begins
<1>8. CASE call_goes_on
  BY <1>8, CallDecodesKeepsDemo, CallEndsKeepsDemo DEF call_goes_on
<1>9. CASE UNCHANGED demo_vars
  <2>1. SessionInv' /\ CacheInv' /\ ProtectionInv'
    BY <1>9, SameSession, SameProtection DEF DemoInv, demo_vars
  <2>2. EditorsInv' /\ model_history' = model_history
    BY <1>9 DEF DemoInv, EditorsInv, demo_vars, editing, model_history, history
  <2>3. RequestInv'
    BY <1>9, <2>2 DEF DemoInv, RequestInv, demo_vars, vars
  <2> QED BY <2>1, <2>2, <2>3 DEF DemoInv
<1> QED BY <1>1, <1>2, <1>3, <1>4, <1>5, <1>6, <1>7, <1>8, <1>9 DEF DemoNext

\* The invariant holds in every state.
LEMMA DemoAlwaysInv == DemoSpec => []DemoInv
BY InitDemo, NextKeepsDemo, PTL DEF DemoSpec

\* Whatever keys are pressed, in whatever order and on whichever history: no cursor
\* ever stands inside a character, and no editor holds a part of one.
THEOREM EditorsAlwaysHoldWholeCharacters == DemoSpec => []EditorsHoldWholeCharacters
<1>1. DemoInv => EditorsHoldWholeCharacters
  BY EditorOnBoundary DEF DemoInv, EditorsInv, EditorsHoldWholeCharacters
<1> QED BY <1>1, DemoAlwaysInv, PTL

\* A generation always starts from the newest part of the text before the cursor that
\* fits below the maximum, whichever slot the manager picked and whatever it held.
THEOREM AlwaysGeneratesFromTextBeforeCursor == DemoSpec => []GeneratesFromTextBeforeCursor
<1>1. DemoInv => GeneratesFromTextBeforeCursor
  <2> SUFFICES ASSUME DemoInv, pc # "idle"
               PROVE  gen.ids = Ledgered!BelowMax(Ledgered!Windowed(model_history))
    BY DEF GeneratesFromTextBeforeCursor, model_history
  <2>1. gen.ids = Below(Window(model_history))
    BY DEF DemoInv, RequestInv
  <2>2. \A ids : /\ Ledgered!Windowed(ids) = Window(ids)
                 /\ Ledgered!BelowMax(ids) = Below(ids)
    BY DEF Ledgered!Windowed, Ledgered!BelowMax, Ledgered!Newest, Window, Below, LastIds
  <2> QED BY <2>1, <2>2
<1> QED BY <1>1, DemoAlwaysInv, PTL

\* The candidates on the screen always continue the text before the cursor.
THEOREM CandidatesAlwaysContinueText == DemoSpec => []CandidatesContinueText
<1>1. DemoInv => CandidatesContinueText
  BY DEF DemoInv, RequestInv, CandidatesContinueText, model_history
<1> QED BY <1>1, DemoAlwaysInv, PTL

\* With the manager cutting, sliding and giving up slots between the calls of the
\* session: the committed history of every slot is causal state of its own text.
THEOREM DemoHistoryIsAlwaysCausal == DemoSpec => []CommittedHistoryIsCausal
<1>1. DemoInv => CommittedHistoryIsCausal
  BY CausalFollows, DemoRoom DEF DemoInv
<1> QED BY <1>1, DemoAlwaysInv, PTL

\* And the demo never runs out of positions or of room in a slot.
THEOREM DemoWindowAlwaysSuffices == DemoSpec => []WindowAlwaysFits
<1>1. DemoInv => WindowAlwaysFits
  BY DemoRoom DEF DemoInv, SessionInv, SlotsInv
<1> QED BY <1>1, DemoAlwaysInv, PTL
=============================================================================

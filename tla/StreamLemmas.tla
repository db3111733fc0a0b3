----------------------------- MODULE StreamLemmas -----------------------------
(***************************************************************************)
(* Lemmas about sequences: what moving bytes from one place of a connection *)
(* to the next does to the whole stream.                                   *)
(***************************************************************************)
EXTENDS Naturals, ByteStreams, SequenceTheorems, TLAPS

\* Splitting a sequence and gluing the parts gives the sequence.
LEMMA SplitSeq ==
  ASSUME NEW S, NEW s \in Seq(S), NEW n \in 0..Len(s)
  PROVE  /\ SubSeq(s, 1, n) \in Seq(S)
         /\ SubSeq(s, n + 1, Len(s)) \in Seq(S)
         /\ SubSeq(s, 1, n) \o SubSeq(s, n + 1, Len(s)) = s
<1>1. SubSeq(s, 1, n) \in Seq(S)
  BY SubSeqProperties, LenProperties
<1>2. SubSeq(s, n + 1, Len(s)) \in Seq(S)
  BY SubSeqProperties, LenProperties
<1>3. SubSeq(s, 1, n) \o SubSeq(s, n + 1, Len(s)) = SubSeq(s, 1, Len(s))
  <2>1. Len(s) \in Nat
    BY LenProperties
  <2>2. 1 \in 1..Len(s) + 1 /\ n \in 1 - 1..Len(s) /\ Len(s) \in n..Len(s)
    BY <2>1
  <2>3. QED
    BY <2>2, ConcatAdjacentSubSeq
<1>4. QED
  BY <1>1, <1>2, <1>3, SubSeqFull

\* Appending to a concatenation appends to its second part.
LEMMA AppendToConcat ==
  ASSUME NEW S
  PROVE  \A e \in S : \A x, y \in Seq(S) : Append(x \o y, e) = x \o Append(y, e)
<1> TAKE e \in S
<1> TAKE x, y \in Seq(S)
<1> DEFINE one == <<e>>
<1>1. one \in Seq(S)
  OBVIOUS
<1>2. Append(y, e) = y \o one
  BY AppendIsConcat
<1>3. Append(x \o y, e) = (x \o y) \o one
  BY ConcatProperties, AppendIsConcat
<1> HIDE DEF one
<1>4. (x \o y) \o one = x \o (y \o one)
  BY <1>1, ConcatAssociative
<1>5. QED
  BY <1>2, <1>3, <1>4

\* A byte appended at the end of the last part is appended to the whole.
Appended(r, t, b, q, e) == Append(Stream(r, t, b, q), e) = Stream(r, t, b, Append(q, e))

LEMMA AppendToLast ==
  ASSUME NEW S, NEW r \in Seq(S), NEW t \in Seq(S), NEW b \in Seq(S),
         NEW q \in Seq(S), NEW e \in S
  PROVE  Appended(r, t, b, q, e)
<1> DEFINE push(x, y) == Append(x \o y, e) = x \o Append(y, e)
<1>0. \A x, y \in Seq(S) : push(x, y)
  BY AppendToConcat, Zenon
<1>1. b \o q \in Seq(S) /\ t \o (b \o q) \in Seq(S)
  BY ConcatProperties
<1> HIDE DEF push
<1>2. push(b, q) /\ push(t, b \o q) /\ push(r, t \o (b \o q))
  BY <1>0, <1>1
<1>3. Append(b \o q, e) = b \o Append(q, e)
  BY <1>2 DEF push
<1>4. Append(r \o (t \o (b \o q)), e) = r \o (t \o Append(b \o q, e))
  BY <1>2 DEF push
<1>5. QED
  BY <1>3, <1>4 DEF Stream, Appended

\* Four parts, grouped two by two or from the right.  (An operator, so that
\* the provers can match the lemma by its name.)
Regrouped(t, f, k, q) == (t \o f) \o (k \o q) = t \o ((f \o k) \o q)

LEMMA Regroup ==
  ASSUME NEW S
  PROVE  \A t, f, k, q \in Seq(S) : Regrouped(t, f, k, q)
<1> TAKE t, f, k, q \in Seq(S)
<1>1. \A x \in Seq(S) : (t \o f) \o x = t \o (f \o x)
  BY ConcatAssociative
<1>2. k \o q \in Seq(S)
  BY ConcatProperties
<1>3. (t \o f) \o (k \o q) = t \o (f \o (k \o q))
  BY <1>1, <1>2
<1>4. (f \o k) \o q = f \o (k \o q)
  BY ConcatAssociative
<1>5. QED
  BY <1>3, <1>4 DEF Regrouped

\* The first byte of a part moved to the end of the part before it.
HeadMoved(r, t, q) == Append(r, Head(t)) \o (Tail(t) \o q) = r \o (t \o q)

LEMMA MoveHead ==
  ASSUME NEW S, NEW r \in Seq(S), NEW t \in Seq(S), NEW q \in Seq(S), t # <<>>
  PROVE  HeadMoved(r, t, q)
<1> DEFINE one == <<Head(t)>>
<1>1. Head(t) \in S /\ Tail(t) \in Seq(S) /\ one \in Seq(S)
  BY HeadTailProperties
<1>2. Append(r, Head(t)) = r \o one /\ r \o one \in Seq(S)
  BY <1>1, AppendIsConcat, ConcatProperties
<1>3. one \o Tail(t) = t
  <2>1. /\ one \o Tail(t) \in Seq(S)
        /\ Len(one \o Tail(t)) = 1 + Len(Tail(t))
        /\ \A i \in 1 .. 1 + Len(Tail(t)) :
              (one \o Tail(t))[i] = IF i <= 1 THEN one[i] ELSE Tail(t)[i - 1]
    <3>1. Len(one) = 1
      OBVIOUS
    <3>2. QED
      BY <1>1, <3>1, ConcatProperties
  <2>2. Len(Tail(t)) = Len(t) - 1 /\ Len(t) \in Nat
        /\ \A i \in 1 .. Len(Tail(t)) : Tail(t)[i] = t[i + 1]
    BY HeadTailProperties, LenProperties
  <2>3. \A i \in 1..Len(t) : (one \o Tail(t))[i] = t[i]
    BY <2>1, <2>2
  <2>4. QED
    BY <2>1, <2>2, <2>3, SeqEqual
<1>4. (r \o one) \o (Tail(t) \o q) = r \o (one \o (Tail(t) \o q))
  BY <1>1, <1>2, ConcatProperties, ConcatAssociative
<1>5. one \o (Tail(t) \o q) = (one \o Tail(t)) \o q
  BY <1>1, ConcatAssociative
<1>6. QED
  BY <1>1, <1>2, <1>3, <1>4, <1>5 DEF HeadMoved

\* The first bytes of a part moved to the end of the part before it.
LEMMA MovePrefix ==
  ASSUME NEW S, NEW r \in Seq(S), NEW t \in Seq(S), NEW b \in Seq(S),
         NEW q \in Seq(S), NEW n \in 0..Len(b)
  PROVE  /\ t \o SubSeq(b, 1, n) \in Seq(S)
         /\ SubSeq(b, n + 1, Len(b)) \in Seq(S)
         /\ Stream(r, t \o SubSeq(b, 1, n), SubSeq(b, n + 1, Len(b)), q)
              = Stream(r, t, b, q)
<1> DEFINE front == SubSeq(b, 1, n)
           back == SubSeq(b, n + 1, Len(b))
<1>0. front \o back = b
  BY SplitSeq
<1>1. front \in Seq(S) /\ back \in Seq(S)
  BY SplitSeq
<1> HIDE DEF front, back
<1>2. Regrouped(t, front, back, q)
  BY <1>1, Regroup
<1>3. (t \o front) \o (back \o q) = t \o ((front \o back) \o q)
  BY <1>2 DEF Regrouped
<1>4. r \o ((t \o front) \o (back \o q)) = r \o (t \o (b \o q))
  BY <1>0, <1>3
<1>5. t \o front \in Seq(S)
  BY <1>1, ConcatProperties
<1>6. QED
  BY <1>1, <1>4, <1>5 DEF front, back, Stream

\* The first bytes of the last part moved into an empty one before it.
LEMMA FillEmpty ==
  ASSUME NEW S, NEW r \in Seq(S), NEW t \in Seq(S), NEW q \in Seq(S),
         NEW n \in 0..Len(q)
  PROVE  /\ SubSeq(q, 1, n) \in Seq(S)
         /\ SubSeq(q, n + 1, Len(q)) \in Seq(S)
         /\ Stream(r, t, SubSeq(q, 1, n), SubSeq(q, n + 1, Len(q)))
              = Stream(r, t, <<>>, q)
<1>1. SubSeq(q, 1, n) \o SubSeq(q, n + 1, Len(q)) = q
  BY SplitSeq
<1>2. <<>> \o q = q
  BY ConcatEmptySeq
<1>3. QED
  BY <1>1, <1>2, SplitSeq DEF Stream

LEMMA ReadHead ==
  ASSUME NEW S, NEW r \in Seq(S), NEW t \in Seq(S), NEW b \in Seq(S),
         NEW q \in Seq(S), t # <<>>
  PROVE  Stream(Append(r, Head(t)), Tail(t), b, q) = Stream(r, t, b, q)
<1> DEFINE rest == b \o q
<1>1. rest \in Seq(S)
  BY ConcatProperties
<1> HIDE DEF rest
<1>2. HeadMoved(r, t, rest)
  BY <1>1, MoveHead
<1>3. QED
  BY <1>2 DEF rest, Stream, HeadMoved

\* The byte after a prefix is the first of what follows it.
LEMMA NextOfPrefix ==
  ASSUME NEW S, NEW r \in Seq(S), NEW t \in Seq(S), t # <<>>
  PROVE  /\ Len(r) + 1 \in 1..Len(r \o t)
         /\ (r \o t)[Len(r) + 1] = Head(t)
<1>1. Len(t) \in Nat \ {0} /\ Len(r) \in Nat
  BY EmptySeq, LenProperties
<1>2. Head(t) = t[1]
  OBVIOUS
<1>3. QED
  BY <1>1, <1>2, ConcatProperties

\* Three parts, grouped from the left or from the right.
Glued(x, y, z) == (x \o y) \o z = x \o (y \o z)

LEMMA Glue ==
  ASSUME NEW S
  PROVE  \A x, y, z \in Seq(S) : Glued(x, y, z)
  BY ConcatAssociative DEF Glued

\* More bytes at the end of the last part, or of the last that is not empty.
LostMore(r, t, b, q, x) == Stream(r, t, b, q) \o x = Stream(r, t, b, q \o x)
ArrivedMore(r, t, b, x) == Stream(r, t, b, <<>>) \o x = Stream(r, t, b \o x, <<>>)

LEMMA ExtendStream ==
  ASSUME NEW S, NEW r \in Seq(S), NEW t \in Seq(S), NEW b \in Seq(S),
         NEW q \in Seq(S), NEW x \in Seq(S)
  PROVE  /\ b \o x \in Seq(S) /\ q \o x \in Seq(S)
         /\ LostMore(r, t, b, q, x)
         /\ ArrivedMore(r, t, b, x)
<1>1. b \o q \in Seq(S) /\ t \o (b \o q) \in Seq(S) /\ t \o b \in Seq(S)
      /\ b \o x \in Seq(S) /\ q \o x \in Seq(S)
  BY ConcatProperties
<1>2. b \o <<>> = b /\ (b \o x) \o <<>> = b \o x
  BY <1>1, ConcatEmptySeq
<1>3. /\ Glued(b, q, x) /\ Glued(t, b \o q, x) /\ Glued(r, t \o (b \o q), x)
      /\ Glued(t, b, x) /\ Glued(r, t \o b, x)
  BY <1>1, Glue
<1>4. (r \o (t \o (b \o q))) \o x = r \o (t \o (b \o (q \o x)))
  BY <1>3 DEF Glued
<1>5. (r \o (t \o b)) \o x = r \o (t \o (b \o x))
  BY <1>3 DEF Glued
<1>6. QED
  BY <1>1, <1>2, <1>4, <1>5 DEF Stream, LostMore, ArrivedMore

\* The second part moved to the end of the first.
LEMMA JoinStream ==
  ASSUME NEW S, NEW r \in Seq(S), NEW t \in Seq(S), NEW b \in Seq(S), NEW q \in Seq(S)
  PROVE  Stream(r \o t, <<>>, b, q) = Stream(r, t, b, q)
<1> DEFINE glued(x) == (r \o t) \o x = r \o (t \o x)
<1>1. \A x \in Seq(S) : glued(x)
  BY ConcatAssociative
<1>2. b \o q \in Seq(S)
  BY ConcatProperties
<1>3. <<>> \o (b \o q) = b \o q
  BY <1>2, ConcatEmptySeq
<1> HIDE DEF glued
<1>4. glued(b \o q)
  BY <1>1, <1>2
<1>5. QED
  BY <1>3, <1>4 DEF Stream, glued

\* Three parts, made one.
LEMMA CollapseStream ==
  ASSUME NEW S, NEW r \in Seq(S), NEW t \in Seq(S), NEW b \in Seq(S), NEW q \in Seq(S)
  PROVE  /\ t \o (b \o q) \in Seq(S)
         /\ Stream(r, <<>>, <<>>, t \o (b \o q)) = Stream(r, t, b, q)
<1>1. b \o q \in Seq(S) /\ t \o (b \o q) \in Seq(S)
  BY ConcatProperties
<1> DEFINE held == t \o (b \o q)
<1>2. held \in Seq(S)
  BY <1>1
<1> HIDE DEF held
<1>3. <<>> \o held = held /\ <<>> \o (<<>> \o held) = held
  BY <1>2, ConcatEmptySeq
<1>4. QED
  BY <1>1, <1>3 DEF held, Stream

\* The stream of no bytes.
LEMMA EmptyStream == <<>> = Stream(<<>>, <<>>, <<>>, <<>>)
<1>1. <<>> \o <<>> = <<>>
  BY ConcatEmptySeq
<1>2. QED
  BY <1>1 DEF Stream

\* The first bytes of a part moved into an empty one before it.
Moved(r, s, q, n) ==
  Stream(r, <<>> \o SubSeq(s, 1, n), SubSeq(s, n + 1, Len(s)), q) = Stream(r, <<>>, s, q)

LEMMA MoveToEmpty ==
  ASSUME NEW S, NEW r \in Seq(S), NEW s \in Seq(S), NEW q \in Seq(S), NEW n \in 0..Len(s)
  PROVE  Moved(r, s, q, n)
<1> DEFINE front == SubSeq(s, 1, n)
           back == SubSeq(s, n + 1, Len(s))
<1>1. front \in Seq(S) /\ back \in Seq(S) /\ front \o back = s
  BY SplitSeq
<1> HIDE DEF front, back
<1>2. front \o (back \o q) = s \o q
  <2>1. Glued(front, back, q)
    BY <1>1, Glue
  <2>2. QED
    BY <1>1, <2>1 DEF Glued
<1>3. <<>> \o front = front /\ <<>> \o (s \o q) = s \o q
  BY <1>1, ConcatProperties, ConcatEmptySeq
<1>4. QED
  BY <1>2, <1>3 DEF front, back, Stream, Moved

\* A stream whose other parts are empty is its first part.
LEMMA ShownStream ==
  ASSUME NEW S, NEW r \in Seq(S)
  PROVE  Stream(r, <<>>, <<>>, <<>>) = r
<1>1. <<>> \o <<>> = <<>> /\ r \o <<>> = r
  BY ConcatEmptySeq
<1>2. QED
  BY <1>1 DEF Stream

\* The second part of a stream is the next piece of it after the first.
NextPiece(r, t, s, n) == t = SubSeq(s, Len(r) + 1, n)

LEMMA PieceOfStream ==
  ASSUME NEW S, NEW r \in Seq(S), NEW t \in Seq(S), NEW b \in Seq(S), NEW q \in Seq(S), t # <<>>
  PROVE  /\ Len(r) + Len(t) \in Len(r) + 1 .. Len(Stream(r, t, b, q))
         /\ NextPiece(r, t, Stream(r, t, b, q), Len(r) + Len(t))
<1> DEFINE rest == b \o q
           s == r \o (t \o rest)
           piece == SubSeq(s, Len(r) + 1, Len(r) + Len(t))
<1>1. rest \in Seq(S) /\ t \o rest \in Seq(S) /\ s \in Seq(S)
  BY ConcatProperties
<1>2. Len(r) \in Nat /\ Len(t) \in Nat \ {0} /\ Len(rest) \in Nat
  BY <1>1, EmptySeq, LenProperties
<1> HIDE DEF rest
<1>3. Len(t \o rest) = Len(t) + Len(rest) /\ Len(s) = Len(r) + (Len(t) + Len(rest))
  BY <1>1, ConcatProperties
<1>4. \A i \in 1..Len(t) : s[Len(r) + i] = t[i]
  <2> TAKE i \in 1..Len(t)
  <2>1. Len(r) + i \in 1..Len(s) /\ ~(Len(r) + i <= Len(r)) /\ Len(r) + i - Len(r) = i
    BY <1>2, <1>3
  <2>2. s[Len(r) + i] = (t \o rest)[i]
    BY <1>1, <2>1, ConcatProperties
  <2>3. i \in 1..Len(t \o rest) /\ i <= Len(t)
    BY <1>2, <1>3
  <2>4. (t \o rest)[i] = t[i]
    BY <1>1, <2>3, ConcatProperties
  <2>5. QED
    BY <2>2, <2>4
<1> HIDE DEF s
<1>5. \A i \in Len(r) + 1 .. Len(r) + Len(t) : s[i] \in S
  BY <1>1, <1>2, <1>3
<1>6. /\ piece \in Seq(S)
      /\ Len(piece) = Len(t)
      /\ \A i \in 1..Len(t) : piece[i] = s[Len(r) + i]
  <2>1. Len(r) + 1 \in Int /\ Len(r) + Len(t) \in Int /\ Len(r) + 1 <= Len(r) + Len(t)
        /\ Len(r) + Len(t) - (Len(r) + 1) + 1 = Len(t)
        /\ \A i \in 1..Len(t) : Len(r) + 1 + i - 1 = Len(r) + i
    BY <1>2
  <2>2. QED
    BY <1>5, <2>1, SubSeqProperties
<1>7. piece = t
  BY <1>4, <1>6, SeqEqual
<1>8. Len(r) + Len(t) \in Len(r) + 1 .. Len(s)
  BY <1>2, <1>3
<1>9. QED
  BY <1>7, <1>8 DEF s, rest, Stream, NextPiece
===============================================================================

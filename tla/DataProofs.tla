-------------------------------- MODULE DataProofs --------------------------------
(***************************************************************************)
(* Proofs about the parts whose correctness is in their data: the file     *)
(* manager, whose tree stays a tree and whose successes are done; the      *)
(* network manager, whose loops over interfaces and routes show each once; *)
(* the menus, the command line and its tokenizer; and the kernel log, of   *)
(* which the last lines are shown.  Paths and loops need induction: it is  *)
(* done on the least counterexample, because the library's induction       *)
(* theorems take an operator and no prover here can instantiate one.       *)
(***************************************************************************)
EXTENDS Files, Network, Menus, Repl, KernelModule,
        FiniteSetTheorems, SequenceTheorems, NaturalsInduction, WellFoundedInduction, TLAPS

-----------------------------------------------------------------------------
(* Induction.  The induction theorems of the library take an operator, which *)
(* no prover here can give them; a least counterexample serves as well.      *)

LEMMA LessWellFounded == IsWellFoundedOn({ss \in Nat \X Nat : ss[1] < ss[2]}, Nat)
BY NatLessThanWellFounded DEF OpToRel

\* A set of natural numbers that is not empty has a least element.
LEMMA Least ==
  ASSUME NEW T, T \subseteq Nat, T # {}
  PROVE  \E x \in T : \A y \in T : x <= y
<1> DEFINE R == {ss \in Nat \X Nat : ss[1] < ss[2]}
<1>1. IsWellFoundedOn(R, Nat)
  BY LessWellFounded
<1> HIDE DEF R
<1>2. PICK x \in T : \A y \in T : ~ (<<y, x>> \in R)
  BY <1>1, WFMin
<1>3. \A y \in T : ~ (y < x)
  BY <1>2 DEF R
<1>4. QED
  BY <1>3

\* What holds of 0, and of a number when it holds of the one before, holds up to n.
LEMMA UpTo ==
  ASSUME NEW n \in Nat, NEW Good, 0 \in Good, \A i \in 1..n : i - 1 \in Good => i \in Good
  PROVE  \A i \in 0..n : i \in Good
<1> SUFFICES ASSUME NEW i \in 0..n, i \notin Good PROVE FALSE
  OBVIOUS
<1> DEFINE T == {j \in 0..n : j \notin Good}
<1>1. PICK x \in T : \A y \in T : x <= y
  <2>1. T \subseteq Nat /\ i \in T
    OBVIOUS
  <2> HIDE DEF T
  <2>2. QED
    BY <2>1, Least
<1>2. x \in 1..n /\ x - 1 \in Good
  BY <1>1
<1>3. QED
  BY <1>1, <1>2

-----------------------------------------------------------------------------
(* Paths.                                                                   *)

\* A prefix, element by element.
LEMMA PrefixElements ==
  ASSUME NEW S, NEW s \in Seq(S), NEW t \in Seq(S)
  PROVE  IsPrefix(s, t) <=> Len(s) <= Len(t) /\ \A i \in 1..Len(s) : s[i] = t[i]
<1>1. Len(s) \in Nat /\ Len(t) \in Nat /\ (\A i \in 1..Len(s) : s[i] \in S) /\ (\A i \in 1..Len(t) : t[i] \in S)
  BY LenProperties
<1>2. SubSeq(s, 1, Len(s)) = s
  BY SubSeqFull
<1>3. ASSUME Len(s) <= Len(t)
      PROVE  SubSeq(t, 1, Len(s)) = s <=> \A i \in 1..Len(s) : s[i] = t[i]
  <2> DEFINE u == SubSeq(t, 1, Len(s))
  <2>1. \A i \in 1..Len(s) : t[i] \in S
    BY <1>1, <1>3
  <2>2. u \in Seq(S) /\ Len(u) = Len(s) /\ \A i \in 1..Len(s) : u[i] = t[i]
    <3>1. /\ u \in Seq(S) /\ Len(u) = IF 1 <= Len(s) THEN Len(s) - 1 + 1 ELSE 0
          /\ \A i \in 1..Len(s) - 1 + 1 : u[i] = t[1 + i - 1]
      BY <1>1, <2>1, SubSeqProperties
    <3>2. QED
      BY <3>1, <1>1
  <2> HIDE DEF u
  <2>3. u = s => \A i \in 1..Len(s) : s[i] = t[i]
    BY <2>2
  <2>4. (\A i \in 1..Len(s) : s[i] = t[i]) => u = s
    BY <2>2, SeqEqual
  <2>5. QED
    BY <2>3, <2>4 DEF u
<1>4. QED
  BY <1>2, <1>3 DEF IsPrefix

\* All of a sequence but the last element.
LEMMA FrontElements ==
  ASSUME NEW S, NEW s \in Seq(S), Len(s) > 0
  PROVE  /\ Front(s) \in Seq(S) /\ Len(Front(s)) = Len(s) - 1
         /\ \A i \in 1..Len(s) - 1 : Front(s)[i] = s[i]
         /\ Front(s) = <<>> <=> Len(s) = 1
<1>1. Len(s) \in Nat /\ (\A i \in 1..Len(s) : s[i] \in S)
  BY LenProperties
<1> DEFINE u == SubSeq(s, 1, Len(s) - 1)
<1>2. /\ u \in Seq(S) /\ Len(u) = IF 1 <= Len(s) - 1 THEN Len(s) - 1 - 1 + 1 ELSE 0
      /\ \A i \in 1..Len(s) - 1 - 1 + 1 : u[i] = s[1 + i - 1]
  BY <1>1, SubSeqProperties
<1> HIDE DEF u
<1>3. u \in Seq(S) /\ Len(u) = Len(s) - 1 /\ \A i \in 1..Len(s) - 1 : u[i] = s[i]
  <2>1. u \in Seq(S) /\ Len(u) = Len(s) - 1
    <3> DEFINE n == Len(s)
    <3>1. n \in Nat /\ n > 0 /\ Len(u) = IF 1 <= n - 1 THEN n - 1 - 1 + 1 ELSE 0
      BY <1>1, <1>2
    <3> HIDE DEF n
    <3>2. Len(u) = n - 1
      BY <3>1
    <3>3. QED
      BY <1>2, <3>2 DEF n
  <2>2. ASSUME NEW i \in 1..Len(s) - 1 PROVE u[i] = s[i]
    <3>1. i \in 1..Len(s) - 1 - 1 + 1 /\ 1 + i - 1 = i
      BY <1>1
    <3>2. QED
      BY <3>1, <1>2
  <2>3. QED
    BY <2>1, <2>2
<1>4. u = <<>> <=> Len(s) = 1
  BY <1>1, <1>3, EmptySeq
<1>5. QED
  BY <1>3, <1>4 DEF Front, u

\* r is q below p, put in the same place below t, element by element.
Grafted(r, p, t, q) ==
  /\ Len(r) = Len(t) + Len(q) - Len(p)
  /\ \A i \in 1..Len(t) : r[i] = t[i]
  /\ \A i \in Len(t) + 1..Len(t) + Len(q) - Len(p) : r[i] = q[i - Len(t) + Len(p)]

LEMMA InsteadElements ==
  ASSUME NEW S, NEW p \in Seq(S), NEW t \in Seq(S), NEW q \in Seq(S), Len(p) <= Len(q)
  PROVE  Instead(p, t, q) \in Seq(S) /\ Grafted(Instead(p, t, q), p, t, q)
<1>1. Len(p) \in Nat /\ Len(q) \in Nat /\ Len(t) \in Nat /\ (\A i \in 1..Len(q) : q[i] \in S)
  BY LenProperties
<1> DEFINE u == SubSeq(q, Len(p) + 1, Len(q))
<1>2. /\ u \in Seq(S) /\ Len(u) = IF Len(p) + 1 <= Len(q) THEN Len(q) - (Len(p) + 1) + 1 ELSE 0
      /\ \A i \in 1..Len(q) - (Len(p) + 1) + 1 : u[i] = q[Len(p) + 1 + i - 1]
  <2>1. \A i \in Len(p) + 1..Len(q) : q[i] \in S
    BY <1>1
  <2>2. QED
    BY <1>1, <2>1, SubSeqProperties
<1> HIDE DEF u
<1>3. u \in Seq(S) /\ Len(u) = Len(q) - Len(p) /\ \A i \in 1..Len(q) - Len(p) : u[i] = q[Len(p) + i]
  BY <1>1, <1>2
<1> DEFINE v == t \o u
<1>4. /\ v \in Seq(S) /\ Len(v) = Len(t) + Len(u)
      /\ \A i \in 1..Len(t) + Len(u) : v[i] = IF i <= Len(t) THEN t[i] ELSE u[i - Len(t)]
  BY <1>3, ConcatProperties
<1> HIDE DEF v
<1>5. /\ v \in Seq(S) /\ Len(v) = Len(t) + Len(q) - Len(p)
      /\ \A i \in 1..Len(t) : v[i] = t[i]
      /\ \A i \in Len(t) + 1..Len(t) + Len(q) - Len(p) : v[i] = q[i - Len(t) + Len(p)]
  <2>1. v \in Seq(S) /\ Len(v) = Len(t) + Len(q) - Len(p) /\ \A i \in 1..Len(t) : v[i] = t[i]
    BY <1>1, <1>3, <1>4
  <2>2. ASSUME NEW i \in Len(t) + 1..Len(t) + Len(q) - Len(p) PROVE v[i] = q[i - Len(t) + Len(p)]
    <3>1. v[i] = u[i - Len(t)]
      BY <1>1, <1>3, <1>4
    <3>2. i - Len(t) \in 1..Len(q) - Len(p) /\ Len(p) + (i - Len(t)) = i - Len(t) + Len(p)
      BY <1>1
    <3>3. QED
      BY <1>3, <3>1, <3>2
  <2>3. QED
    BY <2>1, <2>2
<1>6. QED
  BY <1>5 DEF Instead, Grafted, u, v

LEMMA PathFacts ==
  ASSUME NEW p \in Path
  PROVE  p \in Seq(Segment) /\ Len(p) \in Nat /\ Len(p) > 0
<1>1. p \in Seq(Segment) /\ Len(p) > 0
  BY FilesAssumption
<1>2. QED
  BY <1>1, LenProperties

\* The directory that a path is in.
LEMMA FrontOfPath ==
  ASSUME NEW p \in Path
  PROVE  /\ Front(p) \in Seq(Segment) /\ Len(Front(p)) = Len(p) - 1
         /\ \A i \in 1..Len(p) - 1 : Front(p)[i] = p[i]
         /\ Front(p) = <<>> <=> Len(p) = 1
         /\ Front(p) # <<>> => Front(p) \in Path
<1>1. p \in Seq(Segment) /\ Len(p) \in Nat /\ Len(p) > 0
  BY PathFacts
<1>2. /\ Front(p) \in Seq(Segment) /\ Len(Front(p)) = Len(p) - 1
      /\ \A i \in 1..Len(p) - 1 : Front(p)[i] = p[i]
      /\ Front(p) = <<>> <=> Len(p) = 1
  BY <1>1, FrontElements
<1>3. ASSUME Front(p) # <<>> PROVE Front(p) \in Path
  <2> DEFINE n == Len(p)
  <2>1. n \in Nat /\ n > 0 /\ n # 1
    BY <1>1, <1>2, <1>3
  <2> HIDE DEF n
  <2>2. n - 1 \in 1..n
    BY <2>1
  <2>3. SubSeq(p, 1, n - 1) \in Path
    BY <2>2, FilesAssumption DEF n
  <2>4. QED
    BY <2>3 DEF Front, n
<1>4. QED
  BY <1>2, <1>3

LEMMA PrefixSelf ==
  ASSUME NEW p \in Path
  PROVE  IsPrefix(p, p)
BY PathFacts, PrefixElements

LEMMA PrefixOfFront ==
  ASSUME NEW p \in Path
  PROVE  IsPrefix(Front(p), p)
<1>1. p \in Seq(Segment) /\ Len(p) \in Nat
  BY PathFacts
<1>2. Front(p) \in Seq(Segment) /\ Len(Front(p)) = Len(p) - 1 /\ \A i \in 1..Len(p) - 1 : Front(p)[i] = p[i]
  BY FrontOfPath
<1>3. Len(Front(p)) <= Len(p) /\ \A i \in 1..Len(Front(p)) : Front(p)[i] = p[i]
  BY <1>1, <1>2
<1>4. QED
  BY <1>1, <1>2, <1>3, PrefixElements

LEMMA PrefixOfPrefix ==
  ASSUME NEW S, NEW s \in Seq(S), NEW t \in Seq(S), NEW u \in Seq(S),
         IsPrefix(s, t), IsPrefix(t, u)
  PROVE  IsPrefix(s, u)
<1>1. Len(s) \in Nat /\ Len(t) \in Nat /\ Len(u) \in Nat
  BY LenProperties
<1>2. Len(s) <= Len(t) /\ \A i \in 1..Len(s) : s[i] = t[i]
  BY PrefixElements
<1>3. Len(t) <= Len(u) /\ \A i \in 1..Len(t) : t[i] = u[i]
  BY PrefixElements
<1>4. Len(s) <= Len(u) /\ \A i \in 1..Len(s) : s[i] = u[i]
  BY <1>1, <1>2, <1>3
<1>5. QED
  BY <1>4, PrefixElements

\* Of two prefixes of a path one is a prefix of the other.
LEMMA PrefixesCompare ==
  ASSUME NEW S, NEW s \in Seq(S), NEW t \in Seq(S), NEW u \in Seq(S),
         IsPrefix(s, u), IsPrefix(t, u)
  PROVE  (Len(s) <= Len(t) => IsPrefix(s, t)) /\ (Len(t) <= Len(s) => IsPrefix(t, s))
<1>1. Len(s) \in Nat /\ Len(t) \in Nat /\ Len(u) \in Nat
  BY LenProperties
<1>2. Len(s) <= Len(u) /\ \A i \in 1..Len(s) : s[i] = u[i]
  BY PrefixElements
<1>3. Len(t) <= Len(u) /\ \A i \in 1..Len(t) : t[i] = u[i]
  BY PrefixElements
<1>4. ASSUME Len(s) <= Len(t) PROVE \A i \in 1..Len(s) : s[i] = t[i]
  BY <1>1, <1>2, <1>3, <1>4
<1>5. ASSUME Len(t) <= Len(s) PROVE \A i \in 1..Len(t) : t[i] = s[i]
  BY <1>1, <1>2, <1>3, <1>5
<1>6. QED
  BY <1>4, <1>5, PrefixElements

\* Prefixes of the same length are the same.
LEMMA PrefixOfLength ==
  ASSUME NEW S, NEW s \in Seq(S), NEW t \in Seq(S), IsPrefix(s, t), Len(s) = Len(t)
  PROVE  s = t
<1>1. \A i \in 1..Len(s) : s[i] = t[i]
  BY PrefixElements
<1>2. QED
  BY <1>1, SeqEqual

\* What lies below a directory, and is not the directory, is in one that does.
LEMMA BelowFront ==
  ASSUME NEW s \in Path, NEW q \in Path, IsPrefix(s, q), s # q
  PROVE  IsPrefix(s, Front(q)) /\ Front(q) \in Path /\ Len(s) < Len(q)
<1>1. s \in Seq(Segment) /\ q \in Seq(Segment) /\ Len(s) \in Nat /\ Len(s) > 0 /\ Len(q) \in Nat /\ Len(q) > 0
  BY PathFacts
<1>2. Front(q) \in Seq(Segment) /\ Len(Front(q)) = Len(q) - 1 /\ (Front(q) = <<>> <=> Len(q) = 1)
      /\ (Front(q) # <<>> => Front(q) \in Path)
  BY FrontOfPath
<1>3. Len(s) <= Len(q)
  BY <1>1, PrefixElements
<1>4. Len(s) # Len(q)
  BY <1>1, PrefixOfLength
<1>5. Len(s) < Len(q) /\ Len(s) <= Len(q) - 1 /\ Len(q) # 1
  <2> DEFINE m == Len(s)
             n == Len(q)
  <2>1. m \in Nat /\ n \in Nat /\ m > 0 /\ m <= n /\ m # n
    BY <1>1, <1>3, <1>4
  <2> HIDE DEF m, n
  <2>2. m < n /\ m <= n - 1 /\ n # 1
    BY <2>1
  <2>3. QED
    BY <2>2 DEF m, n
<1>6. IsPrefix(Front(q), q)
  BY PrefixOfFront
<1>7. IsPrefix(s, Front(q))
  BY <1>1, <1>2, <1>5, <1>6, PrefixesCompare
<1>8. QED
  BY <1>2, <1>5, <1>7

\* A thing below p, put below t, and back.
LEMMA InsteadPath ==
  ASSUME NEW p \in Path, NEW t \in Path, NEW q \in Path, IsPrefix(p, q)
  PROVE  /\ Instead(p, t, q) \in Seq(Segment)
         /\ IsPrefix(t, Instead(p, t, q))
         /\ Instead(t, p, Instead(p, t, q)) = q
         /\ q = p => Instead(p, t, q) = t
         /\ q # p => Instead(p, t, q) # t /\ Front(Instead(p, t, q)) = Instead(p, t, Front(q))
<1>1. /\ p \in Seq(Segment) /\ Len(p) \in Nat /\ Len(p) > 0
      /\ t \in Seq(Segment) /\ Len(t) \in Nat /\ Len(t) > 0
      /\ q \in Seq(Segment) /\ Len(q) \in Nat /\ Len(q) > 0
  BY PathFacts
<1>2. Len(p) <= Len(q) /\ \A i \in 1..Len(p) : p[i] = q[i]
  BY <1>1, PrefixElements
<1> DEFINE r == Instead(p, t, q)
           m == Len(p)
           n == Len(q)
           k == Len(t)
<1>3. /\ r \in Seq(Segment) /\ Len(r) = k + n - m
      /\ \A i \in 1..k : r[i] = t[i]
      /\ \A i \in k + 1..k + n - m : r[i] = q[i - k + m]
  <2>1. r \in Seq(Segment) /\ Grafted(r, p, t, q)
    BY <1>1, <1>2, InsteadElements
  <2> HIDE DEF r
  <2>2. QED
    BY <2>1 DEF Grafted
<1>4. m \in Nat /\ n \in Nat /\ k \in Nat /\ m <= n /\ m > 0 /\ n > 0 /\ k > 0
  BY <1>1, <1>2
<1> HIDE DEF r
<1>5. IsPrefix(t, r)
  <2>1. Len(t) <= Len(r)
    <3> HIDE DEF m, n, k
    <3>1. k <= k + n - m
      BY <1>4
    <3>2. QED
      BY <3>1, <1>3 DEF k
  <2>2. QED
    BY <1>1, <1>3, <2>1, PrefixElements
<1>6. Instead(t, p, r) = q
  <2>1. Len(t) <= Len(r)
    BY <1>1, <1>3, <1>5, PrefixElements
  <2> DEFINE v == Instead(t, p, r)
  <2>2. /\ v \in Seq(Segment) /\ Len(v) = m + Len(r) - k
        /\ \A i \in 1..m : v[i] = p[i]
        /\ \A i \in m + 1..m + Len(r) - k : v[i] = r[i - m + k]
    <3>1. v \in Seq(Segment) /\ Grafted(v, t, p, r)
      BY <1>1, <1>3, <2>1, InsteadElements
    <3> HIDE DEF v
    <3>2. QED
      BY <3>1 DEF Grafted
  <2> HIDE DEF v
  <2>3. m + Len(r) - k = n
    <3> HIDE DEF m, n, k
    <3>1. QED
      BY <1>3, <1>4
  <2>4. ASSUME NEW i \in 1..n PROVE v[i] = q[i]
    <3>1. CASE i \in 1..m
      BY <1>2, <2>2, <3>1
    <3>2. CASE i \in m + 1..n
      <4>1. v[i] = r[i - m + k]
        BY <2>2, <2>3, <3>2
      <4> HIDE DEF m, n, k
      <4>2. i - m + k \in k + 1..k + n - m /\ (i - m + k) - k + m = i
        BY <1>4, <3>2
      <4>3. QED
        BY <1>3, <4>1, <4>2
    <3>3. QED
      <4> HIDE DEF m, n, k
      <4>1. i \in 1..m \/ i \in m + 1..n
        BY <1>4
      <4>2. QED
        BY <3>1, <3>2, <4>1
  <2>5. QED
    BY <1>1, <2>2, <2>3, <2>4, SeqEqual DEF v
<1>7. ASSUME q = p PROVE r = t
  <2>1. Len(r) = Len(t)
    <3>1. n = m
      BY <1>7
    <3> HIDE DEF m, n, k
    <3>2. k + n - m = k
      BY <1>4, <3>1
    <3>3. QED
      BY <1>3, <3>2 DEF k
  <2>2. QED
    BY <1>1, <1>3, <1>5, <2>1, PrefixOfLength
<1>8. ASSUME q # p PROVE r # t /\ Front(r) = Instead(p, t, Front(q))
  <2>1. IsPrefix(p, Front(q)) /\ Front(q) \in Path /\ m < n
    BY <1>8, BelowFront
  <2>2. /\ Front(q) \in Seq(Segment) /\ Len(Front(q)) = n - 1
        /\ \A i \in 1..n - 1 : Front(q)[i] = q[i]
    BY FrontOfPath
  <2>3. Len(p) <= Len(Front(q))
    BY <1>1, <2>1, <2>2, PrefixElements
  <2> DEFINE v == Instead(p, t, Front(q))
             l == Len(Front(q))
  <2>4. /\ v \in Seq(Segment) /\ Len(v) = k + l - m
        /\ \A i \in 1..k : v[i] = t[i]
        /\ \A i \in k + 1..k + l - m : v[i] = Front(q)[i - k + m]
    <3>1. v \in Seq(Segment) /\ Grafted(v, p, t, Front(q))
      BY <1>1, <2>2, <2>3, InsteadElements
    <3> HIDE DEF v
    <3>2. QED
      BY <3>1 DEF Grafted
  <2>5. Len(r) > k /\ Len(r) > 0 /\ l = n - 1 /\ m <= n - 1
    <3>1. m < n /\ l = n - 1
      BY <2>1, <2>2
    <3> HIDE DEF m, n, k, l
    <3>2. k + n - m > k /\ k + n - m > 0 /\ m <= n - 1
      BY <1>4, <3>1
    <3>3. QED
      BY <1>3, <3>1, <3>2
  <2> DEFINE f == Front(r)
  <2>6. f \in Seq(Segment) /\ Len(f) = Len(r) - 1 /\ \A i \in 1..Len(r) - 1 : f[i] = r[i]
    BY <1>3, <2>5, FrontElements
  <2> HIDE DEF v, f, l
  <2>7. Len(f) = Len(v) /\ Len(f) = k + n - m - 1
    <3> HIDE DEF m, n, k
    <3>1. Len(r) - 1 = k + l - m
      BY <1>3, <1>4, <2>5
    <3>2. QED
      BY <1>3, <1>4, <2>4, <2>6, <3>1
  <2>8. ASSUME NEW i \in 1..Len(f) PROVE f[i] = v[i]
    <3>1. f[i] = r[i]
      BY <2>6, <2>7
    <3>2. CASE i \in 1..k
      BY <1>3, <2>4, <3>1, <3>2
    <3>3. CASE i \in k + 1..k + n - m - 1
      <4>1. i \in k + 1..k + n - m /\ i \in k + 1..k + l - m /\ i - k + m \in 1..n - 1
        <5> HIDE DEF m, n, k
        <5>1. QED
          BY <1>4, <2>5, <3>3
      <4>2. r[i] = q[i - k + m] /\ v[i] = Front(q)[i - k + m]
        BY <1>3, <2>4, <4>1
      <4>3. QED
        BY <2>2, <3>1, <4>1, <4>2
    <3>4. QED
      <4> HIDE DEF m, n, k
      <4>1. i \in 1..k \/ i \in k + 1..k + n - m - 1
        BY <1>4, <2>7
      <4>2. QED
        BY <3>2, <3>3, <4>1
  <2>9. f = v
    BY <2>4, <2>6, <2>7, <2>8, SeqEqual
  <2>10. r # t
    BY <2>5, <1>4
  <2>11. QED
    BY <2>9, <2>10 DEF f, v
<1>9. QED
  BY <1>3, <1>5, <1>6, <1>7, <1>8 DEF r

-----------------------------------------------------------------------------
(* Trees: what the file manager does leaves a tree a tree.                  *)

Kind == {"nothing", "folder"} \union Data
Trees == [Path -> [is : Kind, ro : BOOLEAN]]

\* What exists is in a directory.
IsTree(f) ==
  \A p \in Path : f[p].is # "nothing" /\ Front(p) # <<>> => f[Front(p)].is = "folder"

LEMMA Kinds == Blank \in Kind /\ Tarball \in Kind /\ Data \subseteq Kind /\ "nothing" \in Kind /\ "folder" \in Kind
               /\ "nothing" \notin Data /\ "folder" \notin Data
BY FilesAssumption DEF Kind

\* Whatever is above a thing exists, and is a directory.
LEMMA Ancestors ==
  ASSUME NEW f, IsTree(f), NEW p \in Path, f[p].is # "nothing", NEW t \in Path, IsPrefix(t, p)
  PROVE  f[t].is # "nothing" /\ (t # p => f[t].is = "folder")
<1> DEFINE T == {n \in Nat : \E q \in Path : /\ Len(q) = n /\ IsPrefix(t, q) /\ IsPrefix(q, p)
                                            /\ f[q].is # "nothing" /\ (q # p => f[q].is = "folder")}
<1>1. T \subseteq Nat /\ T # {}
  <2>1. IsPrefix(p, p) /\ Len(p) \in Nat
    BY PrefixSelf, PathFacts
  <2>2. Len(p) \in T
    BY <2>1
  <2>3. QED
    BY <2>2
<1>2. PICK n \in T : \A m \in T : n <= m
  <2> HIDE DEF T
  <2>1. QED
    BY <1>1, Least
<1>3. PICK q \in Path : /\ Len(q) = n /\ IsPrefix(t, q) /\ IsPrefix(q, p)
                       /\ f[q].is # "nothing" /\ (q # p => f[q].is = "folder")
  BY <1>2
<1>4. ASSUME t # q PROVE FALSE
  <2>1. IsPrefix(t, Front(q)) /\ Front(q) \in Path
    BY <1>3, <1>4, BelowFront
  <2>2. Front(q) # <<>>
    <3>1. Len(Front(q)) > 0
      BY <2>1, PathFacts
    <3>2. QED
      BY <3>1
  <2>3. f[Front(q)].is = "folder"
    BY <1>3, <2>2 DEF IsTree
  <2>4. IsPrefix(Front(q), p)
    <3>1. IsPrefix(Front(q), q)
      BY PrefixOfFront
    <3>2. Front(q) \in Seq(Segment) /\ q \in Seq(Segment) /\ p \in Seq(Segment)
      BY <2>1, PathFacts
    <3>3. QED
      BY <1>3, <3>1, <3>2, PrefixOfPrefix
  <2>5. Len(Front(q)) = n - 1 /\ Len(Front(q)) \in Nat
    BY <1>3, <2>1, FrontOfPath, PathFacts
  <2>6. Len(Front(q)) \in T
    BY <2>1, <2>3, <2>4, <2>5
  <2> DEFINE l == Len(Front(q))
  <2>7. n <= l /\ l = n - 1 /\ l \in Nat /\ n \in Nat
    BY <1>2, <2>5, <2>6
  <2> HIDE DEF l
  <2>8. QED
    BY <2>7
<1>5. QED
  BY <1>3, <1>4

\* A file comes where no directory is.
LEMMA PutFile ==
  ASSUME NEW f \in Trees, IsTree(f), NEW p \in Path, f[p].is # "folder",
         Front(p) = <<>> \/ f[Front(p)].is = "folder", NEW d \in Data
  PROVE  [f EXCEPT ![p] = File(d)] \in Trees /\ IsTree([f EXCEPT ![p] = File(d)])
<1> DEFINE g == [f EXCEPT ![p] = File(d)]
<1>1. File(d) \in [is : Kind, ro : BOOLEAN] /\ File(d).is = d
  BY Kinds DEF File
<1>2. g \in Trees /\ g[p] = File(d) /\ \A q \in Path \ {p} : g[q] = f[q]
  BY <1>1 DEF Trees
<1> HIDE DEF g
<1>3. ASSUME NEW q \in Path, g[q].is # "nothing", Front(q) # <<>>
      PROVE  g[Front(q)].is = "folder"
  <2>1. Front(q) \in Path /\ Front(q) # q
    <3>1. Len(Front(q)) = Len(q) - 1 /\ Front(q) \in Path /\ Len(q) \in Nat
      BY <1>3, FrontOfPath, PathFacts
    <3> DEFINE n == Len(q)
               m == Len(Front(q))
    <3>2. m = n - 1 /\ n \in Nat
      BY <3>1
    <3> HIDE DEF n, m
    <3>3. m # n
      BY <3>2
    <3>4. QED
      BY <3>1, <3>3 DEF m, n
  <2>2. f[Front(q)].is = "folder"
    BY <1>2, <1>3 DEF IsTree
  <2>3. QED
    BY <1>2, <2>1, <2>2
<1>4. QED
  BY <1>2, <1>3 DEF g, IsTree

\* A directory is in no other place than itself.
LEMMA FrontNotBelow ==
  ASSUME NEW q \in Path, NEW s \in Path, ~IsPrefix(s, q)
  PROVE  ~IsPrefix(s, Front(q))
<1> SUFFICES ASSUME IsPrefix(s, Front(q)) PROVE FALSE
  OBVIOUS
<1>1. s \in Seq(Segment) /\ q \in Seq(Segment) /\ Front(q) \in Seq(Segment)
  BY PathFacts, FrontOfPath
<1>2. QED
  BY <1>1, PrefixOfFront, PrefixOfPrefix

LEMMA FrontSmaller ==
  ASSUME NEW q \in Path
  PROVE  ~IsPrefix(q, Front(q)) /\ Front(q) # q
<1> DEFINE n == Len(q)
           m == Len(Front(q))
<1>1. q \in Seq(Segment) /\ Front(q) \in Seq(Segment) /\ m = n - 1 /\ n \in Nat
  BY FrontOfPath, PathFacts
<1>2. IsPrefix(q, Front(q)) => n <= m
  BY <1>1, PrefixElements
<1>3. q = Front(q) => n = m
  OBVIOUS
<1> HIDE DEF m, n
<1>4. QED
  BY <1>1, <1>2, <1>3

\* What is removed is removed with all that is below it.
LEMMA WithoutTree ==
  ASSUME NEW f \in Trees, IsTree(f), NEW some \in SUBSET Path,
         \A q \in some : Below(q) \subseteq some
  PROVE  Without(f, some) \in Trees /\ IsTree(Without(f, some))
<1> DEFINE g == Without(f, some)
<1>1. Nothing \in [is : Kind, ro : BOOLEAN] /\ Nothing.is = "nothing"
  BY Kinds DEF Nothing
<1>2. g \in Trees /\ \A q \in Path : g[q] = IF q \in some THEN Nothing ELSE f[q]
  BY <1>1 DEF Trees, Without
<1> HIDE DEF g
<1>3. ASSUME NEW q \in Path, g[q].is # "nothing", Front(q) # <<>>
      PROVE  g[Front(q)].is = "folder"
  <2>1. q \notin some /\ g[q] = f[q]
    BY <1>1, <1>2, <1>3
  <2>2. Front(q) \in Path
    BY <1>3, FrontOfPath
  <2>3. Front(q) \notin some
    <3>1. q \in Below(Front(q))
      BY PrefixOfFront DEF Below
    <3>2. QED
      BY <2>1, <3>1
  <2>4. f[Front(q)].is = "folder"
    BY <1>3, <2>1 DEF IsTree
  <2>5. QED
    BY <1>2, <2>2, <2>3, <2>4
<1>4. QED
  BY <1>2, <1>3 DEF g, IsTree

\* mkdir -p makes the missing directories on the way to p, or the first of them.
LEMMA MadeTree ==
  ASSUME NEW f \in Trees, IsTree(f), NEW p \in Path, NEW missing, NEW some \in SUBSET missing,
         missing = {q \in Path : IsPrefix(q, p) /\ f[q].is = "nothing"},
         \A q \in Path : IsPrefix(q, p) => q \in missing \/ f[q].is = "folder",
         \A q \in some : Front(q) \notin missing \ some
  PROVE  LET g == [q \in Path |-> IF q \in some THEN Folder ELSE f[q]]
         IN g \in Trees /\ IsTree(g)
<1> DEFINE g == [q \in Path |-> IF q \in some THEN Folder ELSE f[q]]
<1>1. Folder \in [is : Kind, ro : BOOLEAN] /\ Folder.is = "folder"
  BY Kinds DEF Folder
<1>2. g \in Trees /\ \A q \in Path : g[q] = IF q \in some THEN Folder ELSE f[q]
  BY <1>1 DEF Trees
<1> HIDE DEF g
<1>3. ASSUME NEW q \in Path, g[q].is # "nothing", Front(q) # <<>>
      PROVE  g[Front(q)].is = "folder"
  <2>1. Front(q) \in Path
    BY <1>3, FrontOfPath
  <2>2. CASE q \in some
    <3>1. IsPrefix(Front(q), p)
      <4>1. IsPrefix(Front(q), q) /\ IsPrefix(q, p)
        BY <2>2, PrefixOfFront
      <4>2. Front(q) \in Seq(Segment) /\ q \in Seq(Segment) /\ p \in Seq(Segment)
        BY <2>1, PathFacts
      <4>3. QED
        BY <4>1, <4>2, PrefixOfPrefix
    <3>2. Front(q) \in some \/ f[Front(q)].is = "folder"
      BY <2>1, <2>2, <3>1
    <3>3. QED
      BY <1>1, <1>2, <2>1, <3>2
  <2>3. CASE q \notin some
    <3>1. f[Front(q)].is = "folder"
      BY <1>2, <1>3, <2>3 DEF IsTree
    <3>2. QED
      BY <1>1, <1>2, <2>1, <3>1
  <2>4. QED
    BY <2>2, <2>3
<1>4. QED
  BY <1>2, <1>3 DEF g, IsTree

\* Whatever lies below both of two places shows that one lies below the other.
LEMMA NoCommonBelow ==
  ASSUME NEW s \in Path, NEW t \in Path, NEW q \in Path, ~IsPrefix(s, t), ~IsPrefix(t, s)
  PROVE  ~(IsPrefix(s, q) /\ IsPrefix(t, q))
<1> SUFFICES ASSUME IsPrefix(s, q), IsPrefix(t, q) PROVE FALSE
  OBVIOUS
<1> DEFINE m == Len(s)
           n == Len(t)
<1>1. s \in Seq(Segment) /\ t \in Seq(Segment) /\ q \in Seq(Segment) /\ m \in Nat /\ n \in Nat
  BY PathFacts
<1>2. ~(m <= n) /\ ~(n <= m)
  BY <1>1, PrefixesCompare
<1> HIDE DEF m, n
<1>3. QED
  BY <1>1, <1>2

\* A thing is moved to where nothing is, or nothing below.
LEMMA MovedTree ==
  ASSUME fs \in Trees, IsTree(fs), op.path \in Path, NEW t \in Path, Exists(op.path),
         ~IsPrefix(op.path, t), ~IsPrefix(t, op.path),
         Front(t) = <<>> \/ fs[Front(t)].is = "folder"
  PROVE  Moved(t) \in Trees /\ IsTree(Moved(t))
<1> DEFINE g == Moved(t)
           p == op.path
           From(q) == Instead(t, p, q)
           Comes(q) == IsPrefix(t, q) /\ From(q) \in Path
<1>1. Nothing \in [is : Kind, ro : BOOLEAN] /\ Nothing.is = "nothing"
  BY Kinds DEF Nothing
<1>2. g \in Trees /\ \A q \in Path :
        g[q] = IF Comes(q) THEN fs[From(q)]
               ELSE IF IsPrefix(p, q) \/ IsPrefix(t, q) THEN Nothing ELSE fs[q]
  BY <1>1 DEF Trees, Moved
<1> HIDE DEF g, p, From
<1>3. ASSUME NEW q \in Path, g[q].is # "nothing", Front(q) # <<>>
      PROVE  g[Front(q)].is = "folder"
  <2>0. Front(q) \in Path
    BY <1>3, FrontOfPath
  <2>1. CASE Comes(q) /\ q = t
    <3>1. ~IsPrefix(t, Front(q)) /\ ~IsPrefix(p, Front(q))
      BY <2>1, FrontSmaller, FrontNotBelow DEF p
    <3>2. QED
      BY <1>2, <1>3, <2>0, <2>1, <3>1
  <2>2. CASE Comes(q) /\ q # t
    <3>1. IsPrefix(t, Front(q))
      BY <2>2, BelowFront
    <3>2. Front(From(q)) = From(Front(q)) /\ From(q) # p /\ IsPrefix(p, From(q))
      BY <2>2, InsteadPath DEF p, From
    <3>3. Front(From(q)) \in Path
      BY <2>2, <3>2, BelowFront DEF p
    <3>4. Front(From(q)) # <<>>
      <4>1. Len(Front(From(q))) > 0
        BY <3>3, PathFacts
      <4>2. QED
        BY <4>1
    <3>5. fs[Front(From(q))].is = "folder"
      BY <1>2, <1>3, <2>2, <3>4 DEF IsTree
    <3>6. QED
      BY <1>2, <2>0, <3>1, <3>2, <3>3, <3>5
  <2>3. CASE ~Comes(q)
    <3>1. g[q] = fs[q] /\ ~IsPrefix(p, q) /\ ~IsPrefix(t, q)
      BY <1>1, <1>2, <1>3, <2>3
    <3>2. ~IsPrefix(p, Front(q)) /\ ~IsPrefix(t, Front(q))
      BY <3>1, FrontNotBelow DEF p
    <3>3. fs[Front(q)].is = "folder"
      BY <1>3, <3>1 DEF IsTree
    <3>4. QED
      BY <1>2, <2>0, <3>2, <3>3
  <2>4. QED
    BY <2>1, <2>2, <2>3
<1>4. QED
  BY <1>2, <1>3 DEF g, IsTree

\* A copy keeps to the directories that are there, and makes those that are not
\* before what is in them.
LEMMA CopiedTree ==
  ASSUME fs \in Trees, IsTree(fs), op.path \in Path, Target \in Path,
         ~IsPrefix(Target, op.path), Front(Target) = <<>> \/ fs[Front(Target)].is = "folder",
         NEW tree \in SUBSET {q \in Below(op.path) : Exists(q)}, \A q \in tree : Copyable(q),
         \A q \in tree : q = op.path \/ Front(q) \in tree,
         NEW cut \in SUBSET {q \in tree : IsFile(q)}
  PROVE  Copied(op.path, Target, tree, cut) \in Trees /\ IsTree(Copied(op.path, Target, tree, cut))
<1> DEFINE p == op.path
           t == Target
           g == Copied(p, t, tree, cut)
           From(q) == Instead(t, p, q)
           Comes(q) == IsPrefix(t, q) /\ From(q) \in tree
<1>1. \A q \in tree : q \in Path /\ q # <<>> /\ fs[q].is # "nothing"
  <2>1. \A q \in Path : q # <<>>
    <3>1. ASSUME NEW q \in Path PROVE Len(q) > 0
      BY PathFacts
    <3>2. QED
      BY <3>1
  <2>2. QED
    BY <2>1 DEF Below, Exists
<1>2. g \in Trees /\ \A q \in Path :
        /\ Comes(q) => g[q].is = IF From(q) \in cut THEN Blank ELSE fs[From(q)].is
        /\ ~Comes(q) => g[q] = fs[q]
  <2> HIDE DEF p, t, From
  <2>1. \A q \in Path : g[q] = IF ~Comes(q) THEN fs[q]
                               ELSE [is |-> IF From(q) \in cut THEN Blank ELSE fs[From(q)].is,
                                     ro |-> IF Exists(q) THEN fs[q].ro ELSE fs[From(q)].ro]
    BY DEF Copied, From
  <2>2. g = [q \in Path |-> g[q]]
    BY DEF Copied
  <2> HIDE DEF g
  <2>3. ASSUME NEW q \in Path PROVE g[q] \in [is : Kind, ro : BOOLEAN]
    <3>1. CASE ~Comes(q)
      BY <2>1, <3>1 DEF Trees
    <3>2. CASE Comes(q)
      <4>1. From(q) \in Path
        BY <1>1, <3>2
      <4>2. fs[From(q)] \in [is : Kind, ro : BOOLEAN] /\ fs[q] \in [is : Kind, ro : BOOLEAN]
        BY <4>1 DEF Trees
      <4> DEFINE is == IF From(q) \in cut THEN Blank ELSE fs[From(q)].is
                 ro == IF Exists(q) THEN fs[q].ro ELSE fs[From(q)].ro
      <4>3. is \in Kind /\ ro \in BOOLEAN
        BY <4>2, Kinds
      <4>4. g[q] = [is |-> is, ro |-> ro]
        BY <2>1, <3>2
      <4> HIDE DEF is, ro
      <4>5. QED
        BY <4>3, <4>4
    <3>3. QED
      BY <3>1, <3>2
  <2>4. g \in Trees
    BY <2>2, <2>3 DEF Trees
  <2>5. ASSUME NEW q \in Path, Comes(q)
        PROVE  g[q].is = IF From(q) \in cut THEN Blank ELSE fs[From(q)].is
    <3> DEFINE is == IF From(q) \in cut THEN Blank ELSE fs[From(q)].is
               ro == IF Exists(q) THEN fs[q].ro ELSE fs[From(q)].ro
    <3>1. g[q] = [is |-> is, ro |-> ro]
      BY <2>1, <2>5
    <3> HIDE DEF is, ro
    <3>2. g[q].is = is
      BY <3>1
    <3>3. QED
      BY <3>2 DEF is
  <2>6. QED
    BY <2>1, <2>4, <2>5
<1>3. \A q \in tree : fs[q].is = "folder" => q \notin cut
  BY <1>1 DEF IsFile, IsFolder
<1>4. t \in Path /\ p \in Path /\ Front(t) \in Seq(Segment)
  BY FrontOfPath
<1> HIDE DEF g, p, t, From
<1>5. ASSUME NEW q \in Path, g[q].is # "nothing", Front(q) # <<>>
      PROVE  g[Front(q)].is = "folder"
  <2>0. Front(q) \in Path
    BY <1>5, FrontOfPath
  <2>1. CASE Comes(q) /\ q = t
    <3>1. ~IsPrefix(t, Front(q))
      BY <2>1, FrontSmaller
    <3>2. QED
      BY <1>2, <1>5, <2>0, <2>1, <3>1 DEF t
  <2>2. CASE Comes(q) /\ q # t
    <3>1. IsPrefix(t, Front(q))
      BY <1>4, <2>2, BelowFront
    <3>2. Front(From(q)) = From(Front(q)) /\ From(q) # p
      BY <1>4, <2>2, InsteadPath DEF From
    <3>3. Front(From(q)) \in tree
      BY <2>2, <3>2 DEF p
    <3>4. fs[Front(From(q))].is = "folder"
      BY <1>1, <2>2, <3>3 DEF IsTree
    <3>5. QED
      BY <1>2, <1>3, <2>0, <3>1, <3>2, <3>3, <3>4
  <2>3. CASE ~Comes(q)
    <3>1. fs[Front(q)].is = "folder"
      BY <1>2, <1>5, <2>3 DEF IsTree
    <3>2. ASSUME Comes(Front(q)) PROVE fs[From(Front(q))].is = "folder"
      <4>1. Instead(p, t, From(Front(q))) = Front(q)
        BY <1>4, <2>0, <3>2, InsteadPath DEF From
      <4>2. Copyable(From(Front(q))) /\ Exists(Front(q)) /\ IsFolder(Front(q))
        BY <3>1, <3>2 DEF Exists, IsFolder
      <4>3. IsFolder(From(Front(q)))
        BY <4>1, <4>2 DEF Copyable, p, t
      <4>4. QED
        BY <1>1, <3>2, <4>3 DEF IsFolder
    <3>3. QED
      BY <1>2, <1>3, <2>0, <3>1, <3>2
  <2>4. QED
    BY <2>1, <2>2, <2>3
<1>6. QED
  BY <1>2, <1>5 DEF g, IsTree, p, t

-----------------------------------------------------------------------------
(* The invariant.                                                           *)

\* What an operation is about.
OpTyped ==
  /\ op.path \in Path /\ op.data \in Data
  /\ op.name \in {"move", "copy", "archive"} => op.dest \in Path

\* While a file is read nothing of it is lost, unless cat writes something else,
\* and the loop of sysmgr ends when its buffer is full or all has been read.
ReadInv ==
  /\ pc \in {"file.read", "file.wait"} =>
       /\ op.name = "read" /\ IsFile(op.path) /\ io.total < Buffer
       /\ Misread \/ io.left + io.piped + io.total = Size[fs[op.path].is]
  /\ pc = "file.wait" => Room = 0 \/ (io.left = 0 /\ io.piped = 0)

FilesInv ==
  /\ fs \in Trees /\ IsTree(fs)
  /\ io \in [left : Nat, piped : 0..Pipe, total : 0..Buffer]
  /\ pc \in {"prompt", "file", "file.read", "file.wait"}
  /\ pc # "prompt" => before = fs /\ OpTyped
  /\ ReadInv
  /\ SuccessMeansDone

LEMMA FilesInvInit == FilesInit => FilesInv
<1> SUFFICES ASSUME FilesInit PROVE FilesInv
  OBVIOUS
<1>1. fs = [p \in Path |-> Nothing] /\ before = fs /\ op = NoOp /\ io = NoRead /\ pc = "prompt" /\ told = "nothing"
  BY DEF FilesInit
<1>2. fs \in Trees /\ IsTree(fs)
  <2>1. Nothing \in [is : Kind, ro : BOOLEAN] /\ Nothing.is = "nothing"
    BY Kinds DEF Nothing
  <2>2. QED
    BY <1>1, <2>1 DEF Trees, IsTree
<1>3. io \in [left : Nat, piped : 0..Pipe, total : 0..Buffer]
  BY <1>1, FilesAssumption DEF NoRead
<1>4. SuccessMeansDone
  BY <1>1 DEF SuccessMeansDone
<1>5. QED
  BY <1>1, <1>2, <1>3, <1>4 DEF FilesInv, ReadInv

\* What a path is taken for depends on the operation alone.
LEMMA SameMisread ==
  ASSUME op' = op
  PROVE  Misread' = Misread
BY DEF Misread, Arguments

\* An operation ends.
LEMMA EndStep ==
  ASSUME FilesInv, pc # "prompt", pc' = "prompt", UNCHANGED <<op, before, io>>,
         fs' \in Trees, IsTree(fs'), told' = "done" => Misread' \/ Declined' \/ Achieved',
         \A p \in Path \ Concerned : fs'[p].is = fs[p].is
  PROVE  FilesInv'
<1>1. before = fs /\ op' = op /\ before' = before /\ io' = io
  BY DEF FilesInv
<1>2. Concerned' = Concerned
  BY <1>1 DEF Concerned, Below
<1>3. SuccessMeansDone'
  BY <1>1, <1>2 DEF SuccessMeansDone, Held
<1>4. ReadInv'
  BY DEF ReadInv
<1>5. QED
  BY <1>1, <1>3, <1>4 DEF FilesInv

\* A program fails, and nothing has changed.
LEMMA FailStep ==
  ASSUME FilesInv, pc # "prompt", Fail(fs)
  PROVE  FilesInv'
<1>1. fs' = fs /\ pc' = "prompt" /\ told' = "failed" /\ UNCHANGED <<op, before, io>>
  BY DEF Fail, FilesTell
<1>2. QED
  BY <1>1, EndStep DEF FilesInv

\* A program that has taken a path for an option has changed nothing.
LEMMA MisledStep ==
  ASSUME FilesInv, Misled
  PROVE  FilesInv'
<1>1. pc # "prompt" /\ Misread /\ fs' = fs /\ pc' = "prompt" /\ UNCHANGED <<op, before, io>>
  BY DEF Misled, Succeed, Fail, FilesTell
<1>2. Misread'
  BY <1>1, SameMisread
<1>3. QED
  BY <1>1, <1>2, EndStep DEF FilesInv

\* The directory of a path that can be reached.
LEMMA ReachableFront ==
  ASSUME NEW p, Reachable(p)
  PROVE  Front(p) = <<>> \/ fs[Front(p)].is = "folder"
BY DEF Reachable, IsFolder

LEMMA NotEmpty ==
  ASSUME NEW p \in Path
  PROVE  p # <<>> /\ (IsFolder(p) <=> fs[p].is = "folder")
<1>1. p # <<>>
  <2>1. Len(p) > 0
    BY PathFacts
  <2>2. QED
    BY <2>1
<1>2. QED
  BY <1>1 DEF IsFolder

\* A file is put where no directory is.
LEMMA PutStep ==
  ASSUME FilesInv, pc # "prompt", NEW d \in Data, pc' = "prompt", UNCHANGED <<op, before, io>>,
         fs' = [fs EXCEPT ![op.path] = File(d)],
         IsFile(op.path) \/ (~Exists(op.path) /\ Reachable(op.path)),
         op.path \in Concerned, told' = "done" => Achieved'
  PROVE  FilesInv'
<1>1. op.path \in Path /\ fs \in Trees /\ IsTree(fs)
  BY DEF FilesInv, OpTyped
<1>2. fs[op.path].is # "folder"
  BY <1>1, NotEmpty DEF IsFile, Exists
<1>3. Front(op.path) = <<>> \/ fs[Front(op.path)].is = "folder"
  <2>1. CASE Exists(op.path)
    BY <1>1, <2>1 DEF Exists, IsTree
  <2>2. CASE ~Exists(op.path)
    BY <2>2, ReachableFront DEF IsFile
  <2>3. QED
    BY <2>1, <2>2
<1>4. fs' \in Trees /\ IsTree(fs')
  BY <1>1, <1>2, <1>3, PutFile
<1>5. \A p \in Path \ Concerned : fs'[p].is = fs[p].is
  BY <1>1 DEF Trees
<1>6. QED
  BY <1>4, <1>5, EndStep

LEMMA CreateStep ==
  ASSUME FilesInv, Create
  PROVE  FilesInv'
<1>1. pc = "file" /\ op.name = "create" /\ op.path \in Path /\ fs \in Trees /\ IsTree(fs)
  BY DEF Create, Does, FilesInv, OpTyped
<1>2. CASE Fail(fs)
  BY <1>1, <1>2, FailStep
<1>3. ASSUME Reachable(op.path) \/ Exists(op.path),
             Succeed(IF Exists(op.path) THEN fs ELSE [fs EXCEPT ![op.path] = File(Blank)])
      PROVE  FilesInv'
  <2>1. /\ pc' = "prompt" /\ told' = "done" /\ UNCHANGED <<op, before, io>>
        /\ fs' = IF Exists(op.path) THEN fs ELSE [fs EXCEPT ![op.path] = File(Blank)]
    BY <1>3 DEF Succeed, FilesTell
  <2>2. Exists(op.path)'
    <3>1. CASE Exists(op.path)
      BY <2>1, <3>1 DEF Exists
    <3>2. CASE ~Exists(op.path)
      <4>1. fs'[op.path] = File(Blank)
        BY <1>1, <2>1, <3>2 DEF Trees
      <4>2. QED
        BY <2>1, <4>1, Kinds, FilesAssumption DEF Exists, File
    <3>3. QED
      BY <3>1, <3>2
  <2>3. Achieved'
    BY <1>1, <2>1, <2>2 DEF Achieved
  <2>4. CASE Exists(op.path)
    BY <1>1, <2>1, <2>3, <2>4, EndStep
  <2>5. CASE ~Exists(op.path)
    <3>1. op.path \in Concerned
      BY <1>1, PrefixSelf DEF Concerned, Below
    <3>2. QED
      BY <1>1, <1>3, <2>1, <2>3, <2>5, <3>1, PutStep, FilesAssumption
  <2>6. QED
    BY <2>4, <2>5
<1>4. QED
  BY <1>2, <1>3 DEF Create

LEMMA WriteStep ==
  ASSUME FilesInv, Write
  PROVE  FilesInv'
<1>1. pc = "file" /\ op.name = "write" /\ op.path \in Path /\ op.data \in Data /\ fs \in Trees
  BY DEF Write, Does, FilesInv, OpTyped
<1>2. op.path \in Concerned
  BY <1>1, PrefixSelf DEF Concerned, Below
<1>3. CASE Fail(fs)
  BY <1>1, <1>3, FailStep
<1>4. ASSUME IsFile(op.path) \/ (~Exists(op.path) /\ Reachable(op.path)),
             Succeed([fs EXCEPT ![op.path] = File(Written(op.data))])
      PROVE  FilesInv'
  <2>1. /\ pc' = "prompt" /\ told' = "done" /\ UNCHANGED <<op, before, io>>
        /\ fs' = [fs EXCEPT ![op.path] = File(Written(op.data))]
    BY <1>4 DEF Succeed, FilesTell
  <2>2. Written(op.data) \in Data /\ (Written(op.data) = op.data \/ op.data \in Option)
    BY <1>1, FilesAssumption DEF Written
  <2>3. fs'[op.path].is = Written(op.data)
    <3>1. fs'[op.path] = File(Written(op.data))
      BY <1>1, <2>1 DEF Trees
    <3>2. QED
      BY <3>1 DEF File
  <2>4. Achieved'
    BY <1>1, <2>1, <2>2, <2>3 DEF Achieved, Held
  <2>5. QED
    BY <1>1, <1>2, <1>4, <2>1, <2>2, <2>4, PutStep
<1>5. ASSUME IsFile(op.path) \/ (~Exists(op.path) /\ Reachable(op.path)),
             Fail([fs EXCEPT ![op.path] = File(Blank)])
      PROVE  FilesInv'
  <2>1. /\ pc' = "prompt" /\ told' = "failed" /\ UNCHANGED <<op, before, io>>
        /\ fs' = [fs EXCEPT ![op.path] = File(Blank)]
    BY <1>5 DEF Fail, FilesTell
  <2>2. QED
    BY <1>1, <1>2, <1>5, <2>1, PutStep, FilesAssumption
<1>6. QED
  BY <1>3, <1>4, <1>5 DEF Write

LEMMA ArchiveStep ==
  ASSUME FilesInv, Archive
  PROVE  FilesInv'
<1>1. pc = "file" /\ op.name = "archive" /\ op.path \in Path /\ fs \in Trees
  BY DEF Archive, Does, FilesInv, OpTyped
<1>2. op.path \in Concerned
  BY <1>1, PrefixSelf DEF Concerned, Below
<1>3. CASE Fail(fs)
  BY <1>1, <1>3, FailStep
<1>4. ASSUME IsFile(op.path) \/ (~Exists(op.path) /\ Reachable(op.path)), 
             NEW what, FilesTell(what), fs' = [fs EXCEPT ![op.path] = File(Tarball)], UNCHANGED io
      PROVE  FilesInv'
  <2>1. pc' = "prompt" /\ UNCHANGED <<op, before, io>>
    BY <1>4 DEF FilesTell
  <2>2. fs'[op.path].is = Tarball
    <3>1. fs'[op.path] = File(Tarball)
      BY <1>1, <1>4 DEF Trees
    <3>2. QED
      BY <3>1 DEF File
  <2>3. Achieved'
    BY <1>1, <2>1, <2>2 DEF Achieved, Held
  <2>4. QED
    BY <1>1, <1>2, <1>4, <2>1, <2>3, PutStep, FilesAssumption
<1>5. QED
  BY <1>3, <1>4 DEF Archive, Succeed, Fail

\* What is removed is below the path that was given.
LEMMA RemoveStep ==
  ASSUME FilesInv, pc # "prompt", op.name = "delete", NEW some \in SUBSET Below(op.path),
         \A q \in some : Below(q) \subseteq some, pc' = "prompt", UNCHANGED <<op, before, io>>,
         fs' = Without(fs, some), told' = "done" => some = Below(op.path)
  PROVE  FilesInv'
<1>1. op.path \in Path /\ fs \in Trees /\ IsTree(fs) /\ some \in SUBSET Path /\ Below(op.path) \subseteq Path
  BY DEF FilesInv, OpTyped, Below
<1>2. fs' \in Trees /\ IsTree(fs')
  BY <1>1, WithoutTree
<1>3. \A q \in Path : fs'[q].is = IF q \in some THEN "nothing" ELSE fs[q].is
  BY <1>1 DEF Without, Nothing
<1>4. Concerned = Below(op.path)
  BY DEF Concerned
<1>5. told' = "done" => Achieved'
  <2> SUFFICES ASSUME told' = "done" PROVE Achieved'
    OBVIOUS
  <2>1. \A q \in Below(op.path) : fs'[q].is = "nothing"
    BY <1>1, <1>3
  <2>2. op' = op /\ (\A q \in Below(op.path) : ~Exists(q))'
    BY <2>1 DEF Exists, Below
  <2>3. QED
    BY <2>2 DEF Achieved
<1>6. QED
  BY <1>1, <1>2, <1>3, <1>4, <1>5, EndStep

LEMMA DeleteStep ==
  ASSUME FilesInv, Delete
  PROVE  FilesInv'
<1>1. pc = "file" /\ op.name = "delete" /\ op.path \in Path /\ fs \in Trees /\ IsTree(fs)
  BY DEF Delete, Does, FilesInv, OpTyped
<1>2. CASE Fail(fs)
  BY <1>1, <1>2, FailStep
<1>3. CASE ~Exists(op.path) /\ Succeed(fs)
  <2>1. pc' = "prompt" /\ UNCHANGED <<op, before, io>> /\ fs' = fs
    BY <1>3 DEF Succeed, FilesTell
  <2>2. \A q \in Below(op.path) : fs[q].is = "nothing"
    BY <1>1, <1>3, Ancestors DEF Below, Exists
  <2>3. op' = op /\ (\A q \in Below(op.path) : ~Exists(q))'
    BY <2>1, <2>2 DEF Exists, Below
  <2>4. Achieved'
    BY <1>1, <2>3 DEF Achieved
  <2>5. QED
    BY <1>1, <2>1, <2>4, EndStep
<1>4. CASE Succeed(Without(fs, Below(op.path)))
  <2>1. pc' = "prompt" /\ UNCHANGED <<op, before, io>> /\ fs' = Without(fs, Below(op.path))
    BY <1>4 DEF Succeed, FilesTell
  <2>2. \A q \in Below(op.path) : Below(q) \subseteq Below(op.path)
    <3>1. ASSUME NEW q \in Below(op.path), NEW r \in Below(q) PROVE r \in Below(op.path)
      <4>1. op.path \in Seq(Segment) /\ q \in Seq(Segment) /\ r \in Seq(Segment) /\ r \in Path
        BY <1>1, <3>1, PathFacts DEF Below
      <4>2. IsPrefix(op.path, q) /\ IsPrefix(q, r)
        BY <3>1 DEF Below
      <4>3. QED
        BY <4>1, <4>2, PrefixOfPrefix DEF Below
    <3>2. QED
      BY <3>1
  <2>3. QED
    BY <1>1, <2>1, <2>2, RemoveStep
<1>5. ASSUME NEW some \in SUBSET Below(op.path), \A q \in some : Below(q) \subseteq some,
             Fail(Without(fs, some))
      PROVE  FilesInv'
  <2>1. pc' = "prompt" /\ told' = "failed" /\ UNCHANGED <<op, before, io>> /\ fs' = Without(fs, some)
    BY <1>5 DEF Fail, FilesTell
  <2>2. QED
    BY <1>1, <1>5, <2>1, RemoveStep
<1>6. QED
  BY <1>2, <1>3, <1>4, <1>5 DEF Delete

LEMMA MakeFolderStep ==
  ASSUME FilesInv, MakeFolder
  PROVE  FilesInv'
<1>1. pc = "file" /\ op.name = "mkdir" /\ op.path \in Path /\ fs \in Trees /\ IsTree(fs)
  BY DEF MakeFolder, Does, FilesInv, OpTyped
<1>2. CASE Fail(fs)
  BY <1>1, <1>2, FailStep
<1> DEFINE missing == {q \in Path : IsPrefix(q, op.path) /\ ~Exists(q)}
           Made(some) == [q \in Path |-> IF q \in some THEN Folder ELSE fs[q]]
<1>3. ASSUME \A q \in Path : IsPrefix(q, op.path) => q \in missing \/ IsFolder(q),
             NEW some \in SUBSET missing, \A q \in some : Front(q) \notin missing \ some,
             Fail(Made(some)) \/ (some = missing /\ Succeed(Made(some)))
      PROVE  FilesInv'
  <2>1. /\ pc' = "prompt" /\ UNCHANGED <<op, before, io>> /\ fs' = Made(some)
        /\ told' = "done" => some = missing
    <3>1. CASE Fail(Made(some))
      BY <3>1 DEF Fail, FilesTell
    <3>2. CASE some = missing /\ Succeed(Made(some))
      BY <3>2 DEF Succeed, FilesTell
    <3>3. QED
      BY <1>3, <3>1, <3>2
  <2>2. missing = {q \in Path : IsPrefix(q, op.path) /\ fs[q].is = "nothing"}
    BY DEF Exists
  <2>3. \A q \in Path : IsPrefix(q, op.path) => q \in missing \/ fs[q].is = "folder"
    BY <1>3, NotEmpty
  <2> HIDE DEF missing
  <2>4. fs' \in Trees /\ IsTree(fs')
    <3>1. Made(some) \in Trees /\ IsTree(Made(some))
      <4>1. \A q \in some : Front(q) \notin missing \ some
        BY <1>3
      <4>2. fs \in Trees /\ IsTree(fs) /\ op.path \in Path
        BY <1>1
      <4>3. QED
        BY SMTT(30), <2>2, <2>3, <4>1, <4>2, MadeTree
    <3>2. QED
      BY <3>1, <2>1
  <2>5. \A p \in Path \ Concerned : fs'[p].is = fs[p].is
    <3>1. \A p \in Path \ Concerned : p \notin some
      BY <1>1, <1>3, <2>2 DEF Concerned
    <3>2. QED
      BY <2>1, <3>1
  <2>6. ASSUME told' = "done" PROVE Achieved'
    <3>1. fs'[op.path].is = "folder"
      <4>1. op.path \in some \/ fs[op.path].is = "folder"
        BY <1>1, <2>1, <2>3, <2>6, PrefixSelf
      <4>2. QED
        BY <1>1, <2>1, <4>1 DEF Folder
    <3>2. IsFolder(op.path)' /\ op' = op
      BY <2>1, <3>1 DEF IsFolder
    <3>3. QED
      BY <1>1, <3>2 DEF Achieved
  <2>7. QED
    BY <1>1, <2>1, <2>4, <2>5, <2>6, EndStep
<1>4. QED
  BY <1>2, <1>3 DEF MakeFolder

LEMMA ChangeModeStep ==
  ASSUME FilesInv, ChangeMode
  PROVE  FilesInv'
<1>1. pc = "file" /\ op.path \in Path /\ fs \in Trees /\ IsTree(fs)
  BY DEF ChangeMode, Does, FilesInv, OpTyped
<1>2. CASE Fail(fs)
  BY <1>1, <1>2, FailStep
<1>3. ASSUME NEW ro \in BOOLEAN, op.name = IF ro THEN "chmod -w" ELSE "chmod +w",
             Succeed([fs EXCEPT ![op.path].ro = ro])
      PROVE  FilesInv'
  <2>1. pc' = "prompt" /\ UNCHANGED <<op, before, io>> /\ fs' = [fs EXCEPT ![op.path].ro = ro]
    BY <1>3 DEF Succeed, FilesTell
  <2>2. fs' \in Trees /\ \A q \in Path : fs'[q].is = fs[q].is
    BY <1>1, <2>1 DEF Trees
  <2>3. IsTree(fs')
    BY <1>1, <2>2, FrontOfPath DEF IsTree
  <2>4. Achieved'
    <3>1. fs'[op.path].ro = ro /\ op' = op
      BY <1>1, <2>1 DEF Trees
    <3>2. CASE ro
      BY <1>3, <3>1, <3>2 DEF Achieved
    <3>3. CASE ~ro
      BY <1>3, <3>1, <3>3 DEF Achieved
    <3>4. QED
      BY <3>2, <3>3
  <2>5. QED
    BY <1>1, <2>1, <2>2, <2>3, <2>4, EndStep
<1>4. QED
  BY <1>2, <1>3 DEF ChangeMode, Does

LEMMA InspectStep ==
  ASSUME FilesInv, Inspect
  PROVE  FilesInv'
<1>1. pc = "file" /\ op.name = "inspect" /\ fs \in Trees /\ IsTree(fs)
  BY DEF Inspect, Does, FilesInv
<1>2. CASE Fail(fs)
  BY <1>1, <1>2, FailStep
<1>3. CASE Exists(op.path) /\ Succeed(fs)
  <2>1. pc' = "prompt" /\ UNCHANGED <<op, before, io>> /\ fs' = fs
    BY <1>3 DEF Succeed, FilesTell
  <2>2. Achieved'
    <3>1. Exists(op.path)' /\ op' = op
      BY <1>3, <2>1 DEF Exists
    <3>2. QED
      BY <1>1, <3>1 DEF Achieved
  <2>3. QED
    BY <1>1, <2>1, <2>2, EndStep
<1>4. QED
  BY <1>2, <1>3 DEF Inspect

\* The target is the destination or in it.
LEMMA TargetInDest ==
  ASSUME op.path \in Path, op.dest \in Path, Target \in Path
  PROVE  /\ IsPrefix(op.dest, Target)
         /\ Target = IF op.dest # <<>> /\ fs[op.dest].is = "folder"
                     THEN Append(op.dest, Last(op.path)) ELSE op.dest
<1>1. op.dest # <<>> /\ (IsFolder(op.dest) <=> fs[op.dest].is = "folder")
  BY NotEmpty
<1>2. CASE IsFolder(op.dest)
  <2> DEFINE d == op.dest
             x == Last(op.path)
             n == Len(op.path)
  <2>1. d \in Seq(Segment) /\ Len(d) \in Nat /\ op.path \in Seq(Segment) /\ n \in Nat /\ n > 0
    BY PathFacts
  <2>2. x \in Segment
    <3>1. n \in 1..n
      <4> HIDE DEF n
      <4>1. QED
        BY <2>1
    <3>2. QED
      BY <2>1, <3>1, ElementOfSeq DEF Last
  <2>3. Target = Append(d, x)
    BY <1>2 DEF Target
  <2> HIDE DEF d, x
  <2>4. /\ Append(d, x) \in Seq(Segment) /\ Len(Append(d, x)) = Len(d) + 1
        /\ \A i \in 1..Len(d) : Append(d, x)[i] = d[i]
    BY <2>1, <2>2, AppendProperties
  <2>5. IsPrefix(d, Append(d, x))
    <3>1. Len(d) <= Len(Append(d, x)) /\ \A i \in 1..Len(d) : d[i] = Append(d, x)[i]
      BY <2>1, <2>4
    <3>2. QED
      BY <2>1, <2>4, <3>1, PrefixElements
  <2>6. QED
    BY <1>1, <1>2, <2>3, <2>5 DEF d, x
<1>3. CASE ~IsFolder(op.dest)
  BY <1>1, <1>3, PrefixSelf DEF Target
<1>4. QED
  BY <1>2, <1>3

\* What a move or a copy has to achieve.
LEMMA PutThere ==
  ASSUME FilesInv, pc = "file", op.name \in {"move", "copy"}, UNCHANGED <<op, before>>, Target \in Path,
         \A q \in Below(op.path) : fs[q].is # "nothing" =>
            fs'[Instead(op.path, Target, q)].is = fs[q].is,
         op.name = "move" => \A q \in Below(op.path) : fs'[q].is = "nothing"
  PROVE  Achieved'
<1>1. op' = op /\ before' = before /\ before = fs /\ op.path \in Path /\ op.dest \in Path
  BY DEF FilesInv, OpTyped
<1>2. Meant' = Target
  BY <1>1, TargetInDest DEF Meant, Held
<1>3. \A q \in Below(op.path) : before[q].is # "nothing" =>
         fs'[Meant' \o SubSeq(q, Len(op.path) + 1, Len(q))].is = before[q].is
  BY <1>1, <1>2 DEF Instead
<1>4. op.name = "move" => (\A q \in Below(op.path) : ~Exists(q))'
  BY <1>1 DEF Exists, Below
<1>5. Below(op.path)' = Below(op.path)
  BY <1>1 DEF Below
<1>6. QED
  BY <1>1, <1>3, <1>4, <1>5 DEF Achieved, Held

LEMMA MoveStep ==
  ASSUME FilesInv, Move
  PROVE  FilesInv'
<1>1. /\ pc = "file" /\ op.name = "move" /\ op.path \in Path /\ op.dest \in Path
      /\ fs \in Trees /\ IsTree(fs)
  BY DEF Move, Does, FilesInv, OpTyped
<1>2. CASE Fail(fs)
  BY <1>1, <1>2, FailStep
<1>3. CASE Asks /\ Succeed(fs)
  <2>1. /\ pc' = "prompt" /\ UNCHANGED <<op, before, io>> /\ fs' = fs /\ before = fs
        /\ Target \in Path /\ fs[Target].ro
    BY <1>1, <1>3 DEF Asks, Succeed, FilesTell, FilesInv
  <2>2. Meant' = Target
    BY <1>1, <2>1, TargetInDest DEF Meant, Held
  <2>3. Declined'
    BY <1>1, <2>1, <2>2 DEF Declined
  <2>4. QED
    BY <1>1, <2>1, <2>3, EndStep
<1>4. ASSUME Movable(Target), Reachable(op.path),
             IsFolder(Target) => \A q \in Below(Target) \ {Target} : ~Exists(q),
             Succeed(Moved(Target))
      PROVE  FilesInv'
  <2> DEFINE p == op.path
             t == Target
  <2>1. pc' = "prompt" /\ told' = "done" /\ UNCHANGED <<op, before, io>> /\ fs' = Moved(t)
    BY <1>4 DEF Succeed, FilesTell
  <2>2. /\ Exists(p) /\ t \in Path /\ ~IsPrefix(p, t)
        /\ \A q \in Below(p) : Exists(q) => Instead(p, t, q) \in Path
    BY <1>4 DEF Movable
  <2>3. Front(t) = <<>> \/ fs[Front(t)].is = "folder"
    BY <1>4, ReachableFront DEF Movable
  <2>4. ~IsPrefix(t, p)
    <3> SUFFICES ASSUME IsPrefix(t, p) PROVE FALSE
      OBVIOUS
    <3>1. t # p
      BY <1>1, <2>2, PrefixSelf
    <3>2. fs[t].is = "folder"
      BY <1>1, <2>2, <3>1, Ancestors DEF Exists
    <3>3. IsFolder(t) /\ p \in Below(t) \ {t}
      BY <1>1, <2>2, <3>1, <3>2, NotEmpty DEF Below
    <3>4. QED
      BY <1>4, <2>2, <3>3
  <2>5. fs' \in Trees /\ IsTree(fs')
    BY <1>1, <2>1, <2>2, <2>3, <2>4, MovedTree
  <2>6. \A q \in Path : fs'[q] = IF IsPrefix(t, q) /\ Instead(t, p, q) \in Path
                                 THEN fs[Instead(t, p, q)]
                                 ELSE IF IsPrefix(p, q) \/ IsPrefix(t, q) THEN Nothing ELSE fs[q]
    BY <2>1 DEF Moved
  <2>7. \A q \in Path : ~(IsPrefix(p, q) /\ IsPrefix(t, q))
    BY <1>1, <2>2, <2>4, NoCommonBelow
  <2>8. \A q \in Below(p) : fs'[q].is = "nothing"
    BY <2>6, <2>7 DEF Below, Nothing
  <2>9. ASSUME NEW q \in Below(p), fs[q].is # "nothing"
        PROVE  fs'[Instead(p, t, q)].is = fs[q].is
    <3>1. q \in Path /\ IsPrefix(p, q) /\ Instead(p, t, q) \in Path
      BY <2>2, <2>9 DEF Below, Exists
    <3>2. IsPrefix(t, Instead(p, t, q)) /\ Instead(t, p, Instead(p, t, q)) = q
      BY <1>1, <2>2, <3>1, InsteadPath
    <3>3. QED
      BY <2>6, <3>1, <3>2
  <2>10. Achieved'
    BY <1>1, <2>1, <2>2, <2>8, <2>9, PutThere
  <2>11. ASSUME NEW q \in Path \ Concerned PROVE fs'[q].is = fs[q].is
    <3>1. ~IsPrefix(p, q) /\ ~IsPrefix(op.dest, q)
      BY <1>1, <2>11 DEF Concerned, Below
    <3>2. ~IsPrefix(t, q)
      <4>1. IsPrefix(op.dest, t)
        BY <1>1, <2>2, TargetInDest
      <4>2. op.dest \in Seq(Segment) /\ t \in Seq(Segment) /\ q \in Seq(Segment)
        BY <1>1, <2>2, PathFacts
      <4>3. QED
        BY <3>1, <4>1, <4>2, PrefixOfPrefix
    <3>3. QED
      BY <2>6, <3>1, <3>2
  <2>12. QED
    BY <1>1, <2>1, <2>5, <2>10, <2>11, EndStep
<1>5. QED
  BY <1>2, <1>4, <1>3 DEF Move

LEMMA CopyStep ==
  ASSUME FilesInv, Copy
  PROVE  FilesInv'
<1>1. /\ pc = "file" /\ op.name = "copy" /\ op.path \in Path /\ op.dest \in Path
      /\ fs \in Trees /\ IsTree(fs)
  BY DEF Copy, Does, FilesInv, OpTyped
<1>2. CASE Fail(fs)
  BY <1>1, <1>2, FailStep
<1> DEFINE p == op.path
           t == Target
           all == {q \in Below(p) : Exists(q)}
<1>3. ASSUME Movable(t), ~IsPrefix(t, p), NEW tree \in SUBSET {q \in all : Copyable(q)},
             \A q \in tree : q = p \/ Front(q) \in tree, NEW cut \in SUBSET {q \in tree : IsFile(q)},
             NEW what, FilesTell(what), fs' = Copied(p, t, tree, cut), UNCHANGED io,
             what = "done" => tree = all /\ cut = {}
      PROVE  FilesInv'
  <2>1. pc' = "prompt" /\ told' = what /\ UNCHANGED <<op, before, io>> /\ fs' = Copied(p, t, tree, cut)
    BY <1>3 DEF FilesTell
  <2>2. t \in Path /\ \A q \in Below(p) : Exists(q) => Instead(p, t, q) \in Path
    BY <1>3 DEF Movable
  <2>3. Front(t) = <<>> \/ fs[Front(t)].is = "folder"
    BY <1>3, ReachableFront DEF Movable
  <2>4. fs' \in Trees /\ IsTree(fs')
    <3>1. tree \in SUBSET all /\ \A q \in tree : Copyable(q)
      BY <1>3
    <3>2. QED
      BY <1>1, <1>3, <2>1, <2>2, <2>3, <3>1, CopiedTree
  <2>5. \A q \in Path : ~IsPrefix(t, q) => fs'[q] = fs[q]
    BY <2>1 DEF Copied
  <2>6. ASSUME what = "done", NEW q \in Below(p), fs[q].is # "nothing"
        PROVE  fs'[Instead(p, t, q)].is = fs[q].is
    <3>1. q \in Path /\ IsPrefix(p, q) /\ Instead(p, t, q) \in Path /\ q \in all
      BY <2>2, <2>6 DEF Below, Exists
    <3> DEFINE r == Instead(p, t, q)
    <3>2. IsPrefix(t, r) /\ Instead(t, p, r) = q
      BY <1>1, <2>2, <3>1, InsteadPath
    <3> HIDE DEF p, t, r
    <3>3. fs'[r] = [is |-> IF q \in cut THEN Blank ELSE fs[q].is,
                    ro |-> IF Exists(r) THEN fs[r].ro ELSE fs[q].ro]
      BY <1>3, <2>6, <3>1, <3>2 DEF Copied, r
    <3>4. q \notin cut
      BY <1>3, <2>6
    <3>5. QED
      BY <3>3, <3>4 DEF r
  <2>7. told' = "done" => Achieved'
    BY <1>1, <2>1, <2>2, <2>6, PutThere
  <2>8. ASSUME NEW q \in Path \ Concerned PROVE fs'[q].is = fs[q].is
    <3>1. ~IsPrefix(op.dest, q)
      BY <1>1, <2>8 DEF Concerned, Below
    <3>2. ~IsPrefix(t, q)
      <4>1. IsPrefix(op.dest, t)
        BY <1>1, <2>2, TargetInDest
      <4>2. op.dest \in Seq(Segment) /\ t \in Seq(Segment) /\ q \in Seq(Segment)
        BY <1>1, <2>2, PathFacts
      <4>3. QED
        BY <3>1, <4>1, <4>2, PrefixOfPrefix
    <3>3. QED
      BY <2>5, <3>2
  <2>9. QED
    BY <1>1, <2>1, <2>4, <2>7, <2>8, EndStep
<1>4. ASSUME Movable(t), ~IsPrefix(t, p), NEW tree \in SUBSET {q \in all : Copyable(q)},
             \A q \in tree : q = p \/ Front(q) \in tree,
             \/ tree = all /\ Succeed(Copied(p, t, tree, {}))
             \/ \E cut \in SUBSET {q \in tree : IsFile(q)} : Fail(Copied(p, t, tree, cut))
      PROVE  FilesInv'
  <2> HIDE DEF all
  <2>1. CASE tree = all /\ Succeed(Copied(p, t, tree, {}))
    BY <1>3, <1>4, <2>1 DEF Succeed
  <2>2. CASE \E cut \in SUBSET {q \in tree : IsFile(q)} : Fail(Copied(p, t, tree, cut))
    BY <1>3, <1>4, <2>2 DEF Fail
  <2>3. QED
    BY <1>4, <2>1, <2>2
<1>5. QED
  BY <1>2, <1>4 DEF Copy

\* The operation goes on.
LEMMA GoOnStep ==
  ASSUME FilesInv, pc # "prompt", pc' \in {"file.read", "file.wait"}, UNCHANGED <<fs, op, before>>,
         io' \in [left : Nat, piped : 0..Pipe, total : 0..Buffer], ReadInv'
  PROVE  FilesInv'
<1>1. SuccessMeansDone'
  BY DEF SuccessMeansDone
<1>2. OpTyped'
  BY DEF FilesInv, OpTyped
<1>3. QED
  BY <1>1, <1>2 DEF FilesInv

LEMMA FilesBeginStep ==
  ASSUME FilesInv, FilesStart
  PROVE  FilesInv'
<1>1. ASSUME NEW name, NEW path \in Path, NEW dest \in Path \union {<<>>}, NEW data \in Data,
             name \in {"move", "copy", "archive"} => dest \in Path, FilesBegin(name, path, dest, data)
      PROVE  FilesInv'
  <2>1. /\ pc' = "file" /\ fs' = fs /\ before' = fs /\ io' = NoRead
        /\ op' = [name |-> name, path |-> path, dest |-> dest, data |-> data]
    BY <1>1 DEF FilesBegin
  <2>2. OpTyped'
    BY <1>1, <2>1 DEF OpTyped
  <2>3. io' \in [left : Nat, piped : 0..Pipe, total : 0..Buffer]
    BY <2>1, FilesAssumption DEF NoRead
  <2>4. SuccessMeansDone' /\ ReadInv'
    BY <2>1 DEF SuccessMeansDone, ReadInv
  <2>5. QED
    BY <2>1, <2>2, <2>3, <2>4 DEF FilesInv
<1>2. Blank \in Data
  BY FilesAssumption
<1>3. QED
  BY <1>1, <1>2 DEF FilesStart

LEMMA FilesPauseStep ==
  ASSUME FilesInv, FilesPause
  PROVE  FilesInv'
<1>1. pc' = "prompt" /\ told' = "nothing" /\ fs' = fs /\ before' = fs /\ io' = NoRead
  BY DEF FilesPause
<1>2. io' \in [left : Nat, piped : 0..Pipe, total : 0..Buffer]
  BY <1>1, FilesAssumption DEF NoRead
<1>3. SuccessMeansDone' /\ ReadInv'
  BY <1>1 DEF SuccessMeansDone, ReadInv, Held
<1>4. QED
  BY <1>1, <1>2, <1>3 DEF FilesInv

LEMMA ReadStartsStep ==
  ASSUME FilesInv, ReadStarts
  PROVE  FilesInv'
<1>1. /\ pc = "file" /\ op.name = "read" /\ op.path \in Path /\ fs \in Trees /\ IsTree(fs)
      /\ UNCHANGED <<fs, op, before>> /\ before = fs
  BY DEF ReadStarts, FilesInv, OpTyped
<1>2. ASSUME IsFile(op.path), pc' = "file.read",
             NEW d \in IF Misread THEN Data ELSE {fs[op.path].is},
             io' = [NoRead EXCEPT !.left = Size[d]]
      PROVE  FilesInv'
  <2>1. fs[op.path].is \in Data
    <3>1. fs[op.path].is \in Kind
      BY <1>1 DEF Trees
    <3>2. fs[op.path].is # "nothing" /\ fs[op.path].is # "folder"
      BY <1>1, <1>2, NotEmpty DEF IsFile, Exists
    <3>3. QED
      BY <3>1, <3>2 DEF Kind
  <2>2. io' = [left |-> Size[d], piped |-> 0, total |-> 0] /\ Size[d] \in Nat
    BY <1>2, <2>1, FilesAssumption DEF NoRead
  <2>3. io' \in [left : Nat, piped : 0..Pipe, total : 0..Buffer]
    BY <2>2, FilesAssumption
  <2>4. ReadInv'
    <3>1. io'.total < Buffer /\ io'.left + io'.piped + io'.total = Size[d]
      BY <2>2, FilesAssumption
    <3>2. IsFile(op.path)' /\ Misread' = Misread
      BY <1>1, <1>2, SameMisread DEF IsFile, Exists, IsFolder
    <3>3. Misread' \/ io'.left + io'.piped + io'.total = Size[fs[op.path].is]
      BY <1>2, <3>1, <3>2
    <3>4. QED
      BY <1>1, <1>2, <3>1, <3>2, <3>3 DEF ReadInv
  <2>5. QED
    BY <1>1, <1>2, <2>3, <2>4, GoOnStep
<1>3. CASE pc' = "prompt" /\ told' = "failed" /\ io' = NoRead
  <2>1. io' \in [left : Nat, piped : 0..Pipe, total : 0..Buffer]
    BY <1>3, FilesAssumption DEF NoRead
  <2>2. SuccessMeansDone' /\ ReadInv'
    BY <1>1, <1>3 DEF SuccessMeansDone, ReadInv
  <2>3. QED
    BY <1>1, <1>3, <2>1, <2>2 DEF FilesInv
<1>4. QED
  BY <1>2, <1>3 DEF ReadStarts

\* Bytes move from the file to the pipe, or from the pipe to the buffer.
LEMMA MoveBytesStep ==
  ASSUME FilesInv, pc = "file.read", pc' = pc, UNCHANGED <<fs, op, before>>,
         NEW l \in Nat, NEW q \in 0..Pipe, NEW t \in 0..Buffer, t < Buffer,
         io' = [io EXCEPT !.left = l, !.piped = q, !.total = t],
         l + q + t = io.left + io.piped + io.total
  PROVE  FilesInv'
<1>1. io \in [left : Nat, piped : 0..Pipe, total : 0..Buffer] /\ ReadInv
  BY DEF FilesInv
<1>2. io' = [left |-> l, piped |-> q, total |-> t]
  BY <1>1
<1>3. io' \in [left : Nat, piped : 0..Pipe, total : 0..Buffer]
  BY <1>2
<1>4. ReadInv'
  <2>1. /\ op.name = "read" /\ IsFile(op.path) /\ io'.total < Buffer
        /\ Misread \/ io'.left + io'.piped + io'.total = Size[fs[op.path].is]
    BY <1>1, <1>2 DEF ReadInv
  <2>2. IsFile(op.path)'
    BY <2>1 DEF IsFile, Exists, IsFolder
  <2>3. Misread' = Misread
    BY SameMisread
  <2>4. QED
    BY <2>1, <2>2, <2>3 DEF ReadInv
<1>5. QED
  BY <1>3, <1>4, GoOnStep

LEMMA CatWritesStep ==
  ASSUME FilesInv, NEW k \in 1..Pipe, CatWrites(k)
  PROVE  FilesInv'
<1> DEFINE l == io.left
           q == io.piped
           t == io.total
<1>1. l \in Nat /\ q \in 0..Pipe /\ t \in 0..Buffer /\ t < Buffer /\ pc = "file.read" /\ Pipe \in Nat
  BY FilesAssumption DEF FilesInv, ReadInv, CatWrites
<1>2. /\ k <= l /\ q + k <= Pipe /\ pc' = pc /\ UNCHANGED <<fs, op, before>>
      /\ io' = [io EXCEPT !.left = l - k, !.piped = q + k, !.total = t]
  BY DEF CatWrites, FilesInv
<1> HIDE DEF l, q, t
<1>3. l - k \in Nat /\ q + k \in 0..Pipe /\ (l - k) + (q + k) + t = l + q + t
  BY <1>1, <1>2
<1>4. QED
  BY <1>1, <1>2, <1>3, MoveBytesStep DEF l, q, t

LEMMA ReadsStep ==
  ASSUME FilesInv, NEW k \in 1..Buffer, Reads(k)
  PROVE  FilesInv'
<1> DEFINE l == io.left
           q == io.piped
           t == io.total
<1>1. l \in Nat /\ q \in 0..Pipe /\ t \in 0..Buffer /\ t < Buffer /\ pc = "file.read" /\ Pipe \in Nat
      /\ Buffer \in Nat
  BY FilesAssumption DEF FilesInv, ReadInv, Reads
<1>2. /\ k <= q /\ k <= Buffer - t - 1 /\ pc' = pc /\ UNCHANGED <<fs, op, before>>
      /\ io' = [io EXCEPT !.left = l, !.piped = q - k, !.total = t + k]
  BY DEF Reads, Room, FilesInv
<1> HIDE DEF l, q, t
<1>3. q - k \in 0..Pipe /\ t + k \in 0..Buffer /\ t + k < Buffer /\ l + (q - k) + (t + k) = l + q + t
  BY <1>1, <1>2
<1>4. QED
  BY <1>1, <1>2, <1>3, MoveBytesStep DEF l, q, t

LEMMA ReadEndsStep ==
  ASSUME FilesInv, ReadEnds
  PROVE  FilesInv'
<1>1. /\ pc = "file.read" /\ pc' = "file.wait" /\ UNCHANGED <<fs, op, before, io>>
      /\ Room = 0 \/ (io.left = 0 /\ io.piped = 0)
  BY DEF ReadEnds
<1>2. io \in [left : Nat, piped : 0..Pipe, total : 0..Buffer] /\ ReadInv
  BY DEF FilesInv
<1>3. ReadInv'
  BY <1>1, <1>2, SameMisread DEF ReadInv, IsFile, Exists, IsFolder, Room
<1>4. QED
  BY <1>1, <1>2, <1>3, GoOnStep

\* cat has written all of the file when it ends well: what was read is the file,
\* or its beginning.
LEMMA CatEndsStep ==
  ASSUME FilesInv, CatEnds
  PROVE  FilesInv'
<1>1. /\ pc = "file.wait" /\ pc' = "prompt" /\ UNCHANGED <<fs, op, before, io>>
      /\ told' = IF io.left = 0 THEN "done" ELSE "failed"
  BY DEF CatEnds, FilesTell
<1>2. ReadInv /\ io \in [left : Nat, piped : 0..Pipe, total : 0..Buffer]
  BY DEF FilesInv
<1>3. ASSUME told' = "done", ~Misread PROVE Achieved'
  <2> DEFINE l == io.left
             q == io.piped
             t == io.total
             size == Size[fs[op.path].is]
  <2>1. /\ l = 0 /\ q \in Nat /\ t \in Nat /\ Buffer \in Nat /\ t < Buffer /\ l + q + t = size
        /\ Buffer - t - 1 = 0 \/ (l = 0 /\ q = 0)
    BY <1>1, <1>2, <1>3, FilesAssumption DEF ReadInv, Room
  <2> HIDE DEF l, q, t, size
  <2>2. t = IF size < Buffer THEN size ELSE Buffer - 1
    BY <2>1
  <2>3. io.total = IF Size[Held(fs, op.path)] < Buffer THEN Size[Held(fs, op.path)] ELSE Buffer - 1
    BY <2>2 DEF t, size, Held
  <2>4. op.name = "read"
    BY <1>1, <1>2 DEF ReadInv
  <2>5. Held(fs, op.path)' = Held(fs, op.path) /\ op' = op /\ io' = io
    BY <1>1 DEF Held
  <2>6. (io.total = IF Size[Held(fs, op.path)] < Buffer THEN Size[Held(fs, op.path)] ELSE Buffer - 1)'
    BY <2>3, <2>5
  <2>7. QED
    BY <2>4, <2>5, <2>6 DEF Achieved
<1>4. QED
  BY <1>1, <1>3, SameMisread, EndStep DEF FilesInv

LEMMA FilesInvStep == FilesInv /\ [FilesNext]_filesVars => FilesInv'
<1> SUFFICES ASSUME FilesInv, [FilesNext]_filesVars PROVE FilesInv'
  OBVIOUS
<1>1. CASE UNCHANGED filesVars
  <2>1. UNCHANGED <<pc, told, fs, op, before, io>>
    BY <1>1 DEF filesVars
  <2>2. ReadInv' /\ SuccessMeansDone' /\ OpTyped' = OpTyped
    <3>1. ReadInv'
      BY <2>1, SameMisread DEF FilesInv, ReadInv, IsFile, Exists, IsFolder, Room
    <3>2. SuccessMeansDone'
      BY <2>1, SameMisread
         DEF FilesInv, SuccessMeansDone, Declined, Achieved, Meant, Concerned, Held, Below, Exists, IsFolder
    <3>3. OpTyped' = OpTyped
      BY <2>1 DEF OpTyped
    <3>4. QED
      BY <3>1, <3>2, <3>3
  <2>3. QED
    BY <2>1, <2>2 DEF FilesInv
<1>2. CASE FilesStart
  BY <1>2, FilesBeginStep
<1>3. CASE FilesCommands
  BY <1>3, MisledStep, CreateStep, WriteStep, DeleteStep, MoveStep, CopyStep, MakeFolderStep, ChangeModeStep,
     InspectStep, ArchiveStep, ReadStartsStep, ReadEndsStep, CatEndsStep, ReadsStep, CatWritesStep
     DEF FilesCommands
<1>4. QED
  BY <1>1, <1>2, <1>3, FilesPauseStep DEF FilesNext

LEMMA FilesInvariant == FilesSpec => []FilesInv
BY FilesInvInit, FilesInvStep, PTL DEF FilesSpec

\* The variables of the file manager have their types, and whatever exists is in
\* a directory, whichever program fails half-way.
THEOREM FilesTyped == FilesSpec => []FilesTypeOK
<1>1. FilesInv => FilesTypeOK
  <2> SUFFICES ASSUME FilesInv PROVE FilesTypeOK
    OBVIOUS
  <2>1. fs \in Trees /\ IsTree(fs) /\ io \in [left : Nat, piped : 0..Pipe, total : 0..Buffer]
    BY DEF FilesInv
  <2>2. ASSUME NEW p \in Path, Exists(p) PROVE IsFolder(Front(p))
    BY <2>1, <2>2 DEF IsTree, Exists, IsFolder
  <2>3. \A p \in Path : fs[p].is \in {"nothing", "folder"} \union Data /\ fs[p].ro \in BOOLEAN
    BY <2>1 DEF Trees, Kind
  <2>4. io.left \in Nat /\ io.piped \in 0..Pipe /\ io.total \in 0..Buffer
    BY <2>1
  <2>5. QED
    BY <2>2, <2>3, <2>4 DEF FilesTypeOK
<1>2. QED
  BY FilesInvariant, <1>1, PTL

\* An operation that reports success has done what it is named for, and whatever
\* it reports, what it is not about is as it was (file_mgr_*, shell/file.sh).
THEOREM SuccessIsDone == FilesSpec => []SuccessMeansDone
<1>1. FilesInv => SuccessMeansDone
  BY DEF FilesInv
<1>2. QED
  BY FilesInvariant, <1>1, PTL

-----------------------------------------------------------------------------
(* Loops.  A function that a definition computes step by step, from 0 to n,  *)
(* exists.                                                                   *)

Computes(g, base, step, n) == g[0] = base /\ \A i \in 1..n : g[i] = step[<<g[i - 1], i>>]

LEMMA Recursion ==
  ASSUME NEW S, NEW base \in S, NEW n \in Nat, NEW step \in [S \X (1..n) -> S]
  PROVE  \E g \in [0..n -> S] : Computes(g, base, step, n)
<1> DEFINE Good == {m \in 0..n : \E g \in [0..n -> S] : Computes(g, base, step, m)}
<1>1. 0 \in Good
  <2> DEFINE f == [i \in 0..n |-> base]
  <2>1. f \in [0..n -> S] /\ Computes(f, base, step, 0)
    BY DEF Computes
  <2> HIDE DEF f
  <2>2. QED
    BY <2>1
<1>2. ASSUME NEW i \in 1..n, i - 1 \in Good PROVE i \in Good
  <2>1. PICK g \in [0..n -> S] : Computes(g, base, step, i - 1)
    BY <1>2
  <2> DEFINE h == [g EXCEPT ![i] = step[<<g[i - 1], i>>]]
  <2>2. h \in [0..n -> S] /\ h[i] = step[<<g[i - 1], i>>] /\ \A j \in 0..n : j # i => h[j] = g[j]
    <3>1. g[i - 1] \in S
      OBVIOUS
    <3>2. step[<<g[i - 1], i>>] \in S
      BY <3>1
    <3>3. QED
      BY <3>2
  <2> HIDE DEF h
  <2>3. Computes(h, base, step, i)
    <3>1. h[0] = base
      BY <2>1, <2>2 DEF Computes
    <3>2. ASSUME NEW j \in 1..i PROVE h[j] = step[<<h[j - 1], j>>]
      <4>1. h[j - 1] = g[j - 1]
        BY <2>2
      <4>2. CASE j = i
        BY <2>2, <4>1, <4>2
      <4>3. CASE j # i
        BY <2>1, <2>2, <4>1, <4>3 DEF Computes
      <4>4. QED
        BY <4>2, <4>3
    <3>3. QED
      BY <3>1, <3>2 DEF Computes
  <2>4. QED
    BY <2>2, <2>3
<1> HIDE DEF Good
<1>3. n \in Good
  BY <1>1, <1>2, UpTo
<1>4. QED
  BY <1>3 DEF Good

\* The elements of a sequence.
Elements(s) == {s[j] : j \in 1..Len(s)}

LEMMA AppendElements ==
  ASSUME NEW S, NEW s \in Seq(S), NEW x \in S
  PROVE  /\ Append(s, x) \in Seq(S) /\ Len(Append(s, x)) = Len(s) + 1
         /\ Append(s, x)[Len(s) + 1] = x /\ \A j \in 1..Len(s) : Append(s, x)[j] = s[j]
         /\ Elements(Append(s, x)) = Elements(s) \union {x}
<1>1. /\ Len(s) \in Nat /\ Append(s, x) \in Seq(S) /\ Len(Append(s, x)) = Len(s) + 1
      /\ Append(s, x)[Len(s) + 1] = x /\ \A j \in 1..Len(s) : Append(s, x)[j] = s[j]
  BY LenProperties, AppendProperties
<1>2. Elements(Append(s, x)) = Elements(s) \union {x}
  BY <1>1 DEF Elements
<1>3. QED
  BY <1>1, <1>2

-----------------------------------------------------------------------------
(* Interfaces.                                                              *)

LEMMA InterfaceFacts ==
  /\ Interface \in Seq(Names) /\ Len(Interface) \in Nat
  /\ Names = Elements(Interface)
  /\ \A i \in 1..Len(Interface) : Interface[i] \in Names
<1>1. Interface \in Seq(Names) /\ Len(Interface) \in Nat /\ DOMAIN Interface = 1..Len(Interface)
  BY NetworkAssumption, LenProperties
<1>2. QED
  BY <1>1 DEF Elements, Names

\* The interfaces of a set, in the order of the kernel: all that are in the set.
LEMMA InOrderElements ==
  ASSUME NEW S
  PROVE  InOrder(S) \in Seq(Names) /\ Elements(InOrder(S)) = Names \cap S
<1> DEFINE n == Len(Interface)
           Keep(s, i) == IF Interface[i] \in S THEN Append(s, Interface[i]) ELSE s
           upto == CHOOSE h : h = [i \in 0..n |->
                     IF i = 0 THEN <<>>
                     ELSE IF Interface[i] \in S THEN Append(h[i - 1], Interface[i]) ELSE h[i - 1]]
<1>1. InOrder(S) = upto[n]
  BY Zenon DEF InOrder
<1>2. n \in Nat /\ \A i \in 1..n : Interface[i] \in Names
  BY InterfaceFacts
<1>3. /\ upto[0] = <<>>
      /\ \A i \in 1..n : upto[i] = Keep(upto[i - 1], i)
      /\ \A i \in 0..n : upto[i] \in Seq(Names)
  <2> DEFINE step == [x \in Seq(Names) \X (1..n) |-> Keep(x[1], x[2])]
  <2>1. step \in [Seq(Names) \X (1..n) -> Seq(Names)]
    <3>1. ASSUME NEW s \in Seq(Names), NEW i \in 1..n PROVE Keep(s, i) \in Seq(Names)
      BY <1>2, AppendElements
    <3> HIDE DEF Keep
    <3>2. QED
      BY <3>1
  <2>2. <<>> \in Seq(Names)
    BY EmptySeq
  <2>3. ASSUME NEW s \in Seq(Names), NEW i \in 1..n PROVE step[<<s, i>>] = Keep(s, i)
    OBVIOUS
  <2> HIDE DEF n, step
  <2>4. PICK g \in [0..n -> Seq(Names)] : Computes(g, <<>>, step, n)
    BY <1>2, <2>1, <2>2, Recursion
  <2>5. ASSUME NEW i \in 1..n PROVE g[i] = Keep(g[i - 1], i)
    <3>1. g[i - 1] \in Seq(Names)
      BY <1>2
    <3> HIDE DEF Keep
    <3>2. QED
      BY <2>3, <2>4, <3>1 DEF Computes
  <2>6. g = [i \in 0..n |-> IF i = 0 THEN <<>>
               ELSE IF Interface[i] \in S THEN Append(g[i - 1], Interface[i]) ELSE g[i - 1]]
    <3>1. ASSUME NEW i \in 0..n
          PROVE  g[i] = IF i = 0 THEN <<>>
                        ELSE IF Interface[i] \in S THEN Append(g[i - 1], Interface[i]) ELSE g[i - 1]
      <4>1. CASE i = 0
        BY <2>4, <4>1 DEF Computes
      <4>2. CASE i # 0
        <5>1. i \in 1..n
          BY <1>2, <4>2
        <5>2. QED
          BY <2>5, <4>2, <5>1
      <4>3. QED
        BY <4>1, <4>2
    <3>2. QED
      BY <3>1, Zenon
  <2>7. upto = [i \in 0..n |-> IF i = 0 THEN <<>>
               ELSE IF Interface[i] \in S THEN Append(upto[i - 1], Interface[i]) ELSE upto[i - 1]]
    BY <2>6, Zenon
  <2> HIDE DEF upto
  <2>8. upto[0] = <<>> /\ \A i \in 1..n : upto[i] = Keep(upto[i - 1], i)
    <3>1. upto[0] = <<>>
      <4>1. 0 \in 0..n
        BY <1>2
      <4>2. QED
        BY <2>7, <4>1
    <3>2. ASSUME NEW i \in 1..n PROVE upto[i] = Keep(upto[i - 1], i)
      <4>1. i \in 0..n /\ i # 0
        BY <1>2
      <4>2. QED
        BY <2>7, <4>1
    <3>3. QED
      BY <3>1, <3>2
  <2>9. ASSUME NEW i \in 0..n PROVE upto[i] \in Seq(Names)
    <3> DEFINE Good == {j \in 0..n : upto[j] \in Seq(Names)}
    <3>1. 0 \in Good
      <4>1. 0 \in 0..n
        BY <1>2
      <4>2. upto[0] \in Seq(Names)
        BY <2>2, <2>8
      <4>3. QED
        BY <4>1, <4>2
    <3>2. ASSUME NEW j \in 1..n, j - 1 \in Good PROVE j \in Good
      <4>1. upto[j - 1] \in Seq(Names) /\ Interface[j] \in Names /\ j \in 0..n
        BY <1>2, <3>2
      <4>2. Append(upto[j - 1], Interface[j]) \in Seq(Names)
        BY <4>1, AppendElements
      <4>3. QED
        BY <2>8, <4>1, <4>2
    <3> HIDE DEF Good
    <3>3. i \in Good
      BY <1>2, <3>1, <3>2, UpTo
    <3>4. QED
      BY <3>3 DEF Good
  <2>10. QED
    BY <2>8, <2>9
<1> HIDE DEF upto
<1> DEFINE Good == {j \in 0..n : Elements(upto[j]) = {Interface[k] : k \in 1..j} \cap S}
<1>4. 0 \in Good
  BY <1>2, <1>3 DEF Elements
<1>5. ASSUME NEW j \in 1..n, j - 1 \in Good PROVE j \in Good
  <2>1. Elements(upto[j - 1]) = {Interface[k] : k \in 1..j - 1} \cap S /\ upto[j - 1] \in Seq(Names)
    BY <1>3, <1>5
  <2>2. Elements(upto[j]) = Elements(upto[j - 1]) \union ({Interface[j]} \cap S)
    <3>1. CASE Interface[j] \in S
      BY <1>2, <1>3, <2>1, <3>1, AppendElements
    <3>2. CASE Interface[j] \notin S
      BY <1>3, <3>2
    <3>3. QED
      BY <3>1, <3>2
  <2>3. {Interface[k] : k \in 1..j} = {Interface[k] : k \in 1..j - 1} \union {Interface[j]}
    BY <1>2
  <2>4. QED
    BY <2>1, <2>2, <2>3
<1> HIDE DEF Good
<1>6. n \in Good
  <2> HIDE DEF n
  <2>1. QED
    BY <1>2, <1>4, <1>5, UpTo
<1>7. Elements(upto[n]) = {Interface[k] : k \in 1..n} \cap S
  BY <1>6 DEF Good
<1>8. Names = {Interface[k] : k \in 1..n}
  BY InterfaceFacts DEF Elements
<1>9. n \in 0..n
  BY <1>2
<1>10. QED
  BY <1>1, <1>3, <1>7, <1>8, <1>9

-----------------------------------------------------------------------------
\* A loop whose steps are those of step has its values in S.
Follows(h, base, step, S, n) ==
  h[0] = base /\ \A i \in 1..n : h[i - 1] \in S => h[i] = step[<<h[i - 1], i>>]

LEMMA LoopTyped ==
  ASSUME NEW S, NEW base \in S, NEW n \in Nat, NEW step \in [S \X (1..n) -> S], NEW h,
         Follows(h, base, step, S, n)
  PROVE  \A i \in 0..n : h[i] \in S
<1> DEFINE Good == {i \in 0..n : h[i] \in S}
<1>1. 0 \in Good
  BY DEF Follows
<1>2. ASSUME NEW i \in 1..n, i - 1 \in Good PROVE i \in Good
  <2>1. h[i - 1] \in S
    BY <1>2
  <2>2. step[<<h[i - 1], i>>] \in S
    BY <2>1
  <2>3. QED
    BY <2>1, <2>2 DEF Follows
<1> HIDE DEF Good
<1>3. \A i \in 0..n : i \in Good
  BY <1>1, <1>2, UpTo
<1>4. QED
  BY <1>3 DEF Good

(* network_list_interfaces_clean: what its loop has done for one name.      *)
Seen == [processed : Seq(Names), printed : Seq(Names)]
NoneSeen == [processed |-> <<>>, printed |-> <<>>]

CleanStep(a, name) ==
  IF name \in {a.processed[j] : j \in DOMAIN a.processed} THEN a
  ELSE [processed |-> IF Len(a.processed) < MaxNames
                      THEN Append(a.processed, name) ELSE a.processed,
        printed |-> Append(a.printed, name)]

CleanLoop(found, after) ==
  /\ after[0] = NoneSeen
  /\ \A i \in 1..Len(found) : after[i] = CleanStep(after[i - 1], found[i])
  /\ \A i \in 0..Len(found) : after[i] \in Seen

LEMMA CleanStepTyped ==
  ASSUME NEW a \in Seen, NEW name \in Names
  PROVE  CleanStep(a, name) \in Seen
<1>1. a.processed \in Seq(Names) /\ a.printed \in Seq(Names)
  BY DEF Seen
<1>2. Append(a.processed, name) \in Seq(Names) /\ Append(a.printed, name) \in Seq(Names)
  BY <1>1, AppendElements
<1>3. QED
  BY <1>1, <1>2 DEF CleanStep, Seen

LEMMA CleanLoops ==
  ASSUME NEW found \in Seq(Names)
  PROVE  \E after : CleanLoop(found, after) /\ CleanNames(found) = after[Len(found)].printed
<1> DEFINE n == Len(found)
           after == CHOOSE h : h = [i \in 0..n |->
                      IF i = 0 THEN [processed |-> <<>>, printed |-> <<>>]
                      ELSE IF found[i] \in {h[i - 1].processed[j] : j \in DOMAIN h[i - 1].processed}
                           THEN h[i - 1]
                           ELSE [processed |-> IF Len(h[i - 1].processed) < MaxNames
                                               THEN Append(h[i - 1].processed, found[i])
                                               ELSE h[i - 1].processed,
                                 printed |-> Append(h[i - 1].printed, found[i])]]
<1>1. CleanNames(found) = after[n].printed
  BY Zenon DEF CleanNames
<1>2. n \in Nat /\ \A i \in 1..n : found[i] \in Names
  BY LenProperties
<1> DEFINE step == [x \in Seen \X (1..n) |-> CleanStep(x[1], found[x[2]])]
<1>3. ASSUME NEW a \in Seen, NEW i \in 1..n
      PROVE  step[<<a, i>>] = CleanStep(a, found[i]) /\ CleanStep(a, found[i]) \in Seen
  BY <1>2, CleanStepTyped
<1>4. step \in [Seen \X (1..n) -> Seen]
  BY <1>3
<1>5. NoneSeen \in Seen
  BY EmptySeq DEF NoneSeen, Seen
<1> HIDE DEF n, step
<1>6. PICK g \in [0..n -> Seen] : Computes(g, NoneSeen, step, n)
  BY <1>2, <1>4, <1>5, Recursion
<1>7. \A i \in 0..n : g[i] = IF i = 0 THEN NoneSeen ELSE CleanStep(g[i - 1], found[i])
  <2>1. ASSUME NEW i \in 0..n, i # 0 PROVE g[i] = CleanStep(g[i - 1], found[i])
    <3>1. i \in 1..n /\ i - 1 \in 0..n
      BY <1>2, <2>1
    <3>2. QED
      BY <1>3, <1>6, <3>1 DEF Computes
  <2>2. QED
    BY <1>6, <2>1 DEF Computes
<1>8. after = [i \in 0..n |-> IF i = 0 THEN NoneSeen ELSE CleanStep(after[i - 1], found[i])]
  <2>1. g = [i \in 0..n |-> IF i = 0 THEN NoneSeen ELSE CleanStep(g[i - 1], found[i])]
    BY <1>7, Zenon
  <2>2. QED
    BY <2>1, Zenon DEF CleanStep, NoneSeen
<1> HIDE DEF after
<1>9. after[0] = NoneSeen /\ \A i \in 1..n : after[i] = CleanStep(after[i - 1], found[i])
  <2>1. 0 \in 0..n /\ \A i \in 1..n : i \in 0..n /\ i # 0
    BY <1>2
  <2>2. QED
    BY <1>8, <2>1
<1>10. \A i \in 0..n : after[i] \in Seen
  <2>1. Follows(after, NoneSeen, step, Seen, n)
    BY <1>3, <1>9 DEF Follows
  <2>2. QED
    BY <1>2, <1>4, <1>5, <2>1, LoopTyped
<1>11. QED
  BY <1>1, <1>9, <1>10 DEF CleanLoop, n

\* A sequence in which nothing is twice has as many elements as it is long.
Once(s) == \A j, k \in 1..Len(s) : s[j] = s[k] => j = k

LEMMA OnceCounts ==
  ASSUME NEW S, NEW s \in Seq(S), Once(s)
  PROVE  IsFiniteSet(Elements(s)) /\ Cardinality(Elements(s)) = Len(s)
<1> DEFINE n == Len(s)
           f == [j \in 1..n |-> s[j]]
<1>1. n \in Nat
  BY LenProperties
<1>2. f \in Bijection(1..n, Elements(s))
  <2>1. f \in [1..n -> Elements(s)]
    BY DEF Elements
  <2>2. \A t \in Elements(s) : \E j \in 1..n : f[j] = t
    BY DEF Elements
  <2>3. \A j, k \in 1..n : f[j] = f[k] => j = k
    BY DEF Once
  <2>4. DOMAIN f = 1..n
    OBVIOUS
  <2> HIDE DEF f
  <2>5. QED
    BY <2>1, <2>2, <2>3, <2>4 DEF Bijection, Injection, Surjection, IsInjective
<1> HIDE DEF f, n
<1>3. IsFiniteSet(1..n) /\ Cardinality(1..n) = n
  BY <1>1, FS_Interval
<1>4. ExistsBijection(1..n, Elements(s))
  BY <1>2 DEF ExistsBijection
<1>5. IsFiniteSet(Elements(s)) /\ Cardinality(Elements(s)) = Cardinality(1..n)
  BY <1>3, <1>4, FS_Bijection
<1>6. QED
  BY <1>3, <1>5 DEF n

\* What the loop has printed is what it has found, and processed is the same
\* until it is full.
CleanInv(a, some) ==
  /\ Elements(a.printed) = some
  /\ Once(a.processed) /\ Len(a.processed) <= MaxNames
  /\ \/ a.processed = a.printed
     \/ /\ Len(a.processed) = MaxNames
        /\ Elements(a.processed) \subseteq some /\ Elements(a.processed) # some

LEMMA CleanStepKeeps ==
  ASSUME NEW a \in Seen, NEW name \in Names, NEW some, CleanInv(a, some)
  PROVE  CleanInv(CleanStep(a, name), some \union {name})
<1>1. /\ a.processed \in Seq(Names) /\ a.printed \in Seq(Names)
      /\ Len(a.processed) \in Nat /\ MaxNames \in Nat /\ DOMAIN a.processed = 1..Len(a.processed)
  BY NetworkAssumption, LenProperties DEF Seen
<1>2. Elements(a.processed) \subseteq some
  BY DEF CleanInv
<1>3. CASE name \in Elements(a.processed)
  <2>1. CleanStep(a, name) = a /\ some \union {name} = some
    BY <1>1, <1>2, <1>3 DEF CleanStep, Elements
  <2>2. QED
    BY <2>1
<1>4. CASE name \notin Elements(a.processed)
  <2>1. CleanStep(a, name) =
          [processed |-> IF Len(a.processed) < MaxNames THEN Append(a.processed, name) ELSE a.processed,
           printed |-> Append(a.printed, name)]
    BY <1>1, <1>4 DEF CleanStep, Elements
  <2>2. Elements(Append(a.printed, name)) = some \union {name}
    BY <1>1, AppendElements DEF CleanInv
  <2>3. CASE Len(a.processed) < MaxNames
    <3>1. a.processed = a.printed
      BY <1>1, <2>3 DEF CleanInv
    <3> DEFINE s == Append(a.processed, name)
    <3>2. /\ Len(s) = Len(a.processed) + 1
          /\ s[Len(a.processed) + 1] = name /\ \A j \in 1..Len(a.processed) : s[j] = a.processed[j]
      BY <1>1, AppendElements
    <3> HIDE DEF s
    <3>3. Once(s)
      BY SMTT(30), <1>1, <1>4, <3>2 DEF CleanInv, Once, Elements
    <3>4. CleanStep(a, name).processed = s /\ CleanStep(a, name).printed = s
      BY <2>1, <2>3, <3>1 DEF s
    <3>5. Len(s) <= MaxNames
      BY <1>1, <2>3, <3>2
    <3>6. Elements(s) = some \union {name}
      BY <2>2, <3>1 DEF s
    <3>7. QED
      BY <3>3, <3>4, <3>5, <3>6 DEF CleanInv
  <2>4. CASE Len(a.processed) = MaxNames
    <3>1. CleanStep(a, name).processed = a.processed /\ CleanStep(a, name).printed = Append(a.printed, name)
      BY <1>1, <2>1, <2>4
    <3>2. QED
      BY <1>2, <1>4, <2>2, <2>4, <3>1 DEF CleanInv
  <2>5. QED
    BY <1>1, <2>3, <2>4 DEF CleanInv
<1>5. QED
  BY <1>3, <1>4

\* network_list_interfaces_clean prints every name that it finds, and none
\* twice as long as processed holds them.
LEMMA CleanNamesOnce ==
  ASSUME NEW found \in Seq(Names)
  PROVE  /\ CleanNames(found) \in Seq(Names)
         /\ Elements(CleanNames(found)) = Elements(found)
         /\ Cardinality(Elements(found)) <= MaxNames =>
              Len(CleanNames(found)) = Cardinality(Elements(found))
<1> DEFINE n == Len(found)
<1>1. PICK after : CleanLoop(found, after) /\ CleanNames(found) = after[n].printed
  BY CleanLoops
<1>2. n \in Nat /\ \A i \in 1..n : found[i] \in Names
  BY LenProperties
<1> DEFINE Good == {i \in 0..n : CleanInv(after[i], {found[j] : j \in 1..i})}
<1>3. 0 \in Good
  <2>1. after[0] = NoneSeen /\ {found[j] : j \in 1..0} = {} /\ 0 \in 0..n
    BY <1>1, <1>2 DEF CleanLoop
  <2>2. Elements(<<>>) = {} /\ Once(<<>>) /\ Len(<<>>) = 0
    BY EmptySeq DEF Elements, Once
  <2>3. CleanInv(NoneSeen, {})
    BY <2>2, NetworkAssumption DEF CleanInv, NoneSeen
  <2>4. QED
    BY <2>1, <2>3
<1>4. ASSUME NEW i \in 1..n, i - 1 \in Good PROVE i \in Good
  <2>1. /\ CleanInv(after[i - 1], {found[j] : j \in 1..i - 1}) /\ after[i - 1] \in Seen
        /\ after[i] = CleanStep(after[i - 1], found[i])
    BY <1>1, <1>2, <1>4 DEF CleanLoop
  <2>2. {found[j] : j \in 1..i} = {found[j] : j \in 1..i - 1} \union {found[i]}
    BY <1>2
  <2>3. CleanInv(after[i], {found[j] : j \in 1..i - 1} \union {found[i]})
    BY <1>2, <2>1, CleanStepKeeps
  <2>4. CleanInv(after[i], {found[j] : j \in 1..i}) /\ i \in 0..n
    <3>1. CleanInv(after[i], {found[j] : j \in 1..i})
      BY <2>2, <2>3, Zenon
    <3>2. i \in 0..n
      BY <1>2
    <3>3. QED
      BY <3>1, <3>2
  <2>5. QED
    BY <2>4
<1> HIDE DEF Good
<1>5. n \in Good
  <2>1. n \in Nat /\ n \in 0..n
    BY <1>2
  <2> HIDE DEF n
  <2>2. \A i \in 0..n : i \in Good
    BY <2>1, <1>3, <1>4, UpTo
  <2>3. QED
    BY <2>1, <2>2
<1>6. CleanInv(after[n], Elements(found)) /\ after[n] \in Seen
  <2>1. CleanInv(after[n], {found[j] : j \in 1..n})
    BY <1>5 DEF Good
  <2>2. QED
    BY <1>1, <1>2, <2>1 DEF Elements, CleanLoop
<1> DEFINE processed == after[n].processed
           names == after[n].printed
<1>7. processed \in Seq(Names) /\ names \in Seq(Names)
  BY <1>6 DEF Seen
<1>8. IsFiniteSet(Elements(processed)) /\ Cardinality(Elements(processed)) = Len(processed)
  BY <1>6, <1>7, OnceCounts DEF CleanInv
<1>9. CASE processed = names
  BY <1>1, <1>6, <1>7, <1>8, <1>9 DEF CleanInv
<1>10. CASE /\ Len(processed) = MaxNames
            /\ Elements(processed) \subseteq Elements(found) /\ Elements(processed) # Elements(found)
  <2>1. IsFiniteSet(Elements(found))
    <3> DEFINE f == [j \in 1..n |-> found[j]]
    <3>1. f \in Surjection(1..n, Elements(found))
      BY DEF Elements, Surjection
    <3>2. IsFiniteSet(1..n)
      BY <1>2, FS_Interval
    <3> HIDE DEF f, n
    <3>3. QED
      BY <3>1, <3>2, FS_Surjection
  <2>2. /\ Cardinality(Elements(processed)) <= Cardinality(Elements(found))
        /\ Cardinality(Elements(processed)) # Cardinality(Elements(found))
    BY <1>10, <2>1, FS_Subset
  <2>3. Cardinality(Elements(found)) \in Nat /\ Cardinality(Elements(processed)) \in Nat
    BY <1>8, <2>1, FS_CardinalityType
  <2>4. ~ (Cardinality(Elements(found)) <= MaxNames)
    BY <1>8, <1>10, <2>2, <2>3, NetworkAssumption
  <2>5. QED
    BY <1>1, <1>6, <1>7, <2>4 DEF CleanInv
<1>11. QED
  BY <1>6, <1>9, <1>10 DEF CleanInv

LEMMA EntriesElements == Entries \in Seq(Names) /\ Elements(Entries) = Present
<1> DEFINE a == InOrder(Present)
           b == InOrder(Present \cap Inet)
           c == InOrder(Present \cap Inet6)
<1>1. /\ a \in Seq(Names) /\ Elements(a) = Names \cap Present
      /\ b \in Seq(Names) /\ Elements(b) = Names \cap (Present \cap Inet)
      /\ c \in Seq(Names) /\ Elements(c) = Names \cap (Present \cap Inet6)
  BY InOrderElements
<1>2. Present \subseteq Names /\ Entries = a \o b \o c
  BY DEF Present, Entries
<1> HIDE DEF a, b, c
<1>3. ASSUME NEW s \in Seq(Names), NEW t \in Seq(Names)
      PROVE  s \o t \in Seq(Names) /\ Elements(s \o t) = Elements(s) \union Elements(t)
  <2> DEFINE u == s \o t
  <2>1. /\ Len(s) \in Nat /\ Len(t) \in Nat /\ u \in Seq(Names) /\ Len(u) = Len(s) + Len(t)
        /\ \A i \in 1..Len(s) + Len(t) : u[i] = IF i <= Len(s) THEN s[i] ELSE t[i - Len(s)]
    BY LenProperties, ConcatProperties
  <2> HIDE DEF u
  <2>2. ASSUME NEW x \in Elements(s) PROVE x \in Elements(u)
    BY <2>1, <2>2 DEF Elements
  <2>3. ASSUME NEW x \in Elements(t) PROVE x \in Elements(u)
    <3>1. PICK j \in 1..Len(t) : x = t[j]
      BY <2>3 DEF Elements
    <3>2. Len(s) + j \in 1..Len(s) + Len(t) /\ u[Len(s) + j] = x
      <4> DEFINE m == Len(s)
                 k == Len(t)
      <4>1. m \in Nat /\ k \in Nat /\ j \in 1..k
        BY <2>1
      <4>2. \A i \in 1..m + k : u[i] = IF i <= m THEN s[i] ELSE t[i - m]
        BY <2>1
      <4> HIDE DEF m, k
      <4>3. m + j \in 1..m + k /\ ~ (m + j <= m) /\ m + j - m = j
        BY <4>1
      <4>4. u[m + j] = t[j]
        <5> DEFINE v == m + j
        <5>1. v \in 1..m + k /\ ~ (v <= m) /\ v - m = j
          BY <4>1
        <5> HIDE DEF v
        <5>2. u[v] = IF v <= m THEN s[v] ELSE t[v - m]
          BY <4>2, <5>1
        <5>3. QED
          BY <5>1, <5>2 DEF v
      <4>5. QED
        BY <3>1, <4>3, <4>4 DEF m, k
    <3>3. QED
      BY <2>1, <3>2 DEF Elements
  <2>4. ASSUME NEW x \in Elements(u) PROVE x \in Elements(s) \union Elements(t)
    <3>1. PICK i \in 1..Len(s) + Len(t) : x = u[i]
      BY <2>1, <2>4 DEF Elements
    <3>2. CASE i <= Len(s)
      BY <2>1, <3>1, <3>2 DEF Elements
    <3>3. CASE i > Len(s)
      <4>1. i - Len(s) \in 1..Len(t) /\ x = t[i - Len(s)]
        BY <2>1, <3>1, <3>3
      <4>2. QED
        BY <4>1 DEF Elements
    <3>4. QED
      BY <2>1, <3>2, <3>3
  <2>5. QED
    BY <2>1, <2>2, <2>3, <2>4 DEF u
<1>4. a \o b \in Seq(Names) /\ Elements(a \o b) = Elements(a) \union Elements(b)
  BY <1>1, <1>3
<1>5. (a \o b) \o c \in Seq(Names) /\ Elements((a \o b) \o c) = Elements(a \o b) \union Elements(c)
  BY <1>1, <1>3, <1>4
<1>6. QED
  BY <1>1, <1>2, <1>4, <1>5

-----------------------------------------------------------------------------
(* Routes.                                                                  *)

Bytes == Seq(0..255)
Line == [dest : Bytes, gw : Bytes]

\* hex_to_ip takes apart what the kernel has put together.
LEMMA ReverseTwice ==
  ASSUME NEW S, NEW s \in Seq(S)
  PROVE  Reverse(s) \in Seq(S) /\ Reverse(Reverse(s)) = s
<1> DEFINE n == Len(s)
           r == Reverse(s)
<1>1. n \in Nat /\ s \in [1..n -> S]
  BY LenProperties
<1>2. r \in [1..n -> S] /\ \A i \in 1..n : r[i] = s[n - i + 1]
  BY <1>1 DEF Reverse
<1>3. r \in Seq(S) /\ Len(r) = n
  <2> HIDE DEF r, n
  <2>1. r \in Seq(S)
    BY <1>1, <1>2, SeqDef
  <2>2. Len(r) \in Nat /\ DOMAIN r = 1..Len(r)
    BY <2>1, LenProperties
  <2>3. QED
    BY <1>1, <1>2, <2>1, <2>2
<1>4. Reverse(r) = [i \in 1..n |-> r[n - i + 1]]
  BY <1>3 DEF Reverse
<1>5. \A i \in 1..n : r[n - i + 1] = s[i]
  <2> HIDE DEF r, n
  <2> SUFFICES ASSUME NEW i \in 1..n PROVE r[n - i + 1] = s[i]
    OBVIOUS
  <2> DEFINE j == n - i + 1
  <2>1. j \in 1..n /\ n - j + 1 = i
    BY <1>1
  <2> HIDE DEF j
  <2>2. r[j] = s[i]
    BY <1>2, <2>1
  <2>3. QED
    BY <2>2 DEF j
<1> HIDE DEF r, n
<1>6. Reverse(r) = s
  BY <1>1, <1>4, <1>5
<1>7. QED
  BY <1>3, <1>6 DEF r

LEMMA AddressFacts ==
  /\ MaxRoutes \in Nat /\ MaxRoutes > 0
  /\ Zero \in Address
  /\ \A a \in Address : /\ a \in Bytes /\ Hex(a) \in Bytes /\ HexToIp(Hex(a)) = a
                        /\ Hex(a) = Zero <=> a = Zero
<1>1. Address \subseteq Bytes /\ Zero \in Address /\ Zero \in Seq({0}) /\ MaxRoutes \in Nat /\ MaxRoutes > 0
  BY NetworkAssumption DEF Bytes
<1>2. Reverse(Zero) = Zero
  <2>1. Len(Zero) \in Nat /\ Zero \in [1..Len(Zero) -> {0}]
    BY <1>1, LenProperties
  <2>2. Reverse(Zero) = [i \in 1..Len(Zero) |-> Zero[Len(Zero) - i + 1]]
    BY DEF Reverse
  <2>3. \A i \in 1..Len(Zero) : Len(Zero) - i + 1 \in 1..Len(Zero)
    BY <2>1
  <2>4. \A i \in 1..Len(Zero) : Zero[Len(Zero) - i + 1] = Zero[i]
    BY <2>1, <2>3
  <2>5. QED
    BY <2>1, <2>2, <2>4
<1>3. ASSUME NEW a \in Address
      PROVE  a \in Bytes /\ Reverse(a) \in Bytes /\ Reverse(Reverse(a)) = a
  BY <1>1, <1>3, ReverseTwice DEF Bytes
<1>4. QED
  BY <1>1, <1>2, <1>3 DEF Hex, HexToIp

\* parse_routing_table: what its loop does with one line.
Parsed == [routes : Seq(Line), gw : Bytes, found : BOOLEAN]
NoRoutes == [routes |-> <<>>, gw |-> Zero, found |-> FALSE]

ParseStep(a, line) ==
  LET r == [dest |-> HexToIp(line.dest), gw |-> HexToIp(line.gw)]
  IN IF Len(a.routes) >= MaxRoutes THEN a
     ELSE IF IsDefault(line) /\ ~a.found
     THEN [routes |-> Append(a.routes, r), gw |-> r.gw, found |-> TRUE]
     ELSE [a EXCEPT !.routes = Append(@, r)]

ParseLoop(lines, after) ==
  /\ after[0] = NoRoutes
  /\ \A i \in 1..Len(lines) : after[i] = ParseStep(after[i - 1], lines[i])
  /\ \A i \in 0..Len(lines) : after[i] \in Parsed

LEMMA ParseStepTyped ==
  ASSUME NEW a \in Parsed, NEW line \in Line
  PROVE  ParseStep(a, line) \in Parsed
<1> DEFINE r == [dest |-> HexToIp(line.dest), gw |-> HexToIp(line.gw)]
<1>1. HexToIp(line.dest) \in Bytes /\ HexToIp(line.gw) \in Bytes
  <2>1. line.dest \in Bytes /\ line.gw \in Bytes
    BY DEF Line
  <2>2. QED
    BY <2>1, ReverseTwice DEF HexToIp, Bytes
<1>2. r \in Line /\ r.gw \in Bytes
  BY <1>1 DEF Line
<1>3. a.routes \in Seq(Line) /\ a.gw \in Bytes /\ a.found \in BOOLEAN
  BY DEF Parsed
<1> HIDE DEF r
<1>4. Append(a.routes, r) \in Seq(Line)
  BY <1>2, <1>3, AppendElements
<1>5. [routes |-> Append(a.routes, r), gw |-> r.gw, found |-> TRUE] \in Parsed
  BY <1>2, <1>4 DEF Parsed
<1>6. [a EXCEPT !.routes = Append(@, r)] \in Parsed
  BY <1>3, <1>4 DEF Parsed
<1>7. QED
  BY <1>5, <1>6, Zenon DEF ParseStep, r

LEMMA ParseLoops ==
  ASSUME NEW lines \in Seq(Line)
  PROVE  \E after : ParseLoop(lines, after) /\ Parse(lines) = after[Len(lines)]
<1> DEFINE n == Len(lines)
           after == CHOOSE h : h = [i \in 0..n |->
                      IF i = 0 THEN [routes |-> <<>>, gw |-> Zero, found |-> FALSE]
                      ELSE IF Len(h[i - 1].routes) >= MaxRoutes THEN h[i - 1]
                           ELSE IF IsDefault(lines[i]) /\ ~h[i - 1].found
                           THEN [routes |-> Append(h[i - 1].routes,
                                   [dest |-> HexToIp(lines[i].dest), gw |-> HexToIp(lines[i].gw)]),
                                 gw |-> [dest |-> HexToIp(lines[i].dest), gw |-> HexToIp(lines[i].gw)].gw,
                                 found |-> TRUE]
                           ELSE [h[i - 1] EXCEPT !.routes = Append(@,
                                   [dest |-> HexToIp(lines[i].dest), gw |-> HexToIp(lines[i].gw)])]]
<1>1. Parse(lines) = after[n]
  BY Zenon DEF Parse
<1>2. n \in Nat /\ \A i \in 1..n : lines[i] \in Line
  BY LenProperties
<1> DEFINE step == [x \in Parsed \X (1..n) |-> ParseStep(x[1], lines[x[2]])]
<1>3. ASSUME NEW a \in Parsed, NEW i \in 1..n
      PROVE  step[<<a, i>>] = ParseStep(a, lines[i]) /\ ParseStep(a, lines[i]) \in Parsed
  BY <1>2, ParseStepTyped
<1>4. step \in [Parsed \X (1..n) -> Parsed]
  BY <1>3
<1>5. NoRoutes \in Parsed
  BY EmptySeq, AddressFacts DEF NoRoutes, Parsed
<1> HIDE DEF n, step
<1>6. PICK g \in [0..n -> Parsed] : Computes(g, NoRoutes, step, n)
  BY <1>2, <1>4, <1>5, Recursion
<1>7. \A i \in 0..n : g[i] = IF i = 0 THEN NoRoutes ELSE ParseStep(g[i - 1], lines[i])
  <2>1. ASSUME NEW i \in 0..n, i # 0 PROVE g[i] = ParseStep(g[i - 1], lines[i])
    <3>1. i \in 1..n /\ i - 1 \in 0..n
      BY <1>2, <2>1
    <3>2. QED
      BY <1>3, <1>6, <3>1 DEF Computes
  <2>2. QED
    BY <1>6, <2>1 DEF Computes
<1>8. after = [i \in 0..n |-> IF i = 0 THEN NoRoutes ELSE ParseStep(after[i - 1], lines[i])]
  <2>1. g = [i \in 0..n |-> IF i = 0 THEN NoRoutes ELSE ParseStep(g[i - 1], lines[i])]
    BY <1>7, Zenon
  <2>2. QED
    BY <2>1, Zenon DEF ParseStep, NoRoutes
<1> HIDE DEF after
<1>9. after[0] = NoRoutes /\ \A i \in 1..n : after[i] = ParseStep(after[i - 1], lines[i])
  <2>1. 0 \in 0..n /\ \A i \in 1..n : i \in 0..n /\ i # 0
    BY <1>2
  <2>2. QED
    BY <1>8, <2>1
<1>10. \A i \in 0..n : after[i] \in Parsed
  <2>1. Follows(after, NoRoutes, step, Parsed, n)
    BY <1>3, <1>9 DEF Follows
  <2>2. QED
    BY <1>2, <1>4, <1>5, <2>1, LoopTyped
<1>11. QED
  BY <1>1, <1>9, <1>10 DEF ParseLoop, n

RouteRow == [dest : Address, gw : Address]
Hexed(r) == [dest |-> Hex(r.dest), gw |-> Hex(r.gw)]

\* After m lines that fit: their routes, and the gateway of the first default.
NoDefault(table, m) == \A j \in 1..m : ~IsDefault(table[j])
FirstDefault(gw, table, m) ==
  \E j \in 1..m : /\ IsDefault(table[j]) /\ gw = table[j].gw
                  /\ \A k \in 1..m : IsDefault(table[k]) => j <= k

FirstLines(s, table, m) == Len(s) = m /\ \A j \in 1..m : s[j] = table[j]

ParseInv(a, table, m) ==
  /\ FirstLines(a.routes, table, m)
  /\ ~a.found => a.gw = Zero /\ NoDefault(table, m)
  /\ a.found => FirstDefault(a.gw, table, m)

LEMMA HexedFacts ==
  ASSUME NEW r \in RouteRow
  PROVE  /\ Hexed(r) \in Line /\ r \in Line
         /\ IsDefault(Hexed(r)) <=> IsDefault(r)
         /\ [dest |-> HexToIp(Hexed(r).dest), gw |-> HexToIp(Hexed(r).gw)] = r
<1>1. r = [dest |-> r.dest, gw |-> r.gw] /\ r.dest \in Address /\ r.gw \in Address
  BY DEF RouteRow
<1>2. Hexed(r).dest = Hex(r.dest) /\ Hexed(r).gw = Hex(r.gw)
  BY DEF Hexed
<1>3. Hexed(r) \in Line /\ r \in Line
  BY <1>1, AddressFacts DEF Line, Hexed
<1>4. IsDefault(Hexed(r)) <=> IsDefault(r)
  BY <1>1, <1>2, AddressFacts DEF IsDefault
<1>5. [dest |-> HexToIp(Hexed(r).dest), gw |-> HexToIp(Hexed(r).gw)] = r
  BY <1>1, <1>2, AddressFacts
<1>6. QED
  BY <1>3, <1>4, <1>5

LEMMA ParseStepKeeps ==
  ASSUME NEW n \in Nat, NEW table \in [1..n -> RouteRow], NEW a \in Parsed, NEW m \in 0..n - 1,
         ParseInv(a, table, m), m < MaxRoutes
  PROVE  ParseInv(ParseStep(a, Hexed(table[m + 1])), table, m + 1)
<1> DEFINE r == table[m + 1]
           b == ParseStep(a, Hexed(r))
<1>1. r \in RouteRow /\ m \in Nat /\ MaxRoutes \in Nat
  BY AddressFacts
<1>2. /\ Hexed(r) \in Line /\ r \in Line
      /\ IsDefault(Hexed(r)) <=> IsDefault(r)
      /\ [dest |-> HexToIp(Hexed(r).dest), gw |-> HexToIp(Hexed(r).gw)] = r
  BY <1>1, HexedFacts
<1>3. a.routes \in Seq(Line) /\ a.found \in BOOLEAN /\ Len(a.routes) = m
  BY DEF Parsed, ParseInv, FirstLines
<1>4. ~ (Len(a.routes) >= MaxRoutes)
  BY <1>1, <1>3
<1>5. b = IF IsDefault(r) /\ ~a.found
          THEN [routes |-> Append(a.routes, r), gw |-> r.gw, found |-> TRUE]
          ELSE [a EXCEPT !.routes = Append(a.routes, r)]
  <2> DEFINE q == [dest |-> HexToIp(Hexed(r).dest), gw |-> HexToIp(Hexed(r).gw)]
  <2>1. b = IF IsDefault(Hexed(r)) /\ ~a.found
            THEN [routes |-> Append(a.routes, q), gw |-> q.gw, found |-> TRUE]
            ELSE [a EXCEPT !.routes = Append(a.routes, q)]
    BY <1>4, Zenon DEF ParseStep
  <2>2. q = r
    BY <1>2
  <2> HIDE DEF q, r, b
  <2>3. b = IF IsDefault(Hexed(r)) /\ ~a.found
            THEN [routes |-> Append(a.routes, r), gw |-> r.gw, found |-> TRUE]
            ELSE [a EXCEPT !.routes = Append(a.routes, r)]
    BY <2>1, <2>2, Zenon
  <2>4. CASE IsDefault(r) /\ ~a.found
    BY <1>2, <2>3, <2>4, Zenon
  <2>5. CASE ~ (IsDefault(r) /\ ~a.found)
    BY <1>2, <2>3, <2>5, Zenon
  <2>6. QED
    BY <2>4, <2>5, Zenon
<1>6. b.routes = Append(a.routes, r)
  BY <1>5 DEF Parsed
<1>7. FirstLines(b.routes, table, m + 1)
  <2> DEFINE s == Append(a.routes, r)
  <2>1. Len(s) = m + 1 /\ s[m + 1] = r /\ \A j \in 1..m : s[j] = a.routes[j]
    BY <1>2, <1>3, AppendElements
  <2>2. \A j \in 1..m : a.routes[j] = table[j]
    BY DEF ParseInv, FirstLines
  <2> HIDE DEF s
  <2>3. \A j \in 1..m + 1 : s[j] = table[j]
    BY <1>1, <2>1, <2>2
  <2>4. QED
    BY <1>6, <2>1, <2>3 DEF s, FirstLines
<1> HIDE DEF b
<1>8. ASSUME IsDefault(r) /\ ~a.found PROVE ParseInv(b, table, m + 1)
  <2>1. b.gw = r.gw /\ b.found = TRUE
    BY <1>5, <1>8
  <2>2. FirstDefault(b.gw, table, m + 1)
    <3>1. \A k \in 1..m : ~IsDefault(table[k])
      BY <1>8 DEF ParseInv, NoDefault
    <3>2. m + 1 \in 1..m + 1 /\ \A k \in 1..m + 1 : IsDefault(table[k]) => m + 1 <= k
      BY <1>1, <3>1
    <3>3. IsDefault(table[m + 1]) /\ b.gw = table[m + 1].gw
      BY <1>8, <2>1 DEF r
    <3>4. QED
      BY <3>2, <3>3 DEF FirstDefault
  <2>3. QED
    BY <1>7, <2>1, <2>2, Zenon DEF ParseInv
<1>9. ASSUME ~ (IsDefault(r) /\ ~a.found) PROVE ParseInv(b, table, m + 1)
  <2>1. b.gw = a.gw /\ b.found = a.found
    BY <1>5, <1>9 DEF Parsed
  <2>2. CASE ~a.found
    <3>1. a.gw = Zero /\ NoDefault(table, m)
      BY <2>2 DEF ParseInv
    <3>2. NoDefault(table, m + 1)
      BY <1>1, <1>9, <2>2, <3>1 DEF NoDefault
    <3>3. ~b.found /\ b.gw = Zero
      BY <2>1, <2>2, <3>1, Zenon
    <3>4. QED
      BY <1>7, <3>2, <3>3, Zenon DEF ParseInv
  <2>3. CASE a.found
    <3>1. PICK j \in 1..m : /\ IsDefault(table[j]) /\ a.gw = table[j].gw
                            /\ \A k \in 1..m : IsDefault(table[k]) => j <= k
      BY <2>3 DEF ParseInv, FirstDefault
    <3>2. j \in 1..m + 1 /\ \A k \in 1..m + 1 : IsDefault(table[k]) => j <= k
      BY <1>1, <3>1
    <3>3. FirstDefault(b.gw, table, m + 1)
      BY <2>1, <3>1, <3>2 DEF FirstDefault
    <3>4. b.found
      BY <2>1, <2>3, Zenon
    <3>5. QED
      BY <1>7, <3>3, <3>4, Zenon DEF ParseInv
  <2>4. QED
    BY <2>2, <2>3
<1>10. QED
  BY <1>8, <1>9 DEF b, r

\* parse_routing_table gives the first MaxRoutes routes of the table, and the
\* gateway of the first default route among them.
LEMMA ParsesTable ==
  ASSUME NEW n \in Nat, NEW table \in [1..n -> RouteRow]
  PROVE  LET a == Parse([i \in DOMAIN table |-> [dest |-> Hex(table[i].dest), gw |-> Hex(table[i].gw)]])
         IN a \in Parsed /\ ParseInv(a, table, IF n < MaxRoutes THEN n ELSE MaxRoutes)
<1> DEFINE lines == [i \in DOMAIN table |-> [dest |-> Hex(table[i].dest), gw |-> Hex(table[i].gw)]]
           fit(i) == IF i < MaxRoutes THEN i ELSE MaxRoutes
<1>1. lines \in Seq(Line) /\ Len(lines) = n /\ \A i \in 1..n : lines[i] = Hexed(table[i])
  <2>1. DOMAIN table = 1..n
    OBVIOUS
  <2>2. \A i \in 1..n : lines[i] = Hexed(table[i]) /\ lines[i] \in Line
    BY <2>1, HexedFacts DEF Hexed
  <2>3. lines = [i \in 1..n |-> lines[i]] /\ lines \in [1..n -> Line]
    BY <2>1, <2>2
  <2> HIDE DEF lines
  <2>4. lines \in Seq(Line)
    BY <2>3, SeqDef
  <2>5. Len(lines) = n
    BY <2>3, <2>4, LenProperties
  <2>6. QED
    BY <2>2, <2>4, <2>5
<1> HIDE DEF lines
<1>2. PICK after : ParseLoop(lines, after) /\ Parse(lines) = after[n]
  BY <1>1, ParseLoops
<1>3. MaxRoutes \in Nat /\ MaxRoutes > 0
  BY AddressFacts
<1> DEFINE Good == {i \in 0..n : ParseInv(after[i], table, fit(i))}
<1>4. 0 \in Good
  <2>1. after[0] = NoRoutes /\ fit(0) = 0 /\ 0 \in 0..n
    BY <1>2, <1>3 DEF ParseLoop
  <2>2. ParseInv(NoRoutes, table, 0)
    BY EmptySeq DEF ParseInv, NoRoutes, NoDefault, FirstLines
  <2>3. QED
    BY <2>1, <2>2
<1>5. ASSUME NEW i \in 1..n, i - 1 \in Good PROVE i \in Good
  <2>1. /\ ParseInv(after[i - 1], table, fit(i - 1)) /\ after[i - 1] \in Parsed
        /\ after[i] = ParseStep(after[i - 1], Hexed(table[i]))
    BY <1>1, <1>2, <1>5 DEF ParseLoop
  <2>2. CASE i - 1 < MaxRoutes
    <3>1. fit(i - 1) = i - 1 /\ fit(i) = i /\ i - 1 \in 0..n - 1 /\ i - 1 + 1 = i /\ i \in 0..n
      BY <1>3, <2>2
    <3>2. ParseInv(after[i], table, i)
      BY <2>1, <2>2, <3>1, ParseStepKeeps
    <3>3. QED
      BY <3>1, <3>2
  <2>3. CASE ~ (i - 1 < MaxRoutes)
    <3>1. fit(i - 1) = MaxRoutes /\ fit(i) = MaxRoutes /\ i \in 0..n
      BY <1>3, <2>3
    <3>2. Len(after[i - 1].routes) = MaxRoutes
      BY <2>1, <3>1 DEF ParseInv, FirstLines
    <3>3. after[i] = after[i - 1]
      BY <1>3, <2>1, <3>2 DEF ParseStep
    <3>4. QED
      BY <2>1, <3>1, <3>3
  <2>4. QED
    BY <2>2, <2>3
<1> HIDE DEF Good
<1>6. n \in Good
  BY <1>4, <1>5, UpTo
<1>7. ParseInv(after[n], table, fit(n)) /\ after[n] \in Parsed
  BY <1>1, <1>2, <1>6 DEF Good, ParseLoop
<1>8. QED
  BY <1>2, <1>7 DEF lines

-----------------------------------------------------------------------------
(* The network manager.                                                     *)

\* The parts of RoutesShown, for what a read of the table gives.
LEMMA TableShown ==
  ASSUME NEW n \in Nat, NEW table \in [1..n -> RouteRow], NEW a \in Parsed,
         ParseInv(a, table, IF n < MaxRoutes THEN n ELSE MaxRoutes)
  PROVE  LET m == IF Len(table) < MaxRoutes THEN Len(table) ELSE MaxRoutes
             via == {i \in 1..m : table[i].dest = Zero /\ table[i].gw # Zero}
         IN /\ a.routes = SubSeq(table, 1, m)
            /\ IF via = {} THEN a.gw = Zero
               ELSE \E i \in via : (\A j \in via : i <= j) /\ a.gw = table[i].gw
            /\ a.gw \in Address /\ \A i \in DOMAIN a.routes : a.routes[i] \in RouteRow
<1> DEFINE m == IF n < MaxRoutes THEN n ELSE MaxRoutes
           via == {i \in 1..m : table[i].dest = Zero /\ table[i].gw # Zero}
<1>1. MaxRoutes \in Nat /\ m \in Nat /\ m <= n /\ Zero \in Address
  BY AddressFacts
<1>2. Len(table) = n /\ table \in Seq(RouteRow)
  <2>1. table \in Seq(RouteRow)
    BY SeqDef
  <2>2. QED
    BY <2>1, LenProperties
<1>3. /\ a.routes \in Seq(Line) /\ Len(a.routes) = m
      /\ \A j \in 1..m : a.routes[j] = table[j] /\ table[j] \in RouteRow
  BY <1>1 DEF ParseInv, FirstLines, Parsed
<1>4. a.routes = SubSeq(table, 1, m)
  <2> DEFINE s == SubSeq(table, 1, m)
  <2>1. \A i \in 1..m : table[i] \in RouteRow
    BY <1>3
  <2> HIDE DEF m
  <2>2. /\ s \in Seq(RouteRow) /\ Len(s) = IF 1 <= m THEN m - 1 + 1 ELSE 0
        /\ \A i \in 1..m - 1 + 1 : s[i] = table[1 + i - 1]
    BY <1>1, <1>2, <2>1, SubSeqProperties
  <2> HIDE DEF s
  <2>3. Len(s) = m /\ \A i \in 1..m : s[i] = table[i]
    BY <1>1, <2>2
  <2>4. \A i \in 1..m : a.routes[i] = s[i]
    BY <1>3, <2>3
  <2>5. a.routes \in Seq(Line \union RouteRow) /\ s \in Seq(Line \union RouteRow)
    <3>1. a.routes \in [1..m -> Line \union RouteRow] /\ s \in [1..m -> Line \union RouteRow]
      BY <1>3, <2>2, <2>3, LenProperties
    <3>2. QED
      BY <1>1, <3>1, SeqDef
  <2>6. QED
    BY <1>3, <2>3, <2>4, <2>5, SeqEqual DEF s
<1>5. via = {i \in 1..m : IsDefault(table[i])}
  BY DEF IsDefault
<1> HIDE DEF m, via
<1>6. /\ IF via = {} THEN a.gw = Zero
         ELSE \E i \in via : (\A j \in via : i <= j) /\ a.gw = table[i].gw
      /\ a.gw \in Address
  <2>1. CASE ~a.found
    <3>1. a.gw = Zero /\ via = {}
      BY <1>5, <2>1 DEF ParseInv, NoDefault, m
    <3>2. QED
      BY <1>1, <3>1
  <2>2. CASE a.found
    <3>1. PICK i \in 1..m : /\ IsDefault(table[i]) /\ a.gw = table[i].gw
                            /\ \A k \in 1..m : IsDefault(table[k]) => i <= k
      BY <2>2 DEF ParseInv, FirstDefault, m
    <3>2. i \in via /\ \A k \in via : i <= k
      BY <1>5, <3>1
    <3>3. table[i].gw \in Address
      BY <1>3 DEF RouteRow
    <3>4. QED
      BY <3>1, <3>2, <3>3
  <2>3. QED
    BY <2>1, <2>2
<1>7. DOMAIN a.routes = 1..m
  BY <1>3, LenProperties
<1>8. QED
  BY <1>2, <1>3, <1>4, <1>6, <1>7 DEF via, m

NetworkInv ==
  /\ NetworkTypeOK
  /\ iface \in [name : Names \union {"none"}, state : {"gone", "up", "down"}]
  /\ InterfacesListedOnce
  /\ RoutesShown

\* A step that leaves the listings alone, and does not tell of one.
LEMMA NetworkMoves ==
  ASSUME NetworkInv, link' \in [Names -> {"gone", "up", "down"}],
         iface' \in [name : Names \union {"none"}, state : {"gone", "up", "down"}],
         UNCHANGED listing, told' \in {"names", "routes"} => told' = told
  PROVE  NetworkInv'
BY DEF NetworkInv, NetworkTypeOK, InterfacesListedOnce, RoutesShown, listing

LEMMA NetworkBeginStep ==
  ASSUME NetworkInv, NEW operation, NEW state \in {"up", "down"}, NetworkBegin(operation, state)
  PROVE  NetworkInv'
<1>1. /\ told' = "nothing" /\ UNCHANGED link /\ iface' = [NoOne EXCEPT !.state = state]
      /\ there' = {} /\ entries' = <<>> /\ gateway' = Zero
  BY DEF NetworkBegin
<1>2. iface' \in [name : Names \union {"none"}, state : {"gone", "up", "down"}]
  BY <1>1 DEF NoOne
<1>3. NetworkTypeOK'
  BY <1>1, AddressFacts DEF NetworkInv, NetworkTypeOK
<1>4. QED
  BY <1>1, <1>2, <1>3 DEF NetworkInv, InterfacesListedOnce, RoutesShown

LEMMA ListNamesStep ==
  ASSUME NetworkInv, ListNames
  PROVE  NetworkInv'
<1>1. /\ there' = Present /\ printed' = CleanNames(Entries)
      /\ told' \in {"names", told} /\ UNCHANGED <<link, iface, routes, entries, gateway>>
  BY DEF ListNames, NetworkTell, NetworkGoesTo
<1>2. /\ printed' \in Seq(Names) /\ Elements(printed') = there'
      /\ Cardinality(there') <= MaxNames => Len(printed') = Cardinality(there')
  BY <1>1, EntriesElements, CleanNamesOnce
<1>3. {printed'[i] : i \in DOMAIN printed'} = there'
  BY <1>2, LenProperties DEF Elements
<1>4. InterfacesListedOnce'
  BY <1>2, <1>3 DEF InterfacesListedOnce
<1>5. QED
  BY <1>1, <1>4 DEF NetworkInv, NetworkTypeOK, RoutesShown, Present

LEMMA ProcRouteStep ==
  ASSUME NetworkInv, ProcRoute
  PROVE  NetworkInv'
<1>1. UNCHANGED <<link, iface, there, printed>> /\ told' \in {"failed", "routes"}
  BY DEF ProcRoute, NetworkTell
<1>2. CASE told' = "failed" /\ UNCHANGED <<routes, entries, gateway>>
  BY <1>1, <1>2, NetworkMoves DEF NetworkInv, NetworkTypeOK, listing
<1>3. CASE /\ told' = "routes"
           /\ \E table \in Routes :
                LET result == Parse([i \in DOMAIN table |->
                                       [dest |-> Hex(table[i].dest), gw |-> Hex(table[i].gw)]])
                IN routes' = table /\ entries' = result.routes /\ gateway' = result.gw
  <2>1. PICK table \in Routes :
                LET result == Parse([i \in DOMAIN table |->
                                       [dest |-> Hex(table[i].dest), gw |-> Hex(table[i].gw)]])
                IN routes' = table /\ entries' = result.routes /\ gateway' = result.gw
    BY <1>3
  <2>2. PICK n \in Nat : table \in [1..n -> RouteRow]
    BY DEF Routes, RouteRow
  <2> DEFINE result == Parse([i \in DOMAIN table |->
                                [dest |-> Hex(table[i].dest), gw |-> Hex(table[i].gw)]])
  <2>3. result \in Parsed /\ ParseInv(result, table, IF n < MaxRoutes THEN n ELSE MaxRoutes)
    BY <2>2, ParsesTable
  <2>4. routes' = table /\ entries' = result.routes /\ gateway' = result.gw
    BY <2>1
  <2> HIDE DEF result
  <2>5. RoutesShown' /\ gateway' \in Address /\ \A i \in DOMAIN entries' : entries'[i] \in RouteRow
    BY <2>2, <2>3, <2>4, TableShown DEF RoutesShown
  <2>6. QED
    BY <1>1, <1>3, <2>5 DEF NetworkInv, NetworkTypeOK, InterfacesListedOnce, RouteRow
<1>4. QED
  BY <1>2, <1>3 DEF ProcRoute, NetworkTell

LEMMA NetworkCommandStep ==
  ASSUME NetworkInv, NetworkCommands
  PROVE  NetworkInv'
<1> DEFINE Iface == [name : Names \union {"none"}, state : {"gone", "up", "down"}]
           Link == [Names -> {"gone", "up", "down"}]
<1>0. link \in Link /\ iface \in Iface /\ \A n \in Names : link[n] \in {"gone", "up", "down"}
  BY DEF NetworkInv, NetworkTypeOK
<1>1. CASE ListNames
  BY <1>1, ListNamesStep
<1>2. CASE ProcRoute
  BY <1>2, ProcRouteStep
<1>3. CASE NoList \/ ConfigureShows \/ LinkMode \/ InfoDetails
  <2>1. UNCHANGED <<link, iface, listing>> /\ (told' \in {"names", "routes"} => told' = told)
    BY <1>3 DEF NoList, ConfigureShows, LinkMode, InfoDetails, NetworkTell, NetworkGoesTo
  <2>2. QED
    BY <1>0, <2>1, NetworkMoves
<1>4. CASE IpRoute \/ Ping \/ Lookup \/ Statistics
  <2>1. UNCHANGED <<link, iface, listing>> /\ (told' \in {"names", "routes"} => told' = told)
    BY <1>4 DEF IpRoute, Ping, Lookup, Statistics, NetworkTell, NetworkGoesTo
  <2>2. QED
    BY <1>0, <2>1, NetworkMoves
<1>5. CASE InfoAsks \/ ConfigureAsks \/ LinkAsks
  <2>1. /\ UNCHANGED <<link, listing>> /\ (told' \in {"names", "routes"} => told' = told)
        /\ \/ UNCHANGED iface
           \/ \E n \in Names : iface' = [name |-> n, state |-> iface.state]
    BY <1>5 DEF InfoAsks, ConfigureAsks, LinkAsks, AskInterface, NetworkTell, NetworkGoesTo
  <2>2. iface' \in Iface
    BY <1>0, <2>1
  <2>3. QED
    BY <1>0, <2>1, <2>2, NetworkMoves
<1>6. CASE InfoFinds
  <2>1. /\ UNCHANGED <<link, listing>> /\ (told' \in {"names", "routes"} => told' = told)
        /\ \/ UNCHANGED iface
           \/ iface.name \in Names /\ iface' = [iface EXCEPT !.state = link[iface.name]]
    BY <1>6 DEF InfoFinds, NetworkTell, NetworkGoesTo, Present
  <2>2. iface' \in Iface
    BY <1>0, <2>1
  <2>3. QED
    BY <1>0, <2>1, <2>2, NetworkMoves
<1>7. CASE LinkSets
  <2>1. /\ UNCHANGED <<iface, listing>> /\ (told' \in {"names", "routes"} => told' = told)
        /\ \/ UNCHANGED link
           \/ link' = [link EXCEPT ![iface.name] = iface.state]
    BY <1>7 DEF LinkSets, NetworkTell
  <2>2. link' \in Link
    BY <1>0, <2>1
  <2>3. QED
    BY <1>0, <2>1, <2>2, NetworkMoves
<1>8. QED
  BY <1>1, <1>2, <1>3, <1>4, <1>5, <1>6, <1>7 DEF NetworkCommands

LEMMA NetworkInvStep == ASSUME NetworkInv, [NetworkNext]_networkVars PROVE NetworkInv'
<1>1. CASE NetworkStart
  BY <1>1, NetworkBeginStep DEF NetworkStart
<1>2. CASE NetworkCommands
  BY <1>2, NetworkCommandStep
<1>3. CASE OtherLinks
  <2>1. UNCHANGED <<told, iface, listing>> /\ link' \in [Names -> {"gone", "up", "down"}]
    BY <1>3 DEF OtherLinks, NetworkInv, NetworkTypeOK
  <2>2. QED
    BY <2>1, NetworkMoves DEF NetworkInv
<1>4. CASE UNCHANGED networkVars
  BY <1>4, NetworkMoves DEF networkVars, NetworkInv, NetworkTypeOK
<1>5. QED
  BY <1>1, <1>2, <1>3, <1>4 DEF NetworkNext

LEMMA NetworkInvInit == NetworkInit => NetworkInv
<1> SUFFICES ASSUME NetworkInit PROVE NetworkInv
  OBVIOUS
<1>1. NetworkTypeOK /\ told = "nothing"
  BY AddressFacts DEF NetworkInit, NetworkTypeOK
<1>2. iface \in [name : Names \union {"none"}, state : {"gone", "up", "down"}]
  BY DEF NetworkInit, NoOne
<1>3. QED
  BY <1>1, <1>2 DEF NetworkInv, InterfacesListedOnce, RoutesShown

LEMMA NetworkInvariant == NetworkSpec => []NetworkInv
<1>1. NetworkInv /\ [NetworkNext]_networkVars => NetworkInv'
  BY NetworkInvStep
<1>2. QED
  BY NetworkInvInit, <1>1, PTL DEF NetworkSpec

\* The variables of the network manager keep their types (network_mgr.c).
THEOREM NetworkTyped == NetworkSpec => []NetworkTypeOK
<1>1. NetworkInv => NetworkTypeOK
  BY DEF NetworkInv
<1>2. QED
  BY NetworkInvariant, <1>1, PTL

\* A listing has all the interfaces that were there, and each of them once
\* unless there are more than processed holds, for any interfaces and addresses
\* (network_list_interfaces_clean).
THEOREM EveryInterfaceListed == NetworkSpec => []InterfacesListedOnce
<1>1. NetworkInv => InterfacesListedOnce
  BY DEF NetworkInv
<1>2. QED
  BY NetworkInvariant, <1>1, PTL

\* The routes printed are the first ones of the kernel's table, with its
\* addresses, and the gateway is that of the first default route among them,
\* for tables of any length (parse_routing_table, hex_to_ip).
THEOREM EveryRouteShown == NetworkSpec => []RoutesShown
<1>1. NetworkInv => RoutesShown
  BY DEF NetworkInv
<1>2. QED
  BY NetworkInvariant, <1>1, PTL

-----------------------------------------------------------------------------
(* The menus.                                                               *)

MenuNames == {"main", "file", "process", "network", "socket", "chat", "package", "shell",
              "script", "env", "kernel"}

\* The two tables of a menu agree: every option runs the operation of its name,
\* and no selection at all is the last option, which goes back.
Agrees(options, menu) ==
  /\ Len(options) \in Nat \ {0}
  /\ \A sel \in 0..Len(options) - 1 : Runs(menu, sel) = options[sel + 1]
  /\ Runs(menu, -1) = Last(options)

LEMMA TablesAgree ==
  ASSUME NEW menu \in MenuNames
  PROVE  Agrees(Options(menu), menu)
<1>1. ASSUME menu = "main" PROVE Agrees(Options(menu), menu)
  <2>1. Options(menu) = MainOptions /\ \A sel : Runs(menu, sel) = MainRuns(sel)
    BY <1>1 DEF Options, Runs
  <2>2. Len(MainOptions) = 8 /\ \A sel \in 0..7 : MainRuns(sel) = MainOptions[sel + 1]
    BY DEF MainOptions, MainRuns
  <2>3. MainRuns(-1) = Last(MainOptions)
    BY DEF MainOptions, MainRuns, Last
  <2>4. QED
    BY <2>1, <2>2, <2>3 DEF Agrees
<1>2. ASSUME menu = "file" PROVE Agrees(Options(menu), menu)
  <2>1. Options(menu) = FileOptions /\ \A sel : Runs(menu, sel) = FileRuns(sel)
    BY <1>2 DEF Options, Runs
  <2>2. Len(FileOptions) = 14 /\ \A sel \in 0..13 : FileRuns(sel) = FileOptions[sel + 1]
    BY DEF FileOptions, FileRuns, Chain
  <2>3. FileRuns(-1) = Last(FileOptions)
    BY DEF FileOptions, FileRuns, Chain, Last
  <2>4. QED
    BY <2>1, <2>2, <2>3 DEF Agrees
<1>3. ASSUME menu = "process" PROVE Agrees(Options(menu), menu)
  <2>1. Options(menu) = ProcessOptions /\ \A sel : Runs(menu, sel) = ProcessRuns(sel)
    BY <1>3 DEF Options, Runs
  <2>2. Len(ProcessOptions) = 13 /\ \A sel \in 0..12 : ProcessRuns(sel) = ProcessOptions[sel + 1]
    BY DEF ProcessOptions, ProcessRuns, Chain
  <2>3. ProcessRuns(-1) = Last(ProcessOptions)
    BY DEF ProcessOptions, ProcessRuns, Chain, Last
  <2>4. QED
    BY <2>1, <2>2, <2>3 DEF Agrees
<1>4. ASSUME menu = "network" PROVE Agrees(Options(menu), menu)
  <2>1. Options(menu) = NetworkOptions /\ \A sel : Runs(menu, sel) = NetworkRuns(sel)
    BY <1>4 DEF Options, Runs
  <2>2. Len(NetworkOptions) = 10 /\ \A sel \in 0..9 : NetworkRuns(sel) = NetworkOptions[sel + 1]
    BY DEF NetworkOptions, NetworkRuns, Chain
  <2>3. NetworkRuns(-1) = Last(NetworkOptions)
    BY DEF NetworkOptions, NetworkRuns, Chain, Last
  <2>4. QED
    BY <2>1, <2>2, <2>3 DEF Agrees
<1>5. ASSUME menu = "socket" PROVE Agrees(Options(menu), menu)
  <2>1. Options(menu) = SocketOptions /\ \A sel : Runs(menu, sel) = SocketRuns(sel)
    BY <1>5 DEF Options, Runs
  <2>2. Len(SocketOptions) = 5 /\ \A sel \in 0..4 : SocketRuns(sel) = SocketOptions[sel + 1]
    BY DEF SocketOptions, SocketRuns, Chain
  <2>3. SocketRuns(-1) = Last(SocketOptions)
    BY DEF SocketOptions, SocketRuns, Chain, Last
  <2>4. QED
    BY <2>1, <2>2, <2>3 DEF Agrees
<1>6. ASSUME menu = "chat" PROVE Agrees(Options(menu), menu)
  <2>1. Options(menu) = ChatOptions /\ \A sel : Runs(menu, sel) = ChatRuns(sel)
    BY <1>6 DEF Options, Runs
  <2>2. Len(ChatOptions) = 4 /\ \A sel \in 0..3 : ChatRuns(sel) = ChatOptions[sel + 1]
    BY DEF ChatOptions, ChatRuns, Chain
  <2>3. ChatRuns(-1) = Last(ChatOptions)
    BY DEF ChatOptions, ChatRuns, Chain, Last
  <2>4. QED
    BY <2>1, <2>2, <2>3 DEF Agrees
<1>7. ASSUME menu = "package" PROVE Agrees(Options(menu), menu)
  <2>1. Options(menu) = PackageOptions /\ \A sel : Runs(menu, sel) = PackageRuns(sel)
    BY <1>7 DEF Options, Runs
  <2>2. Len(PackageOptions) = 7 /\ \A sel \in 0..6 : PackageRuns(sel) = PackageOptions[sel + 1]
    BY DEF PackageOptions, PackageRuns, Chain
  <2>3. PackageRuns(-1) = Last(PackageOptions)
    BY DEF PackageOptions, PackageRuns, Chain, Last
  <2>4. QED
    BY <2>1, <2>2, <2>3 DEF Agrees
<1>8. ASSUME menu = "shell" PROVE Agrees(Options(menu), menu)
  <2>1. Options(menu) = ShellOptions /\ \A sel : Runs(menu, sel) = ShellRuns(sel)
    BY <1>8 DEF Options, Runs
  <2>2. Len(ShellOptions) = 8 /\ \A sel \in 0..7 : ShellRuns(sel) = ShellOptions[sel + 1]
    BY DEF ShellOptions, ShellRuns, Chain
  <2>3. ShellRuns(-1) = Last(ShellOptions)
    BY DEF ShellOptions, ShellRuns, Chain, Last
  <2>4. QED
    BY <2>1, <2>2, <2>3 DEF Agrees
<1>9. ASSUME menu = "script" PROVE Agrees(Options(menu), menu)
  <2>1. Options(menu) = ScriptOptions /\ \A sel : Runs(menu, sel) = ScriptRuns(sel)
    BY <1>9 DEF Options, Runs
  <2>2. Len(ScriptOptions) = 4 /\ \A sel \in 0..3 : ScriptRuns(sel) = ScriptOptions[sel + 1]
    BY DEF ScriptOptions, ScriptRuns, Chain
  <2>3. ScriptRuns(-1) = Last(ScriptOptions)
    BY DEF ScriptOptions, ScriptRuns, Chain, Last
  <2>4. QED
    BY <2>1, <2>2, <2>3 DEF Agrees
<1>10. ASSUME menu = "env" PROVE Agrees(Options(menu), menu)
  <2>1. Options(menu) = EnvOptions /\ \A sel : Runs(menu, sel) = EnvRuns(sel)
    BY <1>10 DEF Options, Runs
  <2>2. Len(EnvOptions) = 5 /\ \A sel \in 0..4 : EnvRuns(sel) = EnvOptions[sel + 1]
    BY DEF EnvOptions, EnvRuns, Chain
  <2>3. EnvRuns(-1) = Last(EnvOptions)
    BY DEF EnvOptions, EnvRuns, Chain, Last
  <2>4. QED
    BY <2>1, <2>2, <2>3 DEF Agrees
<1>11. ASSUME menu = "kernel" PROVE Agrees(Options(menu), menu)
  <2>1. Options(menu) = KernelOptions /\ \A sel : Runs(menu, sel) = KernelRuns(sel)
    BY <1>11 DEF Options, Runs
  <2>2. Len(KernelOptions) = 7 /\ \A sel \in 0..6 : KernelRuns(sel) = KernelOptions[sel + 1]
    BY DEF KernelOptions, KernelRuns, Chain
  <2>3. KernelRuns(-1) = Last(KernelOptions)
    BY DEF KernelOptions, KernelRuns, Chain, Last
  <2>4. QED
    BY <2>1, <2>2, <2>3 DEF Agrees
<1>12. QED
  BY <1>1, <1>2, <1>3, <1>4, <1>5, <1>6, <1>7, <1>8, <1>9, <1>10, <1>11 DEF MenuNames

LEMMA SubmenuNames ==
  ASSUME NEW menu \in MenuNames
  PROVE  /\ Submenus(menu) \subseteq MenuNames \ {"main"}
         /\ menu \in {"script", "chat"} => menu # "main"
BY DEF MenuNames, Submenus

MenuPlaces == {"menu", "menu.none", "menu.run", "menu.pause"}

\* The menus that are open: main's, and each the submenu of the one before.
Opened(menus) ==
  /\ menus \in Seq(MenuNames)
  /\ menus # <<>> => menus[1] = "main"
  /\ \A i \in 2..Len(menus) : menus[i] \in Submenus(menus[i - 1])

MenuInv ==
  /\ MenuTypeOK
  /\ Opened(open)
  /\ pc \in MenuPlaces => open # <<>>
  /\ LabelsRun

LEMMA OpenedLast ==
  ASSUME NEW menus, Opened(menus), menus # <<>>
  PROVE  /\ Len(menus) \in Nat /\ Len(menus) > 0
         /\ Last(menus) \in MenuNames /\ Last(menus) = menus[Len(menus)]
         /\ Agrees(Options(Last(menus)), Last(menus))
<1>1. menus \in Seq(MenuNames) /\ Len(menus) \in Nat /\ Len(menus) # 0
  BY EmptySeq, LenProperties DEF Opened
<1>2. Len(menus) > 0 /\ Last(menus) = menus[Len(menus)] /\ menus[Len(menus)] \in MenuNames
  BY <1>1, LenProperties DEF Last
<1>3. QED
  BY <1>1, <1>2, TablesAgree

\* The menu is left: those below it stay open.
LEMMA OpenedFront ==
  ASSUME NEW menus, Opened(menus), menus # <<>>
  PROVE  /\ Opened(Front(menus))
         /\ Last(menus) # "main" => Front(menus) # <<>>
<1>1. menus \in Seq(MenuNames) /\ Len(menus) \in Nat /\ Len(menus) > 0 /\ Last(menus) = menus[Len(menus)]
  BY OpenedLast DEF Opened
<1>2. /\ Front(menus) \in Seq(MenuNames) /\ Len(Front(menus)) = Len(menus) - 1
      /\ \A i \in 1..Len(menus) - 1 : Front(menus)[i] = menus[i]
      /\ Front(menus) = <<>> <=> Len(menus) = 1
  BY <1>1, FrontElements
<1> DEFINE n == Len(menus)
           f == Front(menus)
<1>3. /\ n \in Nat /\ n > 0 /\ Len(f) = n - 1 /\ f \in Seq(MenuNames)
      /\ \A i \in 1..n - 1 : f[i] = menus[i]
      /\ f = <<>> <=> n = 1
  BY <1>1, <1>2
<1>4. menus[1] = "main" /\ \A i \in 2..n : menus[i] \in Submenus(menus[i - 1])
  BY DEF Opened
<1>5. Last(menus) = menus[n]
  BY <1>1
<1> HIDE DEF n, f
<1>6. f # <<>> => f[1] = "main"
  BY <1>3, <1>4
<1>7. ASSUME NEW i \in 2..n - 1 PROVE f[i] \in Submenus(f[i - 1])
  BY <1>3, <1>4
<1>8. Last(menus) # "main" => f # <<>>
  BY <1>3, <1>4, <1>5
<1>9. QED
  BY <1>3, <1>6, <1>7, <1>8 DEF Opened, f

LEMMA OpenedAppend ==
  ASSUME NEW menus, Opened(menus), menus # <<>>, NEW menu \in Submenus(Last(menus))
  PROVE  Opened(Append(menus, menu)) /\ Append(menus, menu) # <<>>
<1>1. menus \in Seq(MenuNames) /\ Len(menus) \in Nat /\ Len(menus) > 0
      /\ Last(menus) = menus[Len(menus)] /\ Last(menus) \in MenuNames
  BY OpenedLast DEF Opened
<1>2. menu \in MenuNames
  BY <1>1, SubmenuNames
<1> DEFINE s == Append(menus, menu)
           n == Len(menus)
<1>3. /\ s \in Seq(MenuNames) /\ Len(s) = n + 1 /\ s[n + 1] = menu
      /\ \A i \in 1..n : s[i] = menus[i]
  BY <1>1, <1>2, AppendElements
<1>4. /\ n \in Nat /\ n > 0 /\ menus[1] = "main" /\ menu \in Submenus(menus[n])
      /\ \A i \in 2..n : menus[i] \in Submenus(menus[i - 1])
  BY <1>1 DEF Opened
<1> HIDE DEF s, n
<1>5. s[1] = "main" /\ s # <<>>
  BY <1>3, <1>4, EmptySeq
<1>6. ASSUME NEW i \in 2..n + 1 PROVE s[i] \in Submenus(s[i - 1])
  <2>1. CASE i = n + 1
    BY <1>3, <1>4, <2>1
  <2>2. CASE i \in 2..n
    BY <1>3, <1>4, <2>2
  <2>3. QED
    BY <1>4, <2>1, <2>2
<1>7. QED
  BY <1>3, <1>5, <1>6 DEF Opened, s

\* A menu is shown with its first option highlighted.
LEMMA ShowMenuStep ==
  ASSUME MenuInv, NEW menus, Opened(menus), ShowMenu(menus), UNCHANGED gone, LabelsRun'
  PROVE  MenuInv'
<1>1. /\ open' = menus /\ selected' = 0 /\ escape' = "no" /\ gone' \in BOOLEAN
      /\ pc' = IF menus = <<>> THEN "quit" ELSE IF gone THEN "menu.none" ELSE "menu"
  BY DEF ShowMenu, MenuInv, MenuTypeOK
<1>2. pc' = "menu" => selected' \in 0..Len(Options(Last(open'))) - 1
  <2> SUFFICES ASSUME pc' = "menu" PROVE 0 \in 0..Len(Options(Last(menus))) - 1
    BY <1>1
  <2>1. Agrees(Options(Last(menus)), Last(menus))
    BY <1>1, OpenedLast
  <2>2. QED
    BY <2>1 DEF Agrees
<1>3. MenuTypeOK'
  BY <1>1, <1>2 DEF MenuTypeOK, Opened
<1>4. QED
  BY <1>1, <1>3 DEF MenuInv, MenuPlaces

\* The menu stays, and the user may have to hit ENTER first.
LEMMA MenuStays ==
  ASSUME MenuInv, NEW menus, Opened(menus), menus # <<>>, open' = menus, LabelsRun',
         pc' \in {"menu.run", "menu.pause"}, UNCHANGED <<escape, gone>>
  PROVE  MenuInv'
BY DEF MenuInv, MenuTypeOK, MenuPlaces, Opened

LEMMA ChooseStep ==
  ASSUME MenuInv, pc \in {"menu", "menu.none"}, NEW sel, sel \in 0..Len(Options(Last(open))) - 1 \/ sel = -1, Choose(sel)
  PROVE  MenuInv'
<1> DEFINE menu == Last(open)
           runs == Runs(menu, sel)
<1>1. Opened(open) /\ open # <<>>
  BY DEF MenuInv, MenuPlaces
<1>2. menu \in MenuNames /\ Agrees(Options(menu), menu)
  BY <1>1, OpenedLast
<1>3. /\ ran' = [menu |-> menu, op |-> runs] /\ UNCHANGED gone
      /\ picked' = IF sel = -1 THEN Last(Options(menu)) ELSE Options(menu)[sel + 1]
  BY DEF Choose
<1>4. picked' = runs
  BY <1>2, <1>3 DEF Agrees
<1>5. LabelsRun'
  BY <1>3, <1>4 DEF LabelsRun
<1>6. \/ LeaveMenu
      \/ runs \in Submenus(menu) /\ ShowMenu(Append(open, runs))
      \/ pc' = "menu.run" /\ UNCHANGED <<open, selected, escape>>
  BY DEF Choose
<1> HIDE DEF runs, menu
<1>7. CASE LeaveMenu
  <2>1. Opened(Front(open))
    BY <1>1, OpenedFront
  <2>2. CASE Front(open) = <<"main">>
    <3>1. pc' = "menu.pause" /\ open' = Front(open) /\ UNCHANGED <<selected, escape>>
      BY <1>7, <2>2 DEF LeaveMenu
    <3>2. Front(open) # <<>>
      BY <2>2
    <3>3. QED
      BY <1>3, <1>5, <2>1, <3>1, <3>2, MenuStays
  <2>3. CASE Front(open) # <<"main">>
    BY <1>3, <1>5, <1>7, <2>1, <2>3, ShowMenuStep DEF LeaveMenu
  <2>4. QED
    BY <2>2, <2>3
<1>8. CASE runs \in Submenus(menu) /\ ShowMenu(Append(open, runs))
  BY <1>1, <1>3, <1>5, <1>8, OpenedAppend, ShowMenuStep DEF menu
<1>9. CASE pc' = "menu.run" /\ UNCHANGED <<open, selected, escape>>
  BY <1>1, <1>3, <1>5, <1>9, MenuStays
<1>10. QED
  BY <1>6, <1>7, <1>8, <1>9

LEMMA ReadByteStep ==
  ASSUME MenuInv, NEW b \in Byte, ReadByte(b)
  PROVE  MenuInv'
<1> DEFINE count == Len(Options(Last(open)))
<1>1. pc = "menu" /\ open # <<>> /\ Opened(open) /\ selected \in 0..count - 1
  BY DEF ReadByte, MenuInv, MenuPlaces, MenuTypeOK
<1>2. count \in Nat /\ count > 0
  BY <1>1, OpenedLast DEF Agrees
<1> HIDE DEF count
<1>3. ASSUME NEW so \in {"no", "ESC", "CSI", "lost"}, escape' = so,
             UNCHANGED <<pc, open, gone, picked, ran>>, selected' \in 0..count - 1
      PROVE  MenuInv'
  BY <1>3 DEF MenuInv, MenuTypeOK, MenuPlaces, LabelsRun, count
<1>4. CASE \E so \in {"no", "ESC", "CSI", "lost"} :
             escape' = so /\ UNCHANGED <<pc, told, open, selected, gone, picked, ran>>
  BY <1>1, <1>3, <1>4
<1>5. CASE Choose(selected) \/ Choose(-1)
  BY <1>1, <1>5, ChooseStep DEF count
<1>6. CASE Highlight(selected) \/ Highlight((selected + 1) % count)
             \/ Highlight((selected - 1 + count) % count)
  <2>1. (selected + 1) % count \in 0..count - 1 /\ (selected - 1 + count) % count \in 0..count - 1
    BY <1>1, <1>2
  <2>2. escape' = "no" /\ UNCHANGED <<pc, open, gone, picked, ran>> /\ selected' \in 0..count - 1
    BY <1>1, <1>6, <2>1 DEF Highlight
  <2>3. QED
    BY <1>3, <2>2
<1>7. escape \in {"no", "ESC", "CSI", "lost"}
  BY DEF MenuInv, MenuTypeOK
<1>8. \/ \E so \in {"no", "ESC", "CSI", "lost"} :
             escape' = so /\ UNCHANGED <<pc, told, open, selected, gone, picked, ran>>
      \/ Choose(selected) \/ Choose(-1)
      \/ Highlight(selected) \/ Highlight((selected + 1) % count)
      \/ Highlight((selected - 1 + count) % count)
  <2>1. CASE escape = "no"
    BY <2>1 DEF ReadByte, count
  <2>2. CASE escape = "ESC"
    BY <2>2 DEF ReadByte, count
  <2>3. CASE escape = "CSI"
    BY <2>3 DEF ReadByte, count
  <2>4. CASE escape = "lost"
    BY <2>4 DEF ReadByte, count
  <2>5. QED
    BY <1>7, <2>1, <2>2, <2>3, <2>4
<1>9. QED
  BY <1>4, <1>5, <1>6, <1>8

LEMMA OperationEndsStep ==
  ASSUME MenuInv, OperationEnds
  PROVE  MenuInv'
<1> DEFINE menu == Last(open)
           menus == IF menu \in {"script", "chat"} THEN Front(open) ELSE open
<1>1. open # <<>> /\ Opened(open) /\ LabelsRun /\ UNCHANGED <<told, gone, picked, ran>>
  BY DEF OperationEnds, MenuInv, MenuPlaces
<1>2. LabelsRun'
  BY <1>1 DEF LabelsRun
<1>3. menu \in MenuNames
  BY <1>1, OpenedLast
<1>4. Opened(menus) /\ menus # <<>>
  <2>1. CASE menu \in {"script", "chat"}
    <3>1. menu # "main"
      BY <2>1
    <3> HIDE DEF menu
    <3>2. Opened(Front(open)) /\ Front(open) # <<>>
      BY <1>1, <3>1, OpenedFront DEF menu
    <3>3. QED
      BY <2>1, <3>2
  <2>2. CASE menu \notin {"script", "chat"}
    BY <1>1, <2>2
  <2>3. QED
    BY <2>1, <2>2
<1>5. \/ ShowMenu(menus)
      \/ pc' = "menu.pause" /\ open' = menus /\ UNCHANGED <<selected, escape>>
  BY DEF OperationEnds
<1> HIDE DEF menus
<1>6. QED
  BY <1>1, <1>2, <1>4, <1>5, ShowMenuStep, MenuStays

LEMMA MenuInvStep == ASSUME MenuInv, [MenuNext]_menuVars PROVE MenuInv'
<1>1. CASE MenuStart
  <2>1. ShowMenu(<<"main">>) /\ UNCHANGED <<gone, picked, ran>>
    BY <1>1 DEF MenuStart
  <2>2. LabelsRun'
    BY <2>1 DEF MenuInv, LabelsRun
  <2>3. Opened(<<"main">>)
    BY DEF Opened, MenuNames
  <2>4. QED
    BY <2>1, <2>2, <2>3, ShowMenuStep
<1>2. CASE \E b \in Byte : ReadByte(b)
  BY <1>2, ReadByteStep
<1>3. CASE ReadFails \/ NoMenu
  BY <1>3, ChooseStep DEF ReadFails, NoMenu
<1>4. CASE Pause
  <2>1. ShowMenu(open) /\ UNCHANGED <<gone, picked, ran>>
    BY <1>4 DEF Pause
  <2>2. LabelsRun' /\ Opened(open)
    BY <2>1 DEF MenuInv, LabelsRun
  <2>3. QED
    BY <2>1, <2>2, ShowMenuStep
<1>5. CASE OperationEnds
  BY <1>5, OperationEndsStep
<1>6. CASE UNCHANGED menuVars
  BY <1>6 DEF menuVars, MenuInv, MenuTypeOK, MenuPlaces, LabelsRun
<1>7. CASE HangUp
  BY <1>7 DEF HangUp, MenuInv, MenuTypeOK, MenuPlaces, LabelsRun
<1>8. QED
  BY <1>1, <1>2, <1>3, <1>4, <1>5, <1>6, <1>7 DEF MenuNext, MenuUser, MenuCommands

LEMMA MenuInvInit == MenuInit => MenuInv
<1>1. Opened(<<>>)
  BY EmptySeq DEF Opened
<1>2. QED
  BY <1>1 DEF MenuInit, MenuInv, MenuTypeOK, MenuPlaces, LabelsRun, Opened

LEMMA MenuInvariant == MenuSpec => []MenuInv
<1>1. MenuInv /\ [MenuNext]_menuVars => MenuInv'
  BY MenuInvStep
<1>2. QED
  BY MenuInvInit, <1>1, PTL DEF MenuSpec

\* The menus that are open are main's and submenus, and the option highlighted
\* is one of the menu on the screen, after any keys (ui_select_menu).
THEOREM MenusTyped == MenuSpec => []MenuTypeOK
<1>1. MenuInv => MenuTypeOK
  BY DEF MenuInv
<1>2. QED
  BY MenuInvariant, <1>1, PTL

\* What runs is the option that was highlighted, after any keys and in any menu
\* (ui_select_menu, *_mgr_run).
THEOREM EveryLabelRuns == MenuSpec => []LabelsRun
<1>1. MenuInv => LabelsRun
  BY DEF MenuInv
<1>2. QED
  BY MenuInvariant, <1>1, PTL

-----------------------------------------------------------------------------
(* The parser: parser_tokenize, symbol by symbol.  S is the set of symbols. *)

Between(A) == [argv |-> A, in_quotes |-> FALSE, start |-> 0]
InWord(A, s) == [argv |-> A, in_quotes |-> FALSE, start |-> s]
InQuotes(A, s) == [argv |-> A, in_quotes |-> TRUE, start |-> s]

TokenStep(line, max, a, i) ==
  LET Complete == [argv |-> Append(a.argv, SubSeq(line, a.start, i - 1)),
                   in_quotes |-> FALSE, start |-> 0]
  IN IF Len(a.argv) >= max THEN a
     ELSE IF line[i] = Quote
     THEN IF a.in_quotes THEN Complete
          ELSE [argv |-> a.argv, in_quotes |-> TRUE, start |-> i + 1]
     ELSE IF line[i] = Space /\ ~a.in_quotes /\ a.start > 0 THEN Complete
     ELSE IF line[i] # Space /\ a.start = 0
     THEN [argv |-> a.argv, in_quotes |-> a.in_quotes, start |-> i]
     ELSE a

\* What the loop may hold: at most max words, and where the word begins that
\* is in quotation marks.
TokenStates(S, n, max) ==
  {a \in [argv : Seq(Seq(S)), in_quotes : BOOLEAN, start : 0..n + 1] :
     Len(a.argv) <= max /\ (a.in_quotes => a.start > 0)}

TokenLoop(line, max, S, after) ==
  /\ after[0] = Between(<<>>)
  /\ \A i \in 1..Len(line) : after[i] = TokenStep(line, max, after[i - 1], i)
  /\ \A i \in 0..Len(line) : after[i] \in TokenStates(S, Len(line), max)

\* A part of a line is a sequence of symbols.
LEMMA PartOfLine ==
  ASSUME NEW S, NEW line \in Seq(S), NEW m \in 1..Len(line) + 1, NEW k \in 0..Len(line)
  PROVE  SubSeq(line, m, k) \in Seq(S)
<1>1. Len(line) \in Nat /\ \A i \in 1..Len(line) : line[i] \in S
  BY LenProperties
<1>2. \A i \in m..k : line[i] \in S
  BY <1>1
<1>3. m \in Int /\ k \in Int
  BY <1>1
<1>4. QED
  BY <1>2, <1>3, SubSeqProperties

LEMMA TokenStepTyped ==
  ASSUME NEW S, NEW line \in Seq(S), NEW max \in Nat, NEW i \in 1..Len(line),
         NEW a \in TokenStates(S, Len(line), max)
  PROVE  TokenStep(line, max, a, i) \in TokenStates(S, Len(line), max)
<1> DEFINE n == Len(line)
           word == SubSeq(line, a.start, i - 1)
           Complete == [argv |-> Append(a.argv, word), in_quotes |-> FALSE, start |-> 0]
           Open == [argv |-> a.argv, in_quotes |-> TRUE, start |-> i + 1]
           Begin == [argv |-> a.argv, in_quotes |-> a.in_quotes, start |-> i]
           States == [argv : Seq(Seq(S)), in_quotes : BOOLEAN, start : 0..n + 1]
<1>1. /\ n \in Nat /\ a \in States /\ Len(a.argv) <= max /\ (a.in_quotes => a.start > 0)
      /\ Len(a.argv) \in Nat
  BY LenProperties DEF TokenStates
<1>0. /\ a = [argv |-> a.argv, in_quotes |-> a.in_quotes, start |-> a.start]
      /\ a.argv \in Seq(Seq(S)) /\ a.in_quotes \in BOOLEAN /\ a.start \in 0..n + 1
      /\ i \in 0..n + 1 /\ i > 0 /\ i + 1 \in 0..n + 1 /\ i + 1 > 0
  BY <1>1
<1>2. Open \in States /\ Len(Open.argv) = Len(a.argv) /\ Open.start > 0
  BY <1>0
<1>3. Begin \in States /\ Len(Begin.argv) = Len(a.argv) /\ Begin.start > 0
  BY <1>0
<1>4. ASSUME a.start > 0, ~ (Len(a.argv) >= max)
      PROVE  Complete \in States /\ Len(Complete.argv) <= max /\ Complete.in_quotes = FALSE
  <2>1. word \in Seq(S)
    <3>1. a.start \in 1..n + 1 /\ i - 1 \in 0..n
      BY <1>1, <1>4
    <3>2. QED
      BY <3>1, PartOfLine
  <2> HIDE DEF word
  <2>2. Append(a.argv, word) \in Seq(Seq(S)) /\ Len(Append(a.argv, word)) = Len(a.argv) + 1
    BY <1>1, <2>1, AppendElements
  <2>3. Len(a.argv) + 1 <= max
    BY <1>1, <1>4
  <2>4. Complete \in States /\ Complete.in_quotes = FALSE /\ Complete.argv = Append(a.argv, word)
    BY <1>1, <2>2
  <2>5. QED
    BY <2>2, <2>3, <2>4
<1> HIDE DEF Complete, Open, Begin, word
<1>5. /\ Open \in TokenStates(S, n, max)
      /\ Begin \in TokenStates(S, n, max)
      /\ (a.start > 0 /\ ~ (Len(a.argv) >= max)) => Complete \in TokenStates(S, n, max)
  BY <1>1, <1>2, <1>3, <1>4 DEF TokenStates
<1>6. \/ TokenStep(line, max, a, i) \in {a, Open, Begin}
      \/ TokenStep(line, max, a, i) = Complete /\ ~ (Len(a.argv) >= max) /\ (a.in_quotes \/ a.start > 0)
  BY Zenon DEF TokenStep, Complete, Open, Begin, word
<1>7. QED
  BY <1>1, <1>5, <1>6

LEMMA TokenLoops ==
  ASSUME NEW S, NEW line \in Seq(S), NEW max \in Nat
  PROVE  \E after :
           /\ TokenLoop(line, max, S, after)
           /\ LET end == after[Len(line)]
              IN Tokenize(line, max) = IF end.start > 0 /\ Len(end.argv) < max
                                       THEN Append(end.argv, SubSeq(line, end.start, Len(line)))
                                       ELSE end.argv
<1> DEFINE n == Len(line)
           Start == Between(<<>>)
           States == TokenStates(S, Len(line), max)
           after == CHOOSE h : h = [i \in 0..Len(line) |->
                      IF i = 0 THEN [argv |-> <<>>, in_quotes |-> FALSE, start |-> 0]
                      ELSE TokenStep(line, max, h[i - 1], i)]
<1>1. Tokenize(line, max) = IF after[n].start > 0 /\ Len(after[n].argv) < max
                            THEN Append(after[n].argv, SubSeq(line, after[n].start, n))
                            ELSE after[n].argv
  BY Zenon DEF Tokenize, TokenStep
<1>2. n \in Nat
  BY LenProperties
<1> DEFINE step == [x \in States \X (1..n) |-> TokenStep(line, max, x[1], x[2])]
<1>3. ASSUME NEW a \in States, NEW i \in 1..n
      PROVE  step[<<a, i>>] = TokenStep(line, max, a, i) /\ TokenStep(line, max, a, i) \in States
  BY TokenStepTyped
<1>4. step \in [States \X (1..n) -> States]
  BY <1>3
<1>5. Start \in States
  BY <1>2, EmptySeq DEF TokenStates, Between
<1> HIDE DEF n, step, States, Start
<1>6. PICK g \in [0..n -> States] : Computes(g, Start, step, n)
  BY <1>2, <1>4, <1>5, Recursion
<1>7. \A i \in 0..n : g[i] = IF i = 0 THEN Start ELSE TokenStep(line, max, g[i - 1], i)
  <2>1. ASSUME NEW i \in 0..n, i # 0 PROVE g[i] = TokenStep(line, max, g[i - 1], i)
    <3>1. i \in 1..n /\ i - 1 \in 0..n
      BY <1>2, <2>1
    <3>2. QED
      BY <1>3, <1>6, <3>1 DEF Computes
  <2>2. QED
    BY <1>6, <2>1 DEF Computes
<1>8. after = [i \in 0..n |-> IF i = 0 THEN Start ELSE TokenStep(line, max, after[i - 1], i)]
  <2>1. g = [i \in 0..n |-> IF i = 0 THEN Start ELSE TokenStep(line, max, g[i - 1], i)]
    BY <1>7, Zenon
  <2>2. QED
    BY <2>1, Zenon DEF Start, Between, n
<1> HIDE DEF after
<1>9. after[0] = Start /\ \A i \in 1..n : after[i] = TokenStep(line, max, after[i - 1], i)
  <2>1. 0 \in 0..n /\ \A i \in 1..n : i \in 0..n /\ i # 0
    BY <1>2
  <2>2. QED
    BY <1>8, <2>1
<1>10. \A i \in 0..n : after[i] \in States
  <2>1. Follows(after, Start, step, States, n)
    BY <1>3, <1>9 DEF Follows
  <2>2. QED
    BY <1>2, <1>4, <1>5, <2>1, LoopTyped
<1>11. TokenLoop(line, max, S, after)
  BY <1>9, <1>10 DEF TokenLoop, n, States, Start
<1>12. QED
  BY <1>1, <1>11 DEF n

\* No line has more than max words.
LEMMA TokensTyped ==
  ASSUME NEW S, NEW line \in Seq(S), NEW max \in Nat
  PROVE  Tokenize(line, max) \in Seq(Seq(S)) /\ Len(Tokenize(line, max)) <= max
<1> DEFINE n == Len(line)
<1>1. PICK after :
        /\ TokenLoop(line, max, S, after)
        /\ Tokenize(line, max) = IF after[n].start > 0 /\ Len(after[n].argv) < max
                                 THEN Append(after[n].argv, SubSeq(line, after[n].start, n))
                                 ELSE after[n].argv
  BY TokenLoops
<1>2. n \in Nat
  BY LenProperties
<1> DEFINE a == after[n]
<1>3. a \in TokenStates(S, n, max)
  BY <1>1, <1>2 DEF TokenLoop
<1> HIDE DEF a
<1>4. /\ a.argv \in Seq(Seq(S)) /\ a.start \in 0..n + 1 /\ Len(a.argv) <= max /\ Len(a.argv) \in Nat
  BY <1>3, LenProperties DEF TokenStates
<1>5. CASE a.start > 0 /\ Len(a.argv) < max
  <2>1. SubSeq(line, a.start, n) \in Seq(S)
    <3>1. a.start \in 1..n + 1 /\ n \in 0..n
      BY <1>2, <1>4, <1>5
    <3>2. QED
      BY <3>1, PartOfLine
  <2>2. Tokenize(line, max) = Append(a.argv, SubSeq(line, a.start, n))
    BY <1>1, <1>5 DEF a
  <2>3. QED
    BY <1>4, <1>5, <2>1, <2>2, AppendElements
<1>6. CASE ~ (a.start > 0 /\ Len(a.argv) < max)
  BY <1>1, <1>4, <1>6 DEF a
<1>7. QED
  BY <1>5, <1>6

-----------------------------------------------------------------------------
(* One symbol: what it does between words, in a word, and in quotation marks. *)

LEMMA MarksDiffer == Space # Quote
BY DEF Space, Quote

LEMMA StepFull ==
  ASSUME NEW line, NEW max \in Nat, NEW i, NEW a, Len(a.argv) >= max
  PROVE  TokenStep(line, max, a, i) = a
BY DEF TokenStep

LEMMA StepOpens ==
  ASSUME NEW line, NEW max \in Nat, NEW i, NEW A, Len(A) \in Nat, Len(A) < max, line[i] = Quote
  PROVE  TokenStep(line, max, Between(A), i) = InQuotes(A, i + 1)
BY DEF TokenStep, Between, InWord, InQuotes

LEMMA StepCloses ==
  ASSUME NEW line, NEW max \in Nat, NEW i, NEW A, NEW s, Len(A) \in Nat, Len(A) < max, line[i] = Quote
  PROVE  TokenStep(line, max, InQuotes(A, s), i)
           = Between(Append(A, SubSeq(line, s, i - 1)))
BY DEF TokenStep, Between, InWord, InQuotes

LEMMA StepEnds ==
  ASSUME NEW line, NEW max \in Nat, NEW i, NEW A, NEW s \in Nat, s > 0, Len(A) \in Nat, Len(A) < max,
         line[i] = Space
  PROVE  TokenStep(line, max, InWord(A, s), i)
           = Between(Append(A, SubSeq(line, s, i - 1)))
BY MarksDiffer DEF TokenStep, Between, InWord, InQuotes

LEMMA StepSkips ==
  ASSUME NEW line, NEW max \in Nat, NEW i, NEW A, Len(A) \in Nat, line[i] = Space
  PROVE  TokenStep(line, max, Between(A), i) = Between(A)
BY MarksDiffer DEF TokenStep, Between, InWord, InQuotes

LEMMA StepBegins ==
  ASSUME NEW line, NEW max \in Nat, NEW i, NEW A, Len(A) \in Nat, Len(A) < max,
         line[i] # Space, line[i] # Quote
  PROVE  TokenStep(line, max, Between(A), i) = InWord(A, i)
BY DEF TokenStep, Between, InWord

LEMMA StepInWord ==
  ASSUME NEW line, NEW max \in Nat, NEW i, NEW A, NEW s \in Nat, s > 0,
         line[i] # Quote, line[i] # Space
  PROVE  TokenStep(line, max, InWord(A, s), i) = InWord(A, s)
BY DEF TokenStep, Between, InWord, InQuotes

LEMMA StepInQuotes ==
  ASSUME NEW line, NEW max \in Nat, NEW i, NEW A, NEW s \in Nat, s > 0, line[i] # Quote
  PROVE  TokenStep(line, max, InQuotes(A, s), i) = InQuotes(A, s)
BY DEF TokenStep, Between, InWord, InQuotes

\* What every step of a part of the line keeps is kept by the part.
Kept(after, a, p, r) == \A i \in p + 1..r : after[i - 1] = a => after[i] = a

LEMMA Keeps ==
  ASSUME NEW p \in Nat, NEW r \in Nat, p <= r, NEW after, NEW a, after[p] = a,
         Kept(after, a, p, r)
  PROVE  after[r] = a
<1> DEFINE Good == {j \in 0..r - p : after[p + j] = a}
<1>1. 0 \in Good
  OBVIOUS
<1>2. ASSUME NEW j \in 1..r - p, j - 1 \in Good PROVE j \in Good
  <2> DEFINE i == p + j
  <2>1. i \in p + 1..r /\ p + (j - 1) = i - 1 /\ j \in 0..r - p
    OBVIOUS
  <2> HIDE DEF i
  <2>2. after[i - 1] = a
    BY <1>2, <2>1
  <2>3. after[i] = a
    BY <2>1, <2>2 DEF Kept
  <2>4. QED
    BY <2>1, <2>3 DEF i
<1> HIDE DEF Good
<1>3. r - p \in Nat /\ r - p \in 0..r - p /\ p + (r - p) = r
  OBVIOUS
<1>4. r - p \in Good
  BY <1>1, <1>2, <1>3, UpTo
<1>5. QED
  BY <1>3, <1>4 DEF Good

-----------------------------------------------------------------------------
(* Parts of a line: spaces, a word, a word in quotation marks.              *)

\* The symbols behind position p of the line are those of w.
Holds(line, p, w) ==
  p + Len(w) <= Len(line) /\ \A j \in 1..Len(w) : line[p + j] = w[j]

LEMMA HoldsPart ==
  ASSUME NEW S, NEW line \in Seq(S), NEW w \in Seq(S), NEW p \in Nat, Holds(line, p, w)
  PROVE  SubSeq(line, p + 1, p + Len(w)) = w
<1> DEFINE n == Len(w)
           u == SubSeq(line, p + 1, p + n)
<1>1. n \in Nat /\ Len(line) \in Nat /\ p + n <= Len(line) /\ \A j \in 1..n : line[p + j] = w[j]
  BY LenProperties DEF Holds
<1>2. \A j \in p + 1..p + n : line[j] \in S
  BY <1>1, LenProperties
<1> HIDE DEF n
<1>3. /\ u \in Seq(S) /\ Len(u) = IF p + 1 <= p + n THEN p + n - (p + 1) + 1 ELSE 0
      /\ \A i \in 1..p + n - (p + 1) + 1 : u[i] = line[p + 1 + i - 1]
  BY <1>1, <1>2, SubSeqProperties
<1> HIDE DEF u
<1>4. Len(u) = n
  BY <1>1, <1>3
<1>5. ASSUME NEW i \in 1..n PROVE u[i] = w[i]
  <2>1. i \in 1..p + n - (p + 1) + 1 /\ p + 1 + i - 1 = p + i
    BY <1>1
  <2>2. u[i] = line[p + i]
    BY <1>3, <2>1
  <2>3. QED
    BY <1>1, <2>2
<1>6. u = w
  BY <1>3, <1>4, <1>5, SeqEqual DEF n
<1>7. QED
  BY <1>6 DEF u, n

NoMarks(w) == \A j \in 1..Len(w) : w[j] # Space /\ w[j] # Quote
NoQuotes(w) == \A j \in 1..Len(w) : w[j] # Quote

\* A word without spaces and quotation marks has begun, and not yet ended.
LEMMA PlainPart ==
  ASSUME NEW S, NEW line \in Seq(S), NEW max \in Nat, NEW after, TokenLoop(line, max, S, after),
         NEW A \in Seq(Seq(S)), Len(A) < max, NEW w \in Seq(S), NEW p \in Nat, Holds(line, p, w), w # <<>>,
         NoMarks(w), after[p] = Between(A)
  PROVE  after[p + Len(w)] = InWord(A, p + 1)
<1> DEFINE n == Len(w)
<1>1. /\ n \in Nat /\ n > 0 /\ Len(line) \in Nat /\ p + n <= Len(line) /\ Len(A) \in Nat
      /\ \A j \in 1..n : line[p + j] = w[j] /\ w[j] # Space /\ w[j] # Quote
  <2>1. n \in Nat /\ n # 0
    BY LenProperties, EmptySeq
  <2>2. QED
    BY <2>1, LenProperties DEF Holds, NoMarks
<1> HIDE DEF n
<1>2. ASSUME NEW i \in p + 1..p + n
      PROVE  line[i] # Space /\ line[i] # Quote /\ after[i] = TokenStep(line, max, after[i - 1], i)
  <2>1. i \in 1..Len(line)
    BY <1>1
  <2> DEFINE j == i - p
  <2>2. j \in 1..n /\ p + j = i
    BY <1>1
  <2> HIDE DEF j
  <2>3. line[i] # Space /\ line[i] # Quote
    BY <1>1, <2>2
  <2>4. QED
    BY <2>1, <2>3 DEF TokenLoop
<1>3. after[p + 1] = InWord(A, p + 1)
  <2> DEFINE i == p + 1
  <2>1. i \in p + 1..p + n /\ i - 1 = p
    BY <1>1
  <2> HIDE DEF i
  <2>2. /\ line[i] # Space /\ line[i] # Quote
        /\ after[i] = TokenStep(line, max, Between(A), i)
    BY <1>2, <2>1
  <2>3. after[i] = InWord(A, i)
    BY <1>1, <2>2, StepBegins
  <2>4. QED
    BY <2>3 DEF i
<1>4. Kept(after, InWord(A, p + 1), p + 1, p + n)
  <2> SUFFICES ASSUME NEW i \in p + 1 + 1..p + n, after[i - 1] = InWord(A, p + 1)
               PROVE  after[i] = InWord(A, p + 1)
    BY DEF Kept
  <2>1. i \in p + 1..p + n /\ p + 1 \in Nat /\ p + 1 > 0
    BY <1>1
  <2>2. after[i] = TokenStep(line, max, InWord(A, p + 1), i) /\ line[i] # Quote /\ line[i] # Space
    BY <1>2, <2>1
  <2>3. QED
    BY <2>1, <2>2, StepInWord
<1>5. p + 1 \in Nat /\ p + n \in Nat /\ p + 1 <= p + n
  BY <1>1
<1>6. after[p + n] = InWord(A, p + 1)
  BY <1>3, <1>4, <1>5, Keeps
<1>7. QED
  BY <1>6 DEF n

\* Spaces between words.
LEMMA SpacesPart ==
  ASSUME NEW S, NEW line \in Seq(S), NEW max \in Nat, NEW after, TokenLoop(line, max, S, after),
         NEW A, Len(A) \in Nat, NEW p \in Nat, NEW r \in Nat, p <= r, r <= Len(line),
         \A i \in p + 1..r : line[i] = Space, after[p] = Between(A)
  PROVE  after[r] = Between(A)
<1>1. Len(line) \in Nat
  BY LenProperties
<1>2. Kept(after, Between(A), p, r)
  <2> SUFFICES ASSUME NEW i \in p + 1..r, after[i - 1] = Between(A) PROVE after[i] = Between(A)
    BY DEF Kept
  <2>1. i \in 1..Len(line) /\ line[i] = Space
    BY <1>1
  <2>2. after[i] = TokenStep(line, max, Between(A), i)
    BY <2>1 DEF TokenLoop
  <2>3. QED
    BY <2>1, <2>2, StepSkips
<1>3. QED
  BY <1>2, Keeps

\* When max words are there, the loop changes nothing more.
LEMMA FullPart ==
  ASSUME NEW S, NEW line \in Seq(S), NEW max \in Nat, NEW after, TokenLoop(line, max, S, after),
         NEW p \in Nat, NEW r \in Nat, p <= r, r <= Len(line), Len(after[p].argv) >= max
  PROVE  after[r] = after[p]
<1> DEFINE a == after[p]
<1>1. Len(line) \in Nat
  BY LenProperties
<1>2. Kept(after, a, p, r)
  <2> SUFFICES ASSUME NEW i \in p + 1..r, after[i - 1] = a PROVE after[i] = a
    BY DEF Kept
  <2>1. i \in 1..Len(line)
    BY <1>1
  <2>2. after[i] = TokenStep(line, max, a, i)
    BY <2>1 DEF TokenLoop
  <2>3. QED
    BY <2>2, StepFull
<1> HIDE DEF a
<1>3. after[p] = a
  BY DEF a
<1>4. after[r] = a
  BY <1>2, <1>3, Keeps
<1>5. QED
  BY <1>4 DEF a

\* A word in quotation marks is complete behind the second one.
LEMMA QuotedPart ==
  ASSUME NEW S, NEW line \in Seq(S), NEW max \in Nat, NEW after, TokenLoop(line, max, S, after),
         NEW A \in Seq(Seq(S)), Len(A) < max, NEW w \in Seq(S), NEW p \in Nat,
         p + Len(w) + 2 <= Len(line), line[p + 1] = Quote, line[p + Len(w) + 2] = Quote,
         Holds(line, p + 1, w), NoQuotes(w), after[p] = Between(A)
  PROVE  after[p + Len(w) + 2] = Between(Append(A, w))
<1> DEFINE n == Len(w)
<1>1. /\ n \in Nat /\ Len(line) \in Nat /\ p + n + 2 <= Len(line) /\ Len(A) \in Nat
      /\ line[p + n + 2] = Quote
      /\ \A j \in 1..n : line[p + 1 + j] = w[j] /\ w[j] # Quote
  BY LenProperties DEF Holds, NoQuotes
<1>2. SubSeq(line, p + 2, p + n + 1) = w
  <2>1. p + 1 \in Nat /\ p + 1 + 1 = p + 2 /\ p + 1 + n = p + n + 1
    BY <1>1
  <2>2. SubSeq(line, p + 1 + 1, p + 1 + Len(w)) = w
    BY <2>1, HoldsPart
  <2>3. QED
    BY <2>1, <2>2 DEF n
<1> HIDE DEF n
<1>3. after[p + 1] = InQuotes(A, p + 2)
  <2> DEFINE i == p + 1
  <2>1. i \in 1..Len(line) /\ i - 1 = p /\ line[i] = Quote
    BY <1>1
  <2>2. i + 1 = p + 2
    OBVIOUS
  <2> HIDE DEF i
  <2>3. after[i] = TokenStep(line, max, Between(A), i)
    BY <2>1 DEF TokenLoop
  <2>4. after[i] = InQuotes(A, i + 1)
    BY <1>1, <2>1, <2>3, StepOpens
  <2>5. QED
    BY <2>2, <2>4 DEF i
<1>4. Kept(after, InQuotes(A, p + 2), p + 1, p + n + 1)
  <2> SUFFICES ASSUME NEW i \in p + 1 + 1..p + n + 1, after[i - 1] = InQuotes(A, p + 2)
               PROVE  after[i] = InQuotes(A, p + 2)
    BY DEF Kept
  <2> DEFINE j == i - (p + 1)
  <2>1. i \in 1..Len(line)
    <3>1. i \in Nat /\ i >= 1 /\ i <= p + n + 1
      BY <1>1
    <3>2. QED
      BY <1>1, <3>1
  <2>2. j \in 1..n /\ p + 1 + j = i
    BY <1>1
  <2> HIDE DEF j
  <2>3. line[i] # Quote
    BY <1>1, <2>2
  <2>4. after[i] = TokenStep(line, max, InQuotes(A, p + 2), i)
    BY <2>1 DEF TokenLoop
  <2>5. p + 2 \in Nat /\ p + 2 > 0
    OBVIOUS
  <2>6. QED
    BY <2>3, <2>4, <2>5, StepInQuotes
<1>5. p + 1 \in Nat /\ p + n + 1 \in Nat /\ p + 1 <= p + n + 1
  BY <1>1
<1>6. after[p + n + 1] = InQuotes(A, p + 2)
  BY <1>3, <1>4, <1>5, Keeps
<1>7. after[p + n + 2] = Between(Append(A, w))
  <2> DEFINE i == p + n + 2
  <2>1. i \in 1..Len(line) /\ i - 1 = p + n + 1 /\ line[i] = Quote
    BY <1>1
  <2> HIDE DEF i
  <2>2. after[i] = TokenStep(line, max, InQuotes(A, p + 2), i)
    BY <1>6, <2>1 DEF TokenLoop
  <2>3. after[i] = Between(Append(A, SubSeq(line, p + 2, i - 1)))
    BY <1>1, <2>1, <2>2, StepCloses
  <2>4. QED
    BY <1>2, <2>1, <2>3 DEF i
<1>8. QED
  BY <1>7 DEF n

-----------------------------------------------------------------------------
(* A line that spells words, whoever made it: word k ends at position q[k],  *)
(* behind spaces and, from the second on, behind at least one.              *)

PlainAt(line, p, w, r) == w # <<>> /\ NoMarks(w) /\ Holds(line, p, w) /\ r = p + Len(w)
QuotedAt(line, p, w, r) ==
  /\ NoQuotes(w) /\ Holds(line, p + 1, w) /\ r = p + Len(w) + 2 /\ r <= Len(line)
  /\ line[p + 1] = Quote /\ line[r] = Quote

SpeltWord(line, p, w, r) == PlainAt(line, p, w, r) \/ QuotedAt(line, p, w, r)

OnlySpaces(line, p, r) == \A i \in p + 1..r : line[i] = Space

Spells(line, ws, q) ==
  /\ q[0] = 0 /\ q[Len(ws)] = Len(line)
  /\ \A k \in 0..Len(ws) : q[k] \in 0..Len(line)
  /\ \A k \in 1..Len(ws) :
       \E p \in Nat : /\ q[k - 1] <= p /\ p <= q[k] /\ OnlySpaces(line, q[k - 1], p)
                      /\ k > 1 => q[k - 1] < p
                      /\ SpeltWord(line, p, ws[k], q[k])

First(ws, k) == SubSeq(ws, 1, k)

LEMMA FirstWords ==
  ASSUME NEW T, NEW ws \in Seq(T), NEW k \in 0..Len(ws)
  PROVE  /\ First(ws, k) \in Seq(T) /\ Len(First(ws, k)) = k
         /\ First(ws, 0) = <<>> /\ First(ws, Len(ws)) = ws
         /\ k > 0 => First(ws, k) = Append(First(ws, k - 1), ws[k])
<1>1. Len(ws) \in Nat /\ \A i \in 1..Len(ws) : ws[i] \in T
  BY LenProperties
<1>2. ASSUME NEW j \in 0..Len(ws)
      PROVE  /\ First(ws, j) \in Seq(T) /\ Len(First(ws, j)) = j
             /\ \A i \in 1..j : First(ws, j)[i] = ws[i]
  <2>1. j \in Int /\ 1 \in Int /\ \A i \in 1..j : ws[i] \in T
    BY <1>1
  <2> DEFINE u == SubSeq(ws, 1, j)
  <2>2. /\ u \in Seq(T) /\ Len(u) = IF 1 <= j THEN j - 1 + 1 ELSE 0
        /\ \A i \in 1..j - 1 + 1 : u[i] = ws[1 + i - 1]
    BY <2>1, SubSeqProperties
  <2> HIDE DEF u
  <2>3. Len(u) = j
    BY <1>1, <2>2
  <2>4. \A i \in 1..j : i \in 1..j - 1 + 1 /\ 1 + i - 1 = i
    BY <1>1
  <2>5. QED
    BY <2>2, <2>3, <2>4 DEF First, u
<1>3. First(ws, 0) = <<>>
  BY <1>1, <1>2, EmptySeq
<1>4. First(ws, Len(ws)) = ws
  BY SubSeqFull DEF First
<1>5. ASSUME k > 0 PROVE First(ws, k) = Append(First(ws, k - 1), ws[k])
  <2>1. k - 1 \in 0..Len(ws) /\ ws[k] \in T /\ k - 1 + 1 = k
    BY <1>1, <1>5
  <2> DEFINE f == First(ws, k - 1)
             g == Append(f, ws[k])
  <2>2. f \in Seq(T) /\ Len(f) = k - 1 /\ \A i \in 1..k - 1 : f[i] = ws[i]
    BY <1>2, <2>1
  <2> HIDE DEF f
  <2>3. g \in Seq(T) /\ Len(g) = k /\ g[k] = ws[k] /\ \A i \in 1..k - 1 : g[i] = f[i]
    BY <2>1, <2>2, AppendElements
  <2> HIDE DEF g
  <2>4. First(ws, k) \in Seq(T) /\ Len(First(ws, k)) = k /\ \A i \in 1..k : First(ws, k)[i] = ws[i]
    BY <1>2
  <2>5. \A i \in 1..k : g[i] = ws[i]
    BY <1>1, <2>2, <2>3
  <2>6. First(ws, k) = g
    BY <2>3, <2>4, <2>5, SeqEqual
  <2>7. QED
    BY <2>6 DEF f, g
<1>6. QED
  BY <1>2, <1>3, <1>4, <1>5

LEMMA FirstElements ==
  ASSUME NEW T, NEW ws \in Seq(T), NEW k \in 0..Len(ws)
  PROVE  Len(First(ws, k)) = k /\ \A i \in 1..k : First(ws, k)[i] = ws[i]
<1> DEFINE u == SubSeq(ws, 1, k)
<1>1. k \in Int /\ 1 \in Int /\ \A i \in 1..k : ws[i] \in T
  BY LenProperties
<1>2. \A i \in 1..k - 1 + 1 : u[i] = ws[1 + i - 1]
  BY <1>1, SubSeqProperties
<1> HIDE DEF u
<1>3. \A i \in 1..k : i \in 1..k - 1 + 1 /\ 1 + i - 1 = i
  BY LenProperties
<1>4. \A i \in 1..k : First(ws, k)[i] = ws[i]
  BY <1>2, <1>3 DEF First, u
<1>5. QED
  BY <1>4, FirstWords

\* What parser_tokenize has when k of the words are behind it: the words, or
\* all but the last, which has not yet ended, or as many as it takes.
Has(line, max, ws, a, k, r) ==
  \/ k <= max /\ a = Between(First(ws, k))
  \/ /\ k <= max /\ k > 0
     /\ \E s \in 1..r : a = InWord(First(ws, k - 1), s) /\ SubSeq(line, s, r) = ws[k]
  \/ k > max /\ a.argv = First(ws, max)

\* A space ends the word that has not yet ended.
LEMMA SpacesBehind ==
  ASSUME NEW S, NEW line \in Seq(S), NEW max \in Nat, NEW after, TokenLoop(line, max, S, after),
         NEW ws \in Seq(Seq(S)), NEW k \in 0..Len(ws), k <= max, NEW r \in 0..Len(line),
         Has(line, max, ws, after[r], k, r),
         NEW p \in Nat, r <= p, p <= Len(line), k > 0 => r < p, OnlySpaces(line, r, p)
  PROVE  after[p] = Between(First(ws, k))
<1> DEFINE F == First(ws, k)
           B == First(ws, k - 1)
<1>1. Len(line) \in Nat /\ Len(ws) \in Nat /\ r \in Nat
  BY LenProperties
<1>2. Len(F) = k /\ (k > 0 => F = Append(B, ws[k]))
  BY FirstWords
<1>3. k > 0 => Len(B) = k - 1
  <2>1. ASSUME k > 0 PROVE k - 1 \in 0..Len(ws)
    BY <1>1, <2>1
  <2>2. QED
    BY <2>1, FirstWords
<1> HIDE DEF F, B
<1>4. \A i \in r + 1..p : line[i] = Space
  BY DEF OnlySpaces
<1>5. CASE after[r] = Between(F)
  <2>1. Len(F) \in Nat
    BY <1>1, <1>2
  <2>2. after[p] = Between(F)
    BY <1>1, <1>4, <1>5, <2>1, SpacesPart
  <2>3. QED
    BY <2>2 DEF F
<1>6. CASE after[r] # Between(F)
  <2>1. k > 0 /\ \E s \in 1..r : after[r] = InWord(B, s) /\ SubSeq(line, s, r) = ws[k]
    BY <1>1, <1>6 DEF Has, F, B
  <2>2. PICK s \in 1..r : after[r] = InWord(B, s) /\ SubSeq(line, s, r) = ws[k]
    BY <2>1
  <2> DEFINE i == r + 1
  <2>3. /\ i \in 1..Len(line) /\ i - 1 = r /\ line[i] = Space /\ i \in Nat /\ i <= p
        /\ \A j \in i + 1..p : line[j] = Space
    BY <1>1, <1>4, <2>1
  <2> HIDE DEF i
  <2>4. after[i] = TokenStep(line, max, InWord(B, s), i)
    BY <2>2, <2>3 DEF TokenLoop
  <2>5. Len(B) \in Nat /\ Len(B) < max /\ s \in Nat /\ s > 0 /\ Len(F) \in Nat
    BY <1>1, <1>2, <1>3, <2>1
  <2>6. after[i] = Between(Append(B, SubSeq(line, s, i - 1)))
    BY <2>3, <2>4, <2>5, StepEnds
  <2>7. after[i] = Between(F)
    BY <1>2, <2>1, <2>2, <2>3, <2>6
  <2>8. after[p] = Between(F)
    BY <2>3, <2>5, <2>7, SpacesPart
  <2>9. QED
    BY <2>8 DEF F
<1>7. QED
  BY <1>5, <1>6

\* One word more.
LEMMA HasNext ==
  ASSUME NEW S, NEW line \in Seq(S), NEW max \in Nat, NEW after, TokenLoop(line, max, S, after),
         NEW ws \in Seq(Seq(S)), NEW q, Spells(line, ws, q), NEW k \in 1..Len(ws),
         Has(line, max, ws, after[q[k - 1]], k - 1, q[k - 1])
  PROVE  Has(line, max, ws, after[q[k]], k, q[k])
<1> DEFINE n == Len(line)
           h == k - 1
           r == q[h]
           e == q[k]
           B == First(ws, h)
           w == ws[k]
<1>1. /\ n \in Nat /\ Len(ws) \in Nat /\ k \in 0..Len(ws) /\ h \in 0..Len(ws)
      /\ h \in Nat /\ k \in Nat /\ h + 1 = k
  BY LenProperties
<1>2. r \in 0..n /\ e \in 0..n /\ r \in Nat /\ e \in Nat
  BY <1>1 DEF Spells
<1>3. PICK p \in Nat : /\ r <= p /\ p <= e /\ OnlySpaces(line, r, p) /\ (k > 1 => r < p)
                       /\ SpeltWord(line, p, w, e)
  BY DEF Spells
<1>4. w \in Seq(S) /\ Len(w) \in Nat
  BY LenProperties
<1>5. B \in Seq(Seq(S)) /\ Len(B) = h /\ First(ws, k) = Append(B, w)
  <2>1. k > 0
    BY <1>1
  <2> HIDE DEF B, w, h
  <2>2. First(ws, h) \in Seq(Seq(S)) /\ Len(First(ws, h)) = h
    BY <1>1, FirstWords
  <2>3. First(ws, k) = Append(First(ws, k - 1), ws[k])
    BY <1>1, <2>1, FirstWords
  <2>4. QED
    BY <2>2, <2>3 DEF B, w, h
<1>6. Has(line, max, ws, after[r], h, r)
  OBVIOUS
<1> HIDE DEF n, h, r, e, w
<1>7. CASE h > max
  <2>1. max \in 0..Len(ws) /\ ~ (h <= max) /\ k > max
    BY <1>1, <1>7
  <2>2. after[r].argv = First(ws, max) /\ Len(First(ws, max)) = max
    BY <1>6, <2>1, FirstWords DEF Has
  <2>3. Len(after[r].argv) >= max /\ r <= e /\ e <= Len(line)
    BY <1>2, <1>3, <2>2 DEF n
  <2>4. after[e] = after[r]
    BY <1>2, <2>3, FullPart
  <2>5. Has(line, max, ws, after[e], k, e)
    BY <2>1, <2>2, <2>4 DEF Has
  <2>6. QED
    BY <2>5 DEF e
<1>8. CASE h <= max
  <2>1. p <= Len(line) /\ (h > 0 => r < p) /\ r \in 0..Len(line)
    BY <1>1, <1>2, <1>3 DEF n
  <2>2. after[p] = Between(B)
    BY <1>1, <1>3, <1>6, <1>8, <2>1, SpacesBehind
  <2> HIDE DEF B
  <2>3. CASE h = max
    <3>1. after[p].argv = B
      BY <2>2 DEF Between
    <3>2. Len(after[p].argv) >= max /\ p <= e /\ e <= Len(line)
      BY <1>2, <1>3, <1>5, <2>3, <3>1 DEF n
    <3>3. after[e] = after[p]
      BY <1>2, <3>2, FullPart
    <3>4. k > max /\ after[e].argv = First(ws, max)
      BY <1>1, <2>3, <3>1, <3>3 DEF B
    <3>5. Has(line, max, ws, after[e], k, e)
      BY <3>4 DEF Has
    <3>6. QED
      BY <3>5 DEF e
  <2>4. CASE h < max
    <3>1. Len(B) < max /\ k <= max /\ k > 0
      BY <1>1, <1>5, <2>4
    <3>2. CASE PlainAt(line, p, w, e)
      <4>1. w # <<>> /\ Holds(line, p, w) /\ e = p + Len(w) /\ NoMarks(w)
        BY <3>2 DEF PlainAt
      <4>2. after[p + Len(w)] = InWord(B, p + 1)
        BY SMTT(30), <1>4, <1>5, <2>2, <3>1, <4>1, PlainPart
      <4>3. SubSeq(line, p + 1, p + Len(w)) = w
        BY <1>4, <4>1, HoldsPart
      <4>4. p + 1 \in 1..e
        <5>1. Len(w) # 0
          BY <1>4, <4>1, EmptySeq
        <5>2. QED
          BY <1>4, <4>1, <5>1
      <4>5. after[e] = InWord(First(ws, k - 1), p + 1) /\ SubSeq(line, p + 1, e) = ws[k]
        BY <4>1, <4>2, <4>3 DEF B, h, w
      <4>6. Has(line, max, ws, after[e], k, e)
        BY <3>1, <4>4, <4>5 DEF Has
      <4>7. QED
        BY <4>6 DEF e
    <3>3. CASE QuotedAt(line, p, w, e)
      <4>1. /\ NoQuotes(w) /\ Holds(line, p + 1, w) /\ e = p + Len(w) + 2 /\ e <= Len(line)
            /\ line[p + 1] = Quote /\ line[e] = Quote
        BY <3>3 DEF QuotedAt
      <4>2. p + Len(w) + 2 <= Len(line) /\ line[p + Len(w) + 2] = Quote
        BY <4>1
      <4>3. after[p + Len(w) + 2] = Between(Append(B, w))
        BY SMTT(30), <1>4, <1>5, <2>2, <3>1, <4>1, <4>2, QuotedPart
      <4>4. after[e] = Between(First(ws, k))
        BY <1>5, <4>1, <4>3
      <4>5. Has(line, max, ws, after[e], k, e)
        BY <3>1, <4>4 DEF Has
      <4>6. QED
        BY <4>5 DEF e
    <3>4. QED
      BY <1>3, <3>2, <3>3 DEF SpeltWord
  <2>5. QED
    BY <1>1, <1>8, <2>3, <2>4
<1>9. QED
  BY <1>1, <1>7, <1>8

\* parser_tokenize returns the words of the line that it takes.
LEMMA Retokenized ==
  ASSUME NEW S, NEW line \in Seq(S), NEW max \in Nat, NEW ws \in Seq(Seq(S)),
         NEW q, Spells(line, ws, q)
  PROVE  Tokenize(line, max) = First(ws, IF Len(ws) < max THEN Len(ws) ELSE max)
<1> DEFINE n == Len(line)
           m == Len(ws)
<1>1. n \in Nat /\ m \in Nat
  BY LenProperties
<1>2. PICK after :
        /\ TokenLoop(line, max, S, after)
        /\ Tokenize(line, max) = IF after[n].start > 0 /\ Len(after[n].argv) < max
                                 THEN Append(after[n].argv, SubSeq(line, after[n].start, n))
                                 ELSE after[n].argv
  BY TokenLoops
<1> DEFINE Good == {k \in 0..m : Has(line, max, ws, after[q[k]], k, q[k])}
<1>3. 0 \in Good
  <2>1. after[q[0]] = Between(First(ws, 0))
    BY <1>1, <1>2, FirstWords DEF TokenLoop, Spells
  <2>2. 0 <= max /\ 0 \in 0..m
    BY <1>1
  <2>3. QED
    BY <2>1, <2>2 DEF Has
<1>4. ASSUME NEW k \in 1..m, k - 1 \in Good PROVE k \in Good
  <2>1. Has(line, max, ws, after[q[k - 1]], k - 1, q[k - 1])
    BY <1>4
  <2>2. Has(line, max, ws, after[q[k]], k, q[k])
    BY <1>2, <2>1, HasNext
  <2>3. QED
    BY <1>1, <2>2
<1>5. \A k \in 1..m : k - 1 \in Good => k \in Good
  BY <1>4
<1> HIDE DEF Good, m
<1>6. m \in 0..m
  BY <1>1
<1>7. m \in Good
  BY <1>1, <1>3, <1>5, <1>6, UpTo
<1>8. Has(line, max, ws, after[n], m, n)
  BY <1>7 DEF Good, Spells, m
<1> DEFINE a == after[n]
<1>9. m \in 0..m /\ First(ws, m) = ws /\ Len(First(ws, m)) = m
  BY <1>1, FirstWords DEF m
<1>10. Tokenize(line, max) = IF a.start > 0 /\ Len(a.argv) < max
                            THEN Append(a.argv, SubSeq(line, a.start, n)) ELSE a.argv
  BY <1>2
<1>11. Has(line, max, ws, a, m, n)
  BY <1>8
<1> HIDE DEF n, m, a
<1>12. CASE m <= max /\ a = Between(First(ws, m))
  <2>1. a.start = 0 /\ a.argv = First(ws, m)
    BY <1>12 DEF Between
  <2>2. Tokenize(line, max) = First(ws, m)
    BY <1>10, <2>1
  <2>3. m = IF m < max THEN m ELSE max
    BY <1>1, <1>12
  <2>4. QED
    BY <2>2, <2>3 DEF m
<1>13. CASE /\ m <= max /\ m > 0
            /\ \E s \in 1..n : a = InWord(First(ws, m - 1), s) /\ SubSeq(line, s, n) = ws[m]
  <2>1. PICK s \in 1..n : a = InWord(First(ws, m - 1), s) /\ SubSeq(line, s, n) = ws[m]
    BY <1>13
  <2>2. m - 1 \in 0..m /\ m > 0
    BY <1>1, <1>13
  <2>3. Len(First(ws, m - 1)) = m - 1 /\ First(ws, m) = Append(First(ws, m - 1), ws[m])
    BY <1>9, <2>2, FirstWords DEF m
  <2>4. a.start = s /\ s > 0 /\ a.argv = First(ws, m - 1)
    BY <1>1, <2>1 DEF InWord
  <2>5. Len(a.argv) < max
    BY <1>1, <1>13, <2>3, <2>4
  <2>6. Tokenize(line, max) = First(ws, m)
    BY <1>10, <2>1, <2>3, <2>4, <2>5
  <2>7. m = IF m < max THEN m ELSE max
    BY <1>1, <1>13
  <2>8. QED
    BY <2>6, <2>7 DEF m
<1>14. CASE m > max /\ a.argv = First(ws, max)
  <2>1. max \in 0..m
    BY <1>1, <1>14
  <2>2. Len(a.argv) = max
    BY <1>14, <2>1, FirstWords DEF m
  <2>3. Tokenize(line, max) = First(ws, max)
    BY <1>10, <1>14, <2>2
  <2>4. max = IF m < max THEN m ELSE max
    BY <1>1, <1>14
  <2>5. QED
    BY <2>3, <2>4 DEF m
<1>15. QED
  BY <1>11, <1>12, <1>13, <1>14 DEF Has

-----------------------------------------------------------------------------
(* Lines that are made of words: LineOf, and JoinArguments.                 *)

InMarks(w) == <<Quote>> \o w \o <<Quote>>

\* A text that spells a word: the word itself, or the word in quotation marks.
TextOf(w, text) ==
  \/ text = w /\ w # <<>> /\ NoMarks(w)
  \/ text = InMarks(w) /\ NoQuotes(w)

JoinStep(gap, texts, a, i) == a \o (IF i = 1 THEN <<>> ELSE gap) \o texts[i]

GapSize(gap, i) == IF i = 1 THEN 0 ELSE Len(gap)

Joins(up, gap, texts, m) ==
  up[0] = <<>> /\ \A i \in 1..m : up[i] = JoinStep(gap, texts, up[i - 1], i)

BeginsWith(s, t) == Len(s) <= Len(t) /\ \A j \in 1..Len(s) : t[j] = s[j]

LEMMA InMarksParts ==
  ASSUME NEW S, Quote \in S, NEW w \in Seq(S)
  PROVE  /\ InMarks(w) \in Seq(S) /\ Len(InMarks(w)) = Len(w) + 2
         /\ InMarks(w)[1] = Quote /\ InMarks(w)[Len(w) + 2] = Quote
         /\ \A j \in 1..Len(w) : InMarks(w)[j + 1] = w[j]
<1> DEFINE n == Len(w)
           mark == <<Quote>>
           u == mark \o w
           v == u \o mark
<1>1. n \in Nat /\ mark \in Seq(S) /\ Len(mark) = 1 /\ mark[1] = Quote
  BY LenProperties
<1> HIDE DEF mark, n
<1>2. /\ u \in Seq(S) /\ Len(u) = 1 + n
      /\ \A i \in 1..1 + n : u[i] = IF i <= 1 THEN mark[i] ELSE w[i - 1]
  <2>1. /\ u \in Seq(S) /\ Len(u) = Len(mark) + Len(w)
        /\ \A i \in 1..Len(mark) + Len(w) : u[i] = IF i <= Len(mark) THEN mark[i] ELSE w[i - Len(mark)]
    BY <1>1, ConcatProperties
  <2> HIDE DEF u
  <2>2. QED
    BY <1>1, <2>1 DEF n
<1> HIDE DEF u
<1>3. /\ v \in Seq(S) /\ Len(v) = 1 + n + 1
      /\ \A i \in 1..1 + n + 1 : v[i] = IF i <= 1 + n THEN u[i] ELSE mark[i - (1 + n)]
  <2>1. v \in Seq(S) /\ Len(v) = Len(u) + Len(mark)
    BY <1>1, <1>2, ConcatProperties
  <2>2. \A i \in 1..Len(u) + Len(mark) : v[i] = IF i <= Len(u) THEN u[i] ELSE mark[i - Len(u)]
    BY <1>1, <1>2, ConcatProperties
  <2> HIDE DEF v
  <2>3. QED
    BY <1>1, <1>2, <2>1, <2>2
<1> HIDE DEF v
<1>4. v[1] = Quote
  <2>1. 1 \in 1..1 + n /\ 1 \in 1..1 + n + 1 /\ 1 <= 1 + n
    BY <1>1
  <2>2. QED
    BY <1>1, <1>2, <1>3, <2>1
<1>5. v[n + 2] = Quote
  <2>1. n + 2 \in 1..1 + n + 1 /\ ~ (n + 2 <= 1 + n) /\ n + 2 - (1 + n) = 1
    BY <1>1
  <2>2. QED
    BY <1>1, <1>3, <2>1
<1>6. ASSUME NEW j \in 1..n PROVE v[j + 1] = w[j]
  <2>1. /\ j + 1 \in 1..1 + n /\ j + 1 \in 1..1 + n + 1 /\ j + 1 <= 1 + n /\ ~ (j + 1 <= 1)
        /\ j + 1 - 1 = j
    BY <1>1
  <2>2. v[j + 1] = u[j + 1] /\ u[j + 1] = w[j]
    BY <1>2, <1>3, <2>1
  <2>3. QED
    BY <2>2
<1>7. Len(v) = n + 2
  BY <1>1, <1>3
<1>8. QED
  BY <1>3, <1>4, <1>5, <1>6, <1>7 DEF v, u, mark, n, InMarks

\* The n elements behind position p are the first of w.
PartIs(s, p, w, n) == \A j \in 1..n : s[p + j] = w[j]

\* What one more word adds to a line.
LEMMA JoinStepParts ==
  ASSUME NEW S, NEW gap \in Seq(S), NEW texts, NEW i \in Nat, texts[i] \in Seq(S), NEW a \in Seq(S),
         NEW b, b = JoinStep(gap, texts, a, i), NEW g, g = GapSize(gap, i)
  PROVE  /\ b \in Seq(S) /\ Len(b) = Len(a) + g + Len(texts[i]) /\ g \in Nat
         /\ BeginsWith(a, b)
         /\ PartIs(b, Len(a), gap, g) /\ PartIs(b, Len(a) + g, texts[i], Len(texts[i]))
<1> DEFINE space == IF i = 1 THEN <<>> ELSE gap
           text == texts[i]
           u == a \o space
           v == u \o text
           la == Len(a)
           lt == Len(text)
<1>1. /\ space \in Seq(S) /\ Len(space) = g /\ g \in Nat /\ la \in Nat /\ lt \in Nat
      /\ text \in Seq(S) /\ b = v /\ \A j \in 1..g : space[j] = gap[j]
  BY LenProperties, EmptySeq DEF JoinStep, GapSize
<1> HIDE DEF space, text, la, lt
<1>2. /\ u \in Seq(S) /\ Len(u) = la + g
      /\ \A j \in 1..la + g : u[j] = IF j <= la THEN a[j] ELSE space[j - la]
  <2>1. /\ u \in Seq(S) /\ Len(u) = Len(a) + Len(space)
        /\ \A j \in 1..Len(a) + Len(space) : u[j] = IF j <= Len(a) THEN a[j] ELSE space[j - Len(a)]
    BY <1>1, ConcatProperties
  <2> HIDE DEF u
  <2>2. QED
    BY <1>1, <2>1 DEF la
<1> HIDE DEF u
<1>3. /\ v \in Seq(S) /\ Len(v) = la + g + lt
      /\ \A j \in 1..la + g + lt : v[j] = IF j <= la + g THEN u[j] ELSE text[j - (la + g)]
  <2>1. v \in Seq(S) /\ Len(v) = Len(u) + Len(text)
    BY <1>1, <1>2, ConcatProperties
  <2>2. \A j \in 1..Len(u) + Len(text) : v[j] = IF j <= Len(u) THEN u[j] ELSE text[j - Len(u)]
    BY <1>1, <1>2, ConcatProperties
  <2> HIDE DEF v
  <2>3. QED
    BY <1>1, <1>2, <2>1, <2>2 DEF lt
<1> HIDE DEF v
<1>4. ASSUME NEW j \in 1..la PROVE v[j] = a[j]
  <2>1. j \in 1..la + g /\ j \in 1..la + g + lt /\ j <= la + g /\ j <= la
    BY <1>1
  <2>2. QED
    BY <1>2, <1>3, <2>1
<1>5. ASSUME NEW j \in 1..g PROVE v[la + j] = gap[j]
  <2> DEFINE x == la + j
  <2>1. x \in 1..la + g /\ x \in 1..la + g + lt /\ x <= la + g /\ ~ (x <= la) /\ x - la = j
    BY <1>1
  <2> HIDE DEF x
  <2>2. v[x] = u[x] /\ u[x] = space[x - la]
    BY <1>2, <1>3, <2>1
  <2>3. QED
    BY <1>1, <2>1, <2>2 DEF x
<1>6. ASSUME NEW j \in 1..lt PROVE v[la + g + j] = text[j]
  <2> DEFINE x == la + g + j
  <2>1. x \in 1..la + g + lt /\ ~ (x <= la + g) /\ x - (la + g) = j
    BY <1>1
  <2> HIDE DEF x
  <2>2. v[x] = text[x - (la + g)]
    BY <1>3, <2>1
  <2>3. QED
    BY <2>1, <2>2 DEF x
<1>7. BeginsWith(a, b)
  <2>1. Len(a) <= Len(v)
    BY <1>1, <1>3 DEF la
  <2>2. QED
    BY <1>1, <1>4, <2>1 DEF BeginsWith, la
<1>8. PartIs(b, la, gap, g) /\ PartIs(b, la + g, text, lt)
  BY <1>1, <1>5, <1>6 DEF PartIs
<1>9. QED
  BY <1>1, <1>3, <1>7, <1>8 DEF la, lt, text

Spacing(gap) == gap # <<>> /\ \A j \in 1..Len(gap) : gap[j] = Space

TextsIn(ws, texts, S) == \A i \in 1..Len(ws) : texts[i] \in Seq(S)
TextsOf(ws, texts) == \A i \in 1..Len(ws) : TextOf(ws[i], texts[i])

\* Where the line holds w behind p, so does a longer one that starts with it.
LEMMA BeginsWithHolds ==
  ASSUME NEW S, NEW s \in Seq(S), NEW t \in Seq(S), BeginsWith(s, t), NEW j \in 1..Len(s)
  PROVE  t[j] = s[j] /\ j \in 1..Len(t)
<1>1. Len(s) \in Nat /\ Len(t) \in Nat
  BY LenProperties
<1>2. QED
  BY <1>1 DEF BeginsWith

\* The lines before the last are beginnings of it.
LEMMA JoinStarts ==
  ASSUME NEW S, NEW ws \in Seq(Seq(S)), NEW gap \in Seq(S), NEW texts, TextsIn(ws, texts, S),
         NEW up, Joins(up, gap, texts, Len(ws))
  PROVE  \A k \in 0..Len(ws) : up[k] \in Seq(S) /\ BeginsWith(up[k], up[Len(ws)])
<1> DEFINE m == Len(ws)
<1>1. m \in Nat
  BY LenProperties
<1> DEFINE Good == {k \in 0..m : up[k] \in Seq(S)}
<1>2. 0 \in Good
  <2>1. up[0] = <<>> /\ <<>> \in Seq(S) /\ 0 \in 0..m
    BY <1>1, EmptySeq DEF Joins
  <2>2. QED
    BY <2>1
<1>3. ASSUME NEW k \in 1..m, k - 1 \in Good PROVE k \in Good /\ BeginsWith(up[k - 1], up[k])
  <2> DEFINE g == GapSize(gap, k)
             a == up[k - 1]
             b == up[k]
  <2>1. a \in Seq(S) /\ b = JoinStep(gap, texts, a, k) /\ texts[k] \in Seq(S) /\ k \in Nat
    BY <1>3 DEF Joins, TextsIn
  <2>2. g = GapSize(gap, k)
    OBVIOUS
  <2> HIDE DEF g, a, b
  <2>3. b \in Seq(S) /\ BeginsWith(a, b)
    BY <2>1, <2>2, JoinStepParts
  <2>4. k \in 0..m
    BY <1>1
  <2>5. QED
    BY <2>3, <2>4 DEF a, b
<1>4. \A k \in 1..m : k - 1 \in Good => k \in Good
  BY <1>3
<1> HIDE DEF Good, m
<1>5. \A k \in 0..m : k \in Good
  BY <1>1, <1>2, <1>4, UpTo
<1>6. \A k \in 0..m : up[k] \in Seq(S)
  BY <1>5 DEF Good
<1> DEFINE Back == {d \in 0..m : BeginsWith(up[m - d], up[m])}
<1>7. 0 \in Back
  <2>1. m - 0 = m /\ 0 \in 0..m /\ up[m] \in Seq(S)
    BY <1>1, <1>6
  <2>2. Len(up[m]) \in Nat
    BY <2>1, LenProperties
  <2>3. BeginsWith(up[m], up[m])
    BY <2>2 DEF BeginsWith
  <2>4. QED
    BY <2>1, <2>3
<1>8. ASSUME NEW d \in 1..m, d - 1 \in Back PROVE d \in Back
  <2> DEFINE k == m - (d - 1)
             s == up[k - 1]
             t == up[k]
             u == up[m]
  <2>1. k \in 1..m /\ k - 1 = m - d /\ k - 1 \in 0..m /\ k \in 0..m /\ d \in 0..m /\ m \in 0..m
    BY <1>1
  <2>2. BeginsWith(t, u)
    BY <1>8
  <2> HIDE DEF k, s, t, u
  <2>3. BeginsWith(s, t) /\ s \in Seq(S) /\ t \in Seq(S) /\ u \in Seq(S)
    BY <1>3, <1>5, <1>6, <2>1 DEF s, t, u
  <2>4. Len(s) \in Nat /\ Len(t) \in Nat /\ Len(u) \in Nat
    BY <2>3, LenProperties
  <2>5. BeginsWith(s, u)
    <3>1. Len(s) <= Len(u)
      BY <2>2, <2>3, <2>4 DEF BeginsWith
    <3>2. ASSUME NEW j \in 1..Len(s) PROVE u[j] = s[j]
      <4>1. j \in 1..Len(t) /\ t[j] = s[j]
        BY <2>3, BeginsWithHolds
      <4>2. u[j] = t[j]
        BY <2>2, <2>3, <4>1, BeginsWithHolds
      <4>3. QED
        BY <4>1, <4>2
    <3>3. QED
      BY <3>1, <3>2 DEF BeginsWith
  <2>6. QED
    BY <2>1, <2>5 DEF s, u
<1> HIDE DEF Back
<1>9. \A d \in 0..m : d \in Back
  BY <1>1, <1>7, <1>8, UpTo
<1>10. ASSUME NEW k \in 0..m PROVE BeginsWith(up[k], up[m])
  <2> DEFINE d == m - k
  <2>1. d \in 0..m /\ m - d = k
    BY <1>1
  <2> HIDE DEF d
  <2>2. BeginsWith(up[m - d], up[m])
    BY <1>9, <2>1 DEF Back
  <2>3. QED
    BY <2>1, <2>2
<1>11. QED
  BY <1>6, <1>10 DEF m

\* What is joined spells the words.
LEMMA JoinSpells ==
  ASSUME NEW S, Quote \in S, NEW ws \in Seq(Seq(S)), NEW gap \in Seq(S), Spacing(gap),
         NEW texts, TextsIn(ws, texts, S), TextsOf(ws, texts), NEW up, Joins(up, gap, texts, Len(ws))
  PROVE  up[Len(ws)] \in Seq(S) /\ \E q : Spells(up[Len(ws)], ws, q)
<1> DEFINE m == Len(ws)
           line == up[Len(ws)]
           q == [k \in 0..m |-> Len(up[k])]
<1>1. m \in Nat /\ m \in 0..m
  BY LenProperties
<1>2. \A k \in 0..m : up[k] \in Seq(S) /\ BeginsWith(up[k], line)
  BY JoinStarts
<1> HIDE DEF m, line
<1>3. line \in Seq(S)
  BY <1>1, <1>2 DEF line, m
<1>4. \A k \in 0..m : q[k] = Len(up[k]) /\ q[k] \in 0..Len(line)
  <2> TAKE k \in 0..m
  <2>1. Len(up[k]) \in Nat /\ Len(line) \in Nat
    BY <1>2, <1>3, LenProperties
  <2>2. Len(up[k]) <= Len(line)
    BY <1>2 DEF BeginsWith
  <2>3. QED
    BY <2>1, <2>2
<1> HIDE DEF q
<1>5. q[0] = 0
  <2>1. up[0] = <<>> /\ 0 \in 0..m
    BY <1>1 DEF Joins
  <2>2. QED
    BY <1>4, <2>1
<1>6. q[m] = Len(line)
  BY <1>1, <1>4 DEF line, m
<1>7. ASSUME NEW k \in 1..m
      PROVE  \E p \in Nat : /\ q[k - 1] <= p /\ p <= q[k] /\ OnlySpaces(line, q[k - 1], p)
                            /\ (k > 1 => q[k - 1] < p) /\ SpeltWord(line, p, ws[k], q[k])
  <2> DEFINE h == k - 1
             g == GapSize(gap, k)
             a == up[h]
             b == up[k]
             w == ws[k]
             text == texts[k]
             p == Len(a) + g
  <2>1. h \in 0..m /\ k \in 0..m /\ k \in Nat /\ h = k - 1
    BY <1>1
  <2>2. /\ a \in Seq(S) /\ b \in Seq(S) /\ BeginsWith(b, line) /\ q[h] = Len(a) /\ q[k] = Len(b)
        /\ Len(a) \in Nat /\ Len(b) \in Nat /\ Len(line) \in Nat /\ Len(b) <= Len(line)
    <3>1. a \in Seq(S) /\ b \in Seq(S) /\ BeginsWith(b, line) /\ q[h] = Len(a) /\ q[k] = Len(b)
      BY <1>2, <1>4, <2>1
    <3>2. Len(b) <= Len(line)
      BY <3>1 DEF BeginsWith
    <3>3. QED
      BY <1>3, <3>1, <3>2, LenProperties
  <2>3. b = JoinStep(gap, texts, a, k)
    BY DEF Joins, m
  <2>4. text \in Seq(S) /\ TextOf(w, text) /\ Len(text) \in Nat
    <3>1. text \in Seq(S) /\ TextOf(w, text)
      BY DEF TextsIn, TextsOf, m
    <3>2. QED
      BY <3>1, LenProperties
  <2>5. g = GapSize(gap, k) /\ p = Len(a) + g
    OBVIOUS
  <2>6. w \in Seq(S) /\ Len(w) \in Nat
    <3>1. ws \in Seq(Seq(S)) /\ k \in 1..Len(ws)
      BY DEF m
    <3>2. w \in Seq(S)
      BY <3>1, LenProperties
    <3>3. QED
      BY <3>2, LenProperties
  <2>7. text = texts[k]
    OBVIOUS
  <2> HIDE DEF g, p, a, b, w, text, h
  <2>8. /\ Len(b) = p + Len(text) /\ g \in Nat
        /\ \A j \in 1..g : b[Len(a) + j] = gap[j]
        /\ \A j \in 1..Len(text) : b[p + j] = text[j]
    <3>1. texts[k] \in Seq(S) /\ g = GapSize(gap, k)
      BY <2>4, <2>5, <2>7
    <3>2. /\ Len(b) = Len(a) + g + Len(texts[k]) /\ g \in Nat
          /\ PartIs(b, Len(a), gap, g) /\ PartIs(b, Len(a) + g, texts[k], Len(texts[k]))
      <4>1. Len(b) = Len(a) + g + Len(texts[k]) /\ g \in Nat
        BY <2>1, <2>2, <2>3, <3>1, JoinStepParts
      <4>2. PartIs(b, Len(a), gap, g)
        BY <2>1, <2>2, <2>3, <3>1, JoinStepParts
      <4>3. PartIs(b, Len(a) + g, texts[k], Len(texts[k]))
        BY <2>1, <2>2, <2>3, <3>1, JoinStepParts
      <4>4. QED
        BY <4>1, <4>2, <4>3
    <3>3. QED
      BY <2>5, <2>7, <3>2 DEF PartIs
  <2>9. p \in Nat /\ Len(a) <= p /\ p <= Len(b)
    <3>1. /\ Len(a) \in Nat /\ g \in Nat /\ Len(text) \in Nat
          /\ p = Len(a) + g /\ Len(b) = p + Len(text)
      BY <2>2, <2>4, <2>5, <2>8
    <3>2. QED
      BY <3>1
  <2>10. k > 1 => Len(a) < p
    <3>1. Len(gap) \in Nat /\ Len(gap) # 0
      BY LenProperties, EmptySeq DEF Spacing
    <3>2. QED
      BY <2>1, <2>2, <2>5, <3>1 DEF GapSize
  <2>11. OnlySpaces(line, Len(a), p)
    <3> SUFFICES ASSUME NEW i \in Len(a) + 1..p PROVE line[i] = Space
      BY DEF OnlySpaces
    <3> DEFINE j == i - Len(a)
    <3>1. j \in 1..g /\ Len(a) + j = i /\ i \in 1..Len(b)
      <4>1. /\ i \in Nat /\ i >= Len(a) + 1 /\ i <= Len(a) + g /\ i <= Len(b)
            /\ Len(a) \in Nat /\ g \in Nat /\ Len(b) \in Nat
        BY SMTT(30), <2>2, <2>5, <2>8, <2>9
      <4>2. QED
        BY <4>1
    <3> HIDE DEF j
    <3>2. gap[j] = Space
      <4>1. g = 0 \/ g = Len(gap)
        BY <2>5 DEF GapSize
      <4>2. g # 0
        BY <2>8, <3>1
      <4>3. QED
        BY <3>1, <4>1, <4>2 DEF Spacing
    <3>3. b[i] = Space
      BY <2>8, <3>1, <3>2
    <3>4. line[i] = b[i]
      BY <1>3, <2>2, <3>1, BeginsWithHolds
    <3>5. QED
      BY <3>3, <3>4
  <2>12. ASSUME NEW j \in 1..Len(text) PROVE line[p + j] = text[j]
    <3> DEFINE i == p + j
    <3>1. i \in 1..Len(b)
      BY <2>4, <2>8, <2>9
    <3>2. b[i] = text[j]
      BY <2>8
    <3> HIDE DEF i
    <3>3. line[i] = b[i]
      BY <1>3, <2>2, <3>1, BeginsWithHolds
    <3>4. QED
      BY <3>2, <3>3 DEF i
  <2>13. SpeltWord(line, p, w, Len(b))
    <3>1. CASE text = w /\ w # <<>> /\ NoMarks(w)
      <4>1. p + Len(w) <= Len(line) /\ Len(b) = p + Len(w)
        BY <2>2, <2>8, <3>1
      <4>2. Holds(line, p, w)
        BY <2>12, <3>1, <4>1 DEF Holds
      <4>3. QED
        BY <3>1, <4>1, <4>2 DEF SpeltWord, PlainAt
    <3>2. CASE text = InMarks(w) /\ NoQuotes(w)
      <4> DEFINE n == Len(w)
      <4>1. n \in Nat /\ Len(text) = n + 2
        BY <2>6, <3>2, InMarksParts
      <4>2. text[1] = Quote /\ text[n + 2] = Quote /\ \A j \in 1..n : text[j + 1] = w[j]
        BY <2>6, <3>2, InMarksParts
      <4> HIDE DEF n
      <4>3. line[p + 1] = Quote
        <5>1. 1 \in 1..Len(text)
          BY <4>1
        <5>2. QED
          BY <2>12, <4>2, <5>1
      <4>4. Len(b) = p + n + 2 /\ Len(b) <= Len(line) /\ p + 1 + n <= Len(line)
        BY <2>2, <2>8, <2>9, <4>1
      <4>5. line[Len(b)] = Quote
        <5> DEFINE x == n + 2
        <5>1. x \in 1..Len(text) /\ p + x = Len(b)
          BY <2>9, <4>1, <4>4
        <5>2. text[x] = Quote
          BY <4>2
        <5> HIDE DEF x
        <5>3. QED
          BY <2>12, <5>1, <5>2
      <4>6. ASSUME NEW j \in 1..n PROVE line[p + 1 + j] = w[j]
        <5> DEFINE x == j + 1
        <5>1. x \in 1..Len(text) /\ p + x = p + 1 + j
          BY <2>9, <4>1
        <5>2. text[x] = w[j]
          BY <4>2
        <5> HIDE DEF x
        <5>3. line[p + x] = w[j]
          BY <2>12, <5>1, <5>2
        <5>4. QED
          BY <5>1, <5>3
      <4>7. Holds(line, p + 1, w)
        BY <4>4, <4>6 DEF Holds, n
      <4>8. Len(b) = p + Len(w) + 2
        BY <4>4 DEF n
      <4>9. QED
        BY <3>2, <4>3, <4>4, <4>5, <4>7, <4>8 DEF SpeltWord, QuotedAt
    <3>3. QED
      BY <2>4, <3>1, <3>2 DEF TextOf
  <2>14. /\ q[h] <= p /\ p <= q[k] /\ OnlySpaces(line, q[h], p) /\ (k > 1 => q[h] < p)
         /\ SpeltWord(line, p, w, q[k])
    BY <2>2, <2>9, <2>10, <2>11, <2>13
  <2>15. QED
    BY <2>9, <2>14 DEF h, w
<1>8. Spells(line, ws, q)
  <2>1. \A k \in 0..m : q[k] \in 0..Len(line)
    BY <1>4
  <2>2. QED
    BY <1>5, <1>6, <1>7, <2>1 DEF Spells, m
<1>9. QED
  BY <1>3, <1>8 DEF line

\* The recursive function that joins texts, as its definition says.
IsJoin(g, gap, texts, m) ==
  g = [i \in 0..m |-> IF i = 0 THEN <<>> ELSE JoinStep(gap, texts, g[i - 1], i)]

LEMMA JoinLoop ==
  ASSUME NEW S, NEW gap \in Seq(S), NEW m \in Nat, NEW texts, \A i \in 1..m : texts[i] \in Seq(S)
  PROVE  \E g : IsJoin(g, gap, texts, m)
<1> DEFINE step == [x \in Seq(S) \X (1..m) |-> JoinStep(gap, texts, x[1], x[2])]
<1>1. ASSUME NEW a \in Seq(S), NEW i \in 1..m
      PROVE  step[<<a, i>>] = JoinStep(gap, texts, a, i) /\ JoinStep(gap, texts, a, i) \in Seq(S)
  <2> DEFINE b == JoinStep(gap, texts, a, i)
             g == GapSize(gap, i)
  <2>1. b = JoinStep(gap, texts, a, i) /\ g = GapSize(gap, i) /\ i \in Nat /\ texts[i] \in Seq(S)
    OBVIOUS
  <2> HIDE DEF b, g
  <2>2. b \in Seq(S)
    BY <2>1, JoinStepParts
  <2>3. QED
    BY <2>2 DEF b
<1>2. step \in [Seq(S) \X (1..m) -> Seq(S)]
  BY <1>1
<1>3. <<>> \in Seq(S)
  BY EmptySeq
<1> HIDE DEF step
<1>4. PICK g \in [0..m -> Seq(S)] : Computes(g, <<>>, step, m)
  BY <1>2, <1>3, Recursion
<1>5. \A i \in 0..m : g[i] = IF i = 0 THEN <<>> ELSE JoinStep(gap, texts, g[i - 1], i)
  <2>1. ASSUME NEW i \in 0..m, i # 0 PROVE g[i] = JoinStep(gap, texts, g[i - 1], i)
    <3>1. i \in 1..m /\ i - 1 \in 0..m
      BY <2>1
    <3>2. g[i - 1] \in Seq(S)
      BY <3>1
    <3>3. QED
      BY <1>1, <1>4, <3>1, <3>2 DEF Computes
  <2>2. QED
    BY <1>4, <2>1 DEF Computes
<1>6. g = [i \in 0..m |-> IF i = 0 THEN <<>> ELSE JoinStep(gap, texts, g[i - 1], i)]
  BY <1>5, Zenon
<1>7. QED
  BY <1>6, Zenon DEF IsJoin

\* A function with such a definition joins.
LEMMA LoopJoins ==
  ASSUME NEW gap, NEW texts, NEW m \in Nat, NEW up, IsJoin(up, gap, texts, m)
  PROVE  Joins(up, gap, texts, m)
<1>1. 0 \in 0..m /\ \A i \in 1..m : i \in 0..m /\ i # 0
  OBVIOUS
<1>2. \A i \in 0..m : up[i] = IF i = 0 THEN <<>> ELSE JoinStep(gap, texts, up[i - 1], i)
  BY Zenon DEF IsJoin
<1>3. QED
  BY <1>1, <1>2 DEF Joins

\* Words as users type them.
LEMMA TypedText ==
  ASSUME NEW S, Quote \in S, NEW w \in Seq(S), NEW quoted
  PROVE  Typed(w, quoted) \in Seq(S) /\ (NoQuotes(w) => TextOf(w, Typed(w, quoted)))
<1>1. InMarks(w) \in Seq(S)
  BY InMarksParts
<1>2. \/ Typed(w, quoted) = InMarks(w)
      \/ Typed(w, quoted) = w /\ w # <<>> /\ ~Contains(w, Space)
  <2>1. CASE quoted \/ w = <<>> \/ Contains(w, Space)
    BY <2>1, Zenon DEF Typed, InMarks
  <2>2. CASE ~ (quoted \/ w = <<>> \/ Contains(w, Space))
    BY <2>2, Zenon DEF Typed
  <2>3. QED
    BY <2>1, <2>2
<1>3. ASSUME NoQuotes(w), ~Contains(w, Space) PROVE NoMarks(w)
  BY <1>3 DEF NoQuotes, NoMarks, Contains
<1>4. QED
  BY <1>1, <1>2, <1>3 DEF TextOf

\* A line whose first word is typed as it is begins as the word does.
BeginsAs(line, ws, quoted) ==
  ws # <<>> /\ ws[1] # <<>> /\ Typed(ws[1], quoted) = ws[1] => line[1] = ws[1][1]

\* However the line is typed, its words are the words.
LEMMA LinesSpell ==
  ASSUME NEW S, Space \in S, Quote \in S, NEW ws \in Seq(Seq(S)), NEW quoted, NEW n \in Nat, n > 0
  PROVE  /\ LineOf(ws, quoted, n) \in Seq(S)
         /\ (\A i \in 1..Len(ws) : NoQuotes(ws[i])) => \E q : Spells(LineOf(ws, quoted, n), ws, q)
         /\ BeginsAs(LineOf(ws, quoted, n), ws, quoted)
<1> DEFINE gap == [i \in 1..n |-> Space]
           m == Len(ws)
           texts == [i \in 1..m |-> Typed(ws[i], quoted)]
           up == CHOOSE h : h = [i \in 0..Len(ws) |->
                   IF i = 0 THEN <<>>
                   ELSE h[i - 1] \o (IF i = 1 THEN <<>> ELSE gap) \o Typed(ws[i], quoted)]
<1>1. LineOf(ws, quoted, n) = up[Len(ws)]
  BY Zenon DEF LineOf
<1>2. m \in Nat
  BY LenProperties
<1>3. gap \in Seq(S) /\ Spacing(gap)
  <2>1. gap \in Seq(S) /\ Len(gap) = n
    OBVIOUS
  <2>2. \A j \in 1..n : gap[j] = Space
    OBVIOUS
  <2> HIDE DEF gap
  <2>3. gap # <<>>
    BY <2>1, EmptySeq
  <2>4. QED
    BY <2>1, <2>2, <2>3 DEF Spacing
<1>4. \A i \in 1..m : texts[i] = Typed(ws[i], quoted) /\ ws[i] \in Seq(S)
  BY LenProperties
<1>5. TextsIn(ws, texts, S) /\ \A i \in 1..m : texts[i] \in Seq(S)
  BY <1>4, TypedText DEF TextsIn
<1>6. (\A i \in 1..m : NoQuotes(ws[i])) => TextsOf(ws, texts)
  BY <1>4, TypedText DEF TextsOf
<1> HIDE DEF gap, texts, m
<1>7. PICK g : IsJoin(g, gap, texts, m)
  BY <1>2, <1>3, <1>5, JoinLoop
<1>8. ASSUME NEW a, NEW i \in 0..m, i # 0
      PROVE  JoinStep(gap, texts, a, i) = a \o (IF i = 1 THEN <<>> ELSE gap) \o Typed(ws[i], quoted)
  <2>1. i \in 1..m
    BY <1>2, <1>8
  <2>2. texts[i] = Typed(ws[i], quoted)
    BY <1>4, <2>1
  <2>3. QED
    BY <2>2, Zenon DEF JoinStep
<1>9. \A h : [i \in 0..m |-> IF i = 0 THEN <<>> ELSE JoinStep(gap, texts, h[i - 1], i)]
               = [i \in 0..m |-> IF i = 0 THEN <<>>
                    ELSE h[i - 1] \o (IF i = 1 THEN <<>> ELSE gap) \o Typed(ws[i], quoted)]
  BY <1>8, Zenon
<1>10. up = [i \in 0..m |-> IF i = 0 THEN <<>>
               ELSE up[i - 1] \o (IF i = 1 THEN <<>> ELSE gap) \o Typed(ws[i], quoted)]
  <2>1. g = [i \in 0..m |-> IF i = 0 THEN <<>>
               ELSE g[i - 1] \o (IF i = 1 THEN <<>> ELSE gap) \o Typed(ws[i], quoted)]
    BY <1>7, <1>9, Zenon DEF IsJoin
  <2>2. QED
    BY <2>1, Zenon DEF m
<1> HIDE DEF up
<1>11. IsJoin(up, gap, texts, m)
  BY <1>9, <1>10, Zenon DEF IsJoin
<1>12. Joins(up, gap, texts, Len(ws))
  BY <1>2, <1>11, LoopJoins DEF m
<1>13. up[Len(ws)] \in Seq(S)
  <2>1. m \in 0..m
    BY <1>2
  <2>2. QED
    BY <1>3, <1>5, <1>12, <2>1, JoinStarts DEF m
<1>14. ASSUME \A i \in 1..Len(ws) : NoQuotes(ws[i]) PROVE \E q : Spells(up[Len(ws)], ws, q)
  <2>1. TextsOf(ws, texts)
    BY <1>6, <1>14 DEF m
  <2>2. QED
    BY <1>3, <1>5, <1>12, <2>1, JoinSpells
<1>15. ASSUME ws # <<>>, ws[1] # <<>>, Typed(ws[1], quoted) = ws[1] PROVE up[Len(ws)][1] = ws[1][1]
  <2> DEFINE w == ws[1]
             b == up[1]
             z == up[Len(ws)]
  <2>1. m > 0 /\ 1 \in 1..m /\ 1 \in 0..m /\ Len(ws) = m
    BY <1>2, <1>15, EmptySeq DEF m
  <2>2. w \in Seq(S) /\ w # <<>> /\ texts[1] = w
    BY <1>4, <1>15, <2>1
  <2>3. b = <<>> \o <<>> \o w
    <3>1. b = JoinStep(gap, texts, up[0], 1) /\ up[0] = <<>>
      BY <1>12, <2>1 DEF Joins
    <3>2. QED
      BY <2>2, <3>1 DEF JoinStep
  <2>4. Len(w) \in Nat /\ 1 \in 1..Len(w)
    <3> HIDE DEF w
    <3>1. Len(w) \in Nat /\ Len(w) # 0
      BY <2>2, LenProperties, EmptySeq
    <3>2. QED
      BY <3>1
  <2>5. BeginsWith(b, z) /\ b \in Seq(S) /\ z \in Seq(S)
    <3>1. \A k \in 0..Len(ws) : up[k] \in Seq(S) /\ BeginsWith(up[k], up[Len(ws)])
      BY <1>3, <1>5, <1>12, JoinStarts DEF m
    <3>2. 1 \in 0..Len(ws) /\ Len(ws) \in 0..Len(ws)
      BY <1>2, <2>1
    <3>3. QED
      BY <3>1, <3>2
  <2> HIDE DEF w, b, z
  <2>6. b = w
    BY <2>2, <2>3, ConcatEmptySeq, EmptySeq
  <2>7. z[1] = b[1]
    BY <2>4, <2>5, <2>6, BeginsWithHolds
  <2>8. QED
    BY <2>6, <2>7 DEF w, z
<1>16. QED
  BY <1>1, <1>13, <1>14, <1>15 DEF BeginsAs

\* The line that main makes of plain arguments has them as its words.
LEMMA ArgumentsSpell ==
  ASSUME NEW S, Space \in S, Quote \in S, NEW ws \in Seq(Seq(S))
  PROVE  /\ JoinArguments(ws) \in Seq(S)
         /\ (\A i \in 1..Len(ws) : Plain(ws[i])) => \E q : Spells(JoinArguments(ws), ws, q)
         /\ ws # <<>> /\ ws[1] # <<>> => JoinArguments(ws) # <<>> /\ JoinArguments(ws)[1] = ws[1][1]
<1> DEFINE gap == <<Space>>
           m == Len(ws)
           up == CHOOSE h : h = [i \in 0..Len(ws) |->
                   IF i = 0 THEN <<>>
                   ELSE h[i - 1] \o (IF i = 1 THEN <<>> ELSE gap) \o ws[i]]
<1>1. JoinArguments(ws) = up[Len(ws)]
  BY Zenon DEF JoinArguments
<1>2. m \in Nat
  BY LenProperties
<1>3. gap \in Seq(S) /\ Spacing(gap)
  <2>1. gap \in Seq(S) /\ Len(gap) = 1 /\ gap[1] = Space
    OBVIOUS
  <2> HIDE DEF gap
  <2>2. gap # <<>>
    <3>1. Len(gap) # 0
      BY <2>1
    <3>2. QED
      BY <2>1, <3>1, EmptySeq
  <2>3. \A j \in 1..1 : j = 1
    OBVIOUS
  <2>4. QED
    BY <2>1, <2>2, <2>3 DEF Spacing
<1>4. TextsIn(ws, ws, S) /\ \A i \in 1..m : ws[i] \in Seq(S)
  BY LenProperties DEF TextsIn
<1>5. ASSUME \A i \in 1..m : Plain(ws[i]) PROVE TextsOf(ws, ws)
  <2> SUFFICES ASSUME NEW i \in 1..m PROVE TextOf(ws[i], ws[i])
    BY DEF TextsOf
  <2>1. ws[i] # <<>> /\ ~Contains(ws[i], Space) /\ ~Contains(ws[i], Quote)
    BY <1>5 DEF Plain
  <2>2. NoMarks(ws[i])
    BY <2>1 DEF NoMarks, Contains
  <2>3. QED
    BY <2>1, <2>2 DEF TextOf
<1> HIDE DEF gap, m
<1>6. PICK g : IsJoin(g, gap, ws, m)
  BY <1>2, <1>3, <1>4, JoinLoop
<1>7. IsJoin(up, gap, ws, m)
  BY <1>6, Zenon DEF m, JoinStep, IsJoin
<1> HIDE DEF up
<1>8. Joins(up, gap, ws, Len(ws))
  BY <1>2, <1>7, LoopJoins DEF m
<1>9. up[Len(ws)] \in Seq(S)
  <2>1. m \in 0..m
    BY <1>2
  <2>2. QED
    BY <1>3, <1>4, <1>8, <2>1, JoinStarts DEF m
<1>10. ASSUME \A i \in 1..Len(ws) : Plain(ws[i]) PROVE \E q : Spells(up[Len(ws)], ws, q)
  <2>1. TextsOf(ws, ws)
    BY <1>5, <1>10 DEF m
  <2>2. QED
    BY <1>3, <1>4, <1>8, <2>1, JoinSpells
<1>11. ASSUME ws # <<>>, ws[1] # <<>>
       PROVE  up[Len(ws)] # <<>> /\ up[Len(ws)][1] = ws[1][1]
  <2> DEFINE w == ws[1]
             b == up[1]
             z == up[Len(ws)]
  <2>1. m > 0 /\ 1 \in 1..m /\ 1 \in 0..m /\ Len(ws) = m
    BY <1>2, <1>11, EmptySeq DEF m
  <2>2. w \in Seq(S) /\ w # <<>>
    BY <1>4, <1>11, <2>1
  <2>3. b = <<>> \o <<>> \o w
    <3>1. b = JoinStep(gap, ws, up[0], 1) /\ up[0] = <<>>
      BY <1>8, <2>1 DEF Joins
    <3>2. QED
      BY <3>1 DEF JoinStep
  <2>4. Len(w) \in Nat /\ 1 \in 1..Len(w)
    <3> HIDE DEF w
    <3>1. Len(w) \in Nat /\ Len(w) # 0
      BY <2>2, LenProperties, EmptySeq
    <3>2. QED
      BY <3>1
  <2>5. BeginsWith(b, z) /\ b \in Seq(S) /\ z \in Seq(S)
    <3>1. \A k \in 0..Len(ws) : up[k] \in Seq(S) /\ BeginsWith(up[k], up[Len(ws)])
      BY <1>3, <1>4, <1>8, JoinStarts DEF m
    <3>2. 1 \in 0..Len(ws) /\ Len(ws) \in 0..Len(ws)
      BY <1>2, <2>1
    <3>3. QED
      BY <3>1, <3>2
  <2> HIDE DEF w, b, z
  <2>6. b = w
    BY <2>2, <2>3, ConcatEmptySeq, EmptySeq
  <2>7. z[1] = b[1] /\ z # <<>>
    <3>1. z[1] = b[1] /\ Len(z) >= 1
      BY <2>4, <2>5, <2>6, BeginsWithHolds
    <3>2. QED
      BY <2>5, <3>1, EmptySeq
  <2>8. QED
    BY <2>6, <2>7 DEF w, z
<1>12. QED
  BY <1>1, <1>9, <1>10, <1>11

Atmost(n, max) == IF n < max THEN n ELSE max

\* None of the words has a quotation mark.
QuoteFree(ws) == \A i \in 1..Len(ws) : NoQuotes(ws[i])

\* What becomes of a line with these words.
AreMeant(tokens, ws, max, S) ==
  /\ tokens \in Seq(Seq(S)) /\ Len(tokens) <= max
  /\ QuoteFree(ws) => tokens = First(ws, Atmost(Len(ws), max))

\* What parser_tokenize makes of a typed line, and of main's arguments.
LEMMA LineUnderstood ==
  ASSUME NEW S, Space \in S, Quote \in S, NEW ws \in Seq(Seq(S)), NEW quoted, NEW n \in Nat, n > 0,
         NEW max \in Nat
  PROVE  AreMeant(Tokenize(LineOf(ws, quoted, n), max), ws, max, S)
<1> DEFINE line == LineOf(ws, quoted, n)
<1>1. line \in Seq(S) /\ (QuoteFree(ws) => \E q : Spells(line, ws, q))
  BY LinesSpell DEF QuoteFree
<1> HIDE DEF line
<1>2. Tokenize(line, max) \in Seq(Seq(S)) /\ Len(Tokenize(line, max)) <= max
  BY <1>1, TokensTyped
<1>3. ASSUME NEW q, Spells(line, ws, q)
      PROVE  Tokenize(line, max) = First(ws, Atmost(Len(ws), max))
  BY <1>1, <1>3, Retokenized DEF Atmost
<1>4. QED
  BY <1>1, <1>2, <1>3 DEF line, AreMeant

LEMMA ArgumentsUnderstood ==
  ASSUME NEW S, Space \in S, Quote \in S, NEW ws \in Seq(Seq(S)), NEW max \in Nat
  PROVE  /\ Tokenize(JoinArguments(ws), max) \in Seq(Seq(S))
         /\ Len(Tokenize(JoinArguments(ws), max)) <= max
         /\ (\A i \in 1..Len(ws) : Plain(ws[i])) =>
              Tokenize(JoinArguments(ws), max) = First(ws, Atmost(Len(ws), max))
<1> DEFINE line == JoinArguments(ws)
<1>1. line \in Seq(S) /\ ((\A i \in 1..Len(ws) : Plain(ws[i])) => \E q : Spells(line, ws, q))
  BY ArgumentsSpell
<1> HIDE DEF line
<1>2. Tokenize(line, max) \in Seq(Seq(S)) /\ Len(Tokenize(line, max)) <= max
  BY <1>1, TokensTyped
<1>3. ASSUME NEW q, Spells(line, ws, q)
      PROVE  Tokenize(line, max) = First(ws, Atmost(Len(ws), max))
  BY <1>1, <1>3, Retokenized DEF Atmost
<1>4. QED
  BY <1>1, <1>2, <1>3 DEF line

-----------------------------------------------------------------------------
(* The command line.  Every word is a sequence of symbols.                  *)

Short(names) ==
  \/ \E x : names = <<x>>
  \/ \E x, y : names = <<x, y>>
  \/ \E x, y, z : names = <<x, y, z>>

LEMMA PalettesShort ==
  ASSUME NEW c \in Contexts \union {"main", "cron", "time"}
  PROVE  \A names \in Palette(c) : Short(names)
<1>1. \A names \in MainPalette : Short(names)
  BY DEF MainPalette, Single, Short
<1>2. \A names \in FilePalette : Short(names)
  BY DEF FilePalette, Single, Short
<1>3. \A names \in ProcessPalette : Short(names)
  BY DEF ProcessPalette, Single, Short
<1>4. \A names \in NetworkPalette : Short(names)
  BY DEF NetworkPalette, Single, Short
<1>5. \A names \in SocketPalette : Short(names)
  BY DEF SocketPalette, Single, Short
<1>6. \A names \in PackagePalette : Short(names)
  BY DEF PackagePalette, Single, Short
<1>7. \A names \in ShellPalette : Short(names)
  BY DEF ShellPalette, Single, Short
<1>8. \A names \in KernelPalette : Short(names)
  BY DEF KernelPalette, Single, Short
<1>9. \A names \in CronPalette \union TimePalette : Short(names)
  BY DEF CronPalette, TimePalette, Single, Short
<1>10. Palette(c) \in {MainPalette, FilePalette, ProcessPalette, NetworkPalette, SocketPalette,
                       PackagePalette, ShellPalette, KernelPalette, CronPalette, TimePalette}
  BY DEF Palette, Contexts
<1>11. QED
  BY <1>1, <1>2, <1>3, <1>4, <1>5, <1>6, <1>7, <1>8, <1>9, <1>10

LEMMA CommandsShort ==
  ASSUME NEW c, NEW names \in Commands(c)
  PROVE  Short(names)
<1>1. CASE c # "main"
  BY <1>1 DEF Commands, Single, Short
<1>2. CASE c = "main"
  <2> DEFINE X == Single(Contexts \union {"cron", "time", "packet", "help", "exit", "nonsense"})
             Y == UNION {{<<first, name>> : name \in DOMAIN Table(first) \union {"nonsense"}} :
                           first \in Contexts \union {"cron"}}
             Z == {<<"packet", "info">>, <<"socket", "chat", "--host">>}
  <2>1. Commands(c) = X \union Y \union Z
    BY <1>2, Zenon DEF Commands
  <2>2. ASSUME names \in X PROVE Short(names)
    BY <2>2 DEF Single, Short
  <2>3. ASSUME names \in Y PROVE Short(names)
    <3>1. PICK first \in Contexts \union {"cron"} :
            names \in {<<first, name>> : name \in DOMAIN Table(first) \union {"nonsense"}}
      BY <2>3
    <3>2. QED
      BY <3>1 DEF Short
  <2>4. ASSUME names \in Z PROVE Short(names)
    <3>1. names = <<"packet", "info">> \/ names = <<"socket", "chat", "--host">>
      BY <2>4
    <3>2. QED
      BY <3>1, Zenon DEF Short
  <2> HIDE DEF X, Y, Z
  <2>5. QED
    BY <2>1, <2>2, <2>3, <2>4
<1>3. QED
  BY <1>1, <1>2

LEMMA CompletionsAre ==
  ASSUME NEW c \in Contexts \union {"main"}, NEW names \in Completions(c)
  PROVE  Short(names) \/ \E x, rest : Short(rest) /\ names = <<x>> \o rest
<1>1. CASE names \in Palette(c)
  BY <1>1, PalettesShort
<1>2. CASE names \in Templates
  BY <1>2 DEF Templates, Short
<1>3. CASE \E first \in Contexts \union {"main", "cron", "time"} :
             \E rest \in Palette(first) : names = <<first>> \o rest
  <2>1. PICK first \in Contexts \union {"main", "cron", "time"} :
          \E rest \in Palette(first) : names = <<first>> \o rest
    BY <1>3
  <2>2. PICK rest \in Palette(first) : names = <<first>> \o rest
    BY <2>1
  <2>3. Short(rest)
    BY <2>1, PalettesShort
  <2>4. QED
    BY <2>2, <2>3
<1>4. CASE \E rest \in Templates : names = <<"package">> \o rest
  <2>1. PICK rest \in Templates : names = <<"package">> \o rest
    BY <1>4
  <2>2. Short(rest)
    BY DEF Templates, Short
  <2>3. QED
    BY <2>1, <2>2
<1> DEFINE X == UNION {{<<first>> \o rest : rest \in Palette(first)} :
                      first \in Contexts \union {"main", "cron", "time"}}
           Y == {<<"package">> \o t : t \in Templates}
           P == {t \in Templates : c = "package"}
<1>5. names \in X => \E first \in Contexts \union {"main", "cron", "time"} :
                      \E rest \in Palette(first) : names = <<first>> \o rest
  OBVIOUS
<1>6. (names \in Y => \E rest \in Templates : names = <<"package">> \o rest)
      /\ (names \in P => names \in Templates)
  OBVIOUS
<1>7. Completions(c) = Palette(c) \union P \union (IF c # "main" THEN {} ELSE X \union Y)
  BY Zenon DEF Completions
<1> HIDE DEF X, Y, P
<1>8. names \in Palette(c) \/ names \in P \/ names \in X \/ names \in Y
  BY <1>7
<1>9. QED
  BY <1>1, <1>2, <1>3, <1>4, <1>5, <1>6, <1>8

LEMMA ShortSequence ==
  ASSUME NEW names, Short(names)
  PROVE  \E T : names \in Seq(T)
<1>1. ASSUME NEW x, names = <<x>> PROVE names \in Seq({x})
  BY <1>1
<1>2. ASSUME NEW x, NEW y, names = <<x, y>> PROVE names \in Seq({x, y})
  BY <1>2
<1>3. ASSUME NEW x, NEW y, NEW z, names = <<x, y, z>> PROVE names \in Seq({x, y, z})
  BY <1>3
<1>4. QED
  BY <1>1, <1>2, <1>3 DEF Short

ContextOrMain == Contexts \union {"main"}

AllNames == UNION {Commands(c) \union Completions(c) : c \in ContextOrMain}

\* All that a word may be made of: the names, and what else is typed.
NamesIn(names) == {names[i] : i \in DOMAIN names}
Symbols == STRING \union {Space, Quote, "/"} \union (UNION {NamesIn(names) : names \in AllNames})

LEMMA MarksAreSymbols ==
  Space \in Symbols /\ Quote \in Symbols /\ "/" \in Symbols /\ STRING \subseteq Symbols
BY Zenon DEF Symbols

LEMMA NamesSequence ==
  ASSUME NEW names \in AllNames
  PROVE  \E T : names \in Seq(T)
<1>1. PICK c \in ContextOrMain : names \in Commands(c) \/ names \in Completions(c)
  BY DEF AllNames
<1>2. CASE names \in Commands(c)
  BY <1>2, CommandsShort, ShortSequence
<1>3. CASE names \in Completions(c)
  <2>1. Short(names) \/ \E x, rest : Short(rest) /\ names = <<x>> \o rest
    BY <1>3, CompletionsAre DEF ContextOrMain
  <2>2. ASSUME NEW x, NEW rest, Short(rest), names = <<x>> \o rest PROVE \E T : names \in Seq(T)
    <3>1. PICK T : rest \in Seq(T)
      BY <2>2, ShortSequence
    <3> DEFINE U == T \union {x}
    <3>2. <<x>> \in Seq(U) /\ rest \in Seq(U)
      <4>1. /\ rest \in [1..Len(rest) -> T] /\ Len(rest) \in Nat
        BY <3>1, LenProperties
      <4>2. rest \in [1..Len(rest) -> U]
        BY <4>1
      <4>3. QED
        BY <4>1, <4>2
    <3> HIDE DEF U
    <3>3. names \in Seq(U)
      BY <2>2, <3>2, ConcatProperties
    <3>4. QED
      BY <3>3
  <2>3. QED
    BY <2>1, <2>2, ShortSequence
<1>4. QED
  BY <1>1, <1>2, <1>3

LEMMA AsWordsTyped ==
  ASSUME NEW names \in AllNames
  PROVE  AsWords(names) \in Seq(Seq(Symbols))
<1>1. PICK T : names \in Seq(T)
  BY NamesSequence
<1> DEFINE n == Len(names)
<1>2. n \in Nat /\ DOMAIN names = 1..n
  BY <1>1, LenProperties
<1>3. ASSUME NEW i \in 1..n PROVE names[i] \in Symbols
  <2>1. names[i] \in NamesIn(names)
    BY <1>2 DEF NamesIn
  <2>2. NamesIn(names) \subseteq Symbols
    BY DEF Symbols
  <2>3. QED
    BY <2>1, <2>2
<1> HIDE DEF n
<1>4. ASSUME NEW x \in Symbols PROVE <<x>> \in Seq(Symbols)
  OBVIOUS
<1>5. AsWords(names) = [i \in 1..n |-> <<names[i]>>]
  BY <1>2, Zenon DEF AsWords
<1>6. AsWords(names) \in [1..n -> Seq(Symbols)]
  BY <1>3, <1>4, <1>5
<1>7. QED
  BY <1>2, <1>6

LEMMA WordsTyped == Word \subseteq Seq(Symbols)
<1> SUFFICES ASSUME NEW w \in Word PROVE w \in Seq(Symbols)
  OBVIOUS
<1>1. w \in [1..Len(w) -> STRING] /\ Len(w) \in Nat
  BY ReplAssumption, LenProperties
<1>2. w \in [1..Len(w) -> Symbols]
  BY <1>1, MarksAreSymbols
<1>3. QED
  BY <1>1, <1>2

LEMMA LinesParts ==
  ASSUME NEW c \in ContextOrMain, NEW names \in Commands(c), NEW args \in ArgLists
  PROVE  AsWords(names) \in Seq(Seq(Symbols)) /\ args \in Seq(Seq(Symbols))
         /\ AsWords(names) \o args \in Seq(Seq(Symbols))
<1>2. AsWords(names) \in Seq(Seq(Symbols))
  BY AsWordsTyped DEF AllNames
<1>3. Word \subseteq Seq(Symbols)
  BY WordsTyped
<1>4. args \in Seq(Seq(Symbols))
  <2>1. PICK n \in 0..MaxGiven : args \in [1..n -> Word]
    BY DEF ArgLists
  <2>2. n \in Nat /\ args \in [1..n -> Seq(Symbols)]
    BY <1>3, <2>1, ReplAssumption
  <2>3. QED
    BY <2>2
<1>5. QED
  BY <1>2, <1>4, ConcatProperties

LEMMA LinesTyped ==
  ASSUME NEW c \in ContextOrMain, NEW means \in Lines(c)
  PROVE  means \in Seq(Seq(Symbols))
<1>1. PICK names \in Commands(c), args \in ArgLists : means = AsWords(names) \o args
  BY DEF Lines
<1>2. QED
  BY <1>1, LinesParts

\* Every line begins with a name, none of which is a slash.
LEMMA MainNames ==
  ASSUME NEW names \in Commands("main")
  PROVE  AsWords(names) # <<>> /\ \E x : AsWords(names)[1] = <<x>> /\ x # "/"
<1> DEFINE First1 == Contexts \union {"cron", "time", "packet", "help", "exit", "nonsense", "socket"}
<1>1. \E x \in First1 : names = <<x>> \/ (\E y : names = <<x, y>>) \/ (\E y, z : names = <<x, y, z>>)
  <2> DEFINE X == Single(Contexts \union {"cron", "time", "packet", "help", "exit", "nonsense"})
             Y == UNION {{<<first, name>> : name \in DOMAIN Table(first) \union {"nonsense"}} :
                           first \in Contexts \union {"cron"}}
             Z == {<<"packet", "info">>, <<"socket", "chat", "--host">>}
  <2>1. Commands("main") = X \union Y \union Z
    BY Zenon DEF Commands
  <2>2. CASE names \in X
    BY <2>2 DEF Single
  <2>3. CASE names \in Y
    BY <2>3, Zenon
  <2>4. CASE names \in Z
    <3>1. names = <<"packet", "info">> \/ names = <<"socket", "chat", "--host">>
      BY <2>4
    <3>2. "packet" \in First1 /\ "socket" \in First1
      OBVIOUS
    <3>3. QED
      BY <3>1, <3>2, Zenon
  <2> HIDE DEF X, Y, Z
  <2>5. QED
    BY <2>1, <2>2, <2>3, <2>4
<1>2. \A x \in First1 : x # "/"
  BY DEF Contexts
<1> HIDE DEF First1
<1>3. PICK x \in First1 : names = <<x>> \/ (\E y : names = <<x, y>>) \/ (\E y, z : names = <<x, y, z>>)
  BY <1>1
<1>4. 1 \in DOMAIN names /\ names[1] = x
  BY <1>3
<1>5. AsWords(names)[1] = <<x>> /\ DOMAIN AsWords(names) = DOMAIN names
  BY <1>4 DEF AsWords
<1>6. DOMAIN (<<>>) = {}
  OBVIOUS
<1>7. QED
  BY <1>2, <1>4, <1>5, <1>6, Zenon

-----------------------------------------------------------------------------
(* The words of the line, and the arguments of the command under way.       *)

LEMMA TableNumbers ==
  ASSUME NEW t \in Contexts \union {"chat"}, NEW name \in DOMAIN Table(t)
  PROVE  Table(t)[name] \in Nat
<1>1. \A x \in DOMAIN FileTable : FileTable[x] \in Nat
  BY DEF FileTable
<1>2. \A x \in DOMAIN ProcessTable : ProcessTable[x] \in Nat
  BY DEF ProcessTable
<1>3. \A x \in DOMAIN NetworkTable : NetworkTable[x] \in Nat
  BY DEF NetworkTable
<1>4. \A x \in DOMAIN SocketTable : SocketTable[x] \in Nat
  BY DEF SocketTable
<1>5. \A x \in DOMAIN PackageTable : PackageTable[x] \in Nat
  BY DEF PackageTable
<1>6. \A x \in DOMAIN ShellTable : ShellTable[x] \in Nat
  BY DEF ShellTable
<1>7. \A x \in DOMAIN KernelTable : KernelTable[x] \in Nat
  BY DEF KernelTable
<1>8. \A x \in DOMAIN ChatTable : ChatTable[x] \in Nat
  BY DEF ChatTable
<1>9. \/ Table(t) = FileTable \/ Table(t) = ProcessTable \/ Table(t) = NetworkTable
      \/ Table(t) = SocketTable \/ Table(t) = PackageTable \/ Table(t) = ShellTable
      \/ Table(t) = KernelTable \/ Table(t) = ChatTable
  BY DEF Table, Contexts
<1>10. QED
  BY <1>1, <1>2, <1>3, <1>4, <1>5, <1>6, <1>7, <1>8, <1>9

AsMeant ==
  argv # <<>> /\ (\A i \in DOMAIN words :
                    IF interactive THEN ~Contains(words[i], Quote) ELSE Plain(words[i])) =>
    argv = SubSeq(words, 1, IF Len(words) < MaxArgs THEN Len(words) ELSE MaxArgs)

EmptyWasTyped == \A i \in DOMAIN given : given[i] = <<>> => Contains(argv, <<>>)

ReplInv ==
  /\ ReplTypeOK
  /\ argv \in Seq(Seq(Symbols)) /\ AsMeant
  /\ given \in Seq(Seq(Symbols) \union {Default}) /\ EmptyWasTyped
  /\ pc = "prompt" => given = <<>>
  /\ pc = "repl.route" => argv # <<>>

\* Arguments that come from the line.
LEMMA GivenFromLine ==
  ASSUME argv \in Seq(Seq(Symbols)), argv' = argv, given' \in Seq(Elements(argv))
  PROVE  given' \in Seq(Seq(Symbols) \union {Default}) /\ EmptyWasTyped'
<1> DEFINE g == given'
           n == Len(given')
           E == Elements(argv)
           G == Seq(Symbols) \union {Default}
<1>1. n \in Nat /\ g \in [1..n -> E] /\ DOMAIN g = 1..n
  BY LenProperties
<1>2. Len(argv) \in Nat /\ \A i \in 1..Len(argv) : argv[i] \in Seq(Symbols)
  BY LenProperties
<1>3. E \subseteq G
  BY <1>2 DEF Elements
<1>4. <<>> \in E => Contains(argv, <<>>)
  BY DEF Elements, Contains
<1> HIDE DEF g, n, E, G
<1>5. g \in [1..n -> G]
  BY <1>1, <1>3
<1>6. g \in Seq(G)
  BY <1>1, <1>5
<1>7. \A i \in DOMAIN g : g[i] = <<>> => Contains(argv, <<>>)
  BY <1>1, <1>4
<1>8. (given \in Seq(G))'
  BY <1>6 DEF g, G
<1>9. QED
  BY <1>6, <1>7 DEF g, G, EmptyWasTyped

LEMMA PrepareGives ==
  ASSUME NEW E, NEW table \in Contexts \union {"chat"}, NEW name \in DOMAIN Table(table),
         NEW args \in Seq(E), Prepare(table, name, args)
  PROVE  given' \in Seq(E) /\ pc' \in {"repl.ask", "repl.run"} /\ context' = context
<1> DEFINE asked == IF table \in {"socket", "chat"} /\ ~interactive THEN 0 ELSE Table(table)[name]
           some == IF Len(args) < asked THEN Len(args) ELSE asked
<1>1. Len(args) \in Nat /\ \A i \in 1..Len(args) : args[i] \in E
  BY LenProperties
<1>2. asked \in Nat
  BY TableNumbers
<1>3. /\ given' = SubSeq(args, 1, some) /\ context' = context
      /\ pc' = IF some < asked THEN "repl.ask" ELSE "repl.run"
  BY DEF Prepare
<1> HIDE DEF asked
<1>4. some \in Nat /\ some <= Len(args)
  BY <1>1, <1>2
<1> HIDE DEF some
<1>5. 1 \in Int /\ some \in Int /\ \A i \in 1..some : args[i] \in E
  BY <1>1, <1>4
<1>6. SubSeq(args, 1, some) \in Seq(E)
  BY <1>5, SubSeqProperties
<1>7. QED
  BY <1>3, <1>6

LEMMA DispatchGives ==
  ASSUME NEW E, NEW table \in Contexts, NEW args \in Seq(E), args # <<>>, Dispatch(table, args)
  PROVE  /\ pc' \in {"repl.end", "repl.menu", "repl.ask", "repl.run"} /\ context' = context
         /\ given' = given \/ given' \in Seq(E)
<1> DEFINE name == Name(Head(args))
           rest == Tail(args)
           side == IF rest = <<>> THEN "none" ELSE Name(rest[1])
<1>1. rest \in Seq(E) /\ (rest # <<>> => Tail(rest) \in Seq(E))
  BY HeadTailProperties
<1>2. ASSUME NEW what, Answers(what) PROVE pc' = "repl.end" /\ context' = context /\ given' = given
  BY <1>2 DEF Answers
<1>3. ASSUME NEW menu, ChooseFrom(menu)
      PROVE  pc' = "repl.menu" /\ context' = context /\ given' = given
  BY <1>3 DEF ChooseFrom
<1>4. side # "none" => rest # <<>>
  OBVIOUS
<1>5. \/ Answers("unknown")
      \/ name \in DOMAIN Table(table) /\ Prepare(table, name, rest)
      \/ ChooseFrom("chat") \/ ChooseFrom("script")
      \/ side \in DOMAIN ChatTable /\ side # "none" /\ Prepare("chat", side, Tail(rest))
  BY Zenon DEF Dispatch
<1> HIDE DEF name, rest, side
<1>6. CASE name \in DOMAIN Table(table) /\ Prepare(table, name, rest)
  BY <1>1, <1>6, PrepareGives
<1>7. CASE side \in DOMAIN ChatTable /\ side # "none" /\ Prepare("chat", side, Tail(rest))
  <2>1. side \in DOMAIN Table("chat") /\ "chat" \in Contexts \union {"chat"}
    BY <1>7 DEF Table
  <2>2. Tail(rest) \in Seq(E)
    BY <1>1, <1>4, <1>7
  <2>3. QED
    BY <1>7, <2>1, <2>2, PrepareGives
<1>8. QED
  BY <1>2, <1>3, <1>5, <1>6, <1>7

LEMMA EmptyLine ==
  /\ <<>> \in Seq(Seq(Symbols)) /\ <<>> \in Seq(Seq(Symbols) \union {Default})
  /\ Len(<<>>) <= MaxArgs /\ DOMAIN <<>> = {}
<1>1. /\ <<>> \in Seq(Seq(Symbols)) /\ <<>> \in Seq(Seq(Symbols) \union {Default})
      /\ Len(<<>>) = 0
  BY EmptySeq
<1>2. MaxArgs \in Nat
  BY ReplAssumption
<1>3. 0 <= MaxArgs
  BY <1>2
<1>4. Len(<<>>) <= MaxArgs
  BY <1>1, <1>3
<1>5. DOMAIN <<>> = {}
  BY <1>1
<1>6. QED
  BY <1>1, <1>4, <1>5

LEMMA GivenKept ==
  ASSUME ReplInv, argv' = argv, given' = given
  PROVE  (given \in Seq(Seq(Symbols) \union {Default}))' /\ EmptyWasTyped'
BY DEF ReplInv, EmptyWasTyped

LEMMA AsMeantKept ==
  ASSUME ReplInv, UNCHANGED <<interactive, words, argv>>
  PROVE  (argv \in Seq(Seq(Symbols)))' /\ AsMeant' /\ Len(argv') <= MaxArgs
BY DEF ReplInv, ReplTypeOK, AsMeant

\* A new line: its words, or none.
LEMMA NewLine ==
  ASSUME ReplInv, pc = "prompt", UNCHANGED <<interactive, given>>,
         argv' \in Seq(Seq(Symbols)), Len(argv') <= MaxArgs, AsMeant',
         pc' = (IF argv' = <<>> THEN "repl.end" ELSE "repl.route"),
         context' = context, offered' \in BOOLEAN
  PROVE  ReplInv'
<1>1. /\ context \in Contexts \union {"main"} /\ interactive \in BOOLEAN /\ given = <<>>
  BY DEF ReplInv, ReplTypeOK
<1>2. pc' \in {"repl.end", "repl.route"} /\ (pc' = "repl.route" => argv' # <<>>)
  OBVIOUS
<1>3. ReplTypeOK'
  BY <1>1, <1>2 DEF ReplTypeOK
<1>4. (given \in Seq(Seq(Symbols) \union {Default}))'
  BY DEF ReplInv
<1>5. EmptyWasTyped'
  <2>1. DOMAIN given' = {}
    <3>1. <<>> \in Seq({}) /\ Len(<<>>) = 0
      BY EmptySeq
    <3>2. DOMAIN <<>> = {}
      BY <3>1
    <3>3. QED
      BY <1>1, <3>2
  <2>2. QED
    BY <2>1 DEF EmptyWasTyped
<1>6. QED
  BY <1>2, <1>3, <1>4, <1>5 DEF ReplInv

LEMMA NoQuoteIn ==
  ASSUME NEW w, ~Contains(w, Quote)
  PROVE  NoQuotes(w)
BY DEF Contains, NoQuotes

\* The next line is asked for.
AtPrompt == pc = "prompt" /\ interactive

\* A line that is read, typed or completed.
LEMMA ReadLineKeeps ==
  ASSUME ReplInv, NEW means \in Seq(Seq(Symbols)), NEW quoted, NEW n \in Nat, n > 0,
         NEW slash, NEW completed \in BOOLEAN, AtPrompt,
         ReadLine(LineOf(means, quoted, n), means, slash, completed)
  PROVE  ReplInv'
<1> DEFINE line == LineOf(means, quoted, n)
           tokens == Tokenize(line, MaxArgs)
<1>1. MaxArgs \in Nat
  BY ReplAssumption
<1>2. /\ tokens \in Seq(Seq(Symbols)) /\ Len(tokens) <= MaxArgs
      /\ QuoteFree(means) => tokens = First(means, Atmost(Len(means), MaxArgs))
  <2>1. Space \in Symbols /\ Quote \in Symbols
    BY MarksAreSymbols
  <2>2. AreMeant(tokens, means, MaxArgs, Symbols)
    BY <1>1, <2>1, LineUnderstood
  <2> HIDE DEF tokens
  <2>3. QED
    BY <2>2 DEF AreMeant
<1>3. /\ pc = "prompt" /\ interactive /\ words' = means /\ offered' = completed
      /\ pc' = (IF argv' = <<>> THEN "repl.end" ELSE "repl.route")
      /\ UNCHANGED <<interactive, given>> /\ context' = context
  BY DEF ReadLine, AtPrompt
<1>4. \E first : argv' = Understood(slash, first, line)
  BY Zenon DEF ReadLine
<1> HIDE DEF line, tokens
<1>5. argv' = <<>> \/ argv' = tokens
  BY <1>4 DEF Understood, tokens
<1>6. argv' \in Seq(Seq(Symbols)) /\ Len(argv') <= MaxArgs
  <2>1. <<>> \in Seq(Seq(Symbols)) /\ Len(<<>>) <= MaxArgs
    BY EmptyLine
  <2>2. CASE argv' = <<>>
    BY <2>1, <2>2
  <2>3. CASE argv' = tokens
    BY <1>2, <2>3
  <2>4. QED
    BY <1>5, <2>2, <2>3
<1>7. AsMeant'
  <2> SUFFICES ASSUME argv' # <<>>,
                      \A i \in DOMAIN words' : IF interactive' THEN ~Contains(words'[i], Quote)
                                               ELSE Plain(words'[i])
               PROVE  argv' = SubSeq(words', 1, IF Len(words') < MaxArgs THEN Len(words') ELSE MaxArgs)
    BY DEF AsMeant
  <2>1. interactive' /\ DOMAIN means = 1..Len(means)
    BY <1>3, LenProperties
  <2>2. \A i \in 1..Len(means) : ~Contains(means[i], Quote)
    BY <1>3, <2>1
  <2>3. QuoteFree(means)
    BY <2>2, NoQuoteIn DEF QuoteFree
  <2>4. argv' = First(means, Atmost(Len(means), MaxArgs))
    BY <1>2, <1>5, <2>3
  <2>5. QED
    BY <1>3, <2>4 DEF First, Atmost
<1>8. QED
  BY <1>3, <1>6, <1>7, NewLine

LEMMA ReplInitInv == ReplInit => ReplInv
<1> SUFFICES ASSUME ReplInit PROVE ReplInv
  OBVIOUS
<1>1. <<>> \in Seq(Seq(Symbols)) /\ <<>> \in Seq(Seq(Symbols) \union {Default}) /\ Len(<<>>) = 0
  BY EmptySeq
<1>2. DOMAIN <<>> = {}
  BY <1>1
<1>3. ReplTypeOK
  <2>1. Len(argv) <= MaxArgs /\ offered = FALSE /\ interactive \in BOOLEAN
    BY EmptyLine DEF ReplInit
  <2>2. pc = "prompt" /\ context = "main"
    BY DEF ReplInit
  <2>3. QED
    BY <2>1, <2>2 DEF ReplTypeOK
<1>4. AsMeant /\ EmptyWasTyped
  BY <1>2 DEF ReplInit, AsMeant, EmptyWasTyped
<1>5. QED
  BY <1>1, <1>3, <1>4 DEF ReplInit, ReplInv

LEMMA TypeLineKeeps == ReplInv /\ TypeLine => ReplInv'
<1> SUFFICES ASSUME ReplInv, TypeLine PROVE ReplInv'
  OBVIOUS
<1>1. context \in ContextOrMain
  BY DEF ReplInv, ReplTypeOK, ContextOrMain
<1>2. AtPrompt
      /\ \E means \in Lines(context), quoted, slash \in BOOLEAN, gap \in {1, 2} :
           ReadLine(LineOf(means, quoted, gap), means, slash, FALSE)
  BY Zenon DEF TypeLine, AtPrompt
<1>5. PICK means \in Lines(context), quoted, slash \in BOOLEAN, gap \in {1, 2} :
        ReadLine(LineOf(means, quoted, gap), means, slash, FALSE)
  BY <1>2
<1>3. means \in Seq(Seq(Symbols)) /\ gap \in Nat /\ gap > 0 /\ FALSE \in BOOLEAN
  BY <1>1, LinesTyped
<1>4. QED
  BY <1>2, <1>3, <1>5, ReadLineKeeps

LEMMA CompleteLineKeeps == ReplInv /\ CompleteLine => ReplInv'
<1> SUFFICES ASSUME ReplInv, CompleteLine PROVE ReplInv'
  OBVIOUS
<1>1. context \in ContextOrMain
  BY DEF ReplInv, ReplTypeOK, ContextOrMain
<1>2. AtPrompt
      /\ \E names \in Completions(context), slash \in BOOLEAN :
           ReadLine(LineOf(AsWords(names), FALSE, 1), AsWords(names), slash, TRUE)
  BY Zenon DEF CompleteLine, AtPrompt
<1>6. PICK names \in Completions(context), slash \in BOOLEAN :
        ReadLine(LineOf(AsWords(names), FALSE, 1), AsWords(names), slash, TRUE)
  BY <1>2
<1>3. names \in AllNames
  BY <1>1 DEF AllNames
<1>4. AsWords(names) \in Seq(Seq(Symbols)) /\ 1 \in Nat /\ 1 > 0 /\ TRUE \in BOOLEAN
  BY <1>3, AsWordsTyped
<1>5. QED
  BY <1>2, <1>4, <1>6, ReadLineKeeps

\* What main joins begins with the name of a command, and a slash in front of it
\* is skipped.
LEMMA ArgumentsStripped ==
  ASSUME NEW means \in Lines("main"), NEW slash \in BOOLEAN
  PROVE  Stripped((IF slash THEN <<"/">> ELSE <<>>) \o JoinArguments(means)) = JoinArguments(means)
<1> DEFINE line == JoinArguments(means)
<1>1. PICK names \in Commands("main"), args \in ArgLists : means = AsWords(names) \o args
  BY DEF Lines
<1>2. means \in Seq(Seq(Symbols)) /\ AsWords(names) \in Seq(Seq(Symbols)) /\ args \in Seq(Seq(Symbols))
  BY <1>1, LinesParts DEF ContextOrMain
<1>3. AsWords(names) # <<>> /\ \E x : AsWords(names)[1] = <<x>> /\ x # "/"
  BY MainNames
<1>4. means # <<>> /\ means[1] = AsWords(names)[1]
  <2>1. Len(AsWords(names)) \in Nat \ {0}
    BY <1>2, <1>3, LenProperties, EmptySeq
  <2>2. Len(means) = Len(AsWords(names)) + Len(args) /\ Len(args) \in Nat
    BY <1>1, <1>2, ConcatProperties, LenProperties
  <2>3. 1 \in 1..Len(AsWords(names)) /\ Len(means) # 0
    BY <2>1, <2>2
  <2>4. QED
    BY <1>1, <1>2, <2>3, ConcatProperties, EmptySeq
<1>5. line \in Seq(Symbols) /\ line # <<>> /\ line[1] # "/"
  <2>1. \A x : <<x>> # <<>> /\ <<x>>[1] = x
    OBVIOUS
  <2>2. QED
    BY <1>2, <1>3, <1>4, <2>1, ArgumentsSpell, MarksAreSymbols
<1> HIDE DEF line
<1>6. CASE ~slash
  BY <1>5, <1>6, ConcatEmptySeq DEF Stripped, line
<1>7. CASE slash
  <2>1. <<"/">> \in Seq(Symbols) /\ Len(<<"/">>) = 1 /\ <<"/">>[1] = "/"
    <3>1. "/" \in Symbols
      BY MarksAreSymbols
    <3>2. QED
      BY <3>1
  <2>2. <<"/">> \o line \in Seq(Symbols) /\ Len(<<"/">> \o line) = 1 + Len(line)
        /\ \A i \in 1..(1 + Len(line)) : (<<"/">> \o line)[i] = IF i = 1 THEN "/" ELSE line[i - 1]
    BY <1>5, <2>1, ConcatProperties, LenProperties
  <2>3. Tail(<<"/">> \o line) = line
    BY <1>5, <2>1
  <2>4. QED
    BY <1>5, <1>7, <2>2, <2>3, LenProperties, EmptySeq DEF Stripped, line
<1>8. QED
  BY <1>6, <1>7

LEMMA DirectLineKeeps == ReplInv /\ DirectLine => ReplInv'
<1> SUFFICES ASSUME ReplInv, DirectLine PROVE ReplInv'
  OBVIOUS
<1>1. MaxArgs \in Nat
  BY ReplAssumption
<1>2. PICK means \in Lines("main") : words' = means /\ argv' = Tokenize(JoinArguments(means), MaxArgs)
  BY ArgumentsStripped DEF DirectLine
<1>3. /\ pc = "prompt" /\ ~interactive
      /\ pc' = (IF argv' = <<>> THEN "repl.end" ELSE "repl.route")
      /\ UNCHANGED <<interactive, given>> /\ context' = context /\ offered' = offered
  BY DEF DirectLine
<1>4. means \in Seq(Seq(Symbols))
  BY LinesTyped DEF ContextOrMain
<1>5. /\ argv' \in Seq(Seq(Symbols)) /\ Len(argv') <= MaxArgs
      /\ (\A i \in 1..Len(means) : Plain(means[i])) => argv' = First(means, Atmost(Len(means), MaxArgs))
  BY <1>1, <1>2, <1>4, MarksAreSymbols, ArgumentsUnderstood
<1>6. AsMeant'
  <2> SUFFICES ASSUME \A i \in DOMAIN words' : IF interactive' THEN ~Contains(words'[i], Quote)
                                               ELSE Plain(words'[i])
               PROVE  argv' = SubSeq(words', 1, IF Len(words') < MaxArgs THEN Len(words') ELSE MaxArgs)
    BY DEF AsMeant
  <2>1. ~interactive' /\ DOMAIN means = 1..Len(means)
    BY <1>3, <1>4, LenProperties
  <2>2. \A i \in 1..Len(means) : Plain(means[i])
    BY <1>2, <2>1
  <2>3. argv' = First(means, Atmost(Len(means), MaxArgs))
    BY <1>5, <2>2
  <2>4. QED
    BY <1>2, <2>3 DEF First, Atmost
<1>7. offered' \in BOOLEAN
  BY <1>3 DEF ReplInv, ReplTypeOK
<1>8. QED
  BY <1>3, <1>5, <1>6, <1>7, NewLine

\* A step that leaves the line as it is, and the arguments or takes some from it.
LEMMA OtherKeeps ==
  ASSUME ReplInv, UNCHANGED <<interactive, words, argv>>, offered' = offered,
         pc' \in {"prompt", "repl.menu", "repl.ask", "repl.run", "repl.end", "quit"},
         pc' = "prompt" => given' = <<>>, context' \in Contexts \union {"main"},
         (given \in Seq(Seq(Symbols) \union {Default}))', EmptyWasTyped'
  PROVE  ReplInv'
<1>1. (argv \in Seq(Seq(Symbols)))' /\ AsMeant' /\ Len(argv') <= MaxArgs
  BY AsMeantKept
<1>2. ReplTypeOK'
  BY <1>1 DEF ReplInv, ReplTypeOK
<1>3. QED
  BY <1>1, <1>2 DEF ReplInv

LEMMA RouteKeeps == ReplInv /\ Route => ReplInv'
<1> SUFFICES ASSUME ReplInv, Route PROVE ReplInv'
  OBVIOUS
<1> DEFINE E == Elements(argv)
           name == IF Name(argv[1]) = "packet" /\ context = "main" THEN "package" ELSE Name(argv[1])
<1>1. /\ argv \in Seq(Seq(Symbols)) /\ argv # <<>> /\ context \in Contexts \union {"main"}
      /\ UNCHANGED <<interactive, words, argv>> /\ offered' = offered
  <2>1. pc = "repl.route" /\ UNCHANGED <<interactive, words, offered, argv>>
    BY Zenon DEF Route
  <2>2. QED
    BY <2>1 DEF ReplInv, ReplTypeOK
<1>2. argv \in Seq(E) /\ Tail(argv) \in Seq(E) /\ (Len(argv) # 1 => Tail(argv) # <<>>)
  <2>1. Len(argv) \in Nat /\ argv \in [1..Len(argv) -> Seq(Symbols)]
    BY <1>1, LenProperties
  <2>2. argv \in [1..Len(argv) -> E]
    BY <2>1 DEF Elements
  <2> HIDE DEF E
  <2>3. argv \in Seq(E)
    BY <2>1, <2>2
  <2>4. Tail(argv) \in Seq(E) /\ Len(Tail(argv)) = Len(argv) - 1
    BY <1>1, <2>3, HeadTailProperties
  <2>5. Len(argv) # 0
    BY <1>1, EmptySeq
  <2>6. QED
    BY <2>1, <2>3, <2>4, <2>5, EmptySeq
<1>3. \/ Switch("main")
      \/ context # "main" /\ Dispatch(context, argv)
      \/ name \in Contexts /\ Switch(name)
      \/ name \in Contexts /\ Len(argv) # 1 /\ Dispatch(name, Tail(argv))
      \/ Dispatch("shell", argv)
      \/ Answers("help") \/ Answers("unknown")
      \/ pc' = "quit" /\ UNCHANGED <<told, context, command, given>>
  <2>1. IF context # "main"
        THEN IF name \in {"back", ".."} THEN Switch("main") ELSE Dispatch(context, argv)
        ELSE IF name \in Contexts
        THEN IF Len(argv) = 1 THEN Switch(name) ELSE Dispatch(name, Tail(argv))
        ELSE IF name \in {"cron", "time"} THEN Dispatch("shell", argv)
        ELSE IF name = "help" THEN Answers("help")
        ELSE IF name = "exit"
        THEN pc' = "quit" /\ UNCHANGED <<told, context, command, given>>
        ELSE Answers("unknown")
    BY Zenon DEF Route
  <2> HIDE DEF name
  <2>2. CASE context # "main"
    BY <2>1, <2>2, Zenon
  <2>3. CASE ~(context # "main") /\ name \in Contexts
    BY <2>1, <2>3, Zenon
  <2>4. CASE ~(context # "main") /\ name \notin Contexts
    BY <2>1, <2>4, Zenon
  <2>5. QED
    BY <2>2, <2>3, <2>4, Zenon
<1> HIDE DEF name, E
<1>4. ASSUME NEW table \in Contexts, NEW args \in Seq(E), args # <<>>, Dispatch(table, args)
      PROVE  ReplInv'
  <2>1. /\ pc' \in {"repl.end", "repl.menu", "repl.ask", "repl.run"} /\ context' = context
        /\ given' = given \/ given' \in Seq(E)
    BY <1>4, DispatchGives
  <2>2. (given \in Seq(Seq(Symbols) \union {Default}))' /\ EmptyWasTyped'
    <3>1. CASE given' = given
      BY <1>1, <3>1, GivenKept
    <3>2. CASE given' \in Seq(E)
      BY <1>1, <3>2, GivenFromLine DEF E
    <3>3. QED
      BY <2>1, <3>1, <3>2
  <2>3. QED
    BY <1>1, <2>1, <2>2, OtherKeeps
<1>5. ASSUME pc' \in {"repl.end", "quit"}, context' \in Contexts \union {"main"}, given' = given
      PROVE  ReplInv'
  <2>1. (given \in Seq(Seq(Symbols) \union {Default}))' /\ EmptyWasTyped'
    BY <1>1, <1>5, GivenKept
  <2>2. /\ pc' \in {"prompt", "repl.menu", "repl.ask", "repl.run", "repl.end", "quit"}
        /\ pc' = "prompt" => given' = <<>>
    BY <1>5
  <2>3. QED
    BY <1>1, <1>5, <2>1, <2>2, OtherKeeps
<1>6. CASE Switch("main") \/ (name \in Contexts /\ Switch(name))
  BY <1>5, <1>6 DEF Switch
<1>7. CASE Answers("help") \/ Answers("unknown")
  BY <1>1, <1>5, <1>7 DEF Answers
<1>8. CASE pc' = "quit" /\ UNCHANGED <<told, context, command, given>>
  BY <1>1, <1>5, <1>8
<1>9. CASE context # "main" /\ Dispatch(context, argv)
  BY <1>1, <1>2, <1>4, <1>9
<1>10. CASE name \in Contexts /\ Len(argv) # 1 /\ Dispatch(name, Tail(argv))
  BY <1>2, <1>4, <1>10
<1>11. CASE Dispatch("shell", argv)
  <2>1. "shell" \in Contexts
    BY DEF Contexts
  <2>2. QED
    BY <1>1, <1>2, <1>4, <1>11, <2>1
<1>12. QED
  BY <1>3, <1>6, <1>7, <1>8, <1>9, <1>10, <1>11

LEMMA AskKeeps == ReplInv /\ Ask => ReplInv'
<1> SUFFICES ASSUME ReplInv, Ask PROVE ReplInv'
  OBVIOUS
<1> DEFINE G == Seq(Symbols) \union {Default}
<1>1. /\ UNCHANGED <<interactive, words, argv>> /\ offered' = offered /\ context' = context
      /\ context \in Contexts \union {"main"} /\ given \in Seq(G) /\ EmptyWasTyped
  BY DEF Ask, Unprompted, ReplInv, ReplTypeOK
<1>2. \/ \E word \in (Word \ {<<>>}) \union {Default} :
           given' = Append(given, word) /\ pc' \in {"repl.ask", "repl.run"}
      \/ pc' = "repl.end" /\ given' = given
  BY DEF Ask
<1>3. CASE pc' = "repl.end" /\ given' = given
  <2>1. (given \in Seq(G))' /\ EmptyWasTyped'
    BY <1>1, <1>3, GivenKept
  <2>2. QED
    BY <1>1, <1>3, <2>1, OtherKeeps
<1>4. ASSUME NEW word \in (Word \ {<<>>}) \union {Default}, given' = Append(given, word),
             pc' \in {"repl.ask", "repl.run"}
      PROVE  ReplInv'
  <2>1. word \in G /\ word # <<>>
    <3>1. Word \subseteq Seq(Symbols)
      BY WordsTyped
    <3>2. Default # <<>>
      BY DEF Default
    <3>3. QED
      BY <3>1, <3>2
  <2> HIDE DEF G
  <2> DEFINE g == Append(given, word)
             n == Len(given)
  <2>2. n \in Nat /\ DOMAIN given = 1..n
    BY <1>1, LenProperties
  <2>3. g \in Seq(G) /\ Len(g) = n + 1 /\ g[n + 1] = word /\ \A j \in 1..n : g[j] = given[j]
    BY <1>1, <2>1, AppendElements
  <2> HIDE DEF g, n
  <2>4. DOMAIN g = 1..n + 1
    BY <2>3, LenProperties
  <2>5. ASSUME NEW i \in DOMAIN g, g[i] = <<>> PROVE Contains(argv, <<>>)
    <3>1. i # n + 1
      BY <2>1, <2>3, <2>5
    <3>2. i \in 1..n
      BY <2>2, <2>4, <3>1
    <3>3. given[i] = <<>>
      BY <2>3, <2>5, <3>2
    <3>4. QED
      BY <1>1, <2>2, <3>2, <3>3 DEF EmptyWasTyped
  <2>6. given' = g
    BY <1>4 DEF g
  <2>7. (given \in Seq(Seq(Symbols) \union {Default}))' /\ EmptyWasTyped'
    BY <1>1, <2>3, <2>5, <2>6 DEF EmptyWasTyped, G
  <2>8. QED
    BY <1>1, <1>4, <2>7, OtherKeeps
<1>5. QED
  BY <1>2, <1>3, <1>4

LEMMA LineDoneKeeps == ReplInv /\ LineDone => ReplInv'
<1> SUFFICES ASSUME ReplInv, LineDone PROVE ReplInv'
  OBVIOUS
<1>1. /\ pc' = (IF interactive THEN "prompt" ELSE "quit") /\ offered' = FALSE
      /\ argv' = <<>> /\ given' = <<>> /\ UNCHANGED <<interactive, context>>
  BY DEF LineDone
<1>2. /\ argv' \in Seq(Seq(Symbols)) /\ (given \in Seq(Seq(Symbols) \union {Default}))'
      /\ Len(argv') <= MaxArgs /\ DOMAIN given' = {}
  BY <1>1, EmptyLine
<1>3. ReplTypeOK'
  BY <1>1, <1>2 DEF ReplInv, ReplTypeOK
<1>4. AsMeant' /\ EmptyWasTyped'
  BY <1>1, <1>2 DEF AsMeant, EmptyWasTyped
<1>5. QED
  BY <1>1, <1>2, <1>3, <1>4 DEF ReplInv

LEMMA ReplStepInv == ReplInv /\ [ReplNext]_replVars => ReplInv'
<1> SUFFICES ASSUME ReplInv, [ReplNext]_replVars PROVE ReplInv'
  OBVIOUS
<1>1. context \in Contexts \union {"main"}
  BY DEF ReplInv, ReplTypeOK
<1>2. ASSUME UNCHANGED <<interactive, words, argv, given>>, offered' = offered,
             pc' \in {"prompt", "repl.menu", "repl.ask", "repl.run", "repl.end", "quit"},
             pc' = "prompt" => pc = "prompt", context' \in Contexts \union {"main"}
      PROVE  ReplInv'
  <2>1. (given \in Seq(Seq(Symbols) \union {Default}))' /\ EmptyWasTyped'
    BY <1>2, GivenKept
  <2>2. pc' = "prompt" => given' = <<>>
    BY <1>2 DEF ReplInv
  <2>3. QED
    BY <1>2, <2>1, <2>2, OtherKeeps
<1>3. CASE TypeLine \/ CompleteLine \/ DirectLine
  BY <1>3, TypeLineKeeps, CompleteLineKeeps, DirectLineKeeps
<1>4. CASE Route \/ Ask \/ LineDone
  BY <1>4, RouteKeeps, AskKeeps, LineDoneKeeps
<1>5. CASE NoLine
  BY <1>1, <1>2, <1>5 DEF NoLine
<1>6. CASE EndOfInput
  BY <1>1, <1>2, <1>6 DEF EndOfInput
<1>7. CASE MenuAnswer
  <2>1. pc' \in {"repl.end", "repl.ask", "repl.run"} /\ given' = given
    BY <1>7 DEF MenuAnswer
  <2>2. UNCHANGED <<interactive, context, words, offered, argv>>
    BY <1>7 DEF MenuAnswer, Unprompted
  <2>3. QED
    BY <1>1, <1>2, <2>1, <2>2
<1>8. CASE Run
  BY <1>1, <1>2, <1>8 DEF Run, Unprompted
<1>9. CASE UNCHANGED replVars
  BY <1>9 DEF replVars, ReplInv, ReplTypeOK, AsMeant, EmptyWasTyped
<1>10. \/ TypeLine \/ CompleteLine \/ NoLine \/ EndOfInput \/ DirectLine \/ MenuAnswer \/ Ask
       \/ Route \/ Run \/ LineDone \/ UNCHANGED replVars
  BY Zenon DEF ReplNext, ReplUser, ReplCommands
<1>11. QED
  BY <1>3, <1>4, <1>5, <1>6, <1>7, <1>8, <1>9, <1>10, Zenon

LEMMA ReplInvAlways == ReplSpec => []ReplInv
<1>1. ReplInit => ReplInv
  BY ReplInitInv
<1>2. ReplInv /\ [ReplNext]_replVars => ReplInv'
  BY ReplStepInv
<1>3. QED
  BY <1>1, <1>2, PTL DEF ReplSpec

\* The command line's variables have their types: no line has more words than
\* token_argv takes (parser_tokenize, repl_run, route_and_dispatch).
THEOREM ReplTyped == ReplSpec => []ReplTypeOK
<1>1. ReplInv => ReplTypeOK
  BY DEF ReplInv
<1>2. QED
  BY <1>1, ReplInvAlways, PTL

\* For every line, however long, and every size of token_argv: the words of the
\* line are those that the user means, and no operation runs with an empty
\* argument that was not typed (parser_tokenize, repl_run, get_arg_or_prompt).
THEOREM EveryTokenAsQuoted == ReplSpec => []TokensAsQuoted
<1>1. ReplInv => TokensAsQuoted
  BY DEF ReplInv, AsMeant, EmptyWasTyped, TokensAsQuoted
<1>2. QED
  BY <1>1, ReplInvAlways, PTL

-----------------------------------------------------------------------------
(* What completion offers is known to the dispatchers.                      *)

\* Names without a space and without a quotation mark, at least one.
PlainNames(names) ==
  /\ \E T : names \in Seq(T)
  /\ names # <<>>
  /\ \A i \in 1..Len(names) : names[i] # Space /\ names[i] # Quote

\* What an entry of the palette of c is made of.
Item(c, names) ==
  /\ PlainNames(names)
  /\ c \in Contexts => names[1] = "back" \/ names[1] \in DOMAIN Table(c)
  /\ c = "socket" /\ names[1] = "chat" => Len(names) = 2 /\ names[2] \in DOMAIN ChatTable
  /\ c = "shell" /\ names[1] \in {"cron", "time"} => Len(names) = 1
  /\ c \in {"cron", "time"} => names[1] \in DOMAIN Table(c)

LEMMA OneName ==
  ASSUME NEW x, x # Space, x # Quote
  PROVE  PlainNames(<<x>>) /\ <<x>>[1] = x /\ Len(<<x>>) = 1
<1>1. <<x>> \in Seq({x}) /\ Len(<<x>>) = 1 /\ <<x>>[1] = x
  OBVIOUS
<1>2. <<x>> # <<>>
  BY <1>1, EmptySeq
<1>3. \A i \in 1..1 : i = 1
  OBVIOUS
<1>4. QED
  BY <1>1, <1>2, <1>3 DEF PlainNames

LEMMA TwoNames ==
  ASSUME NEW x, NEW y, x # Space, x # Quote, y # Space, y # Quote
  PROVE  PlainNames(<<x, y>>) /\ <<x, y>>[1] = x /\ <<x, y>>[2] = y /\ Len(<<x, y>>) = 2
<1>1. /\ <<x, y>> \in Seq({x, y}) /\ Len(<<x, y>>) = 2
      /\ <<x, y>>[1] = x /\ <<x, y>>[2] = y
  OBVIOUS
<1>2. <<x, y>> # <<>>
  BY <1>1, EmptySeq
<1>3. \A i \in 1..2 : i = 1 \/ i = 2
  OBVIOUS
<1>4. QED
  BY <1>1, <1>2, <1>3 DEF PlainNames

LEMMA FrontName ==
  ASSUME NEW first, first # Space, first # Quote, NEW rest, PlainNames(rest)
  PROVE  /\ PlainNames(<<first>> \o rest) /\ Len(<<first>> \o rest) = Len(rest) + 1
         /\ (<<first>> \o rest)[1] = first
         /\ \A i \in 1..Len(rest) : (<<first>> \o rest)[i + 1] = rest[i]
<1>1. PICK T : rest \in Seq(T)
  BY DEF PlainNames
<1> DEFINE U == T \union {first}
           head == <<first>>
           n == Len(rest)
           names == head \o rest
<1>2. n \in Nat /\ rest \in [1..n -> T] /\ DOMAIN rest = 1..n
  BY <1>1, LenProperties
<1>3. head \in Seq(U) /\ Len(head) = 1 /\ head[1] = first
  OBVIOUS
<1>4. rest \in Seq(U)
  <2>1. rest \in [1..n -> U]
    BY <1>2
  <2>2. QED
    BY <1>2, <2>1
<1> HIDE DEF U, head, n
<1>5. /\ names \in Seq(U) /\ Len(names) = 1 + n
      /\ \A i \in 1..1 + n : names[i] = IF i <= 1 THEN head[i] ELSE rest[i - 1]
  <2>1. /\ names \in Seq(U) /\ Len(names) = Len(head) + Len(rest)
        /\ \A i \in 1..Len(head) + Len(rest) :
             names[i] = IF i <= Len(head) THEN head[i] ELSE rest[i - Len(head)]
    BY <1>3, <1>4, ConcatProperties
  <2> HIDE DEF names
  <2>2. QED
    BY <1>3, <2>1 DEF n
<1> HIDE DEF names
<1>6. names # <<>>
  BY <1>2, <1>5, EmptySeq
<1>7. names[1] = first
  <2>1. 1 \in 1..1 + n
    BY <1>2
  <2>2. QED
    BY <1>3, <1>5, <2>1
<1>8. ASSUME NEW i \in 1..n PROVE names[i + 1] = rest[i]
  <2>1. i + 1 \in 1..1 + n /\ ~ (i + 1 <= 1) /\ i + 1 - 1 = i
    BY <1>2
  <2>2. QED
    BY <1>5, <2>1
<1>9. ASSUME NEW i \in 1..1 + n PROVE names[i] # Space /\ names[i] # Quote
  <2>1. CASE i = 1
    BY <1>7, <2>1
  <2>2. CASE i # 1
    <3>1. i - 1 \in 1..n /\ ~ (i <= 1)
      BY <1>2, <2>2
    <3>2. names[i] = rest[i - 1]
      BY <1>5, <3>1
    <3>3. QED
      BY <3>1, <3>2 DEF PlainNames, n
  <2>3. QED
    BY <2>1, <2>2
<1>10. PlainNames(names)
  BY <1>5, <1>6, <1>9 DEF PlainNames
<1>11. QED
  BY <1>2, <1>5, <1>7, <1>8, <1>10 DEF names, head, n

\* Palettes of single names.
LEMMA SingleItems ==
  ASSUME NEW c, NEW some, Space \notin some, Quote \notin some,
         c \in Contexts => some \subseteq DOMAIN Table(c) \union {"back"},
         c = "socket" => "chat" \notin some,
         c \in {"cron", "time"} => some \subseteq DOMAIN Table(c)
  PROVE  \A names \in Single(some) : Item(c, names)
<1> SUFFICES ASSUME NEW names \in Single(some) PROVE Item(c, names)
  OBVIOUS
<1>1. PICK x \in some : names = <<x>>
  BY DEF Single
<1>2. x # Space /\ x # Quote
  OBVIOUS
<1>3. PlainNames(names) /\ names[1] = x /\ Len(names) = 1
  BY <1>1, <1>2, OneName
<1>4. QED
  BY <1>3 DEF Item

LEMMA Marks == Space = " " /\ Quote = "\""
BY DEF Space, Quote

LEMMA PaletteItems ==
  ASSUME NEW c \in Contexts \union {"main", "cron", "time"}
  PROVE  \A names \in Palette(c) : Item(c, names)
<1>1. \A names \in MainPalette : Item("main", names)
  BY SingleItems, Marks DEF MainPalette, Contexts
<1>2. \A names \in FilePalette : Item("file", names)
  <2>1. DOMAIN Table("file") = {"create", "read", "write", "delete", "copy", "move", "rename", "info",
                                "list", "mkdir", "chmod", "search", "archive"}
    BY DEF Table, FileTable
  <2>2. QED
    BY <2>1, SingleItems, Marks DEF FilePalette
<1>3. \A names \in ProcessPalette : Item("process", names)
  <2>1. DOMAIN Table("process") = {"list", "info", "kill", "signal", "nice", "fork", "exec", "wait",
                                   "zombie", "orphan", "daemon", "siginit", "sigreset"}
    BY DEF Table, ProcessTable
  <2>2. QED
    BY <2>1, SingleItems, Marks DEF ProcessPalette
<1>4. \A names \in NetworkPalette : Item("network", names)
  <2>1. DOMAIN Table("network") = {"list", "info", "config", "up", "down", "route", "ping", "dns", "stats"}
    BY DEF Table, NetworkTable
  <2>2. QED
    BY <2>1, SingleItems, Marks DEF NetworkPalette
<1>5. \A names \in PackagePalette : Item("package", names)
  <2>1. DOMAIN Table("package") = {"search", "info", "install", "remove", "demo", "setup"}
    BY DEF Table, PackageTable
  <2>2. QED
    BY <2>1, SingleItems, Marks DEF PackagePalette
<1>6. \A names \in KernelPalette : Item("kernel", names)
  <2>1. DOMAIN Table("kernel") = {"info", "load", "unload", "status", "log", "stack", "skbuff", "napi"}
    BY DEF Table, KernelTable
  <2>2. QED
    BY <2>1, SingleItems, Marks DEF KernelPalette
<1>7. \A names \in CronPalette : Item("cron", names)
  <2>1. DOMAIN Table("cron") = {"list", "show", "delete", "clear", "create"}
    BY DEF Table, CronTable
  <2>2. QED
    BY <2>1, SingleItems, Marks DEF CronPalette, Contexts
<1>8. \A names \in TimePalette : Item("time", names)
  <2>1. DOMAIN Table("time") = {"show", "zone", "set", "sync", "autosync"}
    BY DEF Table, TimeTable
  <2>2. QED
    BY <2>1, SingleItems, Marks DEF TimePalette, Contexts
<1>9. \A names \in SocketPalette : Item("socket", names)
  <2>1. DOMAIN Table("socket") = {"server", "client", "multi", "chat", "status"}
    BY DEF Table, SocketTable
  <2>2. DOMAIN ChatTable = {"host", "client", "demo"}
    BY DEF ChatTable
  <2>3. \A names \in Single({"server", "client", "multi", "status", "back"}) : Item("socket", names)
    BY <2>1, SingleItems, Marks
  <2>4. ASSUME NEW side \in DOMAIN ChatTable PROVE Item("socket", <<"chat", side>>)
    <3>1. side # Space /\ side # Quote /\ "chat" # Space /\ "chat" # Quote
      BY <2>2, Marks
    <3> DEFINE names == <<"chat", side>>
    <3>2. PlainNames(names) /\ names[1] = "chat" /\ names[2] = side /\ Len(names) = 2
      BY <3>1, TwoNames
    <3> HIDE DEF names
    <3>3. Item("socket", names)
      BY <2>1, <3>2 DEF Item
    <3>4. QED
      BY <3>3 DEF names
  <2>5. Item("socket", <<"chat", "host">>) /\ Item("socket", <<"chat", "client">>)
        /\ Item("socket", <<"chat", "demo">>)
    BY <2>2, <2>4
  <2>6. QED
    BY <2>3, <2>5, Zenon DEF SocketPalette
<1>10. \A names \in ShellPalette : Item("shell", names)
  <2>1. DOMAIN Table("shell") = {"exec", "script", "env", "file", "cron", "time", "install", "monitor"}
    BY DEF Table, ShellTable
  <2>2. \A names \in Single({"exec", "env", "file", "cron", "time", "install", "monitor", "back"}) :
          Item("shell", names)
    BY <2>1, SingleItems, Marks
  <2>3. ASSUME NEW file, file # Space, file # Quote PROVE Item("shell", <<"script", file>>)
    <3>1. "script" # Space /\ "script" # Quote
      BY Marks
    <3> DEFINE names == <<"script", file>>
    <3>2. PlainNames(names) /\ names[1] = "script"
      BY <2>3, <3>1, TwoNames
    <3> HIDE DEF names
    <3>3. Item("shell", names)
      BY <2>1, <3>2 DEF Item
    <3>4. QED
      BY <3>3 DEF names
  <2>4. Item("shell", <<"script", "backup.sh">>) /\ Item("shell", <<"script", "disk_usage.sh">>)
        /\ Item("shell", <<"script", "show_date.sh">>)
    <3>1. \A file \in {"backup.sh", "disk_usage.sh", "show_date.sh"} : file # Space /\ file # Quote
      BY Marks
    <3>2. QED
      BY <2>3, <3>1
  <2>5. QED
    BY <2>2, <2>4, Zenon DEF ShellPalette
<1>11. /\ Palette("main") = MainPalette /\ Palette("file") = FilePalette
       /\ Palette("process") = ProcessPalette /\ Palette("network") = NetworkPalette
       /\ Palette("socket") = SocketPalette /\ Palette("package") = PackagePalette
       /\ Palette("shell") = ShellPalette /\ Palette("kernel") = KernelPalette
       /\ Palette("cron") = CronPalette /\ Palette("time") = TimePalette
  BY DEF Palette
<1>12. c \in {"main", "file", "process", "network", "socket", "package", "shell", "kernel", "cron", "time"}
  BY DEF Contexts
<1>13. QED
  BY <1>1, <1>2, <1>3, <1>4, <1>5, <1>6, <1>7, <1>8, <1>9, <1>10, <1>11, <1>12

LEMMA TemplateItems ==
  ASSUME NEW names \in Templates
  PROVE  Item("package", names)
<1>1. PICK x \in {"search", "info", "install", "remove"}, y \in {"hello", "sl", "cowsay"} : names = <<x, y>>
  BY DEF Templates
<1>2. x # Space /\ x # Quote /\ y # Space /\ y # Quote
  BY Marks
<1>3. PlainNames(names) /\ names[1] = x
  BY <1>1, <1>2, TwoNames
<1>4. DOMAIN Table("package") = {"search", "info", "install", "remove", "demo", "setup"}
  BY DEF Table, PackageTable
<1>5. QED
  BY <1>3, <1>4 DEF Item

\* What is offered at the main prompt behind a first word.
Behind(names) ==
  \E first \in Contexts \union {"main", "cron", "time"} : \E rest :
    names = <<first>> \o rest /\ Item(first, rest)

LEMMA CompletionItems ==
  ASSUME NEW c \in ContextOrMain, NEW names \in Completions(c)
  PROVE  \/ c # "main" /\ Item(c, names)
         \/ c = "main" /\ names \in Palette("main")
         \/ c = "main" /\ Behind(names)
<1> DEFINE firsts == Contexts \union {"main", "cron", "time"}
           X == UNION {{<<first>> \o rest : rest \in Palette(first)} : first \in firsts}
           Y == {<<"package">> \o t : t \in Templates}
           P == {t \in Templates : c = "package"}
<1>1. Completions(c) = Palette(c) \union P \union (IF c # "main" THEN {} ELSE X \union Y)
  BY Zenon DEF Completions
<1>2. c \in firsts /\ "package" \in firsts
  BY DEF ContextOrMain, Contexts
<1>3. ASSUME names \in Palette(c) PROVE Item(c, names)
  BY <1>2, <1>3, PaletteItems
<1>4. ASSUME names \in P PROVE c = "package" /\ Item(c, names)
  BY <1>4, TemplateItems
<1>5. ASSUME names \in X PROVE Behind(names)
  <2>1. PICK first \in firsts : names \in {<<first>> \o rest : rest \in Palette(first)}
    BY <1>5
  <2>2. PICK rest \in Palette(first) : names = <<first>> \o rest
    BY <2>1
  <2>3. Item(first, rest)
    BY <2>1, <2>2, PaletteItems
  <2>4. QED
    BY <2>2, <2>3, Zenon DEF Behind
<1>6. ASSUME names \in Y PROVE Behind(names)
  <2>1. PICK rest \in Templates : names = <<"package">> \o rest
    BY <1>6
  <2>2. Item("package", rest)
    BY TemplateItems
  <2>3. QED
    BY <1>2, <2>1, <2>2, Zenon DEF Behind
<1> HIDE DEF X, Y, P, firsts
<1>7. CASE c # "main"
  <2>1. names \in Palette(c) \/ names \in P
    BY <1>1, <1>7
  <2>2. QED
    BY <1>3, <1>4, <1>7, <2>1
<1>8. CASE c = "main"
  <2>1. names \in Palette(c) \/ names \in P \/ names \in X \/ names \in Y
    BY <1>1, <1>8
  <2>2. ~ (names \in P)
    BY <1>4, <1>8
  <2>3. QED
    BY <1>5, <1>6, <1>8, <2>1, <2>2
<1>9. QED
  BY <1>7, <1>8

\* Names that are offered are without a space and a quotation mark.
LEMMA CompletionPlain ==
  ASSUME NEW c \in ContextOrMain, NEW names \in Completions(c)
  PROVE  PlainNames(names)
<1>1. ASSUME Behind(names) PROVE PlainNames(names)
  <2>0. PICK first \in Contexts \union {"main", "cron", "time"} :
          \E rest : names = <<first>> \o rest /\ Item(first, rest)
    BY <1>1 DEF Behind
  <2>1. PICK rest : names = <<first>> \o rest /\ Item(first, rest)
    BY <2>0
  <2>2. first # Space /\ first # Quote
    BY Marks DEF Contexts
  <2>3. PlainNames(rest)
    BY <2>1 DEF Item
  <2> DEFINE all == <<first>> \o rest
  <2>4. PlainNames(all)
    BY <2>2, <2>3, FrontName
  <2> HIDE DEF all
  <2>5. QED
    BY <2>1, <2>4 DEF all
<1>2. ASSUME names \in Palette("main") PROVE PlainNames(names)
  BY <1>2, PaletteItems DEF Item
<1>3. ASSUME Item(c, names) PROVE PlainNames(names)
  BY <1>3 DEF Item
<1>4. QED
  BY <1>1, <1>2, <1>3, CompletionItems

\* The words of a line are names, as far as the line has room for them.
WordsAre(tokens, names) ==
  /\ Len(tokens) \in 1..Len(names)
  /\ \A i \in 1..Len(tokens) : Name(tokens[i]) = names[i]

\* A line that is made of such names is read as they are, and no slash before it
\* makes it another.
LEMMA NamesRead ==
  ASSUME NEW names \in AllNames, PlainNames(names), NEW slash,
         slash => IsValidCommand(context, names[1])
  PROVE  LET line == LineOf(AsWords(names), FALSE, 1)
             first == IF line[1] = Quote THEN "no-name" ELSE Name(AsWords(names)[1])
         IN Understood(slash, first, line) # <<>> /\ WordsAre(Understood(slash, first, line), names)
<1> DEFINE ws == AsWords(names)
           n == Len(names)
           line == LineOf(ws, FALSE, 1)
           tokens == Tokenize(line, MaxArgs)
           k == Atmost(n, MaxArgs)
           first == IF line[1] = Quote THEN "no-name" ELSE Name(ws[1])
<1>1. MaxArgs \in Nat /\ MaxArgs > 0
  BY ReplAssumption
<1>2. n \in Nat /\ n > 0 /\ DOMAIN names = 1..n
  <2>1. PICK T : names \in Seq(T)
    BY DEF PlainNames
  <2>2. n \in Nat /\ DOMAIN names = 1..n /\ n # 0
    BY <2>1, LenProperties, EmptySeq DEF PlainNames
  <2>3. QED
    BY <2>2
<1>3. ws \in Seq(Seq(Symbols))
  BY AsWordsTyped
<1>4. ws = [i \in 1..n |-> <<names[i]>>]
  BY <1>2, Zenon DEF AsWords
<1>5. Len(ws) = n /\ \A i \in 1..n : ws[i] = <<names[i]>>
  BY <1>2, <1>4
<1>6. \A i \in 1..n : names[i] # Space /\ names[i] # Quote
  BY DEF PlainNames
<1> HIDE DEF ws, n
<1>7. ASSUME NEW i \in 1..n
      PROVE  /\ Len(ws[i]) = 1 /\ ws[i][1] = names[i] /\ ws[i] # <<>>
             /\ NoQuotes(ws[i]) /\ ~Contains(ws[i], Space)
  <2> DEFINE x == names[i]
             w == <<x>>
  <2>1. ws[i] = w /\ x = names[i] /\ x # Space /\ x # Quote
    BY <1>5, <1>6
  <2> HIDE DEF x
  <2>2. Len(w) = 1 /\ w[1] = x /\ DOMAIN w = 1..1 /\ w \in Seq({x})
    OBVIOUS
  <2>3. w # <<>>
    BY <2>2, EmptySeq
  <2> HIDE DEF w
  <2>4. \A j \in 1..1 : j = 1
    OBVIOUS
  <2>5. NoQuotes(w) /\ ~Contains(w, Space)
    BY <2>1, <2>2, <2>4 DEF NoQuotes, Contains
  <2>6. QED
    BY <2>1, <2>2, <2>3, <2>5
<1>8. AreMeant(tokens, ws, MaxArgs, Symbols)
  <2>1. Space \in Symbols /\ Quote \in Symbols /\ 1 \in Nat /\ 1 > 0
    BY MarksAreSymbols
  <2>2. QED
    BY <1>1, <1>3, <2>1, LineUnderstood
<1>9. line[1] = names[1]
  <2>1. Space \in Symbols /\ Quote \in Symbols /\ 1 \in Nat /\ 1 > 0
    BY MarksAreSymbols
  <2>2. BeginsAs(line, ws, FALSE)
    BY <1>3, <2>1, LinesSpell
  <2> HIDE DEF line
  <2>3. 1 \in 1..n
    BY <1>2
  <2>4. ws[1] # <<>> /\ ~Contains(ws[1], Space) /\ ws[1][1] = names[1]
    BY <1>7, <2>3
  <2>5. Typed(ws[1], FALSE) = ws[1]
    BY <2>4, Zenon DEF Typed
  <2>6. ws # <<>>
    BY <1>2, <1>5, EmptySeq
  <2>7. QED
    BY <2>2, <2>4, <2>5, <2>6 DEF BeginsAs
<1>10. first = names[1]
  <2>1. 1 \in 1..n
    BY <1>2
  <2>2. line[1] # Quote
    BY <1>6, <1>9, <2>1
  <2> HIDE DEF line
  <2>3. Name(ws[1]) = names[1]
    BY <1>7, <2>1 DEF Name
  <2>4. QED
    BY <2>2, <2>3
<1> HIDE DEF line, tokens, k
<1>11. tokens = First(ws, k)
  <2>1. QuoteFree(ws)
    BY <1>5, <1>7 DEF QuoteFree
  <2>2. QED
    BY <1>5, <1>8, <2>1 DEF AreMeant, k
<1>12. k \in 1..n /\ k \in Int
  BY <1>1, <1>2 DEF k, Atmost
<1>13. Len(tokens) = k /\ \A i \in 1..k : tokens[i] = ws[i]
  <2>1. k \in 0..Len(ws)
    BY <1>2, <1>5, <1>12
  <2> DEFINE f == First(ws, k)
  <2>2. Len(f) = k /\ \A i \in 1..k : f[i] = ws[i]
    BY <1>3, <2>1, FirstElements
  <2> HIDE DEF f
  <2>3. QED
    BY <1>11, <2>2 DEF f
<1>14. WordsAre(tokens, names)
  <2>1. \A i \in 1..k : i \in 1..n
    BY <1>2, <1>12
  <2>2. \A i \in 1..k : Name(tokens[i]) = names[i]
    BY <1>7, <1>13, <2>1 DEF Name
  <2>3. QED
    BY <1>12, <1>13, <2>2 DEF WordsAre, n
<1>15. tokens # <<>>
  BY <1>12, <1>13, EmptySeq
<1>16. Understood(slash, first, line) = tokens
  <2> HIDE DEF first
  <2>1. ~ (slash /\ ~IsValidCommand(context, first))
    BY <1>10
  <2>2. QED
    BY <2>1, Zenon DEF Understood, tokens
<1>17. QED
  BY <1>14, <1>15, <1>16, Zenon DEF line, ws, first

\* Arguments that a dispatcher knows.
KnownArgs(table, args) ==
  /\ Name(args[1]) \in DOMAIN Table(table)
  /\ table = "socket" /\ Name(args[1]) = "chat" =>
       Len(args) = 1 \/ Name(args[2]) \in DOMAIN ChatTable
  /\ table = "shell" /\ Name(args[1]) \in {"cron", "time"} =>
       Len(args) = 1 \/ Name(args[2]) \in DOMAIN Table(Name(args[1]))

LEMMA DispatchKnown ==
  ASSUME NEW E, NEW table, NEW args \in Seq(E), args # <<>>, interactive,
         KnownArgs(table, args), Dispatch(table, args)
  PROVE  told' = told /\ context' = context
<1> DEFINE name == Name(Head(args))
           rest == Tail(args)
           side == IF rest = <<>> THEN "none" ELSE Name(rest[1])
<1>1. Head(args) = args[1]
  BY HeadTailProperties
<1>2. Len(args) = 1 <=> rest = <<>>
  <2>1. Len(args) \in Nat /\ Len(args) # 0
    BY LenProperties, EmptySeq
  <2>2. rest \in Seq(E) /\ Len(rest) = Len(args) - 1
    BY HeadTailProperties
  <2> HIDE DEF rest
  <2>3. rest = <<>> <=> Len(rest) = 0
    BY <2>2, EmptySeq
  <2>4. QED
    BY <2>1, <2>2, <2>3
<1>3. rest # <<>> => rest[1] = args[2]
  <2>1. Len(args) \in Nat /\ Len(args) # 0
    BY LenProperties, EmptySeq
  <2>2. rest \in Seq(E) /\ Len(rest) = Len(args) - 1 /\ \A i \in 1..Len(rest) : rest[i] = args[i + 1]
    BY HeadTailProperties
  <2> HIDE DEF rest
  <2>3. ASSUME rest # <<>> PROVE 1 \in 1..Len(rest) /\ 1 + 1 = 2
    BY <2>1, <2>2, <2>3, EmptySeq
  <2>4. QED
    BY <2>2, <2>3
<1>4. ASSUME NEW t, NEW n, NEW as, Prepare(t, n, as) PROVE told' = told /\ context' = context
  BY <1>4, Zenon DEF Prepare
<1>5. ASSUME NEW menu, ChooseFrom(menu) PROVE told' = told /\ context' = context
  BY <1>5 DEF ChooseFrom
<1>6. /\ name \in DOMAIN Table(table)
      /\ table = "socket" /\ name = "chat" => side = "none" \/ side \in DOMAIN ChatTable
      /\ table = "shell" /\ name \in {"cron", "time"} => rest = <<>> \/ side \in DOMAIN Table(name)
  <2>1. name = Name(args[1]) /\ (rest # <<>> => side = Name(args[2])) /\ (rest = <<>> => side = "none")
    BY <1>1, <1>3, Zenon
  <2> HIDE DEF name, side, rest
  <2>2. QED
    BY <1>2, <2>1 DEF KnownArgs
<1>7. IF name \notin DOMAIN Table(table) THEN Answers("unknown")
      ELSE IF <<table, name>> = <<"socket", "chat">>
      THEN IF ~interactive
           THEN IF side \in {"--host", "--client"} THEN Prepare(table, name, rest)
                ELSE Answers("unknown")
           ELSE IF side = "none" THEN ChooseFrom("chat")
           ELSE IF side \in DOMAIN ChatTable THEN Prepare("chat", side, Tail(rest))
           ELSE Answers("unknown")
      ELSE IF <<table, name>> = <<"shell", "script">> /\ rest = <<>> THEN ChooseFrom("script")
      ELSE IF table = "shell" /\ name \in {"cron", "time"} /\ rest # <<>>
              /\ side \notin DOMAIN Table(name)
      THEN Answers("unknown")
      ELSE Prepare(table, name, rest)
  BY Zenon DEF Dispatch
<1> HIDE DEF name, side, rest
<1>8. \/ Prepare(table, name, rest) \/ ChooseFrom("chat") \/ ChooseFrom("script")
      \/ Prepare("chat", side, Tail(rest))
  <2>1. CASE table = "socket" /\ name = "chat"
    <3>1. side = "none" \/ side \in DOMAIN ChatTable
      BY <1>6, <2>1
    <3>2. <<table, name>> = <<"socket", "chat">>
      BY <2>1
    <3>3. QED
      BY <1>6, <1>7, <3>1, <3>2, Zenon
  <2>2. CASE ~ (table = "socket" /\ name = "chat")
    <3>1. <<table, name>> # <<"socket", "chat">>
      BY <2>2
    <3>2. QED
      BY <1>6, <1>7, <3>1, Zenon
  <2>3. QED
    BY <2>1, <2>2
<1>9. QED
  BY <1>4, <1>5, <1>8

\* The words of the line that completion has offered.
OfferedWords == \E names \in Completions(context) : words = AsWords(names) /\ WordsAre(argv, names)

OfferedInv ==
  /\ pc = "prompt" => ~offered
  /\ offered => /\ interactive /\ CompletionsKnown
                /\ pc = "repl.route" => told = "nothing" /\ OfferedWords

\* An entry of a manager's palette, but "back", is known to the manager's dispatcher.
LEMMA OfferedInContext ==
  ASSUME NEW c \in Contexts, NEW names, Item(c, names), NEW E, NEW tokens \in Seq(E),
         WordsAre(tokens, names), names[1] # "back"
  PROVE  tokens # <<>> /\ KnownArgs(c, tokens)
<1> DEFINE n == Len(names)
           k == Len(tokens)
<1>1. k \in 1..n /\ (\A i \in 1..k : Name(tokens[i]) = names[i]) /\ n \in Nat /\ k \in Nat
  <2>1. PICK T : names \in Seq(T)
    BY DEF Item, PlainNames
  <2>2. n \in Nat /\ k \in Nat
    BY <2>1, LenProperties
  <2>3. QED
    BY <2>2 DEF WordsAre
<1> HIDE DEF n, k
<1>2. 1 \in 1..k /\ (k # 1 => 2 \in 1..k)
  BY <1>1
<1>3. Name(tokens[1]) = names[1] /\ (k # 1 => Name(tokens[2]) = names[2])
  BY <1>1, <1>2
<1>4. /\ names[1] \in DOMAIN Table(c)
      /\ c = "socket" /\ names[1] = "chat" => names[2] \in DOMAIN ChatTable
      /\ c = "shell" /\ names[1] \in {"cron", "time"} => n = 1
  BY DEF Item, n
<1>5. n = 1 => k = 1
  BY <1>1
<1>6. KnownArgs(c, tokens)
  BY <1>3, <1>4, <1>5 DEF KnownArgs, k
<1>7. tokens # <<>>
  BY <1>2, EmptySeq DEF k
<1>8. QED
  BY <1>6, <1>7

\* The exceptions of CompletionsKnown.
Exempt ==
  context = "main" /\ Len(words) > 1 /\ (words[1] = <<"main">> \/ words[2] = <<"back">>)

\* An answer that CompletionsKnown allows, to a line that completion has offered.
WellAnswered ==
  \/ told' \notin {"unknown", "palette"}
  \/ told' = told /\ context' = context
  \/ context' = context /\ Exempt

LEMMA AnswerAllowed ==
  ASSUME OfferedInv, UNCHANGED <<interactive, words, offered>>,
         pc' \notin {"prompt", "repl.route"}, offered => WellAnswered
  PROVE  OfferedInv'
<1>1. (pc = "prompt" => ~offered)'
  OBVIOUS
<1>2. ASSUME offered PROVE interactive' /\ CompletionsKnown'
  <2>1. interactive /\ CompletionsKnown /\ WellAnswered
    BY <1>2 DEF OfferedInv
  <2>2. CASE told' \notin {"unknown", "palette"}
    BY <2>1, <2>2 DEF CompletionsKnown
  <2>3. CASE told' = told /\ context' = context
    BY <1>2, <2>1, <2>3 DEF CompletionsKnown
  <2>4. CASE context' = context /\ Exempt
    BY <2>1, <2>4 DEF CompletionsKnown, Exempt
  <2>5. QED
    BY <2>1, <2>2, <2>3, <2>4 DEF WellAnswered
<1>3. QED
  BY <1>1, <1>2 DEF OfferedInv

\* route_and_dispatch, for the command called name.
RoutesTo(name) ==
  IF context # "main"
  THEN IF name \in {"back", ".."} THEN Switch("main") ELSE Dispatch(context, argv)
  ELSE IF name \in Contexts
  THEN IF Len(argv) = 1 THEN Switch(name) ELSE Dispatch(name, Tail(argv))
  ELSE IF name \in {"cron", "time"} THEN Dispatch("shell", argv)
  ELSE IF name = "help" THEN Answers("help")
  ELSE IF name = "exit" THEN pc' = "quit" /\ UNCHANGED <<told, context, command, given>>
  ELSE Answers("unknown")

Gone == pc' \notin {"prompt", "repl.route"}

LEMMA AnswersWell ==
  /\ \A what : Answers(what) => Gone /\ context' = context /\ told' = what
  /\ \A c : Switch(c) => Gone /\ WellAnswered
  /\ pc' = "quit" /\ UNCHANGED <<told, context, command, given>> => Gone /\ WellAnswered
<1>1. ASSUME NEW what, Answers(what) PROVE Gone /\ context' = context /\ told' = what
  BY <1>1 DEF Answers, Gone
<1>2. ASSUME NEW c, Switch(c) PROVE Gone /\ WellAnswered
  BY <1>2 DEF Switch, Gone, WellAnswered
<1>3. ASSUME pc' = "quit" /\ UNCHANGED <<told, context, command, given>> PROVE Gone /\ WellAnswered
  BY <1>3 DEF Gone, WellAnswered
<1>4. QED
  BY <1>1, <1>2, <1>3

LEMMA DispatchedWell ==
  ASSUME interactive, NEW table \in Contexts, NEW E, NEW args \in Seq(E), args # <<>>,
         Dispatch(table, args), KnownArgs(table, args) \/ Exempt
  PROVE  Gone /\ WellAnswered
<1>1. Gone /\ context' = context
  BY DispatchGives DEF Gone
<1>2. CASE KnownArgs(table, args)
  <2>1. told' = told
    BY <1>2, DispatchKnown
  <2>2. QED
    BY <1>1, <2>1 DEF WellAnswered
<1>3. CASE Exempt
  BY <1>1, <1>3 DEF WellAnswered
<1>4. QED
  BY <1>2, <1>3

\* In the context of a manager.
LEMMA RouteInContext ==
  ASSUME interactive, NEW E, argv \in Seq(E), context \in Contexts, NEW names, Item(context, names),
         WordsAre(argv, names), RoutesTo(Name(argv[1]))
  PROVE  Gone /\ WellAnswered
<1>1. context # "main"
  BY DEF Contexts
<1>2. CASE Switch("main")
  BY <1>2, AnswersWell
<1>3. CASE names[1] # "back" /\ Dispatch(context, argv)
  <2>1. argv # <<>> /\ KnownArgs(context, argv)
    BY <1>3, OfferedInContext
  <2>2. QED
    BY <1>3, <2>1, DispatchedWell
<1>4. Name(argv[1]) = names[1]
  <2>1. 1 \in 1..Len(argv)
    <3>1. Len(argv) \in Nat /\ Len(argv) \in 1..Len(names)
      BY LenProperties DEF WordsAre
    <3>2. Len(argv) # 0
      <4>1. PICK T : names \in Seq(T)
        BY DEF Item, PlainNames
      <4>2. Len(names) \in Nat
        BY <4>1, LenProperties
      <4>3. QED
        BY <3>1, <4>2
    <3>3. QED
      BY <3>1, <3>2
  <2>2. QED
    BY <2>1 DEF WordsAre
<1>5. IF names[1] \in {"back", ".."} THEN Switch("main") ELSE Dispatch(context, argv)
  BY <1>1, <1>4, Zenon DEF RoutesTo
<1>6. QED
  BY <1>2, <1>3, <1>5

\* At the main prompt, a single name.
LEMMA RouteSingle ==
  ASSUME interactive, NEW E, argv \in Seq(E), context = "main", NEW names \in Palette("main"),
         WordsAre(argv, names), RoutesTo(Name(argv[1]))
  PROVE  Gone /\ WellAnswered
<1>1. PICK x \in Contexts \union {"cron", "time", "help", "exit"} : names = <<x>>
  BY DEF Palette, MainPalette, Single
<1>2. Len(names) = 1 /\ names[1] = x
  BY <1>1
<1>3. Len(argv) = 1 /\ Name(argv[1]) = x
  <2>1. Len(argv) \in 1..1
    BY <1>2 DEF WordsAre
  <2>2. Len(argv) = 1 /\ 1 \in 1..1
    BY <2>1
  <2>3. QED
    BY <1>2, <2>2 DEF WordsAre
<1>4. argv # <<>>
  BY <1>3, EmptySeq
<1>5. CASE x \in Contexts
  <2>1. Switch(x)
    BY <1>3, <1>5, Zenon DEF RoutesTo
  <2>2. QED
    BY <2>1, AnswersWell
<1>6. CASE x \in {"cron", "time"}
  <2>1. x \notin Contexts /\ "shell" \in Contexts
    BY <1>6 DEF Contexts
  <2>2. Dispatch("shell", argv)
    BY <1>3, <1>6, <2>1, Zenon DEF RoutesTo
  <2>3. DOMAIN Table("shell") = {"exec", "script", "env", "file", "cron", "time", "install", "monitor"}
    BY DEF Table, ShellTable
  <2>4. KnownArgs("shell", argv)
    BY <1>3, <1>6, <2>3 DEF KnownArgs
  <2>5. QED
    BY <1>4, <2>1, <2>2, <2>4, DispatchedWell
<1>7. CASE x = "help"
  <2>1. x \notin Contexts /\ x \notin {"cron", "time"}
    BY <1>7 DEF Contexts
  <2>2. Answers("help")
    BY <1>3, <1>7, <2>1, Zenon DEF RoutesTo
  <2>3. Gone /\ told' = "help"
    BY <2>2, AnswersWell
  <2>4. QED
    BY <2>3 DEF WellAnswered
<1>8. CASE x = "exit"
  <2>1. x \notin Contexts /\ x \notin {"cron", "time"} /\ x # "help"
    BY <1>8 DEF Contexts
  <2>2. pc' = "quit" /\ UNCHANGED <<told, context, command, given>>
    BY <1>3, <1>8, <2>1, Zenon DEF RoutesTo
  <2>3. QED
    BY <2>2, AnswersWell
<1>9. QED
  BY <1>5, <1>6, <1>7, <1>8

\* At the main prompt, an entry of another palette behind a first word.
LEMMA RouteBehind ==
  ASSUME interactive, NEW E, argv \in Seq(E), context = "main",
         NEW first \in Contexts \union {"main", "cron", "time"}, NEW rest, Item(first, rest),
         NEW names, names = <<first>> \o rest, words = AsWords(names),
         WordsAre(argv, names), RoutesTo(Name(argv[1]))
  PROVE  Gone /\ WellAnswered
<1> DEFINE n == Len(rest)
           k == Len(argv)
           tail == Tail(argv)
<1>1. n \in Nat /\ n > 0
  <2>1. PICK T : rest \in Seq(T)
    BY DEF Item, PlainNames
  <2>2. n \in Nat /\ n # 0
    BY <2>1, LenProperties, EmptySeq DEF Item, PlainNames
  <2>3. QED
    BY <2>2
<1>2. first # Space /\ first # Quote
  BY Marks DEF Contexts
<1>3. /\ Len(names) = n + 1 /\ names[1] = first /\ \A i \in 1..n : names[i + 1] = rest[i]
      /\ PlainNames(names)
  BY <1>2, FrontName DEF Item
<1> HIDE DEF n
<1>4. /\ k \in 1..n + 1 /\ k \in Nat /\ \A i \in 1..k : Name(argv[i]) = names[i]
  BY <1>1, <1>3 DEF WordsAre
<1> HIDE DEF k
<1>5. Name(argv[1]) = first /\ argv # <<>> /\ (k # 1 => Name(argv[2]) = rest[1])
  <2>1. 1 \in 1..k /\ (k # 1 => 2 \in 1..k) /\ 1 \in 1..n /\ 1 + 1 = 2
    BY <1>1, <1>4
  <2>2. k # 0
    BY <1>4
  <2>3. QED
    BY <1>3, <1>4, <2>1, <2>2, EmptySeq DEF k
<1>6. /\ Len(words) > 1 /\ words[1] = <<first>> /\ words[2] = <<rest[1]>>
  <2>1. DOMAIN names = 1..n + 1
    <3>1. PICK T : names \in Seq(T)
      BY <1>3 DEF PlainNames
    <3>2. QED
      BY <1>3, <3>1, LenProperties
  <2>2. words = [i \in 1..n + 1 |-> <<names[i]>>]
    BY <2>1, Zenon DEF AsWords
  <2>3. n + 1 \in Nat /\ n + 1 > 1 /\ 1 \in 1..n + 1 /\ 2 \in 1..n + 1 /\ 1 \in 1..n /\ 1 + 1 = 2
    BY <1>1
  <2>4. Len(words) = n + 1
    BY <2>2, <2>3
  <2>5. names[2] = rest[1]
    BY <1>3, <2>3
  <2>6. words[1] = <<names[1]>> /\ words[2] = <<names[2]>>
    BY <2>2, <2>3
  <2>7. QED
    BY <1>3, <2>3, <2>4, <2>5, <2>6
<1>7. CASE first = "main"
  <2>1. first \notin Contexts /\ first \notin {"cron", "time"} /\ first # "help" /\ first # "exit"
    BY <1>7 DEF Contexts
  <2>2. Answers("unknown")
    BY <1>5, <2>1, Zenon DEF RoutesTo
  <2>3. Gone /\ context' = context
    BY <2>2, AnswersWell
  <2>4. Exempt
    BY <1>6, <1>7 DEF Exempt
  <2>5. QED
    BY <2>3, <2>4 DEF WellAnswered
<1>8. CASE first \in Contexts /\ k = 1
  <2>1. Switch(first)
    BY <1>5, <1>8, Zenon DEF RoutesTo, k
  <2>2. QED
    BY <2>1, AnswersWell
<1>9. CASE first \in Contexts /\ k # 1
  <2>1. Dispatch(first, tail)
    BY <1>5, <1>9, Zenon DEF RoutesTo, k
  <2>2. tail \in Seq(E) /\ Len(tail) = k - 1 /\ \A i \in 1..k - 1 : tail[i] = argv[i + 1]
    <3>1. tail \in Seq(E) /\ Len(tail) = Len(argv) - 1 /\ \A i \in 1..Len(tail) : tail[i] = argv[i + 1]
      BY <1>5, HeadTailProperties
    <3> HIDE DEF tail
    <3>2. QED
      BY <3>1 DEF k
  <2> HIDE DEF tail
  <2>3. WordsAre(tail, rest)
    <3>1. k - 1 \in 1..n
      BY <1>1, <1>4, <1>9
    <3>2. ASSUME NEW i \in 1..k - 1 PROVE Name(tail[i]) = rest[i]
      <4>1. i \in 1..n /\ i + 1 \in 1..k
        BY <1>1, <1>4
      <4>2. tail[i] = argv[i + 1] /\ Name(argv[i + 1]) = names[i + 1] /\ names[i + 1] = rest[i]
        BY <1>3, <1>4, <2>2, <4>1
      <4>3. QED
        BY <4>2
    <3>3. QED
      BY <2>2, <3>1, <3>2 DEF WordsAre, n
  <2>4. tail # <<>>
    <3>1. Len(tail) # 0
      BY <1>4, <1>9, <2>2
    <3>2. QED
      BY <3>1, EmptySeq
  <2>5. KnownArgs(first, tail) \/ Exempt
    <3>1. CASE rest[1] = "back"
      BY <1>6, <3>1 DEF Exempt
    <3>2. CASE rest[1] # "back"
      BY <1>9, <2>2, <2>3, <3>2, OfferedInContext
    <3>3. QED
      BY <3>1, <3>2
  <2>6. QED
    BY <1>9, <2>1, <2>2, <2>4, <2>5, DispatchedWell
<1>10. CASE first \in {"cron", "time"}
  <2>1. first \notin Contexts /\ "shell" \in Contexts
    BY <1>10 DEF Contexts
  <2>2. Dispatch("shell", argv)
    BY <1>5, <1>10, <2>1, Zenon DEF RoutesTo
  <2>3. DOMAIN Table("shell") = {"exec", "script", "env", "file", "cron", "time", "install", "monitor"}
    BY DEF Table, ShellTable
  <2>4. rest[1] \in DOMAIN Table(first)
    BY <1>10 DEF Item
  <2>5. KnownArgs("shell", argv)
    BY <1>5, <1>10, <2>3, <2>4 DEF KnownArgs, k
  <2>6. QED
    BY <1>5, <2>1, <2>2, <2>5, DispatchedWell
<1>11. QED
  BY <1>7, <1>8, <1>9, <1>10

LEMMA RouteAnswersWell ==
  ASSUME ReplInv, OfferedInv, offered, Route
  PROVE  Gone /\ WellAnswered
<1> DEFINE name == IF Name(argv[1]) = "packet" /\ context = "main" THEN "package" ELSE Name(argv[1])
<1>1. /\ pc = "repl.route" /\ interactive /\ OfferedWords
      /\ argv \in Seq(Seq(Symbols)) /\ context \in ContextOrMain
  <2>1. pc = "repl.route"
    BY Zenon DEF Route
  <2>2. QED
    BY <2>1 DEF ReplInv, ReplTypeOK, OfferedInv, ContextOrMain
<1>2. RoutesTo(name)
  BY Zenon DEF Route, RoutesTo
<1>3. PICK names \in Completions(context) : words = AsWords(names) /\ WordsAre(argv, names)
  BY <1>1 DEF OfferedWords
<1>4. name = Name(argv[1]) \/ (context = "main" /\ Name(argv[1]) = "packet")
  OBVIOUS
<1> HIDE DEF name
<1>5. ASSUME context = "main" PROVE Name(argv[1]) # "packet"
  <2>1. PlainNames(names) /\ Name(argv[1]) = names[1]
    <3>1. PlainNames(names)
      BY <1>1, CompletionPlain
    <3>2. PICK T : names \in Seq(T)
      BY <3>1 DEF PlainNames
    <3>3. Len(names) \in Nat /\ Len(argv) \in Nat
      BY <1>1, <3>2, LenProperties
    <3>4. 1 \in 1..Len(argv)
      BY <1>3, <3>3 DEF WordsAre
    <3>5. QED
      BY <1>3, <3>1, <3>4 DEF WordsAre
  <2>2. names \in Palette("main") \/ Behind(names)
    BY <1>1, <1>5, CompletionItems
  <2>3. ASSUME names \in Palette("main") PROVE names[1] # "packet"
    <3>1. PICK x \in Contexts \union {"cron", "time", "help", "exit"} : names = <<x>>
      BY <2>3 DEF Palette, MainPalette, Single
    <3>2. x # "packet" /\ names[1] = x
      BY <3>1 DEF Contexts
    <3>3. QED
      BY <3>2
  <2>4. ASSUME Behind(names) PROVE names[1] # "packet"
    <3>1. PICK first \in Contexts \union {"main", "cron", "time"} :
            \E rest : names = <<first>> \o rest /\ Item(first, rest)
      BY <2>4 DEF Behind
    <3>2. PICK rest : names = <<first>> \o rest /\ Item(first, rest)
      BY <3>1
    <3>3. first # Space /\ first # Quote /\ first # "packet"
      BY Marks DEF Contexts
    <3> DEFINE all == <<first>> \o rest
    <3>4. all[1] = first
      BY <3>2, <3>3, FrontName DEF Item
    <3> HIDE DEF all
    <3>5. QED
      BY <3>2, <3>3, <3>4 DEF all
  <2>5. QED
    BY <2>1, <2>2, <2>3, <2>4
<1>6. RoutesTo(Name(argv[1]))
  BY <1>2, <1>4, <1>5
<1>7. CASE context # "main" /\ Item(context, names)
  <2>1. context \in Contexts
    BY <1>1, <1>7 DEF ContextOrMain
  <2>2. QED
    BY <1>1, <1>3, <1>6, <1>7, <2>1, RouteInContext
<1>8. CASE context = "main" /\ names \in Palette("main")
  BY <1>1, <1>3, <1>6, <1>8, RouteSingle
<1>9. CASE context = "main" /\ Behind(names)
  <2>1. PICK first \in Contexts \union {"main", "cron", "time"} :
          \E rest : names = <<first>> \o rest /\ Item(first, rest)
    BY <1>9 DEF Behind
  <2>2. PICK rest : names = <<first>> \o rest /\ Item(first, rest)
    BY <2>1
  <2>3. QED
    BY <1>1, <1>3, <1>6, <1>9, <2>2, RouteBehind
<1>10. QED
  BY <1>1, <1>3, <1>7, <1>8, <1>9, CompletionItems

\* A slash is put before an entry of the palette only.
LEMMA PaletteIsValid ==
  ASSUME NEW c \in ContextOrMain, NEW names \in Palette(c)
  PROVE  IsValidCommand(c, names[1])
<1>1. CASE c = "main"
  <2>1. PICK x \in Contexts \union {"cron", "time", "help", "exit"} : names = <<x>>
    BY <1>1 DEF Palette, MainPalette, Single
  <2>2. names[1] = x /\ <<x>> \in MainPalette
    BY <1>1, <2>1 DEF MainPalette, Single
  <2>3. QED
    BY <1>1, <2>2 DEF IsValidCommand
<1>2. CASE c # "main"
  BY <1>2, Zenon DEF IsValidCommand
<1>3. QED
  BY <1>1, <1>2

LEMMA CompleteLineOffers == ReplInv /\ OfferedInv /\ CompleteLine => OfferedInv'
<1> SUFFICES ASSUME ReplInv, OfferedInv, CompleteLine PROVE OfferedInv'
  OBVIOUS
<1>1. context \in ContextOrMain
  BY DEF ReplInv, ReplTypeOK, ContextOrMain
<1>2. AtPrompt
      /\ \E names \in Completions(context), slash \in BOOLEAN :
           /\ slash => names \in Palette(context)
           /\ ReadLine(LineOf(AsWords(names), FALSE, 1), AsWords(names), slash, TRUE)
  BY Zenon DEF CompleteLine, AtPrompt
<1>3. PICK names \in Completions(context), slash \in BOOLEAN :
           /\ slash => names \in Palette(context)
           /\ ReadLine(LineOf(AsWords(names), FALSE, 1), AsWords(names), slash, TRUE)
  BY <1>2
<1>4. names \in AllNames /\ PlainNames(names)
  BY <1>1, CompletionPlain DEF AllNames
<1>5. slash => IsValidCommand(context, names[1])
  BY <1>1, <1>3, PaletteIsValid
<1> DEFINE line == LineOf(AsWords(names), FALSE, 1)
           first == IF line[1] = Quote THEN "no-name" ELSE Name(AsWords(names)[1])
           tokens == Understood(slash, first, line)
<1>6. tokens # <<>> /\ WordsAre(tokens, names)
  BY <1>4, <1>5, NamesRead
<1>7. /\ words' = AsWords(names) /\ argv' = tokens
      /\ pc' = (IF argv' = <<>> THEN "repl.end" ELSE "repl.route")
      /\ told' = (IF argv' = <<>> THEN "palette" ELSE "nothing")
      /\ UNCHANGED <<interactive, context>>
  BY <1>3, Zenon DEF ReadLine
<1> HIDE DEF tokens
<1>8. pc' = "repl.route" /\ told' = "nothing" /\ interactive' /\ context' = context
  BY <1>2, <1>6, <1>7 DEF AtPrompt
<1>9. OfferedWords'
  BY <1>6, <1>7, <1>8 DEF OfferedWords
<1>10. CompletionsKnown'
  BY <1>8 DEF CompletionsKnown
<1>11. QED
  BY <1>8, <1>9, <1>10 DEF OfferedInv

LEMMA OfferedInvStep == ReplInv /\ OfferedInv /\ [ReplNext]_replVars => OfferedInv'
<1> SUFFICES ASSUME ReplInv, OfferedInv, [ReplNext]_replVars PROVE OfferedInv'
  OBVIOUS
<1>1. ASSUME ~offered' PROVE OfferedInv'
  BY <1>1 DEF OfferedInv
<1>2. CASE TypeLine
  <2>1. offered' = FALSE
    <3>1. \E means \in Lines(context), quoted, slash \in BOOLEAN, gap \in {1, 2} :
            ReadLine(LineOf(means, quoted, gap), means, slash, FALSE)
      BY <1>2, Zenon DEF TypeLine
    <3>2. PICK means \in Lines(context), quoted, slash \in BOOLEAN, gap \in {1, 2} :
            ReadLine(LineOf(means, quoted, gap), means, slash, FALSE)
      BY <3>1
    <3>3. QED
      BY <3>2, Zenon DEF ReadLine
  <2>2. QED
    BY <1>1, <2>1
<1>3. CASE CompleteLine
  BY <1>3, CompleteLineOffers
<1>4. CASE DirectLine \/ NoLine \/ EndOfInput
  <2>1. pc = "prompt" /\ offered' = offered
    BY <1>4 DEF DirectLine, NoLine, EndOfInput
  <2>2. QED
    BY <1>1, <2>1 DEF OfferedInv
<1>5. CASE LineDone
  BY <1>1, <1>5 DEF LineDone
<1>6. CASE Route
  <2>1. UNCHANGED <<interactive, words, offered>>
    BY <1>6, Zenon DEF Route
  <2>2. ASSUME offered PROVE Gone /\ WellAnswered
    BY <1>6, <2>2, RouteAnswersWell
  <2>3. CASE ~offered
    BY <1>1, <2>1, <2>3
  <2>4. CASE offered
    BY <2>1, <2>2, <2>4, AnswerAllowed DEF Gone
  <2>5. QED
    BY <2>3, <2>4
<1>7. CASE MenuAnswer
  <2>1. /\ pc' \in {"repl.end", "repl.ask", "repl.run"} /\ UNCHANGED <<interactive, context, words, offered>>
        /\ told' = "cancelled" \/ told' = told
    BY <1>7 DEF MenuAnswer, Unprompted
  <2>2. QED
    BY <2>1, AnswerAllowed DEF WellAnswered
<1>8. CASE Ask
  <2>1. /\ pc' \in {"repl.end", "repl.ask", "repl.run"} /\ UNCHANGED <<interactive, context, words, offered>>
        /\ told' = "cancelled" \/ told' = told
    BY <1>8 DEF Ask, Unprompted
  <2>2. QED
    BY <2>1, AnswerAllowed DEF WellAnswered
<1>9. CASE Run
  <2>1. /\ pc' = "repl.end" /\ UNCHANGED <<interactive, context, words, offered>> /\ told' = "carried-out"
    BY <1>9 DEF Run, Unprompted
  <2>2. QED
    BY <2>1, AnswerAllowed DEF WellAnswered
<1>10. CASE UNCHANGED replVars
  BY <1>10 DEF replVars, OfferedInv, CompletionsKnown, OfferedWords
<1>11. \/ TypeLine \/ CompleteLine \/ NoLine \/ EndOfInput \/ DirectLine \/ MenuAnswer \/ Ask
       \/ Route \/ Run \/ LineDone \/ UNCHANGED replVars
  BY Zenon DEF ReplNext, ReplUser, ReplCommands
<1>12. QED
  BY <1>2, <1>3, <1>4, <1>5, <1>6, <1>7, <1>8, <1>9, <1>10, <1>11

\* For every size of token_argv: what completion offers is a command that the
\* dispatchers know, but for "back" behind a context's name and the section
\* "main" (completion_callback, is_valid_command, parser_tokenize, dispatch_*).
THEOREM EveryOfferKnown == ReplSpec => []CompletionsKnown
<1>1. ReplInit => OfferedInv
  BY DEF ReplInit, OfferedInv
<1>2. ReplInv /\ OfferedInv /\ [ReplNext]_replVars => OfferedInv'
  BY OfferedInvStep
<1>3. OfferedInv => CompletionsKnown
  BY DEF OfferedInv, CompletionsKnown
<1>4. QED
  BY <1>1, <1>2, <1>3, ReplInvAlways, PTL DEF ReplSpec

-----------------------------------------------------------------------------
(* Remainders of a division by any m.                                       *)

LEMMA Times ==
  ASSUME NEW m \in Nat \ {0}, NEW d \in Int
  PROVE  /\ d <= 0 => m * d <= 0
         /\ d >= 1 => m * d >= m
OBVIOUS

LEMMA RestRange ==
  ASSUME NEW m \in Nat \ {0}, NEW x \in Int
  PROVE  x % m \in 0..m - 1
OBVIOUS

LEMMA Rest ==
  ASSUME NEW m \in Nat \ {0}, NEW x \in Int
  PROVE  x % m \in 0..m - 1 /\ \E q \in Int : x = m * q + (x % m)
<1>1. x % m \in 0..m - 1
  OBVIOUS
<1>2. x = m * (x \div m) + (x % m) /\ x \div m \in Int
  OBVIOUS
<1>3. QED
  BY <1>1, <1>2

LEMMA RestUnique ==
  ASSUME NEW m \in Nat \ {0}, NEW q \in Int, NEW r \in 0..m - 1, NEW x \in Int, x = m * q + r
  PROVE  x % m = r
<1>1. PICK p \in Int : x = m * p + (x % m)
  BY Rest
<1>2. x % m \in 0..m - 1
  BY Rest
<1>3. m * (p - q) = r - (x % m)
  BY <1>1, <1>2
<1>4. p - q \in Int /\ (p - q <= 0 => m * (p - q) <= 0) /\ (p - q >= 1 => m * (p - q) >= m)
  BY Times
<1>5. q - p \in Int /\ (q - p <= 0 => m * (q - p) <= 0) /\ (q - p >= 1 => m * (q - p) >= m)
  BY Times
<1>6. m * (q - p) = (x % m) - r
  BY <1>1, <1>2
<1>7. p - q = 0
  BY <1>2, <1>3, <1>4, <1>5, <1>6
<1>8. QED
  BY <1>1, <1>2, <1>7

\* Numbers less than m apart have different remainders.
LEMMA RestsDiffer ==
  ASSUME NEW m \in Nat \ {0}, NEW a \in Int, NEW b \in Int, a < b, b - a < m
  PROVE  a % m # b % m
<1> SUFFICES ASSUME a % m = b % m PROVE FALSE
  OBVIOUS
<1>1. PICK p \in Int : a = m * p + (a % m)
  BY Rest
<1>2. PICK q \in Int : b = m * q + (b % m)
  BY Rest
<1>3. a % m \in Int /\ b % m \in Int
  BY Rest
<1>4. m * (q - p) = b - a
  BY <1>1, <1>2, <1>3
<1>5. q - p \in Int /\ (q - p <= 0 => m * (q - p) <= 0) /\ (q - p >= 1 => m * (q - p) >= m)
  BY Times
<1>6. QED
  BY <1>4, <1>5

\* A remainder may be taken before something is added, or after m is taken off.
LEMMA RestOfSum ==
  ASSUME NEW m \in Nat \ {0}, NEW a \in Int, NEW c \in Int
  PROVE  ((a % m) + c) % m = (a - m + c) % m
<1> DEFINE r == a % m
           x == a - m + c
           y == r + c
<1>1. PICK p \in Int : a = m * p + r
  BY Rest
<1>2. r \in Int
  BY RestRange
<1> HIDE DEF r
<1>3. x \in Int /\ y \in Int
  BY <1>2
<1>4. y = x + m - m * p
  BY <1>1, <1>2
<1> HIDE DEF x, y
<1>5. PICK q \in Int : x = m * q + (x % m)
  BY <1>3, Rest
<1>6. x % m \in 0..m - 1
  BY <1>3, RestRange
<1> DEFINE d == q + 1 - p
<1>7. d \in Int /\ y = m * d + (x % m)
  BY <1>3, <1>4, <1>5, <1>6
<1> HIDE DEF d
<1>8. y % m = x % m
  BY <1>3, <1>6, <1>7, RestUnique
<1>9. QED
  BY <1>8 DEF x, y, r

-----------------------------------------------------------------------------
(* The ring of run_dmesg_filtered.                                          *)

Rings == [count : Nat, slot : [0..MAX_LOG_LINES - 1 -> Nat]]
NoRing == [count |-> 0, slot |-> [j \in 0..MAX_LOG_LINES - 1 |-> 0]]

RingStep(r, line, i) ==
  IF line # "ours" THEN r
  ELSE [count |-> r.count + 1, slot |-> [r.slot EXCEPT ![r.count % MAX_LOG_LINES] = i]]

RingLoop(log, after) ==
  /\ after[0] = NoRing
  /\ \A i \in 1..Len(log) : after[i] = RingStep(after[i - 1], log[i], i)
  /\ \A i \in 0..Len(log) : after[i] \in Rings

LEMMA RingStepTyped ==
  ASSUME NEW r \in Rings, NEW line, NEW i \in Nat
  PROVE  RingStep(r, line, i) \in Rings
<1>1. r.count \in Nat /\ r.slot \in [0..MAX_LOG_LINES - 1 -> Nat]
  BY DEF Rings
<1>2. [r.slot EXCEPT ![r.count % MAX_LOG_LINES] = i] \in [0..MAX_LOG_LINES - 1 -> Nat]
  BY <1>1
<1>3. QED
  BY <1>1, <1>2 DEF RingStep, Rings

LEMMA RingLoops ==
  ASSUME NEW T, NEW log \in Seq(T)
  PROVE  \E after : RingLoop(log, after) /\ Ring(log) = after[Len(log)]
<1> DEFINE n == Len(log)
           after == CHOOSE h : h = [i \in 0..n |->
                      IF i = 0 THEN [count |-> 0, slot |-> [j \in 0..MAX_LOG_LINES - 1 |-> 0]]
                      ELSE IF log[i] # "ours" THEN h[i - 1]
                      ELSE [count |-> h[i - 1].count + 1,
                            slot |-> [h[i - 1].slot EXCEPT ![h[i - 1].count % MAX_LOG_LINES] = i]]]
<1>1. Ring(log) = after[n]
  BY Zenon DEF Ring
<1>2. n \in Nat
  BY LenProperties
<1> DEFINE step == [x \in Rings \X (1..n) |-> RingStep(x[1], log[x[2]], x[2])]
<1>3. ASSUME NEW a \in Rings, NEW i \in 1..n
      PROVE  step[<<a, i>>] = RingStep(a, log[i], i) /\ RingStep(a, log[i], i) \in Rings
  BY <1>2, RingStepTyped
<1>4. step \in [Rings \X (1..n) -> Rings]
  BY <1>3
<1>5. NoRing \in Rings
  BY DEF NoRing, Rings
<1> HIDE DEF n, step
<1>6. PICK g \in [0..n -> Rings] : Computes(g, NoRing, step, n)
  BY <1>2, <1>4, <1>5, Recursion
<1>7. \A i \in 0..n : g[i] = IF i = 0 THEN NoRing ELSE RingStep(g[i - 1], log[i], i)
  <2>1. ASSUME NEW i \in 0..n, i # 0 PROVE g[i] = RingStep(g[i - 1], log[i], i)
    <3>1. i \in 1..n /\ i - 1 \in 0..n
      BY <1>2, <2>1
    <3>2. QED
      BY <1>3, <1>6, <3>1 DEF Computes
  <2>2. QED
    BY <1>6, <2>1 DEF Computes
<1>8. after = [i \in 0..n |-> IF i = 0 THEN NoRing ELSE RingStep(after[i - 1], log[i], i)]
  <2>1. g = [i \in 0..n |-> IF i = 0 THEN NoRing ELSE RingStep(g[i - 1], log[i], i)]
    BY <1>7, Zenon
  <2>2. QED
    BY <2>1, Zenon DEF RingStep, NoRing
<1> HIDE DEF after
<1>9. after[0] = NoRing /\ \A i \in 1..n : after[i] = RingStep(after[i - 1], log[i], i)
  <2>1. 0 \in 0..n /\ \A i \in 1..n : i \in 0..n /\ i # 0
    BY <1>2
  <2>2. QED
    BY <1>8, <2>1
<1>10. \A i \in 0..n : after[i] \in Rings
  <2>1. Follows(after, NoRing, step, Rings, n)
    BY <1>3, <1>9 DEF Follows
  <2>2. QED
    BY <1>2, <1>4, <1>5, <2>1, LoopTyped
<1>11. QED
  BY <1>1, <1>9, <1>10 DEF RingLoop, n

\* The positions in order, the last of which are in the ring.
InLine(ps) == \A j, k \in 1..Len(ps) : j < k => ps[j] < ps[k]

HoldsLast(r, ps) ==
  /\ r.count = Len(ps)
  /\ \A k \in 1..Len(ps) : k > Len(ps) - MAX_LOG_LINES => r.slot[(k - 1) % MAX_LOG_LINES] = ps[k]

RingInv(r, some) ==
  \E ps \in Seq(Nat) : Elements(ps) = some /\ InLine(ps) /\ HoldsLast(r, ps)

LEMMA RingStepKeeps ==
  ASSUME NEW r \in Rings, NEW some, RingInv(r, some), NEW i \in Nat, \A j \in some : j < i
  PROVE  RingInv(RingStep(r, "ours", i), some \union {i})
<1> DEFINE m == MAX_LOG_LINES
<1>1. m \in Nat \ {0}
  BY KernelAssumption
<1>2. PICK ps \in Seq(Nat) : Elements(ps) = some /\ InLine(ps) /\ HoldsLast(r, ps)
  BY DEF RingInv
<1> DEFINE n == Len(ps)
           qs == Append(ps, i)
           new == RingStep(r, "ours", i)
<1>3. n \in Nat /\ \A k \in 1..n : ps[k] \in Nat /\ ps[k] \in some
  BY <1>2, LenProperties DEF Elements
<1>4. /\ qs \in Seq(Nat) /\ Len(qs) = n + 1 /\ qs[n + 1] = i /\ \A j \in 1..n : qs[j] = ps[j]
      /\ Elements(qs) = some \union {i}
  BY <1>2, AppendElements
<1>5. r.count = n /\ r.slot \in [0..m - 1 -> Nat]
  BY <1>2 DEF HoldsLast, Rings
<1>6. new.count = n + 1 /\ new.slot = [r.slot EXCEPT ![n % m] = i]
  BY <1>5 DEF RingStep
<1> HIDE DEF n, qs, new
<1>7. InLine(qs)
  <2>1. ASSUME NEW j \in 1..n + 1, NEW k \in 1..n + 1, j < k PROVE qs[j] < qs[k]
    <3>1. CASE k = n + 1
      <4>1. j \in 1..n
        BY <1>3, <2>1, <3>1
      <4>2. QED
        BY <1>3, <1>4, <3>1, <4>1
    <3>2. CASE k # n + 1
      <4>1. j \in 1..n /\ k \in 1..n
        BY <1>3, <2>1, <3>2
      <4>2. QED
        BY <1>2, <1>4, <2>1, <4>1 DEF InLine, n
    <3>3. QED
      BY <3>1, <3>2
  <2>2. QED
    BY <1>4, <2>1 DEF InLine
<1>8. n % m \in 0..m - 1
  BY <1>1, <1>3, RestRange
<1>9. ASSUME NEW k \in 1..n + 1, k > n + 1 - m
      PROVE  new.slot[(k - 1) % m] = qs[k]
  <2>1. (k - 1) % m \in 0..m - 1
    <3>1. k - 1 \in Int
      BY <1>3
    <3>2. QED
      BY <1>1, <3>1, RestRange
  <2>2. CASE k = n + 1
    <3>1. (k - 1) % m = n % m
      BY <1>3, <2>2
    <3>2. QED
      BY <1>4, <1>5, <1>6, <1>8, <2>2, <3>1
  <2>3. CASE k # n + 1
    <3>1. k \in 1..n /\ k > n - m /\ k - 1 \in Int /\ n \in Int /\ k - 1 < n /\ n - (k - 1) < m
      BY <1>1, <1>3, <1>9, <2>3
    <3>2. (k - 1) % m # n % m
      BY <1>1, <3>1, RestsDiffer
    <3>3. new.slot[(k - 1) % m] = r.slot[(k - 1) % m]
      BY <1>5, <1>6, <2>1, <3>2
    <3>4. r.slot[(k - 1) % m] = ps[k]
      BY <1>2, <3>1 DEF HoldsLast, n
    <3>5. QED
      BY <1>4, <3>1, <3>3, <3>4
  <2>4. QED
    BY <2>2, <2>3
<1>10. HoldsLast(new, qs)
  <2>1. \A k \in 1..Len(qs) : k > Len(qs) - MAX_LOG_LINES => new.slot[(k - 1) % MAX_LOG_LINES] = qs[k]
    <3> HIDE DEF m
    <3>1. n + 1 = Len(qs) /\ m = MAX_LOG_LINES
      BY <1>4 DEF m
    <3>2. ASSUME NEW k \in 1..Len(qs), k > Len(qs) - m PROVE new.slot[(k - 1) % m] = qs[k]
      <4>1. k \in 1..n + 1 /\ k > n + 1 - m
        BY <1>1, <1>3, <3>1, <3>2
      <4>2. QED
        BY <1>9, <4>1
    <3>3. QED
      BY <3>2 DEF m
  <2>2. new.count = Len(qs)
    BY <1>4, <1>6
  <2>3. QED
    BY <2>1, <2>2, Zenon DEF HoldsLast
<1>11. QED
  BY <1>4, <1>7, <1>10 DEF RingInv, new

\* What is shown of a ring: the last positions, in order.
LEMMA RingShown ==
  ASSUME NEW r \in Rings, NEW ps \in Seq(Nat), HoldsLast(r, ps)
  PROVE  \E limit \in Nat :
           /\ limit <= Len(ps) /\ limit <= MAX_LOG_LINES
           /\ limit = Len(ps) \/ limit = MAX_LOG_LINES
           /\ DOMAIN ShowRing(r) = 1..limit
           /\ \A i \in 1..limit : ShowRing(r)[i] = ps[Len(ps) - limit + i]
<1> DEFINE m == MAX_LOG_LINES
           n == Len(ps)
           limit == IF r.count > m THEN m ELSE r.count
<1>1. m \in Nat \ {0} /\ n \in Nat /\ r.count = n
  BY KernelAssumption, LenProperties DEF HoldsLast
<1>2. ShowRing(r) = [i \in 1..limit |-> r.slot[(RingStart(r) + i - 1) % m]]
  BY DEF ShowRing
<1>3. /\ limit \in Nat /\ limit <= n /\ limit <= m /\ (limit = n \/ limit = m)
      /\ IF r.count > m THEN limit = m ELSE limit = n
  BY <1>1
<1> HIDE DEF limit, n
<1>4. ASSUME NEW i \in 1..limit
      PROVE  r.slot[(RingStart(r) + i - 1) % m] = ps[n - limit + i]
  <2> DEFINE k == n - limit + i
  <2>1. k \in 1..n /\ k > n - m
    BY <1>1, <1>3
  <2>2. (RingStart(r) + i - 1) % m = (k - 1) % m
    <3>1. CASE r.count > m
      <4>1. RingStart(r) = n % m /\ limit = m
        BY <1>1, <1>3, <3>1 DEF RingStart
      <4>2. i - 1 \in Int /\ n \in Int /\ n % m \in Int
        BY <1>1, <1>3, RestRange
      <4>3. ((n % m) + (i - 1)) % m = (n - m + (i - 1)) % m
        BY <1>1, <4>2, RestOfSum
      <4>4. (n % m) + (i - 1) = RingStart(r) + i - 1 /\ n - m + (i - 1) = k - 1
        <5>1. RingStart(r) \in Int /\ (n % m) + (i - 1) = RingStart(r) + (i - 1)
          BY <4>1, <4>2
        <5>2. RingStart(r) + (i - 1) = RingStart(r) + i - 1
          BY <1>3, <5>1
        <5>3. n - m + (i - 1) = k - 1
          BY <1>1, <1>3, <4>1
        <5>4. QED
          BY <5>1, <5>2, <5>3
      <4>5. QED
        BY <4>3, <4>4
    <3>2. CASE ~(r.count > m)
      <4>1. RingStart(r) = 0 /\ limit = n
        BY <1>1, <1>3, <3>2 DEF RingStart
      <4>2. RingStart(r) + i - 1 = k - 1
        BY <1>1, <4>1
      <4>3. QED
        BY <4>2
    <3>3. QED
      BY <3>1, <3>2
  <2>3. r.slot[(k - 1) % m] = ps[k]
    <3> HIDE DEF k
    <3>1. QED
      BY <2>1 DEF HoldsLast, n
  <2>4. QED
    BY <2>2, <2>3
<1>5. DOMAIN ShowRing(r) = 1..limit /\ \A i \in 1..limit : ShowRing(r)[i] = ps[n - limit + i]
  BY <1>2, <1>4
<1>6. QED
  BY <1>3, <1>5 DEF n

\* The lines of the module among the first i.
OursUpTo(log, i) == {j \in 1..i : log[j] = "ours"}

LEMMA RingOfLog ==
  ASSUME NEW T, NEW log \in Seq(T)
  PROVE  Ring(log) \in Rings /\ RingInv(Ring(log), OursUpTo(log, Len(log)))
<1> DEFINE n == Len(log)
<1>1. PICK after : RingLoop(log, after) /\ Ring(log) = after[n]
  BY RingLoops
<1>2. n \in Nat
  BY LenProperties
<1> DEFINE Good == {i \in 0..n : RingInv(after[i], OursUpTo(log, i))}
<1>3. 0 \in Good
  <2>1. 0 \in 0..n /\ after[0] = NoRing /\ OursUpTo(log, 0) = {}
    BY <1>1, <1>2 DEF RingLoop, OursUpTo
  <2>2. <<>> \in Seq(Nat) /\ Len(<<>>) = 0 /\ 1..0 = {}
    BY EmptySeq
  <2>3. Elements(<<>>) = {} /\ InLine(<<>>) /\ HoldsLast(NoRing, <<>>)
    BY <2>2 DEF Elements, InLine, HoldsLast, NoRing
  <2>4. RingInv(NoRing, {})
    BY <2>2, <2>3 DEF RingInv
  <2>5. QED
    BY <2>1, <2>4
<1>4. ASSUME NEW i \in 1..n, i - 1 \in Good PROVE i \in Good
  <2>1. /\ RingInv(after[i - 1], OursUpTo(log, i - 1)) /\ after[i - 1] \in Rings
        /\ after[i] = RingStep(after[i - 1], log[i], i) /\ i \in 0..n /\ i \in Nat
    BY <1>1, <1>2, <1>4 DEF RingLoop
  <2>2. \A j \in OursUpTo(log, i - 1) : j < i
    BY <1>2 DEF OursUpTo
  <2>3. CASE log[i] = "ours"
    <3>1. OursUpTo(log, i) = OursUpTo(log, i - 1) \union {i}
      BY <1>2, <2>3 DEF OursUpTo
    <3>2. RingInv(RingStep(after[i - 1], "ours", i), OursUpTo(log, i - 1) \union {i})
      BY <2>1, <2>2, RingStepKeeps
    <3>3. QED
      BY <2>1, <2>3, <3>1, <3>2
  <2>4. CASE log[i] # "ours"
    <3>1. OursUpTo(log, i) = OursUpTo(log, i - 1)
      BY <1>2, <2>4 DEF OursUpTo
    <3>2. after[i] = after[i - 1]
      BY <2>1, <2>4 DEF RingStep
    <3>3. QED
      BY <2>1, <3>1, <3>2
  <2>5. QED
    BY <2>3, <2>4
<1>5. n \in 0..n
  BY <1>2
<1> HIDE DEF Good
<1>6. n \in Good
  <2> HIDE DEF n
  <2>1. QED
    BY <1>2, <1>3, <1>4, <1>5, UpTo
<1>7. QED
  BY <1>1, <1>5, <1>6 DEF Good, RingLoop

\* As many positions are not before one as come after it in the line, and itself.
LEMMA LaterCounts ==
  ASSUME NEW ps \in Seq(Nat), InLine(ps), NEW k \in 1..Len(ps)
  PROVE  Cardinality({j \in Elements(ps) : j >= ps[k]}) = Len(ps) - k + 1
<1> DEFINE n == Len(ps)
           later == {j \in Elements(ps) : j >= ps[k]}
           f == [j \in k..n |-> ps[j]]
<1>1. n \in Nat /\ \A j \in 1..n : ps[j] \in Nat
  BY LenProperties
<1>2. \A j \in 1..n : ps[j] >= ps[k] <=> j >= k
  <2>1. ASSUME NEW j \in 1..n PROVE ps[j] >= ps[k] <=> j >= k
    <3>1. CASE j < k
      BY <1>1, <3>1 DEF InLine
    <3>2. CASE j = k
      BY <1>1, <3>2
    <3>3. CASE k < j
      BY <1>1, <3>3 DEF InLine
    <3>4. QED
      BY <1>1, <3>1, <3>2, <3>3
  <2>2. QED
    BY <2>1
<1>3. f \in Bijection(k..n, later)
  <2>1. f \in [k..n -> later]
    <3>1. ASSUME NEW j \in k..n PROVE ps[j] \in later
      BY <1>1, <1>2 DEF Elements
    <3>2. QED
      BY <3>1
  <2>2. \A t \in later : \E j \in k..n : f[j] = t
    <3>1. ASSUME NEW t \in later PROVE \E j \in k..n : f[j] = t
      <4>1. PICK j \in 1..n : t = ps[j] /\ ps[j] >= ps[k]
        BY DEF Elements
      <4>2. j \in k..n
        BY <1>1, <1>2, <4>1
      <4>3. QED
        BY <4>1, <4>2
    <3>2. QED
      BY <3>1
  <2>3. \A i, j \in k..n : f[i] = f[j] => i = j
    <3>1. ASSUME NEW i \in k..n, NEW j \in k..n, ps[i] = ps[j], i # j PROVE FALSE
      <4>1. i \in 1..n /\ j \in 1..n /\ (i < j \/ j < i)
        BY <1>1, <3>1
      <4>2. QED
        BY <1>1, <3>1, <4>1 DEF InLine
    <3>2. QED
      BY <3>1
  <2>4. DOMAIN f = k..n
    OBVIOUS
  <2> HIDE DEF f, later
  <2>5. QED
    BY <2>1, <2>2, <2>3, <2>4 DEF Bijection, Injection, Surjection, IsInjective
<1> HIDE DEF f, later, n
<1>4. IsFiniteSet(k..n) /\ Cardinality(k..n) = n - k + 1
  <2>1. k \in Int /\ n \in Int /\ k <= n
    BY <1>1 DEF n
  <2>2. QED
    BY <2>1, FS_Interval
<1>5. ExistsBijection(k..n, later)
  BY <1>3 DEF ExistsBijection
<1>6. Cardinality(later) = Cardinality(k..n)
  BY <1>4, <1>5, FS_Bijection
<1>7. QED
  BY <1>4, <1>6 DEF later, n

\* What LastLinesShown says of a log and of what is shown of it.
Latest(log) ==
  LET ours == {i \in DOMAIN log : log[i] = "ours"}
      Later(i) == {j \in ours : j >= i}
  IN {i \in ours : \E k \in 1..MAX_LOG_LINES : k = Cardinality(Later(i))}

LastShown(log, s) ==
  /\ {s[i] : i \in DOMAIN s} = Latest(log)
  /\ \A i, j \in DOMAIN s : i < j => s[i] < s[j]

LEMMA LatestShown ==
  ASSUME NEW T, NEW log \in Seq(T)
  PROVE  LastShown(log, ShowRing(Ring(log)))
<1> DEFINE r == Ring(log)
           s == ShowRing(r)
           m == MAX_LOG_LINES
           ours == OursUpTo(log, Len(log))
<1>1. PICK ps \in Seq(Nat) : Elements(ps) = ours /\ InLine(ps) /\ HoldsLast(r, ps)
  BY RingOfLog DEF RingInv
<1> DEFINE n == Len(ps)
<1>2. PICK limit \in Nat :
           /\ limit <= n /\ limit <= m /\ (limit = n \/ limit = m)
           /\ DOMAIN s = 1..limit
           /\ \A i \in 1..limit : s[i] = ps[n - limit + i]
  BY <1>1, RingOfLog, RingShown
<1>3. m \in Nat /\ n \in Nat /\ \A k \in 1..n : ps[k] \in Nat
  BY KernelAssumption, LenProperties
<1>4. Latest(log) = {i \in ours : Cardinality({j \in ours : j >= i}) \in 1..m}
  <2>1. {i \in DOMAIN log : log[i] = "ours"} = ours
    BY LenProperties DEF OursUpTo
  <2>2. QED
    BY <2>1 DEF Latest
<1> HIDE DEF s, ours, n, m
<1>5. ASSUME NEW k \in 1..n PROVE Cardinality({j \in ours : j >= ps[k]}) = n - k + 1
  BY <1>1, LaterCounts DEF n
<1>6. Latest(log) = {ps[k] : k \in {j \in 1..n : n - j + 1 <= m}}
  <2>1. ASSUME NEW i \in Latest(log) PROVE \E k \in {j \in 1..n : n - j + 1 <= m} : i = ps[k]
    <3>1. i \in Elements(ps) /\ Cardinality({j \in ours : j >= i}) \in 1..m
      BY <1>1, <1>4
    <3>2. PICK k \in 1..n : i = ps[k]
      BY <3>1 DEF Elements, n
    <3>3. n - k + 1 \in 1..m
      BY <1>5, <3>1, <3>2
    <3>4. QED
      BY <1>3, <3>2, <3>3
  <2>2. ASSUME NEW k \in 1..n, n - k + 1 <= m PROVE ps[k] \in Latest(log)
    <3>1. ps[k] \in ours
      BY <1>1 DEF Elements, n
    <3>2. n - k + 1 \in 1..m
      BY <1>3, <2>2
    <3>3. QED
      BY <1>4, <1>5, <3>1, <3>2
  <2>3. QED
    BY <2>1, <2>2
<1>7. {s[i] : i \in DOMAIN s} = {ps[k] : k \in {j \in 1..n : n - j + 1 <= m}}
  <2>1. ASSUME NEW i \in 1..limit PROVE \E k \in {j \in 1..n : n - j + 1 <= m} : s[i] = ps[k]
    <3>1. n - limit + i \in 1..n /\ n - (n - limit + i) + 1 <= m
      BY <1>2, <1>3
    <3>2. QED
      BY <1>2, <3>1
  <2>2. ASSUME NEW k \in 1..n, n - k + 1 <= m PROVE \E i \in 1..limit : s[i] = ps[k]
    <3>1. limit - (n - k) \in 1..limit /\ n - limit + (limit - (n - k)) = k
      BY <1>2, <1>3, <2>2
    <3>2. s[limit - (n - k)] = ps[k]
      BY <1>2, <3>1
    <3>3. QED
      BY <3>1, <3>2
  <2> DEFINE window == {j \in 1..n : n - j + 1 <= m}
  <2>3. {s[i] : i \in 1..limit} = {ps[k] : k \in window}
    <3>1. \A i \in 1..limit : \E k \in window : s[i] = ps[k]
      BY <2>1
    <3>2. \A k \in window : \E i \in 1..limit : s[i] = ps[k]
      BY <2>2
    <3> HIDE DEF window
    <3>3. QED
      <4>1. ASSUME NEW x \in {s[i] : i \in 1..limit} PROVE x \in {ps[k] : k \in window}
        BY <3>1
      <4>2. ASSUME NEW x \in {ps[k] : k \in window} PROVE x \in {s[i] : i \in 1..limit}
        BY <3>2
      <4>3. QED
        BY <4>1, <4>2, Zenon
  <2>4. DOMAIN s = 1..limit
    BY <1>2
  <2>5. QED
    BY <2>3, <2>4, Zenon
<1>8. ASSUME NEW i \in 1..limit, NEW j \in 1..limit, i < j PROVE s[i] < s[j]
  <2>1. n - limit + i \in 1..n /\ n - limit + j \in 1..n /\ n - limit + i < n - limit + j
    BY <1>2, <1>3, <1>8
  <2>2. ps[n - limit + i] < ps[n - limit + j]
    BY <1>1, <2>1 DEF InLine, n
  <2>3. QED
    BY <1>2, <2>2
<1>9. LastShown(log, s)
  BY <1>2, <1>6, <1>7, <1>8 DEF LastShown
<1>10. QED
  BY <1>9 DEF s

\* What is shown is what the ring had of the log, and nothing is while it is read.
LogInv ==
  /\ told = "log" => dmesg \in Logs /\ shown = ShowRing(Ring(dmesg))
  /\ pc \in {"log", "log.sudo"} => told = "nothing"

LEMMA LogInvInit == KernelInit => LogInv
BY DEF KernelInit, LogInv

LEMMA LogTell ==
  ASSUME NEW what, what # "log", NEW new, KernelTell(what, new)
  PROVE  LogInv'
BY DEF KernelTell, LogInv

LEMMA LogGoes ==
  ASSUME LogInv, NEW next, next \notin {"log", "log.sudo"}, NEW new, KernelGoesTo(next, new)
  PROVE  LogInv'
BY DEF KernelGoesTo, LogInv, logVars

LEMMA LogLoader ==
  ASSUME LogInv, NEW m, NEW who, NEW p, Loader(m, who, p), pc' = pc \/ pc' \notin {"log", "log.sudo"}
  PROVE  LogInv'
BY DEF Loader, LogInv, logVars

LEMMA LogInvStep == LogInv /\ [KernelNext]_kernelVars => LogInv'
<1> SUFFICES ASSUME LogInv, [KernelNext]_kernelVars PROVE LogInv'
  OBVIOUS
<1>1. CASE KernelStart
  BY <1>1 DEF KernelStart, KernelBegin, LogInv
<1>2. CASE LoadLooks \/ LoadAsksLsmod \/ Insmod \/ LoadFails \/ LoadVerifies
  <2>1. CASE LoadLooks
    BY <2>1, LogTell, LogGoes DEF LoadLooks
  <2>2. CASE LoadAsksLsmod
    <3>1. \/ KernelTell("already-loaded", {})
          \/ KernelGoesTo("load.insmod", Missed("lsmod-missed"))
          \/ KernelGoesTo("load.make", Missed("lsmod-missed"))
      BY <2>2 DEF LoadAsksLsmod
    <3>2. QED
      BY <3>1, LogTell, LogGoes
  <2>3. CASE Insmod
    BY <2>3, LogTell, LogLoader DEF Insmod
  <2>4. CASE LoadFails
    BY <2>4, LogTell DEF LoadFails
  <2>5. CASE LoadVerifies
    BY <2>5, LogTell DEF LoadVerifies
  <2>6. QED
    BY <1>2, <2>1, <2>2, <2>3, <2>4, <2>5
<1>3. CASE Make
  <2>1. CASE KernelTell("build-failure", {})
    BY <2>1, LogTell
  <2>2. CASE pc' = "load.insmod" /\ UNCHANGED <<told, logVars>>
    BY <2>2 DEF LogInv, logVars
  <2>3. QED
    BY <1>3, <2>1, <2>2 DEF Make
<1>4. CASE UnloadLooks \/ UnloadAsksLsmod \/ Rmmod \/ UnloadVerifies
  <2>1. CASE UnloadLooks
    <3>1. KernelGoesTo("unload.rmmod", {}) \/ KernelGoesTo("unload.lsmod", Missed("modules-missed"))
      BY <2>1 DEF UnloadLooks
    <3>2. QED
      BY <3>1, LogGoes
  <2>2. CASE UnloadAsksLsmod
    BY <2>2, LogTell, LogGoes DEF UnloadAsksLsmod
  <2>3. CASE Rmmod
    BY <2>3, LogTell, LogLoader DEF Rmmod
  <2>4. CASE UnloadVerifies
    BY <2>4, LogTell DEF UnloadVerifies
  <2>5. QED
    BY <1>4, <2>1, <2>2, <2>3, <2>4
<1>5. CASE InfoOpens \/ InfoOffers \/ InfoReads
  <2>1. CASE InfoOpens
    <3>1. \/ KernelGoesTo("info.read", {})
          \/ KernelGoesTo("info.offer", {f \in {"info-unopened"} : proc})
      BY <2>1 DEF InfoOpens
    <3>2. QED
      BY <3>1, LogGoes
  <2>2. CASE InfoOffers
    BY <2>2, LogTell, LogGoes DEF InfoOffers
  <2>3. CASE InfoReads
    BY <2>3, LogTell DEF InfoReads
  <2>4. QED
    BY <1>5, <2>1, <2>2, <2>3
<1>6. CASE StatusLooks \/ StatusAsksLsmod \/ StatusLooksForProc
  <2>1. CASE StatusLooks
    <3>1. KernelGoesTo("status.loaded", {}) \/ KernelGoesTo("status.lsmod", Missed("modules-missed"))
      BY <2>1 DEF StatusLooks
    <3>2. QED
      BY <3>1, LogGoes
  <2>2. CASE StatusAsksLsmod
    BY <2>2, LogGoes DEF StatusAsksLsmod
  <2>3. CASE StatusLooksForProc
    BY <2>3, LogTell DEF StatusLooksForProc
  <2>4. QED
    BY <1>6, <2>1, <2>2, <2>3
<1>7. CASE ShowLog
  <2>1. ASSUME NEW log, Dmesg(log, TRUE) PROVE LogInv'
    BY <1>7, <2>1 DEF Dmesg, LogInv, ShowLog
  <2>2. ASSUME NEW log \in Logs, Dmesg(log, FALSE) PROVE LogInv'
    <3>1. CASE PermissionError(log)
      BY <1>7, <2>2, <3>1 DEF Dmesg, LogInv, ShowLog
    <3>2. CASE ~PermissionError(log)
      BY <2>2, <3>2 DEF Dmesg, LogInv
    <3>3. QED
      BY <3>1, <3>2
  <2>3. CASE KernelTell("log-denied", {})
    BY <2>3, LogTell
  <2>4. QED
    BY <1>7, <2>1, <2>2, <2>3 DEF ShowLog
<1>8. CASE KernelWork \/ OtherLoads \/ OtherUnloads
  <2>1. PICK m, who, p : Loader(m, who, p)
    BY <1>8 DEF KernelWork, InitCreatesProc, InitDone, InitFails, ExitRemovesProc, ExitDone,
                OtherLoads, OtherUnloads
  <2>2. pc' = pc \/ pc' \in {"load.verify", "load.failed", "unload.verify"}
    BY <1>8 DEF KernelWork, InitCreatesProc, InitDone, InitFails, ExitRemovesProc, ExitDone,
                OtherLoads, OtherUnloads, CommandEnds
  <2>3. QED
    BY <2>1, <2>2, LogLoader
<1>9. CASE UNCHANGED kernelVars
  BY <1>9 DEF kernelVars, LogInv
<1>10. QED
  BY <1>1, <1>2, <1>3, <1>4, <1>5, <1>6, <1>7, <1>8, <1>9 DEF KernelNext, KernelCommands

\* For any number of lines that the log shows, and a log of any length: what
\* kernel_mgr_show_log shows are the last lines of the module in their order.
THEOREM LastLinesAreShown == KernelSpec => []LastLinesShown
<1>1. LogInv => LastLinesShown
  <2> SUFFICES ASSUME LogInv, told = "log" PROVE LastShown(dmesg, shown)
    BY DEF LastLinesShown, LastShown, Latest
  <2>1. dmesg \in Seq({"ours", "denied", "other"}) /\ shown = ShowRing(Ring(dmesg))
    BY DEF LogInv, Logs
  <2>2. QED
    BY <2>1, LatestShown
<1>2. QED
  BY <1>1, LogInvInit, LogInvStep, PTL DEF KernelSpec
===============================================================================

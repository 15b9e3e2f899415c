----------------------------- MODULE DataLemmas -----------------------------
(* Facts about numbers and sequences that more than one proof needs. *)
EXTENDS Integers, Sequences, TLAPS, WellFoundedInduction, SequenceTheorems

\* A set of numbers that has a member has a least one.
LEMMA LeastMember ==
  ASSUME NEW S \in SUBSET Nat, S # {}
  PROVE  \E x \in S : \A y \in S : x <= y
<1> DEFINE R == {ss \in Nat \X Nat : ss[1] < ss[2]}
<1>1. IsWellFoundedOn(R, Nat)
  BY NatLessThanWellFounded DEF OpToRel
<1> HIDE DEF R
<1>2. \E x \in S : \A y \in S : ~ (<<y, x>> \in R)
  BY <1>1, WFMin
<1>3. \A x \in S, y \in S : <<y, x>> \in R <=> y < x
  BY DEF R
<1>4. PICK x \in S : \A y \in S : ~ (<<y, x>> \in R) BY <1>2
<1>5. \A y \in S : x <= y
  <2> TAKE y \in S
  <2>1. x \in Nat /\ y \in Nat OBVIOUS
  <2>2. ~ (y < x) BY <1>3, <1>4
  <2> QED BY <2>1, <2>2
<1> QED BY <1>5

\* What holds of 0, and of k + 1 if it holds of k, holds of every number up to n.
LEMMA Climb ==
  ASSUME NEW n \in Nat, NEW P, 0 \in P, \A k \in 0..n-1 : k \in P => k + 1 \in P
  PROVE  \A k \in 0..n : k \in P
<1> DEFINE Q == {k \in 0..n : k \notin P}
<1>1. SUFFICES ASSUME Q # {} PROVE FALSE
  OBVIOUS
<1>2. Q \in SUBSET Nat
  OBVIOUS
<1>3. PICK m \in Q : \A k \in Q : m <= k
  BY <1>1, <1>2, LeastMember
<1>4. m \in 0..n /\ m \notin P /\ m # 0
  BY <1>3
<1>5. m - 1 \in 0..n-1 /\ m - 1 \in 0..n /\ ~(m <= m - 1) /\ (m - 1) + 1 = m
  BY <1>4
<1>6. m - 1 \in P
  BY <1>3, <1>5
<1> QED
  BY <1>4, <1>5, <1>6

\* f begins with base, and next gives each of its values up to number n from the
\* one before.
Builds(f, n, base, next) ==
  f[0] = base /\ \A k \in 1..n : f[k] = next[<<k, f[k - 1]>>]

\* A function on 0..n can be built up in this way.
LEMMA Built ==
  ASSUME NEW n \in Nat, NEW V, NEW base \in V, NEW next \in [(1..n) \X V -> V]
  PROVE  \E f \in [0..n -> V] : Builds(f, n, base, next)
<1> DEFINE Upto(f, m) == f[0] = base /\ \A k \in 1..m : f[k] = next[<<k, f[k - 1]>>]
           P == {m \in 0..n : \E f \in [0..n -> V] : Upto(f, m)}
<1>1. 0 \in P
  <2>1. Upto([k \in 0..n |-> base], 0)
    OBVIOUS
  <2>2. [k \in 0..n |-> base] \in [0..n -> V] /\ 0 \in 0..n
    OBVIOUS
  <2> HIDE DEF Upto
  <2> QED
    BY <2>1, <2>2
<1>2. ASSUME NEW m \in 0..n-1, m \in P PROVE m + 1 \in P
  <2>1. PICK f \in [0..n -> V] : Upto(f, m)
    BY <1>2
  <2> DEFINE x == next[<<m + 1, f[m]>>]
             g == [f EXCEPT ![m + 1] = x]
  <2>2. m \in 0..n /\ m + 1 \in 1..n /\ m + 1 \in 0..n /\ m + 1 # 0 /\ (m + 1) - 1 = m
    OBVIOUS
  <2>3. x \in V
    BY <2>2
  <2>4. g \in [0..n -> V] /\ g[m + 1] = x /\ \A k \in 0..n : k # m + 1 => g[k] = f[k]
    BY <2>2, <2>3
  <2> HIDE DEF g
  <2>5. ASSUME NEW k \in 1..m + 1 PROVE g[k] = next[<<k, g[k - 1]>>]
    <3>1. CASE k = m + 1
      BY <2>2, <2>4, <3>1, SMTT(30)
    <3>2. CASE k # m + 1
      <4>1. /\ k \in 1..m /\ k \in 0..n /\ k - 1 \in 0..n /\ k - 1 # m + 1
        BY <3>2
      <4> QED
        BY <2>1, <2>4, <3>2, <4>1
    <3> QED
      BY <3>1, <3>2
  <2>6. Upto(g, m + 1)
    <3>1. 0 \in 0..n /\ g[0] = f[0]
      BY <2>2, <2>4
    <3> QED
      BY <2>1, <2>5, <3>1
  <2> HIDE DEF Upto
  <2> QED
    BY <2>2, <2>4, <2>6
<1> HIDE DEF P
<1>3. n \in P
  <2>1. \A k \in 0..n : k \in P
    BY <1>1, <1>2, Climb
  <2> QED
    BY <2>1
<1> QED
  BY <1>3 DEF P, Builds
-----------------------------------------------------------------------------
(* Lemmas about sequences. *)

\* Three sequences in a row can be put together in any order.
LEMMA ConcatAssoc ==
  ASSUME NEW S, NEW a \in Seq(S), NEW b \in Seq(S), NEW c \in Seq(S)
  PROVE  (a \o b) \o c = a \o (b \o c)
BY ConcatAssociative

\* Two sequences in a row are as long as both together.
LEMMA ConcatSeq ==
  ASSUME NEW S, NEW a \in Seq(S), NEW b \in Seq(S)
  PROVE  a \o b \in Seq(S) /\ Len(a \o b) = Len(a) + Len(b)
BY ConcatProperties

\* c has the p elements of a and behind them the q elements of b.
Joins(c, a, b, p, q) ==
  Len(c) = p + q /\ (\A k \in 1..p : c[k] = a[k]) /\ (\A k \in 1..q : c[p + k] = b[k])

\* The elements of two sequences in a row.
LEMMA InARow ==
  ASSUME NEW S, NEW a \in Seq(S), NEW b \in Seq(S), NEW p \in Nat, NEW q \in Nat,
         Len(a) = p, Len(b) = q
  PROVE  a \o b \in Seq(S) /\ Joins(a \o b, a, b, p, q)
<1>1. /\ a \o b \in Seq(S) /\ Len(a \o b) = Len(a) + Len(b)
      /\ \A k \in 1..Len(a) + Len(b) : (a \o b)[k] = IF k <= Len(a) THEN a[k] ELSE b[k - Len(a)]
  BY ConcatProperties
<1> DEFINE w == a \o b
<1> HIDE DEF w
<1>2. Len(w) = p + q /\ \A k \in 1..p + q : w[k] = IF k <= p THEN a[k] ELSE b[k - p]
  BY <1>1 DEF w
<1>3. \A k \in 1..p : w[k] = a[k]
  BY <1>2
<1>4. \A k \in 1..q : w[p + k] = b[k]
  <2> TAKE k \in 1..q
  <2>1. p + k \in 1..p + q /\ ~(p + k <= p) /\ (p + k) - p = k
    OBVIOUS
  <2> QED
    BY <1>2, <2>1
<1> QED
  BY <1>1, <1>2, <1>3, <1>4 DEF w, Joins

\* The beginning and the rest of a sequence, and the two together.
LEMMA Split ==
  ASSUME NEW S, NEW s \in Seq(S), NEW n \in 0..Len(s)
  PROVE  /\ SubSeq(s, 1, n) \in Seq(S) /\ Len(SubSeq(s, 1, n)) = n
         /\ SubSeq(s, n + 1, Len(s)) \in Seq(S)
         /\ Len(SubSeq(s, n + 1, Len(s))) = Len(s) - n
         /\ SubSeq(s, 1, n) \o SubSeq(s, n + 1, Len(s)) = s
<1> DEFINE a == SubSeq(s, 1, n)
           b == SubSeq(s, n + 1, Len(s))
<1>1. Len(s) \in Nat /\ n \in Nat /\ n <= Len(s) OBVIOUS
<1>2. /\ a \in Seq(S) /\ Len(a) = n /\ \A i \in 1..n : a[i] = s[i]
  <2>1. \A i \in 1..n : s[i] \in S BY <1>1, ElementOfSeq
  <2>2. /\ a \in Seq(S) /\ Len(a) = IF 1 <= n THEN n - 1 + 1 ELSE 0
        /\ \A i \in 1..n - 1 + 1 : a[i] = s[1 + i - 1]
    BY <1>1, <2>1, SubSeqProperties
  <2> HIDE DEF a
  <2> QED BY <1>1, <2>2
<1>3. /\ b \in Seq(S) /\ Len(b) = Len(s) - n
      /\ \A i \in 1..Len(s) - n : b[i] = s[n + i]
  <2>1. \A i \in n+1..Len(s) : s[i] \in S BY <1>1, ElementOfSeq
  <2>2. /\ b \in Seq(S)
        /\ Len(b) = IF n + 1 <= Len(s) THEN Len(s) - (n + 1) + 1 ELSE 0
        /\ \A i \in 1..Len(s) - (n + 1) + 1 : b[i] = s[(n + 1) + i - 1]
    BY <1>1, <2>1, SubSeqProperties
  <2> HIDE DEF b
  <2> QED BY <1>1, <2>2
<1> HIDE DEF a, b
<1>4. /\ a \o b \in Seq(S) /\ Len(a \o b) = Len(a) + Len(b)
      /\ \A i \in 1..Len(a) + Len(b) :
           (a \o b)[i] = IF i <= Len(a) THEN a[i] ELSE b[i - Len(a)]
  BY <1>2, <1>3, ConcatProperties
<1>5. Len(a \o b) = Len(s) BY <1>1, <1>2, <1>3, <1>4
<1>6. ASSUME NEW i \in 1..Len(a \o b) PROVE (a \o b)[i] = s[i]
  <2>1. CASE i <= n BY <2>1, <1>1, <1>2, <1>3, <1>4
  <2>2. CASE i > n
    <3>1. i - n \in 1..Len(s) - n /\ n + (i - n) = i BY <2>2, <1>1, <1>5
    <3> QED BY <3>1, <2>2, <1>1, <1>2, <1>3, <1>4, <1>5
  <2> QED BY <2>1, <2>2, <1>1, <1>5
<1>7. a \o b = s BY <1>4, <1>5, <1>6, SeqEqual
<1> QED BY <1>2, <1>3, <1>7 DEF a, b

\* The n elements behind the first at ones.
LEMMA Behind ==
  ASSUME NEW S, NEW s \in Seq(S), NEW at \in Nat, NEW n \in Nat, at + n <= Len(s)
  PROVE  LET u == SubSeq(s, at + 1, at + n) IN
         u \in Seq(S) /\ Len(u) = n /\ \A i \in 1..n : u[i] = s[at + i]
<1> DEFINE u == SubSeq(s, at + 1, at + n)
<1>1. Len(s) \in Nat OBVIOUS
<1>2. \A i \in at + 1..at + n : s[i] \in S BY <1>1, ElementOfSeq
<1>3. at + 1 \in Int /\ at + n \in Int OBVIOUS
<1>4. /\ u \in Seq(S)
      /\ Len(u) = IF at + 1 <= at + n THEN at + n - (at + 1) + 1 ELSE 0
      /\ \A i \in 1..at + n - (at + 1) + 1 : u[i] = s[(at + 1) + i - 1]
  BY <1>2, <1>3, SubSeqProperties
<1> HIDE DEF u
<1>5. Len(u) = n BY <1>4
<1>6. ASSUME NEW i \in 1..n PROVE u[i] = s[at + i]
  <2>1. i \in 1..at + n - (at + 1) + 1 /\ (at + 1) + i - 1 = at + i OBVIOUS
  <2> QED BY <1>4, <2>1
<1> QED BY <1>4, <1>5, <1>6 DEF u

\* A piece of a sequence is what it is byte by byte.
LEMMA SamePiece ==
  ASSUME NEW S, NEW s \in Seq(S), NEW t \in Seq(S), NEW at \in Nat,
         at + Len(t) <= Len(s), \A i \in 1..Len(t) : s[at + i] = t[i]
  PROVE  SubSeq(s, at + 1, at + Len(t)) = t
<1> DEFINE u == SubSeq(s, at + 1, at + Len(t))
<1>1. Len(t) \in Nat OBVIOUS
<1>2. u \in Seq(S) /\ Len(u) = Len(t) /\ \A i \in 1..Len(t) : u[i] = s[at + i]
  BY <1>1, Behind
<1> HIDE DEF u
<1>3. u = t BY <1>2, SeqEqual
<1> QED BY <1>3 DEF u

\* The elements of a sequence behind the first a ones up to number b.
LEMMA Cut ==
  ASSUME NEW S, NEW s \in Seq(S), NEW a \in Nat, NEW b \in a..Len(s)
  PROVE  /\ SubSeq(s, a + 1, b) \in Seq(S) /\ Len(SubSeq(s, a + 1, b)) = b - a
         /\ \A i \in 1..b - a : SubSeq(s, a + 1, b)[i] = s[a + i]
<1>1. b - a \in Nat /\ a + (b - a) = b /\ a + (b - a) <= Len(s)
  OBVIOUS
<1> DEFINE n == b - a
<1>2. LET u == SubSeq(s, a + 1, a + n) IN
      u \in Seq(S) /\ Len(u) = n /\ \A i \in 1..n : u[i] = s[a + i]
  BY <1>1, Behind
<1> QED
  BY <1>1, <1>2

\* Two cuts, the second of which begins where the first ends, are one.
LEMMA Joined ==
  ASSUME NEW S, NEW s \in Seq(S), NEW a \in Nat, NEW b \in Nat, NEW c \in Nat,
         a <= b, b <= c, c <= Len(s)
  PROVE  SubSeq(s, a + 1, b) \o SubSeq(s, b + 1, c) = SubSeq(s, a + 1, c)
<1>1. Len(s) \in Nat
  OBVIOUS
<1>2. a + 1 \in 1..Len(s) + 1 /\ b \in (a + 1) - 1..Len(s) /\ c \in b..Len(s)
  BY <1>1
<1> QED
  BY <1>2, ConcatAdjacentSubSeq

\* A cut of a cut is a cut.
LEMMA CutOfCut ==
  ASSUME NEW S, NEW s \in Seq(S), NEW a \in Nat, NEW b \in a..Len(s),
         NEW i \in Nat, NEW j \in i..b - a
  PROVE  SubSeq(SubSeq(s, a + 1, b), i + 1, j) = SubSeq(s, a + i + 1, a + j)
<1> DEFINE r == SubSeq(s, a + 1, b)
           u == SubSeq(r, i + 1, j)
           v == SubSeq(s, a + i + 1, a + j)
<1>1. r \in Seq(S) /\ Len(r) = b - a /\ \A k \in 1..b - a : r[k] = s[a + k]
  BY Cut
<1>2. /\ b \in Nat /\ j \in Nat /\ Len(s) \in Nat /\ b - a \in Nat
      /\ j <= b - a /\ a + j <= Len(s) /\ i <= j
  OBVIOUS
<1> HIDE DEF r
<1>3. u \in Seq(S) /\ Len(u) = j - i /\ \A k \in 1..j - i : u[k] = r[i + k]
  <2>1. j \in i..Len(r)
    BY <1>1, <1>2
  <2> QED
    BY <1>1, <2>1, Cut
<1>4. v \in Seq(S) /\ Len(v) = j - i /\ \A k \in 1..j - i : v[k] = s[(a + i) + k]
  <2>1. a + i \in Nat /\ a + j \in a + i..Len(s) /\ (a + j) - (a + i) = j - i
    BY <1>2
  <2> QED
    BY <2>1, Cut
<1> HIDE DEF u, v
<1>5. \A k \in 1..j - i : u[k] = v[k]
  <2> TAKE k \in 1..j - i
  <2>1. i + k \in 1..b - a /\ a + (i + k) = (a + i) + k
    BY <1>2
  <2> QED
    BY <1>1, <1>3, <1>4, <2>1
<1>6. u = v
  BY <1>3, <1>4, <1>5, SeqEqual
<1> QED
  BY <1>6 DEF u, v, r

\* A cut of which the first p elements are taken away.
LEMMA CutShort ==
  ASSUME NEW S, NEW s \in Seq(S), NEW a \in Nat, NEW b \in Nat, b <= Len(s),
         NEW r \in Seq(S), a + Len(r) = b, r = SubSeq(s, a + 1, b),
         NEW p \in Nat, p <= Len(r)
  PROVE  /\ SubSeq(r, 1, p) = SubSeq(s, a + 1, a + p)
         /\ SubSeq(r, p + 1, Len(r)) = SubSeq(s, (a + p) + 1, b)
         /\ Len(SubSeq(r, p + 1, Len(r))) = b - (a + p)
         /\ (a + p) + (b - (a + p)) = b /\ a + p <= b
<1>1. /\ Len(r) \in Nat /\ Len(s) \in Nat /\ b - a = Len(r) /\ b \in a..Len(s) /\ 0 \in Nat
      /\ p \in 0..b - a /\ Len(r) \in p..b - a /\ a + p \in Nat /\ b \in a + p..Len(s)
      /\ a + 0 + 1 = a + 1 /\ 0 + 1 = 1
  OBVIOUS
<1>2. SubSeq(r, 0 + 1, p) = SubSeq(s, a + 0 + 1, a + p)
  BY <1>1, CutOfCut
<1>3. SubSeq(r, p + 1, Len(r)) = SubSeq(s, a + p + 1, a + Len(r))
  BY <1>1, CutOfCut
<1>4. Len(SubSeq(s, (a + p) + 1, b)) = b - (a + p)
  BY <1>1, Cut
<1>5. /\ SubSeq(r, 1, p) = SubSeq(s, a + 1, a + p)
      /\ SubSeq(r, p + 1, Len(r)) = SubSeq(s, (a + p) + 1, b)
  BY <1>1, <1>2, <1>3
<1>6. (a + p) + (b - (a + p)) = b /\ a + p <= b
  BY <1>1
<1> QED
  BY <1>4, <1>5, <1>6

\* Where two sequences agree for n elements they agree on any part of these.
LEMMA PartsAgree ==
  ASSUME NEW S, NEW s \in Seq(S), NEW d \in Seq(S), NEW a \in Nat, NEW b \in Nat,
         NEW n \in Nat, a + n <= Len(s), b + n <= Len(d),
         SubSeq(s, a + 1, a + n) = SubSeq(d, b + 1, b + n),
         NEW i \in Nat, NEW j \in i..n
  PROVE  SubSeq(s, a + i + 1, a + j) = SubSeq(d, b + i + 1, b + j)
<1>1. /\ Len(s) \in Nat /\ Len(d) \in Nat
      /\ a + n \in a..Len(s) /\ b + n \in b..Len(d)
      /\ (a + n) - a = n /\ (b + n) - b = n
  OBVIOUS
<1>2. SubSeq(SubSeq(s, a + 1, a + n), i + 1, j) = SubSeq(s, a + i + 1, a + j)
  BY <1>1, CutOfCut
<1>3. SubSeq(SubSeq(d, b + 1, b + n), i + 1, j) = SubSeq(d, b + i + 1, b + j)
  BY <1>1, CutOfCut
<1> QED
  BY <1>2, <1>3
=============================================================================

--------------------------- MODULE SequenceLemmas ---------------------------
(***************************************************************************)
(* Lemmas about the operators on sequences that the proofs of CommandArgs  *)
(* and of the formatters share: concatenation, FlattenSeq and Those.       *)
(* Induction is over sets of numbers.                                      *)
(***************************************************************************)
EXTENDS Picking, WellFoundedInduction, SequenceTheorems, TLAPS

\* Induction over the natural numbers, for a set.
LEMMA SetInduction ==
  ASSUME NEW T, 0 \in T, \A n \in Nat : n \in T => n + 1 \in T
  PROVE  Nat \subseteq T
<1> DEFINE F == Nat \ T
<1> SUFFICES ASSUME F # {} PROVE FALSE
  OBVIOUS
<1>1. PICK x \in F : \A y \in F : ~ (<<y, x>> \in OpToRel(<, Nat))
  BY NatLessThanWellFounded, WFMin
<1>2. x # 0 /\ x \in Nat /\ x - 1 \in Nat /\ x - 1 \in F
  OBVIOUS
<1>3. <<x - 1, x>> \in OpToRel(<, Nat)
  BY <1>2 DEF OpToRel
<1> QED
  BY <1>1, <1>2, <1>3, Zenon

\* A set of numbers has a least one.
LEMMA Least ==
  ASSUME NEW S, S \subseteq Nat, S # {}
  PROVE  \E j \in S : \A i \in S : j <= i
<1>1. PICK x \in S : \A y \in S : ~ (<<y, x>> \in OpToRel(<, Nat))
  BY NatLessThanWellFounded, WFMin
<1>2. \A y \in S : y < x => <<y, x>> \in OpToRel(<, Nat)
  BY DEF OpToRel
<1>3. \A y \in S : ~ (y < x)
  BY <1>1, <1>2
<1> QED
  BY <1>3

\* f has what FlattenSeq makes of the first n sequences of seqs, one after the other.
Flattens(f, seqs, n) ==
  \A i \in 1..n : f[i] = IF i = 1 THEN seqs[i] ELSE f[i - 1] \o seqs[i]

\* There is such a function.
LEMMA FlattensExists ==
  ASSUME NEW V, NEW seqs \in Seq(Seq(V)), NEW n \in 1..Len(seqs)
  PROVE  \E f \in [1..n -> Seq(V)] : Flattens(f, seqs, n)
<1> DEFINE T == {m \in Nat : m + 1 <= Len(seqs) =>
                   \E f \in [1..(m + 1) -> Seq(V)] : Flattens(f, seqs, m + 1)}
<1>1. 0 \in T
  <2> SUFFICES ASSUME 1 <= Len(seqs)
               PROVE  \E f \in [1..1 -> Seq(V)] : Flattens(f, seqs, 1)
    OBVIOUS
  <2> DEFINE f == [i \in 1..1 |-> seqs[1]]
  <2>1. f \in [1..1 -> Seq(V)] /\ Flattens(f, seqs, 1)
    BY DEF Flattens
  <2> QED
    BY <2>1
<1>2. ASSUME NEW m \in Nat, m \in T PROVE m + 1 \in T
  <2> SUFFICES ASSUME m + 2 <= Len(seqs)
               PROVE  \E h \in [1..(m + 2) -> Seq(V)] : Flattens(h, seqs, m + 2)
    OBVIOUS
  <2>1. PICK f \in [1..(m + 1) -> Seq(V)] : Flattens(f, seqs, m + 1)
    BY <1>2
  <2> DEFINE h == [i \in 1..(m + 2) |-> IF i = m + 2 THEN f[m + 1] \o seqs[m + 2] ELSE f[i]]
  <2>2. f[m + 1] \in Seq(V) /\ seqs[m + 2] \in Seq(V)
    OBVIOUS
  <2>3. h \in [1..(m + 2) -> Seq(V)]
    <3>1. f[m + 1] \o seqs[m + 2] \in Seq(V)
      BY <2>2
    <3> HIDE DEF T
    <3> QED
      BY <3>1
  <2>4. ASSUME NEW i \in 1..(m + 2)
        PROVE  h[i] = IF i = 1 THEN seqs[i] ELSE h[i - 1] \o seqs[i]
    <3> HIDE DEF T
    <3>1. CASE i = m + 2
      <4>1. h[i] = f[m + 1] \o seqs[m + 2]
        BY <3>1
      <4>2. h[m + 1] = f[m + 1] /\ i - 1 = m + 1 /\ i # 1
        BY <3>1
      <4> QED
        BY <3>1, <4>1, <4>2
    <3>2. CASE i \in 1..(m + 1)
      <4>1. h[i] = f[i]
        <5>1. i # m + 2
          BY <3>2
        <5> QED
          BY <5>1
      <4>2. ASSUME i # 1 PROVE h[i - 1] = f[i - 1]
        <5>1. i - 1 \in 1..(m + 2) /\ i - 1 # m + 2
          BY <4>2, <3>2
        <5> QED
          BY <5>1
      <4> QED
        BY <2>1, <3>2, <4>1, <4>2 DEF Flattens
    <3> QED
      BY <3>1, <3>2
  <2> QED
    BY <2>3, <2>4 DEF Flattens
<1>3. n - 1 \in T
  <2>1. n - 1 \in Nat
    OBVIOUS
  <2> HIDE DEF T
  <2> QED
    BY <2>1, <1>1, <1>2, SetInduction
<1> QED
  BY <1>3

\* And no two.
LEMMA FlattensUnique ==
  ASSUME NEW seqs, NEW m \in Nat \ {0}, NEW n \in Nat, m <= n, NEW f, NEW g,
         Flattens(f, seqs, m), Flattens(g, seqs, n)
  PROVE  f[m] = g[m]
<1> DEFINE T == {k \in Nat : k + 1 <= m => f[k + 1] = g[k + 1]}
<1>1. 0 \in T
  BY DEF Flattens
<1>2. ASSUME NEW k \in Nat, k \in T PROVE k + 1 \in T
  <2> SUFFICES ASSUME k + 2 <= m PROVE f[k + 2] = g[k + 2]
    OBVIOUS
  <2>1. f[k + 1] = g[k + 1]
    BY <1>2
  <2>2. k + 2 \in 1..m /\ k + 2 \in 1..n /\ (k + 2) - 1 = k + 1 /\ k + 2 # 1
    OBVIOUS
  <2>3. f[k + 2] = f[k + 1] \o seqs[k + 2]
    BY <2>2 DEF Flattens
  <2>4. g[k + 2] = g[k + 1] \o seqs[k + 2]
    BY <2>2 DEF Flattens
  <2> QED
    BY <2>1, <2>3, <2>4
<1>3. m - 1 \in T
  <2> HIDE DEF T
  <2> QED
    BY <1>1, <1>2, SetInduction
<1> QED
  BY <1>3

\* It gives FlattenSeq.
LEMMA FlattenSeqIs ==
  ASSUME NEW V, NEW seqs \in Seq(Seq(V)), NEW n \in 1..Len(seqs), n = Len(seqs),
         NEW f, Flattens(f, seqs, n)
  PROVE  FlattenSeq(seqs) = f[n] /\ f[n] \in Seq(V)
<1> DEFINE Is(g) == g = [i \in 1..Len(seqs) |->
                           IF i = 1 THEN seqs[i] ELSE g[i - 1] \o seqs[i]]
           flatten == CHOOSE g : Is(g)
<1>1. PICK h \in [1..n -> Seq(V)] : Flattens(h, seqs, n)
  BY FlattensExists
<1>2. Is(h)
  BY <1>1 DEF Flattens
<1>3. PICK g : Is(g) /\ FlattenSeq(seqs) = g[Len(seqs)]
  <2>1. Is(flatten)
    BY <1>2
  <2>2. FlattenSeq(seqs) = flatten[Len(seqs)]
    BY DEF FlattenSeq
  <2> HIDE DEF Is, flatten
  <2> QED
    BY <2>1, <2>2
<1>4. Flattens(g, seqs, n)
  BY <1>3 DEF Flattens
<1>5. g[n] = f[n] /\ h[n] = f[n]
  BY <1>1, <1>4, FlattensUnique
<1> QED
  BY <1>1, <1>3, <1>5

\* Nothing gives nothing.
LEMMA FlattenEmpty == FlattenSeq(<<>>) = <<>>
  BY DEF FlattenSeq

\* One more sequence comes last.
LEMMA FlattenAppend ==
  ASSUME NEW V, NEW seqs \in Seq(Seq(V)), NEW s \in Seq(V)
  PROVE  /\ FlattenSeq(seqs) \in Seq(V)
         /\ FlattenSeq(Append(seqs, s)) = FlattenSeq(seqs) \o s
<1> DEFINE m == Len(seqs)
           more == Append(seqs, s)
<1>1. /\ m \in Nat /\ more \in Seq(Seq(V)) /\ Len(more) = m + 1
      /\ more[m + 1] = s /\ \A i \in 1..m : more[i] = seqs[i]
  OBVIOUS
<1> HIDE DEF m, more
<1>2. PICK f \in [1..(m + 1) -> Seq(V)] : Flattens(f, more, m + 1)
  <2>1. m + 1 \in 1..Len(more)
    BY <1>1
  <2> QED
    BY <1>1, <2>1, FlattensExists
<1>3. FlattenSeq(more) = f[m + 1]
  <2>1. m + 1 \in 1..Len(more)
    BY <1>1
  <2> QED
    BY <1>1, <1>2, <2>1, FlattenSeqIs
<1>4. CASE m = 0
  <2>1. seqs = <<>> /\ FlattenSeq(seqs) = <<>>
    BY <1>4, FlattenEmpty DEF m
  <2>2. f[m + 1] = s
    BY <1>1, <1>2, <1>4 DEF Flattens
  <2>3. <<>> \in Seq(V) /\ <<>> \o s = s
    BY ConcatEmptySeq
  <2>4. FlattenSeq(seqs) \o s = s
    BY <2>1, <2>3
  <2> QED
    BY <1>3, <2>1, <2>2, <2>3, <2>4 DEF more
<1>5. CASE m # 0
  <2>1. Flattens(f, seqs, m)
    <3>1. ASSUME NEW i \in 1..m
          PROVE  f[i] = IF i = 1 THEN seqs[i] ELSE f[i - 1] \o seqs[i]
      <4>1. i \in 1..(m + 1) /\ more[i] = seqs[i]
        BY <1>1
      <4> QED
        BY <1>2, <4>1 DEF Flattens
    <3> QED
      BY <3>1 DEF Flattens
  <2>2. FlattenSeq(seqs) = f[m] /\ f[m] \in Seq(V)
    <3>1. m \in 1..Len(seqs) /\ m = Len(seqs)
      BY <1>1, <1>5 DEF m
    <3> QED
      BY <2>1, <3>1, FlattenSeqIs
  <2>3. f[m + 1] = f[m] \o s
    <3>1. m + 1 \in 1..(m + 1) /\ m + 1 # 1 /\ (m + 1) - 1 = m
      BY <1>1, <1>5
    <3> QED
      BY <1>1, <1>2, <3>1 DEF Flattens
  <2> QED
    BY <1>3, <2>2, <2>3 DEF more
<1> QED
  BY <1>1, <1>4, <1>5

\* One of several sequences, in the other order of evaluation: two parts.
LEMMA FlattenConcat ==
  ASSUME NEW V, NEW p \in Seq(Seq(V)), NEW q \in Seq(Seq(V))
  PROVE  FlattenSeq(p \o q) = FlattenSeq(p) \o FlattenSeq(q)
<1> DEFINE Part(n) == SubSeq(q, 1, n)
           T == {n \in Nat : n <= Len(q) =>
                   FlattenSeq(p \o Part(n)) = FlattenSeq(p) \o FlattenSeq(Part(n))}
<1>1. FlattenSeq(p) \in Seq(V)
  BY FlattenAppend, EmptySeq
<1>2. 0 \in T
  <2>1. Part(0) = <<>>
    BY SubSeqEmpty
  <2>2. p \o <<>> = p /\ FlattenSeq(p) \o <<>> = FlattenSeq(p)
    BY <1>1, ConcatEmptySeq
  <2> QED
    BY <2>1, <2>2, FlattenEmpty
<1>3. ASSUME NEW n \in Nat, n \in T PROVE n + 1 \in T
  <2> SUFFICES ASSUME n + 1 <= Len(q)
               PROVE  FlattenSeq(p \o Part(n + 1)) = FlattenSeq(p) \o FlattenSeq(Part(n + 1))
    OBVIOUS
  <2>1. /\ Part(n) \in Seq(Seq(V)) /\ q[n + 1] \in Seq(V)
        /\ Part(n + 1) = Append(Part(n), q[n + 1])
    OBVIOUS
  <2> DEFINE r == Part(n)
             e == q[n + 1]
  <2> HIDE DEF Part, T
  <2>2. r \in Seq(Seq(V)) /\ e \in Seq(V) /\ Part(n + 1) = Append(r, e)
    BY <2>1
  <2>3. FlattenSeq(p \o r) = FlattenSeq(p) \o FlattenSeq(r)
    BY <1>3 DEF T, Part
  <2> HIDE DEF r, e
  <2>4. p \o Append(r, e) = Append(p \o r, e) /\ p \o r \in Seq(Seq(V))
    <3>1. /\ Append(r, e) = r \o <<e>> /\ <<e>> \in Seq(Seq(V)) /\ p \o r \in Seq(Seq(V))
          /\ Append(p \o r, e) = (p \o r) \o <<e>>
      BY <2>2, AppendIsConcat
    <3>2. (p \o r) \o <<e>> = p \o (r \o <<e>>)
      <4> DEFINE W == Seq(V)
      <4> HIDE DEF W
      <4>1. \A x, y, z \in Seq(W) : (x \o y) \o z = x \o (y \o z)
        OBVIOUS
      <4> QED
        BY <2>2, <3>1, <4>1 DEF W
    <3> QED
      BY <3>1, <3>2
  <2>5. FlattenSeq(p \o Append(r, e)) = FlattenSeq(p \o r) \o e
    BY <2>2, <2>4, FlattenAppend
  <2>6. FlattenSeq(Append(r, e)) = FlattenSeq(r) \o e /\ FlattenSeq(r) \in Seq(V)
    BY <2>2, FlattenAppend
  <2>7. (FlattenSeq(p) \o FlattenSeq(r)) \o e = FlattenSeq(p) \o (FlattenSeq(r) \o e)
    <3>1. \A x, y, z \in Seq(V) : (x \o y) \o z = x \o (y \o z)
      OBVIOUS
    <3> QED
      BY <1>1, <2>2, <2>6, <3>1
  <2> QED
    BY <2>2, <2>3, <2>5, <2>6, <2>7
<1>4. Len(q) \in Nat /\ Part(Len(q)) = q
  BY SubSeqFull
<1>5. Len(q) \in T
  <2> HIDE DEF T
  <2> QED
    BY <1>2, <1>3, <1>4, SetInduction
<1>6. FlattenSeq(p \o Part(Len(q))) = FlattenSeq(p) \o FlattenSeq(Part(Len(q)))
  BY <1>4, <1>5
<1> HIDE DEF Part
<1> QED
  BY <1>4, <1>6

\* The sequence that has p and then q is p \o q.
LEMMA ConcatIs ==
  ASSUME NEW V, NEW p \in Seq(V), NEW q \in Seq(V), NEW r \in Seq(V),
         Len(r) = Len(p) + Len(q),
         \A k \in 1..Len(p) : r[k] = p[k],
         \A k \in 1..Len(q) : r[Len(p) + k] = q[k]
  PROVE  r = p \o q
<1>1. p \o q \in Seq(V) /\ Len(p \o q) = Len(p) + Len(q) /\ Len(p) \in Nat /\ Len(q) \in Nat
  OBVIOUS
<1>2. ASSUME NEW k \in 1..Len(r) PROVE r[k] = (p \o q)[k]
  <2>1. CASE k <= Len(p)
    <3>1. k \in 1..Len(p)
      BY <1>1, <2>1
    <3>2. r[k] = p[k]
      BY <3>1
    <3> QED
      BY <1>1, <2>1, <3>2
  <2>2. CASE k > Len(p)
    <3> DEFINE j == k - Len(p)
    <3>1. j \in 1..Len(q) /\ k = Len(p) + j
      BY <1>1, <2>2
    <3>2. r[k] = q[j]
      <4> HIDE DEF j
      <4> QED
        BY <3>1
    <3>3. (p \o q)[k] = q[j]
      BY <1>1, <2>2
    <3> QED
      BY <3>2, <3>3
  <2>3. k \in Int /\ Len(p) \in Int
    BY <1>1
  <2> QED
    BY <2>1, <2>2, <2>3
<1> QED
  BY <1>1, <1>2, SeqEqual

\* The elements of two sequences.
LEMMA RangeConcat ==
  ASSUME NEW V, NEW s \in Seq(V), NEW t \in Seq(V)
  PROVE  Range(s \o t) = Range(s) \cup Range(t)
<1>1. /\ Len(s) \in Nat /\ Len(t) \in Nat
      /\ DOMAIN s = 1..Len(s) /\ DOMAIN t = 1..Len(t) /\ DOMAIN (s \o t) = 1..(Len(s) + Len(t))
      /\ \A k \in 1..Len(s) : (s \o t)[k] = s[k]
      /\ \A k \in 1..Len(t) : (s \o t)[Len(s) + k] = t[k]
  OBVIOUS
<1>2. ASSUME NEW k \in DOMAIN (s \o t) PROVE (s \o t)[k] \in Range(s) \cup Range(t)
  <2>1. CASE k <= Len(s)
    <3>1. k \in DOMAIN s /\ (s \o t)[k] = s[k]
      BY <1>1, <2>1
    <3> QED
      BY <3>1 DEF Range
  <2>2. CASE k > Len(s)
    <3> DEFINE j == k - Len(s)
    <3>1. j \in 1..Len(t) /\ k = Len(s) + j
      BY <1>1, <2>2
    <3> HIDE DEF j
    <3>2. (s \o t)[k] = t[j]
      BY <1>1, <3>1
    <3> QED
      BY <1>1, <3>1, <3>2 DEF Range
  <2> QED
    BY <1>1, <2>1, <2>2
<1>3. ASSUME NEW k \in DOMAIN s PROVE s[k] \in Range(s \o t)
  <2>1. k \in DOMAIN (s \o t) /\ (s \o t)[k] = s[k]
    BY <1>1
  <2> QED
    BY <2>1 DEF Range
<1>4. ASSUME NEW k \in DOMAIN t PROVE t[k] \in Range(s \o t)
  <2>1. Len(s) + k \in DOMAIN (s \o t) /\ (s \o t)[Len(s) + k] = t[k]
    BY <1>1
  <2> QED
    BY <2>1 DEF Range
<1> QED
  BY <1>2, <1>3, <1>4 DEF Range

\* The first element, as a sequence.
LEMMA FirstOf ==
  ASSUME NEW V, NEW s \in Seq(V), Len(s) >= 1
  PROVE  SubSeq(s, 1, 1) = <<s[1]>>
<1>1. s[1] \in V /\ <<s[1]>> \in Seq(V) /\ Len(<<s[1]>>) = 1
  OBVIOUS
<1> DEFINE first == SubSeq(s, 1, 1)
           one == <<s[1]>>
<1>2. first \in Seq(V) /\ Len(first) = 1 /\ first[1] = s[1]
  OBVIOUS
<1>3. one \in Seq(V) /\ Len(one) = 1 /\ one[1] = s[1]
  BY <1>1
<1> HIDE DEF first, one
<1>4. \A i \in 1..Len(first) : first[i] = one[i]
  BY <1>2, <1>3
<1>5. first = one
  BY <1>2, <1>3, <1>4, SeqEqual
<1> QED
  BY <1>5 DEF first, one

\* The last of the texts of a name is the one that was appended.
LEMMA LastAppended ==
  ASSUME NEW V, NEW s \in Seq(V), NEW v \in V
  PROVE  s \o <<v>> # <<>> /\ Last(s \o <<v>>) = v
<1>1. Len(s) \in Nat /\ Len(s \o <<v>>) = Len(s) + 1 /\ (s \o <<v>>)[Len(s) + 1] = v
  OBVIOUS
<1>2. s \o <<v>> # <<>>
  BY <1>1
<1> QED
  BY <1>1, <1>2 DEF Last

\* What Those flattens: each element that is in S, in a sequence of its own.
Picked(S, s) == [k \in DOMAIN s |-> IF s[k] \in S THEN <<s[k]>> ELSE <<>>]

\* It is a sequence of sequences.
LEMMA PickedType ==
  ASSUME NEW S, NEW V, NEW s \in Seq(V)
  PROVE  Picked(S, s) \in Seq(Seq(V)) /\ Len(Picked(S, s)) = Len(s)
<1>1. Len(s) \in Nat /\ DOMAIN s = 1..Len(s)
  OBVIOUS
<1>2. ASSUME NEW k \in 1..Len(s)
      PROVE  (IF s[k] \in S THEN <<s[k]>> ELSE <<>>) \in Seq(V)
  <2>1. s[k] \in V
    OBVIOUS
  <2> QED
    BY <2>1
<1> QED
  BY <1>1, <1>2 DEF Picked

\* Elements picked out of a sequence are of the same kind.
LEMMA ThoseType ==
  ASSUME NEW S, NEW V, NEW s \in Seq(V)
  PROVE  Those(S, s) \in Seq(V)
<1>1. <<>> \in Seq(V)
  OBVIOUS
<1> QED
  BY <1>1, PickedType, FlattenAppend DEF Those, Picked

\* Those of two sequences.
LEMMA ThoseConcat ==
  ASSUME NEW S, NEW V, NEW s \in Seq(V), NEW t \in Seq(V)
  PROVE  Those(S, s \o t) = Those(S, s) \o Those(S, t)
<1> DEFINE n == Len(s)
           m == Len(t)
           u == s \o t
<1>1. /\ u \in Seq(V) /\ Len(u) = n + m /\ n \in Nat /\ m \in Nat
      /\ DOMAIN u = 1..(n + m) /\ DOMAIN s = 1..n /\ DOMAIN t = 1..m
  OBVIOUS
<1>2. /\ \A k \in 1..n : u[k] = s[k]
      /\ \A k \in 1..m : u[n + k] = t[k]
  OBVIOUS
<1>3. Picked(S, s) \o Picked(S, t) = Picked(S, u)
  <2> DEFINE p == Picked(S, s)
             q == Picked(S, t)
             r == Picked(S, u)
  <2>1. /\ p \in Seq(Seq(V)) /\ Len(p) = n /\ q \in Seq(Seq(V)) /\ Len(q) = m
        /\ r \in Seq(Seq(V)) /\ Len(r) = n + m
    <3> HIDE DEF u
    <3> QED
      BY <1>1, PickedType
  <2>2. \A k \in 1..n : r[k] = p[k]
    BY <1>1, <1>2 DEF Picked
  <2>3. \A k \in 1..m : r[n + k] = q[k]
    <3> HIDE DEF u, n, m
    <3> QED
      BY <1>1, <1>2 DEF Picked
  <2> HIDE DEF p, q, r, n, m, u
  <2>4. r = p \o q
    <3> DEFINE W == Seq(V)
    <3>1. p \in Seq(W) /\ q \in Seq(W) /\ r \in Seq(W)
      BY <2>1
    <3>2. /\ Len(r) = Len(p) + Len(q)
          /\ \A k \in 1..Len(p) : r[k] = p[k]
          /\ \A k \in 1..Len(q) : r[Len(p) + k] = q[k]
      BY <2>1, <2>2, <2>3
    <3> HIDE DEF W
    <3> QED
      BY <3>1, <3>2, ConcatIs
  <2> QED
    BY <2>4 DEF p, q, r
<1>4. FlattenSeq(Picked(S, s) \o Picked(S, t)) = FlattenSeq(Picked(S, s)) \o FlattenSeq(Picked(S, t))
  <2>1. Picked(S, s) \in Seq(Seq(V)) /\ Picked(S, t) \in Seq(Seq(V))
    BY PickedType
  <2> QED
    BY <2>1, FlattenConcat
<1> QED
  BY <1>3, <1>4 DEF Those, Picked

\* A sequence picked out of another has no other elements.
LEMMA ThoseRange ==
  ASSUME NEW S, NEW V, NEW s \in Seq(V)
  PROVE  Range(Those(S, s)) \subseteq Range(s)
<1> DEFINE R == Range(s)
<1>1. s \in Seq(R)
  BY DEF Range
<1> HIDE DEF R
<1>2. Those(S, s) \in Seq(R)
  BY <1>1, ThoseType
<1> DEFINE t == Those(S, s)
<1>3. t \in Seq(R)
  BY <1>2
<1> HIDE DEF t
<1>4. Range(t) \subseteq R
  BY <1>3 DEF Range
<1> QED
  BY <1>4 DEF R, t

\* The sequences of a function on 1..c, one after the other: the last comes last.
LEMMA FlattenLast ==
  ASSUME NEW V, NEW c \in Nat, NEW f \in [1..(c + 1) -> Seq(V)]
  PROVE  /\ FlattenSeq([i \in 1..c |-> f[i]]) \in Seq(V)
         /\ f[c + 1] \in Seq(V)
         /\ FlattenSeq(f) = FlattenSeq([i \in 1..c |-> f[i]]) \o f[c + 1]
<1> DEFINE g == [i \in 1..c |-> f[i]]
           d == c + 1
<1>0. d \in Nat /\ d = c + 1 /\ f \in [1..d -> Seq(V)]
  OBVIOUS
<1>1. d \in 1..d /\ \A i \in 1..c : i \in 1..d
  BY <1>0
<1> HIDE DEF d
<1>2. f[d] \in Seq(V) /\ \A i \in 1..c : f[i] \in Seq(V)
  BY <1>0, <1>1
<1>3. g \in [1..c -> Seq(V)]
  BY <1>2
<1> DEFINE W == Seq(V)
<1>4. g \in Seq(W) /\ Len(g) = c /\ f[d] \in W
  <2> HIDE DEF g
  <2> QED
    BY <1>2, <1>3
<1>5. f = Append(g, f[d])
  <2>1. f \in Seq(W) /\ Len(f) = d
    BY <1>0
  <2>2. \A i \in 1..c : g[i] = f[i]
    OBVIOUS
  <2> DEFINE h == Append(g, f[d])
  <2> HIDE DEF g, W
  <2>3. h \in Seq(W) /\ Len(h) = d
    BY <1>0, <1>4
  <2>4. \A i \in 1..d : f[i] = h[i]
    BY <1>0, <1>4, <2>2
  <2> HIDE DEF h
  <2>5. f = h
    BY <2>1, <2>3, <2>4, SeqEqual
  <2> QED
    BY <2>5 DEF h
<1> HIDE DEF g
<1>6. FlattenSeq(g) \in Seq(V) /\ FlattenSeq(Append(g, f[d])) = FlattenSeq(g) \o f[d]
  BY <1>4, FlattenAppend
<1> QED
  BY <1>0, <1>2, <1>5, <1>6 DEF d, g

\* Such a sequence is made of the same elements.
LEMMA FlattenType ==
  ASSUME NEW V, NEW c \in Nat, NEW f \in [1..c -> Seq(V)]
  PROVE  FlattenSeq(f) \in Seq(V)
<1> DEFINE W == Seq(V)
<1>1. f \in Seq(W)
  OBVIOUS
<1> QED
  BY <1>1, FlattenAppend, EmptySeq

\* Nothing in the rest of it: the first sequences are all.
LEMMA FlattenRest ==
  ASSUME NEW V, NEW c \in Nat, NEW f \in [1..c -> Seq(V)], NEW d \in 0..c,
         \A i \in (d + 1)..c : f[i] = <<>>
  PROVE  FlattenSeq(f) = FlattenSeq([i \in 1..d |-> f[i]])
<1> DEFINE Is(e) == FlattenSeq([i \in 1..e |-> f[i]])
           T == {e \in Nat : d + e <= c => Is(d + e) = Is(d)}
<1>1. 0 \in T
  OBVIOUS
<1>2. ASSUME NEW e \in Nat, e \in T PROVE e + 1 \in T
  <2> SUFFICES ASSUME d + (e + 1) <= c PROVE Is(d + (e + 1)) = Is(d)
    OBVIOUS
  <2> DEFINE b == d + e
             h == [i \in 1..(b + 1) |-> f[i]]
  <2>1. b \in Nat /\ b + 1 = d + (e + 1) /\ b + 1 <= c /\ b + 1 \in (d + 1)..c
    OBVIOUS
  <2>2. Is(b) = Is(d)
    BY <1>2, <2>1
  <2> HIDE DEF b, T
  <2>3. h \in [1..(b + 1) -> Seq(V)]
    BY <2>1
  <2>4. h[b + 1] = <<>> /\ [i \in 1..b |-> h[i]] = [i \in 1..b |-> f[i]]
    BY <2>1
  <2>5. Is(b + 1) = FlattenSeq(h)
    OBVIOUS
  <2> HIDE DEF h
  <2>6. FlattenSeq([i \in 1..b |-> h[i]]) \in Seq(V) /\ FlattenSeq(h) = FlattenSeq([i \in 1..b |-> h[i]]) \o h[b + 1]
    BY <2>1, <2>3, FlattenLast
  <2>7. Is(b) \in Seq(V) /\ Is(b + 1) = Is(b) \o <<>>
    BY <2>4, <2>5, <2>6
  <2>8. Is(b + 1) = Is(b)
    BY <2>7, ConcatEmptySeq
  <2> QED
    BY <2>1, <2>2, <2>8
<1>3. c - d \in Nat /\ d + (c - d) = c
  OBVIOUS
<1>4. c - d \in T
  <2> HIDE DEF T
  <2> QED
    BY <1>1, <1>2, <1>3, SetInduction
<1>5. Is(c) = Is(d)
  BY <1>3, <1>4
<1>6. f = [i \in 1..c |-> f[i]]
  OBVIOUS
<1> QED
  BY <1>5, <1>6

\* What is in one of the sequences is in the flattened one.
LEMMA FlattenHas ==
  ASSUME NEW V, NEW c \in Nat, NEW f \in [1..c -> Seq(V)], NEW i \in 1..c
  PROVE  Range(f[i]) \subseteq Range(FlattenSeq(f))
<1> DEFINE Has(e, g) == \A j \in 1..e : Range(g[j]) \subseteq Range(FlattenSeq(g))
           T == {e \in Nat : \A g \in [1..e -> Seq(V)] : Has(e, g)}
<1>1. 0 \in T
  OBVIOUS
<1>2. ASSUME NEW e \in Nat, e \in T PROVE e + 1 \in T
  <2> SUFFICES ASSUME NEW g \in [1..(e + 1) -> Seq(V)], NEW j \in 1..(e + 1)
               PROVE  Range(g[j]) \subseteq Range(FlattenSeq(g))
    OBVIOUS
  <2> DEFINE h == [k \in 1..e |-> g[k]]
  <2>1. h \in [1..e -> Seq(V)] /\ \A k \in 1..e : h[k] = g[k]
    OBVIOUS
  <2>2. Has(e, h)
    BY <1>2, <2>1
  <2>3. FlattenSeq(h) \in Seq(V) /\ g[e + 1] \in Seq(V) /\ FlattenSeq(g) = FlattenSeq(h) \o g[e + 1]
    BY FlattenLast
  <2> HIDE DEF h
  <2>4. Range(FlattenSeq(g)) = Range(FlattenSeq(h)) \cup Range(g[e + 1])
    BY <2>3, RangeConcat
  <2> QED
    BY <2>1, <2>2, <2>4
<1> HIDE DEF T
<1>3. c \in T
  BY <1>1, <1>2, SetInduction
<1> QED
  BY <1>3 DEF T

\* Where something in the middle is.
LEMMA InTheMiddle ==
  ASSUME NEW C, NEW p \in Seq(C), NEW q \in Seq(C), NEW r \in Seq(C), NEW k \in 1..Len(q)
  PROVE  /\ (p \o (q \o r))[Len(p) + k] = q[k]
         /\ Len(p) + k <= Len(p \o (q \o r)) /\ Len(p \o (q \o r)) \in Nat
<1> DEFINE t == q \o r
<1>1. Len(p) \in Nat /\ Len(q) \in Nat /\ Len(r) \in Nat
  OBVIOUS
<1>2. t \in Seq(C) /\ Len(t) = Len(q) + Len(r) /\ t[k] = q[k] /\ k \in 1..Len(t)
  BY <1>1
<1> HIDE DEF t
<1>3. (p \o t)[Len(p) + k] = t[k] /\ Len(p \o t) = Len(p) + Len(t)
  <2>1. \A s \in Seq(C) : \A i \in 1..Len(s) : (p \o s)[Len(p) + i] = s[i]
    OBVIOUS
  <2>2. \A s \in Seq(C) : Len(p \o s) = Len(p) + Len(s)
    OBVIOUS
  <2> QED
    BY <1>2, <2>1, <2>2
<1> QED
  BY <1>1, <1>2, <1>3 DEF t

IsSeq(s) == \E S : s \in Seq(S)

\* The last of a sequence of whatever it is of.
LEMMA AppendIsSeq ==
  ASSUME NEW s, IsSeq(s), NEW e
  PROVE  /\ IsSeq(Append(s, e)) /\ Len(s) \in Nat /\ DOMAIN s = 1..Len(s)
         /\ DOMAIN Append(s, e) = 1..(Len(s) + 1)
         /\ Append(s, e)[Len(s) + 1] = e
         /\ \A j \in 1..Len(s) : Append(s, e)[j] = s[j]
<1>1. PICK S : s \in Seq(S)
  BY DEF IsSeq
<1> DEFINE T == S \cup {e}
<1>2. s \in Seq(T) /\ e \in T
  BY <1>1
<1> HIDE DEF T
<1>3. Append(s, e) \in Seq(T)
  BY <1>2
<1> QED
  BY <1>2, <1>3 DEF IsSeq

\* G says what a function on a..b is at a place, given what it is at later places.
LooksAhead(a, b, S, G) ==
  /\ G \in [a..b -> [[a..b -> S] -> S]]
  /\ \A i \in a..b : \A f, g \in [a..b -> S] :
       (\A j \in (i + 1)..b : f[j] = g[j]) => G[i][f] = G[i][g]

Solves(a, b, f, G) == \A i \in a..b : f[i] = G[i][f]

\* There is such a function.
LEMMA Backwards ==
  ASSUME NEW a \in Nat, NEW b \in Nat, NEW S, S # {}, NEW G, LooksAhead(a, b, S, G)
  PROVE  \E f \in [a..b -> S] : Solves(a, b, f, G)
<1> USE DEF LooksAhead, Solves
<1> DEFINE D == [a..b -> S]
           Right(f, i) == f[i] = G[i][f]
           T == {m \in Nat : a + m <= b + 1 =>
                   \E f \in D : \A i \in a..b : b < i + m => Right(f, i)}
<1>1. 0 \in T
  <2>1. PICK s \in S : TRUE
    OBVIOUS
  <2>2. [i \in a..b |-> s] \in D
    OBVIOUS
  <2>3. \A i \in a..b : ~ (b < i + 0)
    OBVIOUS
  <2> HIDE DEF D, Right
  <2> QED
    BY <2>2, <2>3
<1>2. ASSUME NEW m \in Nat, m \in T PROVE m + 1 \in T
  <2> SUFFICES ASSUME a + (m + 1) <= b + 1
               PROVE  \E f \in D : \A i \in a..b : b < i + (m + 1) => Right(f, i)
    OBVIOUS
  <2>1. PICK f \in D : \A i \in a..b : b < i + m => Right(f, i)
    BY <1>2
  <2> DEFINE k == b - m
             g == [f EXCEPT ![k] = G[k][f]]
  <2>2. k \in a..b
    OBVIOUS
  <2>3. G[k][f] \in S
    BY <2>2
  <2>4. g \in D /\ g[k] = G[k][f] /\ \A i \in a..b : i # k => g[i] = f[i]
    BY <2>2, <2>3
  <2>5. \A i \in a..b : b < i + (m + 1) => i = k \/ (b < i + m /\ k < i)
    OBVIOUS
  <2>6. ASSUME NEW i \in a..b, k <= i PROVE \A j \in (i + 1)..b : f[j] = g[j]
    BY <2>2, <2>4, <2>6
  <2>7. ASSUME NEW i \in a..b, k <= i PROVE G[i][f] = G[i][g]
    <3>1. f \in [a..b -> S] /\ g \in [a..b -> S]
      BY <2>1, <2>4
    <3> HIDE DEF g, k, Right
    <3> QED
      BY <2>6, <2>7, <3>1
  <2> HIDE DEF g, k
  <2>8. ASSUME NEW i \in a..b, b < i + (m + 1) PROVE Right(g, i)
    <3>1. CASE i = k
      <4>1. g[i] = G[i][f]
        BY <2>4, <3>1
      <4>2. k <= i
        BY <2>2, <3>1
      <4>3. G[i][f] = G[i][g]
        BY <2>7, <4>2
      <4> QED
        BY <4>1, <4>3
    <3>2. CASE b < i + m /\ k < i
      <4>1. g[i] = f[i] /\ Right(f, i)
        BY <2>1, <2>4, <3>2
      <4>2. k <= i
        BY <2>2, <3>2
      <4>3. G[i][f] = G[i][g]
        BY <2>7, <4>2
      <4> QED
        BY <4>1, <4>3
    <3> QED
      BY <2>5, <2>8, <3>1, <3>2
  <2> HIDE DEF D, Right, g, k
  <2> QED
    BY <2>4, <2>8
<1>3. CASE a <= b
  <2> DEFINE m == b + 1 - a
  <2>1. m \in Nat /\ a + m <= b + 1 /\ \A i \in a..b : b < i + m
    BY <1>3
  <2>2. m \in T
    <3> HIDE DEF T, m
    <3> QED
      BY <1>1, <1>2, <2>1, SetInduction
  <2>3. PICK f \in D : \A i \in a..b : b < i + m => Right(f, i)
    BY <2>1, <2>2
  <2> HIDE DEF m
  <2> QED
    BY <2>1, <2>3
<1>4. CASE ~ (a <= b)
  <2>1. PICK s \in S : TRUE
    OBVIOUS
  <2>2. [i \in a..b |-> s] \in D /\ a..b = {}
    BY <1>4
  <2> QED
    BY <2>2
<1> QED
  BY <1>3, <1>4
=============================================================================

---------------------------- MODULE SequenceFacts ----------------------------
(***************************************************************************)
(* Facts about the queues the models are built from: what Append, Tail and *)
(* SubSeq return, element by element; and induction over the naturals, for *)
(* a set in place of a predicate, which recursive functions need.          *)
(***************************************************************************)
EXTENDS Naturals, Sequences, SequencesExt, WellFoundedInduction, TLAPS

(* A set of naturals has a least one: they are well-founded under <.        *)
LEMMA LeastNatural ==
    ASSUME NEW T \in SUBSET Nat, T # {}
    PROVE  \E m \in T : \A k \in T : m <= k
<1>1. PICK m \in T : \A k \in T : <<k, m>> \notin OpToRel(<, Nat)
  BY NatLessThanWellFounded, WFMin
<1>2. \A k \in T : ~(k < m)
  BY <1>1 DEF OpToRel
<1>3. QED
  BY <1>2

(* Induction: T is the set of the naturals of which the claim is true.      *)
LEMMA Induction ==
    ASSUME NEW T, 0 \in T, \A n \in Nat : n \in T => n + 1 \in T
    PROVE  \A n \in Nat : n \in T
<1> SUFFICES ASSUME Nat \ T # {} PROVE FALSE
  OBVIOUS
<1>1. PICK m \in Nat \ T : \A k \in Nat \ T : m <= k
  BY LeastNatural
<1>2. m # 0 /\ m - 1 \in Nat
  BY <1>1
<1>3. m - 1 \in T
  BY <1>1, <1>2
<1>4. QED
  BY <1>1, <1>2, <1>3

(* A function defined by what it is at 0 and how it goes from i - 1 to i.   *)
Follows(f, base, step, n) ==
    f[0] = base /\ \A i \in 1 .. n : f[i] = step[i][f[i - 1]]

LEMMA Recursion ==
    ASSUME NEW S, NEW base \in S, NEW step \in [Nat -> [S -> S]], NEW n \in Nat
    PROVE  \E f \in [0 .. n -> S] : Follows(f, base, step, n)
<1> DEFINE Goal(m) == \E f \in [0 .. m -> S] : Follows(f, base, step, m)
           T == {m \in Nat : Goal(m)}
<1>1. Goal(0)
  <2>1. [i \in 0 .. 0 |-> base] \in [0 .. 0 -> S]
    OBVIOUS
  <2>2. [i \in 0 .. 0 |-> base][0] = base /\ \A i \in 1 .. 0 : FALSE
    OBVIOUS
  <2>3. QED
    BY <2>1, <2>2 DEF Follows
<1>2. ASSUME NEW m \in Nat, Goal(m)
      PROVE  Goal(m + 1)
  <2>1. PICK f \in [0 .. m -> S] :
          f[0] = base /\ \A i \in 1 .. m : f[i] = step[i][f[i - 1]]
    BY <1>2 DEF Follows
  <2> DEFINE g == [i \in 0 .. m + 1 |-> IF i <= m THEN f[i] ELSE step[m + 1][f[m]]]
  <2>2. f[m] \in S /\ step[m + 1] \in [S -> S]
    BY <2>1
  <2>3. step[m + 1][f[m]] \in S
    BY <2>2
  <2>4. g \in [0 .. m + 1 -> S]
    BY <2>1, <2>3
  <2>5. g[0] = base /\ \A i \in 1 .. m + 1 : g[i] = step[i][g[i - 1]]
    BY <2>1
  <2> HIDE DEF g
  <2>6. QED
    BY <2>4, <2>5 DEF Follows
<1>3. 0 \in T /\ \A m \in Nat : m \in T => m + 1 \in T
  <2> HIDE DEF Goal
  <2>1. QED
    BY <1>1, <1>2
<1>4. \A m \in Nat : m \in T
  <2> HIDE DEF T
  <2>1. QED
    BY <1>3, Induction
<1>5. QED
  BY <1>4

(* The queue a message leaves: the pop of get() and of _push_outbox.        *)
LEMMA TailFacts ==
    ASSUME NEW S, NEW s \in Seq(S), s # <<>>
    PROVE  /\ Len(s) \in Nat \ {0} /\ Head(s) = s[1] /\ Head(s) \in S
           /\ Tail(s) \in Seq(S) /\ Len(Tail(s)) = Len(s) - 1
           /\ \A i \in 1 .. Len(s) - 1 : Tail(s)[i] = s[i + 1]
OBVIOUS

(* The queue a message enters: every push and every write to a stream.      *)
LEMMA AppendFacts ==
    ASSUME NEW S, NEW s \in Seq(S), NEW x \in S
    PROVE  /\ Append(s, x) \in Seq(S) /\ Len(s) \in Nat
           /\ Len(Append(s, x)) = Len(s) + 1
           /\ Append(s, x)[Len(s) + 1] = x
           /\ \A i \in 1 .. Len(s) : Append(s, x)[i] = s[i]
OBVIOUS

(* The stream after a flush of its first n frames.                          *)
LEMMA SubSeqFacts ==
    ASSUME NEW S, NEW s \in Seq(S), NEW n \in 1 .. Len(s)
    PROVE  /\ SubSeq(s, n + 1, Len(s)) \in Seq(S) /\ Len(s) \in Nat
           /\ Len(SubSeq(s, n + 1, Len(s))) = Len(s) - n
           /\ \A i \in 1 .. Len(s) - n : SubSeq(s, n + 1, Len(s))[i] = s[i + n]
OBVIOUS

(* The phases of a handler when one begins, the loops of a walk when one    *)
(* begins: one element before the others.                                   *)
LEMMA ConsFacts ==
    ASSUME NEW S, NEW s \in Seq(S), NEW x \in S
    PROVE  /\ <<x>> \o s \in Seq(S) /\ Len(s) \in Nat
           /\ Len(<<x>> \o s) = Len(s) + 1
           /\ <<x>> \o s # <<>> /\ Head(<<x>> \o s) = x
           /\ (<<x>> \o s)[1] = x
           /\ \A i \in 2 .. Len(s) + 1 : (<<x>> \o s)[i] = s[i - 1]
OBVIOUS

(* The same with two.                                                       *)
LEMMA PairFacts ==
    ASSUME NEW S, NEW s \in Seq(S), NEW x \in S, NEW y \in S
    PROVE  /\ <<x, y>> \o s \in Seq(S) /\ Len(s) \in Nat
           /\ Len(<<x, y>> \o s) = Len(s) + 2
           /\ <<x, y>> \o s # <<>> /\ Head(<<x, y>> \o s) = x
           /\ (<<x, y>> \o s)[1] = x /\ (<<x, y>> \o s)[2] = y
           /\ \A i \in 3 .. Len(s) + 2 : (<<x, y>> \o s)[i] = s[i - 2]
OBVIOUS

-----------------------------------------------------------------------------
(* The lists of every file, one after the other: what FlattenSeq builds.    *)

Joins(S, seqs, g) ==
  /\ g \in [0 .. Len(seqs) -> Seq(S)] /\ g[0] = <<>>
  /\ \A i \in 1 .. Len(seqs) : g[i] = g[i - 1] \o seqs[i]

LEMMA FlattenFacts ==
  ASSUME NEW S, NEW seqs \in Seq(Seq(S))
  PROVE  \E g : Joins(S, seqs, g) /\ FlattenSeq(seqs) = g[Len(seqs)]
<1> DEFINE L == Len(seqs)
           R == Seq(S)
           P(f) == f = [i \in 1 .. L |-> IF i = 1 THEN seqs[i] ELSE f[i - 1] \o seqs[i]]
           all == CHOOSE f : P(f)
           step == [i \in Nat |-> [x \in R |-> IF i \in 1 .. L THEN x \o seqs[i] ELSE x]]
<1>1. L \in Nat /\ <<>> \in R /\ \A i \in 1 .. L : seqs[i] \in R
  OBVIOUS
<1>2. step \in [Nat -> [R -> R]]
  <2>1. \A i \in Nat : \A x \in R : (IF i \in 1 .. L THEN x \o seqs[i] ELSE x) \in R
    BY <1>1
  <2> HIDE DEF R
  <2>2. QED
    BY <2>1
<1>3. PICK g \in [0 .. L -> R] : g[0] = <<>> /\ \A i \in 1 .. L : g[i] = step[i][g[i - 1]]
  <2>1. \E g \in [0 .. L -> R] : Follows(g, <<>>, step, L)
    <3> HIDE DEF step, L, R
    <3>1. QED
      BY <1>1, <1>2, Recursion
  <2>2. QED
    BY <2>1 DEF Follows
<1>4. ASSUME NEW i \in 1 .. L PROVE g[i] = g[i - 1] \o seqs[i] /\ g[i - 1] \in R
  <2> HIDE DEF R
  <2>1. i \in Nat /\ g[i - 1] \in R
    BY <1>1
  <2>2. QED
    BY <1>3, <2>1
<1>5. Joins(S, seqs, g)
  BY <1>3, <1>4 DEF Joins
<1>6. CASE L = 0
  BY <1>3, <1>5, <1>6 DEF FlattenSeq
<1>8. ASSUME 1 \in 1 .. L PROVE g[1] = seqs[1]
  <2>1. seqs[1] \in R
    BY <1>1, <1>8
  <2>2. <<>> \o seqs[1] = seqs[1]
    BY <2>1
  <2> HIDE DEF R
  <2>3. 1 - 1 = 0
    OBVIOUS
  <2>4. g[1] = g[0] \o seqs[1]
    BY <1>4, <1>8, <2>3
  <2>5. QED
    BY <1>3, <2>2, <2>4
<1>7. CASE L # 0
  <2> DEFINE h == [i \in 1 .. L |-> g[i]]
  <2>1. P(h)
    <3> DEFINE body(i) == IF i = 1 THEN seqs[i] ELSE h[i - 1] \o seqs[i]
    <3>1. ASSUME NEW i \in 1 .. L PROVE h[i] = body(i)
      <4>1. CASE i = 1
        <5>1. h[1] = seqs[1]
          BY <1>8, <4>1
        <5>2. QED
          BY <4>1, <5>1
      <4>2. CASE i # 1
        <5>1. i - 1 \in 1 .. L
          BY <1>1, <4>2
        <5>2. QED
          BY <1>4, <4>2, <5>1
      <4>3. QED
        BY <4>1, <4>2
    <3>2. h = [i \in 1 .. L |-> h[i]]
      OBVIOUS
    <3> HIDE DEF body, h
    <3>3. h = [i \in 1 .. L |-> body(i)]
      BY <3>1, <3>2
    <3>4. QED
      BY <3>3 DEF body
  <2>2. P(all)
    <3> HIDE DEF P, h
    <3>1. QED
      BY <2>1
  <2>3. FlattenSeq(seqs) = all[L]
    BY <1>7 DEF FlattenSeq
  <2> HIDE DEF all, h, step, R
  <2> DEFINE T == {n \in Nat : n + 1 <= L => all[n + 1] = g[n + 1]}
  <2>4. 0 \in T
    <3>1. 1 \in 1 .. L
      BY <1>1, <1>7
    <3>2. all[1] = seqs[1]
      BY <2>2, <3>1
    <3>3. g[1] = seqs[1]
      BY <1>8, <3>1
    <3>4. QED
      BY <3>2, <3>3
  <2>5. ASSUME NEW n \in Nat, n \in T PROVE n + 1 \in T
    <3> SUFFICES ASSUME (n + 1) + 1 <= L PROVE all[(n + 1) + 1] = g[(n + 1) + 1]
      OBVIOUS
    <3>1. n + 2 \in 1 .. L /\ n + 2 # 1 /\ (n + 2) - 1 = n + 1 /\ (n + 1) + 1 = n + 2
      BY <1>1
    <3>2. all[n + 2] = all[n + 1] \o seqs[n + 2]
      BY <2>2, <3>1
    <3>3. g[n + 2] = g[n + 1] \o seqs[n + 2]
      BY <1>4, <3>1
    <3>4. all[n + 1] = g[n + 1]
      BY <1>1, <2>5
    <3>5. QED
      BY <3>1, <3>2, <3>3, <3>4
  <2>6. \A n \in Nat : n \in T
    <3> HIDE DEF T
    <3>1. QED
      BY <2>4, <2>5, Induction
  <2>7. all[L] = g[L]
    <3>1. L - 1 \in Nat /\ (L - 1) + 1 = L
      BY <1>1, <1>7
    <3>2. L - 1 \in T
      BY <2>6, <3>1
    <3>3. QED
      BY <1>1, <3>1, <3>2
  <2>8. QED
    BY <1>5, <2>3, <2>7
<1>9. QED
  BY <1>6, <1>7

LEMMA FlattenAppend ==
  ASSUME NEW S, NEW seqs \in Seq(Seq(S)), NEW last \in Seq(S)
  PROVE  /\ FlattenSeq(seqs) \in Seq(S)
         /\ FlattenSeq(Append(seqs, last)) = FlattenSeq(seqs) \o last
<1> DEFINE L == Len(seqs)
           new == Append(seqs, last)
<1>1. PICK g : Joins(S, seqs, g) /\ FlattenSeq(seqs) = g[L]
  BY FlattenFacts
<1>2. /\ new \in Seq(Seq(S)) /\ Len(new) = L + 1 /\ L \in Nat
      /\ new[L + 1] = last /\ \A i \in 1 .. L : new[i] = seqs[i]
  <2> DEFINE R == Seq(S)
  <2> HIDE DEF R
  <2>1. seqs \in Seq(R) /\ last \in R
    BY DEF R
  <2>2. Append(seqs, last) \in Seq(R) /\ Len(Append(seqs, last)) = L + 1 /\ L \in Nat
        /\ Append(seqs, last)[L + 1] = last
        /\ \A i \in 1 .. L : Append(seqs, last)[i] = seqs[i]
    BY <2>1, AppendFacts
  <2>3. QED
    BY <2>2 DEF R
<1> HIDE DEF new
<1>3. PICK h : Joins(S, new, h) /\ FlattenSeq(new) = h[L + 1]
  BY <1>2, FlattenFacts
<1> DEFINE T == {n \in Nat : n <= L => h[n] = g[n]}
<1>4. 0 \in T
  BY <1>1, <1>3 DEF Joins
<1>5. ASSUME NEW n \in Nat, n \in T PROVE n + 1 \in T
  <2> SUFFICES ASSUME n + 1 <= L PROVE h[n + 1] = g[n + 1]
    OBVIOUS
  <2>1. n + 1 \in 1 .. L /\ n + 1 \in 1 .. Len(new) /\ (n + 1) - 1 = n
    BY <1>2
  <2>2. h[n + 1] = h[n] \o new[n + 1]
    BY <1>3, <2>1 DEF Joins
  <2>3. g[n + 1] = g[n] \o seqs[n + 1]
    BY <1>1, <2>1 DEF Joins
  <2>4. h[n] = g[n]
    BY <1>2, <1>5
  <2>5. QED
    BY <1>2, <2>1, <2>2, <2>3, <2>4
<1>6. \A n \in Nat : n \in T
  <2> HIDE DEF T
  <2>1. QED
    BY <1>4, <1>5, Induction
<1>7. h[L] = g[L]
  BY <1>2, <1>6
<1>8. h[L + 1] = h[L] \o last
  <2>1. L + 1 \in 1 .. Len(new) /\ (L + 1) - 1 = L
    BY <1>2
  <2>2. h[L + 1] = h[L] \o new[L + 1]
    BY <1>3, <2>1 DEF Joins
  <2>3. QED
    BY <1>2, <2>2
<1>9. g[L] \in Seq(S)
  <2>1. L \in 0 .. L
    BY <1>2
  <2>2. QED
    BY <1>1, <2>1 DEF Joins
<1>10. QED
  BY <1>1, <1>3, <1>7, <1>8, <1>9 DEF new
=============================================================================

----------------------------- MODULE FormatProofs -----------------------------
(***************************************************************************)
(* What the formatter does with a file, for every file, every width and    *)
(* every number of parts (every value of Items, MaxItems, MaxWidth,        *)
(* MaxParts and Modulus).                                                  *)
(***************************************************************************)
EXTENDS Formatter, SequenceFacts, SequenceTheorems

-----------------------------------------------------------------------------
(* The largest of a set.                                                   *)

Bounded(A) == A \subseteq Nat /\ \E b \in Nat : \A x \in A : x <= b

LEMMA MaxFacts ==
  ASSUME NEW A, Bounded(A)
  PROVE  /\ MaxIn(A) \in Nat /\ \A x \in A : x <= MaxIn(A)
         /\ A # {} => MaxIn(A) \in A
         /\ A = {} => MaxIn(A) = 0
<1>1. CASE A = {}
  BY <1>1 DEF MaxIn
<1>2. CASE A # {}
  <2> DEFINE bounds == {b \in Nat : \A x \in A : x <= b}
  <2>1. bounds \in SUBSET Nat /\ bounds # {}
    BY DEF Bounded
  <2>2. PICK m \in bounds : \A b \in bounds : m <= b
    BY <2>1, LeastNatural
  <2>3. m \in A
    <3> SUFFICES ASSUME m \notin A PROVE FALSE
      OBVIOUS
    <3>1. \A x \in A : x < m
      BY <2>2 DEF Bounded
    <3>2. m - 1 \in Nat
      <4>1. PICK x \in A : x < m
        BY <1>2, <3>1
      <4>2. x \in Nat /\ m \in Nat
        BY <2>2 DEF Bounded
      <4>3. QED
        BY <4>1, <4>2
    <3>3. \A x \in A : x <= m - 1
      BY <2>2, <3>1 DEF Bounded
    <3>4. m - 1 \in bounds
      BY <3>2, <3>3
    <3>5. m <= m - 1
      BY <2>2, <3>4
    <3>6. QED
      BY <2>2, <3>5
  <2>4. \E n \in A : \A x \in A : x <= n
    BY <2>2, <2>3
  <2>5. MaxIn(A) \in A /\ \A x \in A : x <= MaxIn(A)
    BY <1>2, <2>4 DEF MaxIn
  <2>6. QED
    BY <1>2, <2>5 DEF Bounded
<1>3. QED
  BY <1>1, <1>2

LEMMA MaxIs ==
  ASSUME NEW A \in SUBSET Nat, NEW m \in A, \A x \in A : x <= m
  PROVE  MaxIn(A) = m
<1>1. Bounded(A)
  BY DEF Bounded
<1>2. MaxIn(A) \in A /\ m <= MaxIn(A) /\ MaxIn(A) \in Nat
  BY <1>1, MaxFacts
<1>3. MaxIn(A) <= m /\ m \in Nat
  BY <1>2
<1> HIDE DEF MaxIn
<1>4. QED
  BY <1>2, <1>3

LEMMA BoundedUnion ==
  ASSUME NEW A, NEW B, Bounded(A), Bounded(B)
  PROVE  Bounded(A \cup B)
<1>1. PICK a \in Nat : \A x \in A : x <= a
  BY DEF Bounded
<1>2. PICK b \in Nat : \A x \in B : x <= b
  BY DEF Bounded
<1>3. a + b \in Nat /\ \A x \in A \cup B : x <= a + b
  BY <1>1, <1>2 DEF Bounded
<1>4. QED
  BY <1>3 DEF Bounded

(* The largest of a union, from the largest of one part.                   *)
LEMMA MaxOfUnion ==
  ASSUME NEW A, NEW B, Bounded(A), Bounded(B)
  PROVE  /\ MaxIn({MaxIn(A)} \cup B) = MaxIn(A \cup B)
         /\ Larger(MaxIn(A), MaxIn(B)) = MaxIn(A \cup B)
         /\ Bounded(A \cup B)
<1> DEFINE a == MaxIn(A)
           b == MaxIn(B)
           c == MaxIn(A \cup B)
<1>1. Bounded(A \cup B)
  BY BoundedUnion
<1>2. a \in Nat /\ (\A x \in A : x <= a) /\ (A # {} => a \in A) /\ (A = {} => a = 0)
  BY MaxFacts
<1>3. b \in Nat /\ (\A x \in B : x <= b) /\ (B # {} => b \in B) /\ (B = {} => b = 0)
  BY MaxFacts
<1>4. /\ c \in Nat /\ (\A x \in A \cup B : x <= c)
      /\ (A \cup B # {} => c \in A \cup B) /\ (A \cup B = {} => c = 0)
  BY <1>1, MaxFacts
<1> HIDE DEF a, b, c
<1>5. Larger(a, b) = c
  BY <1>2, <1>3, <1>4 DEF Larger
<1>6. MaxIn({a} \cup B) = c
  <2>1. c \in {a} \cup B
    BY <1>2, <1>3, <1>4
  <2>2. \A x \in {a} \cup B : x <= c
    BY <1>2, <1>3, <1>4
  <2>3. {a} \cup B \in SUBSET Nat
    BY <1>2 DEF Bounded
  <2>4. QED
    BY <2>1, <2>2, <2>3, MaxIs
<1>7. QED
  BY <1>1, <1>5, <1>6 DEF a, b, c

-----------------------------------------------------------------------------
(* The sum of a sequence.                                                  *)

Sums(seq, f) ==
  /\ f \in [0 .. Len(seq) -> Nat] /\ f[0] = 0
  /\ \A i \in 1 .. Len(seq) : f[i] = f[i - 1] + seq[i]

LEMMA SumFacts ==
  ASSUME NEW seq \in Seq(Nat)
  PROVE  \E f : Sums(seq, f) /\ SumOf(seq) = f[Len(seq)]
<1> DEFINE L == Len(seq)
           P(f) == f = [i \in 0 .. L |-> IF i = 0 THEN 0 ELSE f[i - 1] + seq[i]]
           sum == CHOOSE f : P(f)
           step == [i \in Nat |-> [x \in Nat |-> IF i \in 1 .. L THEN x + seq[i] ELSE x]]
           T == {n \in Nat : n <= L => sum[n] \in Nat}
<1>1. L \in Nat /\ \A i \in 1 .. L : seq[i] \in Nat
  OBVIOUS
<1>2. step \in [Nat -> [Nat -> Nat]]
  BY <1>1
<1>3. PICK f \in [0 .. L -> Nat] : f[0] = 0 /\ \A i \in 1 .. L : f[i] = step[i][f[i - 1]]
  <2>1. \E f \in [0 .. L -> Nat] : Follows(f, 0, step, L)
    <3> HIDE DEF step, L
    <3>1. QED
      BY <1>1, <1>2, Recursion
  <2>2. QED
    BY <2>1 DEF Follows
<1>4. \A i \in 1 .. L : f[i] = f[i - 1] + seq[i]
  <2> SUFFICES ASSUME NEW i \in 1 .. L PROVE f[i] = f[i - 1] + seq[i]
    OBVIOUS
  <2>1. i \in Nat /\ i - 1 \in 0 .. L
    BY <1>1
  <2>2. f[i - 1] \in Nat
    BY <2>1
  <2>3. step[i][f[i - 1]] = f[i - 1] + seq[i]
    BY <2>1, <2>2
  <2>4. QED
    BY <1>3, <2>3
<1>5. P(f)
  BY <1>3, <1>4
<1>6. P(sum)
  <2> HIDE DEF P
  <2>1. QED
    BY <1>5
<1>7. SumOf(seq) = sum[L]
  BY DEF SumOf
<1> HIDE DEF sum, step
<1>8. sum[0] = 0 /\ \A i \in 1 .. L : sum[i] = sum[i - 1] + seq[i]
  BY SMTT(40), <1>1, <1>6
<1>9. 0 \in T
  BY <1>8
<1>10. ASSUME NEW n \in Nat, n \in T PROVE n + 1 \in T
  BY SMTT(40), <1>1, <1>8, <1>10
<1>11. \A n \in Nat : n \in T
  <2> HIDE DEF T
  <2>1. QED
    BY <1>9, <1>10, Induction
<1>12. \A i \in 0 .. L : sum[i] \in Nat
  BY <1>1, <1>11
<1>13. sum \in [0 .. L -> Nat]
  BY <1>6, <1>12
<1>14. Sums(seq, sum)
  BY <1>8, <1>13 DEF Sums
<1>15. QED
  BY <1>7, <1>14

(* The sum of a part is a difference of partial sums.                      *)
LEMMA PartSum ==
  ASSUME NEW seq \in Seq(Nat), NEW f, Sums(seq, f),
         NEW i \in 0 .. Len(seq), NEW j \in i .. Len(seq)
  PROVE  SumOf(SubSeq(seq, i + 1, j)) = f[j] - f[i]
<1> DEFINE part == SubSeq(seq, i + 1, j)
           L == Len(seq)
<1>a. L \in Nat /\ i \in Nat /\ j \in Nat /\ j - i \in Nat /\ i <= j /\ j <= L
  OBVIOUS
<1>b. /\ part \in Seq(Nat) /\ Len(part) = j - i
      /\ \A n \in 1 .. j - i : part[n] = seq[(i + 1) + n - 1]
  BY <1>a
<1>1. /\ part \in Seq(Nat) /\ Len(part) = j - i
      /\ \A n \in 1 .. j - i : part[n] = seq[i + n]
      /\ L \in Nat /\ i \in Nat /\ j \in Nat /\ j - i \in Nat /\ i <= j /\ j <= L
  <2>1. \A n \in 1 .. j - i : (i + 1) + n - 1 = i + n
    BY <1>a
  <2>2. QED
    BY <1>a, <1>b, <2>1
<1> HIDE DEF part
<1>2. PICK g : Sums(part, g) /\ SumOf(part) = g[j - i]
  BY <1>1, SumFacts
<1>3. /\ g \in [0 .. j - i -> Nat] /\ g[0] = 0
      /\ \A n \in 1 .. j - i : g[n] = g[n - 1] + part[n]
  BY <1>1, <1>2 DEF Sums
<1>c. \A n \in 1 .. L : seq[n] \in Nat
  OBVIOUS
<1>4. /\ f[0] = 0 /\ \A n \in 1 .. L : f[n] = f[n - 1] + seq[n]
      /\ \A n \in 0 .. L : f[n] \in Nat
  BY DEF Sums
<1> DEFINE T == {n \in Nat : n <= j - i => g[n] = f[i + n] - f[i]}
<1>5. 0 \in T
  BY <1>1, <1>3, <1>4
<1>6. ASSUME NEW n \in Nat, n \in T PROVE n + 1 \in T
  <2> SUFFICES ASSUME n + 1 <= j - i PROVE g[n + 1] = f[i + (n + 1)] - f[i]
    OBVIOUS
  <2>0. (n + 1) - 1 = n /\ (i + n + 1) - 1 = i + n /\ i + (n + 1) = i + n + 1
    BY <1>1
  <2>1. n + 1 \in 1 .. j - i /\ i + n + 1 \in 1 .. L /\ i + n \in 0 .. L /\ i \in 0 .. L
    BY <1>1
  <2>2. g[n + 1] = g[n] + seq[i + n + 1]
    BY <1>1, <1>3, <2>0, <2>1
  <2>3. f[i + n + 1] = f[i + n] + seq[i + n + 1]
    BY <1>1, <1>4, <2>0, <2>1
  <2>4. g[n] = f[i + n] - f[i]
    BY <1>1, <1>6
  <2>5. f[i + n] \in Nat /\ f[i] \in Nat /\ seq[i + n + 1] \in Nat
    BY <1>1, <1>4, <1>c, <2>1
  <2>6. QED
    BY SMTT(40), <2>0, <2>2, <2>3, <2>4, <2>5
<1>7. \A n \in Nat : n \in T
  <2> HIDE DEF T
  <2>1. QED
    BY <1>5, <1>6, Induction
<1>8. g[j - i] = f[i + (j - i)] - f[i]
  BY <1>1, <1>7
<1>9. i + (j - i) = j
  BY <1>1
<1>10. QED
  BY <1>2, <1>8, <1>9 DEF part

LEMMA SumBound ==
  ASSUME NEW seq \in Seq(Nat), NEW b \in Nat, \A i \in 1 .. Len(seq) : seq[i] <= b
  PROVE  SumOf(seq) \in Nat /\ SumOf(seq) <= Len(seq) * b
<1> DEFINE L == Len(seq)
<1>1. PICK f : Sums(seq, f) /\ SumOf(seq) = f[L]
  BY SumFacts
<1>a. L \in Nat /\ \A n \in 1 .. L : seq[n] \in Nat
  OBVIOUS
<1>2. /\ f[0] = 0 /\ \A n \in 1 .. L : f[n] = f[n - 1] + seq[n]
      /\ \A n \in 0 .. L : f[n] \in Nat
  BY <1>1 DEF Sums
<1> DEFINE T == {n \in Nat : n <= L => f[n] <= n * b}
<1>3. 0 \in T
  BY <1>2
<1>4. ASSUME NEW n \in Nat, n \in T PROVE n + 1 \in T
  <2> SUFFICES ASSUME n + 1 <= L PROVE f[n + 1] <= (n + 1) * b
    OBVIOUS
  <2>1. f[n + 1] = f[n] + seq[n + 1] /\ f[n] \in Nat /\ seq[n + 1] <= b /\ seq[n + 1] \in Nat
    BY <1>2, <1>a
  <2>2. f[n] <= n * b
    BY <1>a, <1>4
  <2>3. (n + 1) * b = n * b + b /\ n * b \in Nat
    OBVIOUS
  <2>4. QED
    BY <2>1, <2>2, <2>3
<1>5. \A n \in Nat : n \in T
  <2> HIDE DEF T
  <2>1. QED
    BY <1>3, <1>4, Induction
<1>6. f[L] <= L * b
  BY <1>a, <1>5
<1>7. QED
  BY <1>1, <1>2, <1>6, <1>a

-----------------------------------------------------------------------------
(* The sizes of a block: what Widen and WidenPairs do to those of a set of *)
(* items when one is added.  size is what is measured of a part: a width,  *)
(* or one side of a range.                                                 *)

LEMMA MaxWith ==
  ASSUME NEW A, Bounded(A), NEW x \in Nat
  PROVE  MaxIn(A \cup {x}) = Larger(MaxIn(A), x) /\ Bounded(A \cup {x})
<1>1. Bounded({x})
  BY DEF Bounded
<1>2. MaxIn({x}) = x
  BY MaxIs
<1>3. QED
  BY <1>1, <1>2, MaxOfUnion

Sizes(all, size, i) == {size[d[i]] : d \in Having(all, i)}
Short(all) == \E b \in Nat : \A d \in all : Len(d) <= b
Measures(size, sizes, all) ==
  /\ Longest(sizes, all)
  /\ \A i \in DOMAIN sizes : size[sizes[i]] = MaxIn(Sizes(all, size, i))
Widens(size, new, old, d) ==
  /\ Len(new) = Larger(Len(old), Len(d))
  /\ \A i \in DOMAIN new :
       size[new[i]] = Larger(IF i <= Len(old) THEN size[old[i]] ELSE 0,
                             IF i <= Len(d) THEN size[d[i]] ELSE 0)
Below(size, d, sizes) ==
  Len(d) <= Len(sizes) /\ \A i \in DOMAIN d : size[d[i]] <= size[sizes[i]]

LEMMA LensBounded ==
  ASSUME NEW Part, NEW all \in SUBSET Seq(Part), Short(all)
  PROVE  Bounded({Len(d) : d \in all})
<1>1. PICK b \in Nat : \A d \in all : Len(d) <= b
  BY DEF Short
<1>2. \A d \in all : Len(d) \in Nat
  OBVIOUS
<1>3. {Len(d) : d \in all} \subseteq Nat /\ \A n \in {Len(d) : d \in all} : n <= b
  BY <1>1, <1>2
<1>4. QED
  BY <1>3 DEF Bounded

LEMMA SizesGrow ==
  ASSUME NEW Part, NEW size \in [Part -> Widths],
         NEW all \in SUBSET Seq(Part), Short(all), NEW d \in Seq(Part),
         NEW old \in Seq(Part), Measures(size, old, all),
         NEW new \in Seq(Part), Widens(size, new, old, d)
  PROVE  Measures(size, new, all \cup {d})
<1> DEFINE lens == {Len(e) : e \in all}
<1>1. Bounded(lens)
  BY LensBounded
<1>2. {Len(e) : e \in all \cup {d}} = lens \cup {Len(d)}
  OBVIOUS
<1>3. MaxIn(lens \cup {Len(d)}) = Larger(MaxIn(lens), Len(d))
  <2>1. Len(d) \in Nat
    OBVIOUS
  <2> HIDE DEF lens
  <2>2. QED
    BY <1>1, <2>1, MaxWith
<1>4. Longest(new, all \cup {d})
  BY <1>2, <1>3 DEF Longest, Measures, Widens
<1>5. ASSUME NEW i \in DOMAIN new
      PROVE  size[new[i]] = MaxIn(Sizes(all \cup {d}, size, i))
  <2> DEFINE column == Sizes(all, size, i)
             was == IF i <= Len(old) THEN size[old[i]] ELSE 0
  <2>1. i \in Nat \ {0} /\ MaxWidth \in Nat
    BY ItemAssumption
  <2>2. Bounded(column)
    <3>1. column \subseteq Widths
      BY DEF Sizes, Having
    <3>2. QED
      BY <2>1, <3>1 DEF Bounded, Widths
  <2>3. was = MaxIn(column)
    <3>1. CASE i <= Len(old)
      BY <2>1, <3>1 DEF Measures
    <3>2. CASE ~(i <= Len(old))
      <4>1. \A e \in all : Len(e) <= Len(old)
        <5>1. \A n \in lens : n <= MaxIn(lens)
          BY <1>1, MaxFacts
        <5>2. QED
          BY <5>1 DEF Longest, Measures
      <4>2. Having(all, i) = {}
        BY <2>1, <3>2, <4>1 DEF Having
      <4>3. column = {}
        BY <4>2 DEF Sizes
      <4>4. QED
        BY <3>2, <4>3 DEF MaxIn
    <3>3. QED
      BY <3>1, <3>2
  <2>4. was \in Nat
    BY <2>2, <2>3, MaxFacts
  <2>5. CASE i <= Len(d)
    <3>1. size[d[i]] \in Nat
      BY <2>1, <2>5 DEF Widths
    <3>2. Having(all \cup {d}, i) = Having(all, i) \cup {d}
      BY <2>1, <2>5 DEF Having
    <3>3. Sizes(all \cup {d}, size, i) = column \cup {size[d[i]]}
      BY <3>2 DEF Sizes
    <3>4. size[new[i]] = Larger(was, size[d[i]])
      BY <2>5 DEF Widens
    <3> HIDE DEF column, was
    <3>5. QED
      BY <2>2, <2>3, <3>1, <3>3, <3>4, MaxWith
  <2>6. CASE ~(i <= Len(d))
    <3>1. Having(all \cup {d}, i) = Having(all, i)
      BY <2>1, <2>6 DEF Having
    <3>2. Sizes(all \cup {d}, size, i) = column
      BY <3>1 DEF Sizes
    <3>3. size[new[i]] = Larger(was, 0)
      BY <2>6 DEF Widens
    <3> HIDE DEF column, was
    <3>4. QED
      BY <2>3, <2>4, <3>2, <3>3 DEF Larger
  <2>7. QED
    BY <2>5, <2>6
<1>6. QED
  BY <1>4, <1>5 DEF Measures

(* What was measured leaves room for every item.                           *)
LEMMA SizesCover ==
  ASSUME NEW Part, NEW size \in [Part -> Widths],
         NEW all \in SUBSET Seq(Part), Short(all),
         NEW sizes \in Seq(Part), Measures(size, sizes, all), NEW d \in all
  PROVE  Below(size, d, sizes) /\ \E e \in all : Len(e) = Len(sizes)
<1> DEFINE lens == {Len(e) : e \in all}
<1>1. Bounded(lens)
  BY LensBounded
<1>2. Len(d) <= Len(sizes) /\ \E e \in all : Len(e) = Len(sizes)
  <2>1. (\A n \in lens : n <= MaxIn(lens)) /\ (lens # {} => MaxIn(lens) \in lens)
    BY <1>1, MaxFacts
  <2>2. Len(d) \in lens /\ Len(sizes) = MaxIn(lens)
    BY DEF Measures, Longest
  <2>3. QED
    BY <2>1, <2>2
<1>3. ASSUME NEW i \in DOMAIN d PROVE size[d[i]] <= size[sizes[i]]
  <2>1. MaxWidth \in Nat /\ i \in DOMAIN sizes
    BY <1>2, ItemAssumption
  <2>2. Bounded(Sizes(all, size, i)) /\ size[d[i]] \in Sizes(all, size, i)
    <3>1. Sizes(all, size, i) \subseteq Widths
      BY DEF Sizes, Having
    <3>2. QED
      BY <2>1, <3>1 DEF Bounded, Widths, Sizes, Having
  <2>3. QED
    BY <2>1, <2>2, MaxFacts DEF Measures
<1>4. QED
  BY <1>2, <1>3 DEF Below

LEMMA WidenFacts ==
  ASSUME NEW sizes \in Seq(Widths), NEW widths \in Seq(Widths)
  PROVE  /\ Widen(sizes, widths) \in Seq(Widths)
         /\ Len(Widen(sizes, widths)) = Larger(Len(sizes), Len(widths))
         /\ \A i \in DOMAIN Widen(sizes, widths) :
              Widen(sizes, widths)[i] = Larger(IF i <= Len(sizes) THEN sizes[i] ELSE 0,
                                               IF i <= Len(widths) THEN widths[i] ELSE 0)
<1> DEFINE n == Larger(Len(sizes), Len(widths))
<1>1. n \in Nat /\ n >= Len(sizes) /\ n >= Len(widths) /\ MaxWidth \in Nat
  BY ItemAssumption DEF Larger
<1>2. \A i \in 1 .. n :
        Larger(IF i <= Len(sizes) THEN sizes[i] ELSE 0,
               IF i <= Len(widths) THEN widths[i] ELSE 0) \in Widths
  BY <1>1 DEF Larger, Widths
<1> HIDE DEF n
<1>3. QED
  BY <1>1, <1>2 DEF Widen, n

LEMMA WidenPairsFacts ==
  ASSUME NEW sizes \in Seq(Ranges), NEW dims \in Seq(Ranges)
  PROVE  /\ WidenPairs(sizes, dims) \in Seq(Ranges)
         /\ Len(WidenPairs(sizes, dims)) = Larger(Len(sizes), Len(dims))
         /\ \A i \in DOMAIN WidenPairs(sizes, dims) : \A k \in 1 .. 2 :
              WidenPairs(sizes, dims)[i][k] =
                Larger(IF i <= Len(sizes) THEN sizes[i][k] ELSE 0,
                       IF i <= Len(dims) THEN dims[i][k] ELSE 0)
<1> DEFINE n == Larger(Len(sizes), Len(dims))
           left(i) == IF i <= Len(sizes) THEN sizes[i] ELSE <<0, 0>>
           right(i) == IF i <= Len(dims) THEN dims[i] ELSE <<0, 0>>
<1>1. n \in Nat /\ n >= Len(sizes) /\ n >= Len(dims) /\ MaxWidth \in Nat
  BY ItemAssumption DEF Larger
<1>2. <<0, 0>> \in Ranges /\ <<0, 0>>[1] = 0 /\ <<0, 0>>[2] = 0
  BY <1>1 DEF Ranges, Widths
<1>3. \A p, q \in Ranges :
        /\ Pair(Larger, p, q) \in Ranges
        /\ \A k \in 1 .. 2 : Pair(Larger, p, q)[k] = Larger(p[k], q[k])
  BY <1>1 DEF Pair, Larger, Ranges, Widths
<1>4. \A i \in 1 .. n : left(i) \in Ranges /\ right(i) \in Ranges
  BY <1>1, <1>2
<1>5. WidenPairs(sizes, dims) = [i \in 1 .. n |-> Pair(Larger, left(i), right(i))]
  BY DEF WidenPairs
<1>6. \A i \in 1 .. n : \A k \in 1 .. 2 :
        /\ left(i)[k] = IF i <= Len(sizes) THEN sizes[i][k] ELSE 0
        /\ right(i)[k] = IF i <= Len(dims) THEN dims[i][k] ELSE 0
  BY <1>2
<1> DEFINE pair(i) == Pair(Larger, left(i), right(i))
<1>7. \A i \in 1 .. n : /\ pair(i) \in Ranges
                        /\ \A k \in 1 .. 2 : pair(i)[k] = Larger(left(i)[k], right(i)[k])
  BY <1>3, <1>4
<1> HIDE DEF n, left, right, pair
<1>8. /\ [i \in 1 .. n |-> pair(i)] \in Seq(Ranges)
      /\ Len([i \in 1 .. n |-> pair(i)]) = n
      /\ DOMAIN [i \in 1 .. n |-> pair(i)] = 1 .. n
  BY <1>1, <1>7
<1>9. WidenPairs(sizes, dims) = [i \in 1 .. n |-> pair(i)]
  BY <1>5 DEF pair
<1>10. WidenPairs(sizes, dims) \in Seq(Ranges) /\ Len(WidenPairs(sizes, dims)) = n
  BY <1>8, <1>9
<1>11. ASSUME NEW i \in DOMAIN WidenPairs(sizes, dims), NEW k \in 1 .. 2
       PROVE  WidenPairs(sizes, dims)[i][k] =
                Larger(IF i <= Len(sizes) THEN sizes[i][k] ELSE 0,
                       IF i <= Len(dims) THEN dims[i][k] ELSE 0)
  <2>1. i \in 1 .. n
    BY <1>8, <1>9
  <2>2. WidenPairs(sizes, dims)[i] = pair(i)
    BY <1>9, <2>1
  <2>3. WidenPairs(sizes, dims)[i][k] = Larger(left(i)[k], right(i)[k])
    BY <1>7, <2>1, <2>2
  <2>4. QED
    BY <1>6, <2>1, <2>3
<1>12. QED
  BY <1>10, <1>11 DEF n

LEMMA WidenCovers ==
  ASSUME NEW all \in SUBSET Seq(Widths), Short(all),
         NEW sizes \in Seq(Widths), Covers(sizes, all), NEW d \in Seq(Widths)
  PROVE  Covers(Widen(sizes, d), all \cup {d})
<1> DEFINE size == [w \in Widths |-> w]
           new == Widen(sizes, d)
<1>1. size \in [Widths -> Widths]
  OBVIOUS
<1>2. \A e \in Seq(Widths) : \A i \in DOMAIN e : size[e[i]] = e[i]
  OBVIOUS
<1>3. ASSUME NEW set \in SUBSET Seq(Widths), NEW i
      PROVE  Sizes(set, size, i) = {e[i] : e \in Having(set, i)}
  <2>1. \A e \in Having(set, i) : size[e[i]] = e[i]
    BY <1>2 DEF Having
  <2> HIDE DEF size
  <2>2. QED
    BY <2>1 DEF Sizes
<1>4. /\ new \in Seq(Widths) /\ Len(new) = Larger(Len(sizes), Len(d))
      /\ \A i \in DOMAIN new : new[i] = Larger(IF i <= Len(sizes) THEN sizes[i] ELSE 0,
                                               IF i <= Len(d) THEN d[i] ELSE 0)
  BY WidenFacts
<1> HIDE DEF new
<1>5. Widens(size, new, sizes, d)
  BY <1>2, <1>4 DEF Widens
<1>6. Measures(size, sizes, all)
  BY <1>2, <1>3 DEF Covers, Measures
<1> HIDE DEF size
<1>7. Measures(size, new, all \cup {d})
  BY <1>1, <1>4, <1>5, <1>6, SizesGrow
<1>8. all \cup {d} \in SUBSET Seq(Widths)
  OBVIOUS
<1>9. \A i \in DOMAIN new : new[i] = MaxIn({e[i] : e \in Having(all \cup {d}, i)})
  BY ZenonT(60), <1>2, <1>3, <1>4, <1>7, <1>8 DEF Measures
<1>10. QED
  BY <1>7, <1>9 DEF Covers, Measures, new

LEMMA WidenPairsCovers ==
  ASSUME NEW all \in SUBSET Seq(Ranges), Short(all),
         NEW sizes \in Seq(Ranges), CoversPairs(sizes, all), NEW d \in Seq(Ranges)
  PROVE  CoversPairs(WidenPairs(sizes, d), all \cup {d})
<1> DEFINE new == WidenPairs(sizes, d)
<1>1. /\ new \in Seq(Ranges) /\ Len(new) = Larger(Len(sizes), Len(d))
      /\ \A i \in DOMAIN new : \A k \in 1 .. 2 :
           new[i][k] = Larger(IF i <= Len(sizes) THEN sizes[i][k] ELSE 0,
                              IF i <= Len(d) THEN d[i][k] ELSE 0)
  BY WidenPairsFacts
<1> HIDE DEF new
<1>2. ASSUME NEW k \in 1 .. 2
      PROVE  /\ Longest(new, all \cup {d})
             /\ \A i \in DOMAIN new :
                  new[i][k] = MaxIn({e[i][k] : e \in Having(all \cup {d}, i)})
  <2> DEFINE size == [r \in Ranges |-> r[k]]
  <2>1. size \in [Ranges -> Widths]
    BY DEF Ranges
  <2>2. \A e \in Seq(Ranges) : \A i \in DOMAIN e : size[e[i]] = e[i][k]
    OBVIOUS
  <2>3. ASSUME NEW set \in SUBSET Seq(Ranges), NEW i
        PROVE  Sizes(set, size, i) = {e[i][k] : e \in Having(set, i)}
    <3>1. \A e \in Having(set, i) : size[e[i]] = e[i][k]
      BY <2>2 DEF Having
    <3> HIDE DEF size
    <3>2. QED
      BY <3>1 DEF Sizes
  <2>4. Widens(size, new, sizes, d)
    BY <1>1, <2>2 DEF Widens
  <2>5. Measures(size, sizes, all)
    BY <2>2, <2>3 DEF CoversPairs, Measures
  <2> HIDE DEF size
  <2>6. Measures(size, new, all \cup {d})
    BY <1>1, <2>1, <2>4, <2>5, SizesGrow
  <2>7. all \cup {d} \in SUBSET Seq(Ranges)
    OBVIOUS
  <2>8. QED
    BY ZenonT(60), <1>1, <2>2, <2>3, <2>6, <2>7 DEF Measures
<1>3. Longest(new, all \cup {d})
  BY <1>2
<1>4. QED
  BY <1>2, <1>3 DEF CoversPairs, new

LEMMA RoomForWidths ==
  ASSUME NEW all \in SUBSET Seq(Widths), Short(all),
         NEW sizes \in Seq(Widths), Covers(sizes, all), NEW d \in all
  PROVE  Len(d) <= Len(sizes) /\ \A i \in DOMAIN d : d[i] <= sizes[i]
<1> DEFINE size == [w \in Widths |-> w]
<1>1. size \in [Widths -> Widths]
  OBVIOUS
<1>2. \A e \in Seq(Widths) : \A i \in DOMAIN e : size[e[i]] = e[i]
  OBVIOUS
<1>3. ASSUME NEW i
      PROVE  Sizes(all, size, i) = {e[i] : e \in Having(all, i)}
  <2>1. \A e \in Having(all, i) : size[e[i]] = e[i]
    BY <1>2 DEF Having
  <2> HIDE DEF size
  <2>2. QED
    BY <2>1 DEF Sizes
<1>4. Measures(size, sizes, all)
  BY <1>2, <1>3 DEF Covers, Measures
<1> HIDE DEF size
<1>5. Len(d) <= Len(sizes) /\ \A i \in DOMAIN d : size[d[i]] <= size[sizes[i]]
  BY <1>1, <1>4, SizesCover DEF Below
<1>6. \A i \in DOMAIN d : i \in DOMAIN sizes
  BY <1>5
<1>7. QED
  BY <1>2, <1>5, <1>6

LEMMA RoomForRanges ==
  ASSUME NEW all \in SUBSET Seq(Ranges), Short(all),
         NEW sizes \in Seq(Ranges), CoversPairs(sizes, all), NEW d \in all
  PROVE  /\ Len(d) <= Len(sizes)
         /\ \A i \in DOMAIN d : \A k \in 1 .. 2 : d[i][k] <= sizes[i][k]
         /\ \E e \in all : Len(e) = Len(sizes)
<1>1. ASSUME NEW k \in 1 .. 2
      PROVE  /\ Len(d) <= Len(sizes) /\ \A i \in DOMAIN d : d[i][k] <= sizes[i][k]
             /\ \E e \in all : Len(e) = Len(sizes)
  <2> DEFINE size == [r \in Ranges |-> r[k]]
  <2>1. size \in [Ranges -> Widths]
    BY DEF Ranges
  <2>2. \A e \in Seq(Ranges) : \A i \in DOMAIN e : size[e[i]] = e[i][k]
    OBVIOUS
  <2>3. ASSUME NEW i
        PROVE  Sizes(all, size, i) = {e[i][k] : e \in Having(all, i)}
    <3>1. \A e \in Having(all, i) : size[e[i]] = e[i][k]
      BY <2>2 DEF Having
    <3> HIDE DEF size
    <3>2. QED
      BY <3>1 DEF Sizes
  <2>4. Measures(size, sizes, all)
    BY <2>2, <2>3 DEF CoversPairs, Measures
  <2> HIDE DEF size
  <2>5. Below(size, d, sizes) /\ \E e \in all : Len(e) = Len(sizes)
    BY <2>1, <2>4, SizesCover
  <2>6. \A i \in DOMAIN d : i \in DOMAIN sizes
    BY <2>5 DEF Below
  <2>7. QED
    BY <2>2, <2>5, <2>6 DEF Below
<1>2. QED
  BY <1>1

-----------------------------------------------------------------------------
(* The spaces: what the formatter computes fits the types it keeps it in.  *)

Room == (MaxWidth + 2) * (MaxParts + 2)

LEMMA RoomFacts ==
  /\ MaxWidth \in Nat /\ MaxParts \in Nat \ {0, 1} /\ Modulus \in Nat
  /\ Room \in Nat /\ 8 * Room <= Modulus /\ 4 <= Room
  /\ 2 * MaxWidth + 1 <= Room /\ (MaxWidth + 1) * (MaxParts + 1) <= Room
  /\ (2 * MaxWidth + 3) * MaxParts + 8 <= 2 * Room
<1>1. MaxWidth \in Nat /\ MaxParts \in Nat \ {0, 1} /\ Modulus \in Nat
  BY ItemAssumption, WidthAssumption
<1> DEFINE area == MaxWidth * MaxParts
<1>2. area \in Nat
  BY <1>1
<1>3. Room = area + 2 * MaxWidth + 2 * MaxParts + 4
  BY <1>1 DEF Room
<1>4. (MaxWidth + 1) * (MaxParts + 1) = area + MaxWidth + MaxParts + 1
  BY <1>1
<1>5. (2 * MaxWidth + 3) * MaxParts = 2 * area + 3 * MaxParts
  BY <1>1
<1>6. 8 * (MaxWidth + 2) * (MaxParts + 2) = 8 * Room
  BY <1>1 DEF Room
<1> HIDE DEF area
<1>7. QED
  BY <1>1, <1>2, <1>3, <1>4, <1>5, <1>6, WidthAssumption

LEMMA UnsignedFacts ==
  ASSUME NEW n \in Int, 0 <= n, n < 4 * Room
  PROVE  Unsigned(n) = n /\ AsInt(n) = n
<1>1. Modulus \in Nat /\ Room \in Nat /\ 8 * Room <= Modulus /\ Room >= 4
  BY RoomFacts
<1>2. n % Modulus = n
  BY <1>1
<1>3. Modulus \div 2 >= 4 * Room
  BY <1>1
<1>4. QED
  BY <1>1, <1>2, <1>3 DEF Unsigned, AsInt

LEMMA UnsignedType ==
  ASSUME NEW n \in Int
  PROVE  Unsigned(n) \in Nat /\ AsInt(n) \in Int
<1>1. Modulus \in Nat /\ Modulus > 0
  BY RoomFacts
<1>2. Unsigned(n) \in Nat
  BY <1>1 DEF Unsigned
<1>3. QED
  BY <1>1, <1>2 DEF AsInt

Sides(seq) == [i \in DOMAIN seq |-> seq[i][1] + seq[i][2]]

LEMMA PairSums ==
  ASSUME NEW sizes \in Seq(Ranges), NEW k \in 0 .. Len(sizes)
  PROVE  /\ SumPairs(sizes) \in Nat /\ SumPairs(sizes) <= 2 * (MaxWidth * Len(sizes))
         /\ SumPairs(SubSeq(sizes, 1, k)) \in Nat /\ SumPairs(From(sizes, k + 1)) \in Nat
         /\ SumPairs(SubSeq(sizes, 1, k)) + SumPairs(From(sizes, k + 1)) = SumPairs(sizes)
<1> DEFINE L == Len(sizes)
           sides == Sides(sizes)
<1>1. /\ L \in Nat /\ k \in Nat /\ k <= L /\ MaxWidth \in Nat
      /\ \A i \in 1 .. L : sizes[i][1] \in Widths /\ sizes[i][2] \in Widths
  BY RoomFacts DEF Ranges
<1>2. /\ sides \in Seq(Nat) /\ Len(sides) = L
      /\ \A i \in 1 .. L : sides[i] = sizes[i][1] + sizes[i][2] /\ sides[i] <= 2 * MaxWidth
  <2> DEFINE side(i) == sizes[i][1] + sizes[i][2]
  <2>1. \A i \in 1 .. L : side(i) \in Nat /\ side(i) <= 2 * MaxWidth
    BY <1>1 DEF Widths
  <2>2. sides = [i \in 1 .. L |-> side(i)]
    BY DEF Sides
  <2> HIDE DEF side, sides, L
  <2>3. /\ [i \in 1 .. L |-> side(i)] \in Seq(Nat) /\ Len([i \in 1 .. L |-> side(i)]) = L
        /\ \A i \in 1 .. L : [j \in 1 .. L |-> side(j)][i] = side(i)
    BY <1>1, <2>1
  <2>4. QED
    BY <2>1, <2>2, <2>3 DEF side
<1>3. SumPairs(sizes) = SumOf(sides)
  BY DEF SumPairs, Sides
<1>4. ASSUME NEW a \in 1 .. L + 1, NEW b \in 0 .. L, a <= b + 1
      PROVE  SumPairs(SubSeq(sizes, a, b)) = SumOf(SubSeq(sides, a, b))
  <2> DEFINE part == SubSeq(sizes, a, b)
             n == b - a + 1
  <2>1. n \in Nat /\ a \in Nat /\ b \in Nat /\ \A i \in 1 .. n : a + i - 1 \in 1 .. L
    BY <1>1, <1>4
  <2>2. /\ part = [i \in 1 .. n |-> sizes[a + i - 1]]
        /\ SubSeq(sides, a, b) = [i \in 1 .. n |-> sides[a + i - 1]]
    BY <1>1, <1>2, <2>1
  <2>3. Sides(part) = [i \in 1 .. n |-> sides[a + i - 1]]
    BY <1>2, <2>1, <2>2 DEF Sides
  <2>4. SumPairs(part) = SumOf(Sides(part))
    BY DEF SumPairs, Sides
  <2>5. QED
    BY <2>2, <2>3, <2>4
<1> HIDE DEF sides
<1>5. SumOf(sides) <= L * (2 * MaxWidth) /\ SumOf(sides) \in Nat
  <2>1. 2 * MaxWidth \in Nat
    BY <1>1
  <2>2. QED
    BY <1>1, <1>2, <2>1, SumBound
<1>6. PICK f : Sums(sides, f) /\ SumOf(sides) = f[L]
  BY <1>2, SumFacts
<1>7. SumOf(SubSeq(sides, 1, k)) = f[k] - f[0] /\ SumOf(SubSeq(sides, k + 1, L)) = f[L] - f[k]
  <2>1. \A i \in 0 .. L : \A j \in i .. L : SumOf(SubSeq(sides, i + 1, j)) = f[j] - f[i]
    BY <1>2, <1>6, PartSum
  <2>2. SumOf(SubSeq(sides, 0 + 1, k)) = f[k] - f[0] /\ 0 + 1 = 1
    BY <1>1, <2>1
  <2>3. SumOf(SubSeq(sides, k + 1, L)) = f[L] - f[k]
    BY <1>1, <2>1
  <2>4. QED
    BY <2>2, <2>3
<1>8. f[0] = 0 /\ f[k] \in Nat /\ f[L] \in Nat
  <2>1. f[0] = 0 /\ f \in [0 .. Len(sides) -> Nat]
    BY <1>6 DEF Sums
  <2>2. Len(sides) = L /\ k \in 0 .. L /\ L \in 0 .. L
    BY <1>1, <1>2
  <2>3. QED
    BY <2>1, <2>2
<1>9. /\ SubSeq(sides, 1, k) \in Seq(Nat) /\ SubSeq(sides, k + 1, L) \in Seq(Nat)
  BY <1>1, <1>2
<1>10. SumOf(SubSeq(sides, 1, k)) \in Nat /\ SumOf(SubSeq(sides, k + 1, L)) \in Nat
  <2>1. \A q \in Seq(Nat) : SumOf(q) \in Nat
    <3>1. TAKE q \in Seq(Nat)
    <3>2. PICK g : Sums(q, g) /\ SumOf(q) = g[Len(q)]
      BY SumFacts
    <3>3. QED
      BY <3>2 DEF Sums
  <2>2. QED
    BY <1>9, <2>1
<1>11. SumPairs(SubSeq(sizes, 1, k)) = SumOf(SubSeq(sides, 1, k))
  BY <1>1, <1>4
<1>12. SumPairs(From(sizes, k + 1)) = SumOf(SubSeq(sides, k + 1, L))
  BY <1>1, <1>4 DEF From
<1>13. L * (2 * MaxWidth) = 2 * (MaxWidth * L)
  BY <1>1
<1>14. QED
  BY <1>3, <1>5, <1>6, <1>7, <1>8, <1>10, <1>11, <1>12, <1>13

LEMMA SumOfNothing ==
  SumOf(<<>>) = 0 /\ SumPairs(<<>>) = 0
<1>1. <<>> \in Seq(Nat) /\ Len(<<>>) = 0
  OBVIOUS
<1>2. PICK f : Sums(<<>>, f) /\ SumOf(<<>>) = f[Len(<<>>)]
  BY <1>1, SumFacts
<1>3. SumOf(<<>>) = 0
  BY <1>1, <1>2 DEF Sums
<1>4. SumPairs(<<>>) = SumOf(<<>>)
  BY DEF SumPairs
<1>5. QED
  BY <1>3, <1>4

(* What ranges take where all those of a block are.                        *)
Total(sizes) == 3 * Len(sizes) + SumPairs(sizes)
Fitting(dims, sizes) ==
  /\ Len(dims) <= Len(sizes)
  /\ \A i \in DOMAIN dims : \A k \in 1 .. 2 : dims[i][k] <= sizes[i][k]

LEMMA TotalFacts ==
  ASSUME NEW sizes \in Seq(Ranges), Len(sizes) <= MaxParts
  PROVE  Total(sizes) \in Nat /\ Total(sizes) + 8 <= 2 * Room
<1> DEFINE n == Len(sizes)
           sum == SumPairs(sizes)
           area == MaxWidth * MaxParts
<1>1. MaxWidth \in Nat /\ MaxParts \in Nat /\ Room \in Nat /\ n \in Nat /\ n <= MaxParts
  BY RoomFacts
<1>2. sum \in Nat /\ sum <= 2 * (MaxWidth * n)
  BY <1>1, PairSums
<1>3. MaxWidth * n <= area /\ area \in Nat /\ MaxWidth * n \in Nat
  BY <1>1
<1>4. (2 * MaxWidth + 3) * MaxParts = 2 * area + 3 * MaxParts
  BY <1>1
<1>5. (2 * MaxWidth + 3) * MaxParts + 8 <= 2 * Room
  BY RoomFacts
<1> HIDE DEF n, sum, area
<1>6. 3 * n + sum \in Nat /\ 3 * n + sum + 8 <= 2 * Room
  BY <1>1, <1>2, <1>3, <1>4, <1>5
<1>7. QED
  BY <1>6 DEF Total, n, sum

(* Whatever ranges an item has, they and the spaces around them take as    *)
(* much room; but one column more when some of them are missing, and what  *)
(* the other brackets take.                                                *)
LEMMA AlignFacts ==
  ASSUME NEW dims \in Seq(Ranges), NEW odd \in Seq(Widths), NEW sizes \in Seq(Ranges),
         Len(sizes) <= MaxParts, Fitting(dims, sizes), NEW first \in Nat, first <= Room
  PROVE  LET a == Align(dims, odd, sizes, first)
         IN  /\ a.fails = Empty(odd) /\ a.width \in Nat /\ a.rest \in Nat
             /\ NoBracket(dims, odd) =>
                  /\ a.width = 0
                  /\ a.rest = Unsigned(first - 1 + (IF sizes = <<>> THEN 0 ELSE 1 + Total(sizes)))
             /\ ~NoBracket(dims, odd) =>
                  /\ a.width + a.rest = Larger(first, 1) + Total(sizes) + SumOf(odd)
                                        + (IF Len(dims) < Len(sizes) THEN 1 ELSE 0)
                  /\ a.rest <= 1 + Total(sizes)
                  /\ (a.rest > 0) <=> (Len(dims) < Len(sizes))
<1> DEFINE k == Len(dims)
           n == Len(sizes)
           none == NoBracket(dims, odd)
           odds == SumOf(odd)
           a == Align(dims, odd, sizes, first)
           part == SumPairs(SubSeq(sizes, 1, k))
           left == SumPairs(From(sizes, k + 1))
           sum == SumPairs(sizes)
           room == (IF none THEN first - 1 ELSE 0)
                   + IF k < n THEN 1 + 3 * (n - k) + left ELSE 0
<1>1. /\ k \in Nat /\ n \in Nat /\ k <= n /\ n <= MaxParts /\ MaxWidth \in Nat
      /\ Room \in Nat /\ (k = 0 <=> dims = <<>>) /\ (n = 0 <=> sizes = <<>>)
  BY RoomFacts DEF Fitting
<1>a. odds \in Nat
  <2>1. odd \in Seq(Nat) /\ \A i \in 1 .. Len(odd) : odd[i] <= MaxWidth
    BY <1>1 DEF Widths
  <2>2. QED
    BY <1>1, <2>1, SumBound
<1>b. none => k = 0
  BY <1>1 DEF NoBracket
<1>2. /\ sum \in Nat /\ part \in Nat /\ left \in Nat /\ part + left = sum
  BY <1>1, PairSums
<1>3. Total(sizes) = 3 * n + sum /\ Total(sizes) \in Nat /\ Total(sizes) + 8 <= 2 * Room
  BY TotalFacts DEF Total
<1>4. [i \in DOMAIN dims |-> Pair(Larger, dims[i], sizes[i])] = SubSeq(sizes, 1, k)
  <2>1. ASSUME NEW i \in DOMAIN dims PROVE Pair(Larger, dims[i], sizes[i]) = sizes[i]
    <3>1. i \in 1 .. n /\ sizes[i] \in Ranges /\ dims[i] \in Ranges
      BY <1>1
    <3>a. \A j \in 1 .. 2 : dims[i][j] <= sizes[i][j]
      BY DEF Fitting
    <3>b. \A j \in 1 .. 2 : dims[i][j] \in Nat /\ sizes[i][j] \in Nat
      <4> HIDE DEF k, n, a, part, left, sum, room
      <4>1. QED
        BY SMTT(40), <1>1, <3>1 DEF Ranges, Widths
    <3>2. \A j \in 1 .. 2 : Larger(dims[i][j], sizes[i][j]) = sizes[i][j]
      BY <3>a, <3>b DEF Larger
    <3>3. sizes[i] = <<sizes[i][1], sizes[i][2]>>
      BY <3>1 DEF Ranges
    <3>4. QED
      BY <3>2, <3>3 DEF Pair
  <2>2. SubSeq(sizes, 1, k) = [i \in 1 .. k |-> sizes[i]]
    BY <1>1
  <2>3. DOMAIN dims = 1 .. k
    OBVIOUS
  <2>4. QED
    BY <2>1, <2>2, <2>3
<1>5. a = [fails |-> Empty(odd),
           width |-> IF none THEN 0 ELSE Larger(first, 1) + 3 * k + odds + part,
           rest |-> Unsigned(room)]
  <2>1. ~(first < 0 \/ k > n)
    BY <1>1
  <2>2. (first < 0 \/ k > n \/ Empty(odd)) = Empty(odd)
    BY <2>1 DEF Empty
  <2>3. QED
    BY <1>4, <2>1, <2>2 DEF Align
<1> HIDE DEF a, part, left, sum, k, n, none, odds
<1>6. room \in Int
  BY <1>1, <1>2
<1>7. a.rest \in Nat /\ a.width \in Nat /\ a.fails = Empty(odd)
  <2>1. Unsigned(room) \in Nat
    BY <1>6, UnsignedType
  <2>2. Larger(first, 1) + 3 * k + odds + part \in Nat
    BY <1>1, <1>a, <1>2 DEF Larger
  <2> HIDE DEF room
  <2>3. QED
    BY <1>5, <2>1, <2>2
<1>8. CASE none
  <2>1. part = 0
    <3>1. SubSeq(sizes, 1, 0) = <<>>
      BY <1>1
    <3>2. k = 0
      BY <1>b, <1>8
    <3>3. QED
      BY <3>1, <3>2, SumOfNothing DEF part
  <2>2. room = first - 1 + (IF sizes = <<>> THEN 0 ELSE 1 + Total(sizes))
    BY <1>1, <1>b, <1>2, <1>3, <1>8, <2>1
  <2>3. QED
    BY <1>5, <1>7, <1>8, <2>2 DEF a, none
<1>9. CASE ~none
  <2>1. room \in Nat /\ room <= 1 + Total(sizes) /\ (room > 0 <=> k < n)
    BY <1>1, <1>2, <1>3, <1>9
  <2>2. a.rest = room
    <3>1. 0 <= room /\ room < 4 * Room
      BY <1>1, <1>3, <2>1
    <3>2. Unsigned(room) = room
      BY <1>6, <3>1, UnsignedFacts
    <3>3. QED
      BY <1>5, <3>2
  <2>3. a.width = Larger(first, 1) + 3 * k + odds + part
    BY <1>5, <1>9
  <2>4. Larger(first, 1) \in Nat
    BY DEF Larger
  <2>5. k = n => left = 0
    <3>1. ASSUME k = n PROVE left = 0
      <4>1. From(sizes, k + 1) = <<>>
        BY <1>1, <3>1 DEF From, n
      <4>2. QED
        BY <4>1, SumOfNothing DEF left
    <3>2. QED
      BY <3>1
  <2>6. a.width + a.rest = Larger(first, 1) + Total(sizes) + odds + (IF k < n THEN 1 ELSE 0)
    <3>1. CASE k < n
      <4>1. room = 1 + 3 * (n - k) + left
        BY <1>1, <1>2, <1>9, <3>1
      <4>2. \A l \in Nat : l + 3 * k + odds + part + (1 + 3 * (n - k) + left)
                                 = l + (3 * n + sum) + odds + 1
        BY <1>1, <1>a, <1>2
      <4>3. a.width + a.rest = Larger(first, 1) + 3 * k + odds + part + (1 + 3 * (n - k) + left)
        <5> HIDE DEF room
        <5>1. QED
          BY <2>2, <2>3, <4>1
      <4>4. a.width + a.rest = Larger(first, 1) + (3 * n + sum) + odds + 1
        BY <2>4, <4>2, <4>3
      <4>5. QED
        BY <1>a, <1>3, <2>4, <3>1, <4>4
    <3>2. CASE ~(k < n)
      <4>1. room = 0 /\ k = n
        BY <1>1, <1>9, <3>2
      <4> HIDE DEF room
      <4>2. QED
        BY <1>1, <1>a, <1>2, <1>3, <2>2, <2>3, <2>4, <2>5, <3>2, <4>1
    <3>3. QED
      BY <3>1, <3>2
  <2>7. QED
    BY <1>7, <1>9, <2>1, <2>2, <2>6 DEF a, k, n, none, odds
<1>10. QED
  BY <1>8, <1>9

-----------------------------------------------------------------------------
(* The trivia of an item: what is kept of them.                            *)

Marks == Trivia \cup {"indent", "gap"}
Piece(t) == t \in {"newline", "comment"}
Collects(seq, p) ==
  /\ p \in [0 .. Len(seq) -> Seq(Marks)] /\ p[0] = <<>>
  /\ \A i \in 1 .. Len(seq) :
       p[i] = IF Piece(seq[i]) THEN Append(p[i - 1], seq[i]) ELSE p[i - 1]

LEMMA PiecesFacts ==
  ASSUME NEW seq \in Seq(Marks)
  PROVE  \E p : Collects(seq, p) /\ Pieces(seq) = p[Len(seq)]
<1> DEFINE L == Len(seq)
           S == Seq(Marks)
           P(p) == p = [i \in 0 .. L |->
                          IF i = 0 THEN <<>>
                          ELSE IF seq[i] \in {"newline", "comment"} THEN Append(p[i - 1], seq[i])
                          ELSE p[i - 1]]
           all == CHOOSE p : P(p)
           step == [i \in Nat |-> [x \in S |-> IF i \in 1 .. L /\ Piece(seq[i])
                                               THEN Append(x, seq[i]) ELSE x]]
           T == {n \in Nat : n <= L => all[n] \in S}
<1>1. L \in Nat /\ <<>> \in S /\ \A i \in 1 .. L : seq[i] \in Marks
  OBVIOUS
<1>2. step \in [Nat -> [S -> S]]
  <2>1. \A i \in Nat : \A x \in S :
          (IF i \in 1 .. L /\ Piece(seq[i]) THEN Append(x, seq[i]) ELSE x) \in S
    BY <1>1
  <2> HIDE DEF S
  <2>2. QED
    BY <2>1
<1>3. PICK p \in [0 .. L -> S] : p[0] = <<>> /\ \A i \in 1 .. L : p[i] = step[i][p[i - 1]]
  <2>1. \E p \in [0 .. L -> S] : Follows(p, <<>>, step, L)
    <3> HIDE DEF step, L, S
    <3>1. QED
      BY <1>1, <1>2, Recursion
  <2>2. QED
    BY <2>1 DEF Follows
<1>4. ASSUME NEW i \in 1 .. L
      PROVE  p[i] = IF Piece(seq[i]) THEN Append(p[i - 1], seq[i]) ELSE p[i - 1]
  <2>1. i \in Nat /\ p[i - 1] \in S
    BY <1>1
  <2> HIDE DEF S
  <2>2. QED
    BY <1>3, <2>1
<1>5. P(p)
  <2> DEFINE body(i) == IF i = 0 THEN <<>>
                        ELSE IF seq[i] \in {"newline", "comment"} THEN Append(p[i - 1], seq[i])
                        ELSE p[i - 1]
  <2>1. ASSUME NEW i \in 0 .. L PROVE p[i] = body(i)
    <3>1. CASE i = 0
      BY <1>3, <3>1
    <3>2. CASE i # 0
      <4>1. i \in 1 .. L
        BY <1>1, <3>2
      <4>2. QED
        BY <1>4, <3>2, <4>1 DEF Piece
    <3>3. QED
      BY <3>1, <3>2
  <2>2. p = [i \in 0 .. L |-> p[i]]
    BY <1>3
  <2> HIDE DEF body
  <2>3. p = [i \in 0 .. L |-> body(i)]
    BY <2>1, <2>2
  <2>4. QED
    BY <2>3 DEF body
<1>6. P(all)
  <2> HIDE DEF P
  <2>1. QED
    BY <1>5
<1>7. Pieces(seq) = all[L]
  BY DEF Pieces
<1> HIDE DEF all, step
<1>8. /\ all[0] = <<>>
      /\ \A i \in 1 .. L : all[i] = IF Piece(seq[i]) THEN Append(all[i - 1], seq[i])
                                    ELSE all[i - 1]
  <2>1. all[0] = <<>>
    BY <1>1, <1>6
  <2>2. ASSUME NEW i \in 1 .. L
        PROVE  all[i] = IF Piece(seq[i]) THEN Append(all[i - 1], seq[i]) ELSE all[i - 1]
    <3>1. i \in 0 .. L /\ i # 0
      BY <1>1
    <3>2. all[i] = IF i = 0 THEN <<>>
                   ELSE IF seq[i] \in {"newline", "comment"} THEN Append(all[i - 1], seq[i])
                   ELSE all[i - 1]
      BY <1>6, <3>1
    <3>3. QED
      BY <3>1, <3>2 DEF Piece
  <2>3. QED
    BY <2>1, <2>2
<1>9. 0 \in T
  BY <1>1, <1>8
<1>10. ASSUME NEW n \in Nat, n \in T PROVE n + 1 \in T
  <2> SUFFICES ASSUME n + 1 <= L PROVE all[n + 1] \in S
    OBVIOUS
  <2>1. n + 1 \in 1 .. L /\ (n + 1) - 1 = n /\ all[n] \in S
    BY <1>1, <1>10
  <2>2. all[n + 1] = IF Piece(seq[n + 1]) THEN Append(all[n], seq[n + 1]) ELSE all[n]
    BY <1>8, <2>1
  <2>3. QED
    BY <1>1, <2>1, <2>2
<1>11. \A n \in Nat : n \in T
  <2> HIDE DEF T
  <2>1. QED
    BY <1>9, <1>10, Induction
<1>12. \A i \in 0 .. L : all[i] \in S
  BY <1>1, <1>11
<1>13. all \in [0 .. L -> S]
  BY <1>6, <1>12
<1>14. Collects(seq, all)
  BY <1>8, <1>13 DEF Collects
<1>15. QED
  BY <1>7, <1>14

LEMMA PiecesAppend ==
  ASSUME NEW seq \in Seq(Marks), NEW t \in Marks
  PROVE  /\ Pieces(Append(seq, t)) = IF Piece(t) THEN Append(Pieces(seq), t) ELSE Pieces(seq)
         /\ Pieces(seq) \in Seq(Marks)
<1> DEFINE L == Len(seq)
           new == Append(seq, t)
<1>1. PICK p : Collects(seq, p) /\ Pieces(seq) = p[L]
  BY PiecesFacts
<1>2. new \in Seq(Marks) /\ Len(new) = L + 1 /\ L \in Nat
  OBVIOUS
<1>3. new[L + 1] = t /\ \A i \in 1 .. L : new[i] = seq[i]
  OBVIOUS
<1> HIDE DEF new
<1>4. PICK q : Collects(new, q) /\ Pieces(new) = q[L + 1]
  BY <1>2, PiecesFacts
<1> DEFINE T == {n \in Nat : n <= L => q[n] = p[n]}
<1>5. 0 \in T
  BY <1>1, <1>4 DEF Collects
<1>6. ASSUME NEW n \in Nat, n \in T PROVE n + 1 \in T
  <2> SUFFICES ASSUME n + 1 <= L PROVE q[n + 1] = p[n + 1]
    OBVIOUS
  <2>1. n + 1 \in 1 .. L /\ n + 1 \in 1 .. L + 1 /\ (n + 1) - 1 = n
    BY <1>2
  <2>2. q[n + 1] = IF Piece(new[n + 1]) THEN Append(q[n], new[n + 1]) ELSE q[n]
    BY <1>2, <1>4, <2>1 DEF Collects
  <2>3. p[n + 1] = IF Piece(seq[n + 1]) THEN Append(p[n], seq[n + 1]) ELSE p[n]
    BY <1>1, <2>1 DEF Collects
  <2>4. q[n] = p[n]
    BY <1>2, <1>6
  <2>5. QED
    BY <1>3, <2>1, <2>2, <2>3, <2>4
<1>7. \A n \in Nat : n \in T
  <2> HIDE DEF T
  <2>1. QED
    BY <1>5, <1>6, Induction
<1>8. q[L] = p[L]
  BY <1>2, <1>7
<1>9. q[L + 1] = IF Piece(t) THEN Append(q[L], t) ELSE q[L]
  <2>1. L + 1 \in 1 .. Len(new) /\ (L + 1) - 1 = L
    BY <1>2
  <2>2. QED
    BY <1>3, <1>4, <2>1 DEF Collects
<1>10. p[L] \in Seq(Marks)
  BY <1>1, <1>2 DEF Collects
<1>11. QED
  BY <1>1, <1>4, <1>8, <1>9, <1>10 DEF new

(* The comment that ends the line before keeps all but the spaces before   *)
(* it.                                                                     *)
LEMMA PiecesSuffix ==
  ASSUME NEW seq \in Seq(Marks), NEW first \in 1 .. Len(seq),
         \A i \in 1 .. first - 1 : ~Piece(seq[i])
  PROVE  Pieces(<<"gap">> \o From(seq, first)) = Pieces(seq)
<1> DEFINE L == Len(seq)
           new == <<"gap">> \o From(seq, first)
           M == L - first + 1
<1>1. L \in Nat /\ first \in Nat /\ 1 <= first /\ first <= L /\ M \in Nat /\ M + first = L + 1
  OBVIOUS
<1>2. /\ From(seq, first) \in Seq(Marks) /\ Len(From(seq, first)) = M
      /\ \A i \in 1 .. M : From(seq, first)[i] = seq[first + i - 1]
  BY <1>1 DEF From
<1>3. "gap" \in Marks
  BY DEF Marks
<1>4. /\ new \in Seq(Marks) /\ Len(new) = M + 1 /\ new[1] = "gap"
      /\ \A i \in 2 .. M + 1 : new[i] = From(seq, first)[i - 1]
  BY <1>2, <1>3, ConsFacts
<1> HIDE DEF new
<1>5. PICK p : Collects(seq, p) /\ Pieces(seq) = p[L]
  BY PiecesFacts
<1>6. PICK q : Collects(new, q) /\ Pieces(new) = q[M + 1]
  BY <1>1, <1>4, PiecesFacts
<1> DEFINE A == {n \in Nat : n <= first - 1 => p[n] = <<>>}
           B == {n \in Nat : n <= M => q[n + 1] = p[first - 1 + n]}
<1>7. 0 \in A /\ \A n \in Nat : n \in A => n + 1 \in A
  <2>1. 0 \in A
    BY <1>5 DEF Collects
  <2>2. ASSUME NEW n \in Nat, n \in A, n + 1 <= first - 1 PROVE p[n + 1] = <<>>
    <3>1. n + 1 \in 1 .. L /\ (n + 1) - 1 = n /\ n + 1 \in 1 .. first - 1
      BY <1>1, <2>2
    <3>2. p[n + 1] = IF Piece(seq[n + 1]) THEN Append(p[n], seq[n + 1]) ELSE p[n]
      BY <1>5, <3>1 DEF Collects
    <3>3. p[n] = <<>>
      BY <1>1, <2>2
    <3>4. QED
      BY <3>1, <3>2, <3>3
  <2>3. QED
    BY <2>1, <2>2
<1>8. \A n \in Nat : n \in A
  <2> HIDE DEF A
  <2>1. QED
    BY <1>7, Induction
<1>9. p[first - 1] = <<>>
  BY <1>1, <1>8
<1>10. q[0] = <<>> /\ q[1] = <<>>
  <2>1. 1 \in 1 .. Len(new) /\ 1 - 1 = 0
    BY <1>1, <1>4
  <2>2. q[0] = <<>>
    BY <1>6 DEF Collects
  <2>3. q[1] = IF Piece(new[1]) THEN Append(q[1 - 1], new[1]) ELSE q[1 - 1]
    BY <1>6, <2>1 DEF Collects
  <2>4. ~Piece("gap")
    BY DEF Piece
  <2>5. QED
    BY <1>4, <2>1, <2>2, <2>3, <2>4
<1>11. 0 \in B
  BY <1>1, <1>9, <1>10
<1>12. ASSUME NEW n \in Nat, n \in B PROVE n + 1 \in B
  <2> SUFFICES ASSUME n + 1 <= M PROVE q[(n + 1) + 1] = p[first - 1 + (n + 1)]
    OBVIOUS
  <2>1. /\ n + 2 \in 1 .. M + 1 /\ (n + 2) - 1 = n + 1 /\ (n + 1) + 1 = n + 2
        /\ first + n \in 1 .. L /\ (first + n) - 1 = first - 1 + n
        /\ first - 1 + (n + 1) = first + n /\ n + 2 \in 2 .. M + 1 /\ n + 1 \in 1 .. M
        /\ first + (n + 1) - 1 = first + n
    BY <1>1
  <2>2. q[n + 2] = IF Piece(new[n + 2]) THEN Append(q[n + 1], new[n + 2]) ELSE q[n + 1]
    BY <1>4, <1>6, <2>1 DEF Collects
  <2>3. p[first + n] = IF Piece(seq[first + n]) THEN Append(p[first - 1 + n], seq[first + n])
                       ELSE p[first - 1 + n]
    BY <1>5, <2>1 DEF Collects
  <2>4. new[n + 2] = seq[first + n]
    BY <1>2, <1>4, <2>1
  <2>5. q[n + 1] = p[first - 1 + n]
    BY <1>1, <1>12
  <2>6. QED
    BY <2>1, <2>2, <2>3, <2>4, <2>5
<1>13. \A n \in Nat : n \in B
  <2> HIDE DEF B
  <2>1. QED
    BY <1>11, <1>12, Induction
<1>14. q[M + 1] = p[L]
  <2>1. first - 1 + M = L
    BY <1>1
  <2>2. QED
    BY <1>1, <1>13, <2>1
<1>15. QED
  BY <1>5, <1>6, <1>14 DEF new

LEMMA TwoMore ==
  ASSUME NEW S, NEW s \in Seq(S), NEW x \in S, NEW y \in S
  PROVE  /\ s \o <<x, y>> = Append(Append(s, x), y) /\ s \o <<x, y>> \in Seq(S)
         /\ Len(s \o <<x, y>>) = Len(s) + 2 /\ Len(s) \in Nat
         /\ (s \o <<x, y>>)[Len(s) + 2] = y /\ (s \o <<x, y>>)[Len(s) + 1] = x
<1>1. /\ s \o <<x, y>> \in Seq(S) /\ Len(s \o <<x, y>>) = Len(s) + 2 /\ Len(s) \in Nat
      /\ (s \o <<x, y>>)[Len(s) + 2] = y /\ (s \o <<x, y>>)[Len(s) + 1] = x
      /\ \A i \in 1 .. Len(s) : (s \o <<x, y>>)[i] = s[i]
  OBVIOUS
<1>2. /\ Append(Append(s, x), y) \in Seq(S) /\ Len(Append(Append(s, x), y)) = Len(s) + 2
      /\ \A i \in 1 .. Len(s) + 2 :
           Append(Append(s, x), y)[i] = IF i <= Len(s) THEN s[i]
                                        ELSE IF i = Len(s) + 1 THEN x ELSE y
  OBVIOUS
<1> DEFINE a == s \o <<x, y>>
           b == Append(Append(s, x), y)
<1>3. \A i \in 1 .. Len(s) + 2 : a[i] = b[i]
  BY <1>1, <1>2
<1> HIDE DEF a, b
<1>4. a = b
  BY <1>1, <1>2, <1>3 DEF a, b
<1>5. QED
  BY <1>1, <1>4 DEF a, b

EndsALine(seq) ==
  Len(seq) >= 2 /\ seq[Len(seq)] = "indent" /\ seq[Len(seq) - 1] = "newline"
Tidy(a) ==
  /\ a \in [kept : Seq(Marks), skip : BOOLEAN, clean : BOOLEAN]
  /\ a.clean = a.skip /\ (a.clean => EndsALine(a.kept))

LEMMA KeepFacts ==
  ASSUME NEW a, Tidy(a), NEW t \in Marks
  PROVE  /\ Tidy(Keep(a, t))
         /\ Pieces(Keep(a, t).kept) =
              IF Piece(t) THEN Append(Pieces(a.kept), t) ELSE Pieces(a.kept)
<1>1. /\ a.kept \in Seq(Marks) /\ a.skip \in BOOLEAN /\ a.clean = a.skip
      /\ a \in [kept : Seq(Marks), skip : BOOLEAN, clean : BOOLEAN]
  BY DEF Tidy
<1>2. Append(a.kept, t) \in Seq(Marks)
  BY <1>1
<1>3. CASE t = "space" /\ a.skip
  BY <1>3 DEF Keep, Piece
<1>4. CASE t = "space" /\ ~a.skip
  <2>1. Keep(a, t) = [a EXCEPT !.kept = Append(a.kept, t)]
    BY <1>4 DEF Keep
  <2>2. Tidy(Keep(a, t)) /\ Keep(a, t).kept = Append(a.kept, t)
    BY <1>1, <1>2, <1>4, <2>1 DEF Tidy
  <2>3. QED
    BY <1>1, <2>2, PiecesAppend
<1>5. CASE t = "newline"
  <2> DEFINE new == a.kept \o <<t, "indent">>
  <2>1. "indent" \in Marks /\ Piece(t) /\ ~Piece("indent")
    BY <1>5 DEF Marks, Piece
  <2>2. /\ new = Append(Append(a.kept, t), "indent") /\ new \in Seq(Marks)
        /\ Len(new) = Len(a.kept) + 2 /\ Len(a.kept) \in Nat
        /\ new[Len(a.kept) + 2] = "indent" /\ new[Len(a.kept) + 1] = t
    BY <1>1, <2>1, TwoMore
  <2>3. Pieces(new) = Append(Pieces(a.kept), t)
    <3>1. Pieces(Append(a.kept, t)) = Append(Pieces(a.kept), t)
      BY <1>1, <2>1, PiecesAppend
    <3>2. Pieces(Append(Append(a.kept, t), "indent")) = Pieces(Append(a.kept, t))
      BY <1>2, <2>1, PiecesAppend
    <3> HIDE DEF new
    <3>3. QED
      BY <2>2, <3>1, <3>2
  <2>4. Keep(a, t) = [kept |-> new, skip |-> TRUE, clean |-> TRUE]
    BY <1>5 DEF Keep
  <2> HIDE DEF new
  <2>5. EndsALine(new)
    <3>1. Len(new) - 1 = Len(a.kept) + 1 /\ Len(new) >= 2
      BY <2>2
    <3>2. QED
      BY <1>5, <2>2, <3>1 DEF EndsALine
  <2>6. QED
    BY <2>1, <2>2, <2>3, <2>4, <2>5 DEF Tidy
<1>6. CASE t # "space" /\ t # "newline"
  <2>1. Keep(a, t) = [kept |-> Append(a.kept, t), skip |-> FALSE, clean |-> FALSE]
    BY <1>6 DEF Keep
  <2>2. Tidy(Keep(a, t)) /\ Keep(a, t).kept = Append(a.kept, t)
    BY <1>2, <2>1 DEF Tidy
  <2>3. QED
    BY <1>1, <2>2, PiecesAppend
<1>7. QED
  BY <1>3, <1>4, <1>5, <1>6

LEMMA IndentFacts ==
  ASSUME NEW trivia \in Seq(Marks)
  PROVE  /\ Indent(trivia) \in Seq(Marks) /\ EndsALine(Indent(trivia))
         /\ Pieces(Indent(trivia)) \in {Pieces(trivia), Append(Pieces(trivia), "newline")}
<1> DEFINE L == Len(trivia)
           nothing == [kept |-> <<>>, skip |-> FALSE, clean |-> FALSE]
           S == {a \in [kept : Seq(Marks), skip : BOOLEAN, clean : BOOLEAN] : Tidy(a)}
           P(f) == f = [i \in 0 .. L |-> IF i = 0 THEN nothing ELSE Keep(f[i - 1], trivia[i])]
           all == CHOOSE f : P(f)
           step == [i \in Nat |-> [a \in S |-> IF i \in 1 .. L THEN Keep(a, trivia[i]) ELSE a]]
           last == all[L]
<1>1. L \in Nat /\ \A i \in 1 .. L : trivia[i] \in Marks
  OBVIOUS
<1>2. nothing \in S /\ Tidy(nothing)
  <2>1. <<>> \in Seq(Marks)
    OBVIOUS
  <2>2. Tidy(nothing)
    BY <2>1 DEF Tidy
  <2> HIDE DEF nothing
  <2>3. nothing \in [kept : Seq(Marks), skip : BOOLEAN, clean : BOOLEAN]
    BY <2>2 DEF Tidy
  <2>4. QED
    BY <2>2, <2>3
<1>3. \A a \in S : \A t \in Marks : Keep(a, t) \in S
  <2>1. \A a : Tidy(a) => a \in S
    BY DEF Tidy
  <2>2. QED
    BY <2>1, KeepFacts
<1>4. step \in [Nat -> [S -> S]]
  <2>1. \A i \in Nat : \A a \in S : (IF i \in 1 .. L THEN Keep(a, trivia[i]) ELSE a) \in S
    BY <1>1, <1>3
  <2> HIDE DEF S
  <2>2. QED
    BY <2>1
<1>5. PICK f \in [0 .. L -> S] : f[0] = nothing /\ \A i \in 1 .. L : f[i] = step[i][f[i - 1]]
  <2>1. \E f \in [0 .. L -> S] : Follows(f, nothing, step, L)
    <3> HIDE DEF step, L, S, nothing
    <3>1. QED
      BY <1>1, <1>2, <1>4, Recursion
  <2>2. QED
    BY <2>1 DEF Follows
<1>6. ASSUME NEW i \in 1 .. L PROVE f[i] = Keep(f[i - 1], trivia[i])
  <2> HIDE DEF S, nothing
  <2>1. i \in Nat /\ f[i - 1] \in S
    BY <1>1
  <2>2. QED
    BY <1>5, <2>1
<1>7. P(f)
  <2> DEFINE body(i) == IF i = 0 THEN nothing ELSE Keep(f[i - 1], trivia[i])
  <2>1. \A i \in 0 .. L : f[i] = body(i)
    <3> HIDE DEF nothing, S
    <3>1. \A i \in 0 .. L : i = 0 \/ i \in 1 .. L
      BY <1>1
    <3>2. QED
      BY <1>5, <1>6, <3>1
  <2>2. f = [i \in 0 .. L |-> f[i]]
    BY <1>5
  <2> HIDE DEF body, nothing
  <2>3. f = [i \in 0 .. L |-> body(i)]
    BY <2>1, <2>2
  <2>4. QED
    BY <2>3 DEF body
<1>8. P(all)
  <2> HIDE DEF P
  <2>1. QED
    BY <1>7
<1>9. Indent(trivia) = IF last.clean THEN last.kept ELSE last.kept \o <<"newline", "indent">>
  BY DEF Indent
<1> HIDE DEF all, step
<1>10. all[0] = nothing /\ \A i \in 1 .. L : all[i] = Keep(all[i - 1], trivia[i])
  <2> HIDE DEF nothing
  <2>1. all[0] = nothing
    BY <1>1, <1>8
  <2>2. \A i \in 1 .. L : i \in 0 .. L /\ i # 0
    BY <1>1
  <2>3. QED
    BY <1>8, <2>1, <2>2
<1>11. PICK p : Collects(trivia, p) /\ Pieces(trivia) = p[L]
  BY PiecesFacts
<1> DEFINE T == {n \in Nat : n <= L => Tidy(all[n]) /\ Pieces(all[n].kept) = p[n]}
<1>12. 0 \in T
  <2>1. PICK q : Collects(<<>>, q) /\ Pieces(<<>>) = q[Len(<<>>)]
    <3>1. <<>> \in Seq(Marks)
      OBVIOUS
    <3>2. QED
      BY <3>1, PiecesFacts
  <2>2. Pieces(<<>>) = <<>>
    BY <2>1 DEF Collects
  <2>3. p[0] = <<>>
    BY <1>11 DEF Collects
  <2>4. QED
    BY <1>2, <1>10, <2>2, <2>3
<1>13. ASSUME NEW n \in Nat, n \in T PROVE n + 1 \in T
  <2> SUFFICES ASSUME n + 1 <= L
               PROVE  Tidy(all[n + 1]) /\ Pieces(all[n + 1].kept) = p[n + 1]
    OBVIOUS
  <2>1. n + 1 \in 1 .. L /\ (n + 1) - 1 = n /\ Tidy(all[n]) /\ Pieces(all[n].kept) = p[n]
    BY <1>1, <1>13
  <2>2. all[n + 1] = Keep(all[n], trivia[n + 1]) /\ trivia[n + 1] \in Marks
    BY <1>1, <1>10, <2>1
  <2>3. p[n + 1] = IF Piece(trivia[n + 1]) THEN Append(p[n], trivia[n + 1]) ELSE p[n]
    BY <1>11, <2>1 DEF Collects
  <2>4. QED
    BY <2>1, <2>2, <2>3, KeepFacts
<1>14. \A n \in Nat : n \in T
  <2> HIDE DEF T
  <2>1. QED
    BY <1>12, <1>13, Induction
<1>15. Tidy(last) /\ Pieces(last.kept) = Pieces(trivia)
  BY <1>1, <1>11, <1>14
<1>16. last.kept \in Seq(Marks) /\ last.clean \in BOOLEAN
  BY <1>15 DEF Tidy
<1> HIDE DEF last
<1>17. CASE last.clean
  BY <1>9, <1>15, <1>16, <1>17 DEF Tidy
<1>18. CASE ~last.clean
  <2> DEFINE new == last.kept \o <<"newline", "indent">>
  <2>1. /\ "indent" \in Marks /\ "newline" \in Marks /\ Piece("newline") /\ ~Piece("indent")
    BY DEF Marks, Trivia, Piece
  <2>2. /\ new = Append(Append(last.kept, "newline"), "indent") /\ new \in Seq(Marks)
        /\ Len(new) = Len(last.kept) + 2 /\ Len(last.kept) \in Nat
        /\ new[Len(last.kept) + 2] = "indent" /\ new[Len(last.kept) + 1] = "newline"
    BY <1>16, <2>1, TwoMore
  <2>3. Append(last.kept, "newline") \in Seq(Marks)
    BY <1>16, <2>1
  <2> HIDE DEF new
  <2>4. Pieces(new) = Append(Pieces(trivia), "newline")
    BY <1>15, <1>16, <2>1, <2>2, <2>3, PiecesAppend
  <2>5. EndsALine(new)
    <3>1. Len(new) - 1 = Len(last.kept) + 1 /\ Len(new) >= 2
      BY <2>2
    <3>2. QED
      BY <2>2, <3>1 DEF EndsALine
  <2>6. Indent(trivia) = new
    BY <1>9, <1>18 DEF new
  <2>7. QED
    BY <2>2, <2>4, <2>5, <2>6
<1>19. QED
  BY <1>16, <1>17, <1>18

LEMMA CommentSpacingFacts ==
  ASSUME NEW trivia \in Seq(Trivia)
  PROVE  /\ CommentSpacing(trivia) \in Seq(Trivia \cup {"gap"})
         /\ Pieces(CommentSpacing(trivia)) = Pieces(trivia)
<1> DEFINE text == {i \in DOMAIN trivia : trivia[i] # "space"}
           first == CHOOSE i \in text : \A j \in text : i <= j
           new == <<"gap">> \o From(trivia, first)
<1>1. trivia \in Seq(Trivia \cup {"gap"}) /\ trivia \in Seq(Marks)
  BY DEF Marks
<1>2. CommentSpacing(trivia) \in {trivia, new} /\ (text = {} => CommentSpacing(trivia) = trivia)
  BY DEF CommentSpacing
<1>3. CASE text = {}
  BY <1>1, <1>2, <1>3
<1>4. CASE text # {}
  <2>1. text \in SUBSET Nat
    OBVIOUS
  <2>2. \E i \in text : \A j \in text : i <= j
    <3> HIDE DEF text
    <3>1. QED
      BY <1>4, <2>1, LeastNatural
  <2>3. first \in text /\ \A j \in text : first <= j
    <3> HIDE DEF text
    <3>1. QED
      BY <2>2
  <2>4. first \in 1 .. Len(trivia)
    BY <2>3
  <2> HIDE DEF first
  <2>5. \A i \in 1 .. first - 1 : ~Piece(trivia[i])
    <3>1. TAKE i \in 1 .. first - 1
    <3>2. i \in DOMAIN trivia /\ ~(first <= i)
      BY <2>4
    <3>3. trivia[i] = "space"
      BY <2>3, <3>2
    <3>4. QED
      BY <3>3 DEF Piece
  <2>6. Pieces(new) = Pieces(trivia)
    BY <1>1, <2>4, <2>5, PiecesSuffix
  <2>7. From(trivia, first) \in Seq(Trivia \cup {"gap"})
    BY <1>1, <2>4 DEF From
  <2>8. new \in Seq(Trivia \cup {"gap"})
    BY <2>7, ConsFacts
  <2> HIDE DEF new
  <2>9. QED
    BY <1>1, <1>2, <2>6, <2>8
<1>5. QED
  BY <1>3, <1>4

-----------------------------------------------------------------------------
(* The items, and what is measured of them.                                *)

Gathers(it) == Declaration(it) \/ Port(it) \/ Assignment(it)
Ports == UNION {{list.ports[j] : j \in DOMAIN list.ports} :
                list \in {it \in Items : PortList(it)}}
Gathered == {it \in Items \cup Ports : Gathers(it)}
HasType(it) == Declaration(it) \/ Port(it)

LEMMA KindsApart ==
  ASSUME NEW type \in Types
  PROVE  /\ type \notin OtherKinds
         /\ type \in OtherTypes <=> type \notin {"LogicType", "NamedType"}
BY ItemAssumption DEF Types, OtherKinds

LEMMA GatheredFacts ==
  ASSUME NEW it \in Gathered
  PROVE  /\ it.kind # "HierarchyInstantiation"
         /\ Assignment(it) <=> it.kind = "ContinuousAssign"
         /\ HasType(it) <=> it.kind # "ContinuousAssign"
         /\ Port(it) <=> IsPort(it)
         /\ Declaration(it) <=> it.kind \in Types
<1>1. it.kind \in Types => it.kind \notin OtherKinds
  BY KindsApart
<1>2. QED
  BY <1>1 DEF Gathered, Gathers, HasType, Declaration, Port, IsPort, Assignment, OtherKinds

LEMMA PaddedFacts ==
  ASSUME NEW ranges \in Seq(Ranges), NEW odd \in Seq(Widths)
  PROVE  /\ Padded(ranges, odd) \in Seq(Ranges)
         /\ Len(Padded(ranges, odd)) = Len(ranges) + Len(odd)
         /\ \A i \in DOMAIN ranges : Padded(ranges, odd)[i] = ranges[i]
<1> DEFINE nulls == [i \in DOMAIN odd |-> <<0, 0>>]
<1>1. <<0, 0>> \in Ranges
  BY RoomFacts DEF Ranges, Widths
<1>2. Len(odd) \in Nat /\ nulls = [i \in 1 .. Len(odd) |-> <<0, 0>>]
  OBVIOUS
<1> DEFINE none == <<0, 0>>
<1> HIDE DEF nulls, none
<1>3. nulls = [i \in 1 .. Len(odd) |-> none]
  BY <1>2 DEF none
<1>4. none \in Ranges
  BY <1>1 DEF none
<1>5. nulls \in Seq(Ranges) /\ Len(nulls) = Len(odd)
  BY <1>2, <1>3, <1>4
<1>6. Padded(ranges, odd) = ranges \o nulls
  BY DEF Padded, nulls
<1>7. QED
  BY <1>5, <1>6

LEMMA ModifiersFacts ==
  ASSUME NEW it, HasType(it)
  PROVE  /\ Modifiers(it) \in Seq(Widths) /\ Len(Modifiers(it)) <= MaxParts + 1
         /\ LET n == Len(it.mods)
            IN  n > 0 /\ ~(IsPort(it) /\ it.net) =>
                  n <= Len(Modifiers(it)) /\ it.mods[n] <= Modifiers(it)[n]
         /\ ~IsPort(it) => Modifiers(it) = it.mods
<1>1. /\ it.mods \in Seq(Widths) /\ Len(it.mods) <= MaxParts /\ Len(it.mods) \in Nat
      /\ MaxParts \in Nat /\ MaxParts >= 2 /\ MaxWidth \in Nat
  BY RoomFacts DEF HasType, Declaration, Port, Declares, AtMost
<1>2. CASE ~IsPort(it) \/ it.net
  <2>1. Modifiers(it) = it.mods
    BY <1>2 DEF Modifiers
  <2>2. \A i \in 1 .. Len(it.mods) : it.mods[i] \in Nat
    BY <1>1 DEF Widths
  <2>3. QED
    BY <1>1, <2>1, <2>2
<1>3. CASE IsPort(it) /\ ~it.net /\ it.mods = <<>>
  <2>1. Modifiers(it) = <<0, 0, 0>>
    BY <1>3 DEF Modifiers
  <2>2. 0 \in Widths
    BY <1>1 DEF Widths
  <2>3. <<0, 0, 0>> \in Seq(Widths) /\ Len(<<0, 0, 0>>) = 3
    BY <2>2
  <2>4. QED
    BY <1>1, <1>3, <2>1, <2>3
<1>4. CASE IsPort(it) /\ ~it.net /\ it.mods # <<>>
  <2> DEFINE n == Len(it.mods)
             pad == [i \in 1 .. (2 - n) |-> 0]
             m == it.mods
  <2>a. Port(it)
    BY <1>4, KindsApart DEF HasType, Declaration, IsPort, OtherKinds
  <2>b. n \in Nat \ {0}
    BY <1>1, <1>4
  <2>d. Len(it.mods) <= 2 /\ (Len(it.mods) = 2 => it.mods[2] <= it.mods[1])
    BY <1>4, <2>a DEF Port
  <2>1. n \in 1 .. 2 /\ (n = 2 => m[2] <= m[1])
    <3>1. \A l \in Nat \ {0} : l <= 2 => l \in 1 .. 2
      OBVIOUS
    <3>2. n \in 1 .. 2
      BY <2>b, <2>d, <3>1
    <3>3. QED
      BY <2>d, <3>2
  <2>2. m[1] \in Widths /\ m[n] \in Widths /\ 0 \in Widths
    BY SMTT(40), <1>1, <2>1 DEF Widths
  <2>3. Modifiers(it) = <<m[1]>> \o m \o pad
    BY <1>4 DEF Modifiers
  <2>4. pad \in Seq(Widths) /\ Len(pad) = 2 - n
    BY <2>1, <2>2
  <2>5. /\ <<m[1]>> \o m \in Seq(Widths) /\ Len(<<m[1]>> \o m) = n + 1
        /\ (<<m[1]>> \o m)[1] = m[1] /\ (<<m[1]>> \o m)[2] = m[1]
    BY <1>1, <2>1, <2>2
  <2> DEFINE head == <<m[1]>> \o m
  <2> HIDE DEF head, pad
  <2>6. /\ head \o pad \in Seq(Widths) /\ Len(head \o pad) = 3
        /\ (head \o pad)[1] = head[1] /\ (head \o pad)[2] = head[2]
    BY <2>1, <2>4, <2>5 DEF head
  <2>c. head[1] = m[1] /\ head[2] = m[1]
    BY <2>5 DEF head
  <2>7. \A i \in 1 .. 2 : (head \o pad)[i] = m[1]
    <3>1. \A i \in 1 .. 2 : i = 1 \/ i = 2
      OBVIOUS
    <3>2. QED
      BY <2>6, <2>c, <3>1
  <2>8. m[n] <= m[1]
    BY <2>1, <2>2 DEF Widths
  <2>9. Modifiers(it) = head \o pad
    BY <2>3 DEF head, pad
  <2>10. /\ Modifiers(it) \in Seq(Widths) /\ Len(Modifiers(it)) <= MaxParts + 1
         /\ n <= Len(Modifiers(it)) /\ m[n] <= Modifiers(it)[n]
    <3>1. n = 1 \/ n = 2
      BY <2>1
    <3> HIDE DEF m, n
    <3>2. (head \o pad)[n] = m[1]
      BY <2>6, <2>c, <3>1
    <3>3. QED
      BY <1>1, <2>6, <2>8, <2>9, <3>1, <3>2
  <2>11. QED
    BY <1>4, <2>10
<1>5. QED
  BY <1>2, <1>3, <1>4

LEMMA DeclaresFacts ==
  ASSUME NEW it, HasType(it)
  PROVE  /\ TypeDims(it) \in Seq(Ranges) /\ Len(TypeDims(it)) <= MaxParts
         /\ TypeLength(it) \in Nat /\ TypeLength(it) <= 2 * MaxWidth + 1
         /\ it.name \in Widths /\ it.others \subseteq Widths
         /\ it.keyword \in Widths /\ it.signing \in Widths
         /\ it.dims \in Seq(Ranges) /\ it.oddDims \in Seq(Widths)
         /\ it.tail \in Nat /\ it.mods \in Seq(Widths)
         /\ it.type \in Types /\ it.trivia \in Seq(Trivia)
<1>1. Declares(it) /\ MaxWidth \in Nat /\ MaxParts \in Nat
  BY RoomFacts DEF HasType, Declaration, Port
<1>2. /\ it.dims \in Seq(Ranges) /\ it.oddDims \in Seq(Widths)
      /\ Len(it.dims) + Len(it.oddDims) <= MaxParts
  BY <1>1 DEF Declares, AtMost, Brackets
<1>3. TypeDims(it) \in Seq(Ranges) /\ Len(TypeDims(it)) <= MaxParts
  <2>1. <<>> \in Seq(Ranges) /\ Len(<<>>) = 0
    OBVIOUS
  <2>2. /\ Padded(it.dims, it.oddDims) \in Seq(Ranges)
        /\ Len(Padded(it.dims, it.oddDims)) <= MaxParts
    BY <1>2, PaddedFacts
  <2>3. QED
    BY <1>1, <2>1, <2>2 DEF TypeDims
<1>4. it.keyword \in Nat /\ it.signing \in Nat /\ it.keyword <= MaxWidth /\ it.signing <= MaxWidth
  BY <1>1 DEF Declares, Widths
<1>5. TypeLength(it) \in {it.keyword + it.signing + 1, it.keyword + 1, 0}
  BY DEF TypeLength
<1>6. TypeLength(it) \in Nat /\ TypeLength(it) <= 2 * MaxWidth + 1
  BY <1>1, <1>4, <1>5
<1>7. QED
  BY <1>1, <1>2, <1>3, <1>6 DEF Declares, AtMost

LEMMA DimsFacts ==
  ASSUME NEW it, HasType(it), it.type \notin OtherTypes
  PROVE  /\ Len(TypeDims(it)) = Len(it.dims) + Len(it.oddDims)
         /\ \A i \in DOMAIN it.dims : TypeDims(it)[i] = it.dims[i]
<1>1. it.dims \in Seq(Ranges) /\ it.oddDims \in Seq(Widths)
  BY DeclaresFacts
<1>2. TypeDims(it) = Padded(it.dims, it.oddDims)
  BY DEF TypeDims
<1>3. QED
  BY <1>1, <1>2, PaddedFacts

LEMMA ArrayFacts ==
  ASSUME NEW it, HasType(it)
  PROVE  /\ it.array \in Seq(Ranges) /\ it.oddArray \in Seq(Widths)
         /\ FirstArray(it) \in Seq(Ranges) /\ Len(FirstArray(it)) <= MaxParts
         /\ Len(FirstArray(it)) = Len(it.array) + Len(it.oddArray)
         /\ \A i \in DOMAIN it.array : FirstArray(it)[i] = it.array[i]
         /\ it.otherArray \in Seq(Ranges) /\ Len(it.otherArray) <= MaxParts
<1>1. Declares(it)
  BY DEF HasType, Declaration, Port
<1>2. /\ it.array \in Seq(Ranges) /\ it.oddArray \in Seq(Widths)
      /\ Len(it.array) + Len(it.oddArray) <= MaxParts
      /\ it.otherArray \in Seq(Ranges) /\ Len(it.otherArray) <= MaxParts
  BY <1>1 DEF Declares, AtMost, Brackets
<1>3. QED
  BY <1>2, PaddedFacts DEF FirstArray

-----------------------------------------------------------------------------
(* The visitor between two handlers.                                       *)

Instances == {it \in Items : Instance(it)}
Entries == [at : Nat \X Nat, it : Gathered]
Outs == [at : Nat \X Nat, it : Gathered \cup Instances, block : Nat, lead : Seq(Marks),
         name : Int, gap : Int, end : Int, fails : BOOLEAN]
KindNames ==
  Types \cup {"Unknown", "ContinuousAssign", "HierarchyInstantiation", "ImplicitAnsiPort"}
Visitors ==
  [mods : Seq(Widths), dims : Seq(Ranges), array : Seq(Ranges), type : Nat, var : Widths,
   param : Nat, paramValue : Nat, port : Nat, portValue : Nat, kind : KindNames,
   queue : Seq(Entries), out : Seq(Outs), block : Nat]

(* What was measured is bounded, and is what the pending items need.       *)
Sized(s) ==
  /\ Len(s.mods) <= MaxParts + 1 /\ Len(s.dims) <= MaxParts /\ Len(s.array) <= MaxParts
  /\ s.type <= 2 * MaxWidth + 1
  /\ Fits(s)

LEMMA PendingFacts ==
  ASSUME NEW s \in Visitors
  PROVE  /\ Pending(s) \subseteq Gathered
         /\ \A it \in Declarations(s) : HasType(it)
         /\ \A it \in Assigns(s) : Assignment(it)
<1>1. s.queue \in Seq(Entries)
  BY DEF Visitors
<1>2. Pending(s) \subseteq Gathered
  <2>1. \A i \in DOMAIN s.queue : s.queue[i] \in Entries
    BY <1>1
  <2>2. \A i \in DOMAIN s.queue : s.queue[i].it \in Gathered
    BY <2>1 DEF Entries
  <2>3. QED
    BY <2>2 DEF Pending
<1>3. QED
  BY <1>2, GatheredFacts DEF Declarations, Assigns

ArraysOf(D) == UNION {{FirstArray(it), it.otherArray} : it \in D}

LEMMA DeclarationSets ==
  ASSUME NEW D, \A it \in D : HasType(it)
  PROVE  /\ {Modifiers(it) : it \in D} \in SUBSET Seq(Widths)
         /\ Short({Modifiers(it) : it \in D})
         /\ {TypeDims(it) : it \in D} \in SUBSET Seq(Ranges)
         /\ Short({TypeDims(it) : it \in D})
         /\ ArraysOf(D) \in SUBSET Seq(Ranges) /\ Short(ArraysOf(D))
         /\ Bounded({TypeLength(it) : it \in D})
         /\ Bounded(UNION {{it.name} \cup it.others : it \in D})
<1>1. MaxWidth \in Nat /\ MaxParts \in Nat /\ MaxParts + 1 \in Nat /\ 2 * MaxWidth + 1 \in Nat
  BY RoomFacts
<1>2. /\ {Modifiers(it) : it \in D} \in SUBSET Seq(Widths)
      /\ \A m \in {Modifiers(it) : it \in D} : Len(m) <= MaxParts + 1
  BY ModifiersFacts
<1>3. /\ {TypeDims(it) : it \in D} \in SUBSET Seq(Ranges)
      /\ \A d \in {TypeDims(it) : it \in D} : Len(d) <= MaxParts
  BY DeclaresFacts
<1>4. /\ ArraysOf(D) \in SUBSET Seq(Ranges)
      /\ \A d \in ArraysOf(D) : Len(d) <= MaxParts
  <2>1. \A it \in D : \A a \in {FirstArray(it), it.otherArray} :
          a \in Seq(Ranges) /\ Len(a) <= MaxParts
    BY ArrayFacts
  <2>2. QED
    BY <2>1 DEF ArraysOf
<1>5. /\ {TypeLength(it) : it \in D} \subseteq Nat
      /\ \A n \in {TypeLength(it) : it \in D} : n <= 2 * MaxWidth + 1
  BY DeclaresFacts
<1>6. UNION {{it.name} \cup it.others : it \in D} \subseteq Widths
  BY DeclaresFacts
<1>7. Short({Modifiers(it) : it \in D})
  BY <1>1, <1>2 DEF Short
<1>8. Short({TypeDims(it) : it \in D})
  BY <1>1, <1>3 DEF Short
<1>9. Short(ArraysOf(D))
  BY <1>1, <1>4 DEF Short
<1>10. Bounded({TypeLength(it) : it \in D})
  BY <1>1, <1>5 DEF Bounded
<1>11. Bounded(UNION {{it.name} \cup it.others : it \in D})
  <2> DEFINE names == UNION {{it.name} \cup it.others : it \in D}
  <2> HIDE DEF names
  <2>1. names \subseteq Widths
    BY <1>6 DEF names
  <2>2. Bounded(names)
    <3>1. names \subseteq Nat /\ \A n \in names : n <= MaxWidth
      BY <1>1, <2>1 DEF Widths
    <3>2. QED
      BY <1>1, <3>1 DEF Bounded
  <2>3. QED
    BY <2>2 DEF names
<1>12. QED
  BY <1>2, <1>3, <1>4, <1>7, <1>8, <1>9, <1>10, <1>11

LEMMA AssignSets ==
  ASSUME NEW A, \A it \in A : Assignment(it)
  PROVE  Bounded(UNION {ToSet(it.lefts) : it \in A})
<1>1. MaxWidth \in Nat
  BY RoomFacts
<1> DEFINE lefts == UNION {ToSet(it.lefts) : it \in A}
<1>2. lefts \subseteq Widths
  BY DEF Assignment, ToSet
<1> HIDE DEF lefts
<1>3. Bounded(lefts)
  BY <1>1, <1>2 DEF Bounded, Widths
<1>4. QED
  BY <1>3 DEF lefts

(* A block has room for each of its declarations.                          *)
LEMMA RoomForDeclaration ==
  ASSUME NEW s \in Visitors, Sized(s), NEW it \in Declarations(s)
  PROVE  /\ HasType(it)
         /\ Len(Modifiers(it)) <= Len(s.mods)
         /\ \A i \in DOMAIN Modifiers(it) : Modifiers(it)[i] <= s.mods[i]
         /\ TypeLength(it) <= s.type /\ it.name <= s.var
         /\ Fitting(TypeDims(it), s.dims) /\ Fitting(FirstArray(it), s.array)
         /\ ArrayLength(it) <= Len(s.array)
         /\ \E d \in Declarations(s) : ArrayLength(d) = Len(s.array)
<1> DEFINE D == Declarations(s)
           names == UNION {{d.name} \cup d.others : d \in D}
           lefts == UNION {ToSet(d.lefts) : d \in Assigns(s)}
<1>1. (\A d \in D : HasType(d)) /\ (\A d \in Assigns(s) : Assignment(d))
  BY PendingFacts
<1>2. /\ Covers(s.mods, {Modifiers(d) : d \in D})
      /\ s.type = MaxIn({TypeLength(d) : d \in D}) /\ s.var = MaxIn(names \cup lefts)
      /\ CoversPairs(s.dims, {TypeDims(d) : d \in D})
      /\ CoversPairs(s.array, ArraysOf(D))
  BY DEF Sized, Fits, ArraysOf
<1>3. s.mods \in Seq(Widths) /\ s.dims \in Seq(Ranges) /\ s.array \in Seq(Ranges)
  BY DEF Visitors
<1> HIDE DEF D
<1>4. /\ {Modifiers(d) : d \in D} \in SUBSET Seq(Widths) /\ Short({Modifiers(d) : d \in D})
      /\ {TypeDims(d) : d \in D} \in SUBSET Seq(Ranges) /\ Short({TypeDims(d) : d \in D})
      /\ ArraysOf(D) \in SUBSET Seq(Ranges) /\ Short(ArraysOf(D))
      /\ Bounded({TypeLength(d) : d \in D}) /\ Bounded(names)
  BY <1>1, DeclarationSets
<1>5. it \in D
  BY DEF D
<1>6. /\ Len(Modifiers(it)) <= Len(s.mods)
      /\ \A i \in DOMAIN Modifiers(it) : Modifiers(it)[i] <= s.mods[i]
  <2>1. Modifiers(it) \in {Modifiers(d) : d \in D}
    BY <1>5
  <2>2. QED
    BY <1>2, <1>3, <1>4, <2>1, RoomForWidths
<1>7. TypeLength(it) <= s.type
  <2>1. TypeLength(it) \in {TypeLength(d) : d \in D}
    BY <1>5
  <2>2. QED
    BY <1>2, <1>4, <2>1, MaxFacts
<1>8. it.name <= s.var
  <2>1. Bounded(lefts)
    BY <1>1, AssignSets
  <2>2. it.name \in names
    BY <1>5
  <2> HIDE DEF names, lefts
  <2>3. Bounded(names \cup lefts) /\ it.name \in names \cup lefts
    BY <1>4, <2>1, <2>2, BoundedUnion
  <2>4. QED
    BY <1>2, <2>3, MaxFacts
<1>9. Fitting(TypeDims(it), s.dims)
  <2>1. TypeDims(it) \in {TypeDims(d) : d \in D}
    BY <1>5
  <2>2. QED
    BY <1>2, <1>3, <1>4, <2>1, RoomForRanges DEF Fitting
<1>10. /\ Fitting(FirstArray(it), s.array)
       /\ \A d \in D : ArrayLength(d) <= Len(s.array)
       /\ \E d \in D : ArrayLength(d) = Len(s.array)
  <2>1. \A a \in ArraysOf(D) :
          /\ Len(a) <= Len(s.array)
          /\ \A i \in DOMAIN a : \A k \in 1 .. 2 : a[i][k] <= s.array[i][k]
          /\ \E b \in ArraysOf(D) : Len(b) = Len(s.array)
    BY <1>2, <1>3, <1>4, RoomForRanges
  <2>2. FirstArray(it) \in ArraysOf(D)
    BY <1>5 DEF ArraysOf
  <2>3. ASSUME NEW d \in D
        PROVE  /\ ArrayLength(d) = Larger(Len(FirstArray(d)), Len(d.otherArray))
               /\ ArrayLength(d) <= Len(s.array)
               /\ Len(FirstArray(d)) <= ArrayLength(d) /\ Len(d.otherArray) <= ArrayLength(d)
    <3>1. FirstArray(d) \in ArraysOf(D) /\ d.otherArray \in ArraysOf(D)
      BY DEF ArraysOf
    <3>2. /\ Len(FirstArray(d)) = Len(d.array) + Len(d.oddArray)
          /\ Len(FirstArray(d)) \in Nat /\ Len(d.otherArray) \in Nat
      <4>1. HasType(d)
        BY <1>1
      <4>2. /\ Len(FirstArray(d)) = Len(d.array) + Len(d.oddArray)
            /\ FirstArray(d) \in Seq(Ranges) /\ d.otherArray \in Seq(Ranges)
        BY <4>1, ArrayFacts
      <4>3. \A seq \in Seq(Ranges) : Len(seq) \in Nat
        OBVIOUS
      <4>4. QED
        BY Zenon, <4>2, <4>3
    <3>3. Len(FirstArray(d)) <= Len(s.array) /\ Len(d.otherArray) <= Len(s.array)
      BY <2>1, <3>1
    <3>4. ArrayLength(d) = Larger(Len(FirstArray(d)), Len(d.otherArray))
      BY <3>2 DEF ArrayLength
    <3>5. Len(s.array) \in Nat
      BY <1>3
    <3>6. \A a, b, n \in Nat : a <= n /\ b <= n =>
            Larger(a, b) <= n /\ a <= Larger(a, b) /\ b <= Larger(a, b)
      BY DEF Larger
    <3>7. QED
      BY <3>2, <3>3, <3>4, <3>5, <3>6
  <2>4. PICK b \in ArraysOf(D) : Len(b) = Len(s.array)
    BY <2>1, <2>2
  <2>5. PICK d \in D : b = FirstArray(d) \/ b = d.otherArray
    BY <2>4 DEF ArraysOf
  <2>6. ArrayLength(d) = Len(s.array)
    <3>1. Len(s.array) <= ArrayLength(d) /\ ArrayLength(d) <= Len(s.array)
      BY <2>3, <2>4, <2>5
    <3>2. Len(s.array) \in Nat /\ ArrayLength(d) \in Nat
      <4>1. Len(FirstArray(d)) \in Nat /\ Len(d.otherArray) \in Nat
        BY <1>1, ArrayFacts
      <4>2. QED
        BY <1>3, <2>3, <4>1 DEF Larger
    <3>3. QED
      BY <3>1, <3>2
  <2>7. QED
    BY <2>1, <2>2, <2>3, <2>6 DEF Fitting
<1>11. QED
  BY <1>1, <1>5, <1>6, <1>7, <1>8, <1>9, <1>10 DEF D

-----------------------------------------------------------------------------
(* The columns of what is written.                                         *)

NetPort(it) == IsPort(it) /\ it.net
Start(s, it) ==
  IF IsPort(it) THEN SumOf(SubSeq(s.mods, 1, Len(it.mods))) + Len(it.mods)
  ELSE SumOf(s.mods) + Len(s.mods)

LEMMA WidthSums ==
  ASSUME NEW sizes \in Seq(Widths)
  PROVE  /\ SumOf(sizes) \in Nat /\ SumOf(sizes) <= Len(sizes) * MaxWidth
         /\ \A i \in 1 .. Len(sizes) : sizes[i] \in Nat /\ sizes[i] <= MaxWidth
<1>1. MaxWidth \in Nat
  BY RoomFacts
<1>2. \A i \in 1 .. Len(sizes) : sizes[i] \in Nat /\ sizes[i] <= MaxWidth
  BY <1>1 DEF Widths
<1>3. sizes \in Seq(Nat)
  BY <1>2
<1>4. QED
  BY <1>1, <1>2, <1>3, SumBound

LEMMA FromFacts ==
  ASSUME NEW S, NEW seq \in Seq(S), NEW n \in 0 .. Len(seq)
  PROVE  From(seq, n + 1) \in Seq(S) /\ Len(From(seq, n + 1)) = Len(seq) - n
<1>1. Len(seq) \in Nat /\ n \in Nat /\ n <= Len(seq)
  OBVIOUS
<1>2. QED
  BY <1>1 DEF From

LEMMA Areas ==
  ASSUME NEW w \in Nat, NEW p \in Nat, NEW l \in Nat, l <= p + 1
  PROVE  /\ l * (w + 1) \in Nat /\ l * (w + 1) <= (w + 1) * (p + 1)
         /\ (l <= p) => l * (w + 1) + (w + 1) <= (w + 1) * (p + 1)
<1>1. PICK q \in Nat : p + 1 = l + q
  <2>1. p + 1 - l \in Nat /\ p + 1 = l + (p + 1 - l)
    OBVIOUS
  <2>2. QED
    BY <2>1
<1>2. (w + 1) * (p + 1) = l * (w + 1) + q * (w + 1)
  BY <1>1
<1>3. l * (w + 1) \in Nat /\ q * (w + 1) \in Nat
  BY <1>1
<1>4. l <= p => q * (w + 1) >= w + 1
  <2> SUFFICES ASSUME l <= p PROVE q * (w + 1) >= w + 1
    OBVIOUS
  <2>1. PICK r \in Nat : q = r + 1
    <3>1. q - 1 \in Nat /\ q = (q - 1) + 1
      BY <1>1
    <3>2. QED
      BY <3>1
  <2>2. q * (w + 1) = r * (w + 1) + (w + 1) /\ r * (w + 1) \in Nat
    BY <2>1
  <2>3. QED
    BY <2>2
<1> DEFINE a == l * (w + 1)
           b == q * (w + 1)
           c == (w + 1) * (p + 1)
<1> HIDE DEF a, b, c
<1>5. a \in Nat /\ b \in Nat /\ c = a + b /\ (l <= p => b >= w + 1)
  BY <1>2, <1>3, <1>4 DEF a, b, c
<1>6. a \in Nat /\ a <= c /\ (l <= p => a + (w + 1) <= c)
  BY <1>5
<1>7. QED
  BY <1>6 DEF a, c

(* Where the type of a declaration begins.                                 *)
LEMMA ModifierColumns ==
  ASSUME NEW s \in Visitors, Sized(s), NEW it \in Declarations(s), ~NetPort(it)
  PROVE  LET mods == AfterModifiers(s, it)
         IN  /\ mods.next \in Nat /\ mods.next <= Room /\ mods.end \in Nat
             /\ mods.end + mods.next = Start(s, it)
<1> DEFINE n == Len(it.mods)
           L == Len(s.mods)
           m == s.mods
           left == From(m, n + 1)
           head == SumOf(SubSeq(m, 1, n - 1))
           mods == AfterModifiers(s, it)
           rest == IF IsPort(it) THEN 0 ELSE SumOf(left) + Len(left)
<1>1. /\ MaxWidth \in Nat /\ MaxParts \in Nat /\ Room \in Nat
      /\ (MaxWidth + 1) * (MaxParts + 1) <= Room
      /\ m \in Seq(Widths) /\ m \in Seq(Nat) /\ L \in Nat /\ L <= MaxParts + 1
  <2>1. m \in Seq(Widths)
    BY DEF Visitors
  <2>2. m \in Seq(Nat)
    BY <2>1, RoomFacts DEF Widths
  <2>3. QED
    BY <2>1, <2>2, RoomFacts DEF Sized
<1>2. /\ HasType(it) /\ Len(Modifiers(it)) <= L
      /\ \A i \in DOMAIN Modifiers(it) : Modifiers(it)[i] <= m[i]
  BY RoomForDeclaration
<1>3. it.mods \in Seq(Widths) /\ n \in Nat /\ \A i \in 1 .. n : it.mods[i] \in Nat
  BY SMTT(40), <1>1, <1>2, DeclaresFacts DEF Widths
<1>4. n > 0 => n <= L /\ it.mods[n] <= m[n] /\ m[n] \in Nat /\ m[n] <= MaxWidth
  <2> SUFFICES ASSUME n > 0
               PROVE  n <= L /\ it.mods[n] <= m[n] /\ m[n] \in Nat /\ m[n] <= MaxWidth
    OBVIOUS
  <2>1. /\ n <= Len(Modifiers(it)) /\ it.mods[n] <= Modifiers(it)[n]
        /\ Modifiers(it) \in Seq(Widths)
    BY <1>2, ModifiersFacts DEF NetPort
  <2>2. n \in DOMAIN Modifiers(it) /\ Modifiers(it)[n] \in Nat
    BY <1>1, <1>3, <2>1 DEF Widths
  <2>3. n \in 1 .. L
    BY <1>1, <1>2, <1>3, <2>1, <2>2
  <2>4. m[n] \in Nat /\ m[n] <= MaxWidth
    BY <1>1, <2>3, WidthSums
  <2>5. it.mods[n] \in Nat /\ Modifiers(it)[n] <= m[n]
    BY <1>2, <1>3, <2>2
  <2> HIDE DEF m, n, L
  <2>6. QED
    BY <2>1, <2>2, <2>3, <2>4, <2>5
<1>5. n \in 0 .. L
  BY <1>1, <1>3, <1>4
<1>6. PICK f : Sums(m, f) /\ SumOf(m) = f[L]
  BY <1>1, SumFacts
<1>7. /\ \A i \in 0 .. L : f[i] \in Nat
      /\ f[0] = 0 /\ (n > 0 => f[n] = f[n - 1] + m[n] /\ f[n - 1] \in Nat)
  <2>1. \A i \in 0 .. L : f[i] \in Nat
    BY <1>1, <1>6 DEF Sums
  <2>2. n > 0 => n \in 1 .. L /\ n - 1 \in 0 .. L
    BY <1>1, <1>5
  <2>3. QED
    BY <1>1, <1>6, <2>1, <2>2 DEF Sums
<1>8. \A i \in 0 .. L : \A j \in i .. L : SumOf(SubSeq(m, i + 1, j)) = f[j] - f[i]
  BY <1>1, <1>6, PartSum
<1>9. SumOf(left) = f[L] - f[n] /\ Len(left) = L - n /\ left \in Seq(Widths)
  <2>1. SumOf(left) = f[L] - f[n]
    BY <1>1, <1>5, <1>8 DEF From
  <2>2. Len(left) = L - n /\ left \in Seq(Widths)
    BY <1>1, <1>5, FromFacts
  <2>3. QED
    BY <2>1, <2>2
<1>10. SumOf(SubSeq(m, 1, n)) = f[n]
  <2>1. 0 \in 0 .. L /\ n \in 0 .. L /\ 0 + 1 = 1
    BY <1>1, <1>5
  <2>2. SumOf(SubSeq(m, 0 + 1, n)) = f[n] - f[0]
    BY <1>8, <2>1
  <2>3. f[n] \in Nat
    BY <1>7, <2>1
  <2>4. QED
    BY <1>7, <2>1, <2>2, <2>3
<1>11. n > 0 => head = f[n - 1]
  <2> SUFFICES ASSUME n > 0 PROVE head = f[n - 1]
    OBVIOUS
  <2>1. 0 \in 0 .. L /\ n - 1 \in 0 .. L /\ 0 + 1 = 1
    BY <1>1, <1>5
  <2>2. SumOf(SubSeq(m, 0 + 1, n - 1)) = f[n - 1] - f[0]
    BY <1>8, <2>1
  <2>3. QED
    BY <1>7, <2>1, <2>2
<1>12. SumOf(left) \in Nat /\ SumOf(left) <= (L - n) * MaxWidth
  BY <1>9, WidthSums
<1>13. rest \in Nat /\ rest <= (L - n) * (MaxWidth + 1)
  <2> DEFINE l == L - n
             sum == SumOf(left)
  <2>a. l \in Nat
    <3> HIDE DEF n, L
    <3>1. QED
      BY <1>1, <1>5
  <2>1. l \in Nat /\ sum \in Nat /\ sum <= l * MaxWidth /\ Len(left) = l
    BY <1>9, <1>12, <2>a
  <2> HIDE DEF l, sum
  <2>2. l * (MaxWidth + 1) = l * MaxWidth + l /\ l * MaxWidth \in Nat
    BY <1>1, <2>1
  <2>3. rest \in {0, sum + l}
    BY <2>1 DEF sum
  <2> HIDE DEF rest
  <2>4. rest \in Nat /\ rest <= l * (MaxWidth + 1)
    BY <2>1, <2>2, <2>3
  <2>5. QED
    BY <2>4 DEF l
<1>14. mods = [end |-> IF n = 0 THEN 0 ELSE head + n - 1 + it.mods[n],
               next |-> (IF n = 0 THEN 0 ELSE m[n] + 1 - it.mods[n]) + rest]
  BY DEF AfterModifiers
<1>15. Start(s, it) = IF IsPort(it) THEN f[n] + n ELSE f[L] + L
  BY <1>6, <1>10 DEF Start
<1>16. f[n] \in Nat /\ f[L] \in Nat /\ IsPort(it) \in BOOLEAN
  BY <1>1, <1>5, <1>7 DEF IsPort
<1>17. rest = IF IsPort(it) THEN 0 ELSE (f[L] - f[n]) + (L - n)
  BY <1>9
<1> DEFINE g == it.mods[n]
           w == m[n]
<1>18. n > 0 => g \in Nat /\ g <= w /\ w \in Nat /\ w <= MaxWidth
  BY <1>3, <1>4
<1> DEFINE l == L - n
           area == l * (MaxWidth + 1)
<1>19. l \in Nat /\ l <= MaxParts + 1 /\ (n = 0 \/ l <= MaxParts)
  <2> HIDE DEF L, n
  <2>1. QED
    BY <1>1, <1>5
<1> HIDE DEF l
<1>20. area <= (MaxWidth + 1) * (MaxParts + 1) /\ area \in Nat
  BY <1>1, <1>19, Areas
<1>21. n = 0 \/ area + (MaxWidth + 1) <= (MaxWidth + 1) * (MaxParts + 1)
  BY <1>1, <1>19, Areas
<1>28. (MaxWidth + 1) * (MaxParts + 1) \in Nat
  BY <1>1
<1> DEFINE whole == (MaxWidth + 1) * (MaxParts + 1)
<1> HIDE DEF head, mods, rest, left, g, w, L, n, m, area, whole
<1>22. mods = [end |-> IF n = 0 THEN 0 ELSE head + n - 1 + g,
               next |-> (IF n = 0 THEN 0 ELSE w + 1 - g) + rest]
  BY <1>14 DEF g, w
<1>23. rest \in Nat /\ rest <= area /\ area <= Room /\ (n = 0 \/ area + (MaxWidth + 1) <= Room)
  <2>1. rest \in Nat /\ rest <= area
    BY <1>13 DEF area, l
  <2>2. area \in Nat /\ whole \in Nat /\ whole <= Room /\ area <= whole
    BY <1>1, <1>20, <1>28 DEF whole
  <2>3. n = 0 \/ area + (MaxWidth + 1) <= whole
    BY <1>21 DEF whole
  <2>4. QED
    BY <1>1, <2>1, <2>2, <2>3
<1>24. n > 0 => f[n] = f[n - 1] + w /\ head = f[n - 1] /\ f[n - 1] \in Nat
  BY <1>7, <1>11 DEF w
<1>25. CASE n = 0
  <2>1. mods.end = 0 /\ mods.next = rest
    BY <1>22, <1>23, <1>25
  <2>2. mods.next \in Nat /\ mods.next <= Room /\ mods.end \in Nat
    BY <1>1, <1>20, <1>23, <2>1
  <2>3. mods.end + mods.next = Start(s, it)
    <3>1. rest = IF IsPort(it) THEN 0 ELSE f[L] + L
      BY <1>1, <1>7, <1>16, <1>17, <1>25
    <3>2. Start(s, it) = IF IsPort(it) THEN 0 ELSE f[L] + L
      BY <1>7, <1>15, <1>25
    <3>3. QED
      BY <1>23, <2>1, <3>1, <3>2
  <2>4. QED
    BY <2>2, <2>3 DEF mods
<1>26. CASE n # 0
  <2>1. n > 0
    BY <1>3, <1>26
  <2>2. mods.end = f[n - 1] + n - 1 + g /\ mods.next = w + 1 - g + rest
    BY <1>22, <1>24, <1>26, <2>1
  <2>a. area + (MaxWidth + 1) <= Room /\ area \in Nat
    BY <1>20, <1>23, <1>26
  <2>b. f[n - 1] + n - 1 + g \in Nat
    BY <1>3, <1>18, <1>24, <2>1
  <2>c. w + 1 - g + rest \in Nat /\ w + 1 - g + rest <= Room
    BY <1>1, <1>18, <1>23, <2>1, <2>a
  <2>3. mods.end \in Nat /\ mods.next \in Nat /\ mods.next <= Room
    BY <2>2, <2>b, <2>c
  <2>4. mods.end + mods.next = f[n] + n + rest
    BY <1>3, <1>16, <1>18, <1>23, <1>24, <2>1, <2>2
  <2>5. f[n] + n + rest = Start(s, it)
    BY <1>1, <1>3, <1>15, <1>16, <1>17
  <2>6. QED
    BY <2>3, <2>4, <2>5 DEF mods
<1>27. QED
  BY <1>25, <1>26

LEMMA MinusOne ==
  Unsigned(-1) = Modulus - 1 /\ Unsigned(Modulus) = 0
<1>1. Modulus \in Nat /\ Modulus > 0
  BY RoomFacts
<1>2. (-1) % Modulus = Modulus - 1 /\ Modulus % Modulus = 0
  BY <1>1
<1>3. QED
  BY <1>2 DEF Unsigned

(* The only type that asks for less than no space.                         *)
Signed(it) == it.type = "LogicType" /\ it.signing > 0 /\ NoBracket(it.dims, it.oddDims)
(* An empty bracket of a type the formatter knows.                         *)
Open(it) == it.type \notin OtherTypes /\ Empty(it.oddDims)

LEMMA FirstFits ==
  ASSUME NEW dims \in Seq(Ranges), NEW all \in Seq(Ranges), NEW sizes \in Seq(Ranges),
         Fitting(all, sizes), Len(dims) <= Len(all),
         \A i \in DOMAIN dims : all[i] = dims[i]
  PROVE  Fitting(dims, sizes)
<1>1. Len(dims) \in Nat /\ Len(all) \in Nat /\ Len(sizes) \in Nat
  OBVIOUS
<1>2. DOMAIN dims \subseteq DOMAIN all
  BY <1>1
<1>3. QED
  BY <1>1, <1>2 DEF Fitting

(* From the type of an unsigned logic declaration to its name.             *)
After(s) ==
  LET first == s.type - 5
  IN  IF s.dims = <<>> THEN 5 + (IF first = 1 THEN 1 ELSE first - 1)
      ELSE 5 + first + Total(s.dims) + 1

LEMMA TypeColumns ==
  ASSUME NEW s \in Visitors, Sized(s), NEW it \in Declarations(s), ~NetPort(it)
  PROVE  LET type == TypeFormat(s, it, AfterModifiers(s, it))
         IN  /\ type.gap \in Int /\ type.end \in Int
             /\ type.fails \in BOOLEAN /\ (type.fails => Open(it))
             /\ type.gap < 0 => Signed(it)
             /\ it.type = "LogicType" /\ it.signing = 0 /\ it.oddDims = <<>> =>
                  type.end + type.gap = Start(s, it) + After(s)
<1> DEFINE mods == AfterModifiers(s, it)
           type == TypeFormat(s, it, mods)
           n == Len(s.dims)
           T == Total(s.dims)
           odds == SumOf(it.oddDims)
           none == NoBracket(it.dims, it.oddDims)
           more == IF s.dims # <<>> /\ none THEN 1 ELSE 0
<1>1. /\ HasType(it) /\ TypeLength(it) <= s.type /\ Fitting(TypeDims(it), s.dims)
  BY RoomForDeclaration
<1>2. /\ mods.next \in Nat /\ mods.next <= Room /\ mods.end \in Nat
      /\ mods.end + mods.next = Start(s, it)
  BY ModifierColumns
<1>3. /\ it.keyword \in Nat /\ it.signing \in Nat /\ it.keyword <= MaxWidth
      /\ it.dims \in Seq(Ranges) /\ it.oddDims \in Seq(Widths) /\ it.type \in Types
      /\ (it.type = "LogicType" => it.keyword = 5)
  <2>1. it.type = "LogicType" => it.keyword = 5
    BY <1>1 DEF HasType, Declaration, Port, Declares
  <2>2. QED
    BY <1>1, <2>1, DeclaresFacts, RoomFacts DEF Widths
<1>4. /\ s.dims \in Seq(Ranges) /\ n \in Nat /\ n <= MaxParts /\ (s.dims = <<>> <=> n = 0)
      /\ s.type \in Nat /\ s.type <= 2 * MaxWidth + 1
  BY DEF Visitors, Sized
<1>5. T \in Nat /\ T + 8 <= 2 * Room /\ Room \in Nat /\ MaxWidth \in Nat /\ 2 * MaxWidth + 1 <= Room
  BY <1>4, TotalFacts, RoomFacts
<1>a. odds \in Nat
  BY <1>3, WidthSums
<1>b. it.type \notin OtherTypes => Fitting(it.dims, s.dims)
  <2> SUFFICES ASSUME it.type \notin OtherTypes PROVE Fitting(it.dims, s.dims)
    OBVIOUS
  <2>1. /\ Len(TypeDims(it)) = Len(it.dims) + Len(it.oddDims)
        /\ \A i \in DOMAIN it.dims : TypeDims(it)[i] = it.dims[i]
        /\ TypeDims(it) \in Seq(Ranges)
    BY <1>1, DimsFacts, DeclaresFacts
  <2>2. Len(it.dims) \in Nat /\ Len(it.oddDims) \in Nat
    BY <1>3
  <2>3. Len(it.dims) <= Len(TypeDims(it))
    <3>1. \A a, b \in Nat : a <= a + b
      OBVIOUS
    <3>2. QED
      BY Zenon, <2>1, <2>2, <3>1
  <2>4. QED
    BY <1>1, <1>3, <1>4, <2>1, <2>3, FirstFits
<1> HIDE DEF mods, T, n, odds
<1>6. CASE it.type \in OtherTypes
  <2>1. type = [end |-> mods.end + it.keyword + SumPairs(it.dims) + odds,
                gap |-> 0, fails |-> FALSE]
    BY <1>6 DEF TypeFormat, odds
  <2>2. SumPairs(it.dims) \in Nat /\ it.type # "LogicType"
    BY <1>3, <1>6, PairSums, KindsApart
  <2>3. mods.end + it.keyword + SumPairs(it.dims) + odds \in Int
    BY <1>2, <1>3, <1>a, <2>2
  <2>4. QED
    BY <2>1, <2>2, <2>3 DEF mods
<1>7. CASE it.type = "LogicType"
  <2> DEFINE signing == IF it.signing = 0 THEN 0 ELSE 1 + it.signing
             first == s.type - it.keyword - signing
             dims == Align(it.dims, it.oddDims, s.dims, first)
             left == dims.rest
             column == mods.end + mods.next
             spaces == (IF left = 0 THEN 1 ELSE left) + more
  <2>a. it.type \notin OtherTypes
    BY <1>3, <1>7, KindsApart
  <2>1. type = [end |-> column + it.keyword + signing + dims.width,
                gap |-> AsInt(spaces), fails |-> dims.fails]
    BY <1>7, <2>a DEF TypeFormat
  <2>2. /\ TypeLength(it) = 6 + it.signing /\ it.keyword = 5
        /\ Fitting(it.dims, s.dims)
    BY <1>3, <1>7, <1>b, <2>a DEF TypeLength
  <2>3. /\ first \in Nat /\ first <= Room /\ (it.signing = 0 => first = s.type - 5 /\ first >= 1)
        /\ signing \in Nat
    <3>1. /\ signing \in Nat /\ signing <= 1 + it.signing
          /\ (it.signing = 0 => signing = 0)
      BY <1>3
    <3>2. 6 + it.signing <= s.type
      BY <1>1, <2>2
    <3>3. first = s.type - 5 - signing
      BY <2>2
    <3>4. it.signing \in Nat /\ s.type \in Nat /\ Room \in Nat /\ s.type <= Room
      BY <1>3, <1>4, <1>5
    <3> HIDE DEF first, signing
    <3>5. QED
      BY <3>1, <3>2, <3>3, <3>4
  <2> HIDE DEF first, signing
  <2>4. /\ dims.fails = Empty(it.oddDims) /\ dims.width \in Nat /\ dims.rest \in Nat
        /\ none => /\ dims.width = 0
                   /\ dims.rest = Unsigned(first - 1 + (IF s.dims = <<>> THEN 0 ELSE 1 + T))
        /\ ~none => /\ dims.width + dims.rest = Larger(first, 1) + T + odds
                                                + (IF Len(it.dims) < n THEN 1 ELSE 0)
                    /\ dims.rest <= 1 + T
                    /\ ((dims.rest > 0) <=> (Len(it.dims) < n))
    BY SMTT(40), <1>1, <1>3, <1>4, <2>2, <2>3, AlignFacts DEF T, n, odds
  <2> HIDE DEF dims
  <2>5. none /\ (s.dims # <<>> \/ it.signing = 0) =>
          dims.rest = first - 1 + (IF s.dims = <<>> THEN 0 ELSE 1 + T)
    <3> SUFFICES ASSUME none, s.dims # <<>> \/ it.signing = 0
                 PROVE  dims.rest = first - 1 + (IF s.dims = <<>> THEN 0 ELSE 1 + T)
      OBVIOUS
    <3> DEFINE room == first - 1 + (IF s.dims = <<>> THEN 0 ELSE 1 + T)
    <3>1. room \in Int /\ 0 <= room /\ room < 4 * Room
      BY <1>5, <2>3
    <3> HIDE DEF room
    <3>2. Unsigned(room) = room
      BY <3>1, UnsignedFacts
    <3>3. QED
      BY <2>4, <3>2 DEF room
  <2>6. spaces \in Nat /\ (~Signed(it) => spaces < 4 * Room)
    <3>1. spaces \in Nat
      BY <2>4
    <3>2. ASSUME ~Signed(it) PROVE left <= first + 1 + T
      <4>1. CASE none
        BY <1>3, <1>5, <1>7, <2>3, <2>5, <3>2, <4>1 DEF Signed
      <4>2. CASE ~none
        BY <1>5, <2>3, <2>4, <4>2
      <4>3. QED
        BY <4>1, <4>2
    <3>3. ASSUME ~Signed(it) PROVE spaces < 4 * Room
      <4>1. left <= first + 1 + T /\ left \in Nat /\ more \in 0 .. 1
        BY <2>4, <3>2, <3>3
      <4> HIDE DEF left, more
      <4>2. QED
        BY <1>5, <2>3, <4>1
    <3>4. QED
      BY <3>1, <3>3
  <2>7. AsInt(spaces) \in Int /\ (~Signed(it) => AsInt(spaces) = spaces)
    <3> HIDE DEF spaces
    <3>1. QED
      BY <2>6, UnsignedFacts, UnsignedType
  <2>8. /\ type.gap \in Int /\ type.end \in Int /\ (type.gap < 0 => Signed(it))
        /\ type.fails \in BOOLEAN /\ (type.fails => Open(it))
    <3>a. dims.fails \in BOOLEAN /\ (dims.fails => Open(it))
      <4>1. dims.fails = Empty(it.oddDims)
        BY <2>4
      <4>2. Empty(it.oddDims) \in BOOLEAN
        BY DEF Empty
      <4>3. QED
        BY Zenon, <2>a, <4>1, <4>2 DEF Open
    <3> HIDE DEF spaces, left
    <3>1. column + it.keyword + signing + dims.width \in Int
      BY <1>2, <1>3, <2>3, <2>4
    <3>2. AsInt(spaces) < 0 => Signed(it)
      BY <2>6, <2>7
    <3> HIDE DEF column, type
    <3>3. QED
      BY <2>1, <2>7, <3>a, <3>1, <3>2
  <2>9. ASSUME it.signing = 0, it.oddDims = <<>>
        PROVE  type.end + type.gap = Start(s, it) + After(s)
    <3>1. ~Signed(it) /\ signing = 0 /\ it.keyword = 5
      BY <2>2, <2>9 DEF Signed, signing
    <3>a. odds = 0 /\ (none <=> it.dims = <<>>)
      BY <2>9, SumOfNothing DEF odds, NoBracket
    <3>2. type.end = column + 5 + dims.width /\ type.gap = spaces
      <4>1. column + it.keyword + signing + dims.width = column + 5 + dims.width
        BY <1>2, <2>4, <3>1
      <4> HIDE DEF column, spaces, type
      <4>2. QED
        BY <2>1, <2>7, <3>1, <4>1
    <3>3. dims.width + spaces = After(s) - 5
      <4>1. first = s.type - 5 /\ first >= 1 /\ Larger(first, 1) = first
        BY <2>3, <2>9 DEF Larger
      <4>2. CASE s.dims = <<>>
        <5>1. none
          BY <1>3, <1>4, <2>2, <3>a, <4>2 DEF Fitting
        <5>2. dims.width = 0 /\ dims.rest = first - 1 /\ more = 0
          BY <2>3, <2>4, <2>5, <2>9, <4>2, <5>1
        <5>3. After(s) - 5 = IF first = 1 THEN 1 ELSE first - 1
          BY <4>1, <4>2, <2>3 DEF After
        <5> HIDE DEF more
        <5>4. QED
          BY <2>3, <4>1, <5>2, <5>3
      <4>3. CASE s.dims # <<>>
        <5>1. After(s) - 5 = first + T + 1
          BY <1>5, <2>3, <4>1, <4>3 DEF After, T
        <5>2. CASE none
          <6>1. dims.width = 0 /\ dims.rest = first - 1 + (1 + T) /\ more = 1
            BY <2>4, <2>5, <4>3, <5>2
          <6> HIDE DEF more
          <6>2. QED
            BY <1>5, <2>3, <4>1, <5>1, <6>1
        <5>3. CASE ~none
          <6>1. more = 0
            BY <5>3
          <6>2. CASE Len(it.dims) < n
            <7>1. dims.rest > 0 /\ dims.width + dims.rest = first + T + 1
              BY <1>5, <2>3, <2>4, <3>a, <4>1, <5>3, <6>2
            <7> HIDE DEF more
            <7>2. QED
              BY <1>5, <2>3, <2>4, <5>1, <6>1, <7>1
          <6>3. CASE ~(Len(it.dims) < n)
            <7>1. dims.rest = 0 /\ dims.width + dims.rest = first + T + 0
              BY <1>5, <2>3, <2>4, <3>a, <4>1, <5>3, <6>3
            <7> HIDE DEF more
            <7>2. QED
              BY <1>5, <2>3, <2>4, <5>1, <6>1, <7>1
          <6>4. QED
            BY <6>2, <6>3
        <5>4. QED
          BY <5>2, <5>3
      <4>4. QED
        BY <4>2, <4>3
    <3>4. After(s) \in Int
      BY <1>4, <1>5 DEF After, T
    <3>5. spaces \in Int /\ column \in Int /\ column = Start(s, it)
      BY <1>2, <2>6
    <3> HIDE DEF spaces, column, type
    <3>6. QED
      BY <2>4, <3>2, <3>3, <3>4, <3>5
  <2>10. QED
    BY <1>7, <2>8, <2>9 DEF mods
<1>8. CASE it.type = "NamedType"
  <2> DEFINE dims == Align(it.dims, it.oddDims, s.dims, mods.next)
             signing == IF it.signing = 0 THEN 0 ELSE 1 + it.signing
             left == IF ~none THEN dims.rest ELSE Unsigned(dims.rest + 1)
             spaces == (IF left = 0 THEN 1 ELSE left) + more
  <2>a. it.type \notin OtherTypes
    BY <1>3, <1>8, KindsApart
  <2>1. type = [end |-> mods.next + it.keyword + signing + dims.width,
                gap |-> AsInt(spaces), fails |-> dims.fails]
    BY <1>8, <2>a DEF TypeFormat
  <2>2. Fitting(it.dims, s.dims)
    BY <1>b, <2>a
  <2>3. /\ dims.fails = Empty(it.oddDims) /\ dims.width \in Nat /\ dims.rest \in Nat
        /\ none => dims.rest = Unsigned(mods.next - 1 + (IF s.dims = <<>> THEN 0 ELSE 1 + T))
        /\ ~none => dims.rest <= 1 + T
    BY <1>1, <1>2, <1>3, <1>4, <2>2, AlignFacts DEF T, n
  <2> HIDE DEF dims
  <2>4. left \in Nat /\ left <= Room + 1 + T
    <3>1. CASE ~none
      BY <1>5, <2>3, <3>1
    <3>2. CASE none
      <4> DEFINE room == mods.next - 1 + (IF s.dims = <<>> THEN 0 ELSE 1 + T)
      <4>1. room \in Int /\ -1 <= room /\ room < Room + 1 + T
        BY <1>2, <1>5
      <4>2. left = Unsigned(Unsigned(room) + 1)
        BY <2>3, <3>2
      <4> HIDE DEF room
      <4>3. CASE room = -1
        <5>1. Modulus \in Nat /\ (Modulus - 1) + 1 = Modulus
          BY RoomFacts
        <5>2. left = 0
          BY <4>2, <4>3, <5>1, MinusOne
        <5>3. QED
          BY <1>5, <5>2
      <4>4. CASE room # -1
        <5>1. room \in Nat /\ room + 1 < 4 * Room
          BY <1>5, <4>1, <4>4
        <5>2. Unsigned(room) = room /\ Unsigned(room + 1) = room + 1
          BY <1>5, <5>1, UnsignedFacts
        <5>3. QED
          BY <1>5, <4>1, <4>2, <5>1, <5>2
      <4>5. QED
        BY <4>3, <4>4
    <3>3. QED
      BY <3>1, <3>2
  <2>5. spaces \in Nat /\ spaces < 4 * Room
    <3> HIDE DEF left
    <3>1. QED
      BY <1>5, <2>4
  <2>6. AsInt(spaces) = spaces
    <3> HIDE DEF spaces
    <3>1. QED
      BY <2>5, UnsignedFacts
  <2>7. mods.next + it.keyword + signing + dims.width \in Int
    <3>1. signing \in Nat /\ mods.next \in Nat /\ it.keyword \in Nat /\ dims.width \in Nat
      BY <1>2, <1>3, <2>3
    <3> HIDE DEF left, spaces, signing
    <3>2. QED
      BY <3>1
  <2>8. dims.fails \in BOOLEAN /\ (dims.fails => Open(it))
    <3>1. dims.fails = Empty(it.oddDims)
      BY <2>3
    <3>2. Empty(it.oddDims) \in BOOLEAN
      BY DEF Empty
    <3>3. QED
      BY Zenon, <2>a, <3>1, <3>2 DEF Open
  <2> HIDE DEF spaces, signing
  <2>9. QED
    BY <1>8, <2>1, <2>5, <2>6, <2>7, <2>8 DEF mods
<1>9. QED
  BY <1>3, <1>6, <1>7, <1>8 DEF Types

(* From the name of a declaration to its end.                              *)
Part(it, s) == ~NoBracket(it.array, it.oddArray) /\ Len(it.array) < Len(s.array)
Beyond(s, it) ==
  s.var + (IF s.array = <<>> THEN 0 ELSE 1 + Total(s.array)) + (IF Part(it, s) THEN 1 ELSE 0)

LEMMA ArrayColumns ==
  ASSUME NEW s \in Visitors, Sized(s), NEW it \in Declarations(s)
  PROVE  LET array == Align(it.array, it.oddArray, s.array, s.var - it.name + 1)
         IN  /\ array.fails = Empty(it.oddArray)
             /\ array.width \in Nat /\ AsInt(array.rest) \in Nat
             /\ it.name + array.width + AsInt(array.rest) = Beyond(s, it) + SumOf(it.oddArray)
<1> DEFINE first == s.var - it.name + 1
           none == NoBracket(it.array, it.oddArray)
           odds == SumOf(it.oddArray)
           array == Align(it.array, it.oddArray, s.array, first)
           T == Total(s.array)
           k == Len(it.array)
           n == Len(s.array)
<1>1. HasType(it) /\ it.name <= s.var /\ Fitting(FirstArray(it), s.array)
  BY RoomForDeclaration
<1>2. /\ s.array \in Seq(Ranges) /\ n \in Nat /\ n <= MaxParts /\ (s.array = <<>> <=> n = 0)
      /\ s.var \in Nat /\ s.var <= MaxWidth /\ MaxWidth \in Nat /\ Room \in Nat
      /\ 2 * MaxWidth + 1 <= Room
  BY RoomFacts DEF Visitors, Sized, Widths
<1>3. /\ it.array \in Seq(Ranges) /\ k \in Nat /\ (it.array = <<>> <=> k = 0)
      /\ it.name \in Nat
  <2>1. it.array \in Seq(Ranges) /\ it.name \in Widths
    BY <1>1, DeclaresFacts, ArrayFacts
  <2>2. \A seq \in Seq(Ranges) : Len(seq) \in Nat /\ (seq = <<>> <=> Len(seq) = 0)
    OBVIOUS
  <2>3. \A w \in Widths : w \in Nat
    BY <1>2 DEF Widths
  <2>4. QED
    BY Zenon, <2>1, <2>2, <2>3
<1>a. it.oddArray \in Seq(Widths) /\ odds \in Nat /\ (none => odds = 0 /\ k = 0)
  <2>1. it.oddArray \in Seq(Widths)
    BY <1>1, ArrayFacts
  <2>2. odds \in Nat
    BY <2>1, WidthSums
  <2>3. none => odds = 0 /\ k = 0
    BY <1>3, SumOfNothing DEF NoBracket
  <2>4. QED
    BY <2>1, <2>2, <2>3
<1>b. Fitting(it.array, s.array) /\ (~none => n # 0)
  <2>1. /\ Len(FirstArray(it)) = Len(it.array) + Len(it.oddArray)
        /\ \A i \in DOMAIN it.array : FirstArray(it)[i] = it.array[i]
        /\ FirstArray(it) \in Seq(Ranges)
    BY <1>1, ArrayFacts
  <2>2. Len(it.oddArray) \in Nat /\ (it.oddArray = <<>> <=> Len(it.oddArray) = 0)
    BY <1>a
  <2>3. k <= Len(FirstArray(it)) /\ (~none => Len(FirstArray(it)) # 0)
    <3> DEFINE o == Len(it.oddArray)
               f == Len(FirstArray(it))
    <3>1. f = k + o /\ o \in Nat /\ k \in Nat
      BY <1>3, <2>1, <2>2
    <3>2. ~none => k # 0 \/ o # 0
      BY <1>3, <2>2 DEF NoBracket
    <3> HIDE DEF o, f, k, none
    <3>3. QED
      BY <3>1, <3>2 DEF f
  <2>4. Len(FirstArray(it)) <= n /\ Len(FirstArray(it)) \in Nat
    <3>1. \A seq \in Seq(Ranges) : Len(seq) \in Nat
      OBVIOUS
    <3>2. QED
      BY Zenon, <1>1, <2>1, <3>1 DEF Fitting
  <2>5. Fitting(it.array, s.array)
    BY <1>1, <1>2, <1>3, <2>1, <2>3, FirstFits
  <2> HIDE DEF n, k, none
  <2>6. QED
    BY <1>2, <2>3, <2>4, <2>5
<1>4. first \in Nat /\ first <= Room /\ first >= 1
  BY <1>1, <1>2, <1>3
<1>5. T \in Nat /\ T + 8 <= 2 * Room
  BY <1>2, TotalFacts
<1> HIDE DEF first
<1>6. /\ array.fails = Empty(it.oddArray) /\ array.width \in Nat /\ array.rest \in Nat
      /\ none =>
           /\ array.width = 0
           /\ array.rest = Unsigned(first - 1 + (IF s.array = <<>> THEN 0 ELSE 1 + T))
      /\ ~none =>
           /\ array.width + array.rest = Larger(first, 1) + T + odds + (IF k < n THEN 1 ELSE 0)
           /\ array.rest <= 1 + T
  BY <1>a, <1>b, <1>2, <1>3, <1>4, AlignFacts, SMTT(60)
<1> HIDE DEF array, T, k, n, none, odds
<1>7. Beyond(s, it) = s.var + (IF s.array = <<>> THEN 0 ELSE 1 + T)
                      + (IF ~none /\ k < n THEN 1 ELSE 0)
  BY DEF Beyond, Part, T, k, n, none
<1>8. CASE none
  <2> DEFINE room == first - 1 + (IF s.array = <<>> THEN 0 ELSE 1 + T)
  <2>1. room \in Int /\ 0 <= room /\ room < 4 * Room
    BY <1>2, <1>4, <1>5
  <2>2. array.rest = Unsigned(room) /\ array.width = 0
    BY <1>6, <1>8
  <2>3. odds = 0
    BY <1>a, <1>8
  <2>4. it.name + 0 + room = s.var + (IF s.array = <<>> THEN 0 ELSE 1 + T)
    <3> DEFINE extra == IF s.array = <<>> THEN 0 ELSE 1 + T
               name == it.name
               var == s.var
    <3>1. extra \in Nat /\ name \in Nat /\ var \in Nat
      BY <1>2, <1>3, <1>5
    <3>2. first = var - name + 1 /\ room = first - 1 + extra
      BY DEF first
    <3> HIDE DEF extra, name, var, room
    <3>3. name + 0 + room = var + extra
      BY <3>1, <3>2
    <3>4. QED
      BY <3>3 DEF extra, name, var
  <2> HIDE DEF room
  <2>5. array.rest = room /\ AsInt(array.rest) = room
    BY <2>1, <2>2, UnsignedFacts
  <2>6. Beyond(s, it) = it.name + 0 + room
    BY <1>2, <1>5, <1>7, <1>8, <2>4
  <2>7. QED
    <3>1. Beyond(s, it) + odds = it.name + 0 + room
      BY <1>3, <2>1, <2>3, <2>6
    <3>2. QED
      BY <1>6, <2>1, <2>2, <2>5, <3>1 DEF array, first, odds
<1>9. CASE ~none
  <2>1. AsInt(array.rest) = array.rest
    <3>1. array.rest \in Int /\ 0 <= array.rest /\ array.rest < 4 * Room
      BY <1>2, <1>5, <1>6, <1>9
    <3>2. QED
      BY <3>1, UnsignedFacts
  <2>2. Larger(first, 1) = first /\ n # 0
    BY <1>b, <1>4, <1>9 DEF Larger
  <2>3. array.width + array.rest = first + T + odds + (IF k < n THEN 1 ELSE 0)
    BY <1>6, <1>9, <2>2
  <2>4. Beyond(s, it) = s.var + (1 + T) + (IF k < n THEN 1 ELSE 0)
    BY <1>2, <1>7, <1>9, <2>2
  <2>5. it.name + first = s.var + 1
    BY <1>2, <1>3 DEF first
  <2>6. it.name + array.width + array.rest = Beyond(s, it) + odds
    <3> DEFINE more == IF k < n THEN 1 ELSE 0
               name == it.name
               var == s.var
               width == array.width
               rest == array.rest
               beyond == Beyond(s, it)
    <3>1. more \in Nat /\ name \in Nat /\ var \in Nat /\ width \in Nat /\ rest \in Nat
      BY <1>2, <1>3, <1>6
    <3>2. /\ width + rest = first + T + odds + more /\ beyond = var + (1 + T) + more
          /\ name + first = var + 1
      BY <2>3, <2>4, <2>5
    <3> HIDE DEF more, name, var, width, rest, beyond
    <3>3. name + width + rest = beyond + odds
      BY <1>a, <1>4, <1>5, <3>1, <3>2
    <3>4. QED
      BY <3>3 DEF name, width, rest, beyond
  <2>7. QED
    BY <1>6, <2>1, <2>6 DEF array, first, odds
<1>10. QED
  BY <1>8, <1>9

(* What a handler writes of an item of the block s.                        *)
Faulty(it) ==
  \/ it.kind = "HierarchyInstantiation" /\ (it.params = NoParams \/ it.blank)
  \/ it.kind # "HierarchyInstantiation" /\ HasType(it) /\ Risky(it)

WrittenOf(w, s, q) == w.at = q.at /\ w.it = q.it /\ w.block = s.block

LEMMA Leads ==
  ASSUME NEW trivia \in Seq(Trivia), NEW lead,
         lead \in {trivia, CommentSpacing(trivia), Indent(trivia), Indent(CommentSpacing(trivia))}
  PROVE  /\ lead \in Seq(Marks)
         /\ Pieces(lead) \in {Pieces(trivia), Append(Pieces(trivia), "newline")}
         /\ Contains(lead, "indent") =>
              lead[Len(lead)] = "indent" /\ lead[Len(lead) - 1] = "newline"
<1>1. /\ CommentSpacing(trivia) \in Seq(Trivia \cup {"gap"})
      /\ Pieces(CommentSpacing(trivia)) = Pieces(trivia)
  BY CommentSpacingFacts
<1>2. \A seq \in Seq(Trivia \cup {"gap"}) : seq \in Seq(Marks) /\ ~Contains(seq, "indent")
  <2>1. TAKE seq \in Seq(Trivia \cup {"gap"})
  <2>2. \A i \in 1 .. Len(seq) : seq[i] # "indent"
    <3>1. "indent" \notin Trivia \cup {"gap"}
      BY DEF Trivia
    <3>2. QED
      BY <3>1
  <2>3. QED
    BY <2>2 DEF Contains, Marks
<1>3. trivia \in Seq(Trivia \cup {"gap"})
  OBVIOUS
<1>4. CASE lead \in {trivia, CommentSpacing(trivia)}
  BY <1>1, <1>2, <1>3, <1>4
<1>5. CASE lead \in {Indent(trivia), Indent(CommentSpacing(trivia))}
  <2>1. /\ trivia \in Seq(Marks) /\ CommentSpacing(trivia) \in Seq(Marks)
    BY <1>1, <1>2, <1>3
  <2>2. /\ lead \in Seq(Marks) /\ EndsALine(lead)
        /\ Pieces(lead) \in {Pieces(trivia), Append(Pieces(trivia), "newline")}
    BY <1>1, <1>5, <2>1, IndentFacts
  <2>3. QED
    BY <2>2 DEF EndsALine
<1>6. QED
  BY <1>4, <1>5

LEMMA BeyondType ==
  ASSUME NEW s \in Visitors, Sized(s), NEW it
  PROVE  Beyond(s, it) \in Int
<1>1. s.var \in Nat /\ s.array \in Seq(Ranges) /\ Len(s.array) <= MaxParts
  BY RoomFacts DEF Visitors, Sized, Widths
<1>2. Total(s.array) \in Nat
  BY <1>1, TotalFacts
<1>3. QED
  BY <1>1, <1>2 DEF Beyond

LEMMA FormatDeclarationFacts ==
  ASSUME NEW s \in Visitors, Sized(s), NEW q \in Entries, q.it \in Declarations(s)
  PROVE  LET w == FormatDeclaration(s, q)
         IN  /\ w \in Outs /\ WrittenOf(w, s, q) /\ LeadKept(w)
             /\ w.fails => Faulty(w.it)
             /\ Plain(w) => /\ w.name = Start(s, w.it) + After(s)
                            /\ w.end = w.name + Beyond(s, w.it) + SumOf(w.it.oddArray) + w.it.tail
<1> DEFINE it == q.it
           net == IsPort(it) /\ it.net
           trivia == IF IsPort(it) THEN CommentSpacing(it.trivia) ELSE it.trivia
           starts == ~net /\ (it.mods # <<>> \/ it.type \notin OtherTypes)
           lead == IF starts THEN Indent(trivia) ELSE trivia
           type == IF net THEN [end |-> SumOf(it.mods), gap |-> 0, fails |-> FALSE]
                   ELSE TypeFormat(s, it, AfterModifiers(s, it))
           odds == SumOf(it.oddArray)
           array == Align(it.array, it.oddArray, s.array, s.var - it.name + 1)
           name == type.end + type.gap
           end == name + it.name + array.width + it.tail + AsInt(array.rest)
           fails == type.fails \/ array.fails \/ type.gap < 0 \/ AsInt(array.rest) < 0
           w == FormatDeclaration(s, q)
<1>1. w = Written(q, s, lead, name, type.gap, end, fails)
  BY DEF FormatDeclaration
<1>2. /\ HasType(it) /\ it.trivia \in Seq(Trivia) /\ it.mods \in Seq(Widths)
      /\ it.name \in Nat /\ it.tail \in Nat /\ odds \in Nat /\ it.kind # "HierarchyInstantiation"
  <2>1. HasType(it) /\ it.kind # "HierarchyInstantiation"
    BY RoomForDeclaration, GatheredFacts DEF Entries
  <2> HIDE DEF it
  <2>2. /\ it.trivia \in Seq(Trivia) /\ it.mods \in Seq(Widths) /\ it.name \in Widths
        /\ it.tail \in Nat
    BY <2>1, DeclaresFacts
  <2>3. odds \in Nat
    BY <2>1, ArrayFacts, WidthSums
  <2> HIDE DEF odds
  <2>4. QED
    BY <2>1, <2>2, <2>3, RoomFacts DEF Widths
<1>3. /\ type.gap \in Int /\ type.end \in Int
      /\ type.fails \in BOOLEAN /\ (type.fails => Open(it))
      /\ (type.gap < 0 => Signed(it))
      /\ ~net /\ it.type = "LogicType" /\ it.signing = 0 /\ it.oddDims = <<>> =>
           type.end + type.gap = Start(s, it) + After(s)
  <2>1. CASE net
    <3>1. SumOf(it.mods) \in Nat
      BY <1>2, WidthSums
    <3>2. QED
      BY <2>1, <3>1
  <2>2. CASE ~net
    BY <2>2, TypeColumns DEF NetPort
  <2>3. QED
    BY <2>1, <2>2
<1>4. /\ array.fails = Empty(it.oddArray)
      /\ array.width \in Nat /\ AsInt(array.rest) \in Nat
      /\ it.name + array.width + AsInt(array.rest) = Beyond(s, it) + odds
  BY ArrayColumns
<1>5. /\ lead \in Seq(Marks)
      /\ Pieces(lead) \in {Pieces(it.trivia), Append(Pieces(it.trivia), "newline")}
      /\ Contains(lead, "indent") =>
           lead[Len(lead)] = "indent" /\ lead[Len(lead) - 1] = "newline"
  <2>1. lead \in {it.trivia, CommentSpacing(it.trivia), Indent(it.trivia),
                  Indent(CommentSpacing(it.trivia))}
    OBVIOUS
  <2> HIDE DEF lead
  <2>2. QED
    BY <1>2, <2>1, Leads
<1> HIDE DEF type, array, lead, net, starts, trivia, odds
<1>6. name \in Int /\ end \in Int /\ (fails => Risky(it)) /\ fails \in BOOLEAN
  <2>1. name \in Int
    BY <1>3
  <2>2. end \in Int
    BY <1>2, <1>4, <2>1
  <2>a. array.fails \in BOOLEAN /\ (array.fails => Empty(it.oddArray))
    <3>1. array.fails = Empty(it.oddArray)
      BY <1>4
    <3>2. Empty(it.oddArray) \in BOOLEAN
      BY DEF Empty
    <3>3. QED
      BY Zenon, <3>1, <3>2
  <2>b. ~(AsInt(array.rest) < 0)
    BY <1>4
  <2>3. fails => Risky(it)
    BY Zenon, <1>3, <2>a, <2>b DEF Risky, Signed, Open
  <2>4. fails \in BOOLEAN
    OBVIOUS
  <2>5. QED
    BY <2>1, <2>2, <2>3, <2>4
<1>7. end = name + Beyond(s, it) + odds + it.tail
  <2> DEFINE own == it.name
             tail == it.tail
             width == array.width
             rest == AsInt(array.rest)
             beyond == Beyond(s, it) + odds
  <2>1. name \in Int /\ own \in Nat /\ tail \in Nat /\ width \in Nat /\ rest \in Nat
    BY <1>2, <1>3, <1>4
  <2>2. own + width + rest = beyond
    BY <1>4
  <2>3. Beyond(s, it) \in Int /\ odds \in Nat
    BY <1>2, BeyondType
  <2> HIDE DEF name, own, tail, width, rest, beyond
  <2>4. name + own + width + tail + rest = name + beyond + tail
    BY <2>1, <2>2
  <2>5. name + beyond + tail = name + Beyond(s, it) + odds + tail
    BY <2>1, <2>3 DEF beyond
  <2>6. QED
    BY <2>4, <2>5 DEF own, tail, width, rest
<1>8. ~net /\ it.type = "LogicType" /\ it.signing = 0 /\ it.oddDims = <<>> =>
        name = Start(s, it) + After(s)
  BY <1>3
<1> HIDE DEF name, end, fails, w
<1>9. /\ q.at \in Nat \X Nat /\ it \in Gathered /\ s.block \in Nat
  BY DEF Entries, Visitors
<1>10. w = [at |-> q.at, it |-> it, block |-> s.block, lead |-> lead, name |-> name,
            gap |-> type.gap, end |-> end, fails |-> fails]
  BY <1>1 DEF Written
<1>11. w \in Outs /\ WrittenOf(w, s, q)
  BY <1>3, <1>5, <1>6, <1>9, <1>10 DEF Outs, WrittenOf
<1>12. LeadKept(w)
  BY <1>5, <1>10 DEF LeadKept
<1>13. w.fails => Faulty(w.it)
  BY <1>2, <1>6, <1>10 DEF Faulty
<1>14. Plain(w) =>
         /\ w.name = Start(s, w.it) + After(s)
         /\ w.end = w.name + Beyond(s, w.it) + SumOf(w.it.oddArray) + w.it.tail
  BY <1>7, <1>8, <1>10 DEF Plain, net, odds
<1>15. QED
  BY <1>11, <1>12, <1>13, <1>14 DEF w

LEMMA FormatAssignFacts ==
  ASSUME NEW s \in Visitors, Sized(s), NEW q \in Entries, q.it \in Assigns(s)
  PROVE  LET w == FormatAssign(s, q)
         IN  /\ w \in Outs /\ WrittenOf(w, s, q) /\ LeadKept(w) /\ ~w.fails
             /\ w.name = 8 + s.var /\ w.end = w.name
<1> DEFINE it == q.it
           names == UNION {{d.name} \cup d.others : d \in Declarations(s)}
           lefts == UNION {ToSet(d.lefts) : d \in Assigns(s)}
           operator(left) == 7 + left + 1 + s.var - left
           columns == {operator(it.lefts[i]) : i \in DOMAIN it.lefts}
           least == CHOOSE c \in columns : \A d \in columns : c <= d
           fails == \E i \in DOMAIN it.lefts : 1 + s.var - it.lefts[i] < 0
           w == FormatAssign(s, q)
<1>1. w = Written(q, s, Indent(it.trivia), least, 1, MaxIn(columns), fails)
  BY DEF FormatAssign
<1>2. Assignment(it) /\ it \in Assigns(s) /\ it \in Gathered
  BY PendingFacts DEF Entries
<1>3. /\ it.trivia \in Seq(Trivia) /\ it.lefts \in Seq(Widths) /\ it.lefts # <<>>
      /\ DOMAIN it.lefts # {} /\ \A i \in DOMAIN it.lefts : it.lefts[i] \in Nat
  <2> HIDE DEF it
  <2>1. it.trivia \in Seq(Trivia) /\ it.lefts \in Seq(Widths) /\ it.lefts # <<>>
    BY <1>2 DEF Assignment
  <2> DEFINE each == it.lefts
  <2> HIDE DEF each
  <2>2. each \in Seq(Widths) /\ each # <<>>
    BY <2>1 DEF each
  <2>3. 1 \in DOMAIN each /\ \A i \in DOMAIN each : each[i] \in Widths
    BY <2>2
  <2>4. Widths \subseteq Nat
    BY RoomFacts DEF Widths
  <2>5. QED
    BY <2>1, <2>3, <2>4 DEF each
<1>4. s.var \in Nat /\ s.var = MaxIn(names \cup lefts)
  BY RoomFacts DEF Visitors, Widths, Sized, Fits
<1>5. \A i \in DOMAIN it.lefts : it.lefts[i] <= s.var
  <2>1. Bounded(names) /\ Bounded(lefts)
    BY PendingFacts, DeclarationSets, AssignSets
  <2>2. \A i \in DOMAIN it.lefts : it.lefts[i] \in lefts
    BY <1>2 DEF ToSet
  <2> HIDE DEF names, lefts
  <2>3. QED
    BY <1>4, <2>1, <2>2, BoundedUnion, MaxFacts
<1> HIDE DEF it
<1>6. \A i \in DOMAIN it.lefts : operator(it.lefts[i]) = 8 + s.var
  BY <1>3, <1>4
<1>7. columns = {8 + s.var}
  <2> HIDE DEF operator
  <2>1. QED
    BY <1>3, <1>6
<1>8. fails = FALSE
  <2>1. ASSUME NEW i \in DOMAIN it.lefts PROVE ~(1 + s.var - it.lefts[i] < 0)
    <3> DEFINE left == it.lefts[i]
               var == s.var
    <3>1. left \in Nat /\ var \in Nat /\ left <= var
      BY <1>3, <1>4, <1>5
    <3> HIDE DEF left, var
    <3>2. ~(1 + var - left < 0)
      BY <3>1
    <3>3. QED
      BY <3>2 DEF left, var
  <2>2. QED
    BY <2>1
<1>9. 8 + s.var \in Nat
  BY <1>4
<1> HIDE DEF columns, fails
<1>10. least = 8 + s.var
  BY <1>7, <1>9
<1>11. MaxIn(columns) = 8 + s.var
  BY <1>7, <1>9, MaxIs
<1> HIDE DEF least, w
<1>12. w = [at |-> q.at, it |-> it, block |-> s.block, lead |-> Indent(it.trivia),
            name |-> 8 + s.var, gap |-> 1, end |-> 8 + s.var, fails |-> FALSE]
  BY <1>1, <1>8, <1>10, <1>11 DEF Written, it
<1>13. LeadKept(w) /\ Indent(it.trivia) \in Seq(Marks)
  BY <1>3, <1>12, Leads DEF LeadKept
<1>14. q.at \in Nat \X Nat /\ s.block \in Nat
  BY DEF Entries, Visitors
<1>15. w \in Outs /\ WrittenOf(w, s, q)
  BY <1>2, <1>9, <1>12, <1>13, <1>14 DEF Outs, WrittenOf, it
<1>16. QED
  BY <1>12, <1>13, <1>15 DEF w

(* The bindings of an instance, and the room they are given.               *)
Bindings(it) == IF it.params = NoParams THEN <<>> ELSE it.params
Binds(s, it) ==
  /\ \A i \in DOMAIN it.ports : it.ports[i][1] <= s.port /\ it.ports[i][2] <= s.portValue
  /\ \A i \in DOMAIN Bindings(it) :
       Bindings(it)[i][1] <= s.param /\ Bindings(it)[i][2] <= s.paramValue

LEMMA FormatInstanceFacts ==
  ASSUME NEW s \in Visitors, NEW q, q.at \in Nat \X Nat, q.it \in Instances, Binds(s, q.it)
  PROVE  LET w == FormatInstance(s, q)
         IN  /\ w \in Outs /\ WrittenOf(w, s, q) /\ LeadKept(w)
             /\ w.fails => Faulty(w.it)
<1> DEFINE it == q.it
           bindings == {it.ports[i] : i \in DOMAIN it.ports}
           params == IF it.params = NoParams THEN {} ELSE ToSet(it.params)
           fails == \/ it.params = NoParams \/ it.blank
                    \/ \E b \in bindings : b[1] > s.port \/ b[2] > s.portValue
                    \/ \E b \in params : b[1] > s.param \/ b[2] > s.paramValue
           w == FormatInstance(s, q)
<1>1. w = Written(q, s, Indent(it.trivia), s.port, 0, s.port + s.portValue, fails)
  BY DEF FormatInstance
<1>2. /\ it \in Instances /\ it.kind = "HierarchyInstantiation" /\ it.trivia \in Seq(Trivia)
      /\ it.ports \in Seq(Ranges) /\ (it.params = NoParams \/ it.params \in Seq(Ranges))
  BY DEF Instances, Instance
<1>3. s.port \in Nat /\ s.portValue \in Nat /\ s.param \in Nat /\ s.paramValue \in Nat
      /\ s.block \in Nat
  BY DEF Visitors
<1>4. Binds(s, it)
  OBVIOUS
<1> HIDE DEF it
<1>5. \A r \in Ranges : r[1] \in Nat /\ r[2] \in Nat
  BY RoomFacts DEF Ranges, Widths
<1>6. \A b \in bindings : ~(b[1] > s.port \/ b[2] > s.portValue)
  BY SMTT(40), <1>2, <1>3, <1>4, <1>5 DEF Binds
<1>7. \A b \in params : ~(b[1] > s.param \/ b[2] > s.paramValue)
  <2>1. CASE it.params = NoParams
    BY <2>1
  <2>2. CASE it.params # NoParams
    <3>1. params = ToSet(Bindings(it)) /\ Bindings(it) \in Seq(Ranges)
      BY <1>2, <2>2 DEF Bindings
    <3> HIDE DEF params
    <3>2. \A b \in params : \E i \in DOMAIN Bindings(it) : b = Bindings(it)[i]
      BY <3>1 DEF ToSet
    <3>3. \A i \in DOMAIN Bindings(it) : Bindings(it)[i] \in Ranges
      BY <3>1
    <3>4. QED
      BY <1>3, <1>4, <1>5, <3>2, <3>3 DEF Binds
  <2>3. QED
    BY <2>1, <2>2
<1>8. fails \in BOOLEAN /\ (fails => it.params = NoParams \/ it.blank)
  <2> HIDE DEF bindings, params
  <2>1. QED
    BY <1>6, <1>7
<1>9. s.port + s.portValue \in Int
  BY <1>3
<1> HIDE DEF fails, w
<1>10. w = [at |-> q.at, it |-> it, block |-> s.block, lead |-> Indent(it.trivia),
            name |-> s.port, gap |-> 0, end |-> s.port + s.portValue, fails |-> fails]
  BY <1>1 DEF Written, it
<1>11. LeadKept(w) /\ Indent(it.trivia) \in Seq(Marks)
  BY <1>2, <1>10, Leads DEF LeadKept
<1>12. w \in Outs /\ WrittenOf(w, s, q)
  BY <1>2, <1>3, <1>8, <1>9, <1>10, <1>11 DEF Outs, WrittenOf, it
<1>13. w.fails => Faulty(w.it)
  BY <1>2, <1>8, <1>10 DEF Faulty
<1>14. QED
  BY <1>11, <1>12, <1>13 DEF w

-----------------------------------------------------------------------------
(* What the visitor wrote, followed by what it will write: the order of    *)
(* the file.                                                               *)

Places2 == Nat \X Nat
All == [at : Places2, it : Gathered \cup Instances]
EntriesOf(out) == [i \in DOMAIN out |-> [at |-> out[i].at, it |-> out[i].it]]
Traced(s) == EntriesOf(s.out) \o s.queue

(* A sequence, element by element.                                         *)
Through(f, seq) == [i \in DOMAIN seq |-> f[seq[i]]]
Maps(f, A, B) == f \in [A -> B]

LEMMA ThroughJoin ==
  ASSUME NEW A, NEW B, NEW f, Maps(f, A, B), NEW a \in Seq(A), NEW b \in Seq(A)
  PROVE  /\ Through(f, a) \in Seq(B) /\ Through(f, b) \in Seq(B)
         /\ Through(f, a \o b) = Through(f, a) \o Through(f, b)
<1>1. ASSUME NEW c \in Seq(A)
      PROVE  /\ Through(f, c) \in Seq(B) /\ Len(Through(f, c)) = Len(c)
             /\ \A i \in 1 .. Len(c) : Through(f, c)[i] = f[c[i]]
  BY DEF Through, Maps
<1> DEFINE joined == a \o b
           left == Through(f, joined)
           fa == Through(f, a)
           fb == Through(f, b)
           right == fa \o fb
<1>2. /\ joined \in Seq(A) /\ Len(a) \in Nat /\ Len(b) \in Nat
      /\ Len(joined) = Len(a) + Len(b)
      /\ \A i \in 1 .. Len(a) + Len(b) :
           joined[i] = IF i <= Len(a) THEN a[i] ELSE b[i - Len(a)]
  BY ConcatProperties
<1> HIDE DEF joined
<1>3. /\ left \in Seq(B) /\ Len(left) = Len(a) + Len(b)
      /\ \A i \in 1 .. Len(a) + Len(b) : left[i] = f[joined[i]]
  BY <1>1, <1>2
<1>4. /\ fa \in Seq(B) /\ fb \in Seq(B) /\ Len(fa) = Len(a) /\ Len(fb) = Len(b)
      /\ \A i \in 1 .. Len(a) : fa[i] = f[a[i]]
      /\ \A i \in 1 .. Len(b) : fb[i] = f[b[i]]
  BY <1>1
<1> HIDE DEF left, fa, fb
<1>5. /\ right \in Seq(B) /\ Len(right) = Len(a) + Len(b)
      /\ \A i \in 1 .. Len(a) + Len(b) :
           right[i] = IF i <= Len(a) THEN fa[i] ELSE fb[i - Len(a)]
  <2>1. /\ right \in Seq(B) /\ Len(right) = Len(fa) + Len(fb)
        /\ \A i \in 1 .. Len(fa) + Len(fb) :
             right[i] = IF i <= Len(fa) THEN fa[i] ELSE fb[i - Len(fa)]
    BY ZenonT(60), <1>4, ConcatProperties
  <2> HIDE DEF right
  <2>2. QED
    BY <1>4, <2>1
<1> HIDE DEF right
<1>6. ASSUME NEW i \in 1 .. Len(a) + Len(b) PROVE left[i] = right[i]
  <2>1. CASE i <= Len(a)
    <3>1. i \in 1 .. Len(a)
      BY <1>2, <2>1
    <3>2. joined[i] = a[i] /\ right[i] = fa[i]
      BY <1>2, <1>5, <2>1
    <3>3. QED
      BY <1>3, <1>4, <3>1, <3>2
  <2>2. CASE ~(i <= Len(a))
    <3>1. i - Len(a) \in 1 .. Len(b)
      BY <1>2, <2>2
    <3>2. joined[i] = b[i - Len(a)] /\ right[i] = fb[i - Len(a)]
      BY <1>2, <1>5, <2>2
    <3>3. QED
      BY <1>3, <1>4, <3>1, <3>2
  <2>3. QED
    BY <2>1, <2>2
<1>7. left = right
  BY <1>2, <1>3, <1>5, <1>6, SeqEqual
<1>8. QED
  BY <1>4, <1>7 DEF left, right, joined, fa, fb

LEMMA PlacesJoin ==
  ASSUME NEW A, \A e \in A : e.at \in Places2, NEW a \in Seq(A), NEW b \in Seq(A)
  PROVE  /\ PlacesOf(a) \in Seq(Places2) /\ PlacesOf(b) \in Seq(Places2)
         /\ PlacesOf(a \o b) = PlacesOf(a) \o PlacesOf(b)
<1> DEFINE f == [e \in A |-> e.at]
<1>1. Maps(f, A, Places2)
  BY DEF Maps
<1>2. ASSUME NEW c \in Seq(A) PROVE PlacesOf(c) = Through(f, c)
  <2>1. \A i \in DOMAIN c : f[c[i]] = c[i].at
    OBVIOUS
  <2> HIDE DEF f
  <2>2. QED
    BY <2>1 DEF PlacesOf, Through
<1>3. a \o b \in Seq(A)
  BY ConcatProperties
<1> HIDE DEF f
<1>4. /\ Through(f, a) \in Seq(Places2) /\ Through(f, b) \in Seq(Places2)
      /\ Through(f, a \o b) = Through(f, a) \o Through(f, b)
  BY <1>1, ThroughJoin
<1>5. PlacesOf(a \o b) = Through(f, a \o b)
  BY <1>2, <1>3
<1>6. QED
  BY <1>2, <1>4, <1>5

LEMMA EntriesJoin ==
  ASSUME NEW a \in Seq(Outs), NEW b \in Seq(Outs)
  PROVE  /\ EntriesOf(a) \in Seq(All) /\ EntriesOf(b) \in Seq(All)
         /\ PlacesOf(EntriesOf(a)) = PlacesOf(a)
         /\ EntriesOf(a \o b) = EntriesOf(a) \o EntriesOf(b)
<1> DEFINE f == [w \in Outs |-> [at |-> w.at, it |-> w.it]]
<1>1. Maps(f, Outs, All)
  BY DEF Maps, Outs, All, Places2
<1>2. ASSUME NEW c \in Seq(Outs) PROVE EntriesOf(c) = Through(f, c)
  <2>1. \A i \in DOMAIN c : f[c[i]] = [at |-> c[i].at, it |-> c[i].it]
    OBVIOUS
  <2> HIDE DEF f
  <2>2. QED
    BY <2>1 DEF EntriesOf, Through
<1>3. a \o b \in Seq(Outs)
  BY ConcatProperties
<1> HIDE DEF f
<1>4. PlacesOf(EntriesOf(a)) = PlacesOf(a)
  BY DEF PlacesOf, EntriesOf
<1>5. /\ Through(f, a) \in Seq(All) /\ Through(f, b) \in Seq(All)
      /\ Through(f, a \o b) = Through(f, a) \o Through(f, b)
  BY <1>1, ThroughJoin
<1>6. EntriesOf(a \o b) = Through(f, a \o b)
  BY <1>2, <1>3
<1>7. QED
  BY <1>2, <1>4, <1>5, <1>6

LEMMA TracedFacts ==
  ASSUME NEW s \in Visitors
  PROVE  /\ Traced(s) \in Seq(All)
         /\ PlacesOf(Traced(s)) = PlacesOf(s.out) \o PlacesOf(s.queue)
         /\ s.out \in Seq(Outs) /\ s.queue \in Seq(Entries) /\ s.queue \in Seq(All)
<1>1. s.out \in Seq(Outs) /\ s.queue \in Seq(Entries)
  BY DEF Visitors
<1>2. Entries \subseteq All
  BY DEF Entries, All, Places2
<1>3. s.queue \in Seq(All)
  BY <1>1, <1>2
<1>4. EntriesOf(s.out) \in Seq(All) /\ PlacesOf(EntriesOf(s.out)) = PlacesOf(s.out)
  BY <1>1, EntriesJoin
<1>5. \A e \in All : e.at \in Places2
  BY DEF All
<1>6. QED
  BY ZenonT(60), <1>1, <1>3, <1>4, <1>5, PlacesJoin, ConcatProperties DEF Traced

-----------------------------------------------------------------------------
(* The blocks.  An instance is written when it is visited; any other item  *)
(* with its block, which ends then.                                        *)

Calm(out) ==
  /\ \A i \in DOMAIN out : LeadKept(out[i]) /\ (out[i].fails => Faulty(out[i].it))
  /\ \A i, j \in DOMAIN out : InColumns(out[i], out[j], out)
Settled(s) ==
  /\ Calm(s.out)
  /\ \A i \in DOMAIN s.out :
       s.out[i].it.kind # "HierarchyInstantiation" => s.out[i].block < s.block

(* What is written of an item of the block s, in the columns of s.         *)
Formed(w, s) ==
  /\ w.block = s.block /\ LeadKept(w) /\ (w.fails => Faulty(w.it))
  /\ Plain(w) => /\ w.name = Start(s, w.it) + After(s)
                 /\ w.end = w.name + Beyond(s, w.it) + SumOf(w.it.oddArray) + w.it.tail
  /\ w.it.kind = "ContinuousAssign" => w.name = 8 + s.var /\ w.end = w.name
  /\ IsDeclaration(w) => HasType(w.it) /\ ArrayLength(w.it) <= Len(s.array)
Even(more, s) ==
  /\ \A i \in DOMAIN more : Formed(more[i], s)
  /\ (\E i \in DOMAIN more : IsDeclaration(more[i])) =>
       \E i \in DOMAIN more : IsDeclaration(more[i]) /\ ArrayLength(more[i].it) = Len(s.array)

Together(a, b, c) ==
  /\ \A i \in DOMAIN c : (\E k \in DOMAIN a : c[i] = a[k]) \/ (\E k \in DOMAIN b : c[i] = b[k])
  /\ \A k \in DOMAIN a : \E i \in DOMAIN c : c[i] = a[k]
  /\ \A k \in DOMAIN b : \E i \in DOMAIN c : c[i] = b[k]

LEMMA ConcatElements ==
  ASSUME NEW S, NEW a \in Seq(S), NEW b \in Seq(S)
  PROVE  a \o b \in Seq(S) /\ Together(a, b, a \o b)
<1> DEFINE joined == a \o b
<1>1. /\ joined \in Seq(S) /\ Len(a) \in Nat /\ Len(b) \in Nat
      /\ Len(joined) = Len(a) + Len(b)
      /\ \A i \in 1 .. Len(a) + Len(b) :
           joined[i] = IF i <= Len(a) THEN a[i] ELSE b[i - Len(a)]
  BY ConcatProperties
<1> HIDE DEF joined
<1>2. ASSUME NEW i \in DOMAIN joined
      PROVE  \/ \E k \in DOMAIN a : joined[i] = a[k]
             \/ \E k \in DOMAIN b : joined[i] = b[k]
  <2>1. i \in 1 .. Len(a) + Len(b)
    BY <1>1
  <2>2. CASE i <= Len(a)
    <3>1. i \in DOMAIN a /\ joined[i] = a[i]
      BY <1>1, <2>1, <2>2
    <3>2. QED
      BY <3>1
  <2>3. CASE ~(i <= Len(a))
    <3>1. i - Len(a) \in DOMAIN b /\ joined[i] = b[i - Len(a)]
      BY <1>1, <2>1, <2>3
    <3>2. QED
      BY <3>1
  <2>4. QED
    BY <2>2, <2>3
<1>3. ASSUME NEW k \in DOMAIN a PROVE \E i \in DOMAIN joined : joined[i] = a[k]
  <2>1. k \in DOMAIN joined /\ joined[k] = a[k]
    BY <1>1
  <2>2. QED
    BY <2>1
<1>4. ASSUME NEW k \in DOMAIN b PROVE \E i \in DOMAIN joined : joined[i] = b[k]
  <2>1. /\ k + Len(a) \in DOMAIN joined /\ ~(k + Len(a) <= Len(a))
        /\ (k + Len(a)) - Len(a) = k
    BY <1>1
  <2>2. joined[k + Len(a)] = b[(k + Len(a)) - Len(a)]
    BY <1>1, <2>1
  <2>3. QED
    BY <2>1, <2>2
<1>5. QED
  BY <1>1, <1>2, <1>3, <1>4 DEF joined, Together

LEMMA ArrayLengthType ==
  ASSUME NEW it, HasType(it)
  PROVE  ArrayLength(it) \in Nat
<1> DEFINE a == Len(it.array)
           b == Len(it.oddArray)
           c == Len(it.otherArray)
<1>1. /\ it.array \in Seq(Ranges) /\ it.oddArray \in Seq(Widths)
      /\ it.otherArray \in Seq(Ranges)
  BY ArrayFacts
<1>2. a \in Nat /\ b \in Nat /\ c \in Nat
  BY <1>1
<1>3. ArrayLength(it) = Larger(a + b, c)
  BY DEF ArrayLength
<1> HIDE DEF a, b, c
<1>4. QED
  BY <1>2, <1>3 DEF Larger

LEMMA OutGrows ==
  ASSUME NEW s \in Visitors, Sized(s), Settled(s), NEW more \in Seq(Outs), Even(more, s)
  PROVE  LET out == s.out \o more
         IN  /\ out \in Seq(Outs) /\ Calm(out)
             /\ \A i \in DOMAIN out :
                  out[i].it.kind # "HierarchyInstantiation" => out[i].block <= s.block
<1> DEFINE old == s.out
           out == old \o more
           Earlier(w) == w.it.kind # "HierarchyInstantiation" => w.block < s.block
<1>1. /\ old \in Seq(Outs) /\ s.block \in Nat /\ s.var \in Nat /\ s.array \in Seq(Ranges)
      /\ Len(s.array) \in Nat /\ (s.array = <<>> <=> Len(s.array) = 0)
  BY RoomFacts DEF Visitors, Widths
<1>2. \A i \in DOMAIN old : old[i] \in Outs /\ Earlier(old[i])
  BY <1>1 DEF Settled
<1>3. \A i \in DOMAIN more : more[i] \in Outs /\ Formed(more[i], s)
  BY DEF Even
<1>4. Calm(old)
  BY DEF Settled
<1>5. /\ out \in Seq(Outs)
      /\ \A i \in DOMAIN out : \/ \E k \in DOMAIN old : out[i] = old[k]
                               \/ \E k \in DOMAIN more : out[i] = more[k]
      /\ \A k \in DOMAIN old : \E i \in DOMAIN out : out[i] = old[k]
      /\ \A k \in DOMAIN more : \E i \in DOMAIN out : out[i] = more[k]
  <2> HIDE DEF old
  <2>1. old \in Seq(Outs) /\ more \in Seq(Outs)
    BY <1>1
  <2>2. out \in Seq(Outs) /\ Together(old, more, out)
    BY <2>1, ConcatElements
  <2>3. QED
    BY <2>2 DEF Together
<1> HIDE DEF old, out, Earlier
<1>6. \A w \in Outs : w.block \in Nat /\ w.name \in Int /\ w.end \in Int
  BY DEF Outs
<1>7. ASSUME NEW w, Earlier(w), w.it.kind # "HierarchyInstantiation", w \in Outs
      PROVE  Shorter(w, out) = Shorter(w, old)
  <2>1. w.block # s.block
    BY <1>1, <1>6, <1>7 DEF Earlier
  <2>2. \A k \in DOMAIN more : more[k].block # w.block
    BY <1>3, <2>1 DEF Formed
  <2>3. ASSUME Shorter(w, out) PROVE Shorter(w, old)
    <3>1. PICK i \in DOMAIN out : /\ IsDeclaration(out[i]) /\ out[i].block = w.block
                                  /\ ArrayLength(out[i].it) > Len(w.it.array)
      BY <2>3 DEF Shorter
    <3>2. PICK k \in DOMAIN old : out[i] = old[k]
      BY <1>5, <2>2, <3>1
    <3>3. QED
      BY <2>3, <3>1, <3>2 DEF Shorter
  <2>4. ASSUME Shorter(w, old) PROVE Shorter(w, out)
    <3>1. PICK i \in DOMAIN old : /\ IsDeclaration(old[i]) /\ old[i].block = w.block
                                  /\ ArrayLength(old[i].it) > Len(w.it.array)
      BY <2>4 DEF Shorter
    <3>2. PICK k \in DOMAIN out : out[k] = old[i]
      BY <1>5
    <3>3. QED
      BY <2>4, <3>1, <3>2 DEF Shorter
  <2>5. Shorter(w, out) \in BOOLEAN /\ Shorter(w, old) \in BOOLEAN
    BY DEF Shorter
  <2>6. QED
    BY <2>3, <2>4, <2>5
<1>8. ASSUME NEW i \in DOMAIN more, IsDeclaration(more[i])
      PROVE  Shorter(more[i], out) = Part(more[i].it, s)
  <2> DEFINE w == more[i]
             k == Len(w.it.array)
  <2>1. w.block = s.block /\ k \in Nat
    <3>1. w.block = s.block /\ HasType(w.it)
      BY <1>3, <1>8 DEF Formed
    <3>2. w.it.array \in Seq(Ranges)
      BY <3>1, ArrayFacts
    <3>3. QED
      BY <3>1, <3>2
  <2>2. ASSUME Shorter(w, out) PROVE Part(w.it, s)
    <3>1. PICK j \in DOMAIN out : /\ IsDeclaration(out[j]) /\ out[j].block = w.block
                                  /\ ArrayLength(out[j].it) > k
      BY <2>2 DEF Shorter
    <3>2. \A l \in DOMAIN old : out[j] # old[l]
      BY <1>1, <1>2, <1>6, <2>1, <3>1 DEF Earlier, IsDeclaration
    <3>3. PICK l \in DOMAIN more : out[j] = more[l]
      BY <1>5, <3>2
    <3>4. HasType(out[j].it) /\ ArrayLength(out[j].it) <= Len(s.array)
      BY <1>3, <3>1, <3>3 DEF Formed
    <3>a. ArrayLength(out[j].it) \in Nat
      BY <3>4, ArrayLengthType
    <3>5. ~NoBracket(w.it.array, w.it.oddArray)
      BY <2>2 DEF Shorter
    <3> DEFINE other == ArrayLength(out[j].it)
               most == Len(s.array)
    <3>6. k < most
      <4>1. other > k /\ other <= most /\ other \in Nat /\ most \in Nat /\ k \in Nat
        BY <1>1, <2>1, <3>1, <3>4, <3>a
      <4> HIDE DEF other, most, k
      <4>2. QED
        BY <4>1
    <3>7. QED
      BY <3>5, <3>6 DEF Part
  <2>3. ASSUME Part(w.it, s) PROVE Shorter(w, out)
    <3>1. PICK l \in DOMAIN more :
            IsDeclaration(more[l]) /\ ArrayLength(more[l].it) = Len(s.array)
      BY <1>8 DEF Even
    <3>2. PICK j \in DOMAIN out : out[j] = more[l]
      BY <1>5
    <3>3. out[j].block = w.block
      BY <1>3, <2>1, <3>2 DEF Formed
    <3>4. ~NoBracket(w.it.array, w.it.oddArray) /\ k < Len(s.array)
      BY <2>3 DEF Part
    <3>5. ArrayLength(out[j].it) > k
      BY <1>1, <2>1, <3>1, <3>2, <3>4
    <3>6. QED
      BY <3>1, <3>2, <3>3, <3>4, <3>5 DEF Shorter
  <2>4. Shorter(w, out) \in BOOLEAN /\ Part(w.it, s) \in BOOLEAN
    BY DEF Shorter, Part
  <2>5. QED
    BY <2>2, <2>3, <2>4
<1> DEFINE base == s.var + (IF s.array = <<>> THEN 0 ELSE 1 + Total(s.array))
<1>9. base \in Int
  <2>1. Len(s.array) <= MaxParts
    BY DEF Sized
  <2>2. Total(s.array) \in Nat
    BY <1>1, <2>1, TotalFacts
  <2>3. QED
    BY <1>1, <2>2
<1>10. ASSUME NEW i \in DOMAIN more, Plain(more[i])
       PROVE  EndOf(more[i], out) = more[i].name + base
  <2> DEFINE it == more[i].it
             odds == SumOf(it.oddArray)
             tail == it.tail
             end == more[i].end
             name == more[i].name
             extra == IF Part(it, s) THEN 1 ELSE 0
  <2>1. name \in Int /\ end = name + Beyond(s, it) + odds + tail
    BY <1>3, <1>6, <1>10 DEF Formed
  <2>2. Shorter(more[i], out) = Part(it, s)
    BY <1>8, <1>10 DEF Plain
  <2>3. Beyond(s, it) = base + extra /\ extra \in Nat
    BY DEF Beyond
  <2>4. HasType(it)
    BY <1>3, <1>10 DEF Formed, Plain
  <2>5. odds \in Nat /\ tail \in Nat
    <3> HIDE DEF it
    <3>1. it.oddArray \in Seq(Widths) /\ it.tail \in Nat
      BY <2>4, ArrayFacts, DeclaresFacts
    <3>2. QED
      BY <3>1, WidthSums
  <2>6. EndOf(more[i], out) = end - tail - odds - extra
    BY <2>2 DEF EndOf
  <2> HIDE DEF it, base, odds, tail, end, name, extra
  <2>7. end = name + (base + extra) + odds + tail
    BY <2>1, <2>3
  <2>8. EndOf(more[i], out) = name + base
    BY <1>9, <2>1, <2>3, <2>5, <2>6, <2>7
  <2>9. QED
    BY <2>8 DEF name
<1> HIDE DEF base
<1>11. ASSUME NEW i \in DOMAIN more, NEW j \in DOMAIN more
       PROVE  InColumns(more[i], more[j], out)
  <2> DEFINE v == more[i]
             w == more[j]
  <2> SUFFICES ASSUME v.it.kind = w.it.kind
               PROVE  /\ Plain(v) /\ Plain(w)
                           /\ (IsPort(v.it) => Len(v.it.mods) = Len(w.it.mods)) =>
                           v.name = w.name /\ EndOf(v, out) = EndOf(w, out)
                      /\ v.it.kind = "ContinuousAssign" => v.name = w.name /\ v.end = v.name
    BY DEF InColumns
  <2>1. ASSUME Plain(v), Plain(w), IsPort(v.it) => Len(v.it.mods) = Len(w.it.mods)
        PROVE  v.name = w.name /\ EndOf(v, out) = EndOf(w, out)
    <3>1. Start(s, v.it) = Start(s, w.it)
      BY <2>1 DEF Start, IsPort
    <3>2. v.name = w.name
      BY <1>3, <2>1, <3>1 DEF Formed
    <3>3. EndOf(v, out) = v.name + base /\ EndOf(w, out) = w.name + base
      BY <1>10, <2>1
    <3>4. QED
      BY <3>2, <3>3
  <2>2. v.it.kind = "ContinuousAssign" => v.name = w.name /\ v.end = v.name
    BY <1>3 DEF Formed
  <2>3. QED
    BY <2>1, <2>2
<1>12. ASSUME NEW i \in DOMAIN old, NEW j \in DOMAIN old
       PROVE  InColumns(old[i], old[j], out)
  <2>1. InColumns(old[i], old[j], old)
    BY <1>4 DEF Calm
  <2>2. ASSUME Plain(old[i]), Plain(old[j])
        PROVE  EndOf(old[i], out) = EndOf(old[i], old) /\ EndOf(old[j], out) = EndOf(old[j], old)
    <3>1. /\ old[i].it.kind # "HierarchyInstantiation" /\ old[j].it.kind # "HierarchyInstantiation"
      BY <2>2 DEF Plain, IsDeclaration
    <3>2. QED
      BY <1>2, <1>7, <3>1 DEF EndOf
  <2>3. QED
    BY <2>1, <2>2 DEF InColumns
<1>13. ASSUME NEW v \in Outs, NEW w \in Outs, v.block = w.block => v.it.kind # w.it.kind \/ v.it.kind = "HierarchyInstantiation"
       PROVE  InColumns(v, w, out)
  BY <1>13 DEF InColumns, Plain, IsDeclaration
<1>14. ASSUME NEW i \in DOMAIN old, NEW j \in DOMAIN more
       PROVE  InColumns(old[i], more[j], out) /\ InColumns(more[j], old[i], out)
  <2>1. old[i] \in Outs /\ more[j] \in Outs /\ Earlier(old[i]) /\ more[j].block = s.block
    BY <1>2, <1>3 DEF Formed
  <2>2. old[i].block = more[j].block => old[i].it.kind = "HierarchyInstantiation"
    BY <1>1, <1>6, <2>1 DEF Earlier
  <2>3. QED
    BY <1>13, <2>1, <2>2
<1>15. \A i, j \in DOMAIN out : InColumns(out[i], out[j], out)
  BY <1>5, <1>11, <1>12, <1>14
<1>16. \A i \in DOMAIN out : LeadKept(out[i]) /\ (out[i].fails => Faulty(out[i].it))
  BY <1>3, <1>4, <1>5 DEF Calm, Formed
<1>17. \A i \in DOMAIN out :
         out[i].it.kind # "HierarchyInstantiation" => out[i].block <= s.block
  BY SMTT(40), <1>1, <1>2, <1>3, <1>5, <1>6 DEF Formed, Earlier
<1>18. QED
  BY <1>5, <1>15, <1>16, <1>17 DEF Calm, out, old

(* What a handler writes of an item that waits in the block s.             *)
LEMMA FormatFacts ==
  ASSUME NEW s \in Visitors, Sized(s), NEW q \in Entries, q.it \in Pending(s)
  PROVE  LET w == Format(s, q)
         IN  w \in Outs /\ WrittenOf(w, s, q) /\ Formed(w, s)
<1>1. q.it \in Gathered /\ q.it.kind # "HierarchyInstantiation"
  BY GatheredFacts DEF Entries
<1>2. CASE q.it.kind = "ContinuousAssign"
  <2>1. q.it \in Assigns(s) /\ Format(s, q) = FormatAssign(s, q)
    BY <1>2 DEF Assigns, Format
  <2> DEFINE w == FormatAssign(s, q)
  <2>2. /\ w \in Outs /\ WrittenOf(w, s, q) /\ LeadKept(w) /\ ~w.fails
        /\ w.name = 8 + s.var /\ w.end = w.name
    BY <2>1, FormatAssignFacts
  <2> HIDE DEF w
  <2>3. ~IsDeclaration(w) /\ ~Plain(w)
    BY <1>2, <2>2 DEF IsDeclaration, Plain, WrittenOf
  <2>4. Formed(w, s)
    BY <2>2, <2>3 DEF Formed, WrittenOf
  <2>5. QED
    BY <2>1, <2>2, <2>4 DEF w
<1>3. CASE q.it.kind # "ContinuousAssign"
  <2>1. q.it \in Declarations(s) /\ Format(s, q) = FormatDeclaration(s, q)
    BY <1>1, <1>3 DEF Declarations, Format
  <2> DEFINE w == FormatDeclaration(s, q)
  <2>2. /\ w \in Outs /\ WrittenOf(w, s, q) /\ LeadKept(w) /\ (w.fails => Faulty(w.it))
        /\ Plain(w) => /\ w.name = Start(s, w.it) + After(s)
                       /\ w.end = w.name + Beyond(s, w.it) + SumOf(w.it.oddArray) + w.it.tail
    BY <2>1, FormatDeclarationFacts
  <2> HIDE DEF w
  <2>3. w.it = q.it
    BY <2>2 DEF WrittenOf
  <2>4. HasType(w.it) /\ ArrayLength(w.it) <= Len(s.array)
    BY <2>1, <2>3, RoomForDeclaration
  <2>5. Formed(w, s)
    BY <1>3, <2>2, <2>3, <2>4 DEF Formed, WrittenOf
  <2>6. QED
    BY <2>1, <2>2, <2>5 DEF w
<1>4. QED
  BY <1>2, <1>3

(* A new visitor, or one that a block leaves, measured nothing.            *)
LEMMA NothingPending ==
  ASSUME NEW s \in Visitors, s.mods = <<>>, s.dims = <<>>, s.array = <<>>,
         s.type = 0, s.var = 0, s.queue = <<>>
  PROVE  Sized(s)
<1>1. Pending(s) = {} /\ Declarations(s) = {} /\ Assigns(s) = {}
  BY DEF Pending, Declarations, Assigns
<1>2. MaxIn({}) = 0
  BY DEF MaxIn
<1>3. /\ {Modifiers(it) : it \in Declarations(s)} = {}
      /\ {TypeLength(it) : it \in Declarations(s)} = {}
      /\ {TypeDims(it) : it \in Declarations(s)} = {}
      /\ UNION {{FirstArray(it), it.otherArray} : it \in Declarations(s)} = {}
      /\ (UNION {{it.name} \cup it.others : it \in Declarations(s)})
           \cup (UNION {ToSet(it.lefts) : it \in Assigns(s)}) = {}
  BY <1>1
<1>4. Longest(<<>>, {}) /\ Covers(<<>>, {}) /\ CoversPairs(<<>>, {})
  <2>1. {Len(d) : d \in {}} = {} /\ Len(<<>>) = 0 /\ DOMAIN <<>> = {}
    OBVIOUS
  <2>2. QED
    BY <1>2, <2>1 DEF Longest, Covers, CoversPairs
<1>5. Fits(s)
  BY <1>2, <1>3, <1>4 DEF Fits
<1>6. MaxParts \in Nat /\ MaxWidth \in Nat
  BY RoomFacts
<1>7. QED
  BY <1>5, <1>6 DEF Sized

Emptied(s, kind, out, block) ==
  /\ s.mods = <<>> /\ s.dims = <<>> /\ s.array = <<>> /\ s.type = 0 /\ s.var = 0
  /\ s.queue = <<>> /\ s.kind = kind /\ s.out = out /\ s.block = block

LEMMA ClearFacts ==
  ASSUME NEW s, s.kind \in KindNames, s.out \in Seq(Outs), s.block \in Nat
  PROVE  Clear(s) \in Visitors /\ Emptied(Clear(s), s.kind, s.out, s.block)
<1> DEFINE new == NewVisitor
           kind == s.kind
           out == s.out
           block == s.block
<1>1. new \in Visitors
  <2>1. 0 \in Widths /\ "Unknown" \in KindNames
    BY RoomFacts DEF Widths, KindNames
  <2>2. QED
    BY <2>1 DEF NewVisitor, Visitors
<1>2. /\ new.mods = <<>> /\ new.dims = <<>> /\ new.array = <<>> /\ new.type = 0
      /\ new.var = 0 /\ new.queue = <<>>
  BY DEF NewVisitor
<1>3. kind \in KindNames /\ out \in Seq(Outs) /\ block \in Nat
  OBVIOUS
<1>4. Clear(s) = [new EXCEPT !.kind = kind, !.out = out, !.block = block]
  BY DEF Clear
<1> HIDE DEF new, kind, out, block
<1> DEFINE t == [new EXCEPT !.kind = kind, !.out = out, !.block = block]
<1>5. t \in Visitors
  BY <1>1, <1>3 DEF Visitors
<1>6. Emptied(t, kind, out, block)
  BY <1>1, <1>2 DEF Visitors, Emptied
<1>7. QED
  BY <1>4, <1>5, <1>6 DEF kind, out, block

Good(s) == s \in Visitors /\ Sized(s) /\ Settled(s)

(* _process_pending: the block is written, in columns.                     *)
LEMMA ProcessFacts ==
  ASSUME NEW s, Good(s)
  PROVE  LET t == ProcessPending(s)
         IN  /\ Good(t) /\ t.queue = <<>> /\ t.kind = s.kind /\ Traced(t) = Traced(s)
             /\ t.out = s.out \o [i \in DOMAIN s.queue |-> Format(s, s.queue[i])]
<1> DEFINE more == [i \in DOMAIN s.queue |-> Format(s, s.queue[i])]
           out == s.out \o more
           t == ProcessPending(s)
<1>1. s \in Visitors /\ Sized(s) /\ Settled(s) /\ s.queue \in Seq(Entries) /\ s.out \in Seq(Outs)
  BY DEF Good, Visitors
<1>2. ASSUME NEW i \in DOMAIN s.queue
      PROVE  more[i] \in Outs /\ WrittenOf(more[i], s, s.queue[i]) /\ Formed(more[i], s)
  <2>1. s.queue[i] \in Entries /\ s.queue[i].it \in Pending(s)
    BY <1>1 DEF Pending
  <2>2. QED
    BY <1>1, <2>1, FormatFacts
<1>3. DOMAIN more = DOMAIN s.queue /\ DOMAIN s.queue = 1 .. Len(s.queue) /\ Len(s.queue) \in Nat
  BY <1>1
<1> HIDE DEF more
<1>4. more \in Seq(Outs)
  <2> DEFINE writes == [i \in 1 .. Len(s.queue) |-> Format(s, s.queue[i])]
  <2>1. more = writes
    BY <1>3 DEF more
  <2>2. \A i \in 1 .. Len(s.queue) : Format(s, s.queue[i]) \in Outs
    BY <1>2, <1>3 DEF more
  <2>3. writes \in Seq(Outs)
    BY <1>3, <2>2
  <2>4. QED
    BY <2>1, <2>3
<1>5. Even(more, s)
  <2>1. \A i \in DOMAIN more : Formed(more[i], s)
    BY <1>2, <1>3
  <2>2. ASSUME NEW i \in DOMAIN more, IsDeclaration(more[i])
        PROVE  \E k \in DOMAIN more : /\ IsDeclaration(more[k])
                                      /\ ArrayLength(more[k].it) = Len(s.array)
    <3>1. more[i].it = s.queue[i].it /\ s.queue[i].it \in Pending(s)
      BY <1>2, <1>3 DEF WrittenOf, Pending
    <3>2. s.queue[i].it \in Declarations(s)
      BY <2>2, <3>1 DEF IsDeclaration, Declarations
    <3>3. PICK d \in Declarations(s) : ArrayLength(d) = Len(s.array)
      BY <1>1, <3>2, RoomForDeclaration
    <3>4. PICK k \in DOMAIN s.queue : d = s.queue[k].it
      BY DEF Declarations, Pending
    <3>5. k \in DOMAIN more /\ more[k].it = d
      BY <1>2, <1>3, <3>4 DEF WrittenOf
    <3>6. d.kind # "HierarchyInstantiation" /\ d.kind # "ContinuousAssign"
      BY <1>1, PendingFacts, GatheredFacts DEF Declarations
    <3>7. QED
      BY <3>3, <3>5, <3>6 DEF IsDeclaration
  <2>3. QED
    BY <2>1, <2>2 DEF Even
<1>6. /\ out \in Seq(Outs) /\ Calm(out)
      /\ \A i \in DOMAIN out :
           out[i].it.kind # "HierarchyInstantiation" => out[i].block <= s.block
  BY <1>1, <1>4, <1>5, OutGrows
<1>7. t \in Visitors /\ Emptied(t, s.kind, out, s.block + 1)
  <2> DEFINE r == [s EXCEPT !.out = s.out \o more, !.block = s.block + 1]
  <2>1. t = Clear(r)
    BY DEF ProcessPending, more
  <2>2. r.kind = s.kind /\ r.out = out /\ r.block = s.block + 1
    BY <1>1 DEF Visitors
  <2>3. r.kind \in KindNames /\ r.out \in Seq(Outs) /\ r.block \in Nat
    BY <1>1, <1>6, <2>2 DEF Visitors
  <2> HIDE DEF r, out
  <2>4. Clear(r) \in Visitors /\ Emptied(Clear(r), r.kind, r.out, r.block)
    BY <2>3, ClearFacts
  <2>5. QED
    BY <2>1, <2>2, <2>4
<1>8. s.kind \in KindNames /\ s.block \in Nat
  BY <1>1 DEF Visitors
<1> HIDE DEF out, t
<1>9. /\ t.mods = <<>> /\ t.dims = <<>> /\ t.array = <<>> /\ t.type = 0 /\ t.var = 0
      /\ t.queue = <<>> /\ t.kind = s.kind /\ t.out = out /\ t.block = s.block + 1
  BY <1>7 DEF Emptied
<1>10. Sized(t)
  BY <1>7, <1>9, NothingPending
<1>11. \A i \in DOMAIN out : out[i].block \in Nat
  <2>1. \A w \in Outs : w.block \in Nat
    BY DEF Outs
  <2>2. QED
    BY <1>6, <2>1
<1>12. Settled(t)
  BY <1>6, <1>8, <1>9, <1>11 DEF Settled
<1>13. EntriesOf(more) = s.queue
  <2>1. \A i \in 1 .. Len(s.queue) :
          [at |-> more[i].at, it |-> more[i].it] = s.queue[i]
    <3>1. \A q \in Entries : q = [at |-> q.at, it |-> q.it]
      BY DEF Entries
    <3>2. TAKE i \in 1 .. Len(s.queue)
    <3>3. s.queue[i] \in Entries /\ more[i].at = s.queue[i].at /\ more[i].it = s.queue[i].it
      BY <1>1, <1>2, <1>3 DEF WrittenOf
    <3>4. QED
      BY <3>1, <3>3
  <2>2. EntriesOf(more) = [i \in 1 .. Len(s.queue) |-> s.queue[i]]
    BY <1>3, <2>1 DEF EntriesOf
  <2>3. QED
    BY SMTT(40), <1>1, <1>3, <2>2
<1>14. Traced(t) = Traced(s)
  <2>1. EntriesOf(out) = EntriesOf(s.out) \o s.queue
    BY <1>1, <1>4, <1>13, EntriesJoin DEF out
  <2>2. Traced(t) = EntriesOf(out) \o <<>> /\ Traced(s) = EntriesOf(out)
    BY <1>9, <2>1 DEF Traced
  <2>3. EntriesOf(out) \in Seq(All)
    BY <1>6, EntriesJoin
  <2>4. QED
    BY <2>2, <2>3, ConcatProperties
<1>15. QED
  BY <1>7, <1>9, <1>10, <1>12, <1>14 DEF Good, t, out, more

(* What a handler leaves of a visitor.                                     *)
Continues(t, s, kind) == Good(t) /\ Traced(t) = Traced(s) /\ t.kind = kind

LEMMA SplitFacts ==
  ASSUME NEW s, Good(s), NEW it
  PROVE  Continues(SplitBloc(s, it), s, s.kind)
<1>1. SplitBloc(s, it) \in {s, ProcessPending(s)}
  BY DEF SplitBloc
<1>2. Continues(s, s, s.kind) /\ Continues(ProcessPending(s), s, s.kind)
  BY ProcessFacts DEF Continues
<1>3. QED
  BY <1>1, <1>2

LEMMA KindFacts ==
  ASSUME NEW s, Good(s), NEW kind \in KindNames
  PROVE  LET t == [s EXCEPT !.kind = kind]
         IN  Continues(t, s, kind) /\ t.queue = s.queue
<1> DEFINE t == [s EXCEPT !.kind = kind]
<1>1. s \in Visitors /\ Sized(s) /\ Settled(s)
  BY DEF Good
<1>2. /\ t \in Visitors /\ t.kind = kind /\ t.queue = s.queue /\ t.out = s.out
      /\ t.block = s.block /\ t.mods = s.mods /\ t.dims = s.dims /\ t.array = s.array
      /\ t.type = s.type /\ t.var = s.var
  BY <1>1 DEF Visitors
<1> HIDE DEF t
<1>3. /\ Pending(t) = Pending(s) /\ Declarations(t) = Declarations(s)
      /\ Assigns(t) = Assigns(s)
  BY <1>2 DEF Pending, Declarations, Assigns
<1>4. Sized(t)
  BY <1>1, <1>2, <1>3 DEF Sized, Fits
<1>5. Settled(t) /\ Traced(t) = Traced(s)
  BY <1>1, <1>2 DEF Settled, Traced
<1>6. QED
  BY <1>2, <1>4, <1>5 DEF Continues, Good, t

(* _switch_bloc_type                                                       *)
LEMMA SwitchFacts ==
  ASSUME NEW s, Good(s), NEW kind \in KindNames, NEW force \in BOOLEAN
  PROVE  LET t == SwitchBlocType(s, kind, force)
         IN  /\ Continues(t, s, IF s.kind = "Unknown" THEN kind ELSE s.kind)
             /\ t.queue = IF force \/ kind # t.kind THEN <<>> ELSE s.queue
<1> DEFINE new == IF s.kind = "Unknown" THEN kind ELSE s.kind
           u == IF s.kind = "Unknown" THEN [s EXCEPT !.kind = kind] ELSE s
           t == SwitchBlocType(s, kind, force)
<1>1. Continues(u, s, new) /\ u.queue = s.queue
  BY KindFacts DEF Continues
<1>2. t = IF force \/ kind # u.kind THEN ProcessPending(u) ELSE u
  BY DEF SwitchBlocType
<1>3. Continues(ProcessPending(u), s, new) /\ ProcessPending(u).queue = <<>>
  <2> HIDE DEF u, new
  <2>1. Good(u) /\ Traced(u) = Traced(s) /\ u.kind = new
    BY <1>1 DEF Continues
  <2>2. QED
    BY <2>1, ProcessFacts DEF Continues
<1> HIDE DEF u, t, new
<1>4. u.kind = new
  BY <1>1 DEF Continues
<1>5. t.kind = new /\ Continues(t, s, new)
  BY <1>1, <1>2, <1>3 DEF Continues
<1>6. t.queue = IF force \/ kind # t.kind THEN <<>> ELSE s.queue
  BY <1>1, <1>2, <1>3, <1>4, <1>5
<1>7. QED
  BY <1>5, <1>6 DEF t, new

(* Everything about a visitor that an item that enters its queue leaves.   *)
LEMMA QueuedFacts ==
  ASSUME NEW s, Good(s), NEW r \in Visitors, NEW q \in Entries,
         r.queue = s.queue, r.out = s.out, r.block = s.block, r.kind = s.kind
  PROVE  LET t == Queued(r, q)
         IN  /\ t \in Visitors /\ Settled(t) /\ Traced(t) = Traced(s) \o <<q>>
             /\ t.kind = s.kind /\ t.queue = Append(s.queue, q)
             /\ Pending(t) = Pending(s) \cup {q.it}
             /\ t.mods = r.mods /\ t.dims = r.dims /\ t.array = r.array
             /\ t.type = r.type /\ t.var = r.var
<1> DEFINE t == Queued(r, q)
<1>1. s \in Visitors /\ Settled(s) /\ s.queue \in Seq(Entries)
  BY DEF Good, Visitors
<1>2. t = [r EXCEPT !.queue = Append(r.queue, q)]
  BY DEF Queued
<1>3. Append(r.queue, q) \in Seq(Entries)
  BY DEF Visitors
<1>4. /\ t \in Visitors /\ t.kind = s.kind /\ t.queue = Append(s.queue, q)
      /\ t.out = s.out /\ t.block = s.block
      /\ t.mods = r.mods /\ t.dims = r.dims /\ t.array = r.array
      /\ t.type = r.type /\ t.var = r.var
  <2> DEFINE queue == Append(r.queue, q)
  <2> HIDE DEF queue
  <2>1. queue \in Seq(Entries) /\ queue = Append(s.queue, q)
    BY <1>3 DEF queue
  <2>2. t = [r EXCEPT !.queue = queue]
    BY <1>2 DEF queue
  <2> HIDE DEF t
  <2>3. QED
    BY <2>1, <2>2 DEF Visitors
<1> HIDE DEF t
<1>5. Settled(t)
  BY <1>1, <1>4 DEF Settled
<1>6. /\ Len(s.queue) \in Nat /\ Len(t.queue) = Len(s.queue) + 1 /\ t.queue \in Seq(Entries)
      /\ t.queue[Len(s.queue) + 1] = q /\ \A i \in 1 .. Len(s.queue) : t.queue[i] = s.queue[i]
  BY <1>1, <1>4, AppendFacts
<1>7. Pending(t) = Pending(s) \cup {q.it}
  <2>1. DOMAIN t.queue = DOMAIN s.queue \cup {Len(s.queue) + 1}
    BY <1>1, <1>6
  <2>2. \A i \in DOMAIN s.queue : t.queue[i].it = s.queue[i].it
    BY <1>1, <1>6
  <2>3. QED
    BY <1>6, <2>1, <2>2 DEF Pending
<1>8. Traced(t) = Traced(s) \o <<q>>
  <2>1. EntriesOf(s.out) \in Seq(All) /\ s.queue \in Seq(All) /\ <<q>> \in Seq(All)
    <3>1. q \in All
      BY DEF Entries, All, Places2
    <3>2. QED
      BY <1>1, <3>1, TracedFacts, EntriesJoin
  <2>2. Append(s.queue, q) = s.queue \o <<q>>
    BY <1>1
  <2> DEFINE before == EntriesOf(s.out)
  <2>3. Traced(t) = before \o (s.queue \o <<q>>) /\ Traced(s) = before \o s.queue
    BY <1>4, <2>2 DEF Traced
  <2> HIDE DEF before
  <2>4. before \o (s.queue \o <<q>>) = (before \o s.queue) \o <<q>>
    <3> DEFINE queue == s.queue
               last == <<q>>
    <3>1. before \in Seq(All) /\ queue \in Seq(All) /\ last \in Seq(All)
      BY <2>1 DEF before
    <3> HIDE DEF queue, last
    <3>2. (before \o queue) \o last = before \o (queue \o last)
      BY SMTT(40), <3>1, ConcatAssociative
    <3>3. QED
      BY <3>2 DEF queue, last
  <2>5. QED
    BY <2>3, <2>4
<1>9. QED
  BY <1>4, <1>5, <1>7, <1>8 DEF t

(* What a step adds to a visitor: it continues s, and then has q.          *)
Adds(t, s, q) == Good(t) /\ Traced(t) = Traced(s) \o <<q>> /\ t.kind = s.kind

(* _store_format of a declaration or a port: the block has room for it.    *)
LEMMA MeasuredFacts ==
  ASSUME NEW s, Good(s), NEW q \in Entries, HasType(q.it)
  PROVE  LET t == Queued(Measured(s, q.it), q)
         IN  Adds(t, s, q) /\ t.queue = Append(s.queue, q)
<1> DEFINE it == q.it
           r == Measured(s, it)
           t == Queued(r, q)
           D == Declarations(s)
           names == UNION {{d.name} \cup d.others : d \in D}
           lefts == UNION {ToSet(d.lefts) : d \in Assigns(s)}
           mine == {it.name} \cup it.others
           mods == Widen(s.mods, Modifiers(it))
           dims == WidenPairs(s.dims, TypeDims(it))
           first == FirstArray(it)
           once == WidenPairs(s.array, first)
           array == WidenPairs(once, it.otherArray)
           type == Larger(s.type, TypeLength(it))
           var == MaxIn({s.var, it.name} \cup it.others)
<1>1. /\ s \in Visitors /\ Sized(s)
      /\ s.mods \in Seq(Widths) /\ s.dims \in Seq(Ranges) /\ s.array \in Seq(Ranges)
      /\ s.type \in Nat /\ s.var \in Widths /\ s.var \in Nat
  <2>1. s \in Visitors /\ Sized(s)
    BY DEF Good
  <2>2. s.var \in Widths
    BY <2>1 DEF Visitors
  <2>3. Widths \subseteq Nat
    BY RoomFacts DEF Widths
  <2>4. QED
    BY <2>1, <2>2, <2>3 DEF Visitors
<1>2. /\ (\A d \in D : HasType(d)) /\ (\A d \in Assigns(s) : Assignment(d))
      /\ it.kind # "ContinuousAssign"
  BY <1>1, PendingFacts, GatheredFacts DEF Entries
<1>3. /\ Modifiers(it) \in Seq(Widths) /\ Len(Modifiers(it)) <= MaxParts + 1
      /\ TypeDims(it) \in Seq(Ranges) /\ Len(TypeDims(it)) <= MaxParts
      /\ first \in Seq(Ranges) /\ Len(first) <= MaxParts
      /\ it.otherArray \in Seq(Ranges) /\ Len(it.otherArray) <= MaxParts
      /\ TypeLength(it) \in Nat /\ TypeLength(it) <= 2 * MaxWidth + 1
      /\ mine \subseteq Widths
  <2> HIDE DEF it
  <2>1. HasType(it)
    BY DEF it
  <2>2. QED
    BY <2>1, ModifiersFacts, DeclaresFacts, ArrayFacts
<1>4. /\ Covers(s.mods, {Modifiers(d) : d \in D})
      /\ s.type = MaxIn({TypeLength(d) : d \in D}) /\ s.var = MaxIn(names \cup lefts)
      /\ CoversPairs(s.dims, {TypeDims(d) : d \in D})
      /\ CoversPairs(s.array, ArraysOf(D))
      /\ Len(s.mods) <= MaxParts + 1 /\ Len(s.dims) <= MaxParts /\ Len(s.array) <= MaxParts
      /\ s.type <= 2 * MaxWidth + 1
  BY <1>1 DEF Sized, Fits, ArraysOf
<1> HIDE DEF D, it
<1>5. /\ {Modifiers(d) : d \in D} \in SUBSET Seq(Widths) /\ Short({Modifiers(d) : d \in D})
      /\ {TypeDims(d) : d \in D} \in SUBSET Seq(Ranges) /\ Short({TypeDims(d) : d \in D})
      /\ ArraysOf(D) \in SUBSET Seq(Ranges) /\ Short(ArraysOf(D))
      /\ Bounded({TypeLength(d) : d \in D}) /\ Bounded(names) /\ Bounded(lefts)
  BY <1>2, DeclarationSets, AssignSets
<1>6. /\ mods \in Seq(Widths) /\ Covers(mods, {Modifiers(d) : d \in D} \cup {Modifiers(it)})
      /\ Len(mods) = Larger(Len(s.mods), Len(Modifiers(it)))
  BY <1>1, <1>3, <1>4, <1>5, WidenFacts, WidenCovers
<1>7. /\ dims \in Seq(Ranges) /\ CoversPairs(dims, {TypeDims(d) : d \in D} \cup {TypeDims(it)})
      /\ Len(dims) = Larger(Len(s.dims), Len(TypeDims(it)))
  BY <1>1, <1>3, <1>4, <1>5, WidenPairsFacts, WidenPairsCovers
<1>8. /\ array \in Seq(Ranges)
      /\ CoversPairs(array, (ArraysOf(D) \cup {first}) \cup {it.otherArray})
      /\ Len(array) = Larger(Larger(Len(s.array), Len(first)), Len(it.otherArray))
  <2> HIDE DEF first
  <2>1. /\ once \in Seq(Ranges) /\ CoversPairs(once, ArraysOf(D) \cup {first})
        /\ Len(once) = Larger(Len(s.array), Len(first))
    BY <1>1, <1>3, <1>4, <1>5, WidenPairsFacts, WidenPairsCovers
  <2>2. ArraysOf(D) \cup {first} \in SUBSET Seq(Ranges)
    BY <1>3, <1>5
  <2>3. Short(ArraysOf(D) \cup {first})
    <3>1. PICK b \in Nat : \A d \in ArraysOf(D) : Len(d) <= b
      BY <1>5 DEF Short
    <3>2. Larger(b, Len(first)) \in Nat /\ b <= Larger(b, Len(first))
          /\ Len(first) <= Larger(b, Len(first)) /\ Len(first) \in Nat
      BY <1>3, <3>1 DEF Larger
    <3>3. \A d \in ArraysOf(D) : Len(d) \in Nat
      BY <1>5
    <3>4. \A d \in ArraysOf(D) : Len(d) <= Larger(b, Len(first))
      <4> DEFINE c == Larger(b, Len(first))
      <4> HIDE DEF c
      <4>1. c \in Nat /\ b <= c
        BY <3>2 DEF c
      <4>2. QED
        BY <3>1, <3>3, <4>1 DEF c
    <3>5. QED
      BY <3>2, <3>4 DEF Short
  <2> DEFINE all == ArraysOf(D) \cup {first}
             other == it.otherArray
  <2>4. /\ all \in SUBSET Seq(Ranges) /\ Short(all)
        /\ CoversPairs(once, all) /\ other \in Seq(Ranges)
    BY <1>3, <2>1, <2>2, <2>3
  <2> HIDE DEF once, all, other
  <2>5. /\ WidenPairs(once, other) \in Seq(Ranges)
        /\ CoversPairs(WidenPairs(once, other), all \cup {other})
    BY <2>1, <2>4, WidenPairsFacts, WidenPairsCovers
  <2>6. Len(WidenPairs(once, other)) = Larger(Len(once), Len(other))
    BY <2>1, <2>4, WidenPairsFacts
  <2>7. QED
    BY <2>1, <2>5, <2>6 DEF all, other
<1>9. type \in Nat /\ type <= 2 * MaxWidth + 1
      /\ type = MaxIn({TypeLength(d) : d \in D} \cup {TypeLength(it)})
  <2>1. type \in {s.type, TypeLength(it)}
    BY DEF Larger
  <2>2. type = MaxIn({TypeLength(d) : d \in D} \cup {TypeLength(it)})
    BY <1>3, <1>4, <1>5, MaxWith
  <2>3. QED
    BY <1>1, <1>3, <1>4, <2>1, <2>2
<1>10. /\ var \in Widths /\ var = MaxIn((names \cup mine) \cup lefts)
  <2>1. MaxWidth \in Nat
    BY RoomFacts
  <2>2. Bounded(mine)
    BY <1>3, <2>1 DEF Bounded, Widths
  <2> HIDE DEF names, lefts
  <2>3. Bounded(names \cup lefts)
    BY <1>5, BoundedUnion
  <2>4. {s.var, it.name} \cup it.others = {s.var} \cup mine
        /\ (names \cup mine) \cup lefts = (names \cup lefts) \cup mine
    OBVIOUS
  <2> HIDE DEF mine
  <2>5. MaxIn({MaxIn(names \cup lefts)} \cup mine) = MaxIn((names \cup lefts) \cup mine)
    BY <2>2, <2>3, MaxOfUnion
  <2>6. var = MaxIn({s.var} \cup mine) /\ var = MaxIn((names \cup mine) \cup lefts)
    BY <1>4, <2>4, <2>5
  <2>7. {s.var} \cup mine \subseteq Widths /\ {s.var} \cup mine # {}
    BY <1>1, <1>3
  <2>8. Bounded({s.var} \cup mine)
    BY <2>1, <2>7 DEF Bounded, Widths
  <2>9. MaxIn({s.var} \cup mine) \in {s.var} \cup mine
    BY <2>7, <2>8, MaxFacts
  <2>10. QED
    BY <2>6, <2>7, <2>9
<1>11. /\ Len(mods) <= MaxParts + 1 /\ Len(dims) <= MaxParts /\ Len(array) <= MaxParts
  <2>1. /\ Len(s.array) \in Nat /\ Len(first) \in Nat /\ Len(it.otherArray) \in Nat
        /\ MaxParts \in Nat
    BY <1>1, <1>3, RoomFacts
  <2> HIDE DEF mods, dims, array, first
  <2>2. QED
    BY <1>3, <1>4, <1>6, <1>7, <1>8, <2>1 DEF Larger
<1> HIDE DEF mods, dims, array, type, var
<1>12. /\ r \in Visitors /\ r.mods = mods /\ r.dims = dims /\ r.array = array
       /\ r.type = type /\ r.var = var
       /\ r.queue = s.queue /\ r.out = s.out /\ r.block = s.block /\ r.kind = s.kind
  <2>1. r = [s EXCEPT !.mods = mods, !.type = type, !.dims = dims, !.var = var, !.array = array]
    BY DEF Measured, mods, type, dims, var, array, once, first
  <2> HIDE DEF r
  <2>2. QED
    BY <1>1, <1>6, <1>7, <1>8, <1>9, <1>10, <2>1 DEF Visitors
<1> HIDE DEF r
<1>13. /\ t \in Visitors /\ Settled(t) /\ Traced(t) = Traced(s) \o <<q>>
       /\ t.kind = s.kind /\ t.queue = Append(s.queue, q)
       /\ Pending(t) = Pending(s) \cup {it}
       /\ t.mods = mods /\ t.dims = dims /\ t.array = array /\ t.type = type /\ t.var = var
  BY <1>12, QueuedFacts DEF it
<1> HIDE DEF t
<1>14. Declarations(t) = D \cup {it} /\ Assigns(t) = Assigns(s)
  BY <1>2, <1>13 DEF Declarations, Assigns, D
<1>15. Fits(t)
  <2>1. {Modifiers(d) : d \in D \cup {it}} = {Modifiers(d) : d \in D} \cup {Modifiers(it)}
    OBVIOUS
  <2>2. {TypeLength(d) : d \in D \cup {it}} = {TypeLength(d) : d \in D} \cup {TypeLength(it)}
    OBVIOUS
  <2>3. {TypeDims(d) : d \in D \cup {it}} = {TypeDims(d) : d \in D} \cup {TypeDims(it)}
    OBVIOUS
  <2>4. ArraysOf(D \cup {it}) = (ArraysOf(D) \cup {first}) \cup {it.otherArray}
    BY DEF ArraysOf
  <2>5. UNION {{d.name} \cup d.others : d \in D \cup {it}} = names \cup mine
    OBVIOUS
  <2>6. Covers(t.mods, {Modifiers(d) : d \in Declarations(t)})
    BY <1>6, <1>13, <1>14, <2>1
  <2>7. t.type = MaxIn({TypeLength(d) : d \in Declarations(t)})
    BY <1>9, <1>13, <1>14, <2>2
  <2>8. CoversPairs(t.dims, {TypeDims(d) : d \in Declarations(t)})
    BY <1>7, <1>13, <1>14, <2>3
  <2>9. CoversPairs(t.array, ArraysOf(Declarations(t)))
    BY <1>8, <1>13, <1>14, <2>4
  <2>10. t.var = MaxIn((UNION {{d.name} \cup d.others : d \in Declarations(t)})
                       \cup (UNION {ToSet(d.lefts) : d \in Assigns(t)}))
    BY <1>10, <1>13, <1>14, <2>5
  <2>11. QED
    BY <2>6, <2>7, <2>8, <2>9, <2>10 DEF Fits, ArraysOf
<1>16. Sized(t)
  BY <1>9, <1>11, <1>13, <1>15 DEF Sized
<1>17. QED
  BY <1>13, <1>16 DEF Adds, Good, t, r, it

(* handle of an assign                                                     *)
LEMMA AssignedFacts ==
  ASSUME NEW s, Good(s), NEW q \in Entries, Assignment(q.it)
  PROVE  LET t == Queued([s EXCEPT !.var = MaxIn({@} \cup ToSet(q.it.lefts))], q)
         IN  Adds(t, s, q) /\ t.queue = Append(s.queue, q)
<1> DEFINE it == q.it
           mine == ToSet(it.lefts)
           var == MaxIn({s.var} \cup mine)
           r == [s EXCEPT !.var = var]
           t == Queued(r, q)
           names == UNION {{d.name} \cup d.others : d \in Declarations(s)}
           lefts == UNION {ToSet(d.lefts) : d \in Assigns(s)}
<1>1. /\ s \in Visitors /\ Sized(s) /\ s.var \in Widths /\ s.var = MaxIn(names \cup lefts)
  BY DEF Good, Visitors, Sized, Fits
<1>2. it.kind = "ContinuousAssign" /\ mine \subseteq Widths
  BY DEF Assignment, ToSet
<1>3. Bounded(names) /\ Bounded(lefts)
  BY <1>1, PendingFacts, DeclarationSets, AssignSets
<1> HIDE DEF it
<1>4. var \in Widths /\ var = MaxIn(names \cup (lefts \cup mine))
  <2>1. MaxWidth \in Nat
    BY RoomFacts
  <2> HIDE DEF names, lefts, mine
  <2>2. Bounded(mine)
    BY <1>2, <2>1 DEF Bounded, Widths
  <2>3. Bounded(names \cup lefts)
    BY <1>3, BoundedUnion
  <2>4. names \cup (lefts \cup mine) = (names \cup lefts) \cup mine
    OBVIOUS
  <2>5. MaxIn({MaxIn(names \cup lefts)} \cup mine) = MaxIn((names \cup lefts) \cup mine)
    BY <2>2, <2>3, MaxOfUnion
  <2>6. var = MaxIn(names \cup (lefts \cup mine))
    BY <1>1, <2>4, <2>5
  <2>7. {s.var} \cup mine \subseteq Widths /\ {s.var} \cup mine # {}
    BY <1>1, <1>2
  <2>8. Bounded({s.var} \cup mine)
    BY <2>1, <2>7 DEF Bounded, Widths
  <2>9. MaxIn({s.var} \cup mine) \in {s.var} \cup mine
    BY <2>7, <2>8, MaxFacts
  <2>10. QED
    BY <2>6, <2>7, <2>9
<1> HIDE DEF var
<1>5. /\ r \in Visitors /\ r.var = var
      /\ r.mods = s.mods /\ r.dims = s.dims /\ r.array = s.array /\ r.type = s.type
      /\ r.queue = s.queue /\ r.out = s.out /\ r.block = s.block /\ r.kind = s.kind
  BY <1>1, <1>4 DEF Visitors
<1> HIDE DEF r
<1>6. /\ t \in Visitors /\ Settled(t) /\ Traced(t) = Traced(s) \o <<q>>
      /\ t.kind = s.kind /\ t.queue = Append(s.queue, q)
      /\ Pending(t) = Pending(s) \cup {it}
      /\ t.mods = s.mods /\ t.dims = s.dims /\ t.array = s.array /\ t.type = s.type
      /\ t.var = var
  BY <1>5, QueuedFacts DEF it
<1> HIDE DEF t
<1>7. Declarations(t) = Declarations(s) /\ Assigns(t) = Assigns(s) \cup {it}
  BY <1>2, <1>6 DEF Declarations, Assigns
<1>8. UNION {ToSet(d.lefts) : d \in Assigns(s) \cup {it}} = lefts \cup mine
  OBVIOUS
<1>9. t.var = MaxIn(names \cup (UNION {ToSet(d.lefts) : d \in Assigns(t)}))
  BY <1>4, <1>6, <1>7, <1>8
<1>10. Sized(t)
  BY <1>1, <1>6, <1>7, <1>9 DEF Sized, Fits
<1>11. QED
  BY <1>6, <1>10 DEF Adds, Good, t, r, var, it

(* handle of an instance: it is measured, and written at once.             *)
MeasuredInstance(s, it) ==
  LET params == IF it.params = NoParams THEN <<>> ELSE it.params
  IN  [s EXCEPT !.param = MaxIn({@} \cup {params[i][1] : i \in DOMAIN params}),
                !.paramValue = MaxIn({@} \cup {params[i][2] : i \in DOMAIN params}),
                !.port = MaxIn({@} \cup {it.ports[i][1] : i \in DOMAIN it.ports}),
                !.portValue = MaxIn({@} \cup {it.ports[i][2] : i \in DOMAIN it.ports})]

LEMMA SideFacts ==
  ASSUME NEW seq \in Seq(Ranges), NEW old \in Nat, NEW k \in 1 .. 2
  PROVE  LET new == MaxIn({old} \cup {seq[i][k] : i \in DOMAIN seq})
         IN  new \in Nat /\ \A i \in DOMAIN seq : seq[i][k] <= new
<1> DEFINE sides == {seq[i][k] : i \in DOMAIN seq}
           A == {old} \cup sides
<1>1. MaxWidth \in Nat
  BY RoomFacts
<1>2. \A i \in DOMAIN seq : seq[i][k] \in Widths
  BY DEF Ranges
<1>3. sides \subseteq Widths
  BY <1>2
<1> HIDE DEF sides
<1>4. Bounded(sides) /\ Bounded({old})
  <2>1. sides \subseteq Nat /\ \A x \in sides : x <= MaxWidth
    BY <1>1, <1>3 DEF Widths
  <2>2. {old} \subseteq Nat /\ \A x \in {old} : x <= old
    OBVIOUS
  <2>3. QED
    BY <1>1, <2>1, <2>2 DEF Bounded
<1>5. Bounded(A)
  BY <1>4, BoundedUnion
<1>6. MaxIn(A) \in Nat /\ \A x \in A : x <= MaxIn(A)
  BY <1>5, MaxFacts
<1>7. \A i \in DOMAIN seq : seq[i][k] \in A
  BY DEF sides
<1>8. QED
  BY <1>6, <1>7 DEF sides

LEMMA InstanceFacts ==
  ASSUME NEW s, Good(s), s.queue = <<>>, NEW q, q \in All, q.it \in Instances
  PROVE  LET m == MeasuredInstance(s, q.it)
             t == [m EXCEPT !.out = Append(@, Format(m, q))]
         IN  Adds(t, s, q) /\ t.queue = <<>>
<1> DEFINE it == q.it
           m == MeasuredInstance(s, it)
           w == Format(m, q)
           out == Append(m.out, w)
           t == [m EXCEPT !.out = out]
           params == IF it.params = NoParams THEN <<>> ELSE it.params
           param == MaxIn({s.param} \cup {params[i][1] : i \in DOMAIN params})
           paramValue == MaxIn({s.paramValue} \cup {params[i][2] : i \in DOMAIN params})
           port == MaxIn({s.port} \cup {it.ports[i][1] : i \in DOMAIN it.ports})
           portValue == MaxIn({s.portValue} \cup {it.ports[i][2] : i \in DOMAIN it.ports})
<1>1. s \in Visitors /\ Sized(s) /\ Settled(s) /\ s.out \in Seq(Outs)
  BY DEF Good, Visitors
<1>2. /\ it \in Instances /\ it.kind = "HierarchyInstantiation" /\ it.ports \in Seq(Ranges)
      /\ (it.params = NoParams \/ it.params \in Seq(Ranges))
  BY DEF Instances, Instance
<1>3. params \in Seq(Ranges) /\ params = Bindings(it)
  BY <1>2 DEF Bindings
<1> HIDE DEF params, it
<1>4. s.param \in Nat /\ s.paramValue \in Nat /\ s.port \in Nat /\ s.portValue \in Nat
  BY <1>1 DEF Visitors
<1>5. /\ param \in Nat /\ (\A i \in DOMAIN params : params[i][1] <= param)
      /\ paramValue \in Nat /\ (\A i \in DOMAIN params : params[i][2] <= paramValue)
      /\ port \in Nat /\ (\A i \in DOMAIN it.ports : it.ports[i][1] <= port)
      /\ portValue \in Nat /\ (\A i \in DOMAIN it.ports : it.ports[i][2] <= portValue)
  <2>1. 1 \in 1 .. 2 /\ 2 \in 1 .. 2
    OBVIOUS
  <2>2. param \in Nat /\ (\A i \in DOMAIN params : params[i][1] <= param)
    BY <1>3, <1>4, <2>1, SideFacts
  <2>3. paramValue \in Nat /\ (\A i \in DOMAIN params : params[i][2] <= paramValue)
    BY <1>3, <1>4, <2>1, SideFacts
  <2>4. port \in Nat /\ (\A i \in DOMAIN it.ports : it.ports[i][1] <= port)
    BY <1>2, <1>4, <2>1, SideFacts
  <2>5. portValue \in Nat /\ (\A i \in DOMAIN it.ports : it.ports[i][2] <= portValue)
    BY <1>2, <1>4, <2>1, SideFacts
  <2>6. QED
    BY <2>2, <2>3, <2>4, <2>5
<1>6. m = [s EXCEPT !.param = param, !.paramValue = paramValue,
                    !.port = port, !.portValue = portValue]
  BY DEF MeasuredInstance, params
<1> HIDE DEF param, paramValue, port, portValue, m
<1>7. /\ m \in Visitors /\ m.param = param /\ m.paramValue = paramValue
      /\ m.port = port /\ m.portValue = portValue /\ m.queue = s.queue
      /\ m.out = s.out /\ m.block = s.block /\ m.kind = s.kind /\ m.mods = s.mods
      /\ m.dims = s.dims /\ m.array = s.array /\ m.type = s.type /\ m.var = s.var
  BY <1>1, <1>5, <1>6 DEF Visitors
<1>8. Binds(m, it)
  BY <1>3, <1>5, <1>7 DEF Binds
<1>9. w \in Outs /\ WrittenOf(w, m, q) /\ LeadKept(w) /\ (w.fails => Faulty(w.it))
  <2>1. w = FormatInstance(m, q)
    BY <1>2 DEF Format, it
  <2>2. q.at \in Nat \X Nat
    BY DEF All, Places2
  <2>3. QED
    BY <1>2, <1>7, <1>8, <2>1, <2>2, FormatInstanceFacts DEF it
<1> HIDE DEF w
<1>10. w.it = it /\ w.at = q.at /\ w.block = s.block
  BY <1>7, <1>9 DEF WrittenOf, it
<1>11. ~IsDeclaration(w) /\ ~Plain(w) /\ w.it.kind = "HierarchyInstantiation"
  BY <1>2, <1>10 DEF IsDeclaration, Plain
<1>12. Formed(w, s)
  BY <1>9, <1>10, <1>11 DEF Formed
<1>13. /\ <<w>> \in Seq(Outs) /\ Len(<<w>>) = 1 /\ <<w>>[1] = w
       /\ \A i \in DOMAIN <<w>> : <<w>>[i] = w
  BY <1>9
<1>14. Even(<<w>>, s)
  BY <1>11, <1>12, <1>13 DEF Even
<1>15. out = s.out \o <<w>>
  BY <1>1, <1>7, <1>9
<1> HIDE DEF out
<1>16. out \in Seq(Outs) /\ Calm(out)
  BY <1>1, <1>13, <1>14, <1>15, OutGrows
<1>17. \A i \in DOMAIN out :
         out[i].it.kind # "HierarchyInstantiation" => out[i].block < s.block
  <2>1. Together(s.out, <<w>>, out)
    BY <1>1, <1>13, <1>15, ConcatElements
  <2>2. QED
    BY <1>1, <1>11, <1>13, <2>1 DEF Together, Settled
<1>18. /\ t \in Visitors /\ t.out = out /\ t.block = s.block /\ t.kind = s.kind
       /\ t.queue = s.queue /\ t.mods = s.mods
       /\ t.dims = s.dims /\ t.array = s.array /\ t.type = s.type /\ t.var = s.var
  BY <1>7, <1>16 DEF Visitors
<1> HIDE DEF t
<1>19. Settled(t)
  BY <1>16, <1>17, <1>18 DEF Settled
<1>20. /\ Pending(t) = Pending(s) /\ Declarations(t) = Declarations(s)
       /\ Assigns(t) = Assigns(s)
  BY <1>18 DEF Pending, Declarations, Assigns
<1>21. Sized(t)
  BY <1>1, <1>18, <1>20 DEF Sized, Fits
<1>22. Traced(t) = Traced(s) \o <<q>>
  <2>1. EntriesOf(<<w>>) = <<q>>
    <3>1. q = [at |-> q.at, it |-> q.it]
      BY DEF All
    <3>2. EntriesOf(<<w>>) = [i \in 1 .. 1 |-> [at |-> w.at, it |-> w.it]]
      BY <1>13 DEF EntriesOf
    <3>3. [at |-> w.at, it |-> w.it] = q
      BY <1>10, <3>1 DEF it
    <3>4. QED
      BY <3>2, <3>3
  <2>2. EntriesOf(out) = EntriesOf(s.out) \o <<q>>
    BY <1>1, <1>13, <1>15, <2>1, EntriesJoin
  <2>3. EntriesOf(out) \in Seq(All) /\ EntriesOf(s.out) \in Seq(All)
    BY <1>1, <1>16, EntriesJoin
  <2> DEFINE before == EntriesOf(s.out)
             after == EntriesOf(out)
  <2>4. Traced(t) = after \o <<>> /\ Traced(s) = before \o <<>>
    BY <1>18 DEF Traced
  <2> HIDE DEF before, after
  <2>5. after \o <<>> = after /\ before \o <<>> = before
    BY <2>3, ConcatEmptySeq DEF before, after
  <2>6. QED
    BY <2>2, <2>4, <2>5 DEF before, after
<1>23. QED
  BY <1>18, <1>19, <1>21, <1>22 DEF Adds, Good, t, out, w, m, it

-----------------------------------------------------------------------------
(* The ports of a list: one after the other.                               *)

Listed(list, n, j) == [i \in 1 .. j |-> Entry(list.ports[i], n, i)]
Skips(list, j) == \E i \in 1 .. j : Explicit(list.ports[i])
OfPorts(more, list) ==
  \A i \in DOMAIN more : \E k \in DOMAIN list.ports : more[i].it = list.ports[k]

(* After j ports of list, number n in the file, from the visitor s: all of *)
(* them were queued, but the explicit ones; while the kind of the block is *)
(* that of ports, they are all in the queue; when it is another, each ends *)
(* the block of the one before.                                            *)
Opens(s) == s.kind \in {"Unknown", "ImplicitAnsiPort"}
PortsVisited(t, s, list, n, j) ==
  /\ Good(t)
  /\ \E more \in Seq(All) :
       /\ Traced(t) = Traced(s) \o more /\ OfPorts(more, list)
       /\ ~Skips(list, j) => more = Listed(list, n, j)
  /\ Len(t.queue) <= j /\ (Skips(list, j) => Len(t.queue) < j)
  /\ Opens(s) => Opens(t) /\ (~Skips(list, j) => Len(t.queue) = j)
  /\ ~Opens(s) => t.kind = s.kind /\ (j > 0 /\ ~Skips(list, j) => t.queue # <<>>)

LEMMA PortFacts ==
  ASSUME NEW list \in Items, PortList(list)
  PROVE  /\ Len(list.ports) \in Nat /\ DOMAIN list.ports = 1 .. Len(list.ports)
         /\ \A j \in 1 .. Len(list.ports) :
              \/ Explicit(list.ports[j])
              \/ /\ ~Explicit(list.ports[j])
                 /\ Port(list.ports[j]) /\ list.ports[j] \in Ports
                 /\ list.ports[j] \in Gathered
<1>1. Len(list.ports) \in Nat /\ DOMAIN list.ports = 1 .. Len(list.ports)
  BY DEF PortList
<1>2. \A j \in DOMAIN list.ports : Port(list.ports[j]) \/ Explicit(list.ports[j])
  BY DEF PortList
<1>3. \A j \in DOMAIN list.ports : list.ports[j] \in Ports
  BY DEF Ports
<1>4. \A j \in DOMAIN list.ports : Port(list.ports[j]) => list.ports[j] \in Gathered
  BY <1>3 DEF Gathered, Gathers
<1>5. \A j \in DOMAIN list.ports : ~(Port(list.ports[j]) /\ Explicit(list.ports[j]))
  BY DEF Port, IsPort, Explicit
<1>6. QED
  BY <1>1, <1>2, <1>3, <1>4, <1>5

LEMMA VisitFacts ==
  ASSUME NEW t, Good(t), NEW port \in Ports, Port(port), NEW n \in Nat, NEW j \in Nat
  PROVE  LET v == VisitPort(t, port, n, j)
             q == Entry(port, n, j)
         IN  /\ Good(v) /\ Traced(v) = Traced(t) \o <<q>>
             /\ v.kind = IF t.kind = "Unknown" THEN "ImplicitAnsiPort" ELSE t.kind
             /\ v.queue = Append(IF "ImplicitAnsiPort" # v.kind THEN <<>> ELSE t.queue, q)
<1> DEFINE q == Entry(port, n, j)
           u == SwitchBlocType(t, port.kind, FALSE)
           v == VisitPort(t, port, n, j)
<1>1. port \in Gathered /\ HasType(port) /\ port.kind = "ImplicitAnsiPort"
  BY DEF Gathered, Gathers, HasType, Port, IsPort
<1>2. q \in Entries /\ q.it = port
  BY <1>1 DEF Entry, Entries
<1>3. /\ Good(u) /\ Traced(u) = Traced(t)
      /\ u.kind = IF t.kind = "Unknown" THEN "ImplicitAnsiPort" ELSE t.kind
      /\ u.queue = IF "ImplicitAnsiPort" # u.kind THEN <<>> ELSE t.queue
  <2>1. port.kind \in KindNames /\ FALSE \in BOOLEAN
    BY <1>1 DEF KindNames
  <2>2. QED
    BY ZenonT(60), <1>1, <2>1, SwitchFacts DEF Continues
<1>4. v = Queued(Measured(u, q.it), q)
  <2>1. ~Explicit(port)
    BY <1>1 DEF Explicit
  <2>2. QED
    BY <1>2, <2>1 DEF VisitPort
<1> HIDE DEF u, v, q
<1>5. Adds(v, u, q) /\ v.queue = Append(u.queue, q)
  BY <1>1, <1>2, <1>3, <1>4, MeasuredFacts
<1>6. Good(v) /\ v.kind = u.kind /\ Traced(v) = Traced(t) \o <<q>>
  BY <1>3, <1>5 DEF Adds
<1>7. QED
  BY <1>3, <1>5, <1>6 DEF v, q

LEMMA ListedFacts ==
  ASSUME NEW list \in Items, PortList(list), NEW n \in Nat, NEW j \in Nat,
         j <= Len(list.ports), ~Skips(list, j)
  PROVE  /\ Listed(list, n, j) \in Seq(All) /\ Len(Listed(list, n, j)) = j
         /\ \A i \in 1 .. j : Listed(list, n, j)[i] = Entry(list.ports[i], n, i)
<1> DEFINE L == Listed(list, n, j)
<1>1. \A i \in 1 .. j : Entry(list.ports[i], n, i) \in All
  <2>1. TAKE i \in 1 .. j
  <2>2. i \in 1 .. Len(list.ports)
    BY PortFacts
  <2>3. ~Explicit(list.ports[i])
    BY DEF Skips
  <2>4. list.ports[i] \in Gathered
    BY <2>2, <2>3, PortFacts
  <2>5. QED
    BY <2>4 DEF Entry, All, Places2
<1>2. L = [i \in 1 .. j |-> Entry(list.ports[i], n, i)]
  BY Zenon DEF Listed
<1> HIDE DEF L, All
<1>3. L \in Seq(All) /\ Len(L) = j
  BY <1>1, <1>2
<1>4. QED
  BY <1>2, <1>3 DEF L

LEMMA VisitPortFacts ==
  ASSUME NEW s, NEW list \in Items, PortList(list), NEW n \in Nat, NEW j \in Nat, NEW t,
         j + 1 <= Len(list.ports), PortsVisited(t, s, list, n, j), Traced(s) \in Seq(All)
  PROVE  PortsVisited(VisitPort(t, list.ports[j + 1], n, j + 1), s, list, n, j + 1)
<1> DEFINE port == list.ports[j + 1]
           q == Entry(port, n, j + 1)
           v == VisitPort(t, port, n, j + 1)
<1>1. /\ Len(list.ports) \in Nat /\ j + 1 \in 1 .. Len(list.ports)
      /\ j + 1 \in DOMAIN list.ports /\ j <= Len(list.ports)
  BY PortFacts
<1>2. Good(t) /\ t.queue \in Seq(Entries) /\ Len(t.queue) \in Nat /\ j + 1 \in Nat
  BY DEF PortsVisited, Good, Visitors
<1>3. Skips(list, j + 1) <=> Skips(list, j) \/ Explicit(port)
  <2>1. \A i \in 1 .. j + 1 : i \in 1 .. j \/ i = j + 1
    OBVIOUS
  <2>2. \A i \in 1 .. j : i \in 1 .. j + 1
    OBVIOUS
  <2>3. j + 1 \in 1 .. j + 1
    OBVIOUS
  <2>4. QED
    BY <2>1, <2>2, <2>3 DEF Skips
<1>4. Skips(list, j) => j >= 1
  BY DEF Skips
<1>5. PICK more \in Seq(All) :
        /\ Traced(t) = Traced(s) \o more /\ OfPorts(more, list)
        /\ ~Skips(list, j) => more = Listed(list, n, j)
  BY DEF PortsVisited
<1>6. CASE Explicit(port)
  <2>1. v = t
    BY <1>6 DEF VisitPort
  <2>2. Len(t.queue) <= j /\ (Opens(s) => Opens(t)) /\ (~Opens(s) => t.kind = s.kind)
    BY DEF PortsVisited
  <2>3. Len(t.queue) <= j + 1 /\ Len(t.queue) < j + 1
    BY <1>2, <2>2
  <2>4. QED
    BY <1>2, <1>3, <1>5, <1>6, <2>1, <2>2, <2>3 DEF PortsVisited
<1>7. CASE ~Explicit(port)
  <2>1. Port(port) /\ port \in Ports
    BY <1>1, <1>7, PortFacts
  <2> HIDE DEF port
  <2>2. q \in All
    BY <2>1 DEF Entry, All, Places2, Gathered, Gathers
  <2>3. /\ Good(v) /\ Traced(v) = Traced(t) \o <<q>>
        /\ v.kind = IF t.kind = "Unknown" THEN "ImplicitAnsiPort" ELSE t.kind
        /\ v.queue = Append(IF "ImplicitAnsiPort" # v.kind THEN <<>> ELSE t.queue, q)
    BY ZenonT(60), <1>2, <2>1, VisitFacts
  <2> DEFINE longer == Append(more, q)
  <2>4. /\ longer \in Seq(All) /\ longer = more \o <<q>>
        /\ Len(longer) = Len(more) + 1 /\ Len(more) \in Nat /\ longer[Len(more) + 1] = q
        /\ \A i \in 1 .. Len(more) : longer[i] = more[i]
    BY <2>2, AppendFacts
  <2>5. q.it = port
    BY DEF Entry
  <2> HIDE DEF v, q, longer
  <2>6. Traced(v) = Traced(s) \o longer
    <3> DEFINE before == Traced(s)
               last == <<q>>
    <3>1. before \in Seq(All) /\ last \in Seq(All)
      BY <2>2
    <3>2. Traced(v) = (before \o more) \o last
      BY <1>5, <2>3
    <3> HIDE DEF before, last
    <3>3. (before \o more) \o last = before \o (more \o last)
      BY SMTT(40), <3>1, ConcatAssociative
    <3>4. QED
      BY <2>4, <3>2, <3>3 DEF before, last
  <2>7. OfPorts(longer, list)
    <3> SUFFICES ASSUME NEW i \in DOMAIN longer
                 PROVE  \E k \in DOMAIN list.ports : longer[i].it = list.ports[k]
      BY DEF OfPorts
    <3>1. CASE i = Len(more) + 1
      BY <1>1, <2>4, <2>5, <3>1 DEF port
    <3>2. CASE i # Len(more) + 1
      <4>1. i \in 1 .. Len(more) /\ i \in DOMAIN more
        BY <2>4, <3>2
      <4>2. QED
        BY <1>5, <2>4, <4>1 DEF OfPorts
    <3>3. QED
      BY <3>1, <3>2
  <2>8. ASSUME ~Skips(list, j + 1) PROVE longer = Listed(list, n, j + 1)
    <3> DEFINE M == Listed(list, n, j + 1)
               L == Listed(list, n, j)
    <3>1. more = L /\ ~Skips(list, j)
      BY <1>3, <1>5, <2>8
    <3>2. /\ L \in Seq(All) /\ Len(L) = j
          /\ \A i \in 1 .. j : L[i] = Entry(list.ports[i], n, i)
      BY <1>1, <3>1, ListedFacts
    <3>3. /\ M \in Seq(All) /\ Len(M) = j + 1
          /\ \A i \in 1 .. j + 1 : M[i] = Entry(list.ports[i], n, i)
      BY <1>1, <1>2, <2>8, ListedFacts
    <3>4. M[j + 1] = q
      BY <3>3 DEF q, port
    <3> HIDE DEF L, M
    <3>5. Len(longer) = j + 1 /\ \A i \in 1 .. j + 1 : longer[i] = M[i]
      BY <2>4, <3>1, <3>2, <3>3, <3>4
    <3>6. longer = M
      BY <2>4, <3>3, <3>5, SeqEqual
    <3>7. QED
      BY <3>6 DEF M
  <2>9. /\ Len(v.queue) \in {1, Len(t.queue) + 1}
        /\ v.kind = "ImplicitAnsiPort" => Len(v.queue) = Len(t.queue) + 1
        /\ v.queue # <<>>
    <3>1. \A queue \in Seq(Entries) : /\ Append(queue, q) # <<>>
                                      /\ Len(Append(queue, q)) = Len(queue) + 1
      OBVIOUS
    <3>2. <<>> \in Seq(Entries) /\ Len(<<>>) = 0
      OBVIOUS
    <3>3. v.queue \in {Append(<<>>, q), Append(t.queue, q)}
          /\ (v.kind = "ImplicitAnsiPort" => v.queue = Append(t.queue, q))
      BY <2>3
    <3>4. /\ Append(<<>>, q) # <<>> /\ Len(Append(<<>>, q)) = 0 + 1
          /\ Append(t.queue, q) # <<>> /\ Len(Append(t.queue, q)) = Len(t.queue) + 1
      BY Zenon, <1>2, <3>1, <3>2
    <3>5. 0 + 1 = 1
      OBVIOUS
    <3>6. QED
      BY Zenon, <3>3, <3>4, <3>5
  <2>10. Len(t.queue) <= j /\ (Skips(list, j) => Len(t.queue) < j)
    BY DEF PortsVisited
  <2>11. Len(v.queue) <= j + 1 /\ (Skips(list, j + 1) => Len(v.queue) < j + 1)
    <3> DEFINE now == Len(v.queue)
               before == Len(t.queue)
    <3>1. before \in Nat /\ before <= j /\ now \in {1, before + 1}
      BY <1>2, <2>9, <2>10
    <3>2. Skips(list, j + 1) => Skips(list, j)
      BY <1>3, <1>7
    <3>3. Skips(list, j + 1) => before < j /\ j >= 1
      BY <1>4, <2>10, <3>2
    <3> HIDE DEF now, before
    <3>4. now <= j + 1 /\ (Skips(list, j + 1) => now < j + 1)
      BY <3>1, <3>3
    <3>5. QED
      BY <3>4 DEF now
  <2>12. ASSUME Opens(s)
         PROVE  Opens(v) /\ (~Skips(list, j + 1) => Len(v.queue) = j + 1)
    <3>1. Opens(t) /\ (~Skips(list, j) => Len(t.queue) = j)
      BY <2>12 DEF PortsVisited
    <3>2. v.kind = "ImplicitAnsiPort"
      BY <2>3, <3>1 DEF Opens
    <3>3. ~Skips(list, j + 1) => ~Skips(list, j)
      BY <1>3
    <3>4. Len(v.queue) = Len(t.queue) + 1
      BY <2>9, <3>2
    <3>5. QED
      BY <3>1, <3>2, <3>3, <3>4 DEF Opens
  <2>13. ASSUME ~Opens(s) PROVE v.kind = s.kind
    BY <2>3, <2>13 DEF PortsVisited, Opens
  <2>14. \E m \in Seq(All) :
           /\ Traced(v) = Traced(s) \o m /\ OfPorts(m, list)
           /\ ~Skips(list, j + 1) => m = Listed(list, n, j + 1)
    BY Zenon, <2>4, <2>6, <2>7, <2>8
  <2>15. PortsVisited(v, s, list, n, j + 1)
    BY Zenon, <2>3, <2>9, <2>11, <2>12, <2>13, <2>14 DEF PortsVisited
  <2>16. QED
    BY <2>15 DEF v, port
<1>8. QED
  BY <1>6, <1>7

(* A list of ports: what was measured for all of them before any of it is  *)
(* written.                                                                *)
LEMMA PortListFacts ==
  ASSUME NEW s, Good(s), NEW list \in Items, PortList(list), NEW n \in Nat
  PROVE  LET visited[j \in 0 .. Len(list.ports)] ==
               IF j = 0 THEN ProcessPending(s)
               ELSE VisitPort(visited[j - 1], list.ports[j], n, j)
         IN  PortsVisited(visited[Len(list.ports)], ProcessPending(s), list, n, Len(list.ports))
<1> DEFINE L == Len(list.ports)
           base == ProcessPending(s)
           S == {t \in Visitors : Good(t)}
           body(f) == [j \in 0 .. L |-> IF j = 0 THEN base
                                        ELSE VisitPort(f[j - 1], list.ports[j], n, j)]
           P(f) == f = body(f)
           all == CHOOSE f : P(f)
           step == [j \in Nat |-> [t \in S |-> IF j \in 1 .. L
                                               THEN VisitPort(t, list.ports[j], n, j) ELSE t]]
<1>1. /\ L \in Nat
      /\ \A j \in 1 .. L : ~Explicit(list.ports[j]) => Port(list.ports[j]) /\ list.ports[j] \in Ports
  BY PortFacts
<1>2. base \in S
  BY ProcessFacts DEF Good
<1>3. \A j \in Nat : \A t \in S :
        (IF j \in 1 .. L THEN VisitPort(t, list.ports[j], n, j) ELSE t) \in S
  <2>1. TAKE j \in Nat
  <2>2. TAKE t \in S
  <2>3. CASE j \in 1 .. L
    <3>1. Good(VisitPort(t, list.ports[j], n, j))
      <4>1. CASE Explicit(list.ports[j])
        BY <4>1 DEF VisitPort
      <4>2. CASE ~Explicit(list.ports[j])
        <5>1. Port(list.ports[j]) /\ list.ports[j] \in Ports /\ Good(t)
          BY <1>1, <2>3, <4>2
        <5>2. QED
          BY <5>1, VisitFacts
      <4>3. QED
        BY <4>1, <4>2
    <3>2. QED
      BY <2>3, <3>1 DEF Good
  <2>4. QED
    BY <2>3
<1> HIDE DEF base, S
<1>4. step \in [Nat -> [S -> S]]
  BY <1>3
<1> HIDE DEF L, step
<1>5. PICK g \in [0 .. L -> S] : Follows(g, base, step, L)
  BY <1>1, <1>2, <1>4, Recursion
<1>6. ASSUME NEW j \in 1 .. L, NEW t \in S
      PROVE  step[j][t] = VisitPort(t, list.ports[j], n, j)
  BY <1>1, <1>6 DEF step
<1>7. P(g)
  <2>1. ASSUME NEW j \in 0 .. L PROVE g[j] = body(g)[j]
    <3>1. CASE j = 0
      BY <1>5, <3>1 DEF Follows
    <3>2. CASE j # 0
      <4>1. j \in 1 .. L /\ j - 1 \in 0 .. L
        BY <1>1, <3>2
      <4>2. g[j] = step[j][g[j - 1]] /\ g[j - 1] \in S
        BY <1>5, <4>1 DEF Follows
      <4>3. g[j] = VisitPort(g[j - 1], list.ports[j], n, j)
        BY <1>6, <4>1, <4>2
      <4>4. QED
        BY <3>2, <4>3
    <3>3. QED
      BY <3>1, <3>2
  <2>2. g = [j \in 0 .. L |-> g[j]]
    BY <1>5
  <2>3. QED
    BY <2>1, <2>2
<1>8. P(all)
  BY <1>7
<1> HIDE DEF all
<1>9. all[0] = base /\ \A j \in 1 .. L : all[j] = VisitPort(all[j - 1], list.ports[j], n, j)
  BY <1>1, <1>8
<1> DEFINE T == {j \in Nat : j <= L => PortsVisited(all[j], base, list, n, j)}
<1>10. Good(base) /\ base.queue = <<>> /\ Traced(base) \in Seq(All)
  <2>1. Good(base) /\ base.queue = <<>>
    BY ProcessFacts DEF base
  <2>2. QED
    BY <2>1, TracedFacts DEF Good
<1>11. 0 \in T
  <2>1. Listed(list, n, 0) = <<>> /\ <<>> \in Seq(All) /\ ~Skips(list, 0)
    BY DEF Listed, Skips
  <2>2. Traced(base) \o <<>> = Traced(base) /\ OfPorts(<<>>, list)
    BY <1>10, ConcatEmptySeq DEF OfPorts
  <2>3. Len(base.queue) = 0
    BY <1>10
  <2>4. all[0] = base
    BY <1>9
  <2>5. Len(base.queue) <= 0
    BY <2>3
  <2>6. PortsVisited(all[0], base, list, n, 0)
    <3> HIDE DEF base, all
    <3>1. ~(0 > 0)
      OBVIOUS
    <3>2. QED
      BY Zenon, <1>10, <2>1, <2>2, <2>3, <2>4, <2>5, <3>1 DEF PortsVisited
  <2>7. QED
    BY <2>6
<1>12. ASSUME NEW j \in Nat, j \in T PROVE j + 1 \in T
  <2> SUFFICES ASSUME j + 1 <= L PROVE PortsVisited(all[j + 1], base, list, n, j + 1)
    OBVIOUS
  <2>1. j + 1 \in 1 .. L /\ (j + 1) - 1 = j /\ j <= L
    BY <1>1
  <2>2. PortsVisited(all[j], base, list, n, j)
    BY <1>12, <2>1
  <2>3. all[j + 1] = VisitPort(all[j], list.ports[j + 1], n, j + 1)
    BY <1>9, <2>1
  <2>4. j + 1 <= Len(list.ports)
    BY DEF L
  <2>5. QED
    BY <1>10, <2>2, <2>3, <2>4, VisitPortFacts
<1>13. \A j \in Nat : j \in T
  <2> HIDE DEF T
  <2>1. QED
    BY <1>11, <1>12, Induction
<1>14. PortsVisited(all[L], base, list, n, L)
  BY <1>1, <1>13
<1>15. QED
  BY <1>14 DEF all, base, L

-----------------------------------------------------------------------------
(* The file: what was visited, and what is known of it.                    *)

ExpectedOf(items) == FlattenSeq([i \in 1 .. Len(items) |-> Places(items[i], i)])
Comes(it, items) ==
  \E n \in DOMAIN items :
    \/ it = items[n]
    \/ items[n].kind = "AnsiPortList" /\ \E j \in DOMAIN items[n].ports : it = items[n].ports[j]
Origin(s, items) == \A i \in DOMAIN Traced(s) : Comes(Traced(s)[i].it, items)

FInv ==
  /\ file \in Seq(Items) /\ Len(file) <= MaxItems /\ phase \in {"visit", "done", "failed"}
  /\ Good(fmt)
  /\ Origin(fmt, file) /\ (phase # "failed" => PlacesOf(Traced(fmt)) = ExpectedOf(file))
  /\ phase = "done" => fmt.queue = <<>>
  /\ FailuresKnown

(* The kind of an item tells what it is.                                   *)
LEMMA ItemFacts ==
  ASSUME NEW it \in Items
  PROVE  /\ it.kind \in Types => Declaration(it)
         /\ it.kind = "ContinuousAssign" => Assignment(it)
         /\ it.kind = "HierarchyInstantiation" => Instance(it)
         /\ it.kind = "AnsiPortList" => PortList(it)
         /\ ~Port(it)
         /\ it.kind \in Types => it.kind \notin OtherKinds
<1>1. it.kind \in Types => it.kind \notin OtherKinds
  BY KindsApart
<1>2. Declaration(it) \/ Assignment(it) \/ Instance(it) \/ PortList(it)
  BY ItemAssumption
<1>3. QED
  BY <1>1, <1>2 DEF Declaration, Assignment, Instance, PortList, Port, IsPort, OtherKinds

LEMMA ExpectedGrows ==
  ASSUME NEW items \in Seq(Items), NEW it \in Items
  PROVE  ExpectedOf(Append(items, it)) = ExpectedOf(items) \o Places(it, Len(items) + 1)
<1> DEFINE places(list) == [i \in 1 .. Len(list) |-> Places(list[i], i)]
           last == Places(it, Len(items) + 1)
           longer == Append(items, it)
<1>1. ASSUME NEW item \in Items, NEW i \in Nat PROVE Places(item, i) \in Seq(Places2)
  <2>1. CASE item.kind = "AnsiPortList"
    <3>1. PortList(item)
      BY <2>1, ItemFacts
    <3>2. Len(item.ports) \in Nat
      BY <3>1, PortFacts
    <3>3. [j \in 1 .. Len(item.ports) |-> <<i, j>>] \in Seq(Places2)
      BY <3>2 DEF Places2
    <3>4. QED
      BY <2>1, <3>3 DEF Places
  <2>2. CASE item.kind # "AnsiPortList"
    <3>1. <<i, 0>> \in Places2
      BY DEF Places2
    <3>2. QED
      BY <2>2, <3>1 DEF Places
  <2>3. QED
    BY <2>1, <2>2
<1>2. /\ longer \in Seq(Items) /\ Len(items) \in Nat /\ Len(longer) = Len(items) + 1
      /\ longer[Len(items) + 1] = it /\ \A i \in 1 .. Len(items) : longer[i] = items[i]
  BY AppendFacts
<1>3. last \in Seq(Places2)
  BY <1>1, <1>2
<1>4. ASSUME NEW list \in Seq(Items)
      PROVE  places(list) \in Seq(Seq(Places2))
  <2>1. \A i \in 1 .. Len(list) : Places(list[i], i) \in Seq(Places2)
    <3>1. \A i \in 1 .. Len(list) : i \in Nat /\ list[i] \in Items
      OBVIOUS
    <3>2. QED
      BY <1>1, <3>1
  <2>2. Len(list) \in Nat
    OBVIOUS
  <2>3. QED
    BY <2>1, <2>2
<1> HIDE DEF longer, last
<1>5. places(longer) = Append(places(items), last)
  <2> DEFINE left == places(longer)
             right == Append(places(items), last)
             n == Len(items)
  <2>1. /\ left \in Seq(Seq(Places2)) /\ Len(left) = n + 1
        /\ \A i \in 1 .. n + 1 : left[i] = Places(longer[i], i)
    BY <1>2, <1>4
  <2>2. /\ places(items) \in Seq(Seq(Places2)) /\ Len(places(items)) = n
        /\ \A i \in 1 .. n : places(items)[i] = Places(items[i], i)
    BY <1>2, <1>4
  <2> HIDE DEF places, left, n
  <2>3. /\ right \in Seq(Seq(Places2)) /\ Len(right) = n + 1 /\ right[n + 1] = last
        /\ \A i \in 1 .. n : right[i] = places(items)[i]
    BY <1>3, <2>2, AppendFacts
  <2> HIDE DEF right
  <2>4. \A i \in 1 .. n + 1 : left[i] = right[i]
    <3>1. ASSUME NEW i \in 1 .. n PROVE left[i] = right[i]
      BY <1>2, <2>1, <2>2, <2>3 DEF n
    <3>2. left[n + 1] = right[n + 1]
      BY <1>2, <2>1, <2>3 DEF n, last
    <3>3. n \in Nat
      BY <1>2 DEF n
    <3>4. QED
      BY <3>1, <3>2, <3>3
  <2>5. left = right
    BY <2>1, <2>3, <2>4, SeqEqual
  <2>6. QED
    BY <2>5 DEF left, right
<1>6. FlattenSeq(Append(places(items), last)) = FlattenSeq(places(items)) \o last
  <2> HIDE DEF places
  <2>1. QED
    BY <1>3, <1>4, FlattenAppend
<1>7. QED
  BY <1>5, <1>6 DEF ExpectedOf, longer, last

(* One item more, and what the handler added for it.                       *)
LEMMA FileGrows ==
  ASSUME NEW items \in Seq(Items), NEW it \in Items, NEW s, Good(s), NEW t, Good(t),
         Origin(s, items), PlacesOf(Traced(s)) = ExpectedOf(items),
         NEW more \in Seq(All), Traced(t) = Traced(s) \o more,
         \A i \in DOMAIN more :
           \/ more[i].it = it
           \/ it.kind = "AnsiPortList" /\ \E j \in DOMAIN it.ports : more[i].it = it.ports[j]
  PROVE  /\ Origin(t, Append(items, it))
         /\ PlacesOf(more) = Places(it, Len(items) + 1) =>
              PlacesOf(Traced(t)) = ExpectedOf(Append(items, it))
<1> DEFINE longer == Append(items, it)
           before == Traced(s)
           after == Traced(t)
<1>1. before \in Seq(All) /\ (\A e \in All : e.at \in Places2)
  BY TracedFacts DEF Good, All
<1>2. PlacesOf(before \o more) = PlacesOf(before) \o PlacesOf(more)
  <2> HIDE DEF before
  <2>1. QED
    BY <1>1, PlacesJoin
<1>3. PlacesOf(more) = Places(it, Len(items) + 1) => PlacesOf(after) = ExpectedOf(longer)
  BY <1>2, ExpectedGrows
<1>4. /\ Len(items) \in Nat /\ Len(longer) = Len(items) + 1 /\ longer \in Seq(Items)
      /\ longer[Len(items) + 1] = it /\ \A i \in 1 .. Len(items) : longer[i] = items[i]
  BY AppendFacts
<1> HIDE DEF longer, before, after
<1>5. Together(before, more, after)
  BY <1>1, ConcatElements DEF before, after
<1>6. \A e : Comes(e, items) => Comes(e, longer)
  <2>1. \A n \in DOMAIN items : n \in DOMAIN longer /\ longer[n] = items[n]
    <3>1. DOMAIN items = 1 .. Len(items) /\ DOMAIN longer = 1 .. Len(longer)
      BY <1>4
    <3> DEFINE L == Len(items)
    <3>2. L \in Nat /\ Len(longer) = L + 1
      BY <1>4
    <3> HIDE DEF L
    <3>3. \A n \in 1 .. L : n \in 1 .. L + 1
      BY <3>2
    <3>4. QED
      BY <1>4, <3>1, <3>2, <3>3 DEF L
  <2>2. QED
    BY <2>1 DEF Comes
<1>7. \A i \in DOMAIN more : Comes(more[i].it, longer)
  <2>1. Len(items) + 1 \in DOMAIN longer
    BY <1>4
  <2>2. QED
    BY <1>4, <2>1 DEF Comes
<1>8. \A i \in DOMAIN after : Comes(after[i].it, longer)
  <2>1. \A i \in DOMAIN before : Comes(before[i].it, items)
    BY DEF Origin, before
  <2>2. QED
    BY <1>5, <1>6, <1>7, <2>1 DEF Together
<1>9. QED
  BY <1>3, <1>8 DEF Origin, longer, after

(* Why a file is not formatted: what is written of one of its items fails. *)
Harmful(it) ==
  \/ it.kind = "HierarchyInstantiation" /\ (it.params = NoParams \/ it.blank)
  \/ it.kind \in Types /\ Risky(it)
  \/ it.kind = "AnsiPortList" /\ \E j \in DOMAIN it.ports : Risky(it.ports[j])

LEMMA FailsFacts ==
  ASSUME NEW items \in Seq(Items), NEW s, Good(s), Origin(s, items), Fails(s)
  PROVE  \E n \in DOMAIN items : Harmful(items[n])
<1>1. PICK i \in DOMAIN s.out : s.out[i].fails
  BY DEF Fails
<1>2. s.out \in Seq(Outs) /\ s.queue \in Seq(Entries) /\ s.queue \in Seq(All)
  BY TracedFacts DEF Good
<1> DEFINE it == s.out[i].it
<1>3. Faulty(it)
  BY <1>1 DEF Good, Settled, Calm
<1>4. Comes(it, items)
  <2> DEFINE a == EntriesOf(s.out)
  <2>1. i \in DOMAIN a /\ a[i].it = it
    BY DEF EntriesOf
  <2>2. a \in Seq(All)
    BY <1>2, EntriesJoin
  <2> HIDE DEF a
  <2>3. Together(a, s.queue, a \o s.queue)
    BY <1>2, <2>2, ConcatElements
  <2>4. PICK k \in DOMAIN (a \o s.queue) : (a \o s.queue)[k] = a[i]
    BY <2>1, <2>3 DEF Together
  <2>5. Traced(s) = a \o s.queue
    BY DEF Traced, a
  <2>6. QED
    BY <2>1, <2>4, <2>5 DEF Origin
<1> HIDE DEF it
<1>5. PICK n \in DOMAIN items :
        \/ it = items[n]
        \/ items[n].kind = "AnsiPortList" /\ \E j \in DOMAIN items[n].ports : it = items[n].ports[j]
  BY <1>4 DEF Comes
<1>6. items[n] \in Items
  BY <1>5
<1>7. CASE it = items[n]
  <2>1. /\ it.kind = "HierarchyInstantiation" => it.params = NoParams \/ it.blank
        /\ it.kind # "HierarchyInstantiation" => HasType(it) /\ Risky(it)
    BY <1>3 DEF Faulty
  <2>2. HasType(it) => it.kind \in Types
    BY <1>6, <1>7, ItemFacts DEF HasType, Declaration
  <2>3. Harmful(it)
    BY <2>1, <2>2 DEF Harmful
  <2>4. QED
    BY <1>7, <2>3
<1>8. CASE items[n].kind = "AnsiPortList" /\ \E j \in DOMAIN items[n].ports : it = items[n].ports[j]
  <2>1. PICK j \in DOMAIN items[n].ports : it = items[n].ports[j]
    BY <1>8
  <2>2. PortList(items[n])
    BY <1>6, <1>8, ItemFacts
  <2>3. it.kind # "HierarchyInstantiation"
    BY <2>1, <2>2 DEF PortList, Port, IsPort, Explicit
  <2>4. Risky(items[n].ports[j])
    BY <1>3, <2>1, <2>3 DEF Faulty
  <2>5. Harmful(items[n])
    BY <1>8, <2>4 DEF Harmful
  <2>6. QED
    BY <2>5
<1>9. QED
  BY <1>5, <1>7, <1>8

LEMMA NewFacts ==
  Good(NewVisitor) /\ Traced(NewVisitor) = <<>>
<1> DEFINE s == NewVisitor
<1>1. s \in Visitors
  <2>1. 0 \in Widths /\ "Unknown" \in KindNames
    BY RoomFacts DEF Widths, KindNames
  <2>2. QED
    BY <2>1 DEF NewVisitor, Visitors
<1>2. /\ s.mods = <<>> /\ s.dims = <<>> /\ s.array = <<>> /\ s.type = 0
      /\ s.var = 0 /\ s.queue = <<>> /\ s.out = <<>>
  BY DEF NewVisitor
<1> HIDE DEF s
<1>3. Sized(s)
  BY <1>1, <1>2, NothingPending
<1>4. Settled(s)
  BY <1>2 DEF Settled, Calm
<1>5. Traced(s) = <<>>
  BY <1>2 DEF Traced, EntriesOf
<1>6. QED
  BY <1>1, <1>3, <1>4, <1>5 DEF Good, s

-----------------------------------------------------------------------------
(* The invariant.                                                          *)

LEMMA InitInv == Init => FInv
<1> SUFFICES ASSUME Init PROVE FInv
  OBVIOUS
<1>1. file = <<>> /\ fmt = NewVisitor /\ phase = "visit"
  BY DEF Init
<1>2. Good(fmt) /\ Traced(fmt) = <<>>
  BY <1>1, NewFacts
<1>3. Origin(fmt, file)
  BY <1>2 DEF Origin
<1>4. PlacesOf(Traced(fmt)) = ExpectedOf(file)
  <2> DEFINE none == [i \in 1 .. Len(file) |-> Places(file[i], i)]
  <2>1. none = <<>>
    BY <1>1
  <2>2. ExpectedOf(file) = FlattenSeq(<<>>)
    BY <2>1 DEF ExpectedOf
  <2>3. <<>> \in Seq(Seq(Places2)) /\ Len(<<>>) = 0
    OBVIOUS
  <2>4. PICK g : Joins(Places2, <<>>, g) /\ FlattenSeq(<<>>) = g[0]
    BY <2>3, FlattenFacts
  <2>5. FlattenSeq(<<>>) = <<>>
    BY <2>4 DEF Joins
  <2>6. PlacesOf(<<>>) = <<>>
    BY DEF PlacesOf
  <2>7. QED
    BY <1>2, <2>2, <2>5, <2>6
<1>5. MaxItems \in Nat
  BY ItemAssumption
<1>6. QED
  BY <1>1, <1>2, <1>3, <1>4, <1>5 DEF FInv, FailuresKnown

(* What a handler that visits one item establishes.                        *)
LEMMA VisitKeeps ==
  ASSUME FInv, phase = "visit", Len(file) < MaxItems, NEW it \in Items,
         file' = Append(file, it), Good(fmt'),
         NEW more \in Seq(All), Traced(fmt') = Traced(fmt) \o more,
         \A i \in DOMAIN more :
           \/ more[i].it = it
           \/ it.kind = "AnsiPortList" /\ \E j \in DOMAIN it.ports : more[i].it = it.ports[j],
         NEW broken \in BOOLEAN, broken => Hazardous(it)',
         ~broken => PlacesOf(more) = Places(it, Len(file) + 1),
         phase' = IF broken \/ Fails(fmt') THEN "failed" ELSE phase
  PROVE  FInv'
<1>1. /\ file \in Seq(Items) /\ Good(fmt) /\ Origin(fmt, file)
      /\ PlacesOf(Traced(fmt)) = ExpectedOf(file)
  BY DEF FInv
<1>2. Origin(fmt', file') /\ (~broken => PlacesOf(Traced(fmt')) = ExpectedOf(file'))
  BY <1>1, FileGrows
<1>3. /\ file' \in Seq(Items) /\ Len(file) \in Nat /\ Len(file') = Len(file) + 1
      /\ file'[Len(file) + 1] = it
  BY <1>1, AppendFacts
<1>4. MaxItems \in Nat
  BY ItemAssumption
<1>5. Len(file') <= MaxItems
  BY <1>3, <1>4
<1>6. ASSUME phase' = "failed" PROVE \E n \in DOMAIN file' : Hazardous(file[n])'
  <2>1. CASE broken
    <3>1. PICK n \in DOMAIN file' : file'[n] = it
      BY <1>3
    <3>2. QED
      BY <2>1, <3>1 DEF Hazardous
  <2>2. CASE Fails(fmt')
    <3>1. \E n \in DOMAIN file' : Harmful(file'[n])
      BY <1>2, <1>3, <2>2, FailsFacts
    <3>2. QED
      BY <3>1 DEF Harmful, Hazardous
  <2>3. QED
    BY <1>6, <2>1, <2>2
<1>7. phase' \in {"visit", "failed"}
  OBVIOUS
<1>8. QED
  BY <1>2, <1>3, <1>5, <1>6, <1>7 DEF FInv, FailuresKnown

(* Those that add one entry.                                               *)
LEMMA OneMore ==
  ASSUME FInv, phase = "visit", Len(file) < MaxItems, NEW it \in Items,
         it.kind # "AnsiPortList", At(it) \in All,
         NEW s, Continues(s, fmt, s.kind), NEW t, Adds(t, s, At(it)), Visits(it, t)
  PROVE  FInv'
<1>1. /\ file' = Append(file, it) /\ fmt' = t /\ Good(t)
      /\ phase' = IF FALSE \/ Fails(fmt') THEN "failed" ELSE phase
      /\ Traced(fmt') = Traced(fmt) \o <<At(it)>>
  BY DEF Visits, Adds, Continues
<1>2. <<At(it)>> \in Seq(All) /\ \A i \in DOMAIN <<At(it)>> : <<At(it)>>[i].it = it
  BY DEF At, Entry
<1>3. PlacesOf(<<At(it)>>) = Places(it, Len(file) + 1)
  BY DEF At, Entry, PlacesOf, Places
<1> HIDE DEF At
<1>4. QED
  BY <1>1, <1>2, <1>3, VisitKeeps

LEMMA DataDeclarationKeeps ==
  ASSUME FInv, phase = "visit", Len(file) < MaxItems, NEW it \in Items, HandleDataDeclaration(it)
  PROVE  FInv'
<1> DEFINE s == SplitBloc(fmt, it)
           u == SwitchBlocType(s, it.kind, FALSE)
           t == Queued(Measured(u, it), At(it))
<1>1. it.kind \in Types /\ Visits(it, t)
  BY DEF HandleDataDeclaration
<1>2. it \in Gathered /\ HasType(it) /\ it.kind # "AnsiPortList" /\ it.kind \in KindNames
  BY <1>1, ItemFacts DEF Gathered, Gathers, HasType, OtherKinds, KindNames
<1>3. At(it) \in Entries /\ At(it) \in All /\ At(it).it = it
  <2>1. Len(file) + 1 \in Nat /\ 0 \in Nat
    BY DEF FInv
  <2>2. QED
    BY <1>2, <2>1 DEF At, Entry, Entries, All, Places2
<1>4. Good(fmt)
  BY DEF FInv
<1>5. Good(s) /\ Traced(s) = Traced(fmt)
  BY <1>4, SplitFacts DEF Continues
<1> HIDE DEF s
<1>6. Good(u) /\ Traced(u) = Traced(fmt)
  <2>1. FALSE \in BOOLEAN
    OBVIOUS
  <2>2. QED
    BY <1>2, <1>5, <2>1, SwitchFacts DEF Continues
<1> HIDE DEF u
<1>7. Adds(t, u, At(it))
  BY <1>2, <1>3, <1>6, MeasuredFacts
<1> HIDE DEF t
<1>8. Continues(u, fmt, u.kind)
  BY <1>6 DEF Continues
<1>9. QED
  BY <1>1, <1>2, <1>3, <1>7, <1>8, OneMore

LEMMA ContinuousAssignKeeps ==
  ASSUME FInv, phase = "visit", Len(file) < MaxItems, NEW it \in Items, HandleContinuousAssign(it)
  PROVE  FInv'
<1> DEFINE s == SplitBloc(fmt, it)
           u == SwitchBlocType(s, it.kind, FALSE)
           t == Queued([u EXCEPT !.var = MaxIn({@} \cup ToSet(it.lefts))], At(it))
<1>1. it.kind = "ContinuousAssign" /\ Visits(it, t)
  BY DEF HandleContinuousAssign
<1>2. it \in Gathered /\ Assignment(it) /\ it.kind # "AnsiPortList" /\ it.kind \in KindNames
  BY <1>1, ItemFacts DEF Gathered, Gathers, KindNames
<1>3. At(it) \in Entries /\ At(it) \in All /\ At(it).it = it
  <2>1. Len(file) + 1 \in Nat /\ 0 \in Nat
    BY DEF FInv
  <2>2. QED
    BY <1>2, <2>1 DEF At, Entry, Entries, All, Places2
<1>4. Good(fmt)
  BY DEF FInv
<1>5. Good(s) /\ Traced(s) = Traced(fmt)
  BY <1>4, SplitFacts DEF Continues
<1> HIDE DEF s
<1>6. Good(u) /\ Traced(u) = Traced(fmt)
  <2>1. FALSE \in BOOLEAN
    OBVIOUS
  <2>2. QED
    BY <1>2, <1>5, <2>1, SwitchFacts DEF Continues
<1> HIDE DEF u
<1>7. Adds(t, u, At(it))
  <2> DEFINE q == At(it)
  <2>1. q \in Entries /\ q.it = it
    BY <1>3
  <2>2. t = Queued([u EXCEPT !.var = MaxIn({@} \cup ToSet(q.it.lefts))], q)
    BY <2>1
  <2> HIDE DEF q, t
  <2>3. Adds(t, u, q)
    BY <1>2, <1>6, <2>1, <2>2, AssignedFacts
  <2>4. QED
    BY <2>3 DEF q
<1> HIDE DEF t
<1>8. Continues(u, fmt, u.kind)
  BY <1>6 DEF Continues
<1>9. QED
  BY <1>1, <1>2, <1>3, <1>7, <1>8, OneMore

LEMMA HierarchyInstantiationKeeps ==
  ASSUME FInv, phase = "visit", Len(file) < MaxItems, NEW it \in Items,
         HandleHierarchyInstantiation(it)
  PROVE  FInv'
<1> DEFINE u == SwitchBlocType(fmt, it.kind, TRUE)
           m == MeasuredInstance(u, it)
           t == [m EXCEPT !.out = Append(@, Format(m, At(it)))]
<1>1. it.kind = "HierarchyInstantiation" /\ Visits(it, t)
  BY DEF HandleHierarchyInstantiation, MeasuredInstance
<1>2. it \in Instances /\ it.kind # "AnsiPortList" /\ it.kind \in KindNames
  BY <1>1, ItemFacts DEF Instances, KindNames
<1>3. At(it) \in All /\ At(it).it = it
  <2>1. Len(file) + 1 \in Nat /\ 0 \in Nat
    BY DEF FInv
  <2>2. QED
    BY <1>2, <2>1 DEF At, Entry, All, Places2
<1>4. Good(fmt)
  BY DEF FInv
<1>5. Good(u) /\ Traced(u) = Traced(fmt) /\ u.queue = <<>>
  <2>1. TRUE \in BOOLEAN
    OBVIOUS
  <2>2. QED
    BY <1>2, <1>4, <2>1, SwitchFacts DEF Continues
<1> HIDE DEF u
<1>6. Adds(t, u, At(it))
  <2> DEFINE q == At(it)
             n == MeasuredInstance(u, q.it)
             v == [n EXCEPT !.out = Append(@, Format(n, q))]
  <2>1. q \in All /\ q.it = it
    BY <1>3
  <2>2. t = v
    BY <2>1
  <2> HIDE DEF q
  <2>3. Adds(v, u, q)
    BY <1>2, <1>5, <2>1, InstanceFacts
  <2> HIDE DEF v, t
  <2>4. QED
    BY <2>2, <2>3 DEF q
<1> HIDE DEF t
<1>7. Continues(u, fmt, u.kind)
  BY <1>5 DEF Continues
<1>8. QED
  BY <1>1, <1>2, <1>3, <1>6, <1>7, OneMore

LEMMA AnsiPortListKeeps ==
  ASSUME FInv, phase = "visit", Len(file) < MaxItems, NEW it \in Items, HandleAnsiPortList(it)
  PROVE  FInv'
<1> DEFINE n == Len(file) + 1
           L == Len(it.ports)
           visited[j \in 0 .. L] == IF j = 0 THEN ProcessPending(fmt)
                                    ELSE VisitPort(visited[j - 1], it.ports[j], n, j)
           s == visited[L]
           base == ProcessPending(fmt)
           ports == [j \in 1 .. Len(s.queue) |-> Format(s, s.queue[j])]
           short == Len(s.queue) < L
<1>1. /\ it.kind = "AnsiPortList" /\ file' = Append(file, it)
      /\ fmt' = Clear([s EXCEPT !.out = @ \o ports, !.block = @ + 1])
      /\ phase' = IF short \/ Fails(fmt') THEN "failed" ELSE phase
  BY DEF HandleAnsiPortList
<1>2. PortList(it)
  BY <1>1, ItemFacts
<1>3. n \in Nat /\ Good(fmt)
  BY DEF FInv
<1>4. PortsVisited(s, base, it, n, L)
  <2> HIDE DEF n
  <2>1. QED
    BY <1>2, <1>3, PortListFacts
<1> HIDE DEF s
<1>5. Good(s) /\ s.queue \in Seq(Entries) /\ L \in Nat
  BY <1>2, <1>4, PortFacts DEF PortsVisited, Good, Visitors
<1>6. fmt' = ProcessPending(s)
  <2>1. DOMAIN s.queue = 1 .. Len(s.queue)
    BY <1>5
  <2>2. QED
    BY <1>1, <2>1 DEF ProcessPending
<1>7. Good(base) /\ Traced(base) = Traced(fmt)
  BY <1>3, ProcessFacts
<1>8. Good(fmt') /\ fmt'.kind = s.kind /\ Traced(fmt') = Traced(s)
  BY <1>5, <1>6, ProcessFacts
<1>9. PICK more \in Seq(All) :
        /\ Traced(s) = Traced(base) \o more /\ OfPorts(more, it)
        /\ ~Skips(it, L) => more = Listed(it, n, L)
  BY <1>4 DEF PortsVisited
<1>10. Traced(fmt') = Traced(fmt) \o more
  BY <1>7, <1>8, <1>9
<1>11. Skips(it, L) => short /\ Hazardous(it)'
  <2>1. ASSUME Skips(it, L) PROVE Hazardous(it)'
    <3>1. PICK j \in 1 .. L : Explicit(it.ports[j])
      BY <2>1 DEF Skips
    <3>2. j \in DOMAIN it.ports
      BY <1>2, PortFacts
    <3>3. QED
      BY <1>1, <3>1, <3>2 DEF Hazardous
  <2>2. Skips(it, L) => Len(s.queue) < L
    BY Zenon, <1>4 DEF PortsVisited
  <2>3. QED
    BY <2>1, <2>2
<1> HIDE DEF n, L, base
<1>12. ~Skips(it, L) => PlacesOf(more) = Places(it, n)
  <2> SUFFICES ASSUME ~Skips(it, L) PROVE PlacesOf(more) = Places(it, n)
    OBVIOUS
  <2>1. L <= Len(it.ports)
    BY <1>5 DEF L
  <2>2. /\ more \in Seq(All) /\ Len(more) = L
        /\ \A j \in 1 .. L : more[j] = Entry(it.ports[j], n, j)
    <3>1. n \in Nat /\ L \in Nat
      BY <1>3, <1>5
    <3>2. /\ Listed(it, n, L) \in Seq(All) /\ Len(Listed(it, n, L)) = L
          /\ \A j \in 1 .. L : Listed(it, n, L)[j] = Entry(it.ports[j], n, j)
      BY <1>2, <2>1, <3>1, ListedFacts
    <3>3. more = Listed(it, n, L)
      BY Zenon, <1>9
    <3>4. QED
      BY Zenon, <3>2, <3>3
  <2>3. DOMAIN more = 1 .. L /\ \A j \in 1 .. L : more[j].at = <<n, j>>
    BY <2>2 DEF Entry
  <2>4. QED
    BY <1>1, <2>3 DEF PlacesOf, Places, L
<1>13. short \in BOOLEAN /\ (short => Hazardous(it)')
  <2>1. ASSUME short, ~Skips(it, L) PROVE Hazardous(it)'
    <3>1. Len(s.queue) \in Nat /\ Len(s.queue) < L /\ L > 0
      BY <1>5, <2>1
    <3>2. ~Opens(base)
      BY <1>4, <2>1, <3>1 DEF PortsVisited
    <3>3. s.kind # "ImplicitAnsiPort" /\ s.queue # <<>>
      BY <1>4, <2>1, <3>1, <3>2 DEF PortsVisited, Opens
    <3>4. Len(s.queue) >= 1
      BY <1>5, <3>3
    <3>5. L > 1
      BY <1>5, <3>1, <3>4
    <3>6. fmt'.kind # "ImplicitAnsiPort"
      BY <1>8, <3>3
    <3>7. QED
      BY <1>1, <3>5, <3>6 DEF Hazardous, L
  <2>2. QED
    BY <1>11, <2>1
<1>14. /\ ~short => PlacesOf(more) = Places(it, n)
       /\ \A i \in DOMAIN more : \E j \in DOMAIN it.ports : more[i].it = it.ports[j]
  BY <1>9, <1>11, <1>12 DEF OfPorts
<1> HIDE DEF short
<1>15. QED
  BY <1>1, <1>8, <1>10, <1>13, <1>14, VisitKeeps DEF n

LEMMA CompilationUnitKeeps ==
  ASSUME FInv, phase = "visit", HandleCompilationUnit
  PROVE  FInv'
<1>1. fmt' = ProcessPending(fmt) /\ file' = file
      /\ phase' = IF Fails(fmt') THEN "failed" ELSE "done"
  BY DEF HandleCompilationUnit
<1>2. /\ file \in Seq(Items) /\ Len(file) <= MaxItems /\ Good(fmt) /\ Origin(fmt, file)
      /\ PlacesOf(Traced(fmt)) = ExpectedOf(file)
  BY DEF FInv
<1>3. Good(fmt') /\ fmt'.queue = <<>> /\ Traced(fmt') = Traced(fmt)
  BY <1>1, <1>2, ProcessFacts
<1>4. Origin(fmt', file') /\ PlacesOf(Traced(fmt')) = ExpectedOf(file')
  BY <1>1, <1>2, <1>3 DEF Origin
<1>5. ASSUME phase' = "failed" PROVE \E n \in DOMAIN file' : Hazardous(file[n])'
  <2>1. Fails(fmt')
    BY <1>1, <1>5
  <2>2. \E n \in DOMAIN file' : Harmful(file'[n])
    BY <1>1, <1>2, <1>3, <1>4, <2>1, FailsFacts
  <2>3. QED
    BY <2>2 DEF Harmful, Hazardous
<1>6. QED
  BY <1>1, <1>2, <1>3, <1>4, <1>5 DEF FInv, FailuresKnown

LEMMA NextInv == FInv /\ [Next]_vars => FInv'
<1> SUFFICES ASSUME FInv, [Next]_vars PROVE FInv'
  OBVIOUS
<1>1. CASE UNCHANGED vars
  BY <1>1 DEF vars, FInv, FailuresKnown, Hazardous
<1>2. CASE Next
  <2>1. phase = "visit"
    BY <1>2 DEF Next
  <2>2. CASE HandleCompilationUnit
    BY <2>1, <2>2, CompilationUnitKeeps
  <2>3. ASSUME NEW it \in Items, Len(file) < MaxItems, HandleDataDeclaration(it) PROVE FInv'
    BY <2>1, <2>3, DataDeclarationKeeps
  <2>4. ASSUME NEW it \in Items, Len(file) < MaxItems, HandleContinuousAssign(it) PROVE FInv'
    BY <2>1, <2>4, ContinuousAssignKeeps
  <2>5. ASSUME NEW it \in Items, Len(file) < MaxItems, HandleHierarchyInstantiation(it)
        PROVE  FInv'
    BY <2>1, <2>5, HierarchyInstantiationKeeps
  <2>6. ASSUME NEW it \in Items, Len(file) < MaxItems, HandleAnsiPortList(it) PROVE FInv'
    BY <2>1, <2>6, AnsiPortListKeeps
  <2>7. QED
    BY <1>2, <2>2, <2>3, <2>4, <2>5, <2>6 DEF Next
<1>3. QED
  BY <1>1, <1>2

LEMMA Invariant == Spec => []FInv
<1>1. Init => FInv
  BY InitInv
<1>2. FInv /\ [Next]_vars => FInv'
  BY NextInv
<1>3. QED
  BY <1>1, <1>2, PTL DEF Spec

-----------------------------------------------------------------------------
(* What the formatter does with every file.                                *)

(* Whatever the handlers queued, wrote and cleared, the sizes of the block *)
(* are those of its pending items, with all their declarators:             *)
(* _store_format never forgets one, and _clear leaves nothing to the next  *)
(* block.                                                                  *)
THEOREM FormatterMeasures == Spec => []SizesFit
<1>1. FInv => SizesFit
  BY DEF FInv, SizesFit, Good, Sized
<1>2. QED
  BY <1>1, Invariant, PTL

(* Every item is written once, at its place, with its comments, however    *)
(* the blocks are cut: by blank lines, changes of kind, instances, ports.  *)
THEOREM FormatterWritesOnce == Spec => []WrittenOnce
<1>1. FInv => WrittenOnce
  <2> SUFFICES ASSUME FInv PROVE WrittenOnce
    OBVIOUS
  <2>1. phase # "failed" => PlacesOf(fmt.out) \o PlacesOf(fmt.queue) = Expected
    BY TracedFacts DEF FInv, Good, Expected, ExpectedOf
  <2>2. \A i \in DOMAIN fmt.out : LeadKept(fmt.out[i])
    BY DEF FInv, Good, Settled, Calm
  <2>3. phase = "done" => fmt.queue = <<>>
    BY DEF FInv
  <2>4. QED
    BY <2>1, <2>2, <2>3 DEF WrittenOnce
<1>2. QED
  BY <1>1, Invariant, PTL

(* The items of a block are in columns, whatever their modifiers, types,   *)
(* ranges and names, and though their spacings are computed in unsigned    *)
(* ints: their names, their semicolons but for what the source has between *)
(* the name and them, and the operators of the assigns.                    *)
THEOREM FormatterAligns == Spec => []Aligned
<1>1. FInv => Aligned
  BY DEF FInv, Good, Settled, Calm, Aligned
<1>2. QED
  BY <1>1, Invariant, PTL

(* No exception, null or wrapped spacing in a file with none of the known  *)
(* shapes.                                                                 *)
THEOREM FormatterFailuresKnown == Spec => []FailuresKnown
<1>1. FInv => FailuresKnown
  BY DEF FInv
<1>2. QED
  BY <1>1, Invariant, PTL
=============================================================================

----------------------------- MODULE DataLemmas ------------------------------
(***************************************************************************)
(* What queue_push, queue_pop and list_remove do to the tasks of a queue   *)
(* that holds each at most once, what the scan of a bitmap finds, and that *)
(* a loop that goes on from its last result has one for every count.       *)
(***************************************************************************)
EXTENDS Bitmap, Sequences, SequencesExt, SequenceTheorems, FiniteSetTheorems,
        WellFoundedInduction, TLAPS

\* The elements of a queue, by position.
LEMMA RangeIs ==
  ASSUME NEW S, NEW q \in Seq(S)
  PROVE  /\ Range(q) = {q[i] : i \in 1..Len(q)}
         /\ Range(q) \subseteq S
         /\ IsInjective(q) <=> \A i, j \in 1..Len(q) : q[i] = q[j] => i = j
BY DEF Range, IsInjective

\* queue_push at the tail adds one task.
LEMMA PushPlace ==
  ASSUME NEW S, NEW q \in Seq(S), NEW x \in S
  PROVE  /\ Append(q, x) \in Seq(S)
         /\ Range(Append(q, x)) = Range(q) \cup {x}
         /\ IsInjective(q) /\ x \notin Range(q) => IsInjective(Append(q, x))
<1>1. /\ Append(q, x) \in Seq(S) /\ Len(Append(q, x)) = Len(q) + 1 /\ Len(q) \in Nat
      /\ \A i \in 1..Len(q) : Append(q, x)[i] = q[i]
      /\ Append(q, x)[Len(q) + 1] = x
  OBVIOUS
<1>2. 1..(Len(q) + 1) = 1..Len(q) \cup {Len(q) + 1}
  BY <1>1
<1>3. Range(Append(q, x)) = {Append(q, x)[i] : i \in 1..(Len(q) + 1)}
  BY <1>1, RangeIs
<1>4. Range(Append(q, x)) = Range(q) \cup {x}
  BY <1>1, <1>2, <1>3, RangeIs
<1>5. ASSUME IsInjective(q), x \notin Range(q) PROVE IsInjective(Append(q, x))
  <2> SUFFICES ASSUME NEW i \in 1..(Len(q) + 1), NEW j \in 1..(Len(q) + 1),
                      Append(q, x)[i] = Append(q, x)[j]
               PROVE  i = j
    BY <1>1, RangeIs
  <2>1. \A k \in 1..Len(q) : q[k] # x
    BY <1>5, RangeIs
  <2>2. QED
    BY <1>1, <1>2, <1>5, <2>1, RangeIs
<1>6. QED
  BY <1>1, <1>4, <1>5

\* queue_pop takes the head away and nothing else.
LEMMA PopPlace ==
  ASSUME NEW S, NEW q \in Seq(S), q # <<>>, IsInjective(q)
  PROVE  /\ Tail(q) \in Seq(S) /\ Head(q) \in Range(q)
         /\ Range(Tail(q)) = Range(q) \ {Head(q)}
         /\ IsInjective(Tail(q))
<1>1. /\ Tail(q) \in Seq(S) /\ Len(Tail(q)) = Len(q) - 1 /\ Len(q) \in Nat \ {0}
      /\ \A i \in 1..(Len(q) - 1) : Tail(q)[i] = q[i + 1]
      /\ Head(q) = q[1]
  BY HeadTailProperties, EmptySeq
<1>2. Head(q) \in Range(q)
  BY <1>1, RangeIs
<1>3. \A i \in 1..(Len(q) - 1) : i + 1 \in 1..Len(q) /\ i + 1 # 1
  BY <1>1
<1>4. \A i \in 1..Len(q) : i # 1 => i - 1 \in 1..(Len(q) - 1) /\ (i - 1) + 1 = i
  BY <1>1
<1>5. \A i \in 1..(Len(q) - 1) : q[i + 1] # q[1]
  BY <1>1, <1>3, RangeIs
<1>rest. Range(Tail(q)) = {Tail(q)[k] : k \in 1..(Len(q) - 1)}
  <2>1. Range(Tail(q)) = {Tail(q)[k] : k \in 1..Len(Tail(q))}
    <3> DEFINE t == Tail(q)
    <3>1. t \in Seq(S)
      BY <1>1
    <3> HIDE DEF t
    <3>2. Range(t) = {t[k] : k \in 1..Len(t)}
      BY <3>1, RangeIs
    <3>3. QED
      BY <3>2, Zenon DEF t
  <2>2. QED
    BY <1>1, <2>1, Zenon
<1>6. Range(Tail(q)) \subseteq Range(q) \ {Head(q)}
  <2> SUFFICES ASSUME NEW i \in 1..(Len(q) - 1)
               PROVE  Tail(q)[i] \in Range(q) \ {Head(q)}
    BY <1>rest
  <2>1. q[i + 1] \in Range(q) /\ q[i + 1] # Head(q)
    BY <1>1, <1>3, <1>5, RangeIs
  <2>2. QED
    BY <1>1, <2>1
<1>7. Range(q) \ {Head(q)} \subseteq Range(Tail(q))
  <2> SUFFICES ASSUME NEW i \in 1..Len(q), q[i] # q[1] PROVE q[i] \in Range(Tail(q))
    BY <1>1, RangeIs
  <2>1. i # 1 /\ Tail(q)[i - 1] = q[i]
    BY <1>1, <1>4
  <2>2. QED
    BY <1>4, <1>rest, <2>1
<1>8. IsInjective(Tail(q))
  <2> SUFFICES ASSUME NEW i \in 1..(Len(q) - 1), NEW j \in 1..(Len(q) - 1),
                      q[i + 1] = q[j + 1]
               PROVE  i = j
    BY <1>1, RangeIs
  <2>1. i + 1 = j + 1
    BY <1>3, RangeIs
  <2>2. QED
    BY <2>1
<1>9. QED
  BY <1>1, <1>2, <1>6, <1>7, <1>8

\* What is left when one place of a sequence is removed.
LEMMA RemoveAtIs ==
  ASSUME NEW S, NEW q \in Seq(S), NEW i \in 1..Len(q)
  PROVE  /\ RemoveAt(q, i) \in Seq(S) /\ Len(RemoveAt(q, i)) = Len(q) - 1
         /\ \A k \in 1..(Len(q) - 1) :
              RemoveAt(q, i)[k] = IF k < i THEN q[k] ELSE q[k + 1]
<1>0. Len(q) \in Nat
  OBVIOUS
<1> DEFINE front == SubSeq(q, 1, i - 1)
           rear  == SubSeq(q, i + 1, Len(q))
<1>1. /\ front \in Seq(S) /\ Len(front) = i - 1
      /\ \A k \in 1..(i - 1) : front[k] = q[k]
  BY <1>0, SubSeqProperties
<1>2. /\ rear \in Seq(S) /\ Len(rear) = Len(q) - i
      /\ \A k \in 1..(Len(q) - i) : rear[k] = q[k + i]
  BY <1>0, SubSeqProperties
<1>3. RemoveAt(q, i) = front \o rear
  BY DEF RemoveAt
<1> HIDE DEF front, rear
<1>4. /\ front \o rear \in Seq(S) /\ Len(front \o rear) = Len(q) - 1
      /\ \A k \in 1..(Len(q) - 1) :
           (front \o rear)[k] = IF k <= i - 1 THEN front[k] ELSE rear[k - (i - 1)]
  <2>1. Len(front) + Len(rear) = Len(q) - 1
    BY <1>0, <1>1, <1>2
  <2>2. /\ front \o rear \in Seq(S) /\ Len(front \o rear) = Len(front) + Len(rear)
        /\ \A k \in 1..(Len(front) + Len(rear)) :
             (front \o rear)[k] = IF k <= Len(front) THEN front[k] ELSE rear[k - Len(front)]
    BY <1>1, <1>2, ConcatProperties, Zenon
  <2>3. QED
    BY <1>1, <2>1, <2>2, Zenon
<1>5. ASSUME NEW k \in 1..(Len(q) - 1)
      PROVE  RemoveAt(q, i)[k] = IF k < i THEN q[k] ELSE q[k + 1]
  <2>1. CASE k < i
    BY <1>0, <1>1, <1>3, <1>4, <2>1
  <2>2. CASE ~(k < i)
    <3>1. k - (i - 1) \in 1..(Len(q) - i) /\ (k - (i - 1)) + i = k + 1
      BY <1>0, <2>2
    <3>2. RemoveAt(q, i)[k] = rear[k - (i - 1)]
      <4>1. ~(k <= i - 1)
        BY <1>0, <2>2
      <4>2. QED
        BY <1>3, <1>4, <4>1, Zenon
    <3>3. QED
      BY <1>2, <2>2, <3>1, <3>2
  <2>3. QED
    BY <2>1, <2>2
<1>6. QED
  BY <1>3, <1>4, <1>5

\* list_remove takes the task at its index away and nothing else.
LEMMA RemovePlace ==
  ASSUME NEW S, NEW q \in Seq(S), NEW i \in 1..Len(q), IsInjective(q)
  PROVE  /\ RemoveAt(q, i) \in Seq(S)
         /\ Range(RemoveAt(q, i)) = Range(q) \ {q[i]}
         /\ IsInjective(RemoveAt(q, i))
<1>0. Len(q) \in Nat
  OBVIOUS
<1>1. /\ RemoveAt(q, i) \in Seq(S) /\ Len(RemoveAt(q, i)) = Len(q) - 1
      /\ \A k \in 1..(Len(q) - 1) : RemoveAt(q, i)[k] = IF k < i THEN q[k] ELSE q[k + 1]
  BY RemoveAtIs
<1> DEFINE src(k) == IF k < i THEN k ELSE k + 1
           dst(k) == IF k < i THEN k ELSE k - 1
<1>2. \A k \in 1..(Len(q) - 1) :
        src(k) \in 1..Len(q) /\ src(k) # i /\ RemoveAt(q, i)[k] = q[src(k)]
  BY <1>0, <1>1
<1>3. \A k \in 1..Len(q) : k # i => dst(k) \in 1..(Len(q) - 1) /\ src(dst(k)) = k
  BY <1>0
<1>4. \A k, l \in 1..(Len(q) - 1) : src(k) = src(l) => k = l
  BY <1>0
<1> HIDE DEF src, dst
<1>5. Range(RemoveAt(q, i)) \subseteq Range(q) \ {q[i]}
  BY <1>1, <1>2, RangeIs, SMTT(30)
<1>6. Range(q) \ {q[i]} \subseteq Range(RemoveAt(q, i))
  <2> SUFFICES ASSUME NEW k \in 1..Len(q), q[k] # q[i]
               PROVE  q[k] \in Range(RemoveAt(q, i))
    BY RangeIs
  <2>1. dst(k) \in 1..(Len(q) - 1) /\ RemoveAt(q, i)[dst(k)] = q[k]
    BY <1>2, <1>3
  <2>2. QED
    BY <1>1, <2>1, RangeIs
<1>7. IsInjective(RemoveAt(q, i))
  <2> SUFFICES ASSUME NEW k \in 1..(Len(q) - 1), NEW l \in 1..(Len(q) - 1),
                      RemoveAt(q, i)[k] = RemoveAt(q, i)[l]
               PROVE  k = l
    BY <1>1, RangeIs
  <2>1. src(k) = src(l)
    BY <1>2, RangeIs
  <2>2. QED
    BY <1>4, <2>1
<1>8. QED
  BY <1>1, <1>5, <1>6, <1>7
-----------------------------------------------------------------------------
Below == {p \in Nat \X Nat : p[1] < p[2]}

(***************************************************************************)
(* A set of natural numbers that is not empty has a least element.         *)
(***************************************************************************)
LEMMA Least ==
  ASSUME NEW S \in SUBSET Nat, S # {}
  PROVE  \E m \in S : \A n \in S : m <= n
<1>1. IsWellFoundedOn(Below, Nat)
  BY NatLessThanWellFounded, Zenon DEF OpToRel, Below
<1>2. PICK m \in S : \A n \in S : ~(<<n, m>> \in Below)
  BY <1>1, WFMin, Zenon
<1>3. ASSUME NEW n \in S PROVE m <= n
  <2>1. n \in Nat /\ m \in Nat
    OBVIOUS
  <2>2. n < m => <<n, m>> \in Below
    BY <2>1 DEF Below
  <2>3. QED
    BY <1>2, <2>1, <2>2
<1>4. QED
  BY <1>3

\* What holds of 0 and of the successor of each of the first len numbers it
\* holds of, holds of all of them.
LEMMA UpTo ==
  ASSUME NEW len \in Nat, NEW P, 0 \in P, \A n \in 1..len : n - 1 \in P => n \in P
  PROVE  0..len \subseteq P
<1> SUFFICES ASSUME NEW n \in 0..len, n \notin P PROVE FALSE
  OBVIOUS
<1> DEFINE Bad == {k \in 0..len : k \notin P}
<1>1. Bad \in SUBSET Nat /\ Bad # {}
  OBVIOUS
<1>2. PICK k \in Bad : \A j \in Bad : k <= j
  BY <1>1, Least, Zenon
<1>3. k \in 1..len /\ k \notin P /\ k - 1 \in 0..len /\ ~(k <= k - 1)
  BY <1>2
<1>4. k - 1 \in P
  BY <1>2, <1>3
<1>5. QED
  BY <1>3, <1>4

\* The results of a loop from a on, whose round n makes of the last the next.
Rounds(f, G, a, len) == \A n \in 0..len : f[n] = IF n = 0 THEN a ELSE G[n][f[n - 1]]

\* Each of them exists, and is in S.
LEMMA RecursionExists ==
  ASSUME NEW S, NEW G \in [Nat -> [S -> S]], NEW a \in S, NEW len \in Nat
  PROVE  \E f \in [0..len -> S] : Rounds(f, G, a, len)
<1> DEFINE Fits(f, m) == Rounds(f, G, a, m)
           P == {m \in Nat : \E f \in [0..m -> S] : Fits(f, m)}
<1>1. 0 \in P
  <2> DEFINE f == [n \in 0..0 |-> a]
  <2>1. f \in [0..0 -> S] /\ Fits(f, 0)
    BY DEF Rounds
  <2>2. QED
    BY <2>1
<1>2. ASSUME NEW m \in 1..len, m - 1 \in P PROVE m \in P
  <2>1. PICK f \in [0..(m - 1) -> S] : Fits(f, m - 1)
    BY <1>2
  <2> DEFINE g == [n \in 0..m |-> IF n = m THEN G[m][f[m - 1]] ELSE f[n]]
  <2>2. m - 1 \in 0..(m - 1) /\ m \in Nat /\ \A n \in 0..m : n # m => n \in 0..(m - 1)
    OBVIOUS
  <2>3. g \in [0..m -> S]
    BY <2>2
  <2>4. ASSUME NEW n \in 0..m PROVE g[n] = IF n = 0 THEN a ELSE G[n][g[n - 1]]
    <3>1. CASE n = m
      <4>1. m # 0 /\ m - 1 # m /\ m - 1 \in 0..m
        BY <2>2
      <4>2. g[m - 1] = f[m - 1] /\ g[m] = G[m][f[m - 1]]
        BY <2>2, <4>1
      <4> HIDE DEF g
      <4>3. QED
        BY <3>1, <4>1, <4>2
    <3>2. CASE n # m
      <4>1. n \in 0..(m - 1) /\ (n # 0 => n - 1 \in 0..m /\ n - 1 # m)
        BY <2>2, <3>2
      <4>2. g[n] = f[n] /\ (n # 0 => g[n - 1] = f[n - 1])
        BY <3>2, <4>1
      <4>3. f[n] = IF n = 0 THEN a ELSE G[n][f[n - 1]]
        BY <2>1, <4>1 DEF Rounds
      <4> HIDE DEF g
      <4>4. QED
        BY <4>2, <4>3
    <3>3. QED
      BY <3>1, <3>2
  <2>5. Fits(g, m)
    BY <2>4 DEF Rounds
  <2>6. QED
    BY <2>2, <2>3, <2>5
<1>3. len \in 0..len /\ 0..len \subseteq P
  <2> HIDE DEF P
  <2>1. 0 \in P /\ \A m \in 1..len : m - 1 \in P => m \in P
    BY <1>1, <1>2
  <2>2. 0..len \subseteq P
    BY <2>1, UpTo, Zenon
  <2>3. QED
    BY <2>2
<1>4. QED
  BY <1>3

\* Sequences one behind the other.
LEMMA FlattenIs ==
  ASSUME NEW S, NEW seqs \in Seq(Seq(S))
  PROVE  /\ FlattenSeq(seqs) \in Seq(S)
         /\ Range(FlattenSeq(seqs)) = UNION {Range(seqs[i]) : i \in 1..Len(seqs)}
<1> DEFINE n == Len(seqs)
           part(k) == IF k + 1 \in 1..n THEN seqs[k + 1] ELSE <<>>
           G == [k \in Nat |-> [s \in Seq(S) |-> s \o part(k)]]
<1>1. n \in Nat /\ \A i \in 1..n : seqs[i] \in Seq(S)
  OBVIOUS
<1>2. CASE n = 0
  <2>1. seqs = <<>> /\ <<>> \in Seq(S)
    BY <1>2
  <2>2. FlattenSeq(seqs) = seqs
    BY <1>2, Zenon DEF FlattenSeq
  <2>3. Range(<<>>) = {} /\ UNION {Range(seqs[i]) : i \in 1..n} = {}
    BY <1>2 DEF Range
  <2>4. QED
    BY <2>1, <2>2, <2>3
<1>3. CASE n # 0
  <2>1. \A k : part(k) \in Seq(S)
    BY <1>1
  <2> HIDE DEF part
  <2>2. G \in [Nat -> [Seq(S) -> Seq(S)]]
    BY <2>1
  <2>3. n - 1 \in Nat /\ seqs[1] \in Seq(S)
    BY <1>1, <1>3
  <2> HIDE DEF G, n
  <2>4. PICK h \in [0..(n - 1) -> Seq(S)] : Rounds(h, G, seqs[1], n - 1)
    BY <2>2, <2>3, RecursionExists
  <2> DEFINE f == [i \in 1..n |-> h[i - 1]]
  <2>5. \A i \in 1..n : f[i] = h[i - 1] /\ i - 1 \in 0..(n - 1) /\ f[i] \in Seq(S)
    BY <1>1, <2>4
  <2>6. ASSUME NEW i \in 1..n
        PROVE  f[i] = IF i = 1 THEN seqs[i] ELSE f[i - 1] \o seqs[i]
    <3>1. h[i - 1] = IF i - 1 = 0 THEN seqs[1] ELSE G[i - 1][h[i - 2]]
      <4>1. i - 1 \in 0..(n - 1) /\ (i - 1) - 1 = i - 2
        BY <1>1
      <4>2. QED
        BY <2>4, <4>1 DEF Rounds
    <3>2. CASE i = 1
      BY <2>5, <3>1, <3>2
    <3>3. CASE i # 1
      <4>1. i - 1 \in 1..n /\ i - 1 \in Nat /\ i - 1 # 0 /\ (i - 1) - 1 = i - 2 /\ (i - 1) + 1 = i
        BY <1>1, <3>3
      <4>2. f[i - 1] = h[i - 2] /\ f[i - 1] \in Seq(S)
        BY <2>5, <4>1
      <4>3. G[i - 1][f[i - 1]] = f[i - 1] \o part(i - 1)
        BY <4>1, <4>2 DEF G
      <4>4. part(i - 1) = seqs[i]
        BY <4>1 DEF part, n
      <4> HIDE DEF f
      <4>5. QED
        BY <2>5, <3>1, <3>3, <4>1, <4>2, <4>3, <4>4
    <3>4. QED
      BY <3>2, <3>3
  <2>7. f = [i \in 1..n |-> IF i = 1 THEN seqs[i] ELSE f[i - 1] \o seqs[i]]
    <3> DEFINE g == [i \in 1..n |-> IF i = 1 THEN seqs[i] ELSE f[i - 1] \o seqs[i]]
    <3>1. f = [i \in 1..n |-> f[i]] /\ g = [i \in 1..n |-> g[i]]
      OBVIOUS
    <3>2. \A i \in 1..n : g[i] = IF i = 1 THEN seqs[i] ELSE f[i - 1] \o seqs[i]
      BY Zenon
    <3> HIDE DEF f, g
    <3>3. \A i \in 1..n : f[i] = g[i]
      BY <2>6, <3>2
    <3>4. QED
      BY <3>1, <3>3 DEF g
  <2> DEFINE c == CHOOSE c : c = [i \in 1..n |-> IF i = 1 THEN seqs[i] ELSE c[i - 1] \o seqs[i]]
             All(k) == UNION {Range(seqs[i]) : i \in 1..k}
             P == {k \in 0..(n - 1) : c[k + 1] \in Seq(S) /\ Range(c[k + 1]) = All(k + 1)}
  <2> HIDE DEF f
  <2>8. c = [i \in 1..n |-> IF i = 1 THEN seqs[i] ELSE c[i - 1] \o seqs[i]]
    BY <2>7, Zenon
  <2>9. FlattenSeq(seqs) = c[n]
    BY <1>3, Zenon DEF FlattenSeq, n
  <2> HIDE DEF c
  <2>10. \A i \in 1..n : c[i] = IF i = 1 THEN seqs[i] ELSE c[i - 1] \o seqs[i]
    BY <2>8, Zenon
  <2>11. 0 \in P
    <3>1. 1 \in 1..n /\ 0 \in 0..(n - 1) /\ 0 + 1 = 1
      BY <1>1, <1>3
    <3>2. c[1] = seqs[1]
      BY <2>10, <3>1
    <3>3. All(1) = Range(seqs[1])
      OBVIOUS
    <3>4. QED
      BY <2>3, <3>1, <3>2, <3>3
  <2>12. ASSUME NEW k \in 1..(n - 1), k - 1 \in P PROVE k \in P
    <3>1. k + 1 \in 1..n /\ k + 1 # 1 /\ (k + 1) - 1 = k /\ (k - 1) + 1 = k /\ k \in 0..(n - 1)
      BY <1>1
    <3>2. c[k] \in Seq(S) /\ seqs[k + 1] \in Seq(S) /\ Range(c[k]) = All(k)
      BY <1>1, <2>12, <3>1 DEF n
    <3>3. c[k + 1] = c[k] \o seqs[k + 1]
      BY <2>10, <3>1
    <3>4. c[k] \o seqs[k + 1] \in Seq(S)
      BY <3>2
    <3>5. c[k + 1] \in Seq(S)
      BY <3>3, <3>4, Zenon
    <3>6. Range(c[k + 1]) = All(k + 1)
      <4>1. Range(c[k] \o seqs[k + 1]) = Range(c[k]) \cup Range(seqs[k + 1])
        BY <3>2, RangeConcatenation
      <4>2. 1..(k + 1) = 1..k \cup {k + 1}
        BY <3>1
      <4>3. All(k + 1) = All(k) \cup Range(seqs[k + 1])
        BY <4>2
      <4> HIDE DEF All
      <4>4. QED
        BY <3>2, <3>3, <4>1, <4>3
    <3> HIDE DEF All
    <3>7. QED
      BY <3>1, <3>5, <3>6
  <2>13. n - 1 \in P
    <3> HIDE DEF P
    <3> DEFINE last == n - 1
    <3>1. last \in Nat /\ 0 \in P /\ \A k \in 1..last : k - 1 \in P => k \in P
      BY <2>3, <2>11, <2>12
    <3> HIDE DEF last
    <3>2. 0..last \subseteq P
      BY <3>1, UpTo, Zenon
    <3>3. n - 1 \in 0..(n - 1)
      BY <2>3
    <3>4. QED
      BY <3>2, <3>3 DEF last
  <2>14. (n - 1) + 1 = n
    BY <1>1
  <2>15. c[n] \in Seq(S) /\ Range(c[n]) = All(n)
    <3> HIDE DEF All
    <3>1. QED
      BY <2>13, <2>14
  <2>16. QED
    BY <2>9, <2>15 DEF n
<1>4. QED
  BY <1>2, <1>3

(***************************************************************************)
(* bitmap.c:84-101: as long as one bit is clear, the scan returns a clear  *)
(* bit, and no clear bit lies between the start of the scan and this one,  *)
(* whether or not the scan wraps round the end of the map.                 *)
(***************************************************************************)
THEOREM ScanFindsNearest ==
  ASSUME NEW bits \in Nat \ {0}, NEW map, NEW prev \in 0..(bits - 1),
         ~ (0..(bits - 1) \subseteq map)
  PROVE  LET bit == bitmap_scan_empty(bits, map, prev)
         IN  /\ bit \in (0..(bits - 1)) \ map
             /\ \A other \in (0..(bits - 1)) \ map :
                  (bit - prev) % bits <= (other - prev) % bits
<1> DEFINE Clear == (0..(bits - 1)) \ map
           D == {(bit - prev) % bits : bit \in Clear}
<1>1. \A bit \in Clear : (bit - prev) % bits \in Nat
  <2> SUFFICES ASSUME NEW bit \in 0..(bits - 1) PROVE (bit - prev) % bits \in Nat
    OBVIOUS
  <2>1. bit - prev \in Int
    OBVIOUS
  <2>2. QED
    BY <2>1
<1>2. D \in SUBSET Nat /\ D # {}
  BY <1>1
<1>3. PICK m \in D : \A n \in D : m <= n
  BY <1>2, Least, Zenon
<1>4. PICK bit \in Clear : m = (bit - prev) % bits
  OBVIOUS
<1>5. \A other \in Clear : (bit - prev) % bits <= (other - prev) % bits
  BY <1>3, <1>4
<1>6. QED
  BY <1>5 DEF bitmap_scan_empty
\* A queue of n numbers that holds each at most once is not longer than n, and
\* when it is as long it holds them all.
LEMMA FitsIs ==
  ASSUME NEW n \in Nat, NEW q \in Seq(1..n), IsInjective(q)
  PROVE  /\ Len(q) <= n
         /\ Len(q) = n => Range(q) = 1..n
<1>1. Len(q) \in Nat /\ DOMAIN q = 1..Len(q) /\ q \in [1..Len(q) -> 1..n]
  OBVIOUS
<1>2. \A k \in Nat : IsFiniteSet(1..k) /\ Cardinality(1..k) = k
  <2>1. ASSUME NEW k \in Nat PROVE IsFiniteSet(1..k) /\ Cardinality(1..k) = IF 1 > k THEN 0 ELSE k - 1 + 1
    BY FS_Interval
  <2>2. QED
    BY <2>1
<1>3. q \in Injection(1..Len(q), 1..n)
  BY <1>1 DEF Injection
<1>4. /\ Cardinality(1..Len(q)) <= Cardinality(1..n)
      /\ Cardinality(1..Len(q)) = Cardinality(1..n) => q \in Surjection(1..Len(q), 1..n)
  BY <1>2, <1>3, FS_Injection
<1>5. q \in Surjection(1..Len(q), 1..n) => Range(q) = 1..n
  <2>1. SUFFICES ASSUME q \in Surjection(1..Len(q), 1..n) PROVE Range(q) = 1..n
    OBVIOUS
  <2>2. \A t \in 1..n : \E i \in 1..Len(q) : q[i] = t
    BY <2>1, Zenon DEF Surjection
  <2>3. QED
    BY <1>1, <2>2 DEF Range
<1>6. QED
  BY <1>1, <1>2, <1>4, <1>5
=============================================================================

------------------------ MODULE ResourceScheduleProofs ------------------------
(***************************************************************************)
(* Proofs about ResourceSchedule for any resources, requests, calendars    *)
(* and times: the diagrams tell what is taken, and nothing is given away   *)
(* twice.                                                                  *)
(***************************************************************************)
EXTENDS ResourceSchedule, SequenceTheorems, WellFoundedInduction, TLAPS

Steps == [time : 0 .. Infinity, amount : Nat]

\* The times of a diagram grow, up to Infinity, where steps may meet.
Sorted(d) ==
  \A i, k \in 1 .. Len(d) :
    i < k => d[i].time < d[k].time \/ (d[i].time = Infinity /\ d[k].time = Infinity)

\* What is taken after the i-th step.
Amount(d, i) == IF i = 0 THEN 0 ELSE d[i].amount

\* The i-th step is the last one that is not after t.
Reached(d, i, t) ==
  /\ i \in 0 .. Len(d)
  /\ i > 0 => d[i].time <= t
  /\ i < Len(d) => t < d[i+1].time

-----------------------------------------------------------------------------
(* Least and greatest numbers                                               *)

\* A set of natural numbers that is not empty has a least element.
LEMMA LeastExists ==
  ASSUME NEW T \in SUBSET Nat, T # {}
  PROVE  \E n \in T : \A k \in T : n <= k
<1> DEFINE R == {ss \in Nat \X Nat : ss[1] < ss[2]}
<1>1. IsWellFoundedOn(R, Nat)
  BY NatLessThanWellFounded DEF OpToRel
<1>2. PICK n \in T : \A k \in T : ~ (<<k, n>> \in R)
  <2> HIDE DEF R
  <2> QED
    BY <1>1, WFMin
<1>3. ASSUME NEW k \in T PROVE n <= k
  <2>1. <<k, n>> \in Nat \X Nat /\ ~(<<k, n>> \in R)
    BY <1>2
  <2>2. ~(k < n)
    BY <2>1
  <2> QED
    BY <2>2
<1> QED
  BY <1>3

\* Min returns the least element.
LEMMA MinIsLeast ==
  ASSUME NEW T \in SUBSET Nat, T # {}
  PROVE  Min(T) \in T /\ \A k \in T : Min(T) <= k
BY LeastExists DEF Min

\* What holds of 0, and of each number up to n if it holds of the one before, holds
\* of all of them.
LEMMA UpTo ==
  ASSUME NEW n \in Nat, NEW T, 0 \in T, \A i \in 1 .. n : i - 1 \in T => i \in T
  PROVE  \A i \in 0 .. n : i \in T
<1> DEFINE M == {i \in 0 .. n : i \notin T}
<1> SUFFICES ASSUME M # {} PROVE FALSE
  OBVIOUS
<1>1. PICK m \in M : \A k \in M : m <= k
  <2>1. M \in SUBSET Nat
    OBVIOUS
  <2> HIDE DEF M
  <2> QED
    BY <2>1, LeastExists
<1>2. m \in 1 .. n /\ m \notin T /\ m - 1 \in 0 .. n
  BY <1>1
<1>3. m - 1 \in T
  BY <1>1, <1>2
<1> QED
  BY <1>2, <1>3

\* Max returns the greatest element of a set that is bounded.
LEMMA MaxIsGreatest ==
  ASSUME NEW m \in Nat, NEW T \in SUBSET (0 .. m), T # {}
  PROVE  Max(T) \in T /\ \A k \in T : k <= Max(T)
<1> DEFINE B == {n \in Nat : \A k \in T : k <= n}
<1>0. \A k \in T : k \in Nat /\ k <= m
  OBVIOUS
<1>1. m \in B /\ B \in SUBSET Nat
  BY <1>0
<1>2. PICK b \in B : \A n \in B : b <= n
  BY <1>1, LeastExists
<1>3. b \in Nat /\ \A k \in T : k <= b
  BY <1>2
<1>4. b \in T
  <2> SUFFICES ASSUME b \notin T PROVE FALSE
    OBVIOUS
  <2>1. \A k \in T : k <= b - 1
    BY <1>0, <1>3
  <2>2. b - 1 \in Nat
    <3>1. PICK k \in T : TRUE
      OBVIOUS
    <3> QED
      BY <1>0, <1>3, <2>1, <3>1
  <2> QED
    BY <1>2, <1>3, <2>1, <2>2
<1> HIDE DEF B
<1>5. \E x \in T : \A y \in T : x >= y
  BY <1>0, <1>3, <1>4
<1>6. Max(T) \in T /\ \A y \in T : Max(T) >= y
  BY <1>5 DEF Max
<1> QED
  BY <1>0, <1>6

-----------------------------------------------------------------------------
(* Where a diagram is split                                                 *)

\* The steps of a diagram.
LEMMA StepIs ==
  ASSUME NEW d \in Seq(Steps), NEW i \in 1 .. Len(d)
  PROVE  /\ d[i] \in Steps /\ d[i].amount \in Nat
         /\ d[i].time \in Nat /\ d[i].time <= Infinity
<1>1. d[i] \in Steps
  BY ElementOfSeq
<1> QED
  BY <1>1, TimesAssumption DEF Steps

\* The first step that is not before a time.
LEMMA FirstIs ==
  ASSUME NEW d \in Seq(Steps), NEW t \in Nat
  PROVE  /\ First(d, t) \in 1 .. Len(d) + 1
         /\ \A i \in 1 .. Len(d) : i < First(d, t) => d[i].time < t
         /\ First(d, t) <= Len(d) => t <= d[First(d, t)].time
<1> DEFINE T == {i \in DOMAIN d : d[i].time >= t} \union {Len(d) + 1}
<1>0. \A i \in 1 .. Len(d) : d[i].time \in Nat
  BY StepIs
<1>1. T \in SUBSET Nat /\ Len(d) + 1 \in T /\ DOMAIN d = 1 .. Len(d) /\ Len(d) \in Nat
  OBVIOUS
<1>2. First(d, t) \in T /\ \A k \in T : First(d, t) <= k
  BY <1>1, MinIsLeast DEF First
<1> QED
  BY <1>0, <1>1, <1>2

\* The parts before and from a time.
LEMMA PartsAre ==
  ASSUME NEW d \in Seq(Steps), NEW t \in Nat
  PROVE  /\ Before(d, t) \in Seq(Steps) /\ From(d, t) \in Seq(Steps)
         /\ Len(Before(d, t)) = First(d, t) - 1
         /\ Len(From(d, t)) = Len(d) - First(d, t) + 1
         /\ \A i \in 1 .. Len(Before(d, t)) : Before(d, t)[i] = d[i]
         /\ \A i \in 1 .. Len(From(d, t)) : From(d, t)[i] = d[First(d, t) + i - 1]
<1> DEFINE p == First(d, t)
<1>1. p \in 1 .. Len(d) + 1 /\ Len(d) \in Nat
  BY FirstIs
<1> HIDE DEF p
<1>2. \A i \in 1 .. Len(d) : d[i] \in Steps
  BY ElementOfSeq
<1>3. /\ SubSeq(d, 1, p - 1) \in Seq(Steps)
      /\ Len(SubSeq(d, 1, p - 1)) = p - 1
      /\ \A i \in 1 .. p - 1 : SubSeq(d, 1, p - 1)[i] = d[i]
  <2>1. \A i \in 1 .. p - 1 : d[i] \in Steps
    BY <1>1, <1>2
  <2> QED
    BY <1>1, <2>1, SubSeqProperties, Z3
<1>4. /\ SubSeq(d, p, Len(d)) \in Seq(Steps)
      /\ Len(SubSeq(d, p, Len(d))) = Len(d) - p + 1
      /\ \A i \in 1 .. Len(d) - p + 1 : SubSeq(d, p, Len(d))[i] = d[p + i - 1]
  <2>1. \A i \in p .. Len(d) : d[i] \in Steps
    BY <1>1, <1>2
  <2> QED
    BY <1>1, <2>1, SubSeqProperties, Z3
<1> QED
  BY <1>1, <1>3, <1>4 DEF p, Before, From

\* The last amount of a sequence of steps.
LEMMA LastAmountIs ==
  ASSUME NEW d \in Seq(Steps)
  PROVE  LastAmount(d) = Amount(d, Len(d)) /\ LastAmount(d) \in Nat
<1>1. d = <<>> <=> Len(d) = 0
  OBVIOUS
<1>2. \A i \in 1 .. Len(d) : d[i].amount \in Nat
  BY StepIs
<1> QED
  BY <1>1, <1>2 DEF LastAmount, Amount, Last

\* What is taken at one time, told by the position of the split.
LEMMA AtIs ==
  ASSUME NEW d \in Seq(Steps), NEW t \in Nat
  PROVE  /\ StepsAt(d, t) <=> First(d, t) <= Len(d) /\ d[First(d, t)].time = t
         /\ At(d, t) = IF StepsAt(d, t) THEN d[First(d, t)].amount
                                        ELSE Amount(d, First(d, t) - 1)
         /\ At(d, t) \in Nat
<1>1. First(d, t) \in 1 .. Len(d) + 1 /\ Len(d) \in Nat
  BY FirstIs
<1>2. \A i \in 1 .. Len(d) : d[i].amount \in Nat
  BY StepIs
<1>p. /\ Before(d, t) \in Seq(Steps) /\ From(d, t) \in Seq(Steps)
      /\ Len(Before(d, t)) = First(d, t) - 1
      /\ Len(From(d, t)) = Len(d) - First(d, t) + 1
      /\ \A i \in 1 .. Len(Before(d, t)) : Before(d, t)[i] = d[i]
      /\ \A i \in 1 .. Len(From(d, t)) : From(d, t)[i] = d[First(d, t) + i - 1]
  BY PartsAre
<1>3. From(d, t) # <<>> <=> First(d, t) <= Len(d)
  BY <1>1, <1>p
<1>4. First(d, t) <= Len(d) => Head(From(d, t)) = d[First(d, t)]
  <2> SUFFICES ASSUME First(d, t) <= Len(d)
               PROVE  Head(From(d, t)) = d[First(d, t)]
    OBVIOUS
  <2>1. From(d, t)[1] = d[First(d, t) + 1 - 1]
    BY <1>1, <1>p
  <2> QED
    BY <1>1, <1>p, <2>1
<1>5. LastAmount(Before(d, t)) = Amount(d, First(d, t) - 1)
  <2>1. LastAmount(Before(d, t)) = Amount(Before(d, t), Len(Before(d, t)))
    BY <1>p, LastAmountIs
  <2> QED
    BY <1>1, <1>p, <2>1 DEF Amount
<1> QED
  BY <1>1, <1>2, <1>3, <1>4, <1>5 DEF StepsAt, At, Amount

\* What is taken at a time is the amount of the last step that is not after it.
LEMMA AtReached ==
  ASSUME NEW d \in Seq(Steps), Sorted(d), NEW t \in Nat, t < Infinity,
         NEW i, Reached(d, i, t)
  PROVE  At(d, t) = Amount(d, i)
<1> DEFINE p == First(d, t)
<1>0. Len(d) \in Nat /\ i \in Nat
  BY DEF Reached
<1>1. /\ p \in 1 .. Len(d) + 1
      /\ \A k \in 1 .. Len(d) : k < p => d[k].time < t
      /\ p <= Len(d) => t <= d[p].time
  BY FirstIs
<1>2. \A k \in 1 .. Len(d) : d[k].time \in Nat
  BY StepIs
<1>3. /\ StepsAt(d, t) <=> p <= Len(d) /\ d[p].time = t
      /\ At(d, t) = IF StepsAt(d, t) THEN d[p].amount ELSE Amount(d, p - 1)
  BY AtIs
<1> HIDE DEF p
<1>i. /\ i \in 0 .. Len(d)
      /\ i > 0 => d[i].time <= t
      /\ i < Len(d) => t < d[i+1].time
  BY DEF Reached
<1>4. CASE StepsAt(d, t)
  <2>1. ~ (i < p)
    <3> SUFFICES ASSUME i < p PROVE FALSE
      OBVIOUS
    <3>1. i + 1 <= p /\ i + 1 \in 1 .. Len(d) /\ p \in 1 .. Len(d)
      BY <1>0, <1>1, <1>3, <1>4
    <3>2. t < d[i+1].time /\ d[p].time = t
      BY <1>i, <1>1, <1>3, <1>4, <3>1
    <3>3. i + 1 < p => d[i+1].time < t
      BY <1>1, <3>1
    <3> QED
      BY <1>1, <1>2, <1>0, <3>1, <3>2, <3>3
  <2>2. ~ (p < i)
    <3> SUFFICES ASSUME p < i PROVE FALSE
      OBVIOUS
    <3>1. d[p].time < d[i].time \/ d[p].time = Infinity
      BY <1>0, <1>1, <1>i DEF Sorted
    <3> QED
      BY <1>0, <1>1, <1>2, <1>3, <1>4, <1>i, <3>1, TimesAssumption
  <2> QED
    BY <1>0, <1>1, <1>3, <1>4, <2>1, <2>2 DEF Amount
<1>5. CASE ~StepsAt(d, t)
  <2>1. ~ (i < p - 1)
    <3> SUFFICES ASSUME i < p - 1 PROVE FALSE
      OBVIOUS
    <3>1. i + 1 \in 1 .. Len(d) /\ i + 1 < p
      BY <1>0, <1>1
    <3> QED
      BY <1>1, <1>2, <1>i, <3>1
  <2>2. ~ (p - 1 < i)
    <3> SUFFICES ASSUME p <= i PROVE FALSE
      BY <1>0, <1>1
    <3>1. p \in 1 .. Len(d) /\ i \in 1 .. Len(d) /\ t < d[p].time
      BY <1>0, <1>1, <1>2, <1>3, <1>5, <1>i
    <3>2. p < i => d[p].time < d[i].time \/ d[i].time = Infinity
      BY <3>1 DEF Sorted
    <3> QED
      BY <1>0, <1>1, <1>2, <1>i, <3>1, <3>2, TimesAssumption
  <2> QED
    BY <1>0, <1>1, <1>3, <1>5, <2>1, <2>2
<1> QED
  BY <1>4, <1>5

\* At every time some step, or none, is the last one.
LEMMA ReachedExists ==
  ASSUME NEW d \in Seq(Steps), Sorted(d), NEW t \in Nat, t < Infinity
  PROVE  \E i \in 0 .. Len(d) : Reached(d, i, t)
<1> DEFINE p == First(d, t)
<1>1. /\ p \in 1 .. Len(d) + 1 /\ Len(d) \in Nat
      /\ \A k \in 1 .. Len(d) : k < p => d[k].time < t
      /\ p <= Len(d) => t <= d[p].time
  <2>1. /\ First(d, t) \in 1 .. Len(d) + 1
        /\ \A i \in 1 .. Len(d) : i < First(d, t) => d[i].time < t
        /\ First(d, t) <= Len(d) => t <= d[First(d, t)].time
    BY FirstIs
  <2>2. Len(d) \in Nat
    OBVIOUS
  <2> QED
    BY <2>1, <2>2
<1>2. \A k \in 1 .. Len(d) : d[k].time \in Nat
  BY StepIs
<1> HIDE DEF p
<1>3. CASE p <= Len(d) /\ d[p].time = t
  <2>1. p < Len(d) => t < d[p+1].time
    BY <1>1, <1>2, <1>3 DEF Sorted
  <2>2. Reached(d, p, t)
    BY <1>1, <1>3, <2>1 DEF Reached
  <2> QED
    BY <1>1, <1>3, <2>2
<1>4. CASE ~(p <= Len(d) /\ d[p].time = t)
  <2>1. Reached(d, p - 1, t)
    BY <1>1, <1>2, <1>4 DEF Reached
  <2> QED
    BY <1>1, <2>1
<1> QED
  BY <1>3, <1>4

\* After all steps the last amount is taken.
LEMMA AtTheEnd ==
  ASSUME NEW d \in Seq(Steps), Sorted(d), NEW t \in Nat, t < Infinity,
         \A i \in 1 .. Len(d) : d[i].time <= t
  PROVE  At(d, t) = LastAmount(d)
<1>1. Len(d) \in Nat
  OBVIOUS
<1>2. Reached(d, Len(d), t)
  BY <1>1 DEF Reached
<1> QED
  BY <1>2, AtReached, LastAmountIs

\* A diagram with one step more.
LEMMA AtAppend ==
  ASSUME NEW d \in Seq(Steps), NEW e \in Steps, Sorted(Append(d, e)),
         NEW t \in Nat, t < Infinity
  PROVE  /\ Sorted(d)
         /\ At(Append(d, e), t) = IF e.time <= t THEN e.amount ELSE At(d, t)
<1> DEFINE f == Append(d, e)
<1>1. /\ f \in Seq(Steps) /\ Len(d) \in Nat /\ Len(f) = Len(d) + 1
      /\ \A i \in 1 .. Len(d) : f[i] = d[i]
      /\ f[Len(d) + 1] = e
  OBVIOUS
<1>2. Sorted(f)
  OBVIOUS
<1> HIDE DEF f
<1>3. Sorted(d)
  BY <1>1, <1>2 DEF Sorted
<1>4. \A k \in 1 .. Len(f) : f[k].time \in Nat
  BY <1>1, StepIs
<1>5. CASE e.time <= t
  <2>1. Reached(f, Len(f), t)
    BY <1>1, <1>5 DEF Reached
  <2>2. At(f, t) = Amount(f, Len(f))
    BY <1>1, <1>2, <2>1, AtReached
  <2> QED
    BY <1>1, <1>3, <1>5, <2>2 DEF f, Amount
<1>6. CASE ~(e.time <= t)
  <2>1. PICK i \in 0 .. Len(d) : Reached(d, i, t)
    BY <1>3, ReachedExists
  <2>2. Reached(f, i, t)
    <3>1. i = Len(d) => t < f[i+1].time
      BY <1>1, <1>4, <1>6
    <3> QED
      BY <1>1, <2>1, <3>1 DEF Reached
  <2>3. At(d, t) = Amount(d, i) /\ At(f, t) = Amount(f, i)
    BY <1>1, <1>2, <1>3, <2>1, <2>2, AtReached
  <2>4. Amount(d, i) = Amount(f, i)
    BY <1>1, <2>1 DEF Amount
  <2> QED
    BY <1>3, <1>6, <2>3, <2>4 DEF f
<1> QED
  BY <1>5, <1>6

-----------------------------------------------------------------------------
(* Steps that change nothing                                                *)

\* What a diagram has of another one.
LessThan(e, d, i) ==
  /\ e \in Seq(Steps) /\ Sorted(e)
  /\ \A k \in 1 .. Len(e) : \E j \in 1 .. i : e[k] = d[j]
  /\ LastAmount(e) = Amount(d, i)
  /\ \A t \in Nat : t < Infinity => At(e, t) = At(SubSeq(d, 1, i), t)

\* The first steps of a diagram.
LEMMA PrefixIs ==
  ASSUME NEW d \in Seq(Steps), Sorted(d), NEW i \in 0 .. Len(d)
  PROVE  /\ SubSeq(d, 1, i) \in Seq(Steps) /\ Len(SubSeq(d, 1, i)) = i
         /\ \A k \in 1 .. i : SubSeq(d, 1, i)[k] = d[k]
         /\ Sorted(SubSeq(d, 1, i))
         /\ LastAmount(SubSeq(d, 1, i)) = Amount(d, i)
         /\ i > 0 => SubSeq(d, 1, i) = Append(SubSeq(d, 1, i - 1), d[i])
<1>1. Len(d) \in Nat /\ \A k \in 1 .. Len(d) : d[k] \in Steps
  BY StepIs
<1>2. /\ SubSeq(d, 1, i) \in Seq(Steps) /\ Len(SubSeq(d, 1, i)) = i
      /\ \A k \in 1 .. i : SubSeq(d, 1, i)[k] = d[k]
  BY <1>1
<1>3. Sorted(SubSeq(d, 1, i))
  BY <1>1, <1>2 DEF Sorted
<1>4. LastAmount(SubSeq(d, 1, i)) = Amount(d, i)
  <2>1. LastAmount(SubSeq(d, 1, i)) = Amount(SubSeq(d, 1, i), i)
    BY <1>2, LastAmountIs
  <2> QED
    BY <1>2, <2>1 DEF Amount
<1>5. ASSUME i > 0 PROVE SubSeq(d, 1, i) = Append(SubSeq(d, 1, i - 1), d[i])
  BY <1>1, <1>5
<1> QED
  BY <1>2, <1>3, <1>4, <1>5

\* Nothing is taken of an empty diagram.
LEMMA NoSteps ==
  /\ <<>> \in Seq(Steps) /\ Sorted(<<>>) /\ LastAmount(<<>>) = 0
  /\ \A t \in Nat : At(<<>>, t) = 0
<1>1. <<>> \in Seq(Steps) /\ Sorted(<<>>) /\ LastAmount(<<>>) = 0
  BY DEF Sorted, LastAmount
<1>2. ASSUME NEW d \in Seq(Steps), Len(d) = 0, NEW t \in Nat PROVE At(d, t) = 0
  <2>0. First(d, t) \in 1 .. Len(d) + 1
    BY <1>2, FirstIs
  <2>1. First(d, t) = 1
    BY <1>2, <2>0
  <2>a. /\ StepsAt(d, t) <=> First(d, t) <= Len(d) /\ d[First(d, t)].time = t
        /\ At(d, t) = IF StepsAt(d, t) THEN d[First(d, t)].amount
                                       ELSE Amount(d, First(d, t) - 1)
    BY <1>2, AtIs
  <2>2. ~ StepsAt(d, t) /\ At(d, t) = Amount(d, First(d, t) - 1)
    BY <1>2, <2>1, <2>a
  <2> QED
    BY <2>1, <2>2 DEF Amount
<1> QED
  BY <1>1, <1>2

\* The loop of Normalize.
Kept(g, d, i) ==
  IF i = 0 THEN <<>>
  ELSE IF d[i].amount = LastAmount(SubSeq(d, 1, i - 1)) THEN g[i-1]
  ELSE Append(g[i-1], d[i])
KeepsUpTo(g, d, m) == g = [i \in 0 .. m |-> Kept(g, d, i)]

\* Its recursion is well founded.
LEMMA KeepsExists ==
  ASSUME NEW d, NEW n \in Nat
  PROVE  \E g : KeepsUpTo(g, d, n)
<1> DEFINE T == {m \in Nat : ~ \E g : KeepsUpTo(g, d, m)}
<1> SUFFICES ASSUME T # {} PROVE FALSE
  OBVIOUS
<1>1. PICK m \in T : \A k \in T : m <= k
  <2>1. T \in SUBSET Nat
    OBVIOUS
  <2> HIDE DEF T
  <2> QED
    BY <2>1, LeastExists
<1>2. m \in Nat /\ ~ \E g : KeepsUpTo(g, d, m)
  BY <1>1
<1>3. CASE m = 0
  <2> DEFINE g == [i \in 0 .. m |-> <<>>]
  <2>1. \A i \in 0 .. m : Kept(g, d, i) = <<>>
    BY <1>2, <1>3 DEF Kept
  <2>2. KeepsUpTo(g, d, m)
    BY <2>1 DEF KeepsUpTo
  <2> QED
    BY <1>2, <2>2
<1>4. CASE m # 0
  <2>1. m - 1 \in Nat /\ m - 1 \notin T
    BY <1>1, <1>2, <1>4
  <2>2. PICK g : KeepsUpTo(g, d, m - 1)
    BY <2>1
  <2> DEFINE h == [i \in 0 .. m |-> Kept(g, d, i)]
  <2>3. \A i \in 0 .. m - 1 : h[i] = g[i]
    <3>1. \A i \in 0 .. m - 1 : g[i] = Kept(g, d, i)
      BY <2>2 DEF KeepsUpTo
    <3> QED
      BY <1>2, <3>1
  <2>4. ASSUME NEW i \in 0 .. m PROVE Kept(g, d, i) = Kept(h, d, i)
    <3>1. i # 0 => i - 1 \in 0 .. m - 1
      BY <1>2
    <3>2. i # 0 => h[i-1] = g[i-1]
      BY <2>3, <3>1
    <3> HIDE DEF h
    <3> QED
      BY <3>2 DEF Kept
  <2>5. KeepsUpTo(h, d, m)
    BY <2>4 DEF KeepsUpTo
  <2> QED
    BY <1>2, <2>5
<1> QED
  BY <1>3, <1>4

\* Removing steps that change nothing changes nothing (utilization_normalize).
LEMMA NormalizeIs ==
  ASSUME NEW d \in Seq(Steps), Sorted(d)
  PROVE  LessThan(Normalize(d), d, Len(d))
<1> DEFINE n == Len(d)
<1>0. n \in Nat /\ \A i \in 1 .. n : d[i] \in Steps
  BY StepIs
<1>1. \E g : KeepsUpTo(g, d, n)
  BY <1>0, KeepsExists
<1> DEFINE kept[i \in 0 .. n] ==
             IF i = 0 THEN <<>>
             ELSE IF d[i].amount = LastAmount(SubSeq(d, 1, i - 1)) THEN kept[i-1]
             ELSE Append(kept[i-1], d[i])
<1>2. KeepsUpTo(kept, d, n)
  BY <1>1 DEF kept, KeepsUpTo, Kept
<1>3. Normalize(d) = kept[n]
  BY DEF Normalize
<1>n. n = Len(d)
  OBVIOUS
<1> HIDE DEF kept, n
<1>4. /\ kept[0] = <<>>
      /\ \A i \in 1 .. n : kept[i] = IF d[i].amount = Amount(d, i - 1) THEN kept[i-1]
                                     ELSE Append(kept[i-1], d[i])
  <2>1. \A i \in 0 .. n : kept[i] = Kept(kept, d, i)
    BY <1>2 DEF KeepsUpTo
  <2>2. ASSUME NEW i \in 1 .. n
        PROVE  LastAmount(SubSeq(d, 1, i - 1)) = Amount(d, i - 1)
    <3>1. i - 1 \in 0 .. Len(d)
      BY <1>0 DEF n
    <3> QED
      BY <3>1, PrefixIs
  <2> QED
    BY <1>0, <2>1, <2>2 DEF Kept
<1>5. ASSUME NEW i \in 1 .. n, LessThan(kept[i-1], d, i - 1)
      PROVE  LessThan(kept[i], d, i)
  <2> DEFINE e == kept[i-1]
             P(j) == SubSeq(d, 1, j)
  <2>1. /\ P(i) \in Seq(Steps) /\ P(i-1) \in Seq(Steps)
        /\ Sorted(P(i)) /\ Sorted(P(i-1))
        /\ P(i) = Append(P(i-1), d[i])
        /\ LastAmount(P(i-1)) = Amount(d, i - 1)
        /\ Len(P(i-1)) = i - 1 /\ \A k \in 1 .. i - 1 : P(i-1)[k] = d[k]
    <3>1. i \in 0 .. Len(d) /\ i - 1 \in 0 .. Len(d) /\ i > 0
      BY <1>0 DEF n
    <3> QED
      BY <3>1, PrefixIs
  <2>2. /\ e \in Seq(Steps) /\ Sorted(e)
        /\ \A k \in 1 .. Len(e) : \E j \in 1 .. i - 1 : e[k] = d[j]
        /\ LastAmount(e) = Amount(d, i - 1)
        /\ \A t \in Nat : t < Infinity => At(e, t) = At(P(i-1), t)
    BY <1>5 DEF LessThan
  <2>3. \A t \in Nat : t < Infinity =>
          At(P(i), t) = IF d[i].time <= t THEN d[i].amount ELSE At(P(i-1), t)
    <3>1. d[i] \in Steps /\ Sorted(Append(P(i-1), d[i]))
      BY <1>0, <2>1
    <3> HIDE DEF P
    <3> QED
      BY <2>1, <3>1, AtAppend
  <2>4. Amount(d, i) = d[i].amount
    BY <1>0 DEF Amount
  <2> HIDE DEF e, P
  <2>5. CASE d[i].amount = Amount(d, i - 1)
    <3>1. kept[i] = e
      BY <1>4, <2>5 DEF e
    <3>2. ASSUME NEW t \in Nat, t < Infinity PROVE At(e, t) = At(P(i), t)
      <4>1. CASE d[i].time <= t
        <5>1. \A k \in 1 .. i - 1 : P(i-1)[k].time <= t
          <6> SUFFICES ASSUME NEW k \in 1 .. i - 1 PROVE d[k].time <= t
            BY <2>1
          <6>1. d[k].time < d[i].time \/ d[i].time = Infinity
            BY <1>0, <1>n DEF Sorted
          <6>2. d[k].time \in Nat /\ d[i].time \in Nat
            BY <1>0, <1>n, StepIs
          <6> QED
            BY <3>2, <4>1, <6>1, <6>2, TimesAssumption
        <5>2. At(P(i-1), t) = LastAmount(P(i-1))
          BY <2>1, <3>2, <5>1, AtTheEnd
        <5> QED
          BY <2>1, <2>2, <2>3, <2>5, <3>2, <4>1, <5>2
      <4>2. CASE ~(d[i].time <= t)
        BY <2>2, <2>3, <3>2, <4>2
      <4> QED
        BY <4>1, <4>2
    <3> QED
      BY <1>0, <2>2, <2>4, <2>5, <3>1, <3>2 DEF LessThan, P
  <2>6. CASE d[i].amount # Amount(d, i - 1)
    <3>1. kept[i] = Append(e, d[i]) /\ d[i] \in Steps
      BY <1>0, <1>4, <2>6 DEF e
    <3>2. /\ kept[i] \in Seq(Steps) /\ Len(kept[i]) = Len(e) + 1 /\ Len(e) \in Nat
          /\ \A k \in 1 .. Len(e) : kept[i][k] = e[k]
          /\ kept[i][Len(e) + 1] = d[i]
      BY <2>2, <3>1
    <3>3. \A k \in 1 .. Len(kept[i]) : \E j \in 1 .. i : kept[i][k] = d[j]
      <4> SUFFICES ASSUME NEW k \in 1 .. Len(kept[i])
                   PROVE  \E j \in 1 .. i : kept[i][k] = d[j]
        OBVIOUS
      <4>1. k \in 1 .. Len(e) \/ k = Len(e) + 1
        BY <3>2
      <4>2. CASE k \in 1 .. Len(e)
        <5>1. PICK j \in 1 .. i - 1 : e[k] = d[j]
          BY <2>2, <4>2
        <5>2. j \in 1 .. i
          BY <1>0
        <5> QED
          BY <3>2, <4>2, <5>1, <5>2
      <4>3. CASE k = Len(e) + 1
        <5>1. i \in 1 .. i
          BY <1>0
        <5> QED
          BY <3>2, <4>3, <5>1
      <4> QED
        BY <4>1, <4>2, <4>3
    <3>4. Sorted(kept[i])
      <4> SUFFICES ASSUME NEW a \in 1 .. Len(kept[i]), NEW b \in 1 .. Len(kept[i]), a < b
                   PROVE  \/ kept[i][a].time < kept[i][b].time
                          \/ kept[i][a].time = Infinity /\ kept[i][b].time = Infinity
        BY DEF Sorted
      <4>1. CASE b <= Len(e)
        <5>1. a \in 1 .. Len(e) /\ b \in 1 .. Len(e)
          BY <3>2, <4>1
        <5>2. e[a].time < e[b].time \/ (e[a].time = Infinity /\ e[b].time = Infinity)
          BY <2>2, <5>1 DEF Sorted
        <5> QED
          BY <3>2, <5>1, <5>2
      <4>2. CASE ~(b <= Len(e))
        <5>1. PICK j \in 1 .. i - 1 : e[a] = d[j]
          BY <2>2, <3>2, <4>2
        <5>2. kept[i][a] = d[j] /\ kept[i][b] = d[i]
          BY <3>2, <4>2, <5>1
        <5> QED
          BY <1>0, <1>n, <5>2 DEF Sorted
      <4> QED
        BY <4>1, <4>2
    <3>5. \A t \in Nat : t < Infinity =>
            At(kept[i], t) = IF d[i].time <= t THEN d[i].amount ELSE At(e, t)
      BY <2>2, <3>1, <3>4, AtAppend
    <3>6. LastAmount(kept[i]) = d[i].amount
      BY <3>2, LastAmountIs DEF Amount
    <3> QED
      BY <2>2, <2>3, <2>4, <3>2, <3>3, <3>4, <3>5, <3>6 DEF LessThan, P
  <2> QED
    BY <2>5, <2>6
<1>6. LessThan(kept[0], d, 0)
  <2>1. SubSeq(d, 1, 0) = <<>>
    BY <1>0
  <2>2. \A t \in Nat : At(kept[0], t) = At(SubSeq(d, 1, 0), t)
    BY <1>4, <2>1
  <2> QED
    BY <1>4, <2>2, NoSteps DEF LessThan, Amount
<1>7. LessThan(kept[n], d, n)
  <2> DEFINE T == {i \in 0 .. n : ~LessThan(kept[i], d, i)}
  <2> SUFFICES ASSUME T # {} PROVE FALSE
    BY <1>0 DEF n
  <2>1. PICK m \in T : \A k \in T : m <= k
    <3>1. T \in SUBSET Nat
      OBVIOUS
    <3> HIDE DEF T
    <3> QED
      BY <3>1, LeastExists
  <2>2. m \in 0 .. n /\ ~LessThan(kept[m], d, m) /\ m # 0
    BY <1>6, <2>1
  <2>3. m \in 1 .. n /\ m - 1 \in 0 .. n /\ m - 1 \notin T
    BY <1>0, <2>1, <2>2
  <2> QED
    BY <1>5, <2>2, <2>3
<1> QED
  BY <1>3, <1>7, <1>n

-----------------------------------------------------------------------------
(* Entering a job                                                           *)

\* The sequence e is d, raised by x from s to end, before it is normalized: the
\* first p steps of d are before s, the first q not after s, the first m before
\* the end; k steps are added at the end.
Raises(e, d, s, end, x, p, q, m, k) ==
  /\ p \in Nat /\ q \in {p, p + 1} /\ m \in q .. Len(d) /\ k \in {0, 1}
  /\ \A j \in 1 .. p : d[j].time < s
  /\ q = p + 1 => d[q].time = s
  /\ \A j \in q + 1 .. m : s < d[j].time /\ d[j].time < end
  /\ \A j \in m + 1 .. Len(d) : end <= d[j].time /\ (k = 1 => end < d[j].time)
  /\ k = 0 => m < Len(d) /\ d[m + 1].time = end
  /\ e \in Seq(Steps) /\ Len(e) = Len(d) + 1 + p - q + k
  /\ \A j \in 1 .. p : e[j] = d[j]
  /\ e[p + 1] = [time |-> s, amount |-> Amount(d, q) + x]
  /\ \A j \in q + 1 .. m :
       e[j + 1 + p - q] = [time |-> d[j].time, amount |-> d[j].amount + x]
  /\ k = 1 => e[m + 2 + p - q] = [time |-> end, amount |-> Amount(d, m)]
  /\ \A j \in m + 1 .. Len(d) : e[j + 1 + p - q + k] = d[j]

\* When a job may be: it takes some time, or never begins.
Period(s, end) ==
  /\ s \in Nat /\ end \in Nat /\ s <= Infinity /\ end <= Infinity
  /\ s < end \/ (s = Infinity /\ end = Infinity)

\* Two sequences of steps, one after the other.
LEMMA ConcatIs ==
  ASSUME NEW a \in Seq(Steps), NEW b \in Seq(Steps)
  PROVE  /\ a \o b \in Seq(Steps) /\ Len(a \o b) = Len(a) + Len(b)
         /\ \A i \in 1 .. Len(a) : (a \o b)[i] = a[i]
         /\ \A i \in 1 .. Len(b) : (a \o b)[Len(a) + i] = b[i]
<1>1. /\ a \o b \in Seq(Steps) /\ Len(a \o b) = Len(a) + Len(b)
      /\ \A i \in 1 .. Len(a) + Len(b) :
           (a \o b)[i] = IF i <= Len(a) THEN a[i] ELSE b[i - Len(a)]
  BY ConcatProperties
<1>2. Len(a) \in Nat /\ Len(b) \in Nat
  OBVIOUS
<1>3. ASSUME NEW i \in 1 .. Len(b) PROVE (a \o b)[Len(a) + i] = b[i]
  <2>1. /\ Len(a) + i \in 1 .. Len(a) + Len(b) /\ ~(Len(a) + i <= Len(a))
        /\ (Len(a) + i) - Len(a) = i
    BY <1>2
  <2> QED
    BY <1>1, <2>1
<1> QED
  BY <1>1, <1>2, <1>3

\* What a split says: p steps are before the time.
SplitsAt(d, t, p) ==
         /\ p \in 0 .. Len(d)
         /\ \A j \in 1 .. Len(d) : j <= p => d[j].time < t
         /\ p < Len(d) => t <= d[p + 1].time
         /\ Before(d, t) \in Seq(Steps) /\ Len(Before(d, t)) = p
         /\ \A i \in 1 .. p : Before(d, t)[i] = d[i]
         /\ From(d, t) \in Seq(Steps) /\ Len(From(d, t)) = Len(d) - p
         /\ \A i \in 1 .. Len(d) - p : From(d, t)[i] = d[p + i]
         /\ StepsAt(d, t) <=> p < Len(d) /\ d[p + 1].time = t
         /\ At(d, t) = IF StepsAt(d, t) THEN Amount(d, p + 1) ELSE Amount(d, p)
         /\ At(d, t) \in Nat

\* The position of the split.
LEMMA SplitIs ==
  ASSUME NEW d \in Seq(Steps), NEW t \in Nat
  PROVE  SplitsAt(d, t, First(d, t) - 1)
<1> DEFINE f == First(d, t)
           p == f - 1
<1>0. Len(d) \in Nat
  OBVIOUS
<1>1. /\ f \in 1 .. Len(d) + 1
      /\ \A i \in 1 .. Len(d) : i < f => d[i].time < t
      /\ f <= Len(d) => t <= d[f].time
  BY FirstIs
<1>2. /\ Before(d, t) \in Seq(Steps) /\ From(d, t) \in Seq(Steps)
      /\ Len(Before(d, t)) = f - 1
      /\ Len(From(d, t)) = Len(d) - f + 1
      /\ \A i \in 1 .. Len(Before(d, t)) : Before(d, t)[i] = d[i]
      /\ \A i \in 1 .. Len(From(d, t)) : From(d, t)[i] = d[f + i - 1]
  BY PartsAre
<1>3. /\ StepsAt(d, t) <=> f <= Len(d) /\ d[f].time = t
      /\ At(d, t) = IF StepsAt(d, t) THEN d[f].amount ELSE Amount(d, f - 1)
      /\ At(d, t) \in Nat
  BY AtIs
<1>4. p + 1 = f /\ p = f - 1 /\ p \in 0 .. Len(d)
  BY <1>0, <1>1
<1> HIDE DEF f, p
<1>5. \A i \in 1 .. Len(d) - p : f + i - 1 = p + i
  BY <1>4
<1>6. At(d, t) = IF StepsAt(d, t) THEN Amount(d, p + 1) ELSE Amount(d, p)
  <2>1. p + 1 # 0 /\ Amount(d, p + 1) = d[f].amount
    BY <1>4 DEF Amount
  <2> QED
    BY <1>3, <1>4, <2>1
<1>7. /\ \A j \in 1 .. Len(d) : j <= p => d[j].time < t
      /\ p < Len(d) => t <= d[p + 1].time
      /\ StepsAt(d, t) <=> p < Len(d) /\ d[p + 1].time = t
  BY <1>0, <1>1, <1>3, <1>4
<1>8. /\ Len(Before(d, t)) = p
      /\ \A i \in 1 .. p : Before(d, t)[i] = d[i]
  BY <1>2, <1>4
<1>9. /\ Len(From(d, t)) = Len(d) - p
      /\ \A i \in 1 .. Len(d) - p : From(d, t)[i] = d[p + i]
  <2>1. Len(From(d, t)) = Len(d) - p
    BY <1>0, <1>2, <1>4
  <2> QED
    BY <1>2, <1>5, <2>1
<1>10. SplitsAt(d, t, p)
  BY <1>2, <1>3, <1>4, <1>6, <1>7, <1>8, <1>9 DEF SplitsAt
<1> QED
  BY <1>10 DEF p, f

\* What utilization_add does to the steps.
LEMMA AddShape ==
  ASSUME NEW d \in Seq(Steps), Sorted(d), NEW s, NEW end, Period(s, end), NEW x \in Nat
  PROVE  \E e, p, q, m, k : /\ Raises(e, d, s, end, x, p, q, m, k)
                            /\ UtilizationAdd(d, s, end, x) = Normalize(e)
<1> DEFINE B == Before(d, s)
           R == From(d, s)
           first == [time |-> s, amount |-> At(d, s) + x]
           rest == IF StepsAt(d, s) THEN Tail(R) ELSE R
           inside == [i \in 1 .. Len(Before(rest, end)) |->
                        [time |-> rest[i].time, amount |-> rest[i].amount + x]]
           raised == <<first>> \o inside
           down == IF StepsAt(rest, end) THEN <<>>
                   ELSE <<[time |-> end, amount |-> LastAmount(raised) - x]>>
           after == From(rest, end)
           p == First(d, s) - 1
           q == IF StepsAt(d, s) THEN p + 1 ELSE p
           n == First(rest, end) - 1
           k == IF StepsAt(rest, end) THEN 0 ELSE 1
           e == B \o raised \o down \o after
<1>0. /\ s \in Nat /\ end \in Nat /\ s <= Infinity /\ end <= Infinity /\ Infinity \in Nat
      /\ s < end \/ (s = Infinity /\ end = Infinity)
  BY TimesAssumption DEF Period
<1>1. UtilizationAdd(d, s, end, x) = Normalize(e)
  BY DEF UtilizationAdd
<1>2. Len(d) \in Nat /\ \A j \in 1 .. Len(d) :
        d[j] \in Steps /\ d[j].time \in Nat /\ d[j].amount \in Nat /\ d[j].time <= Infinity
  BY StepIs
<1>p. p = First(d, s) - 1
  OBVIOUS
<1> HIDE DEF p
<1>sp. SplitsAt(d, s, p)
  BY <1>0, <1>p, SplitIs
<1>s. /\ p \in 0 .. Len(d)
      /\ \A j \in 1 .. Len(d) : j <= p => d[j].time < s
      /\ p < Len(d) => s <= d[p + 1].time
      /\ Before(d, s) \in Seq(Steps) /\ Len(Before(d, s)) = p
      /\ \A i \in 1 .. p : Before(d, s)[i] = d[i]
      /\ From(d, s) \in Seq(Steps) /\ Len(From(d, s)) = Len(d) - p
      /\ \A i \in 1 .. Len(d) - p : From(d, s)[i] = d[p + i]
      /\ StepsAt(d, s) <=> p < Len(d) /\ d[p + 1].time = s
      /\ At(d, s) = IF StepsAt(d, s) THEN Amount(d, p + 1) ELSE Amount(d, p)
      /\ At(d, s) \in Nat
  BY <1>sp DEF SplitsAt
<1>3. /\ p \in 0 .. Len(d)
      /\ \A j \in 1 .. Len(d) : j <= p => d[j].time < s
      /\ p < Len(d) => s <= d[p + 1].time
  BY <1>s
<1>4. /\ B \in Seq(Steps) /\ Len(B) = p /\ \A i \in 1 .. p : B[i] = d[i]
      /\ R \in Seq(Steps) /\ Len(R) = Len(d) - p
      /\ \A i \in 1 .. Len(d) - p : R[i] = d[p + i]
  BY <1>s
<1>5. /\ StepsAt(d, s) <=> p < Len(d) /\ d[p + 1].time = s
      /\ At(d, s) = Amount(d, q) /\ At(d, s) \in Nat
  BY <1>s
<1>6. rest \in Seq(Steps) /\ Len(rest) = Len(d) - q /\ \A i \in 1 .. Len(d) - q : rest[i] = d[q + i]
  <2>1. CASE StepsAt(d, s)
    <3>1. /\ R # <<>> /\ Len(d) - p \in Nat /\ Len(d) - p - 1 = Len(d) - q /\ q = p + 1
          /\ rest = Tail(R)
      BY <1>2, <1>3, <1>4, <1>5, <2>1
    <3> HIDE DEF rest, R, q
    <3>2. /\ Tail(R) \in Seq(Steps) /\ Len(Tail(R)) = Len(R) - 1
          /\ \A i \in 1 .. Len(Tail(R)) : Tail(R)[i] = R[i + 1]
      BY <1>4, <3>1, HeadTailProperties
    <3>3. ASSUME NEW i \in 1 .. Len(d) - q PROVE Tail(R)[i] = d[q + i]
      <4>1. i + 1 \in 1 .. Len(d) - p /\ i \in 1 .. Len(Tail(R)) /\ p + (i + 1) = q + i
        BY <1>2, <1>3, <1>4, <3>1, <3>2
      <4> QED
        BY <1>4, <3>2, <4>1
    <3> QED
      BY <1>4, <3>1, <3>2, <3>3
  <2>2. CASE ~StepsAt(d, s)
    BY <1>4, <2>2
  <2> QED
    BY <2>1, <2>2
<1>7. q \in {p, p + 1} /\ q \in 0 .. Len(d)
  BY <1>2, <1>3, <1>5
<1> HIDE DEF B, R, rest, q
<1>8. \A i \in 1 .. Len(rest) : rest[i] \in Steps /\ rest[i].time \in Nat /\ rest[i].amount \in Nat
  BY <1>6, StepIs
<1>n. n = First(rest, end) - 1
  OBVIOUS
<1> HIDE DEF n
<1>sn. SplitsAt(rest, end, n)
  BY <1>0, <1>6, <1>n, SplitIs
<1>t. /\ n \in 0 .. Len(rest)
      /\ \A i \in 1 .. Len(rest) : i <= n => rest[i].time < end
      /\ n < Len(rest) => end <= rest[n + 1].time
      /\ Before(rest, end) \in Seq(Steps) /\ Len(Before(rest, end)) = n
      /\ \A i \in 1 .. n : Before(rest, end)[i] = rest[i]
      /\ From(rest, end) \in Seq(Steps) /\ Len(From(rest, end)) = Len(rest) - n
      /\ \A i \in 1 .. Len(rest) - n : From(rest, end)[i] = rest[n + i]
      /\ StepsAt(rest, end) <=> n < Len(rest) /\ rest[n + 1].time = end
      /\ At(rest, end) = IF StepsAt(rest, end) THEN Amount(rest, n + 1) ELSE Amount(rest, n)
      /\ At(rest, end) \in Nat
  BY <1>sn DEF SplitsAt
<1>9. /\ n \in 0 .. Len(rest)
      /\ \A i \in 1 .. Len(rest) : i <= n => rest[i].time < end
      /\ n < Len(rest) => end <= rest[n + 1].time
  BY <1>t
<1>10. /\ Len(Before(rest, end)) = n
       /\ after \in Seq(Steps) /\ Len(after) = Len(rest) - n
       /\ \A i \in 1 .. Len(rest) - n : after[i] = rest[n + i]
  BY <1>t
<1>11. StepsAt(rest, end) <=> n < Len(rest) /\ rest[n + 1].time = end
  BY <1>t
<1> HIDE DEF after
<1>12. /\ inside \in Seq(Steps) /\ Len(inside) = n
       /\ \A i \in 1 .. n : inside[i] = [time |-> rest[i].time, amount |-> rest[i].amount + x]
  <2>1. \A i \in 1 .. n : [time |-> rest[i].time, amount |-> rest[i].amount + x] \in Steps
    <3> SUFFICES ASSUME NEW i \in 1 .. n
                 PROVE  [time |-> rest[i].time, amount |-> rest[i].amount + x] \in Steps
      OBVIOUS
    <3>1. i \in 1 .. Len(rest)
      BY <1>6, <1>7, <1>9
    <3>2. rest[i].time \in 0 .. Infinity /\ rest[i].amount + x \in Nat
      BY <1>0, <1>8, <3>1 DEF Steps
    <3> QED
      BY <3>2 DEF Steps
  <2>2. n \in Nat /\ inside = [i \in 1 .. n |-> [time |-> rest[i].time,
                                               amount |-> rest[i].amount + x]]
    BY <1>6, <1>7, <1>9, <1>10
  <2> HIDE DEF inside
  <2> QED
    BY <2>1, <2>2
<1>13. first \in Steps
  BY <1>0, <1>5 DEF Steps
<1> HIDE DEF inside, first
<1>14. /\ raised \in Seq(Steps) /\ Len(raised) = n + 1 /\ raised[1] = first
       /\ \A i \in 1 .. n : raised[i + 1] = inside[i]
  BY <1>9, <1>12, <1>13
<1> HIDE DEF raised
<1>15. LastAmount(raised) - x = Amount(d, q + n) /\ Amount(d, q + n) \in Nat
  <2>1. LastAmount(raised) = raised[n + 1].amount
    BY <1>9, <1>14, LastAmountIs DEF Amount
  <2>2. CASE n = 0
    BY <1>5, <1>7, <1>14, <2>1, <2>2 DEF first
  <2>3. CASE n > 0
    <3>1. n \in 1 .. n /\ n \in 1 .. Len(rest) /\ n + 1 # 0
      BY <1>6, <1>7, <1>9, <2>3
    <3>2. raised[n + 1].amount = rest[n].amount + x
      BY <1>12, <1>14, <3>1
    <3>3. rest[n] = d[q + n] /\ q + n # 0 /\ rest[n].amount \in Nat
      BY <1>6, <1>7, <1>8, <3>1
    <3> QED
      BY <2>1, <3>2, <3>3 DEF Amount
  <2> QED
    BY <1>9, <2>2, <2>3
<1>16. /\ down \in Seq(Steps) /\ Len(down) = k /\ k \in {0, 1}
       /\ k = 1 => down[1] = [time |-> end, amount |-> Amount(d, q + n)]
  <2>1. [time |-> end, amount |-> Amount(d, q + n)] \in Steps
    BY <1>0, <1>15 DEF Steps
  <2> QED
    BY <1>15, <2>1
<1>17. k = 0 <=> n < Len(rest) /\ rest[n + 1].time = end
  BY <1>11
<1> HIDE DEF down, k
<1>N. /\ p \in Nat /\ q \in Nat /\ n \in Nat /\ k \in Nat /\ Len(d) \in Nat
      /\ Len(rest) \in Nat /\ Len(rest) - n \in Nat
  BY <1>2, <1>3, <1>6, <1>7, <1>9, <1>16
<1>18. /\ B \o raised \in Seq(Steps) /\ Len(B \o raised) = p + n + 1
       /\ \A i \in 1 .. p : (B \o raised)[i] = d[i]
       /\ \A i \in 1 .. n + 1 : (B \o raised)[p + i] = raised[i]
  <2>1. p \in Nat /\ n + 1 \in Nat /\ p + (n + 1) = p + n + 1
    BY <1>N
  <2>2. /\ B \o raised \in Seq(Steps) /\ Len(B \o raised) = p + (n + 1)
        /\ \A i \in 1 .. p : (B \o raised)[i] = B[i]
        /\ \A i \in 1 .. n + 1 : (B \o raised)[p + i] = raised[i]
    <3>1. B \in Seq(Steps) /\ Len(B) = p /\ raised \in Seq(Steps) /\ Len(raised) = n + 1
      BY <1>4, <1>14
    <3> QED
      <4>1. /\ B \o raised \in Seq(Steps) /\ Len(B \o raised) = Len(B) + Len(raised)
            /\ \A i \in 1 .. Len(B) : (B \o raised)[i] = B[i]
            /\ \A i \in 1 .. Len(raised) : (B \o raised)[Len(B) + i] = raised[i]
        BY <3>1, ConcatIs
      <4> QED
        BY <3>1, <4>1
  <2>3. \A i \in 1 .. p : (B \o raised)[i] = d[i]
    BY <1>4, <2>2
  <2> QED
    BY <2>1, <2>2, <2>3
<1> DEFINE C == B \o raised
           D == C \o down
<1>19. /\ D \in Seq(Steps) /\ Len(D) = p + n + 1 + k
       /\ \A i \in 1 .. p + n + 1 : D[i] = C[i]
       /\ k = 1 => D[p + n + 2] = down[1]
  <2> HIDE DEF C
  <2>1. C \in Seq(Steps) /\ Len(C) = p + n + 1
    BY <1>18 DEF C
  <2>2. p + n + 1 \in Nat /\ k \in Nat /\ (p + n + 1) + 1 = p + n + 2
    BY <1>N
  <2>3. /\ D \in Seq(Steps) /\ Len(D) = (p + n + 1) + k
        /\ \A i \in 1 .. p + n + 1 : D[i] = C[i]
        /\ \A i \in 1 .. k : D[(p + n + 1) + i] = down[i]
    <3>1. down \in Seq(Steps) /\ Len(down) = k
      BY <1>16
    <3> QED
      <4>1. /\ D \in Seq(Steps) /\ Len(D) = Len(C) + Len(down)
            /\ \A i \in 1 .. Len(C) : D[i] = C[i]
            /\ \A i \in 1 .. Len(down) : D[Len(C) + i] = down[i]
        BY <2>1, <3>1, ConcatIs
      <4> QED
        BY <2>1, <3>1, <4>1
  <2> HIDE DEF D
  <2>4. Len(D) = p + n + 1 + k
    <3>1. Len(D) = (p + n + 1) + k
      BY <2>3
    <3>2. (p + n + 1) + k = p + n + 1 + k
      BY <2>2
    <3> QED
      BY <3>1, <3>2
  <2>5. ASSUME k = 1
        PROVE  D[p + n + 2] = down[1]
    <3>1. D[(p + n + 1) + 1] = down[1]
      <4>1. 1 \in 1 .. k
        BY <2>5
      <4> QED
        BY <2>3, <4>1
    <3> QED
      BY <2>2, <3>1
  <2> QED
    BY <2>3, <2>4, <2>5
<1>20. /\ e \in Seq(Steps) /\ Len(e) = p + n + 1 + k + (Len(rest) - n)
       /\ \A i \in 1 .. p + n + 1 + k : e[i] = D[i]
       /\ \A i \in 1 .. Len(rest) - n : e[p + n + 1 + k + i] = after[i]
  <2> HIDE DEF C, D
  <2>1. e = D \o after
    BY DEF C, D
  <2> HIDE DEF e
  <2>2. p + n + 1 + k \in Nat /\ Len(rest) - n \in Nat
    BY <1>N
  <2>3. /\ D \in Seq(Steps) /\ Len(D) = p + n + 1 + k
        /\ after \in Seq(Steps) /\ Len(after) = Len(rest) - n
    BY <1>10, <1>19
  <2>4. /\ e \in Seq(Steps) /\ Len(e) = Len(D) + Len(after)
        /\ \A i \in 1 .. Len(D) : e[i] = D[i]
        /\ \A i \in 1 .. Len(after) : e[Len(D) + i] = after[i]
    BY <2>1, <2>3, ConcatIs
  <2> QED
    BY <2>3, <2>4
<1> DEFINE m == q + n
<1>21. /\ \A j \in 1 .. p : e[j] = d[j]
       /\ e[p + 1] = [time |-> s, amount |-> Amount(d, q) + x]
  <2>0. /\ p \in Nat /\ n \in Nat /\ k \in Nat /\ 1 \in 1 .. n + 1
        /\ \A j \in 1 .. p + 1 : j \in 1 .. p + n + 1 /\ j \in 1 .. p + n + 1 + k
    <3>1. p \in Nat /\ n \in Nat /\ k \in Nat
      BY <1>N
    <3> QED
      BY <3>1
  <2>a. /\ \A i \in 1 .. p : C[i] = d[i]
        /\ C[p + 1] = raised[1]
    BY <1>18, <2>0 DEF C
  <2> HIDE DEF e, D, C
  <2>b. \A j \in 1 .. p + 1 : e[j] = C[j]
    BY <1>19, <1>20, <2>0
  <2>1. \A j \in 1 .. p : e[j] = C[j] /\ C[j] = d[j]
    BY <2>0, <2>a, <2>b
  <2>2. e[p + 1] = C[p + 1] /\ C[p + 1] = first
    BY <1>14, <2>0, <2>a, <2>b
  <2> QED
    BY <1>5, <2>1, <2>2 DEF first
<1>22. ASSUME NEW j \in q + 1 .. m
       PROVE  e[j + 1 + p - q] = [time |-> d[j].time, amount |-> d[j].amount + x]
  <2> HIDE DEF e, D, C
  <2>1. j - q \in 1 .. n /\ j - q \in 1 .. Len(rest)
    BY <1>6, <1>7, <1>9
  <2>2. e[p + (j - q + 1)] = C[p + (j - q + 1)]
    <3>1. /\ p + (j - q + 1) \in 1 .. p + n + 1
          /\ p + (j - q + 1) \in 1 .. p + n + 1 + k
      BY <1>3, <1>6, <1>7, <1>9, <1>16, <2>1
    <3> QED
      BY <1>19, <1>20, <3>1
  <2>3. C[p + (j - q + 1)] = raised[j - q + 1]
    <3>1. j - q + 1 \in 1 .. n + 1
      BY <1>6, <1>7, <1>9, <2>1
    <3> QED
      BY <1>18, <3>1 DEF C
  <2>4. raised[j - q + 1] = inside[j - q]
    BY <1>14, <2>1
  <2>5. rest[j - q] = d[q + (j - q)] /\ q + (j - q) = j
    BY <1>6, <1>7, <2>1
  <2>6. p + (j - q + 1) = j + 1 + p - q
    BY <1>3, <1>7
  <2> QED
    BY <1>12, <2>1, <2>2, <2>3, <2>4, <2>5, <2>6
<1>23. k = 1 => e[m + 2 + p - q] = [time |-> end, amount |-> Amount(d, m)]
  <2> HIDE DEF e, D
  <2>1. m + 2 + p - q = p + n + 2
    BY <1>3, <1>7, <1>9
  <2>2. k = 1 => e[p + n + 2] = D[p + n + 2]
    BY <1>3, <1>9, <1>20
  <2> QED
    BY <1>16, <1>19, <2>1, <2>2
<1>24. ASSUME NEW j \in m + 1 .. Len(d) PROVE e[j + 1 + p - q + k] = d[j]
  <2> HIDE DEF e, D
  <2>0. m \in Nat /\ n \in Nat /\ Len(rest) \in Nat /\ m = q + n
    BY <1>2, <1>6, <1>7, <1>9
  <2> HIDE DEF m
  <2>1. j - m \in 1 .. Len(rest) - n /\ n + (j - m) \in 1 .. Len(d) - q
    BY <1>2, <1>6, <1>7, <1>9, <2>0
  <2>2. e[p + n + 1 + k + (j - m)] = after[j - m] /\ after[j - m] = rest[n + (j - m)]
    BY <1>10, <1>20, <2>1
  <2>3. rest[n + (j - m)] = d[q + (n + (j - m))]
    BY <1>6, <2>1
  <2>4. q + (n + (j - m)) = j /\ p + n + 1 + k + (j - m) = j + 1 + p - q + k
    BY <1>N, <2>0
  <2> QED
    BY <2>2, <2>3, <2>4
<1>25. e \in Seq(Steps) /\ Len(e) = Len(d) + 1 + p - q + k
  <2> HIDE DEF e
  <2> QED
    BY <1>2, <1>3, <1>6, <1>7, <1>9, <1>16, <1>20
<1>26. m \in q .. Len(d) /\ p \in Nat
  BY <1>2, <1>3, <1>6, <1>7, <1>9
<1>27. /\ \A j \in 1 .. p : d[j].time < s
       /\ q = p + 1 => d[q].time = s
  BY <1>2, <1>3, <1>5 DEF q
<1>28. ASSUME NEW j \in q + 1 .. m PROVE s < d[j].time /\ d[j].time < end
  <2>1. j - q \in 1 .. Len(rest) /\ j - q <= n /\ j \in 1 .. Len(d)
    BY <1>2, <1>6, <1>7, <1>9
  <2>2. rest[j - q] = d[j]
    BY <1>6, <1>7, <2>1
  <2>3. d[j].time < end
    BY <1>9, <2>1, <2>2
  <2>4. CASE q = p + 1
    <3>1. q \in 1 .. Len(d) /\ q < j
      BY <1>3, <1>7, <2>4
    <3>2. d[q].time < d[j].time \/ d[j].time = Infinity
      BY <2>1, <3>1 DEF Sorted
    <3>3. d[q].time = s
      BY <1>27, <2>4
    <3>4. d[j].time \in Nat
      BY <1>2, <2>1
    <3> HIDE DEF m, q, e
    <3> QED
      BY <1>0, <2>3, <3>2, <3>3, <3>4
  <2>5. CASE q = p
    <3>1. p + 1 \in 1 .. Len(d) /\ p + 1 <= j /\ ~StepsAt(d, s)
      BY <1>3, <2>1, <2>5 DEF q
    <3>2. s < d[p + 1].time
      BY <1>0, <1>2, <1>3, <1>5, <3>1
    <3>3. p + 1 < j => d[p + 1].time < d[j].time \/ d[j].time = Infinity
      BY <2>1, <3>1 DEF Sorted
    <3> QED
      BY <1>0, <1>2, <2>1, <2>3, <3>1, <3>2, <3>3
  <2> QED
    BY <1>7, <2>4, <2>5
<1>29. k = 0 => m < Len(d) /\ d[m + 1].time = end
  <2> SUFFICES ASSUME k = 0 PROVE m < Len(d) /\ d[m + 1].time = end
    OBVIOUS
  <2>1. n < Len(rest) /\ rest[n + 1].time = end
    BY <1>17
  <2>2. rest[n + 1] = d[q + (n + 1)] /\ q + (n + 1) = m + 1 /\ m < Len(d)
    BY <1>2, <1>6, <1>7, <1>9, <2>1
  <2> QED
    BY <2>1, <2>2
<1>30. ASSUME NEW j \in m + 1 .. Len(d)
       PROVE  end <= d[j].time /\ (k = 1 => end < d[j].time)
  <2>1. /\ n < Len(rest) /\ m + 1 \in 1 .. Len(d) /\ j \in 1 .. Len(d) /\ m + 1 <= j
        /\ n + 1 \in 1 .. Len(d) - q /\ q + (n + 1) = m + 1
    BY <1>2, <1>6, <1>7, <1>9
  <2>2. rest[n + 1] = d[m + 1]
    BY <1>6, <2>1
  <2>3. end <= d[m + 1].time /\ (k = 1 => end # d[m + 1].time)
    BY <1>9, <1>16, <1>17, <2>1, <2>2
  <2>4. m + 1 < j => d[m + 1].time < d[j].time \/ d[j].time = Infinity
    BY <2>1 DEF Sorted
  <2>5. d[m + 1].time \in Nat /\ d[j].time \in Nat /\ d[m + 1].time <= Infinity
    BY <1>2, <2>1
  <2> QED
    BY <1>0, <2>1, <2>3, <2>4, <2>5
<1>31. Raises(e, d, s, end, x, p, q, m, k)
  <2> HIDE DEF e, m
  <2> QED
    BY <1>7, <1>16, <1>21, <1>22, <1>23, <1>24, <1>25, <1>26, <1>27, <1>28, <1>29, <1>30
       DEF Raises
<1> QED
  BY <1>1, <1>31

\* The positions of the parts.
LEMMA RaisedPositions ==
  ASSUME NEW d \in Seq(Steps), NEW s, NEW end, NEW x, NEW e,
         NEW p, NEW q, NEW m, NEW k, Raises(e, d, s, end, x, p, q, m, k)
  PROVE  /\ p \in Nat /\ q \in Nat /\ m \in Nat /\ Len(d) \in Nat /\ k \in {0, 1}
         /\ q \in {p, p + 1} /\ q <= m /\ m <= Len(d)
<1>1. p \in Nat /\ q \in {p, p + 1} /\ m \in q .. Len(d) /\ k \in {0, 1}
  BY Zenon DEF Raises
<1>2. Len(d) \in Nat
  OBVIOUS
<1> QED
  BY <1>1, <1>2

\* Where the steps of a raised diagram come from, part by part.
LEMMA RaisedParts ==
  ASSUME NEW d \in Seq(Steps), NEW s, NEW end, NEW x \in Nat, NEW e,
         NEW p, NEW q, NEW m, NEW k, Raises(e, d, s, end, x, p, q, m, k),
         NEW a \in 1 .. Len(e)
  PROVE  \/ a \in 1 .. p /\ a \in 1 .. Len(d) /\ e[a] = d[a]
         \/ a = p + 1 /\ e[a] = [time |-> s, amount |-> Amount(d, q) + x]
         \/ \E j \in q + 1 .. m : /\ a = j + 1 + p - q /\ j \in 1 .. Len(d)
                                  /\ e[a].time = d[j].time
                                  /\ e[a].amount = d[j].amount + x
         \/ /\ k = 1 /\ a = m + 2 + p - q
            /\ e[a] = [time |-> end, amount |-> Amount(d, m)]
         \/ \E j \in m + 1 .. Len(d) : /\ a = j + 1 + p - q + k /\ j \in 1 .. Len(d)
                                       /\ e[a] = d[j]
<1>0. /\ p \in Nat /\ q \in Nat /\ m \in Nat /\ Len(d) \in Nat /\ k \in {0, 1}
      /\ q \in {p, p + 1} /\ q <= m /\ m <= Len(d)
  BY RaisedPositions
<1>1. a \in Nat /\ 1 <= a /\ a <= Len(d) + 1 + p - q + k
  BY <1>0 DEF Raises
<1>2. CASE a <= p
  BY <1>0, <1>1, <1>2 DEF Raises
<1>3. CASE a = p + 1
  BY <1>3 DEF Raises
<1>4. CASE p + 1 < a /\ a <= m + 1 + p - q
  <2>1. a - 1 - p + q \in q + 1 .. m /\ a = (a - 1 - p + q) + 1 + p - q
        /\ a - 1 - p + q \in 1 .. Len(d)
    BY <1>0, <1>1, <1>4
  <2>2. PICK j \in q + 1 .. m : a = j + 1 + p - q /\ j \in 1 .. Len(d)
    BY <2>1
  <2>3. e[a] = [time |-> d[j].time, amount |-> d[j].amount + x]
    BY <2>2 DEF Raises
  <2> QED
    BY <2>2, <2>3
<1>5. CASE k = 1 /\ a = m + 2 + p - q
  BY <1>5 DEF Raises
<1>6. CASE a > m + 1 + p - q + k
  <2>1. /\ a - 1 - p + q - k \in m + 1 .. Len(d)
        /\ a = (a - 1 - p + q - k) + 1 + p - q + k
        /\ a - 1 - p + q - k \in 1 .. Len(d)
    BY <1>0, <1>1, <1>6
  <2>2. PICK j \in m + 1 .. Len(d) : a = j + 1 + p - q + k /\ j \in 1 .. Len(d)
    BY <2>1
  <2> QED
    BY <2>2 DEF Raises
<1> QED
  BY <1>0, <1>1, <1>2, <1>3, <1>4, <1>5, <1>6

\* A raised diagram is sorted.
LEMMA RaisedSorted ==
  ASSUME NEW d \in Seq(Steps), Sorted(d), NEW s, NEW end, Period(s, end), NEW x \in Nat,
         NEW e, NEW p, NEW q, NEW m, NEW k, Raises(e, d, s, end, x, p, q, m, k)
  PROVE  Sorted(e)
<1>0. /\ p \in Nat /\ q \in Nat /\ m \in Nat /\ Len(d) \in Nat /\ k \in {0, 1}
      /\ q \in {p, p + 1} /\ q <= m /\ m <= Len(d)
  BY RaisedPositions
<1>1. /\ s \in Nat /\ end \in Nat /\ Infinity \in Nat /\ s <= Infinity /\ end <= Infinity
      /\ s < end \/ (s = Infinity /\ end = Infinity)
  BY TimesAssumption DEF Period
<1>2. /\ \A j \in 1 .. Len(d) : d[j].time \in Nat /\ d[j].time <= Infinity
      /\ \A i, j \in 1 .. Len(d) :
           i < j => d[i].time < d[j].time \/ (d[i].time = Infinity /\ d[j].time = Infinity)
  BY StepIs DEF Sorted
<1>3. /\ \A j \in 1 .. p : d[j].time < s
      /\ \A j \in q + 1 .. m : s < d[j].time /\ d[j].time < end
      /\ \A j \in m + 1 .. Len(d) : end <= d[j].time /\ (k = 1 => end < d[j].time)
  BY DEF Raises
<1> SUFFICES ASSUME NEW a \in 1 .. Len(e), NEW b \in 1 .. Len(e), a < b
             PROVE  \/ e[a].time < e[b].time
                    \/ e[a].time = Infinity /\ e[b].time = Infinity
  BY DEF Sorted
<1>a. a \in Nat /\ b \in Nat /\ 1 <= a
  BY DEF Raises
<1> DEFINE In1(i) == i \in 1 .. p /\ i \in 1 .. Len(d) /\ e[i].time = d[i].time
           In2(i) == i = p + 1 /\ e[i].time = s
           In3(i) == \E j \in q + 1 .. m : i = j + 1 + p - q /\ j \in 1 .. Len(d)
                                           /\ e[i].time = d[j].time
           In4(i) == k = 1 /\ i = m + 2 + p - q /\ e[i].time = end
           In5(i) == \E j \in m + 1 .. Len(d) : i = j + 1 + p - q + k /\ j \in 1 .. Len(d)
                                                /\ e[i].time = d[j].time
<1>4. \A i \in 1 .. Len(e) : In1(i) \/ In2(i) \/ In3(i) \/ In4(i) \/ In5(i)
  <2> SUFFICES ASSUME NEW i \in 1 .. Len(e) PROVE In1(i) \/ In2(i) \/ In3(i) \/ In4(i) \/ In5(i)
    OBVIOUS
  <2>1. \/ i \in 1 .. p /\ i \in 1 .. Len(d) /\ e[i] = d[i]
        \/ i = p + 1 /\ e[i] = [time |-> s, amount |-> Amount(d, q) + x]
        \/ \E j \in q + 1 .. m : /\ i = j + 1 + p - q /\ j \in 1 .. Len(d)
                                 /\ e[i].time = d[j].time
                                 /\ e[i].amount = d[j].amount + x
        \/ /\ k = 1 /\ i = m + 2 + p - q
           /\ e[i] = [time |-> end, amount |-> Amount(d, m)]
        \/ \E j \in m + 1 .. Len(d) : /\ i = j + 1 + p - q + k /\ j \in 1 .. Len(d)
                                      /\ e[i] = d[j]
    BY RaisedParts
  <2> QED
    BY <2>1
<1>5. CASE In1(b)
  <2>1. In1(a)
    BY <1>0, <1>4, <1>5, <1>a
  <2> QED
    BY <1>2, <1>5, <2>1
<1>6. CASE In2(b)
  <2>1. In1(a)
    BY <1>0, <1>4, <1>6, <1>a
  <2> QED
    BY <1>3, <1>6, <2>1
<1>c. /\ In1(a) => e[a].time < s /\ e[a].time \in Nat
      /\ In3(a) => s < e[a].time /\ e[a].time < end /\ e[a].time \in Nat
      /\ In5(a) => a > m + 1 + p - q + k
  BY <1>0, <1>2, <1>3
<1>7. CASE In3(b)
  <2>1. PICK j \in q + 1 .. m : b = j + 1 + p - q /\ j \in 1 .. Len(d)
                               /\ e[b].time = d[j].time
    BY <1>7
  <2>2. s < e[b].time /\ e[b].time \in Nat
    BY <1>2, <1>3, <2>1
  <2>3. CASE In3(a)
    <3>1. PICK i \in q + 1 .. m : a = i + 1 + p - q /\ i \in 1 .. Len(d)
                                 /\ e[a].time = d[i].time
      BY <2>3
    <3>2. i < j
      <4>1. i \in Nat /\ j \in Nat
        BY <1>0
      <4>2. i + 1 + p - q < j + 1 + p - q
        BY <2>1, <3>1
      <4> HIDE DEF In1, In2, In3, In4, In5
      <4> QED
        BY <1>0, <4>1, <4>2
    <3> QED
      BY <1>2, <2>1, <3>1, <3>2
  <2>4. CASE In1(a) \/ In2(a)
    <3> HIDE DEF In1
    <3> QED
      BY <1>1, <1>c, <2>2, <2>4
  <2>5. ~In4(a) /\ ~In5(a)
    <3> HIDE DEF In1, In2, In3, In4, In5
    <3>1. b <= m + 1 + p - q
      <4>1. j \in Nat /\ j <= m
        BY <1>0
      <4> QED
        BY <1>0, <2>1, <4>1
    <3> USE DEF In4
    <3>2. ~In4(a)
      BY <1>0, <1>a, <3>1
    <3> HIDE DEF In4
    <3>3. ~In5(a)
      BY <1>0, <1>a, <1>c, <3>1
    <3> QED
      BY <3>2, <3>3
  <2> HIDE DEF In1, In2, In3, In4, In5
  <2> QED
    BY <1>4, <2>3, <2>4, <2>5
<1>8. CASE In4(b)
  <2>1. ~In4(a) /\ ~In5(a)
    <3> HIDE DEF In5
    <3> QED
      BY <1>0, <1>8, <1>a, <1>c
  <2> HIDE DEF In1, In3, In5
  <2> QED
    BY <1>1, <1>4, <1>8, <1>c, <2>1
<1>9. CASE In5(b)
  <2>1. ASSUME In5(a)
        PROVE  e[a].time < e[b].time \/ (e[a].time = Infinity /\ e[b].time = Infinity)
    <3>1. PICK j \in m + 1 .. Len(d) : b = j + 1 + p - q + k /\ j \in 1 .. Len(d)
                                       /\ e[b].time = d[j].time
      BY <1>9
    <3>2. PICK i \in m + 1 .. Len(d) : a = i + 1 + p - q + k /\ i \in 1 .. Len(d)
                                       /\ e[a].time = d[i].time
      BY <2>1
    <3>3. i < j /\ i \in 1 .. Len(d) /\ j \in 1 .. Len(d)
      BY <1>0, <3>1, <3>2
    <3>4. d[i].time < d[j].time \/ (d[i].time = Infinity /\ d[j].time = Infinity)
      BY <1>2, <3>3
    <3>5. e[a].time = d[i].time /\ e[b].time = d[j].time
      BY <3>1, <3>2
    <3> HIDE DEF In1, In2, In3, In4, In5
    <3> QED
      BY <3>4, <3>5
  <2>2. end <= e[b].time /\ (k = 1 => end < e[b].time) /\ e[b].time \in Nat
        /\ e[b].time <= Infinity
    BY <1>2, <1>3, <1>9
  <2>3. In1(a) => e[a].time < s /\ e[a].time \in Nat
    BY <1>2, <1>3
  <2>4. In3(a) => e[a].time < end /\ e[a].time \in Nat
    BY <1>2, <1>3
  <2>5. In2(a) \/ In4(a) \/ In1(a) \/ In3(a) \/ In5(a)
    BY <1>4
  <2> HIDE DEF In1, In3, In5
  <2> QED
    BY <1>1, <2>1, <2>2, <2>3, <2>4, <2>5
<1> QED
  BY <1>4, <1>5, <1>6, <1>7, <1>8, <1>9

\* What a raised diagram tells.
LEMMA RaisedAt ==
  ASSUME NEW d \in Seq(Steps), Sorted(d), NEW s, NEW end, Period(s, end), NEW x \in Nat,
         NEW e, NEW p, NEW q, NEW m, NEW k, Raises(e, d, s, end, x, p, q, m, k),
         NEW t \in Nat, t < Infinity
  PROVE  At(e, t) = At(d, t) + IF s <= t /\ t < end THEN x ELSE 0
<1>0. /\ p \in Nat /\ q \in Nat /\ m \in Nat /\ Len(d) \in Nat /\ k \in {0, 1}
      /\ q \in {p, p + 1} /\ q <= m /\ m <= Len(d)
      /\ e \in Seq(Steps) /\ Len(e) = Len(d) + 1 + p - q + k
  <2>1. e \in Seq(Steps) /\ Len(e) = Len(d) + 1 + p - q + k
    BY Zenon DEF Raises
  <2> QED
    BY <2>1, RaisedPositions
<1>1. /\ s \in Nat /\ end \in Nat /\ Infinity \in Nat /\ s <= Infinity /\ end <= Infinity
      /\ s < end \/ (s = Infinity /\ end = Infinity)
  BY TimesAssumption DEF Period
<1>2. \A j \in 1 .. Len(d) : d[j].time \in Nat /\ d[j].amount \in Nat
  BY StepIs
<1>3. /\ \A j \in 1 .. p : d[j].time < s
      /\ q = p + 1 => d[q].time = s
      /\ \A j \in q + 1 .. m : s < d[j].time /\ d[j].time < end
      /\ \A j \in m + 1 .. Len(d) : end <= d[j].time
      /\ k = 0 => m < Len(d) /\ d[m + 1].time = end
  BY DEF Raises
<1>4. /\ \A j \in 1 .. p : e[j] = d[j]
      /\ e[p + 1].time = s /\ e[p + 1].amount = Amount(d, q) + x
      /\ \A j \in q + 1 .. m : e[j + 1 + p - q].time = d[j].time
                               /\ e[j + 1 + p - q].amount = d[j].amount + x
      /\ k = 1 => e[m + 2 + p - q].time = end /\ e[m + 2 + p - q].amount = Amount(d, m)
      /\ \A j \in m + 1 .. Len(d) : e[j + 1 + p - q + k] = d[j]
  <2>1. \A j \in 1 .. p : e[j] = d[j]
    BY DEF Raises
  <2>2. e[p + 1] = [time |-> s, amount |-> Amount(d, q) + x]
    BY DEF Raises
  <2>3. \A j \in q + 1 .. m : e[j + 1 + p - q] = [time |-> d[j].time,
                                                  amount |-> d[j].amount + x]
    BY DEF Raises
  <2>4. k = 1 => e[m + 2 + p - q] = [time |-> end, amount |-> Amount(d, m)]
    BY DEF Raises
  <2>5. \A j \in m + 1 .. Len(d) : e[j + 1 + p - q + k] = d[j]
    BY DEF Raises
  <2>6. e[p + 1].time = s /\ e[p + 1].amount = Amount(d, q) + x
    BY <2>2
  <2>7. \A j \in q + 1 .. m : /\ e[j + 1 + p - q].time = d[j].time
                              /\ e[j + 1 + p - q].amount = d[j].amount + x
    <3> SUFFICES ASSUME NEW j \in q + 1 .. m
                 PROVE  /\ e[j + 1 + p - q].time = d[j].time
                        /\ e[j + 1 + p - q].amount = d[j].amount + x
      OBVIOUS
    <3>1. e[j + 1 + p - q] = [time |-> d[j].time, amount |-> d[j].amount + x]
      BY <2>3
    <3> QED
      BY <3>1
  <2>8. k = 1 => e[m + 2 + p - q].time = end /\ e[m + 2 + p - q].amount = Amount(d, m)
    BY <2>4
  <2> QED
    BY <2>1, <2>5, <2>6, <2>7, <2>8
<1>5. Sorted(e)
  BY RaisedSorted
<1>6. PICK i \in 0 .. Len(d) : Reached(d, i, t)
  BY ReachedExists
<1>7. /\ i > 0 => d[i].time <= t
      /\ i < Len(d) => t < d[i + 1].time
      /\ At(d, t) = Amount(d, i) /\ Amount(d, i) \in Nat
  BY <1>2, <1>6, AtReached DEF Reached, Amount
<1>8. \A a \in 0 .. Len(e) : Reached(e, a, t) => At(e, t) = Amount(e, a)
  BY <1>0, <1>5, AtReached
<1>9. CASE t < s
  <2>1. i <= p
    <3> SUFFICES ASSUME i > p PROVE FALSE
      BY <1>0
    <3>1. i \in 1 .. Len(d) /\ (i = q \/ i \in q + 1 .. m \/ i \in m + 1 .. Len(d))
          /\ (i = q => q = p + 1)
      BY <1>0
    <3>2. s <= d[i].time
      BY <1>1, <1>2, <1>3, <3>1
    <3> QED
      BY <1>1, <1>2, <1>7, <1>9, <3>1, <3>2
  <2>2. i \in 0 .. Len(e) /\ (i > 0 => e[i] = d[i])
    <3>1. i \in 0 .. Len(e) /\ (i > 0 => i \in 1 .. p)
      BY <1>0, <2>1
    <3> QED
      BY <1>4, <3>1
  <2>3. t < e[i + 1].time
    <3>1. CASE i = p
      BY <1>4, <1>9, <3>1
    <3>2. CASE i < p
      <4>1. i + 1 \in 1 .. p /\ i < Len(d)
        BY <1>0, <3>2
      <4> QED
        BY <1>4, <1>7, <4>1
    <3> QED
      BY <1>0, <2>1, <3>1, <3>2
  <2>4. Reached(e, i, t)
    BY <1>7, <2>2, <2>3 DEF Reached
  <2>5. Amount(e, i) = Amount(d, i)
    BY <2>2 DEF Amount
  <2> QED
    BY <1>1, <1>7, <1>8, <1>9, <2>2, <2>4, <2>5
<1>10. CASE s <= t /\ t < end
  <2>1. q <= i
    <3> SUFFICES ASSUME i < q PROVE FALSE
      BY <1>0
    <3>1. i + 1 \in 1 .. Len(d) /\ i < Len(d) /\ (i + 1 \in 1 .. p \/ (i + 1 = q /\ q = p + 1))
      BY <1>0
    <3>2. d[i + 1].time <= s
      BY <1>1, <1>2, <1>3, <3>1
    <3> QED
      BY <1>1, <1>2, <1>7, <1>10, <3>1, <3>2
  <2>2. i <= m
    <3> SUFFICES ASSUME i > m PROVE FALSE
      BY <1>0
    <3>1. i \in m + 1 .. Len(d) /\ i \in 1 .. Len(d)
      BY <1>0
    <3> QED
      BY <1>1, <1>2, <1>3, <1>7, <1>10, <3>1
  <2> DEFINE a == i + 1 + p - q
  <2>3. a \in 1 .. Len(e) /\ a \in Nat /\ a # 0
    BY <1>0, <2>1, <2>2
  <2>4. e[a].time <= t /\ e[a].amount = Amount(d, i) + x
    <3>1. CASE i = q
      <4>1. a = p + 1
        BY <1>0, <3>1
      <4> QED
        BY <1>4, <1>10, <3>1, <4>1
    <3>2. CASE i > q
      <4>1. i \in q + 1 .. m /\ i > 0
        BY <1>0, <2>2, <3>2
      <4> QED
        BY <1>4, <1>7, <4>1 DEF Amount
    <3> QED
      BY <1>0, <2>1, <3>1, <3>2
  <2>5. t < e[a + 1].time
    <3>1. CASE i < m
      <4>1. i + 1 \in q + 1 .. m /\ i < Len(d) /\ (i + 1) + 1 + p - q = a + 1
        BY <1>0, <2>1, <3>1
      <4> QED
        BY <1>4, <1>7, <4>1
    <3>2. CASE i = m /\ k = 1
      <4>1. a + 1 = m + 2 + p - q
        BY <1>0, <3>2
      <4> QED
        BY <1>4, <1>10, <3>2, <4>1
    <3>3. CASE i = m /\ k = 0
      <4>1. m + 1 \in m + 1 .. Len(d) /\ (m + 1) + 1 + p - q + k = a + 1
        BY <1>0, <1>3, <3>3
      <4> QED
        BY <1>3, <1>4, <1>10, <3>3, <4>1
    <3> QED
      BY <1>0, <2>2, <3>1, <3>2, <3>3
  <2>6. Reached(e, a, t)
    <3> HIDE DEF a
    <3> QED
      BY <1>0, <2>3, <2>4, <2>5 DEF Reached
  <2>7. At(e, t) = e[a].amount
    <3> HIDE DEF a
    <3> QED
      BY <1>0, <1>8, <2>3, <2>6 DEF Amount
  <2> QED
    BY <1>7, <1>10, <2>4, <2>7
<1>11. CASE end <= t
  <2>0. s < end /\ s <= t
    BY <1>1, <1>11
  <2>1. m <= i /\ (i = m => k = 1)
    <3>1. ASSUME i < m PROVE FALSE
      <4>1. i + 1 \in 1 .. Len(d) /\ i < Len(d)
            /\ (i + 1 \in 1 .. p \/ (i + 1 = q /\ q = p + 1) \/ i + 1 \in q + 1 .. m)
        BY <1>0, <3>1
      <4>2. d[i + 1].time < end
        BY <1>1, <1>2, <1>3, <2>0, <4>1
      <4> QED
        BY <1>1, <1>2, <1>7, <1>11, <4>1, <4>2
    <3>2. ASSUME i = m, k = 0 PROVE FALSE
      <4>1. m < Len(d) /\ d[m + 1].time = end
        BY <1>3, <3>2
      <4> QED
        BY <1>1, <1>7, <1>11, <3>2, <4>1
    <3> QED
      BY <1>0, <3>1, <3>2
  <2> DEFINE a == i + 1 + p - q + k
  <2>2. a \in 1 .. Len(e) /\ a \in Nat /\ a # 0
    BY <1>0, <2>1
  <2>3. e[a].time <= t /\ e[a].amount = Amount(d, i)
    <3>1. CASE i = m
      <4>1. k = 1 /\ a = m + 2 + p - q
        BY <1>0, <2>1, <3>1
      <4> QED
        BY <1>4, <1>11, <3>1, <4>1
    <3>2. CASE i > m
      <4>1. i \in m + 1 .. Len(d) /\ i > 0
        BY <1>0, <3>2
      <4> QED
        BY <1>4, <1>7, <4>1 DEF Amount
    <3> QED
      BY <1>0, <2>1, <3>1, <3>2
  <2>4. a < Len(e) => t < e[a + 1].time
    <3> SUFFICES ASSUME a < Len(e) PROVE t < e[a + 1].time
      OBVIOUS
    <3>1. i + 1 \in m + 1 .. Len(d) /\ i < Len(d) /\ (i + 1) + 1 + p - q + k = a + 1
      BY <1>0, <2>1
    <3> QED
      BY <1>4, <1>7, <3>1
  <2>5. Reached(e, a, t)
    <3> HIDE DEF a
    <3> QED
      BY <1>0, <2>2, <2>3, <2>4 DEF Reached
  <2>6. At(e, t) = e[a].amount
    <3> HIDE DEF a
    <3> QED
      BY <1>0, <1>8, <2>2, <2>5 DEF Amount
  <2> QED
    BY <1>1, <1>7, <1>11, <2>3, <2>6
<1> QED
  BY <1>1, <1>9, <1>10, <1>11

\* A diagram of the scheduler: at the end nothing is taken.
Diagram(d) == d \in Seq(Steps) /\ Sorted(d) /\ LastAmount(d) = 0

\* A diagram e is d, raised by x from s to end.
IsRaised(e, d, s, end, x) ==
  /\ Diagram(e)
  /\ \A t \in Nat : t < Infinity =>
       At(e, t) = At(d, t) + IF s <= t /\ t < end THEN x ELSE 0
  /\ \A i \in 1 .. Len(e) : \/ e[i].time \in {s, end}
                            \/ \E j \in 1 .. Len(d) : e[i].time = d[j].time

\* utilization_add raises what is taken from the start to the end of a job.
LEMMA AddIs ==
  ASSUME NEW d, Diagram(d), NEW s, NEW end, Period(s, end), NEW x \in Nat
  PROVE  IsRaised(UtilizationAdd(d, s, end, x), d, s, end, x)
<1>1. d \in Seq(Steps) /\ Sorted(d) /\ LastAmount(d) = 0 /\ Len(d) \in Nat
  BY DEF Diagram
<1>2. PICK e, p, q, m, k : /\ Raises(e, d, s, end, x, p, q, m, k)
                           /\ UtilizationAdd(d, s, end, x) = Normalize(e)
  BY <1>1, AddShape
<1>3. /\ e \in Seq(Steps) /\ Len(e) = Len(d) + 1 + p - q + k
      /\ p \in Nat /\ q \in {p, p + 1} /\ m \in q .. Len(d) /\ k \in {0, 1}
      /\ k = 0 => m < Len(d)
  BY <1>2 DEF Raises
<1>4. Sorted(e)
  BY <1>1, <1>2, RaisedSorted
<1>5. \A t \in Nat : t < Infinity =>
        At(e, t) = At(d, t) + IF s <= t /\ t < end THEN x ELSE 0
  BY <1>1, <1>2, RaisedAt
<1> DEFINE n == Normalize(e)
<1>6. LessThan(n, e, Len(e))
  BY <1>3, <1>4, NormalizeIs
<1>7. Len(e) \in 1 .. Len(e) /\ Len(e) # 0
  BY <1>1, <1>3
<1>8. SubSeq(e, 1, Len(e)) = e
  BY <1>3
<1> HIDE DEF n
<1>9. /\ n \in Seq(Steps) /\ Sorted(n) /\ LastAmount(n) = Amount(e, Len(e))
      /\ \A i \in 1 .. Len(n) : \E j \in 1 .. Len(e) : n[i] = e[j]
      /\ \A t \in Nat : t < Infinity => At(n, t) = At(e, t)
  BY <1>6, <1>8 DEF LessThan
<1>10. Amount(e, Len(e)) = 0
  <2>1. Amount(d, Len(d)) = 0
    BY <1>1, LastAmountIs
  <2>2. CASE m < Len(d)
    <3>1. Len(d) \in m + 1 .. Len(d) /\ Len(e) = Len(d) + 1 + p - q + k /\ Len(d) # 0
      BY <1>1, <1>3, <2>2
    <3>2. e[Len(e)] = d[Len(d)]
      BY <1>2, <3>1 DEF Raises
    <3> QED
      BY <1>7, <2>1, <3>1, <3>2 DEF Amount
  <2>3. CASE m = Len(d)
    <3>1. k = 1 /\ Len(e) = m + 2 + p - q
      BY <1>1, <1>3, <2>3
    <3>2. e[Len(e)] = [time |-> end, amount |-> Amount(d, m)]
      BY <1>2, <3>1 DEF Raises
    <3> QED
      BY <1>7, <2>1, <2>3, <3>2 DEF Amount
  <2> QED
    BY <1>1, <1>3, <2>2, <2>3
<1>11. \A a \in 1 .. Len(e) : \/ e[a].time \in {s, end}
                              \/ \E j \in 1 .. Len(d) : e[a].time = d[j].time
  <2> SUFFICES ASSUME NEW a \in 1 .. Len(e)
               PROVE  \/ e[a].time \in {s, end}
                      \/ \E j \in 1 .. Len(d) : e[a].time = d[j].time
    OBVIOUS
  <2>1. \/ a \in 1 .. p /\ a \in 1 .. Len(d) /\ e[a] = d[a]
        \/ a = p + 1 /\ e[a] = [time |-> s, amount |-> Amount(d, q) + x]
        \/ \E j \in q + 1 .. m : /\ a = j + 1 + p - q /\ j \in 1 .. Len(d)
                                 /\ e[a].time = d[j].time
                                 /\ e[a].amount = d[j].amount + x
        \/ /\ k = 1 /\ a = m + 2 + p - q
           /\ e[a] = [time |-> end, amount |-> Amount(d, m)]
        \/ \E j \in m + 1 .. Len(d) : /\ a = j + 1 + p - q + k /\ j \in 1 .. Len(d)
                                      /\ e[a] = d[j]
    BY <1>1, <1>2, RaisedParts
  <2>2. \/ a \in 1 .. Len(d) /\ e[a] = d[a]
        \/ e[a] = [time |-> s, amount |-> Amount(d, q) + x]
        \/ \E j : j \in 1 .. Len(d) /\ e[a].time = d[j].time
        \/ e[a] = [time |-> end, amount |-> Amount(d, m)]
    BY <2>1
  <2> QED
    BY <2>2
<1>12. \A i \in 1 .. Len(n) : \/ n[i].time \in {s, end}
                              \/ \E j \in 1 .. Len(d) : n[i].time = d[j].time
  BY <1>9, <1>11
<1> QED
  BY <1>2, <1>5, <1>9, <1>10, <1>12 DEF n, Diagram, IsRaised

-----------------------------------------------------------------------------
(* What the diagrams say                                                    *)

\* The amounts of a diagram are bounded.
LEMMA BoundExists ==
  ASSUME NEW d \in Seq(Steps)
  PROVE  \E m \in Nat : \A i \in 1 .. Len(d) : d[i].amount <= m
<1> DEFINE B(n) == \E m \in Nat : \A i \in 1 .. n : d[i].amount <= m
           T == {n \in Nat : B(n)}
<1>0. Len(d) \in Nat /\ \A i \in 1 .. Len(d) : d[i].amount \in Nat
  BY StepIs
<1>1. B(0)
  <2>1. \A i \in 1 .. 0 : d[i].amount <= 0
    OBVIOUS
  <2> QED
    BY <2>1
<1>2. ASSUME NEW n \in 1 .. Len(d), B(n - 1) PROVE B(n)
  <2>1. PICK m \in Nat : \A i \in 1 .. n - 1 : d[i].amount <= m
    BY <1>2
  <2>2. PICK b \in Nat : m <= b /\ d[n].amount <= b
    <3>1. \A u, v \in Nat : u <= u + v /\ v <= u + v /\ u + v \in Nat
      OBVIOUS
    <3>2. d[n].amount \in Nat
      BY <1>0
    <3> QED
      BY <3>1, <3>2
  <2>3. \A i \in 1 .. n : d[i].amount <= b
    <3> SUFFICES ASSUME NEW i \in 1 .. n PROVE d[i].amount <= b
      OBVIOUS
    <3>1. i = n \/ i \in 1 .. n - 1
      OBVIOUS
    <3>2. d[i].amount \in Nat
      BY <1>0
    <3> QED
      BY <2>1, <2>2, <3>1, <3>2
  <2> QED
    BY <2>3
<1> HIDE DEF B
<1>3. 0 \in T /\ \A i \in 1 .. Len(d) : i - 1 \in T => i \in T
  BY <1>1, <1>2
<1> HIDE DEF T
<1>4. \A i \in 0 .. Len(d) : i \in T
  BY <1>0, <1>3, UpTo
<1>5. B(Len(d))
  BY <1>0, <1>4 DEF T
<1> QED
  BY <1>5 DEF B

\* utilization_max bounds what is taken during a job.
LEMMA MaxIs ==
  ASSUME NEW d, Diagram(d), NEW start \in Nat, start < Infinity,
         NEW duration \in Nat
  PROVE  /\ UtilizationMax(d, start, duration) \in Nat
         /\ \A t \in Nat : start <= t /\ t < EndTime(start, duration) =>
              At(d, t) <= UtilizationMax(d, start, duration)
<1>1. d \in Seq(Steps) /\ Sorted(d) /\ Len(d) \in Nat
  BY DEF Diagram
<1>2. Infinity \in Nat
  BY TimesAssumption
<1> DEFINE inside == {i \in DOMAIN d : start < d[i].time
                                       /\ d[i].time < EndTime(start, duration)}
           T == {At(d, start)} \union {d[i].amount : i \in inside}
<1>3. UtilizationMax(d, start, duration) = Max(T)
  BY <1>2 DEF UtilizationMax
<1>4. At(d, start) \in Nat
  BY <1>1, AtIs
<1>5. \A i \in 1 .. Len(d) : d[i].amount \in Nat /\ d[i].time \in Nat
  BY <1>1, StepIs
<1>6. \E b \in Nat : T \in SUBSET (0 .. b)
  <2>1. PICK m \in Nat : \A i \in 1 .. Len(d) : d[i].amount <= m
    BY <1>1, BoundExists
  <2>2. /\ m + At(d, start) \in Nat /\ At(d, start) <= m + At(d, start)
        /\ \A i \in 1 .. Len(d) : d[i].amount <= m + At(d, start)
    BY <1>4, <1>5, <2>1
  <2>3. \A i \in inside : i \in 1 .. Len(d)
    BY <1>1
  <2> HIDE DEF inside
  <2>4. T \in SUBSET (0 .. m + At(d, start))
    BY <1>4, <1>5, <2>2, <2>3
  <2> QED
    BY <2>2, <2>4
<1>7. PICK b \in Nat : T \in SUBSET (0 .. b)
  BY <1>6
<1>8. At(d, start) \in T /\ \A i \in 1 .. Len(d) :
        start < d[i].time /\ d[i].time < EndTime(start, duration) => d[i].amount \in T
  BY <1>1
<1> HIDE DEF T
<1>9. Max(T) \in T /\ \A k \in T : k <= Max(T)
  BY <1>7, <1>8, MaxIsGreatest
<1>10. Max(T) \in Nat
  <2>1. Max(T) \in T
    BY <1>9
  <2>2. \A k \in T : k \in Nat
    BY <1>7
  <2> QED
    BY <2>1, <2>2
<1>11. ASSUME NEW t \in Nat, start <= t, t < EndTime(start, duration)
       PROVE  At(d, t) \in T
  <2>1. t < Infinity
    BY <1>2, <1>11 DEF EndTime
  <2>2. PICK i \in 0 .. Len(d) : Reached(d, i, t)
    BY <1>1, <2>1, ReachedExists
  <2>3. At(d, t) = Amount(d, i)
    BY <1>1, <2>1, <2>2, AtReached
  <2>i. /\ i > 0 => d[i].time <= t
        /\ i < Len(d) => t < d[i + 1].time
    BY <2>2 DEF Reached
  <2>4. CASE i > 0 /\ start < d[i].time
    <3>1. i \in 1 .. Len(d) /\ i # 0 /\ d[i].time <= t /\ d[i].time \in Nat
      BY <1>1, <1>5, <2>4, <2>i
    <3>2. d[i].time < EndTime(start, duration)
      <4>1. EndTime(start, duration) \in Nat
        BY <1>2 DEF EndTime
      <4> QED
        BY <1>11, <3>1, <4>1
    <3> QED
      BY <1>8, <2>3, <2>4, <3>1, <3>2 DEF Amount
  <2>5. CASE ~(i > 0 /\ start < d[i].time)
    <3>1. Reached(d, i, start)
      <4>1. i > 0 => d[i].time <= start
        BY <1>1, <1>5, <2>5
      <4>2. i < Len(d) => start < d[i + 1].time
        BY <1>1, <1>5, <1>11, <2>i
      <4> QED
        BY <4>1, <4>2 DEF Reached
    <3>2. At(d, start) = Amount(d, i)
      BY <1>1, <3>1, AtReached
    <3> QED
      BY <1>8, <2>3, <3>2
  <2> QED
    BY <2>4, <2>5
<1> QED
  BY <1>3, <1>9, <1>10, <1>11

\* From the time that utilization_below tells no more than the given amount is
\* taken.
LEMMA BelowIs ==
  ASSUME NEW d, Diagram(d), NEW a \in Nat
  PROVE  /\ UtilizationBelow(d, a) \in 0 .. Infinity
         /\ \A t \in Nat : t < Infinity /\ UtilizationBelow(d, a) <= t => At(d, t) <= a
<1>1. d \in Seq(Steps) /\ Sorted(d) /\ Len(d) \in Nat /\ LastAmount(d) = 0
  BY DEF Diagram
<1>2. /\ Infinity \in Nat /\ Now \in Nat /\ Now < Infinity
      /\ \A i \in 1 .. Len(d) : d[i].amount \in Nat /\ d[i].time \in Nat
                                /\ d[i].time <= Infinity
  <2>1. \A i \in 1 .. Len(d) : d[i].amount \in Nat /\ d[i].time \in Nat
                               /\ d[i].time <= Infinity
    BY <1>1, StepIs
  <2> QED
    BY <2>1, TimesAssumption
<1> DEFINE falls == {i \in 2 .. Len(d) : d[i].amount <= a /\ d[i-1].amount > a}
<1>3. ASSUME NEW i \in 1 .. Len(d), d[i].amount > a
      PROVE  \E j \in falls : i < j
  <2> DEFINE T == {j \in 1 .. Len(d) : i < j /\ d[j].amount <= a}
  <2>1. Len(d) \in T
    <3>1. Len(d) # 0 /\ Len(d) \in 1 .. Len(d)
      BY <1>1
    <3>2. d[Len(d)].amount = 0
      BY <1>1, <3>1, LastAmountIs DEF Amount
    <3>3. i # Len(d)
      BY <1>3, <3>2
    <3> QED
      BY <1>1, <3>1, <3>2, <3>3
  <2>2. PICK j \in T : \A k \in T : j <= k
    <3>1. T \in SUBSET Nat
      OBVIOUS
    <3> HIDE DEF T
    <3> QED
      BY <2>1, <3>1, LeastExists
  <2>3. j \in 2 .. Len(d) /\ i < j /\ d[j].amount <= a
    BY <1>1, <2>2
  <2>4. d[j-1].amount > a
    <3>1. j - 1 = i \/ (i < j - 1 /\ j - 1 \in 1 .. Len(d) /\ j - 1 \notin T)
      BY <1>1, <2>2, <2>3
    <3>2. j - 1 \in 1 .. Len(d)
      BY <1>1, <2>3
    <3> QED
      BY <1>2, <1>3, <3>1, <3>2
  <2> QED
    BY <2>3, <2>4
<1>4. CASE falls = {}
  <2>1. UtilizationBelow(d, a) = Now
    BY <1>4 DEF UtilizationBelow
  <2>2. ASSUME NEW t \in Nat, t < Infinity PROVE At(d, t) <= a
    <3>1. PICK i \in 0 .. Len(d) : Reached(d, i, t)
      BY <1>1, <2>2, ReachedExists
    <3>2. At(d, t) = Amount(d, i)
      BY <1>1, <2>2, <3>1, AtReached
    <3>3. i # 0 => i \in 1 .. Len(d) /\ ~(d[i].amount > a)
      <4> HIDE DEF falls
      <4> QED
        BY <1>3, <1>4
    <3> QED
      BY <1>2, <3>2, <3>3 DEF Amount
  <2> QED
    BY <1>2, <2>1, <2>2
<1>5. CASE falls # {}
  <2>1. Max(falls) \in falls /\ \A k \in falls : k <= Max(falls)
    <3>1. falls \in SUBSET (0 .. Len(d))
      BY <1>1
    <3> HIDE DEF falls
    <3> QED
      BY <1>1, <1>5, <3>1, MaxIsGreatest
  <2> DEFINE f == Max(falls)
  <2>2. UtilizationBelow(d, a) = d[f].time
    BY <1>5 DEF UtilizationBelow
  <2>3. f \in 1 .. Len(d) /\ \A k \in falls : k <= f /\ k \in Nat
    BY <1>1, <2>1
  <2> HIDE DEF f, falls
  <2>4. ASSUME NEW t \in Nat, t < Infinity, d[f].time <= t PROVE At(d, t) <= a
    <3>1. PICK i \in 0 .. Len(d) : Reached(d, i, t)
      BY <1>1, <2>4, ReachedExists
    <3>2. At(d, t) = Amount(d, i) /\ (i < Len(d) => t < d[i + 1].time)
      BY <1>1, <2>4, <3>1, AtReached DEF Reached
    <3>3. f <= i
      <4> SUFFICES ASSUME i < f PROVE FALSE
        BY <1>1, <2>3
      <4>1. i < Len(d) /\ i + 1 \in 1 .. Len(d) /\ (i + 1 = f \/ i + 1 < f)
        BY <1>1, <2>3
      <4>2. i + 1 < f => d[i + 1].time < d[f].time \/ d[f].time = Infinity
        BY <1>1, <2>3, <4>1 DEF Sorted
      <4> QED
        BY <1>2, <2>3, <2>4, <3>2, <4>1, <4>2
    <3>4. i # 0 /\ i \in 1 .. Len(d)
      BY <1>1, <2>3, <3>3
    <3>5. ~(d[i].amount > a)
      <4> SUFFICES ASSUME d[i].amount > a PROVE FALSE
        OBVIOUS
      <4>1. PICK j \in falls : i < j
        BY <1>3, <3>4
      <4> QED
        BY <2>3, <3>3, <3>4, <4>1
    <3> QED
      BY <1>2, <3>2, <3>4, <3>5 DEF Amount
  <2> QED
    BY <1>2, <2>2, <2>3, <2>4
<1> QED
  BY <1>4, <1>5

-----------------------------------------------------------------------------
(* Sums                                                                     *)

\* The loop of SumOf.
SumsUpTo(g, a, m) == g = [i \in 0 .. m |-> IF i = 0 THEN 0 ELSE g[i-1] + a[i]]

\* Its recursion is well founded.
LEMMA SumsExist ==
  ASSUME NEW a, NEW n \in Nat
  PROVE  \E g : SumsUpTo(g, a, n)
<1> DEFINE B(m) == \E g : SumsUpTo(g, a, m)
           T == {m \in Nat : B(m)}
<1>1. B(0)
  <2> DEFINE g == [i \in 0 .. 0 |-> 0]
  <2>1. SumsUpTo(g, a, 0)
    BY DEF SumsUpTo
  <2> QED
    BY <2>1
<1>2. ASSUME NEW m \in 1 .. n, B(m - 1) PROVE B(m)
  <2>2. PICK g : SumsUpTo(g, a, m - 1)
    BY <1>2
  <2> DEFINE h == [i \in 0 .. m |-> IF i = 0 THEN 0 ELSE g[i-1] + a[i]]
  <2>3. \A i \in 0 .. m - 1 : h[i] = g[i]
    <3>1. \A i \in 0 .. m - 1 : g[i] = IF i = 0 THEN 0 ELSE g[i-1] + a[i]
      BY <2>2 DEF SumsUpTo
    <3> QED
      BY <3>1
  <2>4. ASSUME NEW i \in 0 .. m
        PROVE  (IF i = 0 THEN 0 ELSE g[i-1] + a[i]) = (IF i = 0 THEN 0 ELSE h[i-1] + a[i])
    <3>1. i # 0 => i - 1 \in 0 .. m - 1
      OBVIOUS
    <3>2. i # 0 => h[i-1] = g[i-1]
      BY <2>3, <3>1
    <3> HIDE DEF h
    <3> QED
      BY <3>2
  <2>5. SumsUpTo(h, a, m)
    BY <2>4 DEF SumsUpTo
  <2> QED
    BY <2>5
<1> HIDE DEF B
<1>3. 0 \in T /\ \A i \in 1 .. n : i - 1 \in T => i \in T
  BY <1>1, <1>2
<1> HIDE DEF T
<1>4. \A i \in 0 .. n : i \in T
  BY <1>3, UpTo
<1>5. B(n)
  BY <1>4 DEF T
<1> QED
  BY <1>5 DEF B

\* A sum and its parts.
LEMMA SumIs ==
  ASSUME NEW a \in Seq(Nat)
  PROVE  \E g : /\ g[0] = 0
                /\ \A i \in 0 .. Len(a) : g[i] \in Nat
                /\ \A i \in 1 .. Len(a) : g[i] = g[i-1] + a[i]
                /\ SumOf(a) = g[Len(a)]
<1>0. Len(a) \in Nat /\ \A i \in 1 .. Len(a) : a[i] \in Nat
  OBVIOUS
<1>1. \E g : SumsUpTo(g, a, Len(a))
  BY <1>0, SumsExist
<1> DEFINE sum[i \in 0 .. Len(a)] == IF i = 0 THEN 0 ELSE sum[i-1] + a[i]
<1>2. SumsUpTo(sum, a, Len(a))
  BY <1>1 DEF sum, SumsUpTo
<1>3. SumOf(a) = sum[Len(a)]
  BY DEF SumOf
<1> HIDE DEF sum
<1>4. \A i \in 0 .. Len(a) : sum[i] = IF i = 0 THEN 0 ELSE sum[i-1] + a[i]
  BY <1>2 DEF SumsUpTo
<1>5. sum[0] = 0 /\ \A i \in 1 .. Len(a) : sum[i] = sum[i-1] + a[i]
  BY <1>0, <1>4
<1> DEFINE T == {i \in 0 .. Len(a) : sum[i] \in Nat}
<1>6. 0 \in T /\ \A i \in 1 .. Len(a) : i - 1 \in T => i \in T
  <2>1. 0 \in 0 .. Len(a) /\ sum[0] \in Nat
    BY <1>0, <1>5
  <2>2. ASSUME NEW i \in 1 .. Len(a), i - 1 \in T
        PROVE  i \in T
    <3>1. sum[i-1] \in Nat /\ a[i] \in Nat /\ sum[i] = sum[i-1] + a[i]
      BY <1>0, <1>5, <2>2
    <3>2. sum[i] \in Nat
      BY <3>1
    <3>3. i \in 0 .. Len(a)
      BY <1>0
    <3> QED
      BY <3>2, <3>3
  <2> QED
    BY <2>1, <2>2
<1>7. \A i \in 0 .. Len(a) : i \in T
  <2> HIDE DEF T
  <2> QED
    BY <1>0, <1>6, UpTo
<1> QED
  BY <1>3, <1>5, <1>7

\* Sums are numbers.
LEMMA SumNat ==
  ASSUME NEW a \in Seq(Nat)
  PROVE  SumOf(a) \in Nat
<1>1. Len(a) \in 0 .. Len(a)
  OBVIOUS
<1> QED
  BY <1>1, SumIs

\* A sum is not greater than one with greater parts.
LEMMA SumLeq ==
  ASSUME NEW a \in Seq(Nat), NEW b \in Seq(Nat), Len(a) = Len(b),
         \A i \in 1 .. Len(a) : a[i] <= b[i]
  PROVE  SumOf(a) <= SumOf(b)
<1> DEFINE n == Len(a)
<1>0. n \in Nat /\ \A i \in 1 .. n : a[i] \in Nat /\ b[i] \in Nat /\ a[i] <= b[i]
  OBVIOUS
<1>1. PICK g : /\ g[0] = 0
               /\ \A i \in 0 .. n : g[i] \in Nat
               /\ \A i \in 1 .. n : g[i] = g[i-1] + a[i]
               /\ SumOf(a) = g[n]
  BY SumIs
<1>2. PICK h : /\ h[0] = 0
               /\ \A i \in 0 .. n : h[i] \in Nat
               /\ \A i \in 1 .. n : h[i] = h[i-1] + b[i]
               /\ SumOf(b) = h[n]
  BY SumIs
<1> HIDE DEF n
<1> DEFINE T == {i \in Nat : g[i] <= h[i]}
<1>3. 0 \in T
  BY <1>1, <1>2
<1>4. ASSUME NEW i \in 1 .. n, i - 1 \in T PROVE i \in T
  <2>1. /\ i - 1 \in 0 .. n /\ g[i-1] \in Nat /\ h[i-1] \in Nat /\ a[i] \in Nat /\ b[i] \in Nat
        /\ g[i-1] <= h[i-1] /\ a[i] <= b[i]
    BY <1>0, <1>1, <1>2, <1>4
  <2>2. g[i] = g[i-1] + a[i] /\ h[i] = h[i-1] + b[i]
    BY <1>1, <1>2
  <2>3. g[i] <= h[i]
    <3>1. g[i-1] + a[i] <= h[i-1] + b[i]
      BY <2>1
    <3> QED
      BY <2>2, <3>1
  <2>4. i \in Nat
    BY <1>0
  <2> QED
    BY <2>3, <2>4
<1>5. \A i \in 0 .. n : i \in T
  <2> HIDE DEF T
  <2> QED
    BY <1>0, <1>3, <1>4, UpTo
<1> QED
  BY <1>0, <1>1, <1>2, <1>5

\* One summand more.
LEMMA SumAppend ==
  ASSUME NEW a \in Seq(Nat), NEW b \in Seq(Nat), Len(b) = Len(a) + 1,
         \A i \in 1 .. Len(a) : b[i] = a[i]
  PROVE  SumOf(b) = SumOf(a) + b[Len(b)]
<1> DEFINE n == Len(a)
<1>0. n \in Nat /\ Len(b) = n + 1 /\ \A i \in 1 .. n : b[i] = a[i]
  <2>1. Len(a) \in Nat
    OBVIOUS
  <2> QED
    BY <2>1
<1>1. PICK g : /\ g[0] = 0
               /\ \A i \in 0 .. n : g[i] \in Nat
               /\ \A i \in 1 .. n : g[i] = g[i-1] + a[i]
               /\ SumOf(a) = g[n]
  BY SumIs
<1>2. PICK h : /\ h[0] = 0
               /\ \A i \in 0 .. Len(b) : h[i] \in Nat
               /\ \A i \in 1 .. Len(b) : h[i] = h[i-1] + b[i]
               /\ SumOf(b) = h[Len(b)]
  BY SumIs
<1> HIDE DEF n
<1> DEFINE T == {i \in Nat : g[i] = h[i]}
<1>3. 0 \in T
  BY <1>1, <1>2
<1>4. ASSUME NEW i \in 1 .. n, i - 1 \in T PROVE i \in T
  <2>1. g[i-1] = h[i-1] /\ a[i] = b[i] /\ i \in 1 .. Len(b)
    BY <1>0, <1>4
  <2>2. g[i] = g[i-1] + a[i] /\ h[i] = h[i-1] + b[i]
    BY <1>1, <1>2, <2>1
  <2> QED
    BY <2>1, <2>2
<1>5. \A i \in 0 .. n : i \in T
  <2> HIDE DEF T
  <2> QED
    BY <1>0, <1>3, <1>4, UpTo
<1>6. g[n] = h[n]
  BY <1>0, <1>5
<1>7. h[n + 1] = h[n] + b[n + 1]
  <2>1. n + 1 \in 1 .. Len(b) /\ (n + 1) - 1 = n
    BY <1>0
  <2> QED
    BY <1>2, <2>1
<1> QED
  BY <1>0, <1>1, <1>2, <1>6, <1>7

\* The sum of nothing.
LEMMA SumZero ==
  ASSUME NEW a \in Seq(Nat), \A i \in 1 .. Len(a) : a[i] = 0
  PROVE  SumOf(a) = 0
<1>0. Len(a) \in Nat
  OBVIOUS
<1>1. PICK g : /\ g[0] = 0
               /\ \A i \in 0 .. Len(a) : g[i] \in Nat
               /\ \A i \in 1 .. Len(a) : g[i] = g[i-1] + a[i]
               /\ SumOf(a) = g[Len(a)]
  BY SumIs
<1> DEFINE T == {i \in Nat : g[i] = 0}
<1>2. 0 \in T /\ \A i \in 1 .. Len(a) : i - 1 \in T => i \in T
  <2>1. ASSUME NEW i \in 1 .. Len(a), i - 1 \in T PROVE i \in T
    <3>1. g[i] = g[i-1] + a[i] /\ a[i] = 0 /\ g[i-1] = 0
      BY <1>1, <2>1
    <3> QED
      BY <3>1
  <2> QED
    BY <1>1, <2>1
<1>3. \A i \in 0 .. Len(a) : i \in T
  <2> HIDE DEF T
  <2> QED
    BY <1>0, <1>2, UpTo
<1> QED
  BY <1>0, <1>1, <1>3

-----------------------------------------------------------------------------
(* Entering a calendar                                                      *)

\* Only the steps of d, then one at each of two times.
TwoMore(d, from, till, x) ==
  Append(Append(d, [time |-> from, amount |-> x]), [time |-> till, amount |-> 0])

\* What two more steps change.
LEMMA TwoMoreIs ==
  ASSUME NEW d, Diagram(d), NEW from \in Nat, NEW till \in Nat, NEW x \in Nat,
         from < till, till < Infinity, \A i \in 1 .. Len(d) : d[i].time < from
  PROVE  /\ Diagram(TwoMore(d, from, till, x))
         /\ \A t \in Nat : t < Infinity =>
              At(TwoMore(d, from, till, x), t) = IF from <= t /\ t < till THEN x
                                                 ELSE At(d, t)
<1> DEFINE a == [time |-> from, amount |-> x]
           b == [time |-> till, amount |-> 0]
           f == Append(d, a)
           e == Append(f, b)
<1>1. d \in Seq(Steps) /\ Sorted(d) /\ LastAmount(d) = 0 /\ Len(d) \in Nat
  BY DEF Diagram
<1>2. Infinity \in Nat /\ \A i \in 1 .. Len(d) : d[i].time \in Nat
  BY <1>1, StepIs, TimesAssumption
<1>3. a \in Steps /\ b \in Steps /\ a.time = from /\ b.time = till /\ a.amount = x /\ b.amount = 0
  BY <1>2 DEF Steps
<1> HIDE DEF a, b
<1>4. /\ f \in Seq(Steps) /\ Len(f) = Len(d) + 1 /\ f[Len(d) + 1] = a
      /\ \A i \in 1 .. Len(d) : f[i] = d[i]
  BY <1>1, <1>3
<1> HIDE DEF f
<1>5. /\ e \in Seq(Steps) /\ Len(e) = Len(d) + 2 /\ e[Len(d) + 2] = b
      /\ \A i \in 1 .. Len(d) + 1 : e[i] = f[i]
  BY <1>1, <1>3, <1>4
<1> HIDE DEF e
<1>6. \A i \in 1 .. Len(d) : f[i].time < from /\ f[i].time \in Nat
  BY <1>2, <1>4
<1>7. \A i \in 1 .. Len(d) + 1 : e[i].time < till /\ e[i].time \in Nat
  BY <1>1, <1>3, <1>4, <1>5, <1>6
<1>8. Sorted(f)
  <2> SUFFICES ASSUME NEW i \in 1 .. Len(f), NEW k \in 1 .. Len(f), i < k
               PROVE  \/ f[i].time < f[k].time
                      \/ f[i].time = Infinity /\ f[k].time = Infinity
    BY DEF Sorted
  <2>1. CASE k = Len(d) + 1
    BY <1>1, <1>3, <1>4, <1>6, <2>1
  <2>2. CASE k # Len(d) + 1
    <3>1. i \in 1 .. Len(d) /\ k \in 1 .. Len(d)
      BY <1>1, <1>4, <2>2
    <3>2. d[i].time < d[k].time \/ (d[i].time = Infinity /\ d[k].time = Infinity)
      BY <1>1, <3>1 DEF Sorted
    <3> QED
      BY <1>4, <3>1, <3>2
  <2> QED
    BY <2>1, <2>2
<1>9. Sorted(e)
  <2> SUFFICES ASSUME NEW i \in 1 .. Len(e), NEW k \in 1 .. Len(e), i < k
               PROVE  \/ e[i].time < e[k].time
                      \/ e[i].time = Infinity /\ e[k].time = Infinity
    BY DEF Sorted
  <2>1. CASE k = Len(d) + 2
    BY <1>1, <1>3, <1>5, <1>7, <2>1
  <2>2. CASE k # Len(d) + 2
    <3>1. i \in 1 .. Len(d) + 1 /\ k \in 1 .. Len(d) + 1 /\ i \in 1 .. Len(f) /\ k \in 1 .. Len(f)
      BY <1>1, <1>4, <1>5, <2>2
    <3>2. f[i].time < f[k].time \/ (f[i].time = Infinity /\ f[k].time = Infinity)
      BY <1>8, <3>1 DEF Sorted
    <3> QED
      BY <1>5, <3>1, <3>2
  <2> QED
    BY <2>1, <2>2
<1>10. LastAmount(e) = 0
  <2>1. LastAmount(e) = Amount(e, Len(e))
    BY <1>5, LastAmountIs
  <2> QED
    BY <1>1, <1>3, <1>5, <2>1 DEF Amount
<1>11. ASSUME NEW t \in Nat, t < Infinity
       PROVE  At(e, t) = IF from <= t /\ t < till THEN x ELSE At(d, t)
  <2>1. At(f, t) = IF from <= t THEN x ELSE At(d, t)
    <3>1. Sorted(Append(d, a))
      BY <1>8 DEF f
    <3> QED
      BY <1>1, <1>3, <1>11, <3>1, AtAppend DEF f
  <2>2. At(e, t) = IF till <= t THEN 0 ELSE At(f, t)
    <3>1. Sorted(Append(f, b))
      BY <1>9 DEF e
    <3> QED
      BY <1>3, <1>4, <1>11, <3>1, AtAppend DEF e
  <2>3. from <= t => At(d, t) = 0
    <3> SUFFICES ASSUME from <= t PROVE At(d, t) = 0
      OBVIOUS
    <3>1. \A i \in 1 .. Len(d) : d[i].time <= t
      BY <1>2
    <3> QED
      BY <1>1, <1>11, <3>1, AtTheEnd
  <2> QED
    BY <2>1, <2>2, <2>3
<1> QED
  BY <1>5, <1>9, <1>10, <1>11 DEF Diagram, TwoMore, e, f, a, b

\* Nothing is split off an empty diagram.
LEMMA PartsOfNothing ==
  ASSUME NEW d \in Seq(Steps), Len(d) = 0, NEW t \in Nat
  PROVE  From(d, t) = <<>> /\ ~StepsAt(d, t)
<1>1. First(d, t) \in 1 .. Len(d) + 1
  BY FirstIs
<1>2. From(d, t) \in Seq(Steps) /\ Len(From(d, t)) = Len(d) - First(d, t) + 1
  BY PartsAre
<1>3. From(d, t) = <<>>
  BY <1>1, <1>2
<1> QED
  BY <1>3 DEF StepsAt

\* A time is closed after all steps.
LEMMA SetAfter ==
  ASSUME NEW d \in Seq(Steps), NEW from \in Nat, NEW till \in Nat, NEW x \in Nat,
         \A i \in 1 .. Len(d) : d[i].time < from
  PROVE  SetUtilization(d, from, till, x) = TwoMore(d, from, till, x)
<1>1. First(d, from) = Len(d) + 1 /\ Len(d) \in Nat
  <2>1. /\ First(d, from) \in 1 .. Len(d) + 1 /\ Len(d) \in Nat
        /\ First(d, from) <= Len(d) => from <= d[First(d, from)].time
    BY FirstIs
  <2>2. \A i \in 1 .. Len(d) : d[i].time \in Nat
    BY StepIs
  <2> QED
    BY <2>1, <2>2
<1>2. Before(d, from) = d
  BY <1>1 DEF Before
<1>3. From(d, from) = <<>> /\ ~StepsAt(d, from)
  <2>1. From(d, from) \in Seq(Steps) /\ Len(From(d, from)) = Len(d) - First(d, from) + 1
    BY PartsAre
  <2>2. From(d, from) = <<>>
    BY <1>1, <2>1
  <2> QED
    BY <2>2 DEF StepsAt
<1> DEFINE set == From(d, from)
<1>4. set \in Seq(Steps) /\ Len(set) = 0
  BY <1>3
<1>5. From(set, till) = <<>>
  <2> HIDE DEF set
  <2> QED
    BY <1>4, PartsOfNothing
<1>6. SetUtilization(d, from, till, x)
        = d \o <<[time |-> from, amount |-> x]>> \o <<[time |-> till, amount |-> 0]>> \o <<>>
  BY <1>2, <1>3, <1>5 DEF SetUtilization
<1>7. \A a, b : d \o <<a>> \o <<b>> \o <<>> = Append(Append(d, a), b)
  OBVIOUS
<1> QED
  BY <1>6, <1>7 DEF TwoMore

\* A time is closed that follows a closed one: the step just set is found to be
\* the end of the interval before it, and only its end is moved.
LEMMA SetNext ==
  ASSUME NEW d \in Seq(Steps), NEW since \in Nat, NEW from \in Nat, NEW till \in Nat,
         NEW x \in Nat, NEW y \in Nat, since < from, from < till, till < Infinity,
         \A i \in 1 .. Len(d) : d[i].time < since
  PROVE  SetUtilization(TwoMore(d, since, from, y), from, till, x)
           = TwoMore(d, since, till, y)
<1> DEFINE a == [time |-> since, amount |-> y]
           b == [time |-> from, amount |-> 0]
           f == Append(d, a)
           e == Append(f, b)
           n == Len(d)
<1>1. /\ Infinity \in Nat /\ n \in Nat /\ \A i \in 1 .. n : d[i].time \in Nat
  BY StepIs, TimesAssumption
<1>2. a \in Steps /\ b \in Steps /\ a.time = since /\ b.time = from /\ b.amount = 0
  BY <1>1 DEF Steps
<1> HIDE DEF a, b
<1>3. f \in Seq(Steps) /\ Len(f) = n + 1 /\ f[n + 1] = a /\ \A i \in 1 .. n : f[i] = d[i]
  BY <1>1, <1>2
<1>f. \A i \in 1 .. n + 1 : f[i].time < from
  <2> SUFFICES ASSUME NEW i \in 1 .. n + 1 PROVE f[i].time < from
    OBVIOUS
  <2>1. i = n + 1 \/ i \in 1 .. n
    BY <1>1
  <2>2. i \in 1 .. n => f[i].time < since /\ f[i].time \in Nat
    BY <1>1, <1>3
  <2> HIDE DEF f
  <2> QED
    BY <1>2, <1>3, <2>1, <2>2
<1> HIDE DEF f, n
<1>4. /\ e \in Seq(Steps) /\ Len(e) = n + 2 /\ e[n + 2] = b
      /\ \A i \in 1 .. n + 1 : e[i] = f[i]
  BY <1>1, <1>2, <1>3
<1>e. SubSeq(e, 1, n + 1) = f
  BY <1>1, <1>2, <1>3
<1> HIDE DEF e
<1>5. First(e, from) = n + 2
  <2>1. /\ First(e, from) \in 1 .. Len(e) + 1
        /\ \A i \in 1 .. Len(e) : i < First(e, from) => e[i].time < from
        /\ First(e, from) <= Len(e) => from <= e[First(e, from)].time
    BY <1>4, FirstIs
  <2>2. \A i \in 1 .. n + 2 : e[i].time \in Nat
    BY <1>4, StepIs
  <2>3. \A i \in 1 .. n + 1 : e[i].time < from
    BY <1>4, <1>f
  <2>4. n + 2 \in 1 .. n + 2 /\ e[n + 2].time = from
    BY <1>1, <1>2, <1>4
  <2>5. ~(n + 2 < First(e, from))
    BY <1>4, <2>1, <2>4
  <2>6. ~(First(e, from) <= n + 1)
    BY <1>1, <1>4, <2>1, <2>2, <2>3
  <2> QED
    BY <1>1, <1>4, <2>1, <2>5, <2>6
<1>6. Before(e, from) = f
  BY <1>1, <1>5, <1>e DEF Before
<1> DEFINE rest == From(e, from)
<1>7. rest \in Seq(Steps) /\ Len(rest) = 1 /\ rest[1] = b
  <2>1. /\ From(e, from) \in Seq(Steps)
        /\ Len(From(e, from)) = Len(e) - First(e, from) + 1
        /\ \A i \in 1 .. Len(From(e, from)) :
             From(e, from)[i] = e[First(e, from) + i - 1]
    BY <1>4, PartsAre
  <2>2. Len(rest) = 1
    BY <1>1, <1>4, <1>5, <2>1
  <2>3. 1 \in 1 .. Len(From(e, from))
    BY <2>2
  <2>4. From(e, from)[1] = e[First(e, from) + 1 - 1]
    BY <2>1, <2>3
  <2>5. First(e, from) + 1 - 1 = n + 2
    BY <1>1, <1>5
  <2> QED
    BY <1>4, <2>1, <2>2, <2>4, <2>5
<1>8. StepsAt(e, from)
  <2> HIDE DEF rest
  <2>0. rest = <<b>>
    BY <1>7
  <2>1. rest # <<>> /\ Head(rest) = b
    BY <2>0
  <2> QED
    BY <1>2, <2>1 DEF StepsAt, rest
<1> DEFINE set == [rest EXCEPT ![1].amount = x]
<1>9. set \in Seq(Steps) /\ Len(set) = 1 /\ set[1].time = from
  <2> HIDE DEF rest
  <2> DEFINE r == [b EXCEPT !.amount = x]
  <2>1. r \in Steps /\ r.time = from
    BY <1>2 DEF Steps
  <2>2. set = <<r>>
    <3>1. rest = <<b>>
      BY <1>7
    <3> QED
      BY <3>1
  <2> HIDE DEF r, set
  <2> QED
    BY <2>1, <2>2
<1> HIDE DEF set
<1>10. First(set, till) = 2
  <2>1. /\ First(set, till) \in 1 .. Len(set) + 1
        /\ First(set, till) <= Len(set) => till <= set[First(set, till)].time
    BY <1>9, FirstIs
  <2> QED
    BY <1>9, <2>1
<1>11. From(set, till) = <<>>
  <2>1. /\ From(set, till) \in Seq(Steps)
        /\ Len(From(set, till)) = Len(set) - First(set, till) + 1
    BY <1>9, PartsAre
  <2> QED
    BY <1>9, <1>10, <2>1
<1>12. SetUtilization(e, from, till, x)
         = f \o <<>> \o <<[time |-> till, amount |-> 0]>> \o <<>>
  BY <1>6, <1>8, <1>11 DEF SetUtilization, set
<1>13. f \o <<>> \o <<[time |-> till, amount |-> 0]>> \o <<>>
         = Append(f, [time |-> till, amount |-> 0])
  BY <1>3
<1> QED
  BY <1>12, <1>13 DEF TwoMore, e, f, a, b

\* What a calendar adds to a diagram: the whole of the queue is taken when it is
\* closed.
IsClosed(e, d, times, x) ==
  /\ Diagram(e)
  /\ \A t \in Nat : t < Infinity =>
       At(e, t) = IF \E c \in times : c.from <= t /\ t < c.till THEN x ELSE At(d, t)

\* Closed times begin and end at some time, and not before now.
LEMMA ClosedTimesAre ==
  ASSUME NEW calendar \in Calendars, NEW c \in ClosedTimes(calendar)
  PROVE  c.from \in Nat /\ c.till \in Nat /\ Now <= c.from
<1> DEFINE n == Len(calendar)
           S == [full : BOOLEAN, till : Nat]
<1>0. /\ calendar \in Seq(S) /\ n <= 2
      /\ n = 2 => Now < calendar[1].till /\ calendar[1].till < CalendarEnd
  BY CalendarsAssumption
<1>1. DOMAIN calendar = 1 .. n /\ n \in Nat /\ \A i \in 1 .. n : calendar[i] \in S
  <2> HIDE DEF S
  <2> QED
    BY <1>0, ElementOfSeq
<1>2. PICK i \in 1 .. n : c = [from |-> Since(calendar, i), till |-> Till(calendar[i])]
  <2> HIDE DEF n
  <2> QED
    BY <1>1 DEF ClosedTimes
<1>3. \A k \in 1 .. n : calendar[k].till \in Nat
  BY <1>1
<1>4. i = 1 \/ (i = 2 /\ n = 2)
  <2> HIDE DEF n
  <2> QED
    BY <1>0, <1>1
<1>5. Now \in Nat /\ CalendarEnd \in Nat
  BY TimesAssumption
<1>6. Since(calendar, i) \in Nat /\ Now <= Since(calendar, i)
  <2> HIDE DEF n
  <2> QED
    BY <1>0, <1>3, <1>4, <1>5 DEF Since
<1>7. Till(calendar[i]) \in Nat
  <2> HIDE DEF n
  <2> QED
    BY <1>3, <1>5 DEF Till
<1> QED
  BY <1>2, <1>6, <1>7

\* add_calendar_to_schedule enters the closed times of a queue, if its jobs end
\* before them.
LEMMA CalendarIs ==
  ASSUME NEW q, Diagram(diagram[q]), Total[q] \in Nat, NEW calendar \in Calendars,
         \A c \in ClosedTimes(calendar), i \in 1 .. Len(diagram[q]) :
           diagram[q][i].time < c.from
  PROVE  /\ IsClosed(AddCalendar(q, calendar), diagram[q], ClosedTimes(calendar), Total[q])
         /\ \A c \in ClosedTimes(calendar) : /\ c.from \in Nat /\ c.till \in Nat
                                              /\ Now <= c.from
<1> DEFINE d == diagram[q]
           n == Len(calendar)
           A(g, i) == IF i = 0 THEN d
                      ELSE IF ~calendar[i].full THEN g[i-1]
                      ELSE SetUtilization(g[i-1], Since(calendar, i), Till(calendar[i]),
                                          Total[q])
<1>1. /\ calendar \in Seq([full : BOOLEAN, till : Nat]) /\ n \in Nat /\ n <= 2
      /\ n > 0 => calendar[n].till = 0
      /\ n = 2 => Now < calendar[1].till /\ calendar[1].till < CalendarEnd
      /\ \A i \in 1 .. n : calendar[i] \in [full : BOOLEAN, till : Nat]
  <2>1. /\ calendar \in Seq([full : BOOLEAN, till : Nat]) /\ Len(calendar) <= 2
        /\ Len(calendar) > 0 => calendar[Len(calendar)].till = 0
        /\ Len(calendar) = 2 => Now < calendar[1].till /\ calendar[1].till < CalendarEnd
    BY CalendarsAssumption
  <2> DEFINE S == [full : BOOLEAN, till : Nat]
  <2>a. calendar \in Seq(S)
    BY <2>1
  <2>2. /\ Len(calendar) \in Nat
        /\ \A i \in 1 .. Len(calendar) : calendar[i] \in S
    <3> HIDE DEF S
    <3> QED
      BY <2>a, ElementOfSeq
  <2> QED
    BY <2>1, <2>2
<1>2. /\ Now \in Nat /\ Now < CalendarEnd /\ CalendarEnd \in Nat /\ CalendarEnd < Infinity
      /\ Infinity \in Nat
  BY TimesAssumption
<1>3. PICK g : /\ g[0] = d
               /\ 1 <= n => g[1] = A(g, 1)
               /\ 2 <= n => g[2] = A(g, 2)
               /\ AddCalendar(q, calendar) = g[n]
  <2> DEFINE g1 == A([i \in {0} |-> d], 1)
             g2 == A([i \in {0, 1} |-> IF i = 0 THEN d ELSE g1], 2)
             h == [i \in 0 .. n |-> IF i = 0 THEN d ELSE IF i = 1 THEN g1 ELSE g2]
  <2>1. \E g : g = [i \in 0 .. n |-> A(g, i)]
    <3>1. \A i \in 0 .. n : h[i] = A(h, i)
      <4> SUFFICES ASSUME NEW i \in 0 .. n PROVE h[i] = A(h, i)
        OBVIOUS
      <4>1. i = 0 \/ i = 1 \/ i = 2
        BY <1>1
      <4>2. h[0] = d /\ (i = 1 => h[1] = g1) /\ (i = 2 => h[2] = g2 /\ h[1] = g1)
        <5> HIDE DEF g1, g2, d
        <5> QED
          BY <1>1
      <4> HIDE DEF h, d
      <4> QED
        BY <4>1, <4>2
    <3>2. h = [i \in 0 .. n |-> A(h, i)]
      <4>1. h = [i \in 0 .. n |-> h[i]]
        OBVIOUS
      <4> HIDE DEF h, A
      <4> QED
        BY <3>1, <4>1
    <3> HIDE DEF h, A
    <3> QED
      BY <3>2
  <2> DEFINE added[i \in 0 .. Len(calendar)] ==
        IF i = 0 THEN diagram[q]
        ELSE IF ~calendar[i].full THEN added[i-1]
        ELSE SetUtilization(added[i-1], Since(calendar, i), Till(calendar[i]), Total[q])
  <2>2. added = [i \in 0 .. n |-> A(added, i)]
    BY <2>1 DEF added
  <2>3. AddCalendar(q, calendar) = added[n]
    BY DEF AddCalendar
  <2> HIDE DEF added
  <2>4. \A i \in 0 .. n : added[i] = A(added, i)
    <3> HIDE DEF A
    <3> QED
      BY <2>2
  <2> QED
    BY <1>1, <2>3, <2>4
<1> DEFINE x == Total[q]
           C == ClosedTimes(calendar)
           e == AddCalendar(q, calendar)
<1>4. Diagram(d) /\ d \in Seq(Steps) /\ x \in Nat
  BY DEF Diagram
<1>5. \A c \in C, i \in 1 .. Len(d) : d[i].time < c.from
  OBVIOUS
<1>6. /\ \A c : c \in C <=> \E i \in 1 .. n : /\ calendar[i].full
                                            /\ c = [from |-> Since(calendar, i),
                                                    till |-> Till(calendar[i])]
      /\ 1 <= n => Since(calendar, 1) = Now
      /\ 2 <= n => Since(calendar, 2) = calendar[1].till
      /\ n > 0 => Till(calendar[n]) = CalendarEnd
      /\ n = 2 => Till(calendar[1]) = calendar[1].till
  <2>1. DOMAIN calendar = 1 .. n
    BY <1>1
  <2>2. \A c : c \in C <=> \E i \in 1 .. n : /\ calendar[i].full
                                            /\ c = [from |-> Since(calendar, i),
                                                    till |-> Till(calendar[i])]
    <3> HIDE DEF n, d, x, e, A
    <3> QED
      BY <2>1 DEF ClosedTimes
  <2>3. Since(calendar, 1) = Now /\ Since(calendar, 2) = calendar[1].till
    BY DEF Since
  <2>4. /\ n > 0 => Till(calendar[n]) = CalendarEnd
        /\ n = 2 => Till(calendar[1]) = calendar[1].till
    BY <1>1, <1>2 DEF Till
  <2> QED
    BY <2>2, <2>3, <2>4
<1> HIDE DEF d, x, C, e, A
<1>n. n \in Nat /\ n <= 2
  BY <1>1
<1> HIDE DEF n
<1>7. \A c \in C : c.from \in Nat /\ c.till \in Nat /\ Now <= c.from
  BY ClosedTimesAre DEF C
<1>8. ASSUME NEW F \in Nat, NEW L \in Nat, F < L, L < Infinity,
             \A c : c \in C <=> c = [from |-> F, till |-> L],
             e = SetUtilization(d, F, L, x)
      PROVE  IsClosed(e, d, C, x)
  <2> DEFINE c0 == [from |-> F, till |-> L]
  <2>1. c0 \in C /\ c0.from = F /\ c0.till = L /\ \A c \in C : c = c0
    BY <1>8
  <2> HIDE DEF c0
  <2>2. \A i \in 1 .. Len(d) : d[i].time < F
    BY <1>5, <2>1
  <2>3. SetUtilization(d, F, L, x) = TwoMore(d, F, L, x)
    BY <1>4, <2>2, SetAfter
  <2>4. /\ Diagram(TwoMore(d, F, L, x))
        /\ \A t \in Nat : t < Infinity =>
             At(TwoMore(d, F, L, x), t) = IF F <= t /\ t < L THEN x ELSE At(d, t)
    BY <1>4, <1>8, <2>2, TwoMoreIs
  <2>5. \A t \in Nat : F <= t /\ t < L <=> \E c \in C : c.from <= t /\ t < c.till
    BY <2>1
  <2>6. e = TwoMore(d, F, L, x)
    BY <1>8, <2>3
  <2> QED
    BY <2>4, <2>5, <2>6 DEF IsClosed
<1>9. IsClosed(e, d, C, x)
  <2>1. CASE n = 0
    <3>1. e = d /\ C = {}
      BY <1>3, <1>6, <2>1 DEF e
    <3> QED
      BY <1>4, <3>1 DEF IsClosed
  <2>2. CASE n = 1 /\ ~calendar[1].full
    <3>1. e = d /\ C = {}
      BY <1>3, <1>6, <2>2 DEF e, A
    <3> QED
      BY <1>4, <3>1 DEF IsClosed
  <2>3. CASE n = 1 /\ calendar[1].full
    <3>1. e = SetUtilization(d, Now, CalendarEnd, x)
      BY <1>3, <1>6, <2>3 DEF e, A, x
    <3>2. \A c : c \in C <=> c = [from |-> Now, till |-> CalendarEnd]
      BY <1>6, <2>3
    <3> QED
      BY <1>2, <1>8, <3>1, <3>2
  <2>4. CASE n = 2
    <3> DEFINE T1 == calendar[1].till
    <3>0. /\ T1 \in Nat /\ Now < T1 /\ T1 < CalendarEnd /\ T1 < Infinity
          /\ Since(calendar, 1) = Now /\ Since(calendar, 2) = T1
          /\ Till(calendar[1]) = T1 /\ Till(calendar[2]) = CalendarEnd
      BY <1>1, <1>2, <1>6, <2>4
    <3> HIDE DEF T1
    <3>1. CASE ~calendar[1].full /\ ~calendar[2].full
      <4>1. e = d /\ C = {}
        BY <1>3, <1>6, <2>4, <3>1 DEF e, A
      <4> QED
        BY <1>4, <4>1 DEF IsClosed
    <3>2. CASE calendar[1].full /\ ~calendar[2].full
      <4>1. e = SetUtilization(d, Now, T1, x)
        BY <1>3, <3>0, <2>4, <3>2 DEF e, A, x
      <4>2. \A c : c \in C <=> c = [from |-> Now, till |-> T1]
        BY <1>6, <2>4, <3>0, <3>2
      <4> QED
        BY <1>2, <1>8, <3>0, <4>1, <4>2
    <3>3. CASE ~calendar[1].full /\ calendar[2].full
      <4>1. e = SetUtilization(d, T1, CalendarEnd, x)
        BY <1>3, <3>0, <2>4, <3>3 DEF e, A, x
      <4>2. \A c : c \in C <=> c = [from |-> T1, till |-> CalendarEnd]
        BY <1>6, <2>4, <3>0, <3>3
      <4> QED
        BY <1>2, <1>8, <3>0, <4>1, <4>2
    <3>4. CASE calendar[1].full /\ calendar[2].full
      <4>1. e = SetUtilization(SetUtilization(d, Now, T1, x), T1, CalendarEnd, x)
        BY <1>3, <3>0, <2>4, <3>4 DEF e, A, x
      <4>2. \A c : c \in C <=> \/ c = [from |-> Now, till |-> T1]
                               \/ c = [from |-> T1, till |-> CalendarEnd]
        <5>1. \A i : i \in 1 .. n <=> i = 1 \/ i = 2
          BY <2>4
        <5> QED
          BY <1>6, <3>0, <3>4, <5>1
      <4> DEFINE c1 == [from |-> Now, till |-> T1]
                 c2 == [from |-> T1, till |-> CalendarEnd]
      <4>a. /\ c1 \in C /\ c1.from = Now /\ c1.till = T1
            /\ c2 \in C /\ c2.from = T1 /\ c2.till = CalendarEnd
            /\ \A c \in C : c = c1 \/ c = c2
        BY <4>2
      <4> HIDE DEF c1, c2
      <4>3. \A i \in 1 .. Len(d) : d[i].time < Now
        BY <1>5, <4>a
      <4>4. SetUtilization(d, Now, T1, x) = TwoMore(d, Now, T1, x)
        BY <1>2, <1>4, <3>0, <4>3, SetAfter
      <4>c. /\ Now \in Nat /\ T1 \in Nat /\ CalendarEnd \in Nat /\ x \in Nat
            /\ Now < T1 /\ T1 < CalendarEnd /\ CalendarEnd < Infinity
        BY <1>2, <1>4, <3>0
      <4>d. d \in Seq(Steps)
        BY <1>4
      <4>b. SetUtilization(TwoMore(d, Now, T1, x), T1, CalendarEnd, x)
              = TwoMore(d, Now, CalendarEnd, x)
        BY <4>3, <4>c, <4>d, SetNext
      <4>5. e = TwoMore(d, Now, CalendarEnd, x)
        BY <4>1, <4>4, <4>b
      <4>6. /\ Diagram(e)
            /\ \A t \in Nat : t < Infinity =>
                 At(e, t) = IF Now <= t /\ t < CalendarEnd THEN x ELSE At(d, t)
        BY <1>2, <1>4, <4>3, <4>5, TwoMoreIs
      <4>7. ASSUME NEW t \in Nat
            PROVE  (Now <= t /\ t < CalendarEnd)
                     <=> \E c \in C : c.from <= t /\ t < c.till
        BY <1>2, <3>0, <4>a
      <4> QED
        BY <4>6, <4>7 DEF IsClosed
    <3>5. calendar[1].full \in BOOLEAN /\ calendar[2].full \in BOOLEAN
      BY <1>1, <2>4
    <3> QED
      BY <3>1, <3>2, <3>3, <3>4, <3>5
  <2>5. n = 0 \/ n = 1 \/ n = 2
    BY <1>n
  <2> QED
    BY <2>1, <2>2, <2>3, <2>4, <2>5
<1> QED
  BY <1>7, <1>9 DEF d, x, C, e

-----------------------------------------------------------------------------
(* What has been entered                                                    *)

Plans == [how : {"running", "started", "reserved"}, start : 0 .. Infinity,
          end : 0 .. Infinity, demand : [Resources -> Nat]]

\* Planned, Closed and Taken of the specification, of given jobs and closed times.
Covers(b, t) == b.start <= t /\ t < b.end
Parts(plan, r, t) ==
  [i \in DOMAIN plan |-> IF plan[i].start <= t /\ t < plan[i].end
                         THEN plan[i].demand[r] ELSE 0]
PlannedIn(plan, r, t) == SumOf(Parts(plan, r, t))
ClosedIn(times, r, t) == \E c \in times : c.queue = r /\ c.from <= t /\ t < c.till
TakenIn(plan, times, r, t) ==
  IF ClosedIn(times, r, t) THEN Total[r] ELSE PlannedIn(plan, r, t)

\* The diagrams are diagrams, and what has been entered is in them.
Entries(plan, times) ==
  /\ plan \in Seq(Plans) /\ \A i \in 1 .. Len(plan) : Period(plan[i].start, plan[i].end)
  /\ \A c \in times : /\ c.queue \in Queues /\ c.from \in Nat /\ c.till \in Nat
                      /\ Now <= c.from
Told(diagrams, plan, times) ==
  /\ diagrams = [r \in Resources |-> diagrams[r]]
  /\ \A r \in Resources :
       /\ Diagram(diagrams[r])
       /\ \A t \in Nat : t < Infinity =>
            At(diagrams[r], t) = TakenIn(plan, times, r, t)

\* What is given away at one time is there.
Room(plan, times, r, t) ==
  IF ClosedIn(times, r, t)
  THEN \A i \in 1 .. Len(plan) :
         plan[i].how # "running" /\ Covers(plan[i], t) => plan[i].demand[r] = 0
  ELSE PlannedIn(plan, r, t) <= Total[r]
NotTooMuch(plan, times) ==
  \A r \in Resources, t \in Nat : Now <= t /\ t < Infinity => Room(plan, times, r, t)

\* What the scheduler keeps while it enters jobs.
Consistent(diagrams, plan, times) ==
  Entries(plan, times) /\ Told(diagrams, plan, times) /\ NotTooMuch(plan, times)

\* The parts of what is planned are numbers.
LEMMA PartsIn ==
  ASSUME NEW plan \in Seq(Plans), NEW r \in Resources, NEW t \in Nat
  PROVE  /\ Parts(plan, r, t) \in Seq(Nat) /\ Len(Parts(plan, r, t)) = Len(plan)
         /\ \A i \in 1 .. Len(plan) :
              Parts(plan, r, t)[i] = IF Covers(plan[i], t) THEN plan[i].demand[r] ELSE 0
<1>1. Len(plan) \in Nat /\ DOMAIN plan = 1 .. Len(plan)
  OBVIOUS
<1>2. \A i \in 1 .. Len(plan) : plan[i] \in Plans
  BY ElementOfSeq
<1>3. \A i \in 1 .. Len(plan) : plan[i].demand[r] \in Nat
  BY <1>2 DEF Plans
<1> DEFINE n == Len(plan)
           x(i) == IF Covers(plan[i], t) THEN plan[i].demand[r] ELSE 0
<1>4. \A i \in 1 .. n : x(i) \in Nat
  BY <1>3
<1>5. Parts(plan, r, t) = [i \in 1 .. n |-> x(i)]
  BY <1>1 DEF Parts, Covers
<1> HIDE DEF x, n
<1>6. [i \in 1 .. n |-> x(i)] \in Seq(Nat) /\ Len([i \in 1 .. n |-> x(i)]) = n
  BY <1>1, <1>4 DEF n
<1>7. \A i \in 1 .. n : [j \in 1 .. n |-> x(j)][i] = x(i)
  OBVIOUS
<1> QED
  BY <1>5, <1>6, <1>7 DEF x, n

\* What is planned is a number.
LEMMA PlannedNat ==
  ASSUME NEW plan \in Seq(Plans), NEW r \in Resources, NEW t \in Nat
  PROVE  PlannedIn(plan, r, t) \in Nat
BY PartsIn, SumNat DEF PlannedIn

\* What is planned with one job more.
LEMMA PlannedAppend ==
  ASSUME NEW plan \in Seq(Plans), NEW b \in Plans, NEW r \in Resources, NEW t \in Nat
  PROVE  PlannedIn(Append(plan, b), r, t)
           = PlannedIn(plan, r, t) + IF Covers(b, t) THEN b.demand[r] ELSE 0
<1> DEFINE after == Append(plan, b)
<1>1. /\ after \in Seq(Plans) /\ Len(after) = Len(plan) + 1 /\ Len(plan) \in Nat
      /\ after[Len(plan) + 1] = b /\ \A i \in 1 .. Len(plan) : after[i] = plan[i]
  OBVIOUS
<1> HIDE DEF after
<1>2. /\ Parts(plan, r, t) \in Seq(Nat) /\ Len(Parts(plan, r, t)) = Len(plan)
      /\ \A i \in 1 .. Len(plan) :
           Parts(plan, r, t)[i] = IF Covers(plan[i], t) THEN plan[i].demand[r] ELSE 0
  BY PartsIn
<1>3. /\ Parts(after, r, t) \in Seq(Nat) /\ Len(Parts(after, r, t)) = Len(after)
      /\ \A i \in 1 .. Len(after) :
           Parts(after, r, t)[i] = IF Covers(after[i], t) THEN after[i].demand[r] ELSE 0
  BY <1>1, PartsIn
<1>4. \A i \in 1 .. Len(plan) : Parts(after, r, t)[i] = Parts(plan, r, t)[i]
  <2> SUFFICES ASSUME NEW i \in 1 .. Len(plan)
               PROVE  Parts(after, r, t)[i] = Parts(plan, r, t)[i]
    OBVIOUS
  <2>1. i \in 1 .. Len(after) /\ after[i] = plan[i]
    BY <1>1
  <2>2. Parts(after, r, t)[i] = IF Covers(after[i], t) THEN after[i].demand[r] ELSE 0
    BY <1>3, <2>1
  <2>3. Parts(plan, r, t)[i] = IF Covers(plan[i], t) THEN plan[i].demand[r] ELSE 0
    BY <1>2
  <2> QED
    BY <2>1, <2>2, <2>3
<1>5. Parts(after, r, t)[Len(plan) + 1] = IF Covers(b, t) THEN b.demand[r] ELSE 0
  <2>1. Len(plan) + 1 \in 1 .. Len(after)
    BY <1>1
  <2> QED
    BY <1>1, <1>3, <2>1
<1>6. SumOf(Parts(after, r, t)) = SumOf(Parts(plan, r, t)) + Parts(after, r, t)[Len(plan) + 1]
  <2>1. Len(Parts(after, r, t)) = Len(Parts(plan, r, t)) + 1
    BY <1>1, <1>2, <1>3
  <2> DEFINE u == Parts(plan, r, t)
             v == Parts(after, r, t)
  <2>2. u \in Seq(Nat) /\ v \in Seq(Nat) /\ Len(v) = Len(u) + 1
        /\ \A i \in 1 .. Len(u) : v[i] = u[i]
    BY <1>2, <1>3, <1>4, <2>1
  <2>3. Len(v) = Len(plan) + 1
    BY <1>1, <1>3
  <2> HIDE DEF u, v
  <2>4. SumOf(v) = SumOf(u) + v[Len(v)]
    BY <2>2, SumAppend
  <2> QED
    BY <2>3, <2>4 DEF u, v
<1> QED
  BY <1>5, <1>6 DEF PlannedIn, after

\* A job may be entered for which there is room.
LEMMA EnterKeeps ==
  ASSUME NEW diagrams, NEW plan, NEW times, Consistent(diagrams, plan, times),
         NEW b \in Plans, Period(b.start, b.end),
         \A r \in Resources, t \in Nat :
           Now <= t /\ t < Infinity /\ Covers(b, t) =>
             IF ClosedIn(times, r, t) THEN b.demand[r] = 0
             ELSE PlannedIn(plan, r, t) + b.demand[r] <= Total[r],
         NEW after,
         after = [r \in Resources |->
                    IF b.demand[r] = 0 THEN diagrams[r]
                    ELSE UtilizationAdd(diagrams[r], b.start, b.end, b.demand[r])]
  PROVE  Consistent(after, Append(plan, b), times)
<1> DEFINE later == Append(plan, b)
<1>1. Entries(plan, times) /\ Told(diagrams, plan, times) /\ NotTooMuch(plan, times)
  BY DEF Consistent
<1>2. plan \in Seq(Plans) /\ \A i \in 1 .. Len(plan) : Period(plan[i].start, plan[i].end)
  BY <1>1 DEF Entries
<1>3. \A r \in Resources : b.demand[r] \in Nat
  BY DEF Plans
<1>4. /\ later \in Seq(Plans) /\ Len(later) = Len(plan) + 1 /\ Len(plan) \in Nat
      /\ later[Len(plan) + 1] = b /\ \A i \in 1 .. Len(plan) : later[i] = plan[i]
  BY <1>2
<1>5. \A r \in Resources, t \in Nat :
        PlannedIn(later, r, t) = PlannedIn(plan, r, t) + (IF Covers(b, t) THEN b.demand[r] ELSE 0)
        /\ PlannedIn(plan, r, t) \in Nat
  BY <1>2, PlannedAppend, PlannedNat
<1> HIDE DEF later
<1>6. Entries(later, times)
  <2> SUFFICES ASSUME NEW i \in 1 .. Len(later) PROVE Period(later[i].start, later[i].end)
    BY <1>1, <1>4 DEF Entries
  <2>1. i = Len(plan) + 1 \/ i \in 1 .. Len(plan)
    BY <1>4
  <2> QED
    BY <1>2, <1>4, <2>1
<1>7. Told(after, later, times)
  <2> SUFFICES ASSUME NEW r \in Resources
               PROVE  /\ Diagram(after[r])
                      /\ \A t \in Nat : t < Infinity =>
                           At(after[r], t) = TakenIn(later, times, r, t)
    BY DEF Told
  <2>1. /\ Diagram(diagrams[r])
        /\ \A t \in Nat : t < Infinity => At(diagrams[r], t) = TakenIn(plan, times, r, t)
    BY <1>1 DEF Told
  <2>2. CASE b.demand[r] = 0
    <3>1. after[r] = diagrams[r]
      BY <2>2
    <3>2. \A t \in Nat : PlannedIn(later, r, t) = PlannedIn(plan, r, t)
      BY <1>5, <2>2
    <3> QED
      BY <2>1, <3>1, <3>2 DEF TakenIn
  <2>3. CASE b.demand[r] # 0
    <3> DEFINE x == b.demand[r]
    <3>1. after[r] = UtilizationAdd(diagrams[r], b.start, b.end, x)
      BY <2>3
    <3>2. IsRaised(after[r], diagrams[r], b.start, b.end, x)
      BY <1>3, <2>1, <3>1, AddIs
    <3>3. /\ Diagram(after[r])
          /\ \A t \in Nat : t < Infinity =>
               At(after[r], t) = At(diagrams[r], t) + IF Covers(b, t) THEN x ELSE 0
      BY <3>2 DEF IsRaised, Covers
    <3>4. ASSUME NEW t \in Nat, t < Infinity
          PROVE  At(after[r], t) = TakenIn(later, times, r, t)
      <4>1. At(after[r], t) = TakenIn(plan, times, r, t) + (IF Covers(b, t) THEN x ELSE 0)
        BY <2>1, <3>3, <3>4
      <4>2. CASE ClosedIn(times, r, t)
        <5>1. ~Covers(b, t)
          <6>1. PICK c \in times : c.from <= t /\ c.from \in Nat /\ Now <= c.from
            BY <1>1, <4>2 DEF ClosedIn, Entries
          <6>2. Now <= t
            BY <6>1, TimesAssumption
          <6> QED
            BY <2>3, <3>4, <4>2, <6>2
        <5>2. Total[r] \in Nat
          BY ResourcesAssumption
        <5> QED
          BY <4>1, <4>2, <5>1, <5>2 DEF TakenIn
      <4>3. CASE ~ClosedIn(times, r, t)
        BY <1>5, <4>1, <4>3 DEF TakenIn
      <4> QED
        BY <4>2, <4>3
    <3> QED
      BY <3>3, <3>4
  <2> QED
    BY <2>2, <2>3
<1>8. NotTooMuch(later, times)
  <2> SUFFICES ASSUME NEW r \in Resources, NEW t \in Nat, Now <= t, t < Infinity
               PROVE  Room(later, times, r, t)
    BY DEF NotTooMuch
  <2>1. Room(plan, times, r, t)
    BY <1>1 DEF NotTooMuch
  <2>2. CASE ClosedIn(times, r, t)
    <3> SUFFICES ASSUME NEW i \in 1 .. Len(later), later[i].how # "running",
                        Covers(later[i], t)
                 PROVE  later[i].demand[r] = 0
      BY <2>2 DEF Room
    <3>1. i = Len(plan) + 1 \/ i \in 1 .. Len(plan)
      BY <1>4
    <3>2. CASE i = Len(plan) + 1
      BY <1>4, <2>2, <3>2
    <3>3. CASE i \in 1 .. Len(plan)
      BY <1>4, <2>1, <2>2, <3>3 DEF Room
    <3> QED
      BY <3>1, <3>2, <3>3
  <2>3. CASE ~ClosedIn(times, r, t)
    <3>1. PlannedIn(plan, r, t) <= Total[r]
      BY <2>1, <2>3 DEF Room
    <3>2. PlannedIn(later, r, t) <= Total[r]
      <4>1. CASE Covers(b, t)
        <5>1. PlannedIn(plan, r, t) + b.demand[r] <= Total[r]
          BY <2>3, <4>1
        <5> QED
          BY <1>5, <4>1, <5>1
      <4>2. CASE ~Covers(b, t)
        BY <1>5, <3>1, <4>2
      <4> QED
        BY <4>1, <4>2
    <3> QED
      BY <2>3, <3>2 DEF Room
  <2> QED
    BY <2>2, <2>3
<1> QED
  BY <1>6, <1>7, <1>8 DEF Consistent, later

-----------------------------------------------------------------------------
(* Room for a job                                                           *)

\* As much as a job takes is free at all its times, from now on.
Affordable(diagrams, demand, start, end) ==
  \A r \in Resources, t \in Nat :
    Now <= t /\ t < Infinity /\ start <= t /\ t < end =>
      demand[r] = 0 \/ demand[r] + At(diagrams[r], t) <= Total[r]

\* A job may be entered if what it takes is free.
LEMMA EnterAffordable ==
  ASSUME NEW diagrams, NEW plan, NEW times, Consistent(diagrams, plan, times),
         NEW b \in Plans, Period(b.start, b.end),
         Affordable(diagrams, b.demand, b.start, b.end),
         NEW after,
         after = [r \in Resources |->
                    IF b.demand[r] = 0 THEN diagrams[r]
                    ELSE UtilizationAdd(diagrams[r], b.start, b.end, b.demand[r])]
  PROVE  Consistent(after, Append(plan, b), times)
<1>1. Entries(plan, times) /\ Told(diagrams, plan, times) /\ NotTooMuch(plan, times)
  BY DEF Consistent
<1>2. \A r \in Resources : b.demand[r] \in Nat /\ Total[r] \in Nat
  BY ResourcesAssumption DEF Plans
<1>3. ASSUME NEW r \in Resources, NEW t \in Nat, Now <= t, t < Infinity, Covers(b, t)
      PROVE  IF ClosedIn(times, r, t) THEN b.demand[r] = 0
             ELSE PlannedIn(plan, r, t) + b.demand[r] <= Total[r]
  <2>1. b.demand[r] = 0 \/ b.demand[r] + At(diagrams[r], t) <= Total[r]
    BY <1>3 DEF Affordable, Covers
  <2>2. At(diagrams[r], t) = TakenIn(plan, times, r, t)
    BY <1>1, <1>3 DEF Told
  <2>3. Room(plan, times, r, t)
    BY <1>1, <1>3 DEF NotTooMuch
  <2>4. PlannedIn(plan, r, t) \in Nat
    BY <1>1, PlannedNat DEF Entries
  <2>5. CASE ClosedIn(times, r, t)
    <3>1. At(diagrams[r], t) = Total[r]
      BY <2>2, <2>5 DEF TakenIn
    <3> QED
      BY <1>2, <2>1, <2>5, <3>1
  <2>6. CASE ~ClosedIn(times, r, t)
    <3>1. At(diagrams[r], t) = PlannedIn(plan, r, t) /\ PlannedIn(plan, r, t) <= Total[r]
      BY <2>2, <2>3, <2>6 DEF TakenIn, Room
    <3> QED
      BY <1>2, <2>1, <2>4, <2>6, <3>1
  <2> QED
    BY <2>5, <2>6
<1> QED
  BY <1>3, EnterKeeps

\* When a job ends that starts at some time.
LEMMA EndIs ==
  ASSUME NEW start \in 0 .. Infinity, NEW duration \in 1 .. Infinity
  PROVE  Period(start, EndTime(start, duration))
BY TimesAssumption DEF Period, EndTime

\* A job takes numbers of the resources.
LEMMA DemandIs ==
  ASSUME NEW req \in Requests, NEW slotsIn \in [Queues -> Nat]
  PROVE  Demand(req, slotsIn) \in [Resources -> Nat]
<1>1. req.slots \in Nat
  BY RequestsAssumption
<1> QED
  BY <1>1 DEF Demand

\* Beside the slots of queues there is enough for the time of a job.
Roomy(diagrams, req, start) ==
  start < Infinity =>
    \A r \in Resources : r \notin Queues /\ (r \in req.needs \/ (r = PE /\ req.parallel)) =>
      req.slots <= Left(r, UtilizationMax(diagrams[r], start, req.duration))

\* What is left of a resource can be taken.
LEMMA LeftIs ==
  ASSUME NEW r \in Resources, NEW used \in Nat, NEW x \in Nat, x <= Left(r, used),
         NEW a \in Nat, a <= used
  PROVE  x = 0 \/ x + a <= Total[r]
<1>1. Total[r] \in Nat
  BY ResourcesAssumption
<1> QED
  BY <1>1 DEF Left

\* A job with an allocation can be entered.
LEMMA AllocationAffordable ==
  ASSUME \A r \in Resources : Diagram(diagram[r]),
         NEW req \in Requests, NEW start \in 0 .. Infinity,
         NEW slotsIn \in Allocations(req, start), Roomy(diagram, req, start)
  PROVE  /\ slotsIn \in [Queues -> Nat]
         /\ Affordable(diagram, Demand(req, slotsIn), start, EndTime(start, req.duration))
<1>1. req.slots \in Nat /\ req.duration \in Nat
  BY RequestsAssumption, TimesAssumption
<1>2. slotsIn \in [Queues -> Nat]
  BY <1>1 DEF Allocations
<1>3. Demand(req, slotsIn) \in [Resources -> Nat]
  BY <1>2, DemandIs
<1>4. ASSUME NEW r \in Resources, NEW t \in Nat, t < Infinity, start <= t,
             t < EndTime(start, req.duration)
      PROVE  \/ Demand(req, slotsIn)[r] = 0
             \/ Demand(req, slotsIn)[r] + At(diagram[r], t) <= Total[r]
  <2>1. start \in Nat /\ start < Infinity
    BY <1>4, TimesAssumption
  <2> DEFINE u == UtilizationMax(diagram[r], start, req.duration)
             x == Demand(req, slotsIn)[r]
  <2>2. u \in Nat /\ At(diagram[r], t) <= u
    BY <1>1, <1>4, <2>1, MaxIs
  <2>3. At(diagram[r], t) \in Nat
    BY AtIs DEF Diagram
  <2>4. x = 0 \/ x <= Left(r, u)
    <3>1. CASE r \in Queues
      <4>1. slotsIn[r] <= FreeFrom(start, req.duration)[r]
        BY <3>1 DEF Allocations
      <4>2. FreeFrom(start, req.duration)[r] = Left(r, u)
        BY DEF FreeFrom
      <4>3. x = slotsIn[r]
        BY <3>1 DEF Demand
      <4> QED
        BY <4>1, <4>2, <4>3
    <3>2. CASE r \notin Queues
      <4>1. x # 0 => x = req.slots /\ (r \in req.needs \/ (r = PE /\ req.parallel))
        BY <3>2 DEF Demand
      <4>2. r \in req.needs \/ (r = PE /\ req.parallel) => req.slots <= Left(r, u)
        BY <2>1, <3>2 DEF Roomy
      <4> HIDE DEF x, u
      <4> QED
        BY <4>1, <4>2
    <3> QED
      BY <3>1, <3>2
  <2>5. x \in Nat
    BY <1>3
  <2> HIDE DEF x, u
  <2>6. x = 0 \/ x + At(diagram[r], t) <= Total[r]
    <3>1. Left(r, u) \in Nat
      BY <2>2, ResourcesAssumption DEF Left
    <3> QED
      BY <2>2, <2>3, <2>4, <2>5, LeftIs
  <2> QED
    BY <2>6 DEF x
<1> QED
  BY <1>2, <1>4 DEF Affordable

\* What the verdict on a parallel job says.
LEMMA ParallelRoomy ==
  ASSUME \A r \in Resources : Diagram(diagram[r]),
         NEW req \in Requests, NEW start \in 0 .. Infinity, NEW reserving,
         ParallelVerdict(req, start, reserving) = "ok"
  PROVE  Roomy(diagram, req, start)
<1> DEFINE free == FreeFrom(start, req.duration)
           lacking == {i \in DOMAIN Levels : ~Enough(Levels[i], req, free)}
<1>1. lacking = {}
  BY DEF ParallelVerdict
<1>2. DOMAIN Levels = {1, 2, 3} /\ Levels[1] = "pe" /\ Levels[2] = "global"
  BY DEF Levels
<1>3. Enough("pe", req, free) /\ Enough("global", req, free)
  BY <1>1, <1>2
<1>4. free[PE] >= req.slots /\ \A g \in req.needs : free[g] >= req.slots
  BY <1>3 DEF Enough
<1> SUFFICES ASSUME start < Infinity, NEW r \in Resources, r \notin Queues,
                    r \in req.needs \/ (r = PE /\ req.parallel)
             PROVE  req.slots <= Left(r, UtilizationMax(diagram[r], start, req.duration))
  BY DEF Roomy
<1>5. free[r] >= req.slots
  BY <1>4
<1>6. free[r] = Left(r, UtilizationMax(diagram[r], start, req.duration))
  BY DEF FreeFrom
<1>7. req.slots \in Nat /\ req.duration \in Nat /\ start \in Nat
  BY RequestsAssumption, TimesAssumption
<1>8. UtilizationMax(diagram[r], start, req.duration) \in Nat
  BY <1>7, MaxIs
<1>9. free[r] \in Nat
  <2> HIDE DEF free
  <2> QED
    BY <1>6, <1>8, ResourcesAssumption DEF Left
<1> HIDE DEF free
<1> QED
  BY <1>5, <1>6, <1>7, <1>9

\* What the verdict on a serial job says.
LEMMA SerialRoomy ==
  ASSUME \A r \in Resources : Diagram(diagram[r]),
         NEW req \in Requests, ~req.parallel, SerialVerdict(req) = "ok"
  PROVE  Roomy(diagram, req, Now)
<1> DEFINE free == FreeFrom(Now, req.duration)
           verdict(r) == IF free[r] > 0 THEN "ok"
                         ELSE IF FreeAtEnd[r] > 0 THEN "later" ELSE "never"
           lacking == {i \in DOMAIN Globals :
                         Globals[i] \in req.needs /\ verdict(Globals[i]) # "ok"}
<1>1. SerialVerdict(req) =
        IF lacking # {} THEN verdict(Globals[Min(lacking)])
        ELSE IF "ok" \in {verdict(q) : q \in Queues} THEN "ok"
        ELSE IF "later" \in {verdict(q) : q \in Queues} THEN "later" ELSE "never"
  BY DEF SerialVerdict
<1>2. lacking \in SUBSET Nat
  BY ResourcesAssumption
<1>3. lacking # {} => verdict(Globals[Min(lacking)]) # "ok"
  <2> HIDE DEF verdict
  <2>1. lacking # {} => Min(lacking) \in lacking
    <3> HIDE DEF lacking
    <3> QED
      BY <1>2, MinIsLeast
  <2> QED
    BY <2>1
<1>4. lacking = {}
  <2> HIDE DEF lacking, verdict
  <2> QED
    BY <1>1, <1>3
<1> SUFFICES ASSUME NEW r \in Resources, r \notin Queues,
                    r \in req.needs \/ (r = PE /\ req.parallel)
             PROVE  req.slots <= Left(r, UtilizationMax(diagram[r], Now, req.duration))
  BY DEF Roomy
<1>5. r \in req.needs /\ req.slots = 1 /\ req.duration \in Nat
  BY RequestsAssumption, TimesAssumption
<1>6. PICK i \in DOMAIN Globals : Globals[i] = r
  BY <1>5, RequestsAssumption DEF ToSet
<1>7. free[r] > 0
  <2>1. verdict(r) = "ok"
    BY <1>4, <1>5, <1>6
  <2> HIDE DEF free
  <2> QED
    BY <2>1
<1>8. free[r] = Left(r, UtilizationMax(diagram[r], Now, req.duration))
  BY DEF FreeFrom
<1>9. Now \in Nat /\ Now < Infinity
  BY TimesAssumption
<1>10. UtilizationMax(diagram[r], Now, req.duration) \in Nat
  BY <1>5, <1>9, MaxIs
<1>11. free[r] \in Nat
  <2> HIDE DEF free
  <2> QED
    BY <1>8, <1>10, ResourcesAssumption DEF Left
<1> HIDE DEF free
<1> QED
  BY <1>5, <1>7, <1>8, <1>11

\* From its start on, a serial job finds what it needs in its queue.
LEMMA SerialStartIs ==
  ASSUME \A r \in Resources : Diagram(diagram[r]),
         NEW req \in Requests, ~req.parallel, NEW q \in Queues,
         NEW slotsIn, slotsIn = [x \in Queues |-> IF x = q THEN 1 ELSE 0]
  PROVE  /\ SerialStart(req, q) \in 0 .. Infinity
         /\ \A end : Affordable(diagram, Demand(req, slotsIn), SerialStart(req, q), end)
<1> DEFINE R == {q} \union req.needs
           below(r) == UtilizationBelow(diagram[r], Total[r] - 1)
           T == {below(r) : r \in R}
<1>1. R \subseteq Resources /\ req.slots = 1 /\ Infinity \in Nat
  BY RequestsAssumption, TimesAssumption DEF Resources
<1>2. \A r \in Resources : Total[r] \in Nat /\ Total[r] - 1 \in Nat
  BY ResourcesAssumption
<1>3. \A r \in R : /\ below(r) \in 0 .. Infinity
                   /\ \A t \in Nat : t < Infinity /\ below(r) <= t =>
                        At(diagram[r], t) <= Total[r] - 1
  <2> SUFFICES ASSUME NEW r \in R
               PROVE  /\ below(r) \in 0 .. Infinity
                      /\ \A t \in Nat : t < Infinity /\ below(r) <= t =>
                           At(diagram[r], t) <= Total[r] - 1
    OBVIOUS
  <2>1. r \in Resources
    BY <1>1
  <2> QED
    BY <1>2, <2>1, BelowIs
<1>4. SerialStart(req, q) = Max(T)
  BY DEF SerialStart
<1> HIDE DEF below
<1>5. T \in SUBSET (0 .. Infinity) /\ T # {} /\ \A r \in R : below(r) \in T
  BY <1>3
<1> HIDE DEF T
<1>6. Max(T) \in T /\ \A k \in T : k <= Max(T)
  BY <1>1, <1>5, MaxIsGreatest
<1>7. Max(T) \in 0 .. Infinity
  BY <1>5, <1>6
<1>8. ASSUME NEW r \in Resources, NEW t \in Nat, t < Infinity, Max(T) <= t
      PROVE  \/ Demand(req, slotsIn)[r] = 0
             \/ Demand(req, slotsIn)[r] + At(diagram[r], t) <= Total[r]
  <2>1. Demand(req, slotsIn)[r] = IF r \in Queues THEN slotsIn[r]
                                  ELSE IF r \in req.needs \/ (r = PE /\ req.parallel)
                                       THEN req.slots ELSE 0
    BY DEF Demand
  <2>2. Demand(req, slotsIn)[r] = 0 \/ (r \in R /\ Demand(req, slotsIn)[r] = 1)
    BY <1>1, <2>1
  <2>3. CASE r \in R /\ Demand(req, slotsIn)[r] = 1
    <3>1. below(r) \in Nat /\ below(r) <= Max(T) /\ Max(T) \in Nat
      BY <1>3, <1>5, <1>6, <1>7, <2>3
    <3>2. At(diagram[r], t) <= Total[r] - 1
      BY <1>3, <1>8, <2>3, <3>1
    <3>3. At(diagram[r], t) \in Nat
      BY AtIs DEF Diagram
    <3> QED
      BY <1>2, <2>3, <3>2, <3>3
  <2> QED
    BY <2>2, <2>3
<1> QED
  BY <1>4, <1>7, <1>8 DEF Affordable

-----------------------------------------------------------------------------
(* Running jobs and calendars                                               *)

\* No running job ends just when a calendar closes a queue: set_utilization would
\* take its end for the begin of the closed time.
QuietCalendars ==
  \A calendar \in Calendars : \A c \in ClosedTimes(calendar) :
    \A s \in Starts, req \in Requests : RunningEnd(s, req.duration) # c.from

\* Before the calendars only running jobs are entered; the steps of a queue are
\* their starts and ends.
RunningOnly(diagrams, plan) ==
  /\ \A i \in 1 .. Len(plan) :
       /\ plan[i].how = "running" /\ plan[i].start <= Now /\ Now < plan[i].end
       /\ \E s \in Starts, req \in Requests : plan[i].end = RunningEnd(s, req.duration)
  /\ \A q \in Queues : \A j \in 1 .. Len(diagrams[q]) :
       \E i \in 1 .. Len(plan) : /\ plan[i].demand[q] > 0
                                 /\ diagrams[q][j].time \in {plan[i].start, plan[i].end}

\* Running jobs take later at most what they take now.
LEMMA PlannedNow ==
  ASSUME NEW diagrams, NEW plan \in Seq(Plans), RunningOnly(diagrams, plan),
         NEW r \in Resources, NEW t \in Nat, Now <= t
  PROVE  PlannedIn(plan, r, t) <= PlannedIn(plan, r, Now)
<1>1. Now \in Nat
  BY TimesAssumption
<1>2. \A i \in 1 .. Len(plan) : plan[i] \in Plans
  BY ElementOfSeq
<1>3. /\ Parts(plan, r, t) \in Seq(Nat) /\ Len(Parts(plan, r, t)) = Len(plan)
      /\ \A i \in 1 .. Len(plan) :
           Parts(plan, r, t)[i] = IF Covers(plan[i], t) THEN plan[i].demand[r] ELSE 0
  BY PartsIn
<1>4. /\ Parts(plan, r, Now) \in Seq(Nat) /\ Len(Parts(plan, r, Now)) = Len(plan)
      /\ \A i \in 1 .. Len(plan) :
           Parts(plan, r, Now)[i] = IF Covers(plan[i], Now) THEN plan[i].demand[r] ELSE 0
  BY <1>1, PartsIn
<1>5. ASSUME NEW i \in 1 .. Len(plan)
      PROVE  Parts(plan, r, t)[i] <= Parts(plan, r, Now)[i]
  <2>1. Covers(plan[i], Now)
    BY DEF RunningOnly, Covers
  <2>2. plan[i].demand[r] \in Nat
    BY <1>2 DEF Plans
  <2>3. Parts(plan, r, Now)[i] = plan[i].demand[r]
    BY <1>4, <2>1
  <2>4. Parts(plan, r, t)[i] \in {0, plan[i].demand[r]}
    BY <1>3
  <2> QED
    BY <2>2, <2>3, <2>4
<1> DEFINE a == Parts(plan, r, t)
           b == Parts(plan, r, Now)
<1>6. a \in Seq(Nat) /\ b \in Seq(Nat) /\ Len(a) = Len(b) /\ \A i \in 1 .. Len(a) : a[i] <= b[i]
  BY <1>3, <1>4, <1>5
<1> HIDE DEF a, b
<1>7. SumOf(a) <= SumOf(b)
  BY <1>6, SumLeq
<1> QED
  BY <1>7 DEF a, b, PlannedIn

\* What is free now is free as long as only running jobs have been entered.
LEMMA RunningAffordable ==
  ASSUME NEW diagrams, NEW plan, Consistent(diagrams, plan, {}), RunningOnly(diagrams, plan),
         NEW demand \in [Resources -> Nat], NEW till, Now < till,
         Affordable(diagrams, demand, Now, till), NEW start, NEW end
  PROVE  Affordable(diagrams, demand, start, end)
<1>1. Now \in Nat /\ Now < Infinity /\ Now <= Now
  BY TimesAssumption
<1>2. plan \in Seq(Plans) /\ Told(diagrams, plan, {})
  BY DEF Consistent, Entries
<1>3. ASSUME NEW r \in Resources, NEW t \in Nat, Now <= t, t < Infinity
      PROVE  demand[r] = 0 \/ demand[r] + At(diagrams[r], t) <= Total[r]
  <2>1. demand[r] = 0 \/ demand[r] + At(diagrams[r], Now) <= Total[r]
    BY <1>1 DEF Affordable
  <2>2. /\ At(diagrams[r], t) = TakenIn(plan, {}, r, t)
        /\ At(diagrams[r], Now) = TakenIn(plan, {}, r, Now)
    BY <1>1, <1>2, <1>3 DEF Told
  <2>3. \A x : TakenIn(plan, {}, r, x) = PlannedIn(plan, r, x)
    BY DEF TakenIn, ClosedIn
  <2>4. PlannedIn(plan, r, t) <= PlannedIn(plan, r, Now)
    BY <1>2, <1>3, PlannedNow
  <2>5. PlannedIn(plan, r, t) \in Nat /\ PlannedIn(plan, r, Now) \in Nat /\ demand[r] \in Nat
        /\ Total[r] \in Nat
    BY <1>1, <1>2, PlannedNat, ResourcesAssumption
  <2> QED
    BY <2>1, <2>2, <2>3, <2>4, <2>5
<1> QED
  BY <1>3 DEF Affordable

\* A further running job.
LEMMA RunningStays ==
  ASSUME NEW diagrams, NEW plan, Consistent(diagrams, plan, {}), RunningOnly(diagrams, plan),
         NEW b \in Plans, Period(b.start, b.end), b.how = "running", b.start <= Now,
         Now < b.end, \E s \in Starts, req \in Requests : b.end = RunningEnd(s, req.duration),
         NEW after,
         after = [r \in Resources |->
                    IF b.demand[r] = 0 THEN diagrams[r]
                    ELSE UtilizationAdd(diagrams[r], b.start, b.end, b.demand[r])]
  PROVE  RunningOnly(after, Append(plan, b))
<1> DEFINE later == Append(plan, b)
<1>1. plan \in Seq(Plans) /\ \A r \in Resources : Diagram(diagrams[r])
  BY DEF Consistent, Entries, Told
<1>2. /\ later \in Seq(Plans) /\ Len(later) = Len(plan) + 1 /\ Len(plan) \in Nat
      /\ later[Len(plan) + 1] = b /\ \A i \in 1 .. Len(plan) : later[i] = plan[i]
  BY <1>1
<1> HIDE DEF later
<1>3. ASSUME NEW i \in 1 .. Len(later)
      PROVE  /\ later[i].how = "running" /\ later[i].start <= Now /\ Now < later[i].end
             /\ \E s \in Starts, req \in Requests : later[i].end = RunningEnd(s, req.duration)
  <2>1. i = Len(plan) + 1 \/ i \in 1 .. Len(plan)
    BY <1>2
  <2>2. CASE i \in 1 .. Len(plan)
    <3>1. later[i] = plan[i]
      BY <1>2, <2>2
    <3> QED
      BY <2>2, <3>1 DEF RunningOnly
  <2>3. CASE i = Len(plan) + 1
    BY <1>2, <2>3
  <2> QED
    BY <2>1, <2>2, <2>3
<1>4. ASSUME NEW q \in Queues, NEW j \in 1 .. Len(after[q])
      PROVE  \E i \in 1 .. Len(later) : /\ later[i].demand[q] > 0
                                        /\ after[q][j].time \in {later[i].start, later[i].end}
  <2>1. q \in Resources /\ Len(plan) + 1 \in 1 .. Len(later)
        /\ \A i \in 1 .. Len(plan) : i \in 1 .. Len(later)
    BY <1>2 DEF Resources
  <2>2. \A k \in 1 .. Len(diagrams[q]) :
          \E i \in 1 .. Len(plan) :
            /\ plan[i].demand[q] > 0
            /\ diagrams[q][k].time \in {plan[i].start, plan[i].end}
    BY DEF RunningOnly
  <2>3. CASE \E k \in 1 .. Len(diagrams[q]) : after[q][j].time = diagrams[q][k].time
    <3>1. PICK k \in 1 .. Len(diagrams[q]) : after[q][j].time = diagrams[q][k].time
      BY <2>3
    <3>2. PICK i \in 1 .. Len(plan) :
            /\ plan[i].demand[q] > 0
            /\ diagrams[q][k].time \in {plan[i].start, plan[i].end}
      BY <2>2
    <3>3. later[i] = plan[i]
      BY <1>2
    <3> QED
      BY <2>1, <3>1, <3>2, <3>3
  <2>4. CASE ~ \E k \in 1 .. Len(diagrams[q]) : after[q][j].time = diagrams[q][k].time
    <3>1. after[q] = IF b.demand[q] = 0 THEN diagrams[q]
                     ELSE UtilizationAdd(diagrams[q], b.start, b.end, b.demand[q])
      BY <2>1
    <3>2. b.demand[q] # 0
      BY <2>4, <3>1
    <3>3. b.demand[q] \in Nat
      BY <2>1 DEF Plans
    <3>4. IsRaised(after[q], diagrams[q], b.start, b.end, b.demand[q])
      BY <1>1, <2>1, <3>1, <3>2, <3>3, AddIs
    <3>5. after[q][j].time \in {b.start, b.end}
      BY <2>4, <3>4 DEF IsRaised
    <3>6. later[Len(plan) + 1].demand[q] > 0
      BY <1>2, <3>2, <3>3
    <3> QED
      BY <1>2, <2>1, <3>5, <3>6
  <2> QED
    BY <2>3, <2>4
<1> QED
  BY <1>3, <1>4 DEF RunningOnly, later

\* The calendars of the queues.
LEMMA CalendarsKeep ==
  ASSUME Consistent(diagram, planned, {}), RunningOnly(diagram, planned), QuietCalendars,
         NEW calendarOf \in [Queues -> Calendars],
         \A i \in 1 .. Len(planned), q \in Queues :
           planned[i].demand[q] > 0 =>
             \A c \in ClosedTimes(calendarOf[q]) : planned[i].end <= c.from,
         NEW after,
         after = [r \in Resources |-> IF r \in Queues THEN AddCalendar(r, calendarOf[r])
                                                      ELSE diagram[r]],
         NEW times,
         times = UNION {{[queue |-> q, from |-> c.from, till |-> c.till] :
                           c \in ClosedTimes(calendarOf[q])} : q \in Queues}
  PROVE  Consistent(after, planned, times)
<1>1. /\ planned \in Seq(Plans)
      /\ \A i \in 1 .. Len(planned) : Period(planned[i].start, planned[i].end)
      /\ Told(diagram, planned, {}) /\ NotTooMuch(planned, {})
  BY DEF Consistent, Entries
<1>2. \A r : \A t : TakenIn(planned, {}, r, t) = PlannedIn(planned, r, t)
  BY DEF TakenIn, ClosedIn
<1>3. \A r \in Resources : /\ Diagram(diagram[r]) /\ Total[r] \in Nat
                           /\ \A t \in Nat : t < Infinity =>
                                At(diagram[r], t) = PlannedIn(planned, r, t)
  BY <1>1, <1>2, ResourcesAssumption DEF Told
<1>4. ASSUME NEW q \in Queues
      PROVE  /\ IsClosed(AddCalendar(q, calendarOf[q]), diagram[q],
                         ClosedTimes(calendarOf[q]), Total[q])
             /\ \A c \in ClosedTimes(calendarOf[q]) :
                  c.from \in Nat /\ c.till \in Nat /\ Now <= c.from
  <2>1. q \in Resources /\ calendarOf[q] \in Calendars
    BY DEF Resources
  <2>2. ASSUME NEW c \in ClosedTimes(calendarOf[q]), NEW j \in 1 .. Len(diagram[q]),
               c.from \in Nat
        PROVE  diagram[q][j].time < c.from
    <3>1. PICK i \in 1 .. Len(planned) :
            /\ planned[i].demand[q] > 0
            /\ diagram[q][j].time \in {planned[i].start, planned[i].end}
      BY DEF RunningOnly
    <3>2. /\ planned[i].start <= Now /\ Now < planned[i].end
          /\ \E s \in Starts, req \in Requests : planned[i].end = RunningEnd(s, req.duration)
      BY DEF RunningOnly
    <3>3. planned[i].end <= c.from /\ planned[i].end # c.from
      BY <2>1, <3>1, <3>2 DEF QuietCalendars
    <3>4. planned[i].start \in Nat /\ planned[i].end \in Nat /\ Now \in Nat
      BY <1>1, TimesAssumption DEF Period
    <3>5. planned[i].start < c.from /\ planned[i].end < c.from
      BY <2>2, <3>2, <3>3, <3>4
    <3> QED
      BY <3>1, <3>5
  <2>3. \A c \in ClosedTimes(calendarOf[q]) : c.from \in Nat
    BY <2>1, ClosedTimesAre
  <2> QED
    BY <1>3, <2>1, <2>2, <2>3, CalendarIs
<1>5. \A r \in Resources : \A t : ClosedIn(times, r, t) <=>
        r \in Queues /\ \E c \in ClosedTimes(calendarOf[r]) : c.from <= t /\ t < c.till
  <2> SUFFICES ASSUME NEW r \in Resources, NEW t
               PROVE  ClosedIn(times, r, t) <=>
                        r \in Queues /\ \E c \in ClosedTimes(calendarOf[r]) :
                                          c.from <= t /\ t < c.till
    OBVIOUS
  <2>1. ASSUME ClosedIn(times, r, t)
        PROVE  r \in Queues /\ \E c \in ClosedTimes(calendarOf[r]) : c.from <= t /\ t < c.till
    <3>1. PICK e \in times : e.queue = r /\ e.from <= t /\ t < e.till
      BY <2>1 DEF ClosedIn
    <3>a. PICK q \in Queues : e \in {[queue |-> q, from |-> c.from, till |-> c.till] :
                                     c \in ClosedTimes(calendarOf[q])}
      OBVIOUS
    <3>2. PICK c \in ClosedTimes(calendarOf[q]) :
            e = [queue |-> q, from |-> c.from, till |-> c.till]
      BY <3>a
    <3>3. e.queue = q /\ e.from = c.from /\ e.till = c.till
      BY <3>2
    <3> QED
      BY <3>1, <3>3
  <2>2. ASSUME r \in Queues, NEW c \in ClosedTimes(calendarOf[r]), c.from <= t, t < c.till
        PROVE  ClosedIn(times, r, t)
    <3> DEFINE e == [queue |-> r, from |-> c.from, till |-> c.till]
    <3>1. e \in times
      BY <2>2
    <3>2. e.queue = r /\ e.from = c.from /\ e.till = c.till
      OBVIOUS
    <3> HIDE DEF e
    <3> QED
      BY <2>2, <3>1, <3>2 DEF ClosedIn
  <2> QED
    BY <2>1, <2>2
<1>6. Entries(planned, times)
  <2>1. ASSUME NEW e \in times
        PROVE  e.queue \in Queues /\ e.from \in Nat /\ e.till \in Nat /\ Now <= e.from
    <3>a. PICK q \in Queues : e \in {[queue |-> q, from |-> c.from, till |-> c.till] :
                                     c \in ClosedTimes(calendarOf[q])}
      OBVIOUS
    <3>2. PICK c \in ClosedTimes(calendarOf[q]) :
            e = [queue |-> q, from |-> c.from, till |-> c.till]
      BY <3>a
    <3>3. e.queue = q /\ e.from = c.from /\ e.till = c.till
      BY <3>2
    <3> QED
      BY <1>4, <3>3
  <2> QED
    BY <1>1, <2>1 DEF Entries
<1>7. Told(after, planned, times)
  <2> SUFFICES ASSUME NEW r \in Resources
               PROVE  /\ Diagram(after[r])
                      /\ \A t \in Nat : t < Infinity =>
                           At(after[r], t) = TakenIn(planned, times, r, t)
    BY DEF Told
  <2>1. CASE r \in Queues
    <3>1. after[r] = AddCalendar(r, calendarOf[r])
      BY <2>1
    <3>2. IsClosed(after[r], diagram[r], ClosedTimes(calendarOf[r]), Total[r])
      BY <1>4, <2>1, <3>1
    <3>3. /\ Diagram(after[r])
          /\ \A t \in Nat : t < Infinity =>
               At(after[r], t) = IF ClosedIn(times, r, t) THEN Total[r] ELSE At(diagram[r], t)
      BY <1>5, <2>1, <3>2 DEF IsClosed
    <3> QED
      BY <1>3, <3>3 DEF TakenIn
  <2>2. CASE r \notin Queues
    <3>1. after[r] = diagram[r] /\ \A t : ~ClosedIn(times, r, t)
      BY <1>5, <2>2
    <3> QED
      BY <1>3, <3>1 DEF TakenIn
  <2> QED
    BY <2>1, <2>2
<1>8. NotTooMuch(planned, times)
  <2> SUFFICES ASSUME NEW r \in Resources, NEW t \in Nat, Now <= t, t < Infinity
               PROVE  Room(planned, times, r, t)
    BY DEF NotTooMuch
  <2>1. Room(planned, {}, r, t)
    BY <1>1 DEF NotTooMuch
  <2>2. PlannedIn(planned, r, t) <= Total[r]
    BY <2>1 DEF Room, ClosedIn
  <2>3. \A i \in 1 .. Len(planned) : planned[i].how = "running"
    BY DEF RunningOnly
  <2> QED
    BY <2>2, <2>3 DEF Room
<1> QED
  BY <1>6, <1>7, <1>8 DEF Consistent

-----------------------------------------------------------------------------
(* The scheduler run                                                        *)

\* The search of a parallel job stays at times of the diagrams, and its best start
\* has room.
Seeking ==
  seek # NoSeek =>
    /\ phase = "dispatch"
    /\ seek = [req |-> seek.req, time |-> seek.time, next |-> seek.next, best |-> seek.best]
    /\ seek.req \in Requests /\ seek.req.parallel
    /\ seek.time \in 0 .. Infinity /\ seek.best \in 0 .. Infinity
    /\ \A r \in DOMAIN seek.next : r \in Resources /\ seek.next[r] \in 0 .. Len(diagram[r])
    /\ seek.best # 0 => Roomy(diagram, seek.req, seek.best)

\* What has been entered is consistent, the calendars come after the running jobs.
ScheduleInv ==
  /\ Consistent(diagram, planned, closed)
  /\ phase = "running" => closed = {} /\ RunningOnly(diagram, planned)
  /\ Seeking

\* Where the search goes on is a time of a diagram, or the search ends.
LEMMA LatestIs ==
  ASSUME \A r \in Resources : Diagram(diagram[r]), NEW next,
         \A r \in DOMAIN next : r \in Resources /\ next[r] \in 0 .. Len(diagram[r])
  PROVE  LatestStep(next) \in 0 .. Infinity
<1> DEFINE T == {0} \union {diagram[r][next[r]].time : r \in {x \in DOMAIN next : next[x] > 0}}
<1>1. Infinity \in Nat
  BY TimesAssumption
<1>2. ASSUME NEW r \in DOMAIN next, next[r] > 0
      PROVE  diagram[r][next[r]].time \in 0 .. Infinity
  <2>1. r \in Resources /\ next[r] \in 1 .. Len(diagram[r]) /\ diagram[r] \in Seq(Steps)
    BY <1>2 DEF Diagram
  <2>2. diagram[r][next[r]].time \in Nat /\ diagram[r][next[r]].time <= Infinity
    BY <2>1, StepIs
  <2> QED
    BY <1>1, <2>2
<1>3. T \in SUBSET (0 .. Infinity) /\ T # {}
  BY <1>1, <1>2
<1>4. LatestStep(next) = Max(T)
  BY DEF LatestStep
<1> HIDE DEF T
<1>5. Max(T) \in T
  BY <1>1, <1>3, MaxIsGreatest
<1> QED
  BY <1>3, <1>4, <1>5

\* The steps before a time are steps of the diagrams.
LEMMA StepsBeforeAre ==
  ASSUME \A r \in Resources : Diagram(diagram[r]), NEW req \in Requests, NEW t \in Nat
  PROVE  \A r \in DOMAIN StepsBefore(req, t) :
           r \in Resources /\ StepsBefore(req, t)[r] \in 0 .. Len(diagram[r])
<1> SUFFICES ASSUME NEW r \in LookedAt(req)
             PROVE  /\ r \in Resources
                    /\ Len(Before(diagram[r], t)) \in 0 .. Len(diagram[r])
  BY DEF StepsBefore
<1>1. r \in Resources
  BY RequestsAssumption DEF LookedAt, Resources
<1>2. diagram[r] \in Seq(Steps) /\ Len(diagram[r]) \in Nat
  BY <1>1 DEF Diagram
<1>3. /\ First(diagram[r], t) \in 1 .. Len(diagram[r]) + 1
      /\ Len(Before(diagram[r], t)) = First(diagram[r], t) - 1
  BY <1>2, FirstIs, PartsAre
<1> QED
  BY <1>1, <1>2, <1>3

\* A job is entered.
LEMMA EnterStep ==
  ASSUME Consistent(diagram, planned, closed),
         NEW how \in {"running", "started", "reserved"}, NEW req \in Requests,
         NEW start, NEW end, Period(start, end), NEW slotsIn \in [Queues -> Nat],
         Affordable(diagram, Demand(req, slotsIn), start, end),
         Enter(how, req, start, end, slotsIn)
  PROVE  /\ Consistent(diagram', planned', closed)
         /\ \E b \in Plans :
              /\ b.how = how /\ b.start = start /\ b.end = end
              /\ planned' = Append(planned, b)
              /\ diagram' = [r \in Resources |->
                               IF b.demand[r] = 0 THEN diagram[r]
                               ELSE UtilizationAdd(diagram[r], start, end, b.demand[r])]
<1> DEFINE demand == Demand(req, slotsIn)
           b == [how |-> how, start |-> start, end |-> end, demand |-> demand]
<1>1. demand \in [Resources -> Nat]
  BY DemandIs
<1>2. /\ planned' = Append(planned, b)
      /\ diagram' = [r \in Resources |->
                       IF demand[r] = 0 THEN diagram[r]
                       ELSE UtilizationAdd(diagram[r], start, end, demand[r])]
  BY DEF Enter
<1>3. start \in 0 .. Infinity /\ end \in 0 .. Infinity
  BY TimesAssumption DEF Period
<1>4. /\ b \in Plans /\ b.how = how /\ b.start = start /\ b.end = end
      /\ b.demand = Demand(req, slotsIn)
  BY <1>1, <1>3 DEF Plans
<1>d. demand = Demand(req, slotsIn)
  OBVIOUS
<1> HIDE DEF b, demand
<1>5. Affordable(diagram, b.demand, b.start, b.end) /\ Period(b.start, b.end)
  BY <1>4
<1>6. diagram' = [r \in Resources |->
                    IF b.demand[r] = 0 THEN diagram[r]
                    ELSE UtilizationAdd(diagram[r], b.start, b.end, b.demand[r])]
  BY <1>2, <1>4, <1>d
<1>7. Consistent(diagram', Append(planned, b), closed)
  BY <1>4, <1>5, <1>6, EnterAffordable
<1> QED
  BY <1>2, <1>4, <1>6, <1>7

\* Nothing is planned at first.
LEMMA InvInit == Init => ScheduleInv
<1> SUFFICES ASSUME Init PROVE ScheduleInv
  OBVIOUS
<1>1. /\ diagram = [r \in Resources |-> <<>>] /\ planned = <<>> /\ closed = {}
      /\ seek = NoSeek
  BY DEF Init
<1>2. \A t \in Nat : \A r \in Resources : PlannedIn(planned, r, t) = 0
  <2> SUFFICES ASSUME NEW t \in Nat, NEW r \in Resources PROVE PlannedIn(planned, r, t) = 0
    OBVIOUS
  <2>1. planned \in Seq(Plans) /\ Len(planned) = 0
    BY <1>1
  <2>2. Parts(planned, r, t) \in Seq(Nat) /\ Len(Parts(planned, r, t)) = 0
    BY <2>1, PartsIn
  <2> DEFINE a == Parts(planned, r, t)
  <2>3. a \in Seq(Nat) /\ \A i \in 1 .. Len(a) : a[i] = 0
    BY <2>2
  <2> HIDE DEF a
  <2>4. SumOf(a) = 0
    BY <2>3, SumZero
  <2> QED
    BY <2>4 DEF a, PlannedIn
<1>3. Entries(planned, closed)
  BY <1>1 DEF Entries
<1>4. Told(diagram, planned, closed)
  BY <1>1, <1>2, NoSteps DEF Told, Diagram, TakenIn, ClosedIn
<1>5. NotTooMuch(planned, closed)
  BY <1>1, <1>2, ResourcesAssumption DEF NotTooMuch, Room, ClosedIn
<1>6. RunningOnly(diagram, planned)
  <2>1. \A q \in Queues : Len(diagram[q]) = 0
    BY <1>1 DEF Resources
  <2> QED
    BY <1>1, <2>1 DEF RunningOnly
<1> QED
  BY <1>1, <1>3, <1>4, <1>5, <1>6 DEF ScheduleInv, Consistent, Seeking

\* What the verdict on a job says.
LEMMA VerdictRoomy ==
  ASSUME \A r \in Resources : Diagram(diagram[r]), NEW req \in Requests,
         Verdict(req) = "ok"
  PROVE  Roomy(diagram, req, Now) /\ Now \in 0 .. Infinity
<1>1. Now \in 0 .. Infinity
  BY TimesAssumption
<1>2. CASE req.parallel
  BY <1>1, <1>2, ParallelRoomy DEF Verdict
<1>3. CASE ~req.parallel
  BY <1>1, <1>3, SerialRoomy DEF Verdict
<1> QED
  BY <1>1, <1>2, <1>3

\* AddRunning keeps the invariant.
LEMMA AddRunningKeeps ==
  ASSUME ScheduleInv, NEW req \in Requests, NEW start \in Starts, NEW slotsIn,
         AddRunning(req, start, slotsIn)
  PROVE  ScheduleInv'
<1>1. /\ Consistent(diagram, planned, {}) /\ RunningOnly(diagram, planned)
      /\ closed = {} /\ closed' = closed /\ seek' = seek /\ phase' = phase
      /\ phase = "running" /\ seek = NoSeek
      /\ Enter("running", req, start, RunningEnd(start, req.duration), slotsIn)
      /\ slotsIn \in Allocations(req, Now) /\ Verdict(req) = "ok"
  BY DEF ScheduleInv, AddRunning, Seeking
<1>2. \A r \in Resources : Diagram(diagram[r])
  BY <1>1 DEF Consistent, Told
<1>3. Roomy(diagram, req, Now) /\ Now \in 0 .. Infinity
  BY <1>1, <1>2, VerdictRoomy
<1>4. /\ slotsIn \in [Queues -> Nat]
      /\ Affordable(diagram, Demand(req, slotsIn), Now, EndTime(Now, req.duration))
  BY <1>1, <1>2, <1>3, AllocationAffordable
<1>5. Demand(req, slotsIn) \in [Resources -> Nat]
  BY <1>4, DemandIs
<1>6. /\ Now < EndTime(Now, req.duration)
      /\ Period(start, RunningEnd(start, req.duration)) /\ start <= Now
      /\ Now < RunningEnd(start, req.duration)
  <2>1. /\ req.duration \in Nat /\ req.duration > 0 /\ req.duration <= Infinity
        /\ Infinity \in Nat /\ Now \in Nat /\ Now > 0 /\ start \in Nat /\ start <= Now
        /\ Interval \in Nat /\ Interval > 0 /\ Now + Interval < Infinity /\ Now < Infinity
    BY RequestsAssumption, TimesAssumption
  <2> QED
    BY <2>1 DEF EndTime, RunningEnd, Period
<1> DEFINE end == RunningEnd(start, req.duration)
<1>7. Affordable(diagram, Demand(req, slotsIn), start, end)
  BY <1>1, <1>4, <1>5, <1>6, RunningAffordable
<1>8. /\ Consistent(diagram', planned', closed)
      /\ \E b \in Plans :
           /\ b.how = "running" /\ b.start = start /\ b.end = end
           /\ planned' = Append(planned, b)
           /\ diagram' = [r \in Resources |->
                            IF b.demand[r] = 0 THEN diagram[r]
                            ELSE UtilizationAdd(diagram[r], start, end, b.demand[r])]
  BY <1>1, <1>4, <1>6, <1>7, EnterStep
<1>9. RunningOnly(diagram', planned')
  <2>1. PICK b \in Plans :
           /\ b.how = "running" /\ b.start = start /\ b.end = end
           /\ planned' = Append(planned, b)
           /\ diagram' = [r \in Resources |->
                            IF b.demand[r] = 0 THEN diagram[r]
                            ELSE UtilizationAdd(diagram[r], start, end, b.demand[r])]
    BY <1>8
  <2>2. /\ Period(b.start, b.end) /\ b.start <= Now /\ Now < b.end
        /\ \E s \in Starts, other \in Requests : b.end = RunningEnd(s, other.duration)
    BY <1>6, <2>1
  <2>3. diagram' = [r \in Resources |->
                      IF b.demand[r] = 0 THEN diagram[r]
                      ELSE UtilizationAdd(diagram[r], b.start, b.end, b.demand[r])]
    BY <2>1
  <2>4. RunningOnly(diagram', Append(planned, b))
    BY <1>1, <2>1, <2>2, <2>3, RunningStays
  <2> QED
    BY <2>1, <2>4
<1> QED
  BY <1>1, <1>8, <1>9 DEF ScheduleInv, Seeking

\* AddCalendars keeps the invariant.
LEMMA AddCalendarsKeeps ==
  ASSUME ~Overlaps, QuietCalendars, ScheduleInv,
         NEW calendarOf \in [Queues -> Calendars], AddCalendars(calendarOf)
  PROVE  ScheduleInv'
<1>1. /\ Consistent(diagram, planned, {}) /\ RunningOnly(diagram, planned)
      /\ seek = NoSeek /\ seek' = seek /\ phase' = "dispatch" /\ planned' = planned
      /\ diagram' = [r \in Resources |-> IF r \in Queues THEN AddCalendar(r, calendarOf[r])
                                                         ELSE diagram[r]]
      /\ closed' = UNION {{[queue |-> q, from |-> c.from, till |-> c.till] :
                             c \in ClosedTimes(calendarOf[q])} : q \in Queues}
  BY DEF ScheduleInv, AddCalendars, Seeking
<1>2. \A b \in ToSet(planned), q \in Queues :
        b.demand[q] > 0 => \A c \in ClosedTimes(calendarOf[q]) : b.end <= c.from
  BY DEF AddCalendars
<1>3. ASSUME NEW i \in 1 .. Len(planned), NEW q \in Queues, planned[i].demand[q] > 0
      PROVE  \A c \in ClosedTimes(calendarOf[q]) : planned[i].end <= c.from
  <2>1. planned \in Seq(Plans)
    BY <1>1 DEF Consistent, Entries
  <2>2. planned[i] \in ToSet(planned)
    BY <2>1 DEF ToSet
  <2> QED
    BY <1>2, <1>3, <2>2
<1>4. Consistent(diagram', planned, closed')
  BY <1>1, <1>3, CalendarsKeep
<1> QED
  BY <1>1, <1>4 DEF ScheduleInv, Seeking

\* A job that is entered for a time at which it can be keeps the invariant.
LEMMA DispatchKeeps ==
  ASSUME ScheduleInv, phase = "dispatch", phase' = phase, closed' = closed, seek' = NoSeek,
         NEW how \in {"running", "started", "reserved"}, NEW req \in Requests,
         NEW start \in 0 .. Infinity, NEW slotsIn \in [Queues -> Nat],
         Affordable(diagram, Demand(req, slotsIn), start, EndTime(start, req.duration)),
         Enter(how, req, start, EndTime(start, req.duration), slotsIn)
  PROVE  ScheduleInv'
<1>1. Period(start, EndTime(start, req.duration))
  BY RequestsAssumption, EndIs
<1>2. Consistent(diagram, planned, closed)
  BY DEF ScheduleInv
<1>3. Consistent(diagram', planned', closed)
  BY <1>1, <1>2, EnterStep
<1> QED
  BY <1>3 DEF ScheduleInv, Seeking

\* Start keeps the invariant.
LEMMA StartKeeps ==
  ASSUME ScheduleInv, NEW req \in Requests, NEW wants, NEW slotsIn,
         Start(req, wants, slotsIn)
  PROVE  ScheduleInv'
<1>1. /\ phase = "dispatch" /\ phase' = phase /\ closed' = closed /\ seek' = NoSeek
      /\ slotsIn \in Allocations(req, Now) /\ Verdict(req) = "ok"
      /\ Enter("started", req, Now, EndTime(Now, req.duration), slotsIn)
  BY DEF Start, Idle
<1>2. \A r \in Resources : Diagram(diagram[r])
  BY DEF ScheduleInv, Consistent, Told
<1>3. Roomy(diagram, req, Now) /\ Now \in 0 .. Infinity
  BY <1>1, <1>2, VerdictRoomy
<1>4. /\ slotsIn \in [Queues -> Nat]
      /\ Affordable(diagram, Demand(req, slotsIn), Now, EndTime(Now, req.duration))
  BY <1>1, <1>2, <1>3, AllocationAffordable
<1> QED
  BY <1>1, <1>3, <1>4, DispatchKeeps

\* ReserveSerial keeps the invariant.
LEMMA ReserveSerialKeeps ==
  ASSUME ScheduleInv, NEW req \in Requests, NEW wants, NEW q \in Queues,
         ReserveSerial(req, wants, q)
  PROVE  ScheduleInv'
<1> DEFINE start == SerialStart(req, q)
           slotsIn == [x \in Queues |-> IF x = q THEN 1 ELSE 0]
<1>1. /\ phase = "dispatch" /\ phase' = phase /\ closed' = closed /\ seek' = NoSeek
      /\ ~req.parallel
      /\ Enter("reserved", req, start, EndTime(start, req.duration), slotsIn)
  BY DEF ReserveSerial, Reserves, Idle
<1>2. \A r \in Resources : Diagram(diagram[r])
  BY DEF ScheduleInv, Consistent, Told
<1>3. /\ start \in 0 .. Infinity
      /\ Affordable(diagram, Demand(req, slotsIn), start, EndTime(start, req.duration))
  BY <1>1, <1>2, SerialStartIs
<1>4. slotsIn \in [Queues -> Nat]
  OBVIOUS
<1> HIDE DEF start, slotsIn
<1> QED
  BY <1>1, <1>3, <1>4, DispatchKeeps

\* SeekFirst keeps the invariant.
LEMMA SeekFirstKeeps ==
  ASSUME ScheduleInv, NEW req \in Requests, NEW wants, SeekFirst(req, wants)
  PROVE  ScheduleInv'
<1> DEFINE t == LatestStep([r \in LookedAt(req) |-> Len(diagram[r])])
           time == IF t = 0 THEN Now ELSE t
<1>1. /\ phase = "dispatch" /\ req.parallel
      /\ phase' = phase /\ closed' = closed /\ diagram' = diagram /\ planned' = planned
      /\ seek' = [req |-> req, time |-> time, next |-> StepsBefore(req, t), best |-> 0]
  BY DEF SeekFirst, Reserves, Idle
<1>2. \A r \in Resources : Diagram(diagram[r]) /\ Len(diagram[r]) \in Nat
  BY DEF ScheduleInv, Consistent, Told, Diagram
<1>3. Now \in Nat /\ Now < Infinity /\ Infinity \in Nat
  BY TimesAssumption
<1>4. t \in 0 .. Infinity
  <2>1. \A r \in LookedAt(req) : r \in Resources
    BY RequestsAssumption DEF LookedAt, Resources
  <2> DEFINE next == [r \in LookedAt(req) |-> Len(diagram[r])]
  <2>2. \A r \in DOMAIN next : r \in Resources /\ next[r] \in 0 .. Len(diagram[r])
    BY <1>2, <2>1
  <2> HIDE DEF next
  <2>3. LatestStep(next) \in 0 .. Infinity
    BY <1>2, <2>2, LatestIs
  <2> QED
    BY <2>3 DEF next
<1> HIDE DEF t
<1>5. time \in 0 .. Infinity
  BY <1>3, <1>4
<1>6. \A r \in DOMAIN StepsBefore(req, t) :
        r \in Resources /\ StepsBefore(req, t)[r] \in 0 .. Len(diagram[r])
  BY <1>2, <1>3, <1>4, StepsBeforeAre
<1> HIDE DEF time
<1>7. Seeking'
  BY <1>1, <1>3, <1>5, <1>6 DEF Seeking
<1> QED
  BY <1>1, <1>7 DEF ScheduleInv

\* SeekEarlier keeps the invariant.
LEMMA SeekEarlierKeeps ==
  ASSUME ScheduleInv, SeekEarlier
  PROVE  ScheduleInv'
<1> DEFINE t == LatestStep(seek.next)
<1>1. /\ seek # NoSeek /\ Sought = "ok"
      /\ phase' = phase /\ closed' = closed /\ diagram' = diagram /\ planned' = planned
      /\ seek' = [seek EXCEPT !.best = seek.time, !.time = t,
                              !.next = StepsBefore(seek.req, t)]
  BY DEF SeekEarlier
<1>2. /\ phase = "dispatch"
      /\ seek = [req |-> seek.req, time |-> seek.time, next |-> seek.next, best |-> seek.best]
      /\ seek.req \in Requests /\ seek.req.parallel
      /\ seek.time \in 0 .. Infinity
      /\ \A r \in DOMAIN seek.next : r \in Resources /\ seek.next[r] \in 0 .. Len(diagram[r])
  BY <1>1 DEF ScheduleInv, Seeking
<1>3. \A r \in Resources : Diagram(diagram[r])
  BY DEF ScheduleInv, Consistent, Told
<1>4. Roomy(diagram, seek.req, seek.time)
  BY <1>1, <1>2, <1>3, ParallelRoomy DEF Sought
<1>5. t \in 0 .. Infinity /\ t \in Nat
  <2>1. t \in 0 .. Infinity
    BY <1>2, <1>3, LatestIs
  <2> QED
    BY <2>1, TimesAssumption
<1> HIDE DEF t
<1> DEFINE next == StepsBefore(seek.req, t)
<1>6. \A r \in DOMAIN next : r \in Resources /\ next[r] \in 0 .. Len(diagram[r])
  BY <1>2, <1>3, <1>5, StepsBeforeAre
<1>7. seek' = [req |-> seek.req, time |-> t, next |-> next, best |-> seek.time]
  BY <1>1, <1>2
<1> HIDE DEF next
<1>8. /\ seek'.req = seek.req /\ seek'.time = t /\ seek'.next = next
      /\ seek'.best = seek.time
  BY <1>7
<1>9. Seeking'
  BY <1>1, <1>2, <1>4, <1>5, <1>6, <1>7, <1>8 DEF Seeking
<1> QED
  BY <1>1, <1>2, <1>9 DEF ScheduleInv

\* SeekReserve keeps the invariant.
LEMMA SeekReserveKeeps ==
  ASSUME ScheduleInv, NEW slotsIn, SeekReserve(slotsIn)
  PROVE  ScheduleInv'
<1> DEFINE best == IF Sought = "ok" THEN seek.time ELSE seek.best
           req == seek.req
<1>1. /\ seek # NoSeek /\ best # 0 /\ slotsIn \in Allocations(req, best)
      /\ Enter("reserved", req, best, EndTime(best, req.duration), slotsIn)
      /\ phase' = phase /\ closed' = closed /\ seek' = NoSeek
  BY DEF SeekReserve
<1>2. /\ phase = "dispatch" /\ req \in Requests /\ req.parallel
      /\ seek.time \in 0 .. Infinity /\ seek.best \in 0 .. Infinity
      /\ seek.best # 0 => Roomy(diagram, req, seek.best)
  BY <1>1 DEF ScheduleInv, Seeking
<1>3. \A r \in Resources : Diagram(diagram[r])
  BY DEF ScheduleInv, Consistent, Told
<1>4. Roomy(diagram, req, best) /\ best \in 0 .. Infinity
  <2>1. CASE Sought = "ok"
    <3>1. Roomy(diagram, seek.req, seek.time)
      BY <1>2, <1>3, <2>1, ParallelRoomy DEF Sought
    <3> QED
      BY <1>2, <2>1, <3>1
  <2>2. CASE Sought # "ok"
    BY <1>1, <1>2, <2>2
  <2> QED
    BY <2>1, <2>2
<1> HIDE DEF best, req
<1>5. /\ slotsIn \in [Queues -> Nat]
      /\ Affordable(diagram, Demand(req, slotsIn), best, EndTime(best, req.duration))
  BY <1>1, <1>2, <1>3, <1>4, AllocationAffordable
<1> QED
  BY <1>1, <1>2, <1>4, <1>5, DispatchKeeps

\* The invariant is inductive.
LEMMA InvNext ==
  ASSUME ~Overlaps, QuietCalendars, ScheduleInv, [Next]_vars
  PROVE  ScheduleInv'
<1>1. ASSUME NEW req \in Requests, NEW start \in Starts,
             NEW a \in [Queues -> 0 .. req.slots], AddRunning(req, start, a)
      PROVE  ScheduleInv'
  BY <1>1, AddRunningKeeps
<1>2. ASSUME NEW calendarOf \in [Queues -> Calendars], AddCalendars(calendarOf)
      PROVE  ScheduleInv'
  BY <1>2, AddCalendarsKeeps
<1>3. ASSUME NEW req \in Requests, NEW wants \in BOOLEAN,
             NEW a \in [Queues -> 0 .. req.slots], Start(req, wants, a)
      PROVE  ScheduleInv'
  BY <1>3, StartKeeps
<1>4. ASSUME NEW req \in Requests, NEW wants \in BOOLEAN, NEW q \in Queues,
             ReserveSerial(req, wants, q)
      PROVE  ScheduleInv'
  BY <1>4, ReserveSerialKeeps
<1>5. ASSUME NEW req \in Requests, NEW wants \in BOOLEAN, Never(req, wants)
      PROVE  ScheduleInv'
  BY <1>5 DEF Never, ScheduleInv, Seeking
<1>6. ASSUME NEW req \in Requests, NEW wants \in BOOLEAN, SeekFirst(req, wants)
      PROVE  ScheduleInv'
  BY <1>6, SeekFirstKeeps
<1>7. ASSUME SeekEarlier PROVE ScheduleInv'
  BY <1>7, SeekEarlierKeeps
<1>8. ASSUME NEW a, SeekReserve(a) PROVE ScheduleInv'
  BY <1>8, SeekReserveKeeps
<1>9. ASSUME SeekNothing PROVE ScheduleInv'
  BY <1>9 DEF SeekNothing, ScheduleInv, Seeking
<1>10. ASSUME UNCHANGED vars PROVE ScheduleInv'
  BY <1>10 DEF vars, ScheduleInv, Seeking
<1> QED
  BY <1>1, <1>2, <1>3, <1>4, <1>5, <1>6, <1>7, <1>8, <1>9, <1>10 DEF Next

\* In every reachable state what has been entered is consistent.
LEMMA AlwaysScheduleInv ==
  ASSUME ~Overlaps, QuietCalendars
  PROVE  Spec => []ScheduleInv
BY InvInit, InvNext, PTL DEF Spec

\* The times at which something begins or ends.
LEMMA TimesAre ==
  ASSUME ScheduleInv, NEW t \in Times
  PROVE  t \in Nat /\ Now <= t /\ t < Infinity
<1>1. Now <= t /\ t < Infinity
  BY DEF Times
<1>2. planned \in Seq(Plans) /\ \A c \in closed : c.from \in Nat /\ c.till \in Nat
  BY DEF ScheduleInv, Consistent, Entries
<1>3. \A b \in ToSet(planned) : b.start \in Nat /\ b.end \in Nat
  <2>1. \A i \in 1 .. Len(planned) : planned[i] \in Plans
    BY <1>2, ElementOfSeq
  <2> QED
    BY <1>2, <2>1, TimesAssumption DEF ToSet, Plans
<1>4. t \in Nat
  BY <1>2, <1>3, TimesAssumption DEF Times
<1> QED
  BY <1>1, <1>4

\* At any time a diagram tells how much is taken: all of a queue that its calendar
\* closes, otherwise what the jobs that have been entered take then, whatever they
\* are and in whatever order they come (utilization_add, set_utilization).  No job
\* runs into a closed time or ends just when one begins.
THEOREM DiagramsTell ==
  ASSUME ~Overlaps, QuietCalendars
  PROVE  Spec => []DiagramTellsWhatIsTaken
<1>1. ScheduleInv => DiagramTellsWhatIsTaken
  <2> SUFFICES ASSUME ScheduleInv, NEW r \in Resources, NEW t \in Times
               PROVE  At(diagram[r], t) = Taken(r, t)
    BY DEF DiagramTellsWhatIsTaken
  <2>1. t \in Nat /\ t < Infinity
    BY TimesAre
  <2>2. At(diagram[r], t) = TakenIn(planned, closed, r, t)
    BY <2>1 DEF ScheduleInv, Consistent, Told
  <2> QED
    BY <2>2 DEF TakenIn, ClosedIn, PlannedIn, Parts, Taken, Closed, Planned
<1> QED
  BY <1>1, AlwaysScheduleInv, PTL

\* Running, started and reserved jobs never take more than there is, at no time
\* and of no resource, and no job is started or reserved for a time in which a
\* calendar closes its queue (select_assign_debit, add_calendar_to_schedule).
THEOREM NothingIsOverbooked ==
  ASSUME ~Overlaps, QuietCalendars
  PROVE  Spec => []NotOverbooked
<1>1. ScheduleInv => NotOverbooked
  <2> SUFFICES ASSUME ScheduleInv, NEW r \in Resources, NEW t \in Times
               PROVE  IF Closed(r, t)
                      THEN \A b \in ToSet(planned) :
                             b.how # "running" /\ b.start <= t /\ t < b.end => b.demand[r] = 0
                      ELSE Planned(r, t) <= Total[r]
    BY DEF NotOverbooked
  <2>1. t \in Nat /\ Now <= t /\ t < Infinity
    BY TimesAre
  <2>2. Room(planned, closed, r, t)
    BY <2>1 DEF ScheduleInv, Consistent, NotTooMuch
  <2>3. Closed(r, t) <=> ClosedIn(closed, r, t)
    BY DEF Closed, ClosedIn
  <2>4. CASE Closed(r, t)
    <3> SUFFICES ASSUME NEW b \in ToSet(planned), b.how # "running",
                        b.start <= t, t < b.end
                 PROVE  b.demand[r] = 0
      BY <2>4
    <3>1. PICK i \in 1 .. Len(planned) : b = planned[i]
      <4>1. planned \in Seq(Plans)
        BY DEF ScheduleInv, Consistent, Entries
      <4> QED
        BY <4>1 DEF ToSet
    <3> QED
      BY <2>2, <2>3, <2>4, <3>1 DEF Room, Covers
  <2>5. CASE ~Closed(r, t)
    <3>1. PlannedIn(planned, r, t) <= Total[r]
      BY <2>2, <2>3, <2>5 DEF Room
    <3>2. PlannedIn(planned, r, t) = Planned(r, t)
      BY DEF PlannedIn, Parts, Planned
    <3> QED
      BY <2>5, <3>1, <3>2
  <2> QED
    BY <2>4, <2>5
<1> QED
  BY <1>1, AlwaysScheduleInv, PTL
=============================================================================

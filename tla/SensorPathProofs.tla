-------------------------- MODULE SensorPathProofs --------------------------
(***************************************************************************)
(* Theorems about the two ends of a sensor's path: FifoInterrupt, where    *)
(* the firmware takes the samples out of the sensor, and PacketStream,     *)
(* where the collector cuts, counts and stores what arrives and reads the  *)
(* file back.  The loops of PacketStream are recursive functions over      *)
(* byte sequences of any length; that they compute something at all, and   *)
(* what, is shown here by induction over the length.                       *)
(***************************************************************************)
EXTENDS PacketStream, FifoInterrupt, FiniteSetTheorems, WellFoundedInduction,
        SequenceTheorems, TLAPS

-----------------------------------------------------------------------------
(* The sensor's FIFO (FifoInterrupt) *)

LEMMA FifoTypeStep ==
  ASSUME FifoTypeOK, [FifoNext]_fifoVars
  PROVE  FifoTypeOK'
<1>1. CASE Convert
  BY <1>1, FifoAssumption DEF FifoTypeOK, Convert
<1>2. CASE LineBreaks \/ fifo_isr
  <2>1. wired' \in BOOLEAN /\ armed' \in BOOLEAN /\ sem' \in BOOLEAN
    BY <1>2, Zenon DEF FifoTypeOK, LineBreaks, fifo_isr
  <2>2. UNCHANGED <<level, intMode, intEnabled, miss, pc, avail>>
    BY <1>2 DEF LineBreaks, fifo_isr
  <2> QED
    BY <2>1, <2>2 DEF FifoTypeOK
<1>3. CASE TakeSem \/ PollDelay
  <2>1. sem' \in BOOLEAN /\ pc' = "status"
    BY <1>3, Zenon DEF FifoTypeOK, TakeSem, PollDelay
  <2>2. miss' \in 0..(MissMax + 1) /\ (intEnabled => miss' <= MissMax)
    BY <1>3, FifoAssumption DEF FifoTypeOK, TakeSem, PollDelay
  <2>3. UNCHANGED <<level, wired, armed, intMode, intEnabled, avail>>
    BY <1>3 DEF TakeSem, PollDelay
  <2> QED
    BY <2>1, <2>2, <2>3 DEF FifoTypeOK
<1>4. CASE TakeTimesOut
  <2>1. miss' \in 0..(MissMax + 1) /\ (intEnabled' => miss' <= MissMax)
    BY <1>4, FifoAssumption DEF FifoTypeOK, TakeTimesOut, GivesUp
  <2>2. intEnabled' \in BOOLEAN
    BY <1>4 DEF TakeTimesOut
  <2> QED
    BY <1>4, <2>1, <2>2 DEF FifoTypeOK, TakeTimesOut
<1>5. CASE Status
  BY <1>5, FifoAssumption DEF FifoTypeOK, Status, AfterStatusError
<1>6. CASE ReadBurst
  BY <1>6, FifoAssumption DEF FifoTypeOK, ReadBurst, Want
<1>7. CASE Rearm
  <2>1. armed' \in BOOLEAN
    BY <1>7 DEF Rearm
  <2>2. avail' \in 0..level'
    BY <1>7, FifoAssumption DEF FifoTypeOK, Rearm
  <2> QED
    BY <1>7, <2>1, <2>2 DEF FifoTypeOK, Rearm
<1>8. CASE UNCHANGED fifoVars
  BY <1>8 DEF FifoTypeOK, fifoVars
<1> QED
  BY <1>1, <1>2, <1>3, <1>4, <1>5, <1>6, <1>7, <1>8 DEF FifoNext, Task

\* Every variable keeps its type: in particular a burst never takes more than the FIFO
\* holds, and a task in interrupt mode has not reached its limit of misses.
THEOREM FifoTypeCorrect == FifoSpec => []FifoTypeOK
<1>1. FifoInit => FifoTypeOK
  <2> SUFFICES ASSUME FifoInit PROVE FifoTypeOK
    OBVIOUS
  <2>1. level = 0 /\ avail = 0 /\ miss = 0 /\ 0 \in 0..FifoSize /\ 0 \in 0..level
    BY FifoAssumption DEF FifoInit
  <2>2. wired \in BOOLEAN /\ armed \in BOOLEAN /\ sem \in BOOLEAN
    BY Zenon DEF FifoInit
  <2>3. intMode \in BOOLEAN /\ intEnabled \in BOOLEAN
    BY Zenon DEF FifoInit
  <2>4. miss \in 0..(MissMax + 1) /\ miss <= MissMax /\ pc = "wait"
    BY FifoAssumption DEF FifoInit
  <2> QED
    BY <2>1, <2>2, <2>3, <2>4 DEF FifoTypeOK
<1>2. FifoTypeOK /\ [FifoNext]_fifoVars => FifoTypeOK'
  BY FifoTypeStep
<1> QED
  BY <1>1, <1>2, PTL DEF FifoSpec

LEMMA NeverDeafStep ==
  ASSUME NeverDeaf, [FifoNext]_fifoVars
  PROVE  NeverDeaf'
<1>1. CASE Convert \/ LineBreaks \/ fifo_isr
  BY <1>1 DEF NeverDeaf, Convert, LineBreaks, fifo_isr
<1>2. CASE TakeSem \/ TakeTimesOut \/ PollDelay
  BY <1>2 DEF NeverDeaf, TakeSem, TakeTimesOut, PollDelay
<1>3. CASE Status \/ ReadBurst \/ Rearm
  BY <1>3 DEF NeverDeaf, Status, AfterStatusError, ReadBurst, Rearm
<1>4. CASE UNCHANGED fifoVars
  BY <1>4 DEF NeverDeaf, fifoVars
<1> QED
  BY <1>1, <1>2, <1>3, <1>4 DEF FifoNext, Task

\* The task that waits for the interrupt can always be woken by one, however the SPI bus
\* fails: NeverDeaf is inductive.
THEOREM AlwaysWakeable == FifoSpec => []NeverDeaf
<1>1. FifoInit => NeverDeaf
  BY DEF FifoInit, NeverDeaf
<1> QED
  BY <1>1, NeverDeafStep, PTL DEF FifoSpec

LEMMA FallbackStep ==
  ASSUME FifoTypeOK, NeverDeaf, FallbackMeansBroken, [FifoNext]_fifoVars
  PROVE  FallbackMeansBroken'
<1>1. CASE Convert \/ LineBreaks \/ fifo_isr
  BY <1>1 DEF FifoTypeOK, FallbackMeansBroken, Convert, LineBreaks, fifo_isr
<1>2. CASE TakeSem \/ PollDelay
  BY <1>2 DEF FallbackMeansBroken, TakeSem, PollDelay
<1>3. CASE Status \/ ReadBurst \/ Rearm
  BY <1>3 DEF FallbackMeansBroken, Status, ReadBurst, Rearm
<1>4. CASE TakeTimesOut
  <2>1. ~wired /\ UNCHANGED <<wired, intMode>>
    BY <1>4 DEF FifoTypeOK, NeverDeaf, TakeTimesOut
  <2> QED
    BY <2>1 DEF FallbackMeansBroken
<1>5. CASE UNCHANGED fifoVars
  BY <1>5 DEF FallbackMeansBroken, fifoVars
<1> QED
  BY <1>1, <1>2, <1>3, <1>4, <1>5 DEF FifoNext, Task

\* A board whose line works never loses interrupt mode: a time-out needs a masked line
\* and no semaphore, which NeverDeaf excludes.
THEOREM WorkingLineKeepsInterrupts == FifoSpec => []FallbackMeansBroken
<1>1. FifoInit => FallbackMeansBroken
  BY DEF FifoInit, FallbackMeansBroken
<1> QED
  BY <1>1, FallbackStep, FifoTypeCorrect, AlwaysWakeable, PTL DEF FifoSpec

-----------------------------------------------------------------------------
(* Induction, with a set where the library's theorems take an operator *)

LEMMA StrongInduction ==
  ASSUME NEW T, \A n \in Nat : (\A m \in 0..(n - 1) : m \in T) => n \in T
  PROVE  \A n \in Nat : n \in T
<1> DEFINE bad == {n \in Nat : n \notin T}
<1> SUFFICES ASSUME bad # {} PROVE FALSE
  OBVIOUS
<1>1. PICK x \in bad : \A y \in bad : ~(<<y, x>> \in OpToRel(<, Nat))
  BY NatLessThanWellFounded, WFMin
<1>2. ASSUME NEW y \in bad PROVE ~(y < x)
  <2>1. <<y, x>> \in Nat \X Nat /\ <<y, x>>[1] = y /\ <<y, x>>[2] = x
    BY <1>1, <1>2
  <2> QED BY <1>1, <2>1, Zenon DEF OpToRel
<1>3. x \in Nat /\ x \notin T
  OBVIOUS
<1>4. \A m \in 0..(x - 1) : m \in T
  <2> SUFFICES ASSUME NEW m \in 0..(x - 1), m \notin T PROVE FALSE
    OBVIOUS
  <2>1. m \in Nat /\ m < x
    BY <1>3
  <2> QED BY <1>2, <2>1
<1> QED BY <1>3, <1>4

LEMMA Induction ==
  ASSUME NEW T, 0 \in T, \A n \in Nat : n \in T => n + 1 \in T
  PROVE  \A n \in Nat : n \in T
<1>1. ASSUME NEW n \in Nat, \A m \in 0..(n - 1) : m \in T PROVE n \in T
  <2>1. CASE n = 0
    BY <2>1
  <2>2. CASE n # 0
    <3>1. n - 1 \in Nat /\ n - 1 \in 0..(n - 1) /\ (n - 1) + 1 = n
      BY <2>2
    <3> QED BY <1>1, <3>1
  <2> QED BY <2>1, <2>2
<1> QED BY <1>1, StrongInduction

\* A nonempty set of numbers has a least one.
LEMMA LeastNumber ==
  ASSUME NEW S \in SUBSET Nat, S # {}
  PROVE  \E x \in S : \A y \in S : x <= y
<1> SUFFICES ASSUME \A x \in S : \E y \in S : y < x PROVE FALSE
  OBVIOUS
<1> DEFINE T == {n \in Nat : n \notin S}
<1>1. ASSUME NEW n \in Nat, \A m \in 0..(n - 1) : m \in T PROVE n \in T
  <2>1. \A m \in S : ~(m < n)
    <3> SUFFICES ASSUME NEW m \in S, m < n PROVE FALSE
      OBVIOUS
    <3>1. m \in 0..(n - 1)
      OBVIOUS
    <3> QED BY <1>1, <3>1
  <2> QED BY <2>1
<1>2. \A n \in Nat : n \in T
  <2> HIDE DEF T
  <2> QED BY <1>1, StrongInduction
<1> QED BY <1>2

\* A function given by its first value and a step exists.
Sequenced(S, s0, F) ==
  \E f \in [Nat -> S] : f[0] = s0 /\ \A n \in Nat : f[n + 1] = F[n][f[n]]

LEMMA Recursion ==
  ASSUME NEW S, NEW s0 \in S, NEW F \in [Nat -> [S -> S]]
  PROVE  Sequenced(S, s0, F)
<1> DEFINE Upto(n, g) == /\ g \in [0..n -> S] /\ g[0] = s0
                         /\ \A i \in 0..(n - 1) : g[i + 1] = F[i][g[i]]
           T == {n \in Nat : \E g : Upto(n, g)}
<1>1. \A n \in Nat : n \in T
  <2>1. 0 \in T
    <3> DEFINE g == [i \in 0..0 |-> s0]
    <3>1. Upto(0, g)
      OBVIOUS
    <3> QED BY <3>1
  <2>2. ASSUME NEW n \in Nat, n \in T PROVE n + 1 \in T
    <3>1. PICK g : Upto(n, g)
      BY <2>2
    <3> DEFINE h == [i \in 0..(n + 1) |-> IF i = n + 1 THEN F[n][g[n]] ELSE g[i]]
    <3>2. h \in [0..(n + 1) -> S]
      <4>1. F[n][g[n]] \in S
        BY <3>1
      <4>2. \A i \in 0..(n + 1) : i # n + 1 => g[i] \in S
        BY <3>1
      <4> QED BY <4>1, <4>2
    <3>3. h[0] = s0
      BY <3>1
    <3>4. ASSUME NEW i \in 0..n PROVE h[i + 1] = F[i][h[i]]
      <4>1. h[i] = g[i]
        OBVIOUS
      <4>2. CASE i = n
        BY <4>1, <4>2
      <4>3. CASE i # n
        <5>1. i \in 0..(n - 1) /\ i + 1 # n + 1 /\ i + 1 \in 0..(n + 1)
          BY <4>3
        <5>2. h[i + 1] = g[i + 1]
          BY <5>1
        <5> QED BY <3>1, <4>1, <5>1, <5>2
      <4> QED BY <4>2, <4>3
    <3>5. Upto(n + 1, h)
      <4> HIDE DEF h
      <4>1. (n + 1) - 1 = n
        OBVIOUS
      <4> QED BY <3>2, <3>3, <3>4, <4>1
    <3> HIDE DEF h, Upto
    <3> QED BY <3>5
  <2> HIDE DEF T
  <2> QED BY <2>1, <2>2, Induction
<1>2. ASSUME NEW n \in Nat, NEW k \in Nat, k >= n, NEW g, NEW h, Upto(n, g), Upto(k, h)
      PROVE  \A i \in 0..n : g[i] = h[i]
  <2> DEFINE D == {i \in Nat : i <= n => g[i] = h[i]}
  <2>1. 0 \in D
    BY <1>2
  <2>2. ASSUME NEW i \in Nat, i \in D PROVE i + 1 \in D
    <3> SUFFICES ASSUME i + 1 <= n PROVE g[i + 1] = h[i + 1]
      OBVIOUS
    <3>1. i \in 0..(n - 1) /\ i \in 0..(k - 1) /\ g[i] = h[i]
      BY <1>2, <2>2
    <3> QED BY <1>2, <3>1
  <2>3. \A i \in Nat : i \in D
    <3> HIDE DEF D
    <3> QED BY <2>1, <2>2, Induction
  <2> QED BY <2>3
<1> DEFINE appr(n) == CHOOSE g : Upto(n, g)
           f == [n \in Nat |-> appr(n)[n]]
<1>3. ASSUME NEW n \in Nat PROVE Upto(n, appr(n))
  <2>1. \E g : Upto(n, g)
    BY <1>1
  <2> HIDE DEF Upto
  <2> QED BY <2>1, Zenon
<1> HIDE DEF appr
<1>4. f \in [Nat -> S]
  <2>1. ASSUME NEW n \in Nat PROVE appr(n)[n] \in S
    <3>1. n \in 0..n
      OBVIOUS
    <3> QED BY <1>3, <3>1
  <2> QED BY <2>1
<1>5. f[0] = s0
  BY <1>3
<1>6. ASSUME NEW n \in Nat PROVE f[n + 1] = F[n][f[n]]
  <2>1. appr(n + 1)[n + 1] = F[n][appr(n + 1)[n]]
    <3>1. n \in 0..((n + 1) - 1) /\ n + 1 \in Nat
      OBVIOUS
    <3> QED BY <1>3, <3>1
  <2>2. appr(n + 1)[n] = appr(n)[n]
    <3>1. n + 1 \in Nat /\ n + 1 >= n /\ n \in 0..n
      OBVIOUS
    <3> HIDE DEF Upto
    <3> QED BY <1>2, <1>3, <3>1
  <2> QED BY <2>1, <2>2
<1> HIDE DEF f
<1> QED BY <1>4, <1>5, <1>6 DEF Sequenced

-----------------------------------------------------------------------------
(* Rests of sequences *)

LEMMA FromFacts ==
  ASSUME NEW S, NEW b \in Seq(S), NEW i \in 1..(Len(b) + 1)
  PROVE  /\ From(b, i) \in Seq(S)
         /\ Len(From(b, i)) = Len(b) - i + 1
         /\ \A j \in 1..(Len(b) - i + 1) : From(b, i)[j] = b[i + j - 1]
<1>1. \A j \in i..Len(b) : b[j] \in S
  OBVIOUS
<1>2. i \in Int /\ Len(b) \in Int
  OBVIOUS
<1> QED BY <1>1, <1>2, SubSeqProperties DEF From

LEMMA FromEnds ==
  ASSUME NEW S, NEW b \in Seq(S)
  PROVE  From(b, 1) = b /\ From(b, Len(b) + 1) = <<>>
<1>1. From(b, 1) = b
  BY SubSeqFull DEF From
<1>2. From(b, Len(b) + 1) = <<>>
  <2>1. Len(b) + 1 \in Int /\ Len(b) \in Int /\ Len(b) < Len(b) + 1
    OBVIOUS
  <2> QED BY <2>1, SubSeqEmpty DEF From
<1> QED BY <1>1, <1>2

LEMMA FromConcat ==
  ASSUME NEW S, NEW a \in Seq(S), NEW c \in Seq(S), NEW i \in 1..(Len(a) + 1)
  PROVE  From(a \o c, i) = From(a, i) \o c
<1> DEFINE w == a \o c
           r == From(a, i)
           x == From(w, i)
           y == r \o c
           n == Len(a) - i + 1
<1>1. /\ w \in Seq(S) /\ Len(w) = Len(a) + Len(c)
      /\ \A j \in 1..(Len(a) + Len(c)) : w[j] = IF j <= Len(a) THEN a[j] ELSE c[j - Len(a)]
  BY ConcatProperties
<1>2. r \in Seq(S) /\ Len(r) = n /\ \A j \in 1..n : r[j] = a[i + j - 1]
  BY FromFacts
<1>3. /\ y \in Seq(S) /\ Len(y) = Len(r) + Len(c)
      /\ \A j \in 1..(Len(r) + Len(c)) : y[j] = IF j <= Len(r) THEN r[j] ELSE c[j - Len(r)]
  <2> HIDE DEF r
  <2> QED BY <1>2, ConcatProperties
<1>4. /\ x \in Seq(S) /\ Len(x) = Len(w) - i + 1
      /\ \A j \in 1..(Len(w) - i + 1) : x[j] = w[i + j - 1]
  <2>1. i \in 1..(Len(w) + 1)
    BY <1>1
  <2> HIDE DEF w
  <2> QED BY <1>1, <2>1, FromFacts
<1>5. n \in Nat /\ Len(a) \in Nat /\ Len(c) \in Nat /\ i \in Nat /\ n + i = Len(a) + 1
  OBVIOUS
<1> HIDE DEF w, r, x, y, n
<1>6. Len(x) = Len(y) /\ Len(y) = n + Len(c)
  <2>1. Len(w) = Len(a) + Len(c) /\ Len(r) = n /\ Len(y) = Len(r) + Len(c)
        /\ Len(x) = Len(w) - i + 1
    BY <1>1, <1>2, <1>3, <1>4, Zenon
  <2> QED BY <1>5, <2>1
<1>7. ASSUME NEW j \in 1..(n + Len(c)) PROVE x[j] = y[j]
  <2>1. /\ i + j - 1 \in 1..(Len(a) + Len(c)) /\ j \in 1..(Len(r) + Len(c))
        /\ j \in 1..(Len(w) - i + 1) /\ (i + j - 1) - Len(a) = j - n
        /\ (j <= n <=> i + j - 1 <= Len(a))
    <3>1. Len(w) = Len(a) + Len(c) /\ Len(r) = n
      BY <1>1, <1>2, Zenon
    <3> QED BY <1>5, <3>1
  <2>2. x[j] = IF j <= n THEN a[i + j - 1] ELSE c[j - n]
    BY <1>1, <1>4, <2>1
  <2>3. y[j] = IF j <= n THEN r[j] ELSE c[j - n]
    BY <1>2, <1>3, <2>1
  <2>4. j <= n => r[j] = a[i + j - 1]
    BY <1>2, <1>5
  <2> QED BY <2>2, <2>3, <2>4
<1>8. x = y
  BY <1>3, <1>4, <1>6, <1>7, SeqEqual
<1> QED BY <1>8 DEF x, y, w, r

LEMMA FromFrom ==
  ASSUME NEW S, NEW b \in Seq(S), NEW i \in 1..(Len(b) + 1), NEW k \in 1..(Len(b) - i + 2)
  PROVE  From(From(b, i), k) = From(b, i + k - 1)
<1> DEFINE x == From(From(b, i), k)
           y == From(b, i + k - 1)
           n == Len(b) - i + 1
<1>1. /\ From(b, i) \in Seq(S) /\ Len(From(b, i)) = n
      /\ \A j \in 1..n : From(b, i)[j] = b[i + j - 1]
  BY FromFacts
<1>2. /\ x \in Seq(S) /\ Len(x) = n - k + 1
      /\ \A j \in 1..(n - k + 1) : x[j] = From(b, i)[k + j - 1]
  BY <1>1, FromFacts
<1>3. i + k - 1 \in 1..(Len(b) + 1)
  OBVIOUS
<1>4. /\ y \in Seq(S) /\ Len(y) = n - k + 1
      /\ \A j \in 1..(n - k + 1) : y[j] = b[i + k - 1 + j - 1]
  <2>1. Len(b) - (i + k - 1) + 1 = n - k + 1
    OBVIOUS
  <2> QED BY <1>3, <2>1, FromFacts
<1>5. ASSUME NEW j \in 1..(n - k + 1) PROVE x[j] = y[j]
  <2>1. k + j - 1 \in 1..n /\ i + (k + j - 1) - 1 = i + k - 1 + j - 1
    OBVIOUS
  <2>2. x[j] = b[i + (k + j - 1) - 1]
    BY <1>1, <1>2, <2>1
  <2> QED BY <1>4, <2>1, <2>2
<1> HIDE DEF x, y, n
<1> QED BY <1>2, <1>4, <1>5, SeqEqual DEF x, y

-----------------------------------------------------------------------------
(* The magic and the header *)

LEMMA FindMagicFacts ==
  ASSUME NEW b \in Seq(Nat)
  PROVE  /\ FindMagic(b) \in Nat
         /\ FindMagic(b) = 0 => \A j \in 1..Len(b) : ~MagicAt(b, j)
         /\ FindMagic(b) # 0 => /\ FindMagic(b) \in 1..Len(b) /\ FindMagic(b) < Len(b)
                                /\ MagicAt(b, FindMagic(b))
                                /\ \A j \in 1..(FindMagic(b) - 1) : ~MagicAt(b, j)
<1> DEFINE at == {i \in 1..Len(b) : MagicAt(b, i)}
<1>1. CASE at = {}
  <2>1. FindMagic(b) = 0
    BY <1>1 DEF FindMagic
  <2> QED BY <1>1, <2>1
<1>2. CASE at # {}
  <2>1. at \in SUBSET Nat
    OBVIOUS
  <2>2. \E i \in at : \A j \in at : i <= j
    <3> HIDE DEF at
    <3> QED BY <1>2, <2>1, LeastNumber
  <2>3. FindMagic(b) \in at /\ \A j \in at : FindMagic(b) <= j
    <3>1. FindMagic(b) = CHOOSE i \in at : \A j \in at : i <= j
      BY <1>2 DEF FindMagic
    <3> HIDE DEF at
    <3> QED BY <2>2, <3>1, Zenon
  <2>4. FindMagic(b) \in 1..Len(b) /\ MagicAt(b, FindMagic(b)) /\ FindMagic(b) < Len(b)
    BY <2>3 DEF MagicAt
  <2>5. ASSUME NEW j \in 1..(FindMagic(b) - 1) PROVE ~MagicAt(b, j)
    <3>1. j \in 1..Len(b) /\ ~(FindMagic(b) <= j)
      BY <2>4
    <3> QED BY <2>3, <3>1
  <2> QED BY <2>4, <2>5
<1> QED BY <1>1, <1>2

LEMMA FindMagicIs ==
  ASSUME NEW b \in Seq(Nat), NEW i \in 1..Len(b), MagicAt(b, i),
         \A j \in 1..(i - 1) : ~MagicAt(b, j)
  PROVE  FindMagic(b) = i
<1>1. FindMagic(b) # 0 /\ FindMagic(b) \in Nat
  BY FindMagicFacts
<1>2. ~(FindMagic(b) < i)
  <2>1. FindMagic(b) < i => FindMagic(b) \in 1..(i - 1)
    BY <1>1
  <2> QED BY <1>1, <2>1, FindMagicFacts
<1>3. ~(i < FindMagic(b))
  <2>1. i < FindMagic(b) => i \in 1..(FindMagic(b) - 1)
    BY <1>1
  <2> QED BY <1>1, <2>1, FindMagicFacts
<1> QED BY <1>1, <1>2, <1>3

LEMMA FindMagicNone ==
  ASSUME NEW b \in Seq(Nat), \A j \in 1..Len(b) : ~MagicAt(b, j)
  PROVE  FindMagic(b) = 0
BY FindMagicFacts

\* The magic stands in a rest where it stands in the whole.
LEMMA MagicInRest ==
  ASSUME NEW b \in Seq(Nat), NEW i \in 1..(Len(b) + 1), NEW j \in 1..(Len(b) - i + 1)
  PROVE  MagicAt(From(b, i), j) = MagicAt(b, i + j - 1)
<1>1. /\ Len(From(b, i)) = Len(b) - i + 1
      /\ \A k \in 1..(Len(b) - i + 1) : From(b, i)[k] = b[i + k - 1]
  BY FromFacts
<1>2. CASE j = Len(b) - i + 1
  BY <1>1, <1>2 DEF MagicAt
<1>3. CASE j < Len(b) - i + 1
  <2>1. j + 1 \in 1..(Len(b) - i + 1) /\ i + (j + 1) - 1 = (i + j - 1) + 1
    BY <1>3
  <2>2. From(b, i)[j] = b[i + j - 1]
    BY <1>1
  <2>3. From(b, i)[j + 1] = b[(i + j - 1) + 1]
    <3>1. From(b, i)[j + 1] = b[i + (j + 1) - 1]
      BY <1>1, <2>1
    <3> QED BY <2>1, <3>1
  <2>4. j < Len(From(b, i)) /\ i + j - 1 < Len(b)
    BY <1>1, <1>3
  <2> QED BY <2>2, <2>3, <2>4 DEF MagicAt
<1> QED BY <1>2, <1>3

\* What follows does not move a magic, and takes part in one at the end at most.
LEMMA MagicInConcat ==
  ASSUME NEW a \in Seq(Nat), NEW c \in Seq(Nat), NEW j \in 1..Len(a)
  PROVE  /\ j < Len(a) => MagicAt(a \o c, j) = MagicAt(a, j)
         /\ MagicAt(a, j) => MagicAt(a \o c, j)
<1>1. j < Len(a) => /\ (a \o c)[j] = a[j] /\ (a \o c)[j + 1] = a[j + 1]
                    /\ j < Len(a \o c)
  OBVIOUS
<1> QED BY <1>1 DEF MagicAt

LEMMA ModulusFacts ==
  /\ Modulus \in Nat \ {0} /\ GapLimit \in 1..(Modulus - 1)
  /\ \A n \in Int : n % Modulus \in 0..(Modulus - 1)
  /\ \A n \in 0..(Modulus - 1) : n % Modulus = n
  /\ \A n \in (-Modulus)..(-1) : n % Modulus = n + Modulus
  /\ Modulus % Modulus = 0
BY StreamAssumption

Headers == [version : Nat, count : Nat, seq : 0..(Modulus - 1), size : {0, 5, 6}]

LEMMA HeaderFacts ==
  ASSUME NEW b \in Seq(Nat)
  PROVE  /\ Header(b) \in Headers
         /\ Header(b).size <= Len(b)
         /\ Header(b) # NoHeader => /\ Header(b).size \in {5, 6} /\ MagicAt(b, 1)
                                    /\ Header(b).size = HeaderSize(b[3])
                                    /\ Header(b).version = b[3] /\ Header(b).count = b[4]
                                    /\ Header(b).seq = b[5] % Modulus
         /\ Plausible(Header(b)) => Header(b) # NoHeader /\ Header(b).count \in 1..MaxSamples
         /\ Total(Header(b)) \in Nat
<1>1. CASE Len(b) >= 5 /\ MagicAt(b, 1) /\ Len(b) >= HeaderSize(b[3])
  <2>1. b[3] \in Nat /\ b[4] \in Nat /\ b[5] \in Nat
    BY <1>1
  <2>2. b[5] % Modulus \in 0..(Modulus - 1)
    <3>1. \A n \in Int : n % Modulus \in 0..(Modulus - 1)
      BY ModulusFacts
    <3>2. b[5] \in Int
      BY <2>1
    <3> QED BY <3>1, <3>2, Zenon
  <2>3. HeaderSize(b[3]) \in {5, 6}
    BY <2>1 DEF HeaderSize, MagicLen, Magic
  <2>4. Header(b) = [version |-> b[3], count |-> b[4], seq |-> b[5] % Modulus,
                     size |-> HeaderSize(b[3])]
    BY <1>1 DEF Header, HeaderSize, MagicLen, Magic
  <2>5. Header(b) # NoHeader
    BY <2>3, <2>4 DEF NoHeader
  <2> QED BY <1>1, <2>1, <2>2, <2>3, <2>4, <2>5 DEF Headers, Plausible, Total
<1>2. CASE ~(Len(b) >= 5 /\ MagicAt(b, 1) /\ Len(b) >= HeaderSize(b[3]))
  <2>1. Header(b) = NoHeader
    BY <1>2 DEF Header, HeaderSize, MagicLen, Magic
  <2>2. 0 \in 0..(Modulus - 1)
    BY ModulusFacts
  <2> QED BY <2>1, <2>2 DEF NoHeader, Headers, Plausible, Total
<1> QED BY <1>1, <1>2

\* A header that is there stays, whatever follows.
LEMMA HeaderOfConcat ==
  ASSUME NEW a \in Seq(Nat), NEW c \in Seq(Nat), Header(a) # NoHeader
  PROVE  Header(a \o c) = Header(a)
<1>1. /\ Len(a) >= 5 /\ MagicAt(a, 1) /\ Len(a) >= HeaderSize(a[3])
  BY DEF Header, HeaderSize, MagicLen, Magic
<1>2. /\ (a \o c)[3] = a[3] /\ (a \o c)[4] = a[4] /\ (a \o c)[5] = a[5]
      /\ Len(a \o c) >= Len(a) /\ Len(a) \in Nat /\ Len(a \o c) \in Nat
  BY <1>1
<1>3. MagicAt(a \o c, 1)
  BY <1>1, MagicInConcat
<1>4. HeaderSize(a[3]) \in Nat
  BY <1>1 DEF HeaderSize, MagicLen, Magic
<1> QED BY <1>1, <1>2, <1>3, <1>4 DEF Header, HeaderSize, MagicLen, Magic

-----------------------------------------------------------------------------
(* Loops *)

\* A loop that goes on as long as a turn changes something, each such turn making something
\* smaller, computes a function.
LEMMA LoopExists ==
  ASSUME NEW S, NEW Turn \in [S -> S], NEW Size \in [S -> Nat],
         \A s \in S : Turn[s] # s => Size[Turn[s]] < Size[s]
  PROVE  \E g \in [S -> S] : \A s \in S : g[s] = IF Turn[s] = s THEN s ELSE g[Turn[s]]
<1>1. PICK Fs : Fs = [S -> S]
  OBVIOUS
<1>2. PICK id \in Fs : TRUE
  <2>1. [s \in S |-> s] \in [S -> S]
    OBVIOUS
  <2> QED BY <1>1, <2>1
<1> DEFINE again(g) == [s \in S |-> IF Turn[s] = s THEN s ELSE g[Turn[s]]]
<1>3. PICK F \in [Nat -> [Fs -> Fs]] : \A n \in Nat, g \in Fs : F[n][g] = again(g)
  <2>1. ASSUME NEW g \in Fs PROVE again(g) \in Fs
    BY <1>1
  <2> HIDE DEF again
  <2>2. [n \in Nat |-> [g \in Fs |-> again(g)]] \in [Nat -> [Fs -> Fs]]
    BY <2>1
  <2> QED BY <2>2
<1>4. PICK f \in [Nat -> Fs] : f[0] = id /\ \A n \in Nat : f[n + 1] = F[n][f[n]]
  <2>1. id \in Fs /\ F \in [Nat -> [Fs -> Fs]]
    BY <1>2, <1>3
  <2>2. Sequenced(Fs, id, F)
    BY <2>1, Recursion
  <2> QED BY <2>2 DEF Sequenced
<1>5. ASSUME NEW n \in Nat, NEW s \in S
      PROVE  f[n + 1][s] = IF Turn[s] = s THEN s ELSE f[n][Turn[s]]
  <2>1. f[n] \in Fs
    BY <1>4
  <2>2. f[n + 1] = again(f[n])
    <3> HIDE DEF again
    <3> QED BY <1>3, <1>4, <2>1
  <2> QED BY <2>2
<1>6. \A n \in Nat : f[n] \in [S -> S]
  BY <1>1, <1>4
<1> HIDE DEF again
<1> DEFINE D == {k \in Nat : \A s \in S : Size[s] = k =>
                    \A n \in Nat : n > k => f[n][s] = f[k + 1][s]}
<1>7. ASSUME NEW k \in Nat, \A j \in 0..(k - 1) : j \in D PROVE k \in D
  <2> SUFFICES ASSUME NEW s \in S, Size[s] = k, NEW n \in Nat, n > k
               PROVE  f[n][s] = f[k + 1][s]
    OBVIOUS
  <2>1. n - 1 \in Nat /\ (n - 1) + 1 = n
    OBVIOUS
  <2>2. f[n][s] = IF Turn[s] = s THEN s ELSE f[n - 1][Turn[s]]
    <3>1. f[(n - 1) + 1][s] = IF Turn[s] = s THEN s ELSE f[n - 1][Turn[s]]
      BY <1>5, <2>1, Zenon
    <3> QED BY <2>1, <3>1
  <2>3. f[k + 1][s] = IF Turn[s] = s THEN s ELSE f[k][Turn[s]]
    BY <1>5
  <2>4. ASSUME Turn[s] # s PROVE f[n - 1][Turn[s]] = f[k][Turn[s]]
    <3>1. Turn[s] \in S /\ Size[Turn[s]] \in 0..(k - 1)
      BY <2>4
    <3> DEFINE t == Turn[s]
               m == Size[t]
    <3>2. /\ t \in S /\ m \in Nat /\ m < k /\ n - 1 \in Nat /\ n - 1 > m /\ m \in D
      BY <1>7, <2>1, <3>1
    <3>3. f[n - 1][t] = f[m + 1][t] /\ f[k][t] = f[m + 1][t]
      <4> HIDE DEF t
      <4> QED BY <3>2
    <3> QED BY <3>3
  <2> QED BY <2>2, <2>3, <2>4
<1>8. \A k \in Nat : k \in D
  <2> HIDE DEF D
  <2> QED BY <1>7, StrongInduction
<1> DEFINE g == [s \in S |-> f[Size[s] + 1][s]]
<1>9. g \in [S -> S]
  BY <1>6
<1>10. ASSUME NEW s \in S PROVE g[s] = IF Turn[s] = s THEN s ELSE g[Turn[s]]
  <2>1. Size[s] \in Nat
    OBVIOUS
  <2>2. g[s] = IF Turn[s] = s THEN s ELSE f[Size[s]][Turn[s]]
    BY <1>5, <2>1
  <2>3. ASSUME Turn[s] # s PROVE f[Size[s]][Turn[s]] = g[Turn[s]]
    <3> DEFINE t == Turn[s]
               m == Size[t]
    <3>1. t \in S /\ m \in Nat /\ Size[s] > m /\ m \in D
      BY <1>8, <2>3
    <3>2. f[Size[s]][t] = f[m + 1][t]
      <4> HIDE DEF t
      <4> QED BY <2>1, <3>1
    <3> QED BY <3>1, <3>2
  <2> QED BY <2>2, <2>3
<1> HIDE DEF g
<1> QED BY <1>9, <1>10

-----------------------------------------------------------------------------
(* A turn of the serial parser *)

Links == [last : Nat \cup {NoSeq}, lost : Nat, resync : Nat, out : Seq(Packet)]

LEMMA CuttingsFacts ==
  /\ \A s \in Cuttings : s.buf \in Seq(Nat) /\ s.link \in Links
                         /\ s = [buf |-> s.buf, link |-> s.link]
  /\ \A b \in Seq(Nat), l \in Links : [buf |-> b, link |-> l] \in Cuttings
  /\ NoLink \in Links
BY DEF Cuttings, Links, NoLink

LEMMA SkipFacts ==
  ASSUME NEW l \in Links, NEW n \in Nat
  PROVE  /\ Skip(l, n) \in Links /\ Skip(l, n).resync = l.resync + n
         /\ Skip(l, 0) = l
         /\ Skip(l, n).out = l.out /\ Skip(l, n).lost = l.lost /\ Skip(l, n).last = l.last
         /\ \A m \in Nat : Skip(Skip(l, n), m) = Skip(l, n + m)
<1>1. l = [last |-> l.last, lost |-> l.lost, resync |-> l.resync, out |-> l.out]
      /\ l.resync \in Nat
  BY DEF Links
<1>2. \A m \in Nat : Skip(l, m) =
        [last |-> l.last, lost |-> l.lost, resync |-> l.resync + m, out |-> l.out]
  BY <1>1 DEF Skip, Links
<1>3. \A m \in Nat : Skip(l, m) \in Links
  BY <1>2 DEF Links
<1>4. Skip(l, 0) = l
  BY <1>1, <1>2
<1>5. ASSUME NEW m \in Nat PROVE Skip(Skip(l, n), m) = Skip(l, n + m)
  <2>1. Skip(Skip(l, n), m) = [last |-> l.last, lost |-> l.lost,
                               resync |-> l.resync + n + m, out |-> l.out]
    <3> DEFINE k == Skip(l, n)
    <3>1. k = [last |-> l.last, lost |-> l.lost, resync |-> l.resync + n, out |-> l.out]
      BY <1>2
    <3> HIDE DEF k
    <3>2. [k EXCEPT !.resync = @ + m] =
            [last |-> l.last, lost |-> l.lost, resync |-> l.resync + n + m, out |-> l.out]
      BY <3>1
    <3> QED BY <3>2 DEF Skip, k
  <2>2. Skip(l, n + m) = [last |-> l.last, lost |-> l.lost,
                          resync |-> l.resync + (n + m), out |-> l.out]
    BY <1>2
  <2> QED BY <1>1, <2>1, <2>2
<1> QED BY <1>2, <1>3, <1>4, <1>5

LEMMA GapFacts ==
  ASSUME NEW last \in Nat \cup {NoSeq}, NEW seq \in 0..(Modulus - 1)
  PROVE  Gap(last, seq) \in 0..(GapLimit - 1)
<1>1. GapLimit \in Nat \ {0}
  BY ModulusFacts
<1> DEFINE gap == (seq - last - 1) % Modulus
<1>2. gap \in 0..(Modulus - 1)
  <2>1. seq - last - 1 \in Int
    BY ModulusFacts DEF NoSeq
  <2> QED BY <2>1, ModulusFacts, Zenon
<1>3. Gap(last, seq) = IF last # NoSeq /\ 0 < gap /\ gap < GapLimit THEN gap ELSE 0
  BY DEF Gap
<1> HIDE DEF gap
<1> QED BY <1>1, <1>2, <1>3

LEMMA AcceptFacts ==
  ASSUME NEW l \in Links, NEW p \in Packet
  PROVE  /\ Accept(l, p) \in Links
         /\ Accept(l, p).lost = l.lost + Gap(l.last, p.seq)
         /\ Accept(l, p).last = p.seq /\ Accept(l, p).out = Append(l.out, p)
         /\ Accept(l, p).resync = l.resync
<1>1. Gap(l.last, p.seq) \in Nat
  <2>1. l.last \in Nat \cup {NoSeq} /\ p.seq \in 0..(Modulus - 1)
    BY DEF Links, Packet
  <2>2. Gap(l.last, p.seq) \in 0..(GapLimit - 1)
    BY <2>1, GapFacts
  <2> QED BY <2>2, ModulusFacts
<1>2. p.seq \in Nat
  BY ModulusFacts DEF Packet
<1>3. Append(l.out, p) \in Seq(Packet)
  BY DEF Links
<1>4. Accept(l, p) = [last |-> p.seq, lost |-> l.lost + Gap(l.last, p.seq),
                      resync |-> l.resync, out |-> Append(l.out, p)]
  <2> DEFINE a == l.last
             b == l.lost
             c == l.resync
             d == l.out
             g == Gap(l.last, p.seq)
             q == p.seq
             o == Append(l.out, p)
  <2>1. l = [last |-> a, lost |-> b, resync |-> c, out |-> d]
    BY DEF Links
  <2>2. Accept(l, p) = [l EXCEPT !.lost = b + g, !.last = q, !.out = o]
    BY DEF Accept
  <2> HIDE DEF a, b, c, d, g, q, o
  <2> DEFINE x == [last |-> a, lost |-> b + g, resync |-> c, out |-> d]
             y == [last |-> q, lost |-> b + g, resync |-> c, out |-> d]
             z == [last |-> q, lost |-> b + g, resync |-> c, out |-> o]
  <2>3. [l EXCEPT !.lost = b + g] = x
    BY <2>1
  <2>4. [x EXCEPT !.last = q] = y
    OBVIOUS
  <2>5. [y EXCEPT !.out = o] = z
    OBVIOUS
  <2> HIDE DEF x, y, z
  <2>6. Accept(l, p) = z
    BY <2>2, <2>3, <2>4, <2>5
  <2> QED BY <2>6 DEF a, b, c, d, g, q, o, z
<1>5. Accept(l, p) \in Links
  BY <1>1, <1>2, <1>3, <1>4 DEF Links
<1> QED BY <1>4, <1>5

LEMMA PacketOfFacts ==
  ASSUME NEW b \in Seq(Nat), Total(Header(b)) <= Len(b)
  PROVE  /\ PacketOf(b, Header(b)) \in Packet
         /\ Payload(b, Header(b)) \in Seq(Nat)
         /\ Len(Payload(b, Header(b))) = Header(b).count
<1> DEFINE h == Header(b)
<1>1. h \in Headers /\ h.size \in Nat /\ h.count \in Nat /\ h.version \in Nat
      /\ h.seq \in 0..(Modulus - 1) /\ h.size + h.count <= Len(b)
  BY HeaderFacts DEF Headers, Total
<1> HIDE DEF h
<1>2. \A j \in (h.size + 1)..(h.size + h.count) : b[j] \in Nat
  BY <1>1
<1>3. /\ SubSeq(b, h.size + 1, h.size + h.count) \in Seq(Nat)
      /\ Len(SubSeq(b, h.size + 1, h.size + h.count)) = h.count
  <2>1. h.size + 1 \in Int /\ h.size + h.count \in Int
    BY <1>1
  <2>2. SubSeq(b, h.size + 1, h.size + h.count) \in Seq(Nat)
    BY <1>2, <2>1, SubSeqProperties, Zenon
  <2>3. Len(SubSeq(b, h.size + 1, h.size + h.count)) = h.count
    <3> DEFINE m == h.size + 1
               n == h.size + h.count
    <3>1. Len(SubSeq(b, m, n)) = IF m <= n THEN n - m + 1 ELSE 0
      <4>1. m \in Int /\ n \in Int /\ \A j \in m..n : b[j] \in Nat
        <5>1. m \in Int /\ n \in Int
          BY <2>1
        <5>2. \A j \in m..n : b[j] \in Nat
          BY <1>2
        <5> QED BY <5>1, <5>2
      <4> HIDE DEF m, n
      <4> QED BY <4>1, SubSeqProperties
    <3> QED BY <1>1, <3>1
  <2> QED BY <2>2, <2>3
<1> QED BY <1>1, <1>3 DEF h, PacketOf, Payload, Total, Packet

\* The five cases of a turn.
LEMMA CutCases ==
  ASSUME NEW b \in Seq(Nat), NEW l
  PROVE  LET i == FindMagic(b)
             h == Header(b)
             c == Cut([buf |-> b, link |-> l])
         IN /\ i = 0 => c = [buf  |-> KeepTail(b),
                             link |-> Skip(l, Len(b) - Len(KeepTail(b)))]
            /\ i > 1 => c = [buf |-> From(b, i), link |-> Skip(l, i - 1)]
            /\ i = 1 /\ h # NoHeader /\ ~Plausible(h) =>
                 c = [buf |-> From(b, MagicLen + 1), link |-> Skip(l, MagicLen)]
            /\ i = 1 /\ Plausible(h) /\ Total(h) <= Len(b) =>
                 c = [buf |-> Rest(b, h), link |-> Accept(l, PacketOf(b, h))]
            /\ i = 1 /\ (h = NoHeader \/ (Plausible(h) /\ Total(h) > Len(b))) =>
                 c = [buf |-> b, link |-> l]
<1> DEFINE i == FindMagic(b)
           h == Header(b)
           s == [buf |-> b, link |-> l]
<1>1. i \in Nat /\ Total(h) \in Nat /\ Len(b) \in Nat
  BY FindMagicFacts, HeaderFacts
<1>2. Cut(s) = CASE i = 0 ->
            [buf |-> KeepTail(b), link |-> Skip(l, Len(b) - Len(KeepTail(b)))]
       [] i > 1 -> [buf |-> From(b, i), link |-> Skip(l, i - 1)]
       [] i = 1 /\ h # NoHeader /\ ~Plausible(h) ->
            [buf |-> From(b, MagicLen + 1), link |-> Skip(l, MagicLen)]
       [] i = 1 /\ Plausible(h) /\ Total(h) <= Len(b) ->
            [buf |-> Rest(b, h), link |-> Accept(l, PacketOf(b, h))]
       [] OTHER -> s
  BY DEF Cut
<1>3. ~Plausible(NoHeader)
  BY DEF Plausible, NoHeader
<1> HIDE DEF i, h
<1> QED BY <1>1, <1>2, <1>3 DEF i, h

LEMMA KeepTailFacts ==
  ASSUME NEW b \in Seq(Nat)
  PROVE  /\ KeepTail(b) \in Seq(Nat)
         /\ Len(b) <= 1 => KeepTail(b) = b
         /\ Len(b) > 1 => KeepTail(b) = From(b, Len(b)) /\ Len(KeepTail(b)) = 1
<1>1. MagicLen = 2
  BY DEF MagicLen, Magic
<1>2. CASE Len(b) <= 1
  <2>1. KeepTail(b) = From(b, 1)
    BY <1>1, <1>2 DEF KeepTail
  <2> QED BY <1>2, <2>1, FromEnds
<1>3. CASE Len(b) > 1
  <2>1. KeepTail(b) = From(b, Len(b))
    BY <1>1, <1>3 DEF KeepTail
  <2>2. Len(b) \in 1..(Len(b) + 1)
    BY <1>3
  <2>3. From(b, Len(b)) \in Seq(Nat) /\ Len(From(b, Len(b))) = Len(b) - Len(b) + 1
    BY <2>2, FromFacts
  <2> QED BY <1>3, <2>1, <2>3
<1> QED BY <1>2, <1>3

\* A turn keeps the types; one that changes something leaves fewer bytes.
LEMMA CutOf ==
  ASSUME NEW b \in Seq(Nat), NEW l \in Links, NEW s, s = [buf |-> b, link |-> l]
  PROVE  Cut(s) \in Cuttings /\ (Cut(s) # s => Len(Cut(s).buf) < Len(b))
<1>1. PICK i \in Nat, h \in Headers : i = FindMagic(b) /\ h = Header(b)
  BY FindMagicFacts, HeaderFacts
<1>2. MagicLen = 2 /\ Len(b) \in Nat
  BY DEF MagicLen, Magic
<1>3. (i # 0 => i < Len(b)) /\ Total(h) \in Nat
  BY <1>1, FindMagicFacts, HeaderFacts
<1>4. CASE i = 0
  <2>1. PICK k : k = KeepTail(b)
    OBVIOUS
  <2>2. PICK n : n = Len(b) - Len(k)
    OBVIOUS
  <2>3. Cut(s) = [buf |-> k, link |-> Skip(l, n)]
    BY <1>1, <1>4, <2>1, <2>2, CutCases
  <2>4. /\ k \in Seq(Nat) /\ Len(k) \in Nat
        /\ Len(b) <= 1 => k = b
        /\ Len(b) > 1 => Len(k) = 1
    BY <2>1, KeepTailFacts
  <2>5. n \in Nat
    BY <1>2, <2>2, <2>4
  <2>6. Cut(s) \in Cuttings
    BY <2>3, <2>4, <2>5, SkipFacts, CuttingsFacts
  <2>7. CASE Len(b) <= 1
    <3>1. k = b /\ n = 0
      BY <1>2, <2>2, <2>4, <2>7
    <3>2. Cut(s) = s
      BY <2>3, <3>1, SkipFacts
    <3> QED BY <2>6, <3>2
  <2>8. CASE Len(b) > 1
    <3>1. Cut(s).buf = k /\ Len(k) = 1
      BY <2>3, <2>4, <2>8
    <3> QED BY <2>6, <2>8, <3>1
  <2> QED BY <1>2, <2>7, <2>8
<1>5. CASE i > 1
  <2>1. Cut(s) = [buf |-> From(b, i), link |-> Skip(l, i - 1)]
    BY <1>1, <1>5, CutCases
  <2>2. i \in 1..(Len(b) + 1) /\ i - 1 \in Nat
    BY <1>2, <1>3, <1>5
  <2>3. From(b, i) \in Seq(Nat) /\ Len(From(b, i)) = Len(b) - i + 1
    BY <2>2, FromFacts
  <2>4. Skip(l, i - 1) \in Links
    BY <2>2, SkipFacts
  <2>5. Cut(s) \in Cuttings /\ Cut(s).buf = From(b, i)
    BY <2>1, <2>3, <2>4, CuttingsFacts
  <2> QED BY <1>2, <1>5, <2>3, <2>5
<1>6. CASE i = 1 /\ h # NoHeader /\ ~Plausible(h)
  <2>1. Cut(s) = [buf |-> From(b, MagicLen + 1), link |-> Skip(l, MagicLen)]
    BY <1>1, <1>6, CutCases
  <2>2. MagicLen + 1 \in 1..(Len(b) + 1) /\ MagicLen \in Nat
    BY <1>2, <1>3, <1>6
  <2>3. From(b, MagicLen + 1) \in Seq(Nat) /\ Len(From(b, MagicLen + 1)) = Len(b) - 2
    BY <1>2, <2>2, FromFacts
  <2>4. Skip(l, MagicLen) \in Links
    BY <2>2, SkipFacts
  <2>5. Cut(s) \in Cuttings /\ Cut(s).buf = From(b, MagicLen + 1)
    BY <2>1, <2>3, <2>4, CuttingsFacts
  <2> QED BY <1>2, <2>3, <2>5
<1>7. CASE i = 1 /\ Plausible(h) /\ Total(h) <= Len(b)
  <2>1. Cut(s) = [buf |-> Rest(b, h), link |-> Accept(l, PacketOf(b, h))]
    BY <1>1, <1>7, CutCases
  <2>2. Total(h) + 1 \in 1..(Len(b) + 1) /\ Total(h) > 0
    <3>1. h.size \in {5, 6} /\ h.count \in Nat
      BY <1>1, <1>7, HeaderFacts DEF Headers
    <3> QED BY <1>2, <1>3, <1>7, <3>1 DEF Total
  <2>3. Rest(b, h) \in Seq(Nat) /\ Len(Rest(b, h)) = Len(b) - (Total(h) + 1) + 1
    BY <2>2, FromFacts DEF Rest
  <2>4. Accept(l, PacketOf(b, h)) \in Links
    BY <1>1, <1>7, PacketOfFacts, AcceptFacts
  <2>5. Cut(s) \in Cuttings /\ Cut(s).buf = Rest(b, h)
    BY <2>1, <2>3, <2>4, CuttingsFacts
  <2>6. Len(b) - (Total(h) + 1) + 1 < Len(b)
    BY <1>2, <1>3, <2>2
  <2> QED BY <2>3, <2>5, <2>6
<1>8. CASE i = 1 /\ (h = NoHeader \/ (Plausible(h) /\ Total(h) > Len(b)))
  <2>1. Cut(s) = s
    BY <1>1, <1>8, CutCases
  <2>2. s \in Cuttings
    BY CuttingsFacts
  <2> QED BY <2>1, <2>2
<1>9. (Total(h) <= Len(b) \/ Total(h) > Len(b)) /\ (i = 0 \/ i = 1 \/ i > 1)
  BY <1>2, <1>3
<1> QED BY <1>4, <1>5, <1>6, <1>7, <1>8, <1>9

LEMMA CutFacts ==
  ASSUME NEW s \in Cuttings
  PROVE  Cut(s) \in Cuttings /\ (Cut(s) # s => Len(Cut(s).buf) < Len(s.buf))
<1>1. s.buf \in Seq(Nat) /\ s.link \in Links /\ s = [buf |-> s.buf, link |-> s.link]
  BY CuttingsFacts
<1> QED BY <1>1, CutOf

-----------------------------------------------------------------------------
(* Extract *)

Run(s) == Extract(s.buf, s.link)

\* Extract is the loop it is meant to be.
LEMMA ExtractTurn ==
  /\ \A s \in Cuttings : Run(s) \in Cuttings /\ Run(s) = IF Cut(s) = s THEN s ELSE Run(Cut(s))
<1> DEFINE Loop(g) == g = [s \in Cuttings |-> LET t == Cut(s) IN IF t = s THEN s ELSE g[t]]
           loop == CHOOSE g : Loop(g)
<1>1. \E g : Loop(g) /\ g \in [Cuttings -> Cuttings]
  <2> DEFINE Turn == [s \in Cuttings |-> Cut(s)]
             Size == [s \in Cuttings |-> Len(s.buf)]
  <2>1. Turn \in [Cuttings -> Cuttings]
    BY CutFacts
  <2>2. Size \in [Cuttings -> Nat]
    <3>1. \A s \in Cuttings : Len(s.buf) \in Nat
      BY CuttingsFacts
    <3> QED BY <3>1
  <2>3. \A s \in Cuttings : Turn[s] # s => Size[Turn[s]] < Size[s]
    <3> SUFFICES ASSUME NEW s \in Cuttings, Turn[s] # s PROVE Size[Turn[s]] < Size[s]
      OBVIOUS
    <3>1. Turn[s] = Cut(s) /\ Cut(s) \in Cuttings /\ Len(Cut(s).buf) < Len(s.buf)
      BY CutFacts
    <3>2. Size[Cut(s)] = Len(Cut(s).buf) /\ Size[s] = Len(s.buf)
      BY <3>1
    <3> QED BY <3>1, <3>2
  <2>4. \A s \in Cuttings : Turn[s] = Cut(s)
    OBVIOUS
  <2> HIDE DEF Turn, Size
  <2>5. PICK g \in [Cuttings -> Cuttings] :
          \A s \in Cuttings : g[s] = IF Turn[s] = s THEN s ELSE g[Turn[s]]
    BY <2>1, <2>2, <2>3, LoopExists
  <2>6. \A s \in Cuttings : g[s] = LET t == Cut(s) IN IF t = s THEN s ELSE g[t]
    BY <2>4, <2>5
  <2>7. g = [s \in Cuttings |-> LET t == Cut(s) IN IF t = s THEN s ELSE g[t]]
    BY <2>6
  <2> QED BY <2>7
<1>2. Loop(loop)
  <2> HIDE DEF Loop
  <2> QED BY <1>1, Zenon
<1>3. \A s \in Cuttings : Run(s) = loop[s]
  <2>1. \A s \in Cuttings : s = [buf |-> s.buf, link |-> s.link]
    BY CuttingsFacts
  <2>2. \A s : Run(s) = loop[[buf |-> s.buf, link |-> s.link]]
    BY DEF Run, Extract
  <2> HIDE DEF loop
  <2> QED BY <2>1, <2>2
<1> HIDE DEF loop
<1>4. \A s \in Cuttings : loop[s] = IF Cut(s) = s THEN s ELSE loop[Cut(s)]
  BY <1>2
<1>5. \A s \in Cuttings : Run(s) = IF Cut(s) = s THEN s ELSE Run(Cut(s))
  BY <1>3, <1>4, CutFacts
<1> HIDE DEF Loop
<1> DEFINE D == {n \in Nat : \A s \in Cuttings : Len(s.buf) = n => Run(s) \in Cuttings}
<1>6. ASSUME NEW n \in Nat, \A m \in 0..(n - 1) : m \in D PROVE n \in D
  <2> SUFFICES ASSUME NEW s \in Cuttings, Len(s.buf) = n, Cut(s) # s
               PROVE  Run(Cut(s)) \in Cuttings
    BY <1>5
  <2>1. Cut(s) \in Cuttings /\ Len(Cut(s).buf) < n
    BY CutFacts
  <2>2. Len(Cut(s).buf) \in Nat
    BY <2>1, CuttingsFacts
  <2>3. Len(Cut(s).buf) \in 0..(n - 1)
    BY <2>1, <2>2
  <2> QED BY <1>6, <2>1, <2>3
<1>7. \A n \in Nat : n \in D
  <2> HIDE DEF D
  <2> QED BY <1>6, StrongInduction
<1>8. \A s \in Cuttings : Run(s) \in Cuttings
  <2>1. \A s \in Cuttings : Len(s.buf) \in Nat
    BY CuttingsFacts
  <2> QED BY <1>7, <2>1
<1> QED BY <1>5, <1>8

LEMMA RunOf ==
  ASSUME NEW b \in Seq(Nat), NEW l \in Links
  PROVE  LET s == [buf |-> b, link |-> l]
         IN s \in Cuttings /\ Run(s) = Extract(b, l) /\ Extract(b, l) \in Cuttings
<1>1. [buf |-> b, link |-> l] \in Cuttings
  BY CuttingsFacts
<1>2. Run([buf |-> b, link |-> l]) = Extract(b, l)
  BY DEF Run
<1> QED BY <1>1, <1>2, ExtractTurn

\* What a turn leaves.
LEMMA CutBuf ==
  ASSUME NEW b \in Seq(Nat), NEW l \in Links
  PROVE  LET i == FindMagic(b)
             h == Header(b)
             c == Cut([buf |-> b, link |-> l]).buf
         IN /\ i = 0 => c = KeepTail(b)
            /\ i > 1 => c = From(b, i)
            /\ i = 1 /\ h # NoHeader /\ ~Plausible(h) => c = From(b, MagicLen + 1)
            /\ i = 1 /\ Plausible(h) /\ Total(h) <= Len(b) => c = Rest(b, h)
<1>1. PICK i, h, c : i = FindMagic(b) /\ h = Header(b) /\ c = Cut([buf |-> b, link |-> l])
  OBVIOUS
<1>2. /\ i = 0 => c = [buf  |-> KeepTail(b), link |-> Skip(l, Len(b) - Len(KeepTail(b)))]
      /\ i > 1 => c = [buf |-> From(b, i), link |-> Skip(l, i - 1)]
      /\ i = 1 /\ h # NoHeader /\ ~Plausible(h) =>
           c = [buf |-> From(b, MagicLen + 1), link |-> Skip(l, MagicLen)]
      /\ i = 1 /\ Plausible(h) /\ Total(h) <= Len(b) =>
           c = [buf |-> Rest(b, h), link |-> Accept(l, PacketOf(b, h))]
  BY <1>1, CutCases
<1> QED BY <1>1, <1>2

\* What a turn changes nothing of is less than the longest packet.
LEMMA CutRest ==
  ASSUME NEW s \in Cuttings, Cut(s) = s
  PROVE  Len(s.buf) < HeaderSize(2) + MaxSamples
<1>1. PICK b \in Seq(Nat), l \in Links : s = [buf |-> b, link |-> l] /\ s.buf = b
  <2>1. s.buf \in Seq(Nat) /\ s.link \in Links /\ s = [buf |-> s.buf, link |-> s.link]
    BY CuttingsFacts
  <2> QED BY <2>1
<1>2. PICK i \in Nat, h \in Headers : i = FindMagic(b) /\ h = Header(b)
  BY FindMagicFacts, HeaderFacts
<1>3. MagicLen = 2 /\ HeaderSize(2) = 6 /\ MaxSamples \in Nat \ {0} /\ Len(b) \in Nat
  BY StreamAssumption DEF MagicLen, Magic, HeaderSize
<1>4. i # 0 => i < Len(b) /\ MagicAt(b, i)
  BY <1>2, FindMagicFacts
<1>5. CASE i = 0
  <2> SUFFICES ASSUME Len(b) > 1 PROVE FALSE
    BY <1>1, <1>3
  <2>1. Cut(s).buf = KeepTail(b)
    BY <1>1, <1>2, <1>5, CutBuf
  <2>2. b = KeepTail(b)
    BY <1>1, <2>1
  <2>3. Len(b) = 1
    BY <2>2, KeepTailFacts
  <2> QED BY <1>3, <2>3
<1>6. CASE i > 1
  <2>1. i < Len(b) /\ i \in 1..(Len(b) + 1)
    BY <1>3, <1>6, <1>4
  <2>2. Cut(s).buf = From(b, i)
    BY <1>1, <1>2, <1>6, CutBuf
  <2>3. Len(From(b, i)) = Len(b) - i + 1
    BY <2>1, FromFacts
  <2>4. Len(b) = Len(b) - i + 1
    BY <1>1, <2>2, <2>3
  <2> QED BY <1>3, <1>6, <2>4
<1>7. CASE i = 1 /\ h # NoHeader /\ ~Plausible(h)
  <2>1. Cut(s).buf = From(b, MagicLen + 1)
    BY <1>1, <1>2, <1>7, CutBuf
  <2>2. MagicLen + 1 \in 1..(Len(b) + 1)
    <3>1. i < Len(b)
      BY <1>7, <1>4
    <3> QED BY <1>3, <1>7, <3>1
  <2>3. Len(From(b, MagicLen + 1)) = Len(b) - 2
    BY <1>3, <2>2, FromFacts
  <2>4. Len(b) = Len(b) - 2
    BY <1>1, <2>1, <2>3
  <2> QED BY <1>3, <2>4
<1>8. CASE i = 1 /\ Plausible(h) /\ Total(h) <= Len(b)
  <2>1. Cut(s).buf = Rest(b, h)
    BY <1>1, <1>2, <1>8, CutBuf
  <2>2. Total(h) \in Nat /\ Total(h) > 0
    <3>1. h.size \in {5, 6}
      BY <1>2, <1>8, HeaderFacts
    <3>2. h.count \in Nat
      BY <1>2 DEF Headers
    <3> QED BY <3>1, <3>2 DEF Total
  <2>3. Len(Rest(b, h)) = Len(b) - (Total(h) + 1) + 1
    <3>1. Total(h) + 1 \in 1..(Len(b) + 1)
      BY <1>3, <1>8, <2>2
    <3> QED BY <3>1, FromFacts DEF Rest
  <2>4. Len(b) = Len(b) - (Total(h) + 1) + 1
    BY <1>1, <2>1, <2>3
  <2> QED BY <1>3, <2>2, <2>4
<1>9. CASE i = 1 /\ h = NoHeader
  <2>1. MagicAt(b, 1) /\ Len(b) > 1
    BY <1>3, <1>9, <1>4
  <2>2. Len(b) >= 5 => b[3] \in Nat
    BY <1>3
  <2>3. Len(b) >= 5 => HeaderSize(b[3]) \in {5, 6}
    BY <2>2 DEF HeaderSize, MagicLen, Magic
  <2>4. ~(Len(b) >= 5 /\ MagicAt(b, 1) /\ Len(b) >= HeaderSize(b[3]))
    <3> SUFFICES ASSUME Len(b) >= 5, MagicAt(b, 1), Len(b) >= HeaderSize(b[3]) PROVE FALSE
      OBVIOUS
    <3>1. Header(b).size = HeaderSize(b[3])
      BY DEF Header, HeaderSize, MagicLen, Magic
    <3> QED BY <1>2, <1>9, <2>3, <3>1 DEF NoHeader
  <2> QED BY <1>1, <1>3, <2>1, <2>3, <2>4
<1>10. CASE i = 1 /\ Plausible(h) /\ Total(h) > Len(b)
  <2>1. h.size \in {5, 6} /\ h.count \in 1..MaxSamples
    BY <1>2, <1>10, HeaderFacts
  <2> QED BY <1>1, <1>3, <1>10, <2>1 DEF Total
<1>11. Total(h) \in Nat /\ (i = 0 \/ i = 1 \/ i > 1)
  BY <1>2, HeaderFacts
<1>12. Total(h) <= Len(b) \/ Total(h) > Len(b)
  BY <1>3, <1>11
<1> QED BY <1>5, <1>6, <1>7, <1>8, <1>9, <1>10, <1>11, <1>12

\* The loop ends where a turn changes nothing.
LEMMA ExtractEnds ==
  ASSUME NEW b \in Seq(Nat), NEW l \in Links
  PROVE  LET x == Extract(b, l)
         IN x \in Cuttings /\ Cut(x) = x /\ Len(x.buf) < HeaderSize(2) + MaxSamples
<1> DEFINE D == {n \in Nat : \A s \in Cuttings : Len(s.buf) = n => Cut(Run(s)) = Run(s)}
<1>1. ASSUME NEW n \in Nat, \A m \in 0..(n - 1) : m \in D PROVE n \in D
  <2> SUFFICES ASSUME NEW s \in Cuttings, Len(s.buf) = n PROVE Cut(Run(s)) = Run(s)
    OBVIOUS
  <2>1. CASE Cut(s) = s
    BY <2>1, ExtractTurn
  <2>2. CASE Cut(s) # s
    <3>1. Cut(s) \in Cuttings /\ Len(Cut(s).buf) < n /\ Len(Cut(s).buf) \in Nat
      BY <2>2, CutFacts, CuttingsFacts
    <3>2. Len(Cut(s).buf) \in 0..(n - 1)
      BY <3>1
    <3>3. Cut(Run(Cut(s))) = Run(Cut(s))
      BY <1>1, <3>1, <3>2
    <3> QED BY <2>2, <3>3, ExtractTurn
  <2> QED BY <2>1, <2>2
<1>2. \A n \in Nat : n \in D
  <2> HIDE DEF D
  <2> QED BY <1>1, StrongInduction
<1>3. PICK s \in Cuttings : s = [buf |-> b, link |-> l] /\ Run(s) = Extract(b, l)
  BY RunOf
<1>4. Run(s) \in Cuttings /\ Cut(Run(s)) = Run(s)
  <2>1. Len(s.buf) \in Nat
    BY CuttingsFacts
  <2> QED BY <1>2, <2>1, ExtractTurn
<1> QED BY <1>3, <1>4, CutRest

LEMMA ExtractStep ==
  ASSUME NEW b \in Seq(Nat), NEW l \in Links, NEW d \in Seq(Nat), NEW k \in Links,
         Cut([buf |-> b, link |-> l]) = [buf |-> d, link |-> k]
  PROVE  Extract(b, l) = Extract(d, k)
<1>1. PICK s \in Cuttings : s = [buf |-> b, link |-> l] /\ Run(s) = Extract(b, l)
  BY RunOf
<1>2. PICK t \in Cuttings : t = [buf |-> d, link |-> k] /\ Run(t) = Extract(d, k)
  BY RunOf
<1>3. Cut(s) = t
  BY <1>1, <1>2
<1> QED BY <1>1, <1>2, <1>3, ExtractTurn

\* The turns that change something, and what Extract then is.
LEMMA ExtractNone ==
  ASSUME NEW b \in Seq(Nat), NEW l \in Links, FindMagic(b) = 0
  PROVE  Extract(b, l) = Extract(KeepTail(b), Skip(l, Len(b) - Len(KeepTail(b))))
<1>1. PICK d, n, k : d = KeepTail(b) /\ n = Len(b) - Len(d) /\ k = Skip(l, n)
  OBVIOUS
<1>2. d \in Seq(Nat) /\ n \in Nat
  <2>1. /\ d \in Seq(Nat) /\ (Len(b) <= 1 => d = b) /\ (Len(b) > 1 => Len(d) = 1)
    BY <1>1, KeepTailFacts
  <2>2. Len(b) \in Nat /\ Len(d) \in Nat /\ Len(d) <= Len(b)
    BY <2>1
  <2>3. \A x, y \in Nat : x <= y => y - x \in Nat
    OBVIOUS
  <2> QED BY <1>1, <2>1, <2>2, <2>3
<1>3. k \in Links
  BY <1>1, <1>2, SkipFacts
<1>4. Cut([buf |-> b, link |-> l]) = [buf |-> d, link |-> k]
  BY <1>1, CutCases
<1>5. Extract(b, l) = Extract(d, k)
  BY <1>2, <1>3, <1>4, ExtractStep
<1> QED BY <1>1, <1>5

LEMMA ExtractSkips ==
  ASSUME NEW b \in Seq(Nat), NEW l \in Links, FindMagic(b) > 1
  PROVE  Extract(b, l) = Extract(From(b, FindMagic(b)), Skip(l, FindMagic(b) - 1))
<1>1. PICK i \in Nat : i = FindMagic(b) /\ i > 1 /\ i \in 1..Len(b)
  <2>1. FindMagic(b) \in Nat /\ FindMagic(b) # 0
    BY FindMagicFacts
  <2> QED BY <2>1, FindMagicFacts
<1>2. PICK d, k : d = From(b, i) /\ k = Skip(l, i - 1)
  OBVIOUS
<1>3. d \in Seq(Nat) /\ k \in Links
  <2>1. i - 1 \in Nat /\ i \in 1..(Len(b) + 1)
    BY <1>1
  <2> QED BY <1>2, <2>1, FromFacts, SkipFacts
<1>4. Cut([buf |-> b, link |-> l]) = [buf |-> d, link |-> k]
  BY <1>1, <1>2, CutCases
<1>5. Extract(b, l) = Extract(d, k)
  BY <1>3, <1>4, ExtractStep
<1> QED BY <1>1, <1>2, <1>5

LEMMA ExtractRefuses ==
  ASSUME NEW b \in Seq(Nat), NEW l \in Links, NEW d \in Seq(Nat), NEW k \in Links,
         FindMagic(b) = 1, Header(b) # NoHeader, ~Plausible(Header(b)),
         d = From(b, MagicLen + 1), k = Skip(l, MagicLen)
  PROVE  Extract(b, l) = Extract(d, k)
<1>1. Cut([buf |-> b, link |-> l]) = [buf |-> d, link |-> k]
  BY CutCases
<1> QED BY <1>1, ExtractStep

LEMMA ExtractTakes ==
  ASSUME NEW b \in Seq(Nat), NEW l \in Links, NEW d \in Seq(Nat), NEW k \in Links, NEW h,
         FindMagic(b) = 1, Header(b) = h, Plausible(h), Total(h) <= Len(b),
         d = Rest(b, h), k = Accept(l, PacketOf(b, h))
  PROVE  Extract(b, l) = Extract(d, k)
<1>1. Cut([buf |-> b, link |-> l]) = [buf |-> d, link |-> k]
  BY CutCases
<1> QED BY <1>1, ExtractStep

\* What a turn has done, by parts.
LEMMA CutTo ==
  ASSUME NEW b \in Seq(Nat), NEW l, NEW d, NEW k,
         Cut([buf |-> b, link |-> l]) = [buf |-> d, link |-> k]
  PROVE  LET i == FindMagic(b)
             h == Header(b)
         IN /\ i = 0 => d = KeepTail(b) /\ k = Skip(l, Len(b) - Len(KeepTail(b)))
            /\ i > 1 => d = From(b, i) /\ k = Skip(l, i - 1)
            /\ i = 1 /\ h # NoHeader /\ ~Plausible(h) =>
                 d = From(b, MagicLen + 1) /\ k = Skip(l, MagicLen)
            /\ i = 1 /\ Plausible(h) /\ Total(h) <= Len(b) =>
                 d = Rest(b, h) /\ k = Accept(l, PacketOf(b, h))
            /\ i = 1 /\ (h = NoHeader \/ (Plausible(h) /\ Total(h) > Len(b))) =>
                 d = b /\ k = l
<1>1. PICK i, h, c : /\ i = FindMagic(b) /\ h = Header(b)
                     /\ c = Cut([buf |-> b, link |-> l]) /\ c = [buf |-> d, link |-> k]
  OBVIOUS
<1>2. /\ i = 0 => c = [buf  |-> KeepTail(b), link |-> Skip(l, Len(b) - Len(KeepTail(b)))]
      /\ i > 1 => c = [buf |-> From(b, i), link |-> Skip(l, i - 1)]
      /\ i = 1 /\ h # NoHeader /\ ~Plausible(h) =>
           c = [buf |-> From(b, MagicLen + 1), link |-> Skip(l, MagicLen)]
      /\ i = 1 /\ Plausible(h) /\ Total(h) <= Len(b) =>
           c = [buf |-> Rest(b, h), link |-> Accept(l, PacketOf(b, h))]
      /\ i = 1 /\ (h = NoHeader \/ (Plausible(h) /\ Total(h) > Len(b))) =>
           c = [buf |-> b, link |-> l]
  BY <1>1, CutCases
<1>3. \A x, y : c = [buf |-> x, link |-> y] => d = x /\ k = y
  BY <1>1
<1> QED BY <1>1, <1>2, <1>3, Zenon

\* Where a turn changes something, it may as well be taken before the rest arrives.
LEMMA TurnThenRest ==
  ASSUME NEW a \in Seq(Nat), NEW c \in Seq(Nat), NEW l \in Links, NEW d \in Seq(Nat),
         NEW k \in Links, Cut([buf |-> a, link |-> l]) = [buf |-> d, link |-> k],
         [buf |-> d, link |-> k] # [buf |-> a, link |-> l]
  PROVE  Extract(a \o c, l) = Extract(d \o c, k)
<1>1. PICK w, v : w = a \o c /\ v = d \o c
  OBVIOUS
<1>2. /\ w \in Seq(Nat) /\ Len(w) = Len(a) + Len(c) /\ Len(w) \in Nat
      /\ v \in Seq(Nat) /\ Len(v) = Len(d) + Len(c) /\ Len(v) \in Nat
      /\ Len(a) \in Nat /\ Len(c) \in Nat /\ Len(d) \in Nat
  BY <1>1
<1>3. PICK la \in Nat, lc \in Nat, ld \in Nat :
        la = Len(a) /\ lc = Len(c) /\ ld = Len(d) /\ Len(w) = la + lc /\ Len(v) = ld + lc
  BY <1>2
<1>4. PICK i \in Nat, h \in Headers : i = FindMagic(a) /\ h = Header(a)
  BY FindMagicFacts, HeaderFacts
<1>5. MagicLen = 2 /\ Total(h) \in Nat
  BY <1>4, HeaderFacts DEF MagicLen, Magic
<1>6. i # 0 => i < Len(a) /\ MagicAt(a, i) /\ \A j \in 1..(i - 1) : ~MagicAt(a, j)
  BY <1>4, FindMagicFacts
<1>7. ASSUME i # 0 PROVE FindMagic(w) = i
  <2>1. i \in 1..Len(w) /\ i \in 1..Len(a)
    <3>1. i < la
      BY <1>3, <1>6, <1>7
    <3>2. i \in 1..(la + lc) /\ i \in 1..la
      BY <1>7, <3>1
    <3> QED BY <1>3, <3>2
  <2>2. MagicAt(w, i)
    BY <1>6, <1>7, <2>1, <1>1, MagicInConcat
  <2>3. ASSUME NEW j \in 1..(i - 1) PROVE ~MagicAt(w, j)
    <3>1. j \in 1..Len(a) /\ j < Len(a)
      BY <1>2, <1>6, <1>7
    <3>2. MagicAt(w, j) = MagicAt(a, j)
      BY <3>1, <1>1, MagicInConcat
    <3> QED BY <1>6, <1>7, <3>2
  <2> QED BY <1>2, <2>1, <2>2, <2>3, FindMagicIs
<1>8. h # NoHeader => Header(w) = h
  BY <1>4, <1>1, HeaderOfConcat
<1>9. CASE i > 1
  <2>1. d = From(a, i) /\ k = Skip(l, i - 1)
    BY <1>4, <1>9, CutTo
  <2>2. From(w, i) = v
    <3>1. i \in 1..(Len(a) + 1)
      BY <1>2, <1>6, <1>9
    <3> QED BY <2>1, <3>1, <1>1, FromConcat
  <2>3. FindMagic(w) = i
    BY <1>7, <1>9
  <2>4. Extract(w, l) = Extract(v, k)
    BY <1>2, <1>9, <2>1, <2>2, <2>3, ExtractSkips
  <2> QED BY <2>4, <1>1
<1>10. CASE i = 1 /\ h # NoHeader /\ ~Plausible(h)
  <2>1. d = From(a, MagicLen + 1) /\ k = Skip(l, MagicLen)
    BY <1>4, <1>10, CutTo
  <2>2. From(w, MagicLen + 1) = v
    <3>1. MagicLen + 1 \in 1..(Len(a) + 1)
      BY <1>2, <1>5, <1>6, <1>10
    <3> QED BY <2>1, <3>1, <1>1, FromConcat
  <2>3. FindMagic(w) = 1 /\ Header(w) = h
    BY <1>7, <1>8, <1>10
  <2>4. Extract(w, l) = Extract(v, k)
    BY <1>2, <1>10, <2>1, <2>2, <2>3, ExtractRefuses
  <2> QED BY <2>4, <1>1
<1>11. CASE i = 1 /\ Plausible(h) /\ Total(h) <= Len(a)
  <2>1. d = Rest(a, h) /\ k = Accept(l, PacketOf(a, h))
    BY <1>4, <1>11, CutTo
  <2>2. Rest(w, h) = v
    <3>1. Total(h) + 1 \in 1..(Len(a) + 1)
      BY <1>2, <1>5, <1>11
    <3> QED BY <2>1, <3>1, <1>1, FromConcat DEF Rest
  <2>3. PacketOf(w, h) = PacketOf(a, h)
    <3>1. h.size \in {5, 6} /\ h.count \in 1..MaxSamples
      BY <1>4, <1>11, HeaderFacts
    <3>2. h.size + 1 \in 1..Len(a) /\ Total(h) \in 1..Len(a)
      <4>1. h.count \in Nat /\ h.count > 0
        BY <3>1, StreamAssumption
      <4>2. \A x, y \in Nat : x >= 5 /\ y > 0 /\ x + y <= la => x + 1 \in 1..la /\ x + y \in 1..la
        OBVIOUS
      <4>3. h.size \in Nat /\ h.size >= 5
        BY <3>1
      <4>4. h.size + h.count <= la
        BY <1>3, <1>11 DEF Total
      <4>5. h.size + 1 \in 1..la /\ h.size + h.count \in 1..la
        BY <4>1, <4>2, <4>3, <4>4, Zenon
      <4> QED BY <1>3, <4>5 DEF Total
    <3>3. SubSeq(w, h.size + 1, Total(h)) = SubSeq(a, h.size + 1, Total(h))
      BY <3>2, <1>1, SubSeqOfConcat1
    <3> QED BY <3>3 DEF PacketOf, Payload
  <2>4. FindMagic(w) = 1 /\ Header(w) = h
    BY <1>4, <1>7, <1>8, <1>11, HeaderFacts
  <2>5. Total(h) <= Len(w)
    BY <1>2, <1>5, <1>11
  <2>6. Plausible(h) /\ w \in Seq(Nat) /\ v \in Seq(Nat) /\ k = Accept(l, PacketOf(w, h))
    BY <1>2, <1>11, <2>1, <2>3
  <2>7. Extract(w, l) = Extract(v, k)
    BY <2>2, <2>4, <2>5, <2>6, ExtractTakes
  <2> QED BY <2>7, <1>1
<1>12. i = 1 => ~(h = NoHeader \/ (Plausible(h) /\ Total(h) > Len(a)))
  BY <1>4, CutTo
<1>13. CASE i = 0
  <2>1. PICK t, x : t = KeepTail(a) /\ x = Len(a) - Len(t)
    OBVIOUS
  <2>2. d = t /\ k = Skip(l, x)
    <3>1. d = KeepTail(a) /\ k = Skip(l, Len(a) - Len(KeepTail(a)))
      BY <1>4, <1>13, CutTo
    <3> QED BY <2>1, <3>1
  <2>3. Len(a) > 1
    <3> SUFFICES ASSUME Len(a) <= 1 PROVE FALSE
      BY <1>2
    <3>1. t = a /\ x = 0
      BY <1>2, <2>1, KeepTailFacts
    <3>2. d = a /\ k = l
      BY <2>2, <3>1, SkipFacts
    <3> QED BY <3>2
  <2>4. PICK n : n = Len(a)
    OBVIOUS
  <2>5. n \in Nat /\ n > 1 /\ n \in 1..(Len(a) + 1) /\ n \in 1..(Len(w) + 1)
    BY <1>2, <2>3, <2>4
  <2>6. d = From(a, n) /\ Len(d) = 1
    BY <2>1, <2>2, <2>3, <2>4, KeepTailFacts
  <2>7. n - 1 \in Nat /\ k = Skip(l, n - 1)
    <3>1. x = n - 1
      BY <2>1, <2>2, <2>4, <2>6
    <3> QED BY <2>2, <2>5, <3>1
  <2>8. v = From(w, n)
    BY <1>1, <2>5, <2>6, FromConcat
  <2>9. Len(v) = lc + 1 /\ Len(w) = n + lc /\ n = la
    BY <1>3, <2>4, <2>6
  <2>10. \A j \in 1..(n - 1) : ~MagicAt(w, j)
    <3> SUFFICES ASSUME NEW j \in 1..(n - 1) PROVE ~MagicAt(w, j)
      OBVIOUS
    <3>1. j \in 1..Len(a) /\ j < Len(a)
      BY <2>4, <2>5
    <3>2. ~MagicAt(a, j)
      BY <1>4, <1>13, <3>1, FindMagicFacts
    <3>3. MagicAt(w, j) = MagicAt(a, j)
      BY <3>1, <1>1, MagicInConcat
    <3> QED BY <3>2, <3>3
  <2>11. \A j \in 1..(Len(w) - n + 1) : MagicAt(v, j) = MagicAt(w, n + j - 1)
    BY <1>2, <2>5, <2>8, MagicInRest
  <2>12. PICK z \in Nat : z = FindMagic(w)
    BY <1>2, FindMagicFacts
  <2>13. z # 0 => /\ z \in 1..Len(w) /\ z < Len(w) /\ MagicAt(w, z)
                  /\ \A j \in 1..(z - 1) : ~MagicAt(w, j)
    BY <1>2, <2>12, FindMagicFacts
  <2>14. z # 0 => z >= n
    <3> SUFFICES ASSUME z # 0, z < n PROVE FALSE
      BY <2>5
    <3>1. z \in 1..(n - 1)
      BY <2>5, <2>13
    <3> QED BY <2>10, <2>13, <3>1
  <2>15. CASE z # 0
    <3>1. PICK m : m = z - n + 1
      OBVIOUS
    <3>2. /\ m \in Nat /\ m \in 1..(Len(w) - n + 1) /\ n + m - 1 = z /\ m \in 1..Len(v)
          /\ m - 1 \in Nat /\ (n - 1) + (m - 1) = z - 1 /\ z > 1 /\ z - 1 \in Nat
          /\ z \in 1..(Len(w) + 1)
      <4>1. z >= n /\ z < Len(w)
        BY <2>13, <2>14, <2>15
      <4>2. z < n + lc /\ n > 1 /\ n \in Nat
        BY <2>5, <2>9, <4>1
      <4>3. /\ m \in Nat /\ m \in 1..(n + lc - n + 1) /\ n + m - 1 = z /\ m \in 1..(lc + 1)
            /\ m - 1 \in Nat /\ (n - 1) + (m - 1) = z - 1 /\ z > 1 /\ z - 1 \in Nat
            /\ z \in 1..(n + lc + 1)
        BY <3>1, <4>1, <4>2
      <4> QED BY <2>9, <4>3
    <3>3. MagicAt(v, m)
      BY <2>11, <2>13, <2>15, <3>2
    <3>4. ASSUME NEW j \in 1..(m - 1) PROVE ~MagicAt(v, j)
      <4>1. j \in 1..(Len(w) - n + 1) /\ n + j - 1 \in 1..(z - 1)
        BY <1>2, <2>5, <3>1, <3>2
      <4> QED BY <2>11, <2>13, <2>15, <4>1
    <3>5. FindMagic(v) = m
      BY <1>2, <3>2, <3>3, <3>4, FindMagicIs
    <3>6. PICK y, u : y = From(w, z) /\ u = Skip(l, z - 1)
      OBVIOUS
    <3>7. y \in Seq(Nat) /\ u \in Links
      BY <1>2, <3>2, <3>6, FromFacts, SkipFacts
    <3>8. Extract(w, l) = Extract(y, u)
      BY <1>2, <2>12, <3>2, <3>6, ExtractSkips
    <3>9. CASE m = 1
      <4>1. z = n
        BY <2>5, <3>1, <3>2, <3>9
      <4> QED BY <2>7, <2>8, <3>6, <3>8, <4>1, <1>1
    <3>10. CASE m > 1
      <4>1. From(v, m) = y
        <5>1. m \in 1..(Len(w) - n + 2)
          <6>1. m \in 1..(n + lc - n + 2)
            BY <2>5, <2>9, <3>2
          <6> QED BY <2>9, <6>1
        <5>2. From(From(w, n), m) = From(w, n + m - 1)
          BY <1>2, <2>5, <5>1, FromFrom
        <5> QED BY <2>8, <3>2, <3>6, <5>2
      <4>2. Skip(k, m - 1) = u
        BY <2>7, <3>2, <3>6, SkipFacts
      <4>3. Extract(v, k) = Extract(y, u)
        BY <1>2, <3>2, <3>5, <3>7, <3>10, <4>1, <4>2, ExtractSkips
      <4> QED BY <3>8, <4>3, <1>1
    <3> QED BY <3>2, <3>9, <3>10
  <2>16. CASE z = 0 /\ Len(c) > 0
    <3>1. \A j \in 1..Len(w) : ~MagicAt(w, j)
      BY <1>2, <2>12, <2>16, FindMagicFacts
    <3>2. FindMagic(v) = 0
      <4>1. ASSUME NEW j \in 1..Len(v) PROVE ~MagicAt(v, j)
        <5>1. j \in 1..(Len(w) - n + 1) /\ n + j - 1 \in 1..Len(w)
          <6>1. j \in 1..(lc + 1)
            BY <2>9
          <6>2. j \in 1..(n + lc - n + 1) /\ n + j - 1 \in 1..(n + lc)
            BY <2>5, <6>1
          <6> QED BY <2>9, <6>2
        <5> QED BY <2>11, <3>1, <5>1
      <4> QED BY <1>2, <4>1, FindMagicNone
    <3>3. Len(w) > 1 /\ Len(v) > 1
      <4>1. lc > 0
        BY <1>3, <2>16
      <4>2. n + lc > 1 /\ lc + 1 > 1
        BY <2>5, <4>1
      <4> QED BY <2>9, <4>2
    <3>4. PICK y, u, x1, x2 : /\ y = KeepTail(w) /\ u = Skip(l, x1)
                              /\ x1 = Len(w) - 1 /\ x2 = Len(v) - 1
      OBVIOUS
    <3>5. y \in Seq(Nat) /\ y = From(w, Len(w)) /\ Len(y) = 1
      BY <1>2, <3>3, <3>4, KeepTailFacts
    <3>6. KeepTail(v) = From(v, Len(v))
      BY <1>2, <3>3, KeepTailFacts
    <3>7. KeepTail(v) = y
      <4>1. Len(v) \in 1..(Len(w) - n + 2) /\ n + Len(v) - 1 = Len(w)
        <5>1. lc + 1 \in 1..(n + lc - n + 2) /\ n + (lc + 1) - 1 = n + lc
          BY <2>5
        <5> QED BY <2>9, <5>1
      <4>2. From(From(w, n), Len(v)) = From(w, n + Len(v) - 1)
        BY <1>2, <2>5, <4>1, FromFrom
      <4> QED BY <2>8, <3>5, <3>6, <4>1, <4>2
    <3>8. x1 \in Nat /\ x2 \in Nat /\ (n - 1) + x2 = x1
      <4>1. x1 = n + lc - 1 /\ x2 = (lc + 1) - 1
        BY <2>9, <3>4
      <4> QED BY <2>5, <4>1
    <3>9. u \in Links /\ u = Skip(k, x2)
      BY <2>7, <3>4, <3>8, SkipFacts
    <3>10. Extract(w, l) = Extract(y, u)
      BY <1>2, <2>12, <2>16, <3>4, <3>5, ExtractNone
    <3>11. Extract(v, k) = Extract(y, u)
      <4>1. Len(v) - Len(KeepTail(v)) = x2
        BY <3>4, <3>5, <3>7
      <4> QED BY <1>2, <3>2, <3>7, <3>9, <4>1, ExtractNone
    <3> QED BY <3>10, <3>11, <1>1
  <2>17. CASE Len(c) = 0
    <3>1. c = <<>>
      BY <2>17
    <3>2. w = a /\ v = d
      BY <3>1, ConcatEmptySeq, <1>1
    <3>3. Extract(a, l) = Extract(d, k)
      BY ExtractStep
    <3> QED BY <3>2, <3>3, <1>1
  <2> QED BY <1>2, <2>15, <2>16, <2>17
<1>14. (i = 0 \/ i = 1 \/ i > 1) /\ (Total(h) <= Len(a) \/ Total(h) > Len(a))
  BY <1>2, <1>5
<1> QED BY <1>9, <1>10, <1>11, <1>12, <1>13, <1>14

\* The bytes may be cut up as they come: what is kept and what comes after it give what
\* all of them give.
LEMMA ExtractConcat ==
  ASSUME NEW a \in Seq(Nat), NEW c \in Seq(Nat), NEW l \in Links
  PROVE  Extract(a \o c, l) = Extract(Extract(a, l).buf \o c, Extract(a, l).link)
<1> DEFINE Good(s) == Extract(s.buf \o c, s.link) = Extract(Run(s).buf \o c, Run(s).link)
           D == {n \in Nat : \A s \in Cuttings : Len(s.buf) = n => Good(s)}
<1>1. ASSUME NEW n \in Nat, \A m \in 0..(n - 1) : m \in D PROVE n \in D
  <2> SUFFICES ASSUME NEW s \in Cuttings, Len(s.buf) = n PROVE Good(s)
    OBVIOUS
  <2>1. CASE Cut(s) = s
    <3>1. Run(s) = s
      BY <2>1, ExtractTurn
    <3> QED BY <3>1
  <2>2. CASE Cut(s) # s
    <3>1. Cut(s) \in Cuttings /\ Len(Cut(s).buf) < n /\ Len(Cut(s).buf) \in Nat
      BY <2>2, CutFacts, CuttingsFacts
    <3>2. Len(Cut(s).buf) \in 0..(n - 1)
      BY <3>1
    <3>3. Good(Cut(s))
      BY <1>1, <3>1, <3>2
    <3>4. Run(s) = Run(Cut(s))
      BY <2>2, ExtractTurn
    <3>5. PICK b, k, e, j : b = s.buf /\ k = s.link /\ e = Cut(s).buf /\ j = Cut(s).link
      OBVIOUS
    <3>6. /\ b \in Seq(Nat) /\ k \in Links /\ s = [buf |-> b, link |-> k]
          /\ e \in Seq(Nat) /\ j \in Links /\ Cut(s) = [buf |-> e, link |-> j]
      BY <3>1, <3>5, CuttingsFacts
    <3>7. Extract(b \o c, k) = Extract(e \o c, j)
      BY <2>2, <3>6, TurnThenRest
    <3> QED BY <3>3, <3>4, <3>5, <3>7
  <2> QED BY <2>1, <2>2
<1>2. \A n \in Nat : n \in D
  <2> HIDE DEF D
  <2> QED BY <1>1, StrongInduction
<1>3. PICK s \in Cuttings : s = [buf |-> a, link |-> l] /\ Run(s) = Extract(a, l)
  BY RunOf
<1>4. Good(s)
  <2>1. Len(s.buf) \in Nat
    BY CuttingsFacts
  <2> QED BY <1>2, <2>1
<1> QED BY <1>3, <1>4

-----------------------------------------------------------------------------
(* What the device sends, read back *)

Head5(p) == <<8, 9, p.version, Len(p.payload), p.seq>>
Scale(p) == IF p.version >= 2 THEN <<4>> ELSE <<>>
Heading(p) == Head5(p) \o Scale(p)

LEMMA BytesFacts ==
  ASSUME NEW p \in Packet
  PROVE  /\ Heading(p) \in Seq(Nat) /\ Len(Heading(p)) = HeaderSize(p.version)
         /\ Heading(p)[1] = 8 /\ Heading(p)[2] = 9 /\ Heading(p)[3] = p.version
         /\ Heading(p)[4] = Len(p.payload) /\ Heading(p)[5] = p.seq
         /\ Bytes(p) = Heading(p) \o p.payload
         /\ Bytes(p) \in Seq(Nat)
         /\ HeaderSize(p.version) \in {5, 6}
         /\ Len(Bytes(p)) = HeaderSize(p.version) + Len(p.payload)
         /\ p.payload \in Seq(Nat) /\ Len(p.payload) \in Nat
<1>1. p.version \in Nat /\ p.seq \in Nat /\ p.payload \in Seq(Nat) /\ Len(p.payload) \in Nat
  BY ModulusFacts DEF Packet
<1>2. PICK v, n, s, f : /\ v = p.version /\ n = Len(p.payload) /\ s = p.seq /\ f = p.payload
  OBVIOUS
<1>3. v \in Nat /\ n \in Nat /\ s \in Nat /\ f \in Seq(Nat)
  BY <1>1, <1>2
<1>4. Head5(p) = <<8, 9, v, n, s>> /\ Head5(p) \in Seq(Nat) /\ Len(Head5(p)) = 5
  BY <1>2, <1>3 DEF Head5
<1>5. /\ Scale(p) \in Seq(Nat) /\ Len(Scale(p)) = HeaderSize(v) - 5
      /\ HeaderSize(v) \in {5, 6}
  BY <1>2, <1>3 DEF Scale, HeaderSize, MagicLen, Magic
<1>6. /\ Heading(p) \in Seq(Nat) /\ Len(Heading(p)) = 5 + Len(Scale(p))
      /\ \A j \in 1..5 : Heading(p)[j] = Head5(p)[j]
  BY <1>4, <1>5 DEF Heading
<1>7. /\ Heading(p)[1] = 8 /\ Heading(p)[2] = 9 /\ Heading(p)[3] = v
      /\ Heading(p)[4] = n /\ Heading(p)[5] = s
  BY <1>4, <1>6
<1>8. Len(Heading(p)) = HeaderSize(v)
  BY <1>5, <1>6
<1>9. Bytes(p) = Heading(p) \o f
  <2>1. Magic \o <<v, n, s>> = Head5(p)
    <3>1. <<8, 9>> \in Seq(Nat) /\ <<v, n, s>> \in Seq(Nat) /\ <<8, 9, v, n, s>> \in Seq(Nat)
      BY <1>3
    <3>2. PICK w : w = <<8, 9>> \o <<v, n, s>>
      OBVIOUS
    <3>3. /\ w \in Seq(Nat) /\ Len(w) = 5
          /\ w[1] = 8 /\ w[2] = 9 /\ w[3] = v /\ w[4] = n /\ w[5] = s
      BY <3>1, <3>2
    <3>4. w = <<8, 9, v, n, s>>
      <4>1. \A j \in 1..5 : w[j] = <<8, 9, v, n, s>>[j]
        BY <3>3
      <4>2. Len(<<8, 9, v, n, s>>) = 5
        OBVIOUS
      <4> QED BY <3>1, <3>3, <4>1, <4>2, SeqEqual
    <3> QED BY <1>4, <3>2, <3>4 DEF Magic
  <2>2. Bytes(p) = Magic \o <<v, n, s>> \o Scale(p) \o f
    BY <1>2 DEF Bytes, Scale
  <2> QED BY <2>1, <2>2 DEF Heading
<1>10. Bytes(p) \in Seq(Nat) /\ Len(Bytes(p)) = HeaderSize(v) + n
  BY <1>2, <1>3, <1>6, <1>8, <1>9, ConcatProperties
<1> QED BY <1>1, <1>2, <1>5, <1>6, <1>7, <1>8, <1>9, <1>10

\* What follows a packet does not change what is read of it.
LEMMA RoundTrip ==
  ASSUME NEW p \in Packet, NEW x \in Seq(Nat)
  PROVE  LET w == Bytes(p) \o x
             h == Header(w)
         IN /\ w \in Seq(Nat) /\ Len(w) = Len(Bytes(p)) + Len(x)
            /\ FindMagic(w) = 1
            /\ h = [version |-> p.version, count |-> Len(p.payload), seq |-> p.seq,
                    size |-> HeaderSize(p.version)]
            /\ h # NoHeader
            /\ Total(h) = Len(Bytes(p)) /\ Len(Bytes(p)) \in Nat
            /\ PacketOf(w, h) = p
            /\ From(w, Total(h) + 1) = x
<1>1. PICK w, h, b, f, z : /\ w = b \o x /\ h = Header(w) /\ b = Bytes(p) /\ f = Heading(p)
                           /\ z = HeaderSize(p.version)
  OBVIOUS
<1>2. /\ f \in Seq(Nat) /\ Len(f) = z /\ f[1] = 8 /\ f[2] = 9 /\ f[3] = p.version
      /\ f[4] = Len(p.payload) /\ f[5] = p.seq /\ b = f \o p.payload
      /\ b \in Seq(Nat) /\ z \in {5, 6} /\ Len(b) = z + Len(p.payload)
      /\ p.payload \in Seq(Nat) /\ Len(p.payload) \in Nat
  BY <1>1, BytesFacts
<1>3. p.seq \in 0..(Modulus - 1) /\ p.version \in Nat
      /\ p = [version |-> p.version, seq |-> p.seq, payload |-> p.payload]
  BY DEF Packet
<1>4. b[1] = 8 /\ b[2] = 9 /\ b[3] = p.version /\ b[4] = Len(p.payload) /\ b[5] = p.seq
  BY <1>2
<1>5. w \in Seq(Nat) /\ Len(w) = Len(b) + Len(x) /\ Len(x) \in Nat /\ Len(b) \in Nat
      /\ Len(w) \in Nat
  <2>1. b \in Seq(Nat)
    BY <1>2
  <2>2. w \in Seq(Nat) /\ Len(w) = Len(b) + Len(x)
    BY <1>1, <2>1, ConcatProperties
  <2> QED BY <2>1, <2>2
<1>6. z \in Nat /\ z >= 5 /\ Len(b) >= 5
  <2>1. z \in {5, 6} /\ Len(p.payload) \in Nat /\ Len(b) = z + Len(p.payload)
    BY <1>2
  <2>2. \A y \in Nat : 5 + y >= 5 /\ 6 + y >= 5
    OBVIOUS
  <2> QED BY <2>1, <2>2
<1>7. w[1] = 8 /\ w[2] = 9 /\ w[3] = p.version /\ w[4] = Len(p.payload) /\ w[5] = p.seq
  <2>1. \A j \in 1..5 : w[j] = b[j]
    <3> SUFFICES ASSUME NEW j \in 1..5 PROVE w[j] = b[j]
      OBVIOUS
    <3>1. j \in 1..(Len(b) + Len(x)) /\ j <= Len(b)
      BY <1>5, <1>6
    <3>2. b \in Seq(Nat)
      BY <1>2
    <3> QED BY <1>1, <3>1, <3>2, ConcatProperties
  <2> QED BY <1>4, <2>1
<1>8. Len(w) >= z /\ Len(w) > 1 /\ Len(w) >= 5
  <2>1. Len(b) >= z
    <3>1. Len(b) = z + Len(p.payload) /\ Len(p.payload) \in Nat
      BY <1>2
    <3> QED BY <1>6, <3>1
  <2>2. \A k, y, n \in Nat : y >= 5 /\ k >= y => k + n >= y /\ k + n > 1 /\ k + n >= 5
    OBVIOUS
  <2> QED BY <1>5, <1>6, <2>1, <2>2
<1>9. MagicAt(w, 1)
  BY <1>7, <1>8 DEF MagicAt, Magic
<1>10. FindMagic(w) = 1
  <2>1. 1 \in 1..Len(w)
    BY <1>5, <1>8
  <2> QED BY <1>5, <1>9, <2>1, FindMagicIs
<1>11. h = [version |-> p.version, count |-> Len(p.payload), seq |-> p.seq, size |-> z]
  <2>1. p.seq % Modulus = p.seq
    BY <1>3, ModulusFacts, Zenon
  <2>2. HeaderSize(1) = 5 /\ MagicLen = 2
    BY DEF HeaderSize, MagicLen, Magic
  <2>3. Header(w) = [version |-> w[3], count |-> w[4], seq |-> w[5] % Modulus,
                     size |-> HeaderSize(w[3])]
    <3>1. Len(w) >= 5 /\ Len(w) >= HeaderSize(w[3])
      BY <1>1, <1>7, <1>8
    <3> QED BY <1>9, <2>2, <3>1 DEF Header
  <2> QED BY <1>1, <1>7, <2>1, <2>3
<1>12. h # NoHeader
  <2>1. h.size = z /\ z # 0
    BY <1>2, <1>11
  <2> QED BY <2>1 DEF NoHeader
<1>13. Total(h) = Len(b)
  <2>1. Total(h) = z + Len(p.payload)
    BY <1>11 DEF Total
  <2> QED BY <1>2, <2>1
<1>14. PacketOf(w, h) = p
  <2>1. h.size = z /\ h.version = p.version /\ h.seq = p.seq
    BY <1>11
  <2>2. SubSeq(w, z + 1, Len(b)) = p.payload
    <3>1. PICK g \in Seq(Nat), n \in Nat : g = p.payload /\ n = Len(g)
      BY <1>2
    <3>2. b = f \o g /\ Len(b) = z + n /\ Len(f) = z
      BY <1>2, <3>1
    <3>3. \A j \in 1..n : w[z + j] = g[j]
      <4> SUFFICES ASSUME NEW j \in 1..n PROVE w[z + j] = g[j]
        OBVIOUS
      <4>1. PICK k \in Nat : k = z + j
        BY <1>6
      <4>2. k \in 1..(z + n) /\ ~(k <= z) /\ k - z = j
        BY <1>6, <4>1
      <4>3. w[k] = b[k]
        <5>1. k \in 1..(Len(b) + Len(x)) /\ k <= Len(b)
          BY <1>5, <1>6, <3>2, <4>2
        <5>2. b \in Seq(Nat)
          BY <1>2
        <5> QED BY <1>1, <5>1, <5>2, ConcatProperties
      <4>4. b[k] = g[j]
        <5>1. f \in Seq(Nat) /\ k \in 1..(Len(f) + Len(g)) /\ ~(k <= Len(f)) /\ k - Len(f) = j
          BY <1>2, <3>1, <3>2, <4>2
        <5>2. (f \o g)[k] = IF k <= Len(f) THEN f[k] ELSE g[k - Len(f)]
          BY <5>1, ConcatProperties
        <5> QED BY <3>2, <5>1, <5>2
      <4> QED BY <4>1, <4>3, <4>4
    <3>4. PICK y : y = SubSeq(w, z + 1, z + n)
      OBVIOUS
    <3>5. y \in Seq(Nat) /\ Len(y) = n /\ \A j \in 1..n : y[j] = w[z + 1 + j - 1]
      <4>1. z + 1 \in Int /\ z + n \in Int
        BY <1>6
      <4>2. \A j \in (z + 1)..(z + n) : w[j] \in Nat
        <5>1. z + n <= Len(w)
          BY <1>5, <3>2
        <5>2. \A j \in (z + 1)..(z + n) : j \in 1..Len(w)
          BY <1>5, <1>6, <5>1
        <5> QED BY <1>5, <5>2
      <4>3. PICK m, k \in Int : m = z + 1 /\ k = z + n
        BY <4>1
      <4>4. /\ SubSeq(w, m, k) \in Seq(Nat)
            /\ Len(SubSeq(w, m, k)) = IF m <= k THEN k - m + 1 ELSE 0
            /\ \A j \in 1..(k - m + 1) : SubSeq(w, m, k)[j] = w[m + j - 1]
        <5>1. m \in Int /\ k \in Int /\ \A j \in m..k : w[j] \in Nat
          BY <4>1, <4>2, <4>3
        <5> QED BY <5>1, SubSeqProperties
      <4>5. k - m + 1 = n /\ (m <= k <=> n > 0)
        BY <1>6, <4>3
      <4> QED BY <3>4, <4>3, <4>4, <4>5
    <3>6. \A j \in 1..n : y[j] = g[j]
      <4> SUFFICES ASSUME NEW j \in 1..n PROVE y[j] = g[j]
        OBVIOUS
      <4>1. z + 1 + j - 1 = z + j
        BY <1>6
      <4> QED BY <3>3, <3>5, <4>1
    <3>7. y = g
      BY <3>1, <3>2, <3>5, <3>6, SeqEqual
    <3> QED BY <3>1, <3>2, <3>4, <3>7
  <2> QED BY <1>3, <1>13, <2>1, <2>2 DEF PacketOf, Payload
<1>15. From(w, Len(b) + 1) = x
  <2>1. Len(b) + 1 \in 1..(Len(b) + 1)
    BY <1>5
  <2>2. From(w, Len(b) + 1) = From(b, Len(b) + 1) \o x
    BY <1>1, <1>2, <2>1, FromConcat
  <2>3. From(b, Len(b) + 1) = <<>>
    BY <1>2, FromEnds
  <2> QED BY <2>2, <2>3, ConcatEmptySeq
<1> QED BY <1>1, <1>5, <1>10, <1>11, <1>12, <1>13, <1>14, <1>15

-----------------------------------------------------------------------------
(* The types of the state, and Extract's independence of the chunks *)

Record == [boot : Nat, packet : Packet]

DeviceTypes ==
  /\ kind \in {"usb", "wifi", "tool"}
  /\ version \in Versions
  /\ nextSeq \in 0..(Modulus - 1)
  /\ boot \in Nat
  /\ sent \in Seq(Record) /\ Len(sent) <= MaxSent
  /\ damage \in {"none", "cut", "line"}
  /\ net \in [1..MaxSent -> 0..MaxCopies]
  /\ got \in Seq(1..MaxSent)

LinkTypes ==
  /\ wire \in Seq(Nat) /\ cells \in Seq(Nat) /\ buf \in Seq(Nat) /\ link \in Links
  /\ kind # "usb" => wire = <<>> /\ cells = <<>> /\ buf = <<>>
  /\ Len(buf) < HeaderSize(2) + MaxSamples

ReadInv == kind = "usb" => Extract(cells, NoLink) = [buf |-> buf, link |-> link]

LEMMA Bounds ==
  /\ MaxSent \in Nat /\ MaxCopies \in Nat \ {0}
  /\ HeaderSize(2) + MaxSamples \in Nat /\ 0 < HeaderSize(2) + MaxSamples
BY StreamAssumption DEF HeaderSize, MagicLen, Magic

LEMMA ExtractEmpty == Extract(<<>>, NoLink) = [buf |-> <<>>, link |-> NoLink]
<1>1. PICK e \in Seq(Nat), l \in Links : e = <<>> /\ Len(e) = 0 /\ l = NoLink
  <2>1. <<>> \in Seq(Nat) /\ Len(<<>>) = 0
    OBVIOUS
  <2> QED BY <2>1, CuttingsFacts
<1>2. FindMagic(e) = 0
  <2>1. \A j \in 1..Len(e) : ~MagicAt(e, j)
    BY <1>1
  <2> QED BY <2>1, FindMagicNone
<1>3. KeepTail(e) = e /\ Len(e) - Len(KeepTail(e)) = 0
  <2>1. Len(e) <= 1
    BY <1>1
  <2>2. KeepTail(e) = e
    BY <2>1, KeepTailFacts
  <2> QED BY <1>1, <2>2
<1>4. Cut([buf |-> e, link |-> l]) = [buf |-> e, link |-> Skip(l, 0)]
  BY <1>2, <1>3, CutCases
<1>5. Skip(l, 0) = l
  BY SkipFacts
<1>6. PICK s \in Cuttings : s = [buf |-> e, link |-> l] /\ Run(s) = Extract(e, l)
  BY RunOf
<1> QED BY <1>1, <1>4, <1>5, <1>6, ExtractTurn

LEMMA LogFacts == Logs \subseteq Seq(Nat)
<1>1. <<>> \in Seq(Nat)
  OBVIOUS
<1> QED BY <1>1, StreamAssumption DEF Logs

LEMMA FromTyped ==
  ASSUME NEW S, NEW b \in Seq(S), NEW i \in 1..(Len(b) + 1)
  PROVE  From(b, i) \in Seq(S) /\ SubSeq(b, 1, i - 1) \in Seq(S)
<1>1. From(b, i) \in Seq(S)
  BY FromFacts
<1>2. \A j \in 1..(i - 1) : b[j] \in S
  OBVIOUS
<1>3. i - 1 \in Int
  OBVIOUS
<1> QED BY <1>1, <1>2, <1>3, SubSeqProperties

LEMMA InitTypes ==
  ASSUME Init PROVE DeviceTypes /\ LinkTypes /\ ReadInv
<1>1. DeviceTypes
  <2>1. nextSeq \in 0..(Modulus - 1)
    BY StreamAssumption DEF Init
  <2>2. net \in [1..MaxSent -> 0..MaxCopies]
    BY Bounds DEF Init
  <2>3. Len(<<>>) = 0 /\ 0 <= MaxSent
    BY Bounds
  <2> QED BY <2>1, <2>2, <2>3 DEF Init, DeviceTypes
<1>2. LinkTypes
  <2>1. wire \in Seq(Nat) /\ (kind # "usb" => wire = <<>>)
    <3>1. <<>> \in Seq(Nat)
      OBVIOUS
    <3>2. CASE kind = "usb"
      BY <3>2, LogFacts DEF Init
    <3>3. CASE kind # "usb"
      BY <3>1, <3>3 DEF Init
    <3> QED BY <3>2, <3>3
  <2>2. Len(<<>>) = 0
    OBVIOUS
  <2> QED BY <2>1, <2>2, Bounds, CuttingsFacts DEF Init, LinkTypes
<1>3. ReadInv
  BY ExtractEmpty DEF Init, ReadInv
<1> QED BY <1>1, <1>2, <1>3

LEMMA SendTypes ==
  ASSUME DeviceTypes, LinkTypes, ReadInv, NEW p \in Payloads, Send(p)
  PROVE  DeviceTypes' /\ LinkTypes' /\ ReadInv'
<1>1. p \in Seq(Nat) /\ version \in Nat /\ Modulus \in Nat \ {0}
  BY StreamAssumption DEF DeviceTypes
<1>2. PICK q : q = [version |-> version, seq |-> nextSeq, payload |-> p]
  OBVIOUS
<1>3. q \in Packet /\ [boot |-> boot, packet |-> q] \in Record
  BY <1>1, <1>2 DEF DeviceTypes, Packet, Record
<1>4. sent' = Append(sent, [boot |-> boot, packet |-> q]) /\ Len(sent) < MaxSent
  BY <1>2 DEF Send
<1>5. sent' \in Seq(Record) /\ Len(sent') <= MaxSent
  BY <1>3, <1>4, Bounds DEF DeviceTypes
<1>6. nextSeq' \in 0..(Modulus - 1)
  <2>1. nextSeq + 1 \in Int /\ nextSeq' = (nextSeq + 1) % Modulus
    BY DEF Send, DeviceTypes
  <2> QED BY <2>1, ModulusFacts, Zenon
<1>7. net' \in [1..MaxSent -> 0..MaxCopies]
  <2>1. CASE kind = "usb"
    BY <2>1 DEF Send, DeviceTypes
  <2>2. CASE kind # "usb"
    <3>1. PICK copies \in 0..MaxCopies : net' = [net EXCEPT ![Len(sent) + 1] = copies]
      BY <2>2 DEF Send
    <3> QED BY <3>1 DEF DeviceTypes
  <2> QED BY <2>1, <2>2
<1>8. DeviceTypes'
  BY <1>5, <1>6, <1>7 DEF Send, DeviceTypes
<1>9. wire' \in Seq(Nat) /\ (kind # "usb" => wire' = wire)
  <2>1. CASE kind = "usb"
    <3>1. wire' = wire \o Bytes(q)
      BY <1>2, <2>1 DEF Send
    <3> QED BY <1>3, <2>1, <3>1, BytesFacts DEF LinkTypes
  <2>2. CASE kind # "usb"
    BY <2>2 DEF Send, LinkTypes
  <2> QED BY <2>1, <2>2
<1>10. LinkTypes' /\ ReadInv'
  BY <1>9 DEF Send, LinkTypes, ReadInv
<1> QED BY <1>8, <1>10

LEMMA ReadTypes ==
  ASSUME DeviceTypes, LinkTypes, ReadInv, NEW n \in 1..Len(wire), Read(n)
  PROVE  DeviceTypes' /\ LinkTypes' /\ ReadInv'
<1>1. DeviceTypes'
  BY DEF Read, DeviceTypes
<1>2. PICK chunk, x : /\ chunk = SubSeq(wire, 1, n) /\ x = Extract(buf \o chunk, link)
  OBVIOUS
<1>3. /\ kind = "usb" /\ kind' = kind /\ buf' = x.buf /\ link' = x.link
      /\ cells' = cells \o chunk /\ wire' = From(wire, n + 1)
  BY <1>2 DEF Read
<1>4. chunk \in Seq(Nat) /\ From(wire, n + 1) \in Seq(Nat)
  <2>1. wire \in Seq(Nat) /\ n + 1 \in 1..(Len(wire) + 1) /\ (n + 1) - 1 = n
    BY DEF LinkTypes
  <2> QED BY <1>2, <2>1, FromTyped
<1>5. buf \in Seq(Nat) /\ cells \in Seq(Nat) /\ link \in Links /\ buf \o chunk \in Seq(Nat)
      /\ cells \o chunk \in Seq(Nat)
  BY <1>4 DEF LinkTypes
<1>6. x \in Cuttings /\ Len(x.buf) < HeaderSize(2) + MaxSamples
  BY <1>2, <1>5, ExtractEnds
<1>7. x.buf \in Seq(Nat) /\ x.link \in Links /\ x = [buf |-> x.buf, link |-> x.link]
  BY <1>6, CuttingsFacts
<1>8. LinkTypes'
  BY <1>3, <1>4, <1>5, <1>6, <1>7 DEF LinkTypes
<1>9. Extract(cells \o chunk, NoLink) = x
  <2>1. Extract(cells, NoLink) = [buf |-> buf, link |-> link]
    BY <1>3 DEF ReadInv
  <2>2. Extract(cells, NoLink).buf = buf /\ Extract(cells, NoLink).link = link
    BY <2>1
  <2>3. NoLink \in Links
    BY CuttingsFacts
  <2>4. cells \in Seq(Nat) /\ chunk \in Seq(Nat)
    BY <1>4, <1>5
  <2>5. Extract(cells \o chunk, NoLink) =
          Extract(Extract(cells, NoLink).buf \o chunk, Extract(cells, NoLink).link)
    BY <2>3, <2>4, ExtractConcat
  <2> QED BY <1>2, <2>2, <2>5
<1>10. ReadInv'
  BY <1>3, <1>7, <1>9 DEF ReadInv
<1> QED BY <1>1, <1>8, <1>10

LEMMA FlushTypes ==
  ASSUME DeviceTypes, LinkTypes, ReadInv, NEW n \in 0..Len(wire), Flush(n)
  PROVE  DeviceTypes' /\ LinkTypes' /\ ReadInv'
<1>1. DeviceTypes'
  BY DEF Flush, DeviceTypes
<1>2. wire' \in Seq(Nat)
  <2>1. wire \in Seq(Nat) /\ n + 1 \in 1..(Len(wire) + 1) /\ wire' = From(wire, n + 1)
    BY DEF LinkTypes, Flush
  <2> QED BY <2>1, FromTyped
<1>3. kind' = kind /\ kind = "usb" /\ buf' = <<>> /\ cells' = <<>> /\ link' = NoLink
  BY DEF Flush, NewRun
<1>4. LinkTypes'
  <2>1. Len(<<>>) = 0
    OBVIOUS
  <2> QED BY <1>2, <1>3, <2>1, Bounds, CuttingsFacts DEF LinkTypes
<1>5. ReadInv'
  BY <1>3, ExtractEmpty DEF ReadInv
<1> QED BY <1>1, <1>4, <1>5

LEMMA ReceiveTypes ==
  ASSUME DeviceTypes, LinkTypes, ReadInv, NEW i \in 1..Len(sent), Receive(i)
  PROVE  DeviceTypes' /\ LinkTypes' /\ ReadInv'
<1>1. i \in 1..MaxSent
  BY Bounds DEF DeviceTypes
<1>2. net' \in [1..MaxSent -> 0..MaxCopies]
  <2>1. net[i] > 0 /\ net' = [net EXCEPT ![i] = @ - 1] /\ net \in [1..MaxSent -> 0..MaxCopies]
    BY DEF Receive, DeviceTypes
  <2>2. net[i] - 1 \in 0..MaxCopies
    BY <1>1, <2>1, Bounds
  <2> QED BY <2>1, <2>2
<1>3. got' = Append(got, i) /\ got' \in Seq(1..MaxSent)
  BY <1>1 DEF Receive, DeviceTypes
<1>4. DeviceTypes'
  BY <1>2, <1>3 DEF Receive, DeviceTypes
<1>5. PICK d, h : d = Bytes(sent[i].packet) /\ h = Header(d)
  OBVIOUS
<1>6. Takes(d) /\ link' = Accept(link, PacketOf(d, h))
  BY <1>5 DEF Receive
<1>7. d \in Seq(Nat)
  <2>1. sent[i] \in Record
    BY DEF DeviceTypes
  <2>2. sent[i].packet \in Packet
    BY <2>1 DEF Record
  <2> QED BY <1>5, <2>2, BytesFacts
<1>8. Total(h) <= Len(d)
  <2>1. Len(d) >= Total(h)
    BY <1>5, <1>6 DEF Takes
  <2>2. Total(h) \in Nat /\ Len(d) \in Nat
    BY <1>5, <1>7, HeaderFacts
  <2> QED BY <2>1, <2>2
<1>9. link' \in Links
  <2>1. PacketOf(d, h) \in Packet
    BY <1>5, <1>7, <1>8, PacketOfFacts
  <2> QED BY <1>6, <2>1, AcceptFacts DEF LinkTypes
<1>10. LinkTypes' /\ ReadInv'
  BY <1>9 DEF Receive, LinkTypes, ReadInv
<1> QED BY <1>4, <1>10

LEMMA OtherTypes ==
  ASSUME DeviceTypes, LinkTypes, ReadInv
  PROVE  /\ \A log \in BootLogs : Restart(log) => DeviceTypes' /\ LinkTypes' /\ ReadInv'
         /\ \A i \in 1..Len(wire) : \A j \in i..Len(wire) :
              LoseCells(i, j) => DeviceTypes' /\ LinkTypes' /\ ReadInv'
         /\ \A d \in Junk : ReceiveJunk(d) => DeviceTypes' /\ LinkTypes' /\ ReadInv'
         /\ Drain => DeviceTypes' /\ LinkTypes' /\ ReadInv'
         /\ UNCHANGED reading => DeviceTypes' /\ LinkTypes' /\ ReadInv'
<1>1. ASSUME NEW log \in BootLogs, Restart(log) PROVE DeviceTypes' /\ LinkTypes' /\ ReadInv'
  <2>1. log \in Seq(Nat)
    BY StreamAssumption
  <2>2. wire' \in Seq(Nat) /\ (kind # "usb" => wire' = wire)
    BY <1>1, <2>1 DEF Restart, LinkTypes
  <2>3. DeviceTypes'
    <3>1. boot' \in Nat /\ nextSeq' \in 0..(Modulus - 1)
      BY <1>1, ModulusFacts DEF Restart, DeviceTypes
    <3> QED BY <1>1, <3>1 DEF Restart, DeviceTypes
  <2> QED BY <1>1, <2>2, <2>3 DEF Restart, LinkTypes, ReadInv
<1>2. ASSUME NEW i \in 1..Len(wire), NEW j \in i..Len(wire), LoseCells(i, j)
      PROVE  DeviceTypes' /\ LinkTypes' /\ ReadInv'
  <2>1. wire \in Seq(Nat) /\ i \in 1..(Len(wire) + 1) /\ j + 1 \in 1..(Len(wire) + 1)
    BY DEF LinkTypes
  <2>2. SubSeq(wire, 1, i - 1) \in Seq(Nat) /\ From(wire, j + 1) \in Seq(Nat)
    BY <2>1, FromTyped
  <2>3. wire' \in Seq(Nat)
    BY <1>2, <2>2 DEF LoseCells
  <2> QED BY <1>2, <2>3 DEF LoseCells, DeviceTypes, LinkTypes, ReadInv
<1>3. ASSUME NEW d \in Junk, ReceiveJunk(d) PROVE DeviceTypes' /\ LinkTypes' /\ ReadInv'
  <2>1. d \in Seq(Nat)
    BY StreamAssumption
  <2>2. Len(d) \in Nat
    BY <2>1
  <2>3. link' \in Links
    BY <1>3, <2>2, SkipFacts DEF ReceiveJunk, LinkTypes
  <2> QED BY <1>3, <2>3 DEF ReceiveJunk, DeviceTypes, LinkTypes, ReadInv
<1>4. ASSUME Drain PROVE DeviceTypes' /\ LinkTypes' /\ ReadInv'
  <2>1. net' \in [1..MaxSent -> 0..MaxCopies]
    <3>1. PICK arrived : net' = [i \in 1..MaxSent |-> IF i \in arrived THEN 0 ELSE net[i]]
      BY <1>4 DEF Drain
    <3>2. 0 \in 0..MaxCopies
      BY Bounds
    <3> QED BY <3>1, <3>2 DEF DeviceTypes
  <2>2. link' \in Links /\ got' \in Seq(1..MaxSent)
    BY <1>4, CuttingsFacts DEF Drain, NewRun
  <2> QED BY <1>4, <2>1, <2>2 DEF Drain, DeviceTypes, LinkTypes, ReadInv
<1>5. ASSUME UNCHANGED reading PROVE DeviceTypes' /\ LinkTypes' /\ ReadInv'
  BY <1>5 DEF reading, DeviceTypes, LinkTypes, ReadInv
<1> QED BY <1>1, <1>2, <1>3, <1>4, <1>5

LEMMA StreamTypes == Spec => [](DeviceTypes /\ LinkTypes /\ ReadInv)
<1>1. Init => DeviceTypes /\ LinkTypes /\ ReadInv
  BY InitTypes
<1>2. DeviceTypes /\ LinkTypes /\ ReadInv /\ [Next]_vars =>
        DeviceTypes' /\ LinkTypes' /\ ReadInv'
  BY SendTypes, ReadTypes, FlushTypes, ReceiveTypes, OtherTypes DEF Next, Put, vars, reading
<1> QED BY <1>1, <1>2, PTL DEF Spec

\* Whatever the sizes of the chunks a serial stream is read in, the packets, the counters and
\* the bytes kept are those of one read of it all (SensorLink._loop).
THEOREM ChunksAgree == Spec => []ChunkingIrrelevant
<1>1. LinkTypes /\ ReadInv => ChunkingIrrelevant
  BY DEF LinkTypes, ReadInv, ChunkingIrrelevant
<1> QED BY <1>1, StreamTypes, PTL

-----------------------------------------------------------------------------
(* What the converter finds missing *)

\* What every turn of the serial loop keeps, the loop keeps.
LEMMA ExtractKeeps ==
  ASSUME NEW G \in SUBSET Cuttings, \A s \in G : Cut(s) \in G, NEW s0 \in G
  PROVE  Run(s0) \in G
<1> DEFINE D == {n \in Nat : \A s \in G : Len(s.buf) = n => Run(s) \in G}
<1>1. ASSUME NEW n \in Nat, \A m \in 0..(n - 1) : m \in D PROVE n \in D
  <2> SUFFICES ASSUME NEW s \in G, Len(s.buf) = n PROVE Run(s) \in G
    OBVIOUS
  <2>1. CASE Cut(s) = s
    BY <2>1, ExtractTurn
  <2>2. CASE Cut(s) # s
    <3>1. Cut(s) \in G /\ Len(Cut(s).buf) < n /\ Len(Cut(s).buf) \in Nat
      BY <2>2, CutFacts, CuttingsFacts
    <3>2. Len(Cut(s).buf) \in 0..(n - 1)
      BY <3>1
    <3>3. Run(Cut(s)) \in G
      BY <1>1, <3>1, <3>2
    <3> QED BY <2>2, <3>3, ExtractTurn
  <2> QED BY <2>1, <2>2
<1>2. \A n \in Nat : n \in D
  <2> HIDE DEF D
  <2> QED BY <1>1, StrongInduction
<1>3. Len(s0.buf) \in Nat
  BY CuttingsFacts
<1> QED BY <1>2, <1>3

\* Packets of a plausible length.
Full == {p \in Packet : Len(p.payload) \in 1..MaxSamples}

\* A turn takes one packet at most.
LEMMA CutLink ==
  ASSUME NEW s \in Cuttings
  PROVE  \/ \E n \in Nat : Cut(s).link = Skip(s.link, n)
         \/ \E p \in Full : Cut(s).link = Accept(s.link, p)
<1>1. PICK b \in Seq(Nat), l \in Links :
        b = s.buf /\ l = s.link /\ s = [buf |-> b, link |-> l]
  BY CuttingsFacts
<1>2. PICK d \in Seq(Nat), k \in Links :
        Cut(s) = [buf |-> d, link |-> k]
  <2>1. Cut(s) \in Cuttings
    BY CutFacts
  <2> QED BY <2>1, CuttingsFacts
<1>3. Cut([buf |-> b, link |-> l]) = [buf |-> d, link |-> k]
  BY <1>1, <1>2
<1>4. Cut(s).link = k /\ l = s.link
  BY <1>1, <1>2
<1>5. PICK i \in Nat, h \in Headers : i = FindMagic(b) /\ h = Header(b)
  BY FindMagicFacts, HeaderFacts
<1>6. MagicLen = 2 /\ Total(h) \in Nat /\ Len(b) \in Nat
  BY <1>5, HeaderFacts DEF MagicLen, Magic
<1>7. CASE i = 0
  <2>1. PICK t : t = KeepTail(b)
    OBVIOUS
  <2>2. k = Skip(l, Len(b) - Len(t))
    BY <1>5, <1>3, <1>7, <2>1, CutTo
  <2>3. t \in Seq(Nat) /\ (Len(b) <= 1 => t = b) /\ (Len(b) > 1 => Len(t) = 1)
    BY <2>1, KeepTailFacts
  <2>4. Len(t) \in Nat /\ Len(t) <= Len(b)
    BY <1>6, <2>3
  <2>5. \A x, y \in Nat : x <= y => y - x \in Nat
    OBVIOUS
  <2> QED BY <1>4, <1>6, <2>2, <2>4, <2>5
<1>8. CASE i > 1
  <2>1. k = Skip(l, i - 1)
    BY <1>5, <1>3, <1>8, CutTo
  <2>2. i - 1 \in Nat
    BY <1>8
  <2> QED BY <1>4, <2>1, <2>2
<1>9. CASE i = 1 /\ h # NoHeader /\ ~Plausible(h)
  <2>1. d = From(b, MagicLen + 1) /\ k = Skip(l, MagicLen)
    BY <1>5, <1>3, <1>9, CutTo
  <2>2. MagicLen \in Nat
    BY <1>6
  <2> QED BY <1>4, <2>1, <2>2
<1>10. CASE i = 1 /\ Plausible(h) /\ Total(h) <= Len(b)
  <2>1. k = Accept(l, PacketOf(b, h))
    BY <1>5, <1>3, <1>10, CutTo
  <2>2. /\ PacketOf(b, h) \in Packet
        /\ Len(PacketOf(b, h).payload) = h.count
    BY <1>5, <1>10, PacketOfFacts DEF PacketOf
  <2>3. h.count \in 1..MaxSamples
    BY <1>5, <1>10, HeaderFacts
  <2>4. PacketOf(b, h) \in Full
    BY <2>2, <2>3 DEF Full
  <2> QED BY <1>4, <2>1, <2>4
<1>11. CASE i = 1 /\ (h = NoHeader \/ (Plausible(h) /\ Total(h) > Len(b)))
  <2>1. k = l
    BY <1>5, <1>3, <1>11, CutTo
  <2>2. k = Skip(l, 0)
    BY <2>1, SkipFacts
  <2> QED BY <1>4, <2>2
<1>12. (i = 0 \/ i = 1 \/ i > 1) /\ (Total(h) <= Len(b) \/ Total(h) > Len(b))
  BY <1>6
<1> QED BY <1>7, <1>8, <1>9, <1>10, <1>11, <1>12

\* What Skip and Accept keep, the link keeps, whatever bytes arrive.
LEMMA LinkKeeps ==
  ASSUME NEW K \in SUBSET Links, \A l \in K, n \in Nat : Skip(l, n) \in K,
         \A l \in K, p \in Full : Accept(l, p) \in K, NEW b \in Seq(Nat), NEW l0 \in K
  PROVE  Extract(b, l0).link \in K
<1> DEFINE G == {s \in Cuttings : s.link \in K}
<1>1. \A s \in G : Cut(s) \in G
  <2> SUFFICES ASSUME NEW s \in G PROVE Cut(s).link \in K
    BY CutFacts
  <2> QED BY CutLink
<1>2. PICK s \in Cuttings : s = [buf |-> b, link |-> l0] /\ Run(s) = Extract(b, l0)
  BY RunOf
<1>3. s \in G
  BY <1>2
<1>4. Run(s) \in G
  <2>1. G \in SUBSET Cuttings
    OBVIOUS
  <2> HIDE DEF G
  <2> QED BY <1>1, <1>3, <2>1, ExtractKeeps
<1> QED BY <1>2, <1>4

\* How FileGaps counts.
Counting(out, g) ==
  /\ g \in [Nat -> Nat]
  /\ g[0] = 0
  /\ \A n \in Nat : g[n + 1] = IF n + 1 \in 2..Len(out)
                               THEN g[n] + FileGap(out[n].seq, out[n + 1].seq) ELSE 0
  /\ FileGaps(out) = g[Len(out)]

LEMMA FileGapFacts ==
  ASSUME NEW a \in 0..(Modulus - 1), NEW b \in 0..(Modulus - 1)
  PROVE  /\ FileGap(a, b) \in Nat
         /\ FileGap(a, b) <= Gap(a, b)
         /\ ~(b < a) => FileGap(a, b) = Gap(a, b)
<1>1. /\ Modulus \in Nat /\ GapLimit \in Nat /\ GapLimit < Modulus /\ a \in Nat /\ b \in Nat
      /\ a < Modulus /\ b < Modulus /\ a # NoSeq
  BY ModulusFacts DEF NoSeq
<1>2. PICK d \in Int : d = b - a - 1
  BY <1>1
<1>3. FileGap(a, b) = IF 0 < d /\ d < GapLimit THEN d ELSE 0
  BY <1>2 DEF FileGap
<1>4. Gap(a, b) = IF 0 < d % Modulus /\ d % Modulus < GapLimit THEN d % Modulus ELSE 0
  BY <1>1, <1>2 DEF Gap
<1>5. CASE b > a
  <2>1. d \in 0..(Modulus - 1)
    BY <1>1, <1>2, <1>5
  <2>2. d % Modulus = d
    BY <2>1, ModulusFacts, Zenon
  <2> QED BY <1>1, <1>3, <1>4, <2>1, <2>2
<1>6. CASE b = a
  <2>1. d = -1 /\ d \in (-Modulus)..(-1)
    BY <1>1, <1>2, <1>6
  <2>2. d % Modulus = d + Modulus
    BY <2>1, ModulusFacts, Zenon
  <2>3. d % Modulus = Modulus - 1
    BY <1>1, <2>1, <2>2
  <2> QED BY <1>1, <1>3, <1>4, <2>1, <2>3
<1>7. CASE b < a
  <2>1. d < 0
    BY <1>1, <1>2, <1>7
  <2>2. d % Modulus \in 0..(Modulus - 1)
    BY ModulusFacts, Zenon
  <2> QED BY <1>1, <1>3, <1>4, <1>7, <2>1, <2>2
<1> QED BY <1>1, <1>5, <1>6, <1>7

LEMMA CountingExists ==
  ASSUME NEW out \in Seq(Packet)
  PROVE  \E g : Counting(out, g)
<1> DEFINE Def(f) == f = [n \in Nat |-> IF n \in 2..Len(out)
                            THEN f[n - 1] + FileGap(out[n - 1].seq, out[n].seq) ELSE 0]
           gaps == CHOOSE f : Def(f)
           St == [n \in Nat |-> [x \in Nat |->
                    IF n + 1 \in 2..Len(out) THEN x + FileGap(out[n].seq, out[n + 1].seq) ELSE 0]]
<1>1. ASSUME NEW n \in Nat, n + 1 \in 2..Len(out)
      PROVE  FileGap(out[n].seq, out[n + 1].seq) \in Nat
  <2>1. n \in 1..Len(out) /\ n + 1 \in 1..Len(out)
    BY <1>1
  <2>2. out[n] \in Packet /\ out[n + 1] \in Packet
    BY <2>1
  <2>3. out[n].seq \in 0..(Modulus - 1) /\ out[n + 1].seq \in 0..(Modulus - 1)
    BY <2>2 DEF Packet
  <2> QED BY <2>3, FileGapFacts
<1>2. St \in [Nat -> [Nat -> Nat]]
  <2>1. ASSUME NEW n \in Nat
        PROVE  [x \in Nat |-> IF n + 1 \in 2..Len(out)
                  THEN x + FileGap(out[n].seq, out[n + 1].seq) ELSE 0] \in [Nat -> Nat]
    BY <1>1
  <2> QED BY <2>1
<1>3. \A n \in Nat, x \in Nat : St[n][x] =
        IF n + 1 \in 2..Len(out) THEN x + FileGap(out[n].seq, out[n + 1].seq) ELSE 0
  OBVIOUS
<1> HIDE DEF St
<1>4. PICK f \in [Nat -> Nat] : f[0] = 0 /\ \A n \in Nat : f[n + 1] = St[n][f[n]]
  <2>1. Sequenced(Nat, 0, St)
    BY <1>2, Recursion
  <2> QED BY <2>1 DEF Sequenced
<1>5. \A n \in Nat : f[n + 1] = IF n + 1 \in 2..Len(out)
                               THEN f[n] + FileGap(out[n].seq, out[n + 1].seq) ELSE 0
  BY <1>3, <1>4
<1>6. Def(f)
  <2>1. ASSUME NEW n \in Nat
        PROVE  f[n] = IF n \in 2..Len(out)
                      THEN f[n - 1] + FileGap(out[n - 1].seq, out[n].seq) ELSE 0
    <3>1. CASE n = 0
      BY <1>4, <3>1
    <3>2. CASE n # 0
      <4>1. PICK m \in Nat : m = n - 1 /\ n = m + 1
        BY <3>2
      <4> QED BY <1>5, <4>1
    <3> QED BY <3>1, <3>2
  <2> QED BY <2>1
<1>7. Def(gaps)
  <2> HIDE DEF Def
  <2> QED BY <1>6, Zenon
<1>8. FileGaps(out) = gaps[Len(out)]
  BY DEF FileGaps
<1> HIDE DEF gaps
<1>9. \A n \in Nat : gaps[n + 1] = IF n + 1 \in 2..Len(out)
                               THEN gaps[n] + FileGap(out[n].seq, out[n + 1].seq) ELSE 0
  <2> SUFFICES ASSUME NEW n \in Nat
               PROVE  gaps[n + 1] = IF n + 1 \in 2..Len(out)
                               THEN gaps[n] + FileGap(out[n].seq, out[n + 1].seq) ELSE 0
    OBVIOUS
  <2>1. n + 1 \in Nat /\ (n + 1) - 1 = n
    OBVIOUS
  <2>2. gaps[n + 1] = IF n + 1 \in 2..Len(out)
          THEN gaps[(n + 1) - 1] + FileGap(out[(n + 1) - 1].seq, out[n + 1].seq) ELSE 0
    BY <1>7, <2>1
  <2> QED BY <2>1, <2>2
<1>10. gaps[0] = 0
  BY <1>7
<1>11. gaps = f
  <2> DEFINE T == {n \in Nat : gaps[n] = f[n]}
  <2>1. 0 \in T
    BY <1>4, <1>10
  <2>2. ASSUME NEW n \in Nat, n \in T PROVE n + 1 \in T
    <3>1. gaps[n] = f[n]
      BY <2>2
    <3>2. gaps[n + 1] = IF n + 1 \in 2..Len(out)
                        THEN gaps[n] + FileGap(out[n].seq, out[n + 1].seq) ELSE 0
      BY <1>9
    <3>3. f[n + 1] = IF n + 1 \in 2..Len(out)
                     THEN f[n] + FileGap(out[n].seq, out[n + 1].seq) ELSE 0
      BY <1>5
    <3> QED BY <3>1, <3>2, <3>3
  <2>3. \A n \in Nat : n \in T
    <3> HIDE DEF T
    <3> QED BY <2>1, <2>2, Induction
  <2>4. gaps = [n \in Nat |-> gaps[n]]
    BY <1>7
  <2> QED BY <2>3, <2>4
<1> QED BY <1>4, <1>5, <1>8, <1>11 DEF Counting

LEMMA FileGapsAppend ==
  ASSUME NEW out \in Seq(Packet), NEW p \in Packet
  PROVE  /\ FileGaps(<<>>) = 0
         /\ FileGaps(out) \in Nat
         /\ FileGaps(Append(out, p)) =
              IF out = <<>> THEN 0 ELSE FileGaps(out) + FileGap(out[Len(out)].seq, p.seq)
<1>1. PICK more \in Seq(Packet) : more = Append(out, p)
  BY AppendProperties
<1>2. PICK z \in Nat : z = Len(out) /\ Len(more) = z + 1 /\ more[z + 1] = p
                       /\ \A n \in 1..z : more[n] = out[n]
  BY <1>1
<1>3. PICK g : Counting(out, g)
  BY CountingExists
<1>4. PICK k : Counting(more, k)
  BY CountingExists
<1> DEFINE T == {n \in Nat : n <= z => k[n] = g[n]}
<1>5. 0 \in T
  BY <1>3, <1>4 DEF Counting
<1>6. ASSUME NEW n \in Nat, n \in T PROVE n + 1 \in T
  <2> SUFFICES ASSUME n + 1 <= z PROVE k[n + 1] = g[n + 1]
    OBVIOUS
  <2>1. k[n] = g[n]
    BY <1>6
  <2>2. g[n + 1] = IF n + 1 \in 2..z
                   THEN g[n] + FileGap(out[n].seq, out[n + 1].seq) ELSE 0
    BY <1>2, <1>3 DEF Counting
  <2>3. k[n + 1] = IF n + 1 \in 2..(z + 1)
                   THEN k[n] + FileGap(more[n].seq, more[n + 1].seq) ELSE 0
    BY <1>2, <1>4 DEF Counting
  <2>4. n + 1 \in 2..z <=> n + 1 \in 2..(z + 1)
    OBVIOUS
  <2>5. n + 1 \in 2..z => more[n] = out[n] /\ more[n + 1] = out[n + 1]
    BY <1>2
  <2> QED BY <2>1, <2>2, <2>3, <2>4, <2>5
<1>7. \A n \in Nat : n \in T
  <2> HIDE DEF T
  <2> QED BY <1>5, <1>6, Induction
<1>8. k[z] = g[z]
  BY <1>7
<1>9. FileGaps(more) = k[z + 1] /\ FileGaps(out) = g[z] /\ g[z] \in Nat
  BY <1>2, <1>3, <1>4 DEF Counting
<1>10. k[z + 1] = IF z + 1 \in 2..(z + 1) THEN k[z] + FileGap(more[z].seq, more[z + 1].seq) ELSE 0
  BY <1>2, <1>4 DEF Counting
<1>11. FileGaps(<<>>) = 0
  <2>1. <<>> \in Seq(Packet) /\ Len(<<>>) = 0
    OBVIOUS
  <2>2. PICK e : Counting(<<>>, e)
    BY <2>1, CountingExists
  <2> QED BY <2>1, <2>2 DEF Counting
<1>12. FileGaps(more) = IF out = <<>> THEN 0 ELSE FileGaps(out) + FileGap(out[z].seq, p.seq)
  <2>1. CASE z = 0
    <3>1. out = <<>> /\ ~(z + 1 \in 2..(z + 1))
      <4>1. Len(out) = 0
        BY <1>2, <2>1
      <4> QED BY <2>1, <4>1, EmptySeq
    <3> QED BY <1>9, <1>10, <3>1
  <2>2. CASE z # 0
    <3>1. out # <<>> /\ z + 1 \in 2..(z + 1) /\ z \in 1..z
      BY <1>2, <2>2
    <3>2. more[z] = out[z] /\ more[z + 1] = p
      BY <1>2, <3>1
    <3> QED BY <1>8, <1>9, <1>10, <3>1, <3>2
  <2> QED BY <2>1, <2>2
<1> QED BY <1>1, <1>2, <1>9, <1>11, <1>12

\* The way from one number forward to another.
LEMMA DistFacts ==
  ASSUME NEW a \in 0..(Modulus - 1), NEW b \in 0..(Modulus - 1)
  PROVE  (b - a) % Modulus = IF a <= b THEN b - a ELSE b - a + Modulus
<1>1. Modulus \in Nat /\ a \in Nat /\ b \in Nat /\ a < Modulus /\ b < Modulus
  BY ModulusFacts
<1>2. PICK d \in Int : d = b - a
  BY <1>1
<1>3. CASE a <= b
  <2>1. d \in 0..(Modulus - 1)
    BY <1>1, <1>2, <1>3
  <2>2. d % Modulus = d
    BY <2>1, ModulusFacts, Zenon
  <2> QED BY <1>2, <1>3, <2>2
<1>4. CASE ~(a <= b)
  <2>1. d \in (-Modulus)..(-1)
    BY <1>1, <1>2, <1>4
  <2>2. d % Modulus = d + Modulus
    BY <2>1, ModulusFacts, Zenon
  <2> QED BY <1>2, <1>4, <2>2
<1> QED BY <1>3, <1>4

\* A step that is near is not longer than what the link counts, and what the file counts
\* is less than the way.
LEMMA NearFacts ==
  ASSUME NEW a \in 0..(Modulus - 1), NEW b \in 0..(Modulus - 1)
  PROVE  /\ Gap(a, b) \in Nat /\ FileGap(a, b) \in Nat
         /\ Near(a, b) => (b - a) % Modulus <= Gap(a, b) + 1
         /\ FileGap(a, b) = 0 \/ FileGap(a, b) <= ((b - a) % Modulus) - 1
         /\ a < b /\ Near(a, b) => Gap(a, b) = b - a - 1 /\ FileGap(a, b) = b - a - 1
<1>1. /\ Modulus \in Nat /\ GapLimit \in Nat /\ 0 < GapLimit /\ GapLimit < Modulus
      /\ a \in Nat /\ b \in Nat /\ a < Modulus /\ b < Modulus /\ a # NoSeq
  BY ModulusFacts DEF NoSeq
<1>2. PICK w \in Int : w = (b - a) % Modulus /\ w = IF a <= b THEN b - a ELSE b - a + Modulus
  <2>1. (b - a) % Modulus = IF a <= b THEN b - a ELSE b - a + Modulus
    BY DistFacts
  <2> QED BY <1>1, <2>1
<1>3. PICK d \in Int : d = b - a - 1
  BY <1>1
<1>4. PICK m \in Int : m = d % Modulus /\ m = IF w = 0 THEN Modulus - 1 ELSE w - 1
  <2>1. CASE a < b
    <3>1. d \in 0..(Modulus - 1)
      BY <1>1, <1>3, <2>1
    <3>2. d % Modulus = d
      BY <3>1, ModulusFacts, Zenon
    <3> QED BY <1>1, <1>2, <1>3, <2>1, <3>2
  <2>2. CASE ~(a < b)
    <3>1. d \in (-Modulus)..(-1)
      BY <1>1, <1>3, <2>2
    <3>2. d % Modulus = d + Modulus
      BY <3>1, ModulusFacts, Zenon
    <3> QED BY <1>1, <1>2, <1>3, <2>2, <3>2
  <2> QED BY <2>1, <2>2
<1>5. Gap(a, b) = IF 0 < m /\ m < GapLimit THEN m ELSE 0
  BY <1>1, <1>3, <1>4 DEF Gap
<1>6. FileGap(a, b) = IF 0 < d /\ d < GapLimit THEN d ELSE 0
  BY <1>3 DEF FileGap
<1>7. Near(a, b) <=> w <= GapLimit
  BY <1>2 DEF Near
<1>8. Gap(a, b) \in Nat /\ FileGap(a, b) \in Nat
  BY <1>4, <1>5, <1>6
<1>9. w <= GapLimit => w <= Gap(a, b) + 1
  BY <1>1, <1>2, <1>4, <1>5
<1>10. FileGap(a, b) = 0 \/ FileGap(a, b) <= w - 1
  BY <1>1, <1>2, <1>3, <1>6
<1>11. a < b /\ w <= GapLimit => Gap(a, b) = b - a - 1 /\ FileGap(a, b) = b - a - 1
  BY <1>1, <1>2, <1>3, <1>4, <1>5, <1>6
<1> QED BY <1>2, <1>7, <1>8, <1>9, <1>10, <1>11

\* Two ways, one after the other, are as long as the way of both, or longer by a turn.
LEMMA WayFacts ==
  ASSUME NEW a \in 0..(Modulus - 1), NEW b \in 0..(Modulus - 1), NEW c \in 0..(Modulus - 1)
  PROVE  /\ (c - a) % Modulus \in Nat /\ (a - a) % Modulus = 0
         /\ (c - a) % Modulus <= ((b - a) % Modulus) + ((c - b) % Modulus)
<1>1. Modulus \in Nat /\ a \in Nat /\ b \in Nat /\ c \in Nat
      /\ a < Modulus /\ b < Modulus /\ c < Modulus
  BY ModulusFacts
<1>2. /\ (c - a) % Modulus = IF a <= c THEN c - a ELSE c - a + Modulus
      /\ (b - a) % Modulus = IF a <= b THEN b - a ELSE b - a + Modulus
      /\ (c - b) % Modulus = IF b <= c THEN c - b ELSE c - b + Modulus
      /\ (a - a) % Modulus = IF a <= a THEN a - a ELSE a - a + Modulus
  BY DistFacts
<1> QED BY <1>1, <1>2

\* The link's count after each of its packets.
Tally(out, g) ==
  /\ g \in [Nat -> Nat] /\ g[0] = 0 /\ g[1] = 0
  /\ \A n \in 1..(Len(out) - 1) : g[n + 1] = g[n] + Gap(out[n].seq, out[n + 1].seq)
  /\ \A m, n \in 0..Len(out) : m <= n => g[m] <= g[n]

Told(l, g) ==
  /\ Tally(l.out, g) /\ l.lost = g[Len(l.out)]
  /\ l.last = IF l.out = <<>> THEN NoSeq ELSE l.out[Len(l.out)].seq

NearUpTo(out, n) == \A i \in 2..n : Near(out[i - 1].seq, out[i].seq)
NotBack(out, n)  == \A i \in 2..n : ~(out[i].seq < out[i - 1].seq)
Rising(out, n)   == \A i \in 2..n : out[i - 1].seq < out[i].seq

\* The numbers in the file, which the loop has got from the first n packets.
LastNo(f)  == f[Len(f)].seq
Ahead(out, n, f) == (out[n].seq - LastNo(f)) % Modulus

\* The file f and the drops d after the first n packets of out, g the link's counts: what the
\* file counts, and the way from its last packet to the last that the loop has looked
\* at, is not more than the counts; and the counts are the file's where it has lost nothing.
Fed(out, g, r, n, f, d) ==
  /\ r \in {"off", "on", "over"} /\ n \in 0..Len(out) /\ f \in Seq(Packet) /\ d \in Nat
  /\ Len(f) + d <= n
  /\ r = "off" => f = <<>> /\ d = 0
  /\ d = 0 \/ NearUpTo(out, n) => FileGaps(f) <= g[n] + d
  /\ r = "on" /\ f # <<>> /\ d = 0 => LastNo(f) = out[n].seq
  /\ r = "on" /\ f # <<>> /\ NearUpTo(out, n) => FileGaps(f) + Ahead(out, n, f) <= g[n] + d

\* A run that has met `recording' at every packet: what it counts exactly.
Exact(out, g, n, f, d) ==
  Len(f) + d = n =>
    /\ d = 0 /\ NotBack(out, n) =>
         FileGaps(f) = g[n] /\ (f # <<>> => LastNo(f) = out[n].seq)
    /\ NearUpTo(out, n) /\ Rising(out, n) =>
         /\ n > 0 => g[n] = out[n].seq - out[1].seq - (n - 1)
         /\ f # <<>> => LastNo(f) <= out[n].seq
         /\ f # <<>> /\ InSteps(f) => FileGaps(f) = LastNo(f) - f[1].seq - (Len(f) - 1)

\* Sums of steps.
LEMMA Detour ==
  ASSUME NEW x \in Nat, NEW u \in Nat, NEW v \in Nat, NEW w \in Nat, NEW y \in Nat,
         NEW m \in Nat, NEW d \in Nat, x + u <= m + d, v <= y + 1, w <= u + v
  PROVE  x + w <= (m + y) + (d + 1)
OBVIOUS

LEMMA DetourBack ==
  ASSUME NEW x \in Nat, NEW u \in Nat, NEW v \in Nat, NEW w \in Nat, NEW y \in Nat,
         NEW m \in Nat, NEW d \in Nat, x + u <= m + d, v <= y + 1, w <= u + v,
         NEW k \in Nat, k = 0 \/ k <= w - 1
  PROVE  x + k <= (m + y) + d
<1>1. CASE k = 0
  BY <1>1
<1>2. CASE k <= w - 1
  BY <1>2
<1> QED BY <1>1, <1>2

LEMMA OneMore ==
  ASSUME NEW a \in Nat, NEW b \in Nat, NEW q \in Nat, NEW n \in Nat
  PROVE  /\ (a - b - (n - 1)) + (q - a - 1) = q - b - n
         /\ (n + 1) - 1 = n
OBVIOUS

LEMMA FewerSteps ==
  ASSUME NEW a \in Nat, NEW b \in Nat, NEW n \in Nat, NEW c \in Nat, NEW d \in Nat, c + d = n
  PROVE  a - b - (c - 1) = (a - b - (n - 1)) + d
OBVIOUS

LEMMA Numbers ==
  ASSUME NEW p \in Packet
  PROVE  p.seq \in 0..(Modulus - 1) /\ p.seq \in Nat
<1>1. p.seq \in 0..(Modulus - 1)
  BY DEF Packet
<1> QED BY <1>1, ModulusFacts

LEMMA UpToFacts ==
  ASSUME NEW out, NEW n \in Nat
  PROVE  /\ NearUpTo(out, n + 1) => NearUpTo(out, n)
         /\ NotBack(out, n + 1) => NotBack(out, n)
         /\ Rising(out, n + 1) => Rising(out, n)
         /\ n > 0 /\ NearUpTo(out, n + 1) => Near(out[n].seq, out[n + 1].seq)
         /\ n > 0 /\ NotBack(out, n + 1) => ~(out[n + 1].seq < out[n].seq)
         /\ n > 0 /\ Rising(out, n + 1) => out[n].seq < out[n + 1].seq
<1>1. \A i \in 2..n : i \in 2..(n + 1)
  OBVIOUS
<1>2. n > 0 => n + 1 \in 2..(n + 1) /\ (n + 1) - 1 = n
  OBVIOUS
<1> QED BY <1>1, <1>2 DEF NearUpTo, NotBack, Rising

LEMMA TallyAppend ==
  ASSUME NEW l \in Links, NEW g, Told(l, g), NEW p \in Packet
  PROVE  \E h : Told(Accept(l, p), h) /\ \A n \in 0..Len(l.out) : h[n] = g[n]
<1>1. PICK o \in Seq(Packet), z \in Nat : o = l.out /\ z = Len(o)
  BY DEF Links
<1>2. PICK x : x = Gap(l.last, p.seq)
  OBVIOUS
<1>3. x \in Nat /\ (z = 0 => x = 0)
  <2>1. l.last \in Nat \cup {NoSeq} /\ p.seq \in 0..(Modulus - 1)
    BY DEF Links, Packet
  <2>2. Gap(l.last, p.seq) \in 0..(GapLimit - 1)
    BY <2>1, GapFacts
  <2>3. z = 0 => l.last = NoSeq
    BY <1>1, EmptySeq DEF Told
  <2>4. z = 0 => x = 0
    BY <1>2, <2>3, Zenon DEF Gap
  <2> QED BY <1>2, <2>2, <2>4, ModulusFacts
<1>4. PICK a \in Links : /\ a = Accept(l, p) /\ a.lost = l.lost + x
                         /\ a.last = p.seq /\ a.out = Append(o, p)
  BY <1>1, <1>2, AcceptFacts
<1>5. /\ Len(a.out) = z + 1 /\ a.out[z + 1] = p /\ \A n \in 1..z : a.out[n] = o[n]
      /\ a.out # <<>>
  BY <1>1, <1>4
<1>6. /\ g \in [Nat -> Nat] /\ g[0] = 0 /\ g[1] = 0 /\ l.lost = g[z]
      /\ \A n \in 1..(z - 1) : g[n + 1] = g[n] + Gap(o[n].seq, o[n + 1].seq)
      /\ \A m, n \in 0..z : m <= n => g[m] <= g[n]
      /\ z # 0 => l.last = o[z].seq
  BY <1>1, EmptySeq DEF Told, Tally
<1>7. PICK h : h = [n \in Nat |-> IF n <= z THEN g[n] ELSE g[z] + x]
  OBVIOUS
<1>8. h \in [Nat -> Nat] /\ (\A n \in 0..z : h[n] = g[n]) /\ h[z + 1] = g[z] + x
  <2>1. g[z] + x \in Nat /\ \A n \in Nat : g[n] \in Nat
    BY <1>1, <1>3, <1>6
  <2>2. h \in [Nat -> Nat]
    BY <1>7, <2>1
  <2>3. \A n \in 0..z : n \in Nat /\ n <= z
    BY <1>1
  <2>4. z + 1 \in Nat /\ ~(z + 1 <= z)
    BY <1>1
  <2> QED BY <1>7, <2>2, <2>3, <2>4
<1>9. h[0] = 0 /\ h[1] = 0
  <2>1. CASE z = 0
    BY <1>3, <1>6, <1>8, <2>1
  <2>2. CASE z # 0
    BY <1>6, <1>8, <2>2
  <2> QED BY <2>1, <2>2
<1>10. ASSUME NEW n \in 1..z PROVE h[n + 1] = h[n] + Gap(a.out[n].seq, a.out[n + 1].seq)
  <2>1. CASE n = z
    <3>1. n \in 0..z /\ n \in 1..z /\ z # 0
      BY <1>1, <2>1
    <3>2. a.out[n].seq = l.last /\ a.out[n + 1].seq = p.seq
      BY <1>5, <1>6, <2>1, <3>1
    <3>3. h[n] = g[z] /\ h[n + 1] = g[z] + x
      BY <1>8, <2>1, <3>1
    <3> QED BY <1>2, <3>2, <3>3
  <2>2. CASE n # z
    <3>1. n \in 1..(z - 1) /\ n + 1 \in 1..z /\ n \in 0..z /\ n + 1 \in 0..z
      BY <2>2
    <3>2. a.out[n] = o[n] /\ a.out[n + 1] = o[n + 1] /\ h[n] = g[n] /\ h[n + 1] = g[n + 1]
      BY <1>5, <1>8, <3>1
    <3> QED BY <1>6, <3>1, <3>2
  <2> QED BY <2>1, <2>2
<1>11. ASSUME NEW m \in 0..(z + 1), NEW n \in 0..(z + 1), m <= n PROVE h[m] <= h[n]
  <2>1. CASE n \in 0..z
    <3>1. m \in 0..z
      BY <1>1, <1>11, <2>1
    <3>2. g[m] <= g[n] /\ h[m] = g[m] /\ h[n] = g[n]
      BY <1>6, <1>8, <1>11, <2>1, <3>1
    <3> QED BY <3>2
  <2>2. CASE n = z + 1 /\ m \in 0..z
    <3>1. z \in 0..z /\ m <= z /\ m \in Nat /\ z \in Nat
      BY <1>1, <2>2
    <3>2. g[m] <= g[z] /\ h[m] = g[m] /\ g[m] \in Nat /\ g[z] \in Nat
      BY <1>6, <1>8, <2>2, <3>1
    <3>3. h[n] = g[z] + x
      BY <1>8, <2>2
    <3> QED BY <1>3, <3>2, <3>3
  <2>3. CASE n = z + 1 /\ m = z + 1
    <3>1. h[m] \in Nat /\ h[n] = h[m]
      BY <1>1, <1>8, <2>3
    <3> QED BY <3>1
  <2> QED BY <1>1, <2>1, <2>2, <2>3
<1>12. (z + 1) - 1 = z
  OBVIOUS
<1>13. Tally(a.out, h)
  BY <1>5, <1>8, <1>9, <1>10, <1>11, <1>12 DEF Tally
<1>14. a.lost = h[z + 1] /\ a.last = a.out[z + 1].seq
  BY <1>4, <1>5, <1>6, <1>8
<1>15. Told(a, h)
  BY <1>5, <1>13, <1>14 DEF Told
<1> QED BY <1>1, <1>4, <1>8, <1>15

\* What the file has after it got one more packet.
LEMMA Longer ==
  ASSUME NEW f \in Seq(Packet), NEW q \in Packet
  PROVE  \E h \in Seq(Packet) :
           /\ h = Append(f, q) /\ Len(h) = Len(f) + 1 /\ h # <<>> /\ LastNo(h) = q.seq
           /\ f = <<>> => FileGaps(h) = 0 /\ h[1].seq = q.seq
           /\ f # <<>> => /\ FileGaps(h) = FileGaps(f) + FileGap(LastNo(f), q.seq)
                          /\ h[1].seq = f[1].seq /\ Len(f) > 0
                          /\ InSteps(h) => InSteps(f) /\ Near(LastNo(f), q.seq)
<1>1. PICK h \in Seq(Packet) : h = Append(f, q)
  BY AppendProperties
<1>2. /\ Len(h) = Len(f) + 1 /\ h[Len(f) + 1] = q /\ Len(f) \in Nat
      /\ \A n \in 1..Len(f) : h[n] = f[n]
  BY <1>1
<1>3. FileGaps(h) = IF f = <<>> THEN 0 ELSE FileGaps(f) + FileGap(f[Len(f)].seq, q.seq)
  BY <1>1, FileGapsAppend
<1>4. f = <<>> => Len(f) = 0
  OBVIOUS
<1>5. f # <<>> => Len(f) > 0
  BY <1>2, EmptySeq
<1>6. h # <<>> /\ LastNo(h) = q.seq
  BY <1>1, <1>2 DEF LastNo
<1>7. f # <<>> => h[1] = f[1] /\ h[Len(f)] = f[Len(f)]
  BY <1>2, <1>5
<1>8. ASSUME f # <<>>, InSteps(h) PROVE InSteps(f) /\ Near(LastNo(f), q.seq)
  <2>1. \A i \in 2..Len(f) : /\ i \in 2..Len(h) /\ i \in 1..Len(f) /\ i - 1 \in 1..Len(f)
    BY <1>2
  <2>2. InSteps(f)
    BY <1>2, <1>8, <2>1 DEF InSteps
  <2>3. Len(h) \in 2..Len(h) /\ Len(h) - 1 = Len(f)
    BY <1>2, <1>5, <1>8
  <2>4. Near(h[Len(h) - 1].seq, h[Len(h)].seq)
    BY <1>8, <2>3 DEF InSteps
  <2> QED BY <1>2, <1>7, <1>8, <2>2, <2>3, <2>4 DEF LastNo
<1>9. f = <<>> => h[1].seq = q.seq
  BY <1>2, <1>4
<1>10. FileGap(f[Len(f)].seq, q.seq) = FileGap(LastNo(f), q.seq)
  BY DEF LastNo
<1>11. f = <<>> => FileGaps(h) = 0
  BY <1>3
<1>12. f # <<>> => FileGaps(h) = FileGaps(f) + FileGap(LastNo(f), q.seq)
  BY <1>3, <1>10
<1>13. Len(h) = Len(f) + 1 /\ (f # <<>> => h[1].seq = f[1].seq)
  BY <1>2, <1>7
<1> QED BY <1>1, <1>5, <1>6, <1>8, <1>9, <1>11, <1>12, <1>13, Zenon

\* The next packet of the link, as a number, and what the link counts for it.
LEMMA NextPut ==
  ASSUME NEW out \in Seq(Packet), NEW g, Tally(out, g), NEW n \in Nat, n < Len(out)
  PROVE  /\ n + 1 \in 0..Len(out) /\ out[n + 1] \in Packet
         /\ out[n + 1].seq \in 0..(Modulus - 1)
         /\ g[n] \in Nat /\ g[n + 1] \in Nat /\ g[n] <= g[n + 1]
         /\ n = 0 => g[n] = 0 /\ g[n + 1] = 0
         /\ n > 0 => /\ out[n] \in Packet /\ out[n].seq \in 0..(Modulus - 1)
                     /\ g[n + 1] = g[n] + Gap(out[n].seq, out[n + 1].seq)
<1>1. n + 1 \in 1..Len(out) /\ n \in 0..Len(out) /\ n + 1 \in 0..Len(out) /\ n <= n + 1
  OBVIOUS
<1>2. out[n + 1] \in Packet
  BY <1>1
<1>3. n > 0 => n \in 1..Len(out) /\ n \in 1..(Len(out) - 1)
  OBVIOUS
<1>4. n > 0 => out[n] \in Packet
  BY <1>3
<1>5. g[n] \in Nat /\ g[n + 1] \in Nat
  BY DEF Tally
<1>6. g[n] <= g[n + 1]
  BY <1>1 DEF Tally
<1>7. n > 0 => g[n + 1] = g[n] + Gap(out[n].seq, out[n + 1].seq)
  BY <1>3 DEF Tally
<1>8. n = 0 => g[n] = 0 /\ g[n + 1] = 0
  BY DEF Tally
<1> QED BY <1>1, <1>2, <1>4, <1>5, <1>6, <1>7, <1>8 DEF Packet

LEMMA LastNoFacts ==
  ASSUME NEW f \in Seq(Packet), f # <<>>
  PROVE  LastNo(f) \in 0..(Modulus - 1) /\ f[1].seq \in 0..(Modulus - 1) /\ Len(f) \in Nat \ {0}
<1>1. Len(f) \in Nat \ {0}
  BY EmptySeq
<1>2. f[Len(f)] \in Packet /\ f[1] \in Packet
  BY <1>1
<1> QED BY <1>1, <1>2 DEF LastNo, Packet

LEMMA FileGapsNat ==
  ASSUME NEW f \in Seq(Packet) PROVE FileGaps(f) \in Nat /\ FileGaps(<<>>) = 0
<1>1. PICK p : p = [version |-> 0, seq |-> 0, payload |-> <<>>]
  OBVIOUS
<1>2. p \in Packet
  BY <1>1, ModulusFacts DEF Packet
<1> QED BY <1>2, FileGapsAppend

\* The gate is shut.
LEMMA FedSkip ==
  ASSUME NEW out \in Seq(Packet), NEW g, Tally(out, g), NEW r, NEW n, NEW f, NEW d,
         Fed(out, g, r, n, f, d), Exact(out, g, n, f, d), n < Len(out),
         NEW now \in {"off", "over"}, now = "off" => r = "off"
  PROVE  Fed(out, g, now, n + 1, f, d) /\ Exact(out, g, n + 1, f, d)
<1>1. n \in Nat /\ f \in Seq(Packet) /\ d \in Nat /\ Len(f) \in Nat /\ Len(f) + d <= n
  BY DEF Fed
<1>2. n + 1 \in 0..Len(out) /\ g[n] \in Nat /\ g[n + 1] \in Nat /\ g[n] <= g[n + 1]
  BY <1>1, NextPut
<1>3. FileGaps(f) \in Nat
  BY <1>1, FileGapsNat
<1>4. d = 0 \/ NearUpTo(out, n + 1) => FileGaps(f) <= g[n + 1] + d
  <2>1. NearUpTo(out, n + 1) => NearUpTo(out, n)
    BY <1>1, UpToFacts
  <2>2. d = 0 \/ NearUpTo(out, n) => FileGaps(f) <= g[n] + d
    BY DEF Fed
  <2> QED BY <1>1, <1>2, <1>3, <2>1, <2>2
<1>5. Fed(out, g, now, n + 1, f, d)
  BY <1>1, <1>2, <1>4 DEF Fed
<1>6. Exact(out, g, n + 1, f, d)
  BY <1>1 DEF Exact
<1> QED BY <1>5, <1>6

\* The queue is full.
LEMMA FedDrop ==
  ASSUME NEW out \in Seq(Packet), NEW g, Tally(out, g), NEW r \in {"off", "on"}, NEW n, NEW f,
         NEW d, Fed(out, g, r, n, f, d), Exact(out, g, n, f, d), n < Len(out)
  PROVE  Fed(out, g, "on", n + 1, f, d + 1) /\ Exact(out, g, n + 1, f, d + 1)
<1>1. n \in Nat /\ f \in Seq(Packet) /\ d \in Nat /\ Len(f) \in Nat /\ Len(f) + d <= n
  BY DEF Fed
<1>2. PICK q : q = out[n + 1].seq
  OBVIOUS
<1>3. /\ n + 1 \in 0..Len(out) /\ g[n] \in Nat /\ g[n + 1] \in Nat /\ g[n] <= g[n + 1]
      /\ q \in 0..(Modulus - 1) /\ q \in Nat /\ (n = 0 => g[n] = 0 /\ g[n + 1] = 0)
      /\ n > 0 => /\ out[n].seq \in 0..(Modulus - 1) /\ out[n].seq \in Nat
                  /\ g[n + 1] = g[n] + Gap(out[n].seq, q)
  <2>1. out[n + 1] \in Packet /\ (n > 0 => out[n] \in Packet)
    BY <1>1, NextPut
  <2>2. q \in Nat /\ (n > 0 => out[n].seq \in Nat)
    BY <1>2, <2>1, Numbers
  <2> QED BY <1>1, <1>2, <2>1, <2>2, NextPut
<1>4. FileGaps(f) \in Nat /\ (f = <<>> => FileGaps(f) = 0)
  BY <1>1, FileGapsNat
<1>5. /\ NearUpTo(out, n + 1) => NearUpTo(out, n)
      /\ NotBack(out, n + 1) => NotBack(out, n)
      /\ Rising(out, n + 1) => Rising(out, n)
      /\ n > 0 /\ NearUpTo(out, n + 1) => Near(out[n].seq, q)
      /\ n > 0 /\ Rising(out, n + 1) => out[n].seq < q
  BY <1>1, <1>2, UpToFacts
<1>6. ASSUME NearUpTo(out, n + 1) PROVE FileGaps(f) <= g[n + 1] + (d + 1)
  <2>1. FileGaps(f) <= g[n] + d
    BY <1>5, <1>6 DEF Fed
  <2>2. PICK a \in Nat, k \in Nat, m \in Nat : a = FileGaps(f) /\ k = g[n] /\ m = g[n + 1]
    BY <1>3, <1>4
  <2>3. a <= k + d /\ k <= m /\ d \in Nat
    BY <1>1, <1>3, <2>1, <2>2
  <2>4. a <= m + (d + 1)
    BY <2>3
  <2> QED BY <2>2, <2>4
<1>7. ASSUME f # <<>>, NearUpTo(out, n + 1)
      PROVE  FileGaps(f) + Ahead(out, n + 1, f) <= g[n + 1] + (d + 1)
  <2>1. r = "on" /\ n > 0
    BY <1>1, <1>7, EmptySeq DEF Fed
  <2>2. FileGaps(f) + Ahead(out, n, f) <= g[n] + d
    BY <1>5, <1>7, <2>1 DEF Fed
  <2>3. PICK a \in 0..(Modulus - 1), b \in 0..(Modulus - 1) : a = LastNo(f) /\ b = out[n].seq
    BY <1>1, <1>3, <1>7, <2>1, LastNoFacts
  <2>4. PICK u \in Nat, v \in Nat, w \in Nat :
          /\ u = (b - a) % Modulus /\ v = (q - b) % Modulus /\ w = (q - a) % Modulus
          /\ w <= u + v
    <3>1. /\ (b - a) % Modulus \in Nat /\ (q - b) % Modulus \in Nat
          /\ (q - a) % Modulus \in Nat
          /\ (q - a) % Modulus <= ((b - a) % Modulus) + ((q - b) % Modulus)
      BY <1>3, <2>3, WayFacts
    <3> QED BY <3>1
  <2>5. Gap(b, q) \in Nat /\ v <= Gap(b, q) + 1
    BY <1>3, <1>5, <1>7, <2>1, <2>3, <2>4, NearFacts
  <2>6. Ahead(out, n, f) = u /\ Ahead(out, n + 1, f) = w
    BY <1>2, <2>3, <2>4 DEF Ahead
  <2>7. g[n + 1] = g[n] + Gap(b, q)
    BY <1>3, <2>1, <2>3
  <2>8. PICK x \in Nat, y \in Nat : x = FileGaps(f) /\ y = Gap(b, q)
    BY <1>4, <2>5
  <2>9. x + u <= g[n] + d /\ g[n + 1] = g[n] + y /\ v <= y + 1
    BY <2>2, <2>5, <2>6, <2>7, <2>8
  <2>10. x + w <= g[n + 1] + (d + 1)
    <3>1. PICK m \in Nat : m = g[n]
      BY <1>3
    <3>2. x + u <= m + d /\ g[n + 1] = m + y /\ v <= y + 1 /\ w <= u + v
      BY <2>4, <2>9, <3>1
    <3>3. x + w <= (m + y) + (d + 1)
      BY <1>1, <3>2, Detour
    <3> QED BY <3>2, <3>3
  <2> QED BY <2>6, <2>8, <2>10
<1>8. Fed(out, g, "on", n + 1, f, d + 1)
  BY <1>1, <1>3, <1>6, <1>7 DEF Fed
<1>9. Exact(out, g, n + 1, f, d + 1)
  <2> SUFFICES ASSUME Len(f) + (d + 1) = n + 1, NearUpTo(out, n + 1), Rising(out, n + 1)
               PROVE  /\ g[n + 1] = out[n + 1].seq - out[1].seq - n
                      /\ f # <<>> => LastNo(f) <= out[n + 1].seq
                      /\ f # <<>> /\ InSteps(f) =>
                           FileGaps(f) = LastNo(f) - f[1].seq - (Len(f) - 1)
    BY <1>1 DEF Exact
  <2>1. Len(f) + d = n /\ NearUpTo(out, n) /\ Rising(out, n)
    BY <1>1, <1>5
  <2>2. /\ n > 0 => g[n] = out[n].seq - out[1].seq - (n - 1)
        /\ f # <<>> => LastNo(f) <= out[n].seq
        /\ f # <<>> /\ InSteps(f) => FileGaps(f) = LastNo(f) - f[1].seq - (Len(f) - 1)
    BY <2>1 DEF Exact
  <2>3. CASE n = 0
    <3>1. f = <<>>
      BY <1>1, <2>1, <2>3, EmptySeq
    <3> QED BY <1>2, <1>3, <2>3, <3>1
  <2>4. CASE n > 0
    <3>1. /\ out[n].seq < q /\ Gap(out[n].seq, q) = q - out[n].seq - 1
      BY <1>3, <1>5, <2>4, NearFacts
    <3>2. out[1] \in Packet
      BY <1>1, <2>4
    <3>3. out[1].seq \in Nat
      BY <3>2, Numbers
    <3>4. f # <<>> => LastNo(f) \in Nat
      BY <1>1, LastNoFacts, ModulusFacts
    <3>5. g[n + 1] = q - out[1].seq - n
      <4>1. g[n] = out[n].seq - out[1].seq - (n - 1) /\ g[n + 1] = g[n] + (q - out[n].seq - 1)
        BY <1>3, <2>2, <2>4, <3>1
      <4>2. PICK a \in Nat, b \in Nat : a = out[n].seq /\ b = out[1].seq
        BY <1>3, <2>4, <3>3
      <4>3. g[n + 1] = (a - b - (n - 1)) + (q - a - 1)
        BY <4>1, <4>2
      <4>4. (a - b - (n - 1)) + (q - a - 1) = q - b - n
        BY <1>1, <1>3, OneMore
      <4> QED BY <4>2, <4>3, <4>4
    <3>6. f # <<>> => LastNo(f) <= q
      BY <1>3, <2>2, <2>4, <3>1, <3>4
    <3> QED BY <1>2, <2>2, <3>5, <3>6
  <2> QED BY <1>1, <2>3, <2>4
<1> QED BY <1>8, <1>9

\* The packet goes to the file.
LEMMA FedWrite ==
  ASSUME NEW out \in Seq(Packet), NEW g, Tally(out, g), NEW r \in {"off", "on"}, NEW n, NEW f,
         NEW d, Fed(out, g, r, n, f, d), Exact(out, g, n, f, d), n < Len(out)
  PROVE  /\ Fed(out, g, "on", n + 1, Append(f, out[n + 1]), d)
         /\ Exact(out, g, n + 1, Append(f, out[n + 1]), d)
<1>1. n \in Nat /\ f \in Seq(Packet) /\ d \in Nat /\ Len(f) \in Nat /\ Len(f) + d <= n
  BY DEF Fed
<1>2. PICK q : q = out[n + 1].seq
  OBVIOUS
<1>3. /\ n + 1 \in 0..Len(out) /\ g[n] \in Nat /\ g[n + 1] \in Nat /\ g[n] <= g[n + 1]
      /\ q \in 0..(Modulus - 1) /\ q \in Nat /\ (n = 0 => g[n] = 0 /\ g[n + 1] = 0)
      /\ out[n + 1] \in Packet
      /\ n > 0 => /\ out[n].seq \in 0..(Modulus - 1) /\ out[n].seq \in Nat
                  /\ g[n + 1] = g[n] + Gap(out[n].seq, q)
  <2>1. out[n + 1] \in Packet /\ (n > 0 => out[n] \in Packet)
    BY <1>1, NextPut
  <2>2. q \in Nat /\ (n > 0 => out[n].seq \in Nat)
    BY <1>2, <2>1, Numbers
  <2> QED BY <1>1, <1>2, <2>1, <2>2, NextPut
<1>4. FileGaps(f) \in Nat /\ (f = <<>> => FileGaps(f) = 0)
  BY <1>1, FileGapsNat
<1>5. /\ NearUpTo(out, n + 1) => NearUpTo(out, n)
      /\ NotBack(out, n + 1) => NotBack(out, n)
      /\ Rising(out, n + 1) => Rising(out, n)
      /\ n > 0 /\ NearUpTo(out, n + 1) => Near(out[n].seq, q)
      /\ n > 0 /\ NotBack(out, n + 1) => ~(q < out[n].seq)
      /\ n > 0 /\ Rising(out, n + 1) => out[n].seq < q
  BY <1>1, <1>2, UpToFacts
<1>6. PICK h \in Seq(Packet) :
        /\ h = Append(f, out[n + 1]) /\ Len(h) = Len(f) + 1 /\ h # <<>> /\ LastNo(h) = q
        /\ f = <<>> => FileGaps(h) = 0 /\ h[1].seq = q
        /\ f # <<>> => /\ FileGaps(h) = FileGaps(f) + FileGap(LastNo(f), q)
                       /\ h[1].seq = f[1].seq /\ Len(f) > 0
                       /\ InSteps(h) => InSteps(f) /\ Near(LastNo(f), q)
  BY <1>1, <1>2, <1>3, Longer
<1>7. Ahead(out, n + 1, h) = 0
  BY <1>2, <1>3, <1>6, WayFacts DEF Ahead
<1>8. f # <<>> => r = "on" /\ n > 0 /\ LastNo(f) \in 0..(Modulus - 1) /\ LastNo(f) \in Nat
  BY <1>1, <1>6, LastNoFacts, ModulusFacts DEF Fed
<1>9. ASSUME d = 0 PROVE FileGaps(h) <= g[n + 1] + d
  <2>1. CASE f = <<>>
    BY <1>1, <1>3, <1>6, <2>1
  <2>2. CASE f # <<>>
    <3>1. FileGaps(f) <= g[n] + d /\ LastNo(f) = out[n].seq
      BY <1>8, <1>9, <2>2 DEF Fed
    <3>2. PICK a \in Nat, b \in Nat : a = FileGap(LastNo(f), q) /\ b = Gap(LastNo(f), q) /\ a <= b
      BY <1>3, <1>8, <2>2, FileGapFacts, NearFacts
    <3>3. PICK c \in Nat, k \in Nat : c = FileGaps(f) /\ k = g[n]
      BY <1>3, <1>4
    <3>4. c <= k + d /\ FileGaps(h) = c + a /\ g[n + 1] = k + b
      BY <1>3, <1>6, <1>8, <2>2, <3>1, <3>2, <3>3
    <3>5. c + a <= (k + b) + d
      BY <1>1, <3>2, <3>4
    <3> QED BY <3>4, <3>5
  <2> QED BY <2>1, <2>2
<1>10. ASSUME NearUpTo(out, n + 1) PROVE FileGaps(h) <= g[n + 1] + d
  <2>1. CASE f = <<>>
    BY <1>1, <1>3, <1>6, <2>1
  <2>2. CASE f # <<>>
    <3>1. FileGaps(f) + Ahead(out, n, f) <= g[n] + d
      BY <1>5, <1>8, <1>10, <2>2 DEF Fed
    <3>2. PICK a \in 0..(Modulus - 1), b \in 0..(Modulus - 1) : a = LastNo(f) /\ b = out[n].seq
      BY <1>3, <1>8, <2>2
    <3>3. PICK u \in Nat, v \in Nat, w \in Nat :
            /\ u = (b - a) % Modulus /\ v = (q - b) % Modulus /\ w = (q - a) % Modulus
            /\ w <= u + v
      <4>1. /\ (b - a) % Modulus \in Nat /\ (q - b) % Modulus \in Nat
            /\ (q - a) % Modulus \in Nat
            /\ (q - a) % Modulus <= ((b - a) % Modulus) + ((q - b) % Modulus)
        BY <1>3, <3>2, WayFacts
      <4> QED BY <4>1
    <3>4. PICK x \in Nat, y \in Nat : x = FileGap(a, q) /\ y = Gap(b, q)
      BY <1>3, <3>2, NearFacts
    <3>5. v <= y + 1
      BY <1>3, <1>5, <1>8, <1>10, <2>2, <3>2, <3>3, <3>4, NearFacts
    <3>6. x = 0 \/ x <= w - 1
      BY <1>3, <3>2, <3>3, <3>4, NearFacts
    <3>7. Ahead(out, n, f) = u /\ g[n + 1] = g[n] + y /\ FileGaps(h) = FileGaps(f) + x
      BY <1>3, <1>6, <1>8, <2>2, <3>2, <3>3, <3>4 DEF Ahead
    <3>8. PICK c \in Nat : c = FileGaps(f)
      BY <1>4
    <3>9. c + u <= g[n] + d /\ g[n + 1] = g[n] + y /\ FileGaps(h) = c + x
      BY <3>1, <3>7, <3>8
    <3>10. c + x <= g[n + 1] + d
      <4>1. PICK m \in Nat : m = g[n]
        BY <1>3
      <4>2. c + u <= m + d /\ g[n + 1] = m + y
        BY <3>9, <4>1
      <4>3. d \in Nat /\ c + u <= m + d /\ v <= y + 1 /\ w <= u + v /\ (x = 0 \/ x <= w - 1)
        BY <1>1, <3>3, <3>5, <3>6, <4>2
      <4>4. c + x <= (m + y) + d
        BY <4>3, DetourBack
      <4> QED BY <4>2, <4>4
    <3> QED BY <3>9, <3>10
  <2> QED BY <2>1, <2>2
<1>11. Fed(out, g, "on", n + 1, h, d)
  <2>1. FileGaps(h) \in Nat
    BY <1>6, FileGapsNat
  <2>3. Len(h) + d <= n + 1
    BY <1>1, <1>6
  <2> QED BY <1>1, <1>2, <1>3, <1>6, <1>7, <1>9, <1>10, <2>1, <2>3 DEF Fed
<1>12. ASSUME Len(h) + d = n + 1, d = 0, NotBack(out, n + 1)
       PROVE  FileGaps(h) = g[n + 1] /\ LastNo(h) = out[n + 1].seq
  <2>1. Len(f) + d = n
    BY <1>1, <1>6, <1>12
  <2>2. FileGaps(f) = g[n] /\ (f # <<>> => LastNo(f) = out[n].seq)
    BY <1>5, <1>12, <2>1 DEF Exact
  <2>3. CASE f = <<>>
    <3>1. n = 0
      BY <1>12, <2>1, <2>3
    <3> QED BY <1>2, <1>3, <1>6, <2>3, <3>1
  <2>4. CASE f # <<>>
    <3>1. FileGap(LastNo(f), q) = Gap(LastNo(f), q)
      BY <1>3, <1>5, <1>8, <1>12, <2>2, <2>4, FileGapFacts
    <3> QED BY <1>2, <1>3, <1>6, <1>8, <2>2, <2>4, <3>1
  <2> QED BY <2>3, <2>4
<1>13. ASSUME Len(h) + d = n + 1, NearUpTo(out, n + 1), Rising(out, n + 1)
       PROVE  /\ g[n + 1] = out[n + 1].seq - out[1].seq - n
              /\ LastNo(h) <= out[n + 1].seq
              /\ InSteps(h) => FileGaps(h) = LastNo(h) - h[1].seq - (Len(h) - 1)
  <2>1. Len(f) + d = n
    <3>1. PICK c \in Nat : c = Len(f) /\ Len(h) = c + 1
      BY <1>1, <1>6
    <3>2. (c + 1) + d = n + 1 /\ d \in Nat /\ n \in Nat
      BY <1>1, <1>13, <3>1
    <3>3. c + d = n
      BY <3>2
    <3> QED BY <3>1, <3>3
  <2>2. /\ n > 0 => g[n] = out[n].seq - out[1].seq - (n - 1)
        /\ f # <<>> => LastNo(f) <= out[n].seq
        /\ f # <<>> /\ InSteps(f) => FileGaps(f) = LastNo(f) - f[1].seq - (Len(f) - 1)
    BY <1>5, <1>13, <2>1 DEF Exact
  <2>3. g[n + 1] = out[n + 1].seq - out[1].seq - n
    <3>1. CASE n = 0
      BY <1>2, <1>3, <3>1
    <3>2. CASE n > 0
      <4>1. Gap(out[n].seq, q) = q - out[n].seq - 1
        BY <1>3, <1>5, <1>13, <3>2, NearFacts
      <4>2. out[1] \in Packet
        BY <1>1, <3>2
      <4>3. out[1].seq \in Nat
        BY <4>2, Numbers
      <4>4. g[n] = out[n].seq - out[1].seq - (n - 1) /\ g[n + 1] = g[n] + (q - out[n].seq - 1)
        BY <1>3, <2>2, <3>2, <4>1
      <4>5. g[n + 1] = q - out[1].seq - n
        <5>1. PICK a \in Nat, b \in Nat : a = out[n].seq /\ b = out[1].seq
          BY <1>3, <3>2, <4>3
        <5>2. g[n + 1] = (a - b - (n - 1)) + (q - a - 1)
          BY <4>4, <5>1
        <5>3. (a - b - (n - 1)) + (q - a - 1) = q - b - n
          BY <1>1, <1>3, OneMore
        <5> QED BY <5>1, <5>2, <5>3
      <4> QED BY <1>2, <4>5
    <3> QED BY <1>1, <3>1, <3>2
  <2>4. LastNo(h) <= out[n + 1].seq
    BY <1>2, <1>3, <1>6
  <2>5. ASSUME InSteps(h) PROVE FileGaps(h) = LastNo(h) - h[1].seq - (Len(h) - 1)
    <3>1. CASE f = <<>>
      <4>1. Len(h) = 1
        BY <1>6, <3>1
      <4> QED BY <1>3, <1>6, <3>1, <4>1
    <3>2. CASE f # <<>>
      <4>1. LastNo(f) < q /\ Near(LastNo(f), q)
        BY <1>3, <1>5, <1>6, <1>8, <1>13, <2>2, <2>5, <3>2
      <4>2. FileGap(LastNo(f), q) = q - LastNo(f) - 1
        BY <1>3, <1>8, <3>2, <4>1, NearFacts
      <4>3. FileGaps(f) = LastNo(f) - f[1].seq - (Len(f) - 1)
        BY <1>6, <2>2, <2>5, <3>2
      <4>4. f[1].seq \in Nat
        BY <1>1, <3>2, LastNoFacts, ModulusFacts
      <4>5. PICK a \in Nat, b \in Nat, c \in Nat : a = LastNo(f) /\ b = f[1].seq /\ c = Len(f)
        BY <1>1, <1>8, <3>2, <4>4
      <4>6. FileGaps(h) = (a - b - (c - 1)) + (q - a - 1) /\ Len(h) = c + 1 /\ h[1].seq = b
        BY <1>6, <3>2, <4>2, <4>3, <4>5
      <4>7. (a - b - (c - 1)) + (q - a - 1) = q - b - ((c + 1) - 1)
        <5>1. q \in Nat
          BY <1>3
        <5>2. (a - b - (c - 1)) + (q - a - 1) = q - b - c
          BY <5>1, OneMore
        <5>3. (c + 1) - 1 = c
          OBVIOUS
        <5> QED BY <5>2, <5>3
      <4> QED BY <1>6, <4>6, <4>7
    <3> QED BY <3>1, <3>2
  <2> QED BY <2>3, <2>4, <2>5
<1>14. Exact(out, g, n + 1, h, d)
  <2>1. (n + 1) - 1 = n
    BY <1>1
  <2> QED BY <1>6, <1>12, <1>13, <2>1 DEF Exact
<1> QED BY <1>6, <1>11, <1>14

\* The loop's counts belong to the packets that came out, the file to those it looked at.
Telling ==
  /\ kind = "tool" => recording = "on"
  /\ \E g : /\ Told(link, g) /\ Fed(link.out, g, recording, put, file, drops)
            /\ Exact(link.out, g, put, file, drops)

\* The same packets, seen with more behind them.
LEMMA FedMore ==
  ASSUME NEW out \in Seq(Packet), NEW g, NEW more \in Seq(Packet), NEW h, NEW r, NEW n, NEW f,
         NEW d, Fed(out, g, r, n, f, d), Exact(out, g, n, f, d),
         Len(out) <= Len(more), \A i \in 1..Len(out) : more[i] = out[i],
         \A i \in 0..Len(out) : h[i] = g[i]
  PROVE  Fed(more, h, r, n, f, d) /\ Exact(more, h, n, f, d)
<1>1. n \in 0..Len(out) /\ n \in 0..Len(more) /\ f \in Seq(Packet) /\ d \in Nat /\ Len(f) + d <= n
      /\ h[n] = g[n]
  BY DEF Fed
<1>2. \A i \in 2..n : /\ i \in 1..Len(out) /\ i - 1 \in 1..Len(out)
                      /\ more[i] = out[i] /\ more[i - 1] = out[i - 1]
  BY <1>1
<1>3. /\ NearUpTo(more, n) <=> NearUpTo(out, n)
      /\ NotBack(more, n) <=> NotBack(out, n)
      /\ Rising(more, n) <=> Rising(out, n)
  BY <1>2 DEF NearUpTo, NotBack, Rising
<1>4. n > 0 => more[n] = out[n] /\ more[1] = out[1]
  BY <1>1
<1>5. f # <<>> => n > 0
  BY <1>1, EmptySeq
<1>6. f # <<>> => Ahead(more, n, f) = Ahead(out, n, f)
  BY <1>4, <1>5 DEF Ahead
<1>7. Fed(more, h, r, n, f, d)
  BY <1>1, <1>3, <1>4, <1>5, <1>6 DEF Fed
<1>8. Exact(more, h, n, f, d)
  BY <1>1, <1>3, <1>4, <1>5 DEF Exact
<1> QED BY <1>7, <1>8

\* The links that the present file and counts belong to.
TellingLinks ==
  {l \in Links : \E g : /\ Told(l, g) /\ Fed(l.out, g, recording, put, file, drops)
                        /\ Exact(l.out, g, put, file, drops)}

LEMMA AcceptTells ==
  ASSUME NEW l \in TellingLinks, NEW p \in Packet
  PROVE  Accept(l, p) \in TellingLinks
<1>1. l \in Links
  BY DEF TellingLinks
<1>2. PICK g : /\ Told(l, g) /\ Fed(l.out, g, recording, put, file, drops)
               /\ Exact(l.out, g, put, file, drops)
  BY DEF TellingLinks
<1>3. PICK h : Told(Accept(l, p), h) /\ \A n \in 0..Len(l.out) : h[n] = g[n]
  BY <1>1, <1>2, TallyAppend
<1>4. Accept(l, p) \in Links /\ Accept(l, p).out = Append(l.out, p)
  BY <1>1, AcceptFacts
<1>5. PICK out \in Seq(Packet), more \in Seq(Packet) : out = l.out /\ more = Append(out, p)
  BY <1>1, <1>4 DEF Links
<1>6. Len(out) <= Len(more) /\ \A i \in 1..Len(out) : more[i] = out[i]
  BY <1>5
<1>7. Fed(more, h, recording, put, file, drops) /\ Exact(more, h, put, file, drops)
  <2>1. Fed(out, g, recording, put, file, drops) /\ Exact(out, g, put, file, drops)
    BY <1>2, <1>5
  <2>2. \A n \in 0..Len(out) : h[n] = g[n]
    BY <1>3, <1>5
  <2> QED BY <1>6, <2>1, <2>2, FedMore
<1> QED BY <1>3, <1>4, <1>5, <1>7 DEF TellingLinks

LEMMA SkipTells ==
  ASSUME NEW l \in TellingLinks, NEW n \in Nat
  PROVE  Skip(l, n) \in TellingLinks
BY SkipFacts DEF TellingLinks, Told

\* A run that begins.
LEMMA NewTells ==
  ASSUME NEW r \in {"off", "on"}
  PROVE  \E g : /\ Told(NoLink, g) /\ Fed(NoLink.out, g, r, 0, <<>>, 0)
                /\ Exact(NoLink.out, g, 0, <<>>, 0)
<1>1. NoLink.out = <<>> /\ NoLink.lost = 0 /\ NoLink.last = NoSeq
  BY DEF NoLink
<1>2. PICK e \in Seq(Packet) : e = <<>> /\ Len(e) = 0 /\ FileGaps(e) = 0
  <2>1. <<>> \in Seq(Packet) /\ Len(<<>>) = 0
    OBVIOUS
  <2> QED BY <2>1, FileGapsNat
<1>3. PICK g : g = [n \in Nat |-> 0]
  OBVIOUS
<1>4. Tally(e, g)
  BY <1>2, <1>3 DEF Tally
<1>5. Told(NoLink, g)
  BY <1>1, <1>2, <1>3, <1>4 DEF Told
<1>6. Fed(e, g, r, 0, e, 0)
  BY <1>2, <1>3 DEF Fed
<1>7. Exact(e, g, 0, e, 0)
  BY <1>2, <1>3 DEF Exact
<1> QED BY <1>1, <1>2, <1>5, <1>6, <1>7

LEMMA PutTells ==
  ASSUME link \in Links, Telling, NEW now, NEW full \in BOOLEAN, Put(now, full)
  PROVE  Telling'
<1>1. PICK g : /\ Told(link, g) /\ Fed(link.out, g, recording, put, file, drops)
               /\ Exact(link.out, g, put, file, drops)
  BY DEF Telling
<1>2. PICK out \in Seq(Packet) : out = link.out
  BY DEF Links
<1>3. /\ Tally(out, g) /\ Fed(out, g, recording, put, file, drops)
      /\ Exact(out, g, put, file, drops) /\ recording \in {"off", "on", "over"}
  BY <1>1, <1>2 DEF Told, Fed
<1>4. /\ put < Len(out) /\ put' = put + 1 /\ recording' = now /\ link' = link
      /\ now \in Seen(recording) /\ (full => now = "on")
      /\ file' = IF now = "on" /\ ~full THEN Append(file, out[put + 1]) ELSE file
      /\ drops' = IF full THEN drops + 1 ELSE drops
  BY <1>2 DEF Put, reading
<1>5. /\ now \in {"off", "on", "over"} /\ (now = "off" => recording = "off")
      /\ now = "on" => recording \in {"off", "on"}
  <2>1. CASE kind = "tool"
    BY <1>4, <2>1 DEF Seen, Telling
  <2>2. CASE kind # "tool" /\ recording = "off"
    BY <1>4, <2>2 DEF Seen
  <2>3. CASE kind # "tool" /\ recording # "off"
    BY <1>3, <1>4, <2>3 DEF Seen
  <2> QED BY <2>1, <2>2, <2>3
<1>6. Fed(out, g, recording', put', file', drops') /\ Exact(out, g, put', file', drops')
  <2>1. CASE now \in {"off", "over"}
    <3>1. file' = file /\ drops' = drops /\ (now = "off" => recording = "off")
      BY <1>4, <1>5, <2>1
    <3>2. Fed(out, g, now, put + 1, file, drops) /\ Exact(out, g, put + 1, file, drops)
      BY <1>3, <1>4, <2>1, <3>1, FedSkip
    <3> QED BY <1>4, <3>1, <3>2
  <2>2. CASE now = "on" /\ full
    <3>1. file' = file /\ drops' = drops + 1 /\ recording \in {"off", "on"}
      BY <1>4, <1>5, <2>2
    <3>2. Fed(out, g, "on", put + 1, file, drops + 1) /\ Exact(out, g, put + 1, file, drops + 1)
      BY <1>3, <1>4, <3>1, FedDrop
    <3> QED BY <1>4, <2>2, <3>1, <3>2
  <2>3. CASE now = "on" /\ ~full
    <3>1. file' = Append(file, out[put + 1]) /\ drops' = drops /\ recording \in {"off", "on"}
      BY <1>4, <1>5, <2>3
    <3>2. /\ Fed(out, g, "on", put + 1, Append(file, out[put + 1]), drops)
          /\ Exact(out, g, put + 1, Append(file, out[put + 1]), drops)
      BY <1>3, <1>4, <3>1, FedWrite
    <3> QED BY <1>4, <2>3, <3>1, <3>2
  <2> QED BY <1>5, <2>1, <2>2, <2>3
<1>7. link' = link /\ link'.out = out /\ Told(link', g)
  BY <1>1, <1>2, <1>4
<1>8. kind' = kind /\ (kind = "tool" => recording' = "on")
  <2>1. kind' = kind
    BY DEF Put, reading
  <2>2. ASSUME kind = "tool" PROVE now = "on"
    BY <1>4, <2>2 DEF Seen, Telling
  <2> QED BY <1>4, <2>1, <2>2
<1> QED BY <1>6, <1>7, <1>8 DEF Telling

\* The invariant says what the converter counts.
LEMMA TellingMeans ==
  ASSUME link \in Links, Telling
  PROVE  ConverterAgrees
<1>1. PICK out \in Seq(Packet), z \in Nat : out = link.out /\ z = Len(out)
  BY DEF Links
<1>2. PICK g : /\ Told(link, g) /\ Fed(out, g, recording, put, file, drops)
               /\ Exact(out, g, put, file, drops)
  BY <1>1 DEF Telling
<1>3. /\ put \in 0..z /\ file \in Seq(Packet) /\ drops \in Nat /\ Len(file) + drops <= put
      /\ Len(file) \in Nat /\ FileGaps(file) \in Nat
  BY <1>1, <1>2, FileGapsNat DEF Fed
<1>4. /\ link.lost = g[z] /\ g[put] \in Nat /\ g[z] \in Nat /\ g[put] <= g[z]
  <2>1. Tally(out, g) /\ link.lost = g[z]
    BY <1>1, <1>2 DEF Told
  <2>2. put \in 0..Len(out) /\ z \in 0..Len(out) /\ put <= z /\ put \in Nat
    BY <1>1, <1>3
  <2>3. g[put] <= g[z] /\ g \in [Nat -> Nat]
    BY <2>1, <2>2 DEF Tally
  <2> QED BY <1>1, <2>1, <2>2, <2>3
<1>5. ASSUME drops = 0 \/ InSteps(out) PROVE FileGaps(file) <= link.lost + drops
  <2>1. InSteps(out) => NearUpTo(out, put)
    BY <1>1, <1>3 DEF InSteps, NearUpTo
  <2>2. FileGaps(file) <= g[put] + drops
    BY <1>2, <1>5, <2>1 DEF Fed
  <2> QED BY <1>3, <1>4, <2>2
<1>6. ASSUME WholeRun, ~StepsBack(out),
             drops = 0 \/ (InSteps(out) /\ InSteps(file) /\ ~Doubled(out))
      PROVE  FileGaps(file) = link.lost + drops
  <2>1. /\ Len(file) + drops = z /\ put = z /\ file # <<>> /\ file[1] = out[1]
        /\ file[Len(file)] = out[z]
    BY <1>1, <1>3, <1>6 DEF WholeRun, Last
  <2>2. NotBack(out, z)
    BY <1>1, <1>6 DEF StepsBack, NotBack
  <2>3. CASE drops = 0
    <3>1. FileGaps(file) = g[z]
      BY <1>2, <2>1, <2>2, <2>3 DEF Exact
    <3> QED BY <1>4, <2>3, <3>1
  <2>4. CASE drops # 0
    <3>1. InSteps(out) /\ InSteps(file) /\ ~Doubled(out)
      BY <1>6, <2>4
    <3>2. NearUpTo(out, z)
      BY <1>1, <3>1 DEF InSteps, NearUpTo
    <3>3. Rising(out, z)
      <4> SUFFICES ASSUME NEW i \in 2..z PROVE out[i - 1].seq < out[i].seq
        BY DEF Rising
      <4>1. i \in 1..Len(out) /\ i - 1 \in 1..Len(out)
        BY <1>1
      <4>2. out[i] \in Packet /\ out[i - 1] \in Packet
        BY <4>1
      <4>3. out[i].seq \in Nat /\ out[i - 1].seq \in Nat
        BY <4>2, Numbers
      <4>4. out[i].seq # out[i - 1].seq
        BY <1>1, <3>1 DEF Doubled
      <4> QED BY <2>2, <4>3, <4>4 DEF NotBack
    <3>4. Len(file) > 0 /\ z > 0
      BY <1>3, <2>1, EmptySeq
    <3>5. /\ g[z] = out[z].seq - out[1].seq - (z - 1)
          /\ FileGaps(file) = LastNo(file) - file[1].seq - (Len(file) - 1)
      BY <1>2, <2>1, <3>1, <3>2, <3>3, <3>4 DEF Exact
    <3>6. out[z] \in Packet /\ out[1] \in Packet
      BY <1>1, <3>4
    <3>7. out[z].seq \in Nat /\ out[1].seq \in Nat
      BY <3>6, Numbers
    <3>8. LastNo(file) = out[z].seq /\ file[1].seq = out[1].seq
      BY <2>1 DEF LastNo
    <3>9. PICK a \in Nat, b \in Nat, c \in Nat :
            a = out[z].seq /\ b = out[1].seq /\ c = Len(file)
      BY <1>3, <3>7
    <3>10. /\ g[z] = a - b - (z - 1) /\ FileGaps(file) = a - b - (c - 1) /\ c + drops = z
      BY <2>1, <3>5, <3>8, <3>9
    <3>11. a - b - (c - 1) = (a - b - (z - 1)) + drops
      <4>1. drops \in Nat /\ c + drops = z
        BY <1>3, <3>10
      <4> QED BY <4>1, FewerSteps
    <3> QED BY <1>4, <3>10, <3>11
  <2> QED BY <2>3, <2>4
<1> QED BY <1>1, <1>5, <1>6 DEF ConverterAgrees

LEMMA TellingStep ==
  ASSUME DeviceTypes, LinkTypes, Telling, [Next]_vars
  PROVE  Telling'
<1>1. link \in TellingLinks
  BY DEF LinkTypes, TellingLinks, Telling
<1>2. CASE UNCHANGED <<kind, link, feed>>
  BY <1>2 DEF Telling, feed
<1>3. ASSUME NewRun, kind' = kind, kind # "tool" PROVE Telling'
  <2>1. /\ link' = NoLink /\ recording' = "off" /\ put' = 0 /\ file' = <<>> /\ drops' = 0
    BY <1>3 DEF NewRun
  <2>2. PICK g : /\ Told(NoLink, g) /\ Fed(NoLink.out, g, "off", 0, <<>>, 0)
                 /\ Exact(NoLink.out, g, 0, <<>>, 0)
    BY NewTells
  <2>3. /\ Told(link', g) /\ Fed(link'.out, g, recording', put', file', drops')
        /\ Exact(link'.out, g, put', file', drops')
    BY <2>1, <2>2
  <2> QED BY <1>3, <2>3 DEF Telling
<1>4. ASSUME NEW now, NEW full \in BOOLEAN, Put(now, full) PROVE Telling'
  BY <1>4, PutTells DEF LinkTypes
<1>5. ASSUME link' \in TellingLinks, UNCHANGED <<kind, feed>> PROVE Telling'
  <2>1. PICK g : /\ Told(link', g) /\ Fed(link'.out, g, recording, put, file, drops)
                 /\ Exact(link'.out, g, put, file, drops)
    BY <1>5 DEF TellingLinks
  <2> QED BY <1>5, <2>1 DEF Telling, feed
<1>6. ASSUME NEW n \in 1..Len(wire), Read(n) PROVE Telling'
  <2>1. PICK b : b = buf \o SubSeq(wire, 1, n) /\ link' = Extract(b, link).link
    BY <1>6 DEF Read
  <2>2. b \in Seq(Nat)
    <3>1. wire \in Seq(Nat) /\ n + 1 \in 1..(Len(wire) + 1) /\ (n + 1) - 1 = n /\ buf \in Seq(Nat)
      BY DEF LinkTypes
    <3>2. SubSeq(wire, 1, n) \in Seq(Nat)
      BY <3>1, FromTyped
    <3> QED BY <2>1, <3>1, <3>2
  <2>3. TellingLinks \in SUBSET Links /\ Full \subseteq Packet
    BY DEF TellingLinks, Full
  <2>4. Extract(b, link).link \in TellingLinks
    BY <1>1, <2>2, <2>3, AcceptTells, SkipTells, LinkKeeps
  <2>5. UNCHANGED <<kind, feed>>
    BY <1>6 DEF Read
  <2> QED BY <1>5, <2>1, <2>4, <2>5
<1>7. ASSUME NEW i \in 1..Len(sent), Receive(i) PROVE Telling'
  <2>1. PICK d, h : d = Bytes(sent[i].packet) /\ h = Header(d)
    OBVIOUS
  <2>2. Takes(d) /\ link' = Accept(link, PacketOf(d, h)) /\ UNCHANGED <<kind, feed>>
    BY <1>7, <2>1 DEF Receive
  <2>3. d \in Seq(Nat)
    <3>1. sent[i] \in Record
      BY DEF DeviceTypes
    <3>2. sent[i].packet \in Packet
      BY <3>1 DEF Record
    <3> QED BY <2>1, <3>2, BytesFacts
  <2>4. Total(h) <= Len(d)
    <3>1. Len(d) >= Total(h)
      BY <2>1, <2>2 DEF Takes
    <3>2. Total(h) \in Nat /\ Len(d) \in Nat
      BY <2>1, <2>3, HeaderFacts
    <3> QED BY <3>1, <3>2
  <2>5. PacketOf(d, h) \in Packet
    BY <2>1, <2>3, <2>4, PacketOfFacts
  <2> QED BY <1>1, <1>5, <2>2, <2>5, AcceptTells
<1>8. ASSUME NEW d \in Junk, ReceiveJunk(d) PROVE Telling'
  <2>1. Len(d) \in Nat
    BY StreamAssumption
  <2>2. link' = Skip(link, Len(d)) /\ UNCHANGED <<kind, feed>>
    BY <1>8 DEF ReceiveJunk
  <2> QED BY <1>1, <1>5, <2>1, <2>2, SkipTells
<1>9. \/ UNCHANGED <<kind, link, feed>> \/ (NewRun /\ kind' = kind /\ kind # "tool")
      \/ \E now \in {"off", "on", "over"}, full \in BOOLEAN : Put(now, full)
      \/ \E n \in 1..Len(wire) : Read(n)
      \/ \E i \in 1..Len(sent) : Receive(i)
      \/ \E d \in Junk : ReceiveJunk(d)
  BY DEF Next, vars, feed, Send, Restart, Flush, LoseCells, Drain
<1> QED BY <1>2, <1>3, <1>4, <1>6, <1>7, <1>8, <1>9

LEMMA AlwaysTelling == Spec => []Telling
<1>1. Init => Telling
  <2> SUFFICES ASSUME Init PROVE Telling
    OBVIOUS
  <2>1. /\ link = NoLink /\ recording \in {"off", "on"} /\ put = 0 /\ file = <<>> /\ drops = 0
        /\ kind = "tool" => recording = "on"
    BY DEF Init
  <2>2. PICK g : /\ Told(NoLink, g) /\ Fed(NoLink.out, g, recording, 0, <<>>, 0)
                 /\ Exact(NoLink.out, g, 0, <<>>, 0)
    BY <2>1, NewTells
  <2>3. /\ Told(link, g) /\ Fed(link.out, g, recording, put, file, drops)
        /\ Exact(link.out, g, put, file, drops)
    BY <2>1, <2>2
  <2> QED BY <2>1, <2>3 DEF Telling
<1>2. DeviceTypes /\ LinkTypes /\ Telling /\ [Next]_vars => Telling'
  BY TellingStep
<1> QED BY <1>1, <1>2, StreamTypes, PTL DEF Spec

\* The state has its types, the assembly buffer of SensorLink._loop stays shorter than the
\* longest packet, and no more is dropped than was handed on, whatever arrives on the line.
THEOREM TypeCorrect == Spec => []TypeOK
<1>1. ASSUME LinkTypes, Telling
      PROVE  /\ recording \in {"off", "on", "over"}
             /\ put \in 0..Len(link.out) /\ file \in Seq(Packet) /\ drops \in 0..put
  <2>1. PICK g : Fed(link.out, g, recording, put, file, drops)
    BY <1>1 DEF Telling
  <2>2. /\ recording \in {"off", "on", "over"} /\ put \in 0..Len(link.out)
        /\ file \in Seq(Packet) /\ drops \in Nat /\ Len(file) + drops <= put
    BY <2>1 DEF Fed
  <2>3. Len(link.out) \in Nat /\ Len(file) \in Nat
    BY <1>1, <2>2 DEF LinkTypes, Links
  <2> QED BY <2>2, <2>3
<1>2. LinkTypes => /\ link.last \in Nat \cup {NoSeq} /\ link.lost \in Nat /\ link.resync \in Nat
                   /\ \A i \in DOMAIN link.out : link.out[i] \in Packet
                   /\ Len(buf) < HeaderSize(2) + MaxSamples
  <2>1. LinkTypes => link.out \in Seq(Packet)
    BY DEF LinkTypes, Links
  <2>2. LinkTypes => \A i \in DOMAIN link.out : link.out[i] \in Packet
    BY <2>1
  <2> QED BY <2>2 DEF LinkTypes, Links
<1>3. DeviceTypes => /\ kind \in {"usb", "wifi", "tool"} /\ version \in Versions
                     /\ nextSeq \in 0..(Modulus - 1) /\ damage \in {"none", "cut", "line"}
                     /\ net \in [1..MaxSent -> 0..MaxCopies] /\ got \in Seq(1..MaxSent)
  BY DEF DeviceTypes
<1>4. DeviceTypes /\ LinkTypes /\ Telling => TypeOK
  BY <1>1, <1>2, <1>3 DEF TypeOK
<1> QED BY <1>4, StreamTypes, AlwaysTelling, PTL

\* What bin_to_csv.py finds missing in a file is never more than what the link missed and the full
\* queue cost together, and just that in a file that goes from the first packet of
\* the run to the last, where the numbers do not step back; whenever `recording' is set and
\* cleared, and whichever packets find the queue full.
THEOREM ConverterCounts == Spec => []ConverterAgrees
<1>1. LinkTypes /\ Telling => ConverterAgrees
  BY TellingMeans DEF LinkTypes
<1> QED BY <1>1, StreamTypes, AlwaysTelling, PTL

-----------------------------------------------------------------------------
(* What SeqTracker counts as missing *)

\* From number p to number q it is k steps, the numbers turning once at most.
Apart(p, q, k) == q - p = k \/ q - p = k - Modulus

\* How the device numbers what it sends.
Numbered ==
  /\ \A x \in 1..Len(sent) : sent[x].boot <= boot
  /\ \A x, y \in 1..Len(sent) : x <= y /\ sent[x].boot = sent[y].boot =>
       Apart(sent[x].packet.seq, sent[y].packet.seq, y - x)
  /\ \A x \in 1..Len(sent) : sent[x].boot = boot =>
       Apart(sent[x].packet.seq, nextSeq, Len(sent) + 1 - x)

\* What is under way is of the boot at hand, and so is, if anything is, the last one accepted.
Arriving ==
  kind # "usb" =>
  /\ \A i \in 1..MaxSent : net[i] > 0 => i <= Len(sent) /\ sent[i].boot = boot
  /\ \A k \in 1..Len(got) : /\ got[k] <= Len(sent)
                            /\ sent[got[k]].boot <= sent[got[Len(got)]].boot
  /\ link.last = IF got = <<>> THEN NoSeq ELSE sent[got[Len(got)]].packet.seq

\* The ordinals of s missing in g, as in Missing: the first one of their boot came before
\* them, a later one came, they did not.
Begun(s, g, x) ==
  \E i \in 1..Len(g) : /\ s[g[i]].boot = s[x].boot /\ g[i] < x
                        /\ \A k \in 1..Len(g) : s[g[k]].boot = s[x].boot => i <= k

Passed(s, g, x) == \E i \in 1..Len(g) : s[g[i]].boot = s[x].boot /\ g[i] > x

Absent(g, x) == \A i \in 1..Len(g) : g[i] # x

LateOf(s, g) == {x \in 1..Len(s) : Begun(s, g, x) /\ Passed(s, g, x) /\ Absent(g, x)}

Ascending(g) == \A i, j \in 1..Len(g) : i < j => g[i] < g[j]

Counted ==
  kind # "usb" =>
  /\ link.lost >= Cardinality(LateOf(sent, got))
  /\ Ascending(got) /\ boot = 0 => link.lost = Cardinality(LateOf(sent, got))

LEMMA LateIsMissing ==
  ASSUME DeviceTypes
  PROVE  Missing = LateOf(sent, got) /\ (InOrder <=> Ascending(got))
<1>1. sent \in Seq(Record) /\ got \in Seq(1..MaxSent)
  BY DEF DeviceTypes
<1>2. DOMAIN sent = 1..Len(sent) /\ DOMAIN got = 1..Len(got)
  BY <1>1
<1>3. ToSet(got) = {got[i] : i \in 1..Len(got)}
  BY <1>2 DEF ToSet
<1>4. InOrder <=> Ascending(got)
  BY <1>2 DEF InOrder, Ascending
<1>5. ASSUME NEW x \in 1..Len(sent)
      PROVE  x \in Missing <=> x \in LateOf(sent, got)
  <2> DEFINE here == {i \in DOMAIN got : sent[got[i]].boot = sent[x].boot}
  <2>1. \A i : i \in here <=> i \in 1..Len(got) /\ sent[got[i]].boot = sent[x].boot
    BY <1>2
  <2>2. x \in Missing <=> /\ \E i \in here : got[i] < x /\ \A k \in here : i <= k
                          /\ \E i \in here : got[i] > x
                          /\ x \notin ToSet(got)
    BY <1>2 DEF Missing
  <2>3. x \notin ToSet(got) <=> Absent(got, x)
    BY <1>3 DEF Absent
  <2> HIDE DEF here
  <2>4. (\E i \in here : got[i] > x) <=> Passed(sent, got, x)
    BY <2>1 DEF Passed
  <2>5. (\E i \in here : got[i] < x /\ \A k \in here : i <= k) <=> Begun(sent, got, x)
    BY <2>1 DEF Begun
  <2> QED BY <2>2, <2>3, <2>4, <2>5 DEF LateOf
<1>6. Missing \subseteq 1..Len(sent) /\ LateOf(sent, got) \subseteq 1..Len(sent)
  BY <1>2 DEF Missing, LateOf
<1> QED BY <1>4, <1>5, <1>6

\* A further datagram sent makes none late.
LEMMA LateOfSent ==
  ASSUME NEW s \in Seq(Record), NEW r \in Record, NEW g \in Seq(1..MaxSent),
         \A k \in 1..Len(g) : g[k] <= Len(s)
  PROVE  LateOf(Append(s, r), g) = LateOf(s, g)
<1>1. PICK t \in Seq(Record), n \in Nat :
        /\ t = Append(s, r) /\ n = Len(s) /\ Len(t) = n + 1
        /\ \A x \in 1..n : t[x] = s[x]
  <2>1. Append(s, r) \in Seq(Record) /\ Len(s) \in Nat /\ Len(Append(s, r)) = Len(s) + 1
        /\ \A x \in 1..Len(s) : Append(s, r)[x] = s[x]
    OBVIOUS
  <2> QED BY <2>1
<1>2. \A k \in 1..Len(g) : g[k] \in 1..n /\ g[k] \in Nat /\ t[g[k]] = s[g[k]]
  <2> SUFFICES ASSUME NEW k \in 1..Len(g)
               PROVE  g[k] \in 1..n /\ g[k] \in Nat /\ t[g[k]] = s[g[k]]
    OBVIOUS
  <2>1. g[k] \in 1..MaxSent
    BY ElementOfSeq
  <2>2. g[k] <= n
    BY <1>1
  <2>3. \A a, b, m \in Nat : a \in 1..m /\ a <= b => a \in 1..b
    OBVIOUS
  <2>4. g[k] \in 1..n /\ g[k] \in Nat
    BY <1>1, <2>1, <2>2, <2>3, Bounds
  <2> QED BY <1>1, <2>4
<1>3. ASSUME NEW x \in 1..n PROVE x \in LateOf(t, g) <=> x \in LateOf(s, g)
  <2>1. x \in 1..Len(t) /\ x \in 1..Len(s)
    BY <1>1
  <2>2. \A k \in 1..Len(g) : t[g[k]].boot = t[x].boot <=> s[g[k]].boot = s[x].boot
    BY <1>1, <1>2
  <2>3. Begun(t, g, x) <=> Begun(s, g, x)
    BY <2>2 DEF Begun
  <2>4. Passed(t, g, x) <=> Passed(s, g, x)
    BY <2>2 DEF Passed
  <2> QED BY <2>1, <2>3, <2>4, Zenon DEF LateOf
<1>4. n + 1 \notin LateOf(t, g)
  <2> SUFFICES ASSUME n + 1 \in LateOf(t, g) PROVE FALSE
    OBVIOUS
  <2>1. PICK i \in 1..Len(g) : g[i] > n + 1
    BY DEF LateOf, Passed
  <2>2. g[i] \in 1..n
    BY <1>2
  <2> QED BY <1>1, <2>1, <2>2
<1>5. LateOf(t, g) \subseteq 1..(n + 1) /\ LateOf(s, g) \subseteq 1..n
  BY <1>1 DEF LateOf
<1>6. \A x \in 1..(n + 1) : x \in 1..n \/ x = n + 1
  BY <1>1
<1> QED BY <1>1, <1>3, <1>4, <1>5, <1>6

\* A datagram that arrives makes those late that lie between the last one and it, if it is
\* ahead of all that came of its boot, and no others.
LEMMA LateOfGot ==
  ASSUME NEW s \in Seq(Record), NEW g \in Seq(Nat), NEW j \in Nat,
         \A k \in 1..Len(g) : s[g[k]].boot <= s[g[Len(g)]].boot /\ s[g[k]].boot <= s[j].boot,
         \A k \in 1..Len(g) : s[g[k]].boot \in Nat, s[j].boot \in Nat,
         NEW x \in LateOf(s, Append(g, j)), x \notin LateOf(s, g)
  PROVE  /\ g # <<>> /\ s[g[Len(g)]].boot = s[j].boot
         /\ g[Len(g)] < x /\ x < j
<1>1. PICK h \in Seq(Nat), m \in Nat :
        /\ h = Append(g, j) /\ m = Len(g) /\ Len(h) = m + 1 /\ h[m + 1] = j
        /\ \A k \in 1..m : h[k] = g[k]
  <2>1. Append(g, j) \in Seq(Nat) /\ Len(g) \in Nat /\ Len(Append(g, j)) = Len(g) + 1
        /\ Append(g, j)[Len(g) + 1] = j /\ \A k \in 1..Len(g) : Append(g, j)[k] = g[k]
    OBVIOUS
  <2> QED BY <2>1
<1>2. x \in 1..Len(s) /\ x \in Nat /\ Begun(s, h, x) /\ Passed(s, h, x) /\ Absent(h, x)
  BY <1>1 DEF LateOf
<1>3. \A k \in 1..(m + 1) : k \in 1..m \/ k = m + 1
  BY <1>1
<1>4. \A k \in 1..m : k \in 1..(m + 1) /\ ~(m + 1 <= k)
  BY <1>1
<1>5. Absent(g, x)
  BY <1>1, <1>2, <1>4 DEF Absent
<1>6. PICK i \in 1..(m + 1) : /\ s[h[i]].boot = s[x].boot /\ h[i] < x
                              /\ \A k \in 1..(m + 1) : s[h[k]].boot = s[x].boot => i <= k
  BY <1>1, <1>2 DEF Begun
<1>7. PICK p \in 1..(m + 1) : s[h[p]].boot = s[x].boot /\ h[p] > x
  BY <1>1, <1>2 DEF Passed
<1>8. i \in 1..m
  <2> SUFFICES ASSUME i = m + 1 PROVE FALSE
    BY <1>3
  <2>1. i <= p /\ p = m + 1
    BY <1>3, <1>4, <1>6, <1>7
  <2>2. j < x /\ j > x
    BY <1>1, <1>6, <1>7, <2>1
  <2> QED BY <1>2, <2>2
<1>9. s[g[i]].boot = s[x].boot /\ Begun(s, g, x)
  <2>1. h[i] = g[i] /\ \A k \in 1..m : h[k] = g[k] /\ k \in 1..(m + 1)
    BY <1>1, <1>4, <1>8
  <2>2. /\ s[g[i]].boot = s[x].boot /\ g[i] < x
        /\ \A k \in 1..m : s[g[k]].boot = s[x].boot => i <= k
    BY <1>6, <2>1
  <2> QED BY <1>1, <1>8, <2>2 DEF Begun
<1>10. ~Passed(s, g, x)
  BY <1>2, <1>5, <1>9 DEF LateOf
<1>11. p = m + 1 /\ s[j].boot = s[x].boot /\ x < j
  <2>1. p \notin 1..m
    BY <1>1, <1>7, <1>10 DEF Passed
  <2> QED BY <1>1, <1>2, <1>3, <1>7, <2>1
<1>12. m \in 1..m /\ g # <<>>
  BY <1>1, <1>8
<1>13. s[g[m]].boot = s[j].boot
  <2>1. s[g[i]].boot <= s[g[m]].boot /\ s[g[m]].boot <= s[j].boot
    BY <1>1, <1>8, <1>12
  <2>2. s[g[m]].boot \in Nat
    BY <1>1, <1>12
  <2> QED BY <1>9, <1>11, <2>1, <2>2
<1>14. g[m] < x
  <2>1. g[m] # x /\ ~(g[m] > x)
    BY <1>1, <1>5, <1>10, <1>11, <1>12, <1>13 DEF Absent, Passed
  <2>2. g[m] \in Nat
    BY <1>1, <1>12
  <2> QED BY <1>2, <2>1, <2>2
<1> QED BY <1>1, <1>11, <1>12, <1>13, <1>14

LEMMA LateFinite ==
  ASSUME NEW s \in Seq(Record), NEW g
  PROVE  IsFiniteSet(LateOf(s, g)) /\ Cardinality(LateOf(s, g)) \in Nat
<1>1. IsFiniteSet(1..Len(s))
  <2>1. 1 \in Int /\ Len(s) \in Int
    OBVIOUS
  <2> QED BY <2>1, FS_Interval
<1>2. LateOf(s, g) \subseteq 1..Len(s)
  BY DEF LateOf
<1>3. IsFiniteSet(LateOf(s, g))
  BY <1>1, <1>2, FS_Subset
<1> QED BY <1>3, FS_CardinalityType

\* How many numbers lie between two.
LEMMA Between ==
  ASSUME NEW l \in Nat, NEW j \in Nat, l < j
  PROVE  IsFiniteSet((l + 1)..(j - 1)) /\ Cardinality((l + 1)..(j - 1)) = j - l - 1
<1>1. PICK a \in Int, b \in Int : a = l + 1 /\ b = j - 1
  OBVIOUS
<1>2. IsFiniteSet(a..b) /\ Cardinality(a..b) = IF a > b THEN 0 ELSE b - a + 1
  BY FS_Interval
<1>3. (IF a > b THEN 0 ELSE b - a + 1) = j - l - 1
  BY <1>1
<1> QED BY <1>1, <1>2, <1>3

\* A datagram that arrives adds no more to the missing than lie between the last and it.
LEMMA LateCount ==
  ASSUME NEW s \in Seq(Record), NEW g \in Seq(Nat), NEW j \in Nat,
         \A k \in 1..Len(g) : s[g[k]].boot <= s[g[Len(g)]].boot /\ s[g[k]].boot <= s[j].boot,
         \A k \in 1..Len(g) : s[g[k]].boot \in Nat, s[j].boot \in Nat,
         NEW old \in Nat, old = Cardinality(LateOf(s, g)),
         NEW new \in Nat, new = Cardinality(LateOf(s, Append(g, j)))
  PROVE  \/ new <= old
         \/ /\ g # <<>> /\ s[g[Len(g)]].boot = s[j].boot /\ g[Len(g)] < j
            /\ new <= old + (j - g[Len(g)] - 1)
<1>1. PICK L, N : L = LateOf(s, g) /\ N = LateOf(s, Append(g, j))
  OBVIOUS
<1>2. IsFiniteSet(L) /\ L \subseteq Nat /\ N \subseteq Nat
  <2>1. L \subseteq 1..Len(s) /\ N \subseteq 1..Len(s)
    BY <1>1 DEF LateOf
  <2>2. 1..Len(s) \subseteq Nat
    OBVIOUS
  <2>3. IsFiniteSet(L)
    BY <1>1, LateFinite
  <2> QED BY <2>1, <2>2, <2>3
<1>3. CASE N \subseteq L
  BY <1>1, <1>2, <1>3, FS_Subset
<1>4. ASSUME NEW z \in N, z \notin L
      PROVE  /\ g # <<>> /\ s[g[Len(g)]].boot = s[j].boot /\ g[Len(g)] < j
             /\ new <= old + (j - g[Len(g)] - 1)
  <2>1. PICK l \in Nat : l = g[Len(g)]
    <3>1. g # <<>>
      BY <1>1, <1>4, LateOfGot
    <3>2. Len(g) \in 1..Len(g)
      BY <3>1
    <3> QED BY <3>2, ElementOfSeq
  <2>2. \A x \in N : x \notin L => g # <<>> /\ s[l].boot = s[j].boot /\ l < x /\ x < j
    BY <1>1, <2>1, LateOfGot
  <2>3. g # <<>> /\ s[l].boot = s[j].boot /\ l < z /\ z < j
    BY <1>4, <2>2
  <2>4. l < j
    <3>1. z \in Nat
      BY <1>2, <1>4
    <3> QED BY <2>3, <3>1
  <2>5. N \subseteq L \cup ((l + 1)..(j - 1))
    <3> SUFFICES ASSUME NEW x \in N, x \notin L PROVE x \in (l + 1)..(j - 1)
      OBVIOUS
    <3>1. l < x /\ x < j /\ x \in Nat
      BY <1>2, <2>2
    <3> QED BY <3>1
  <2>6. PICK B : B = (l + 1)..(j - 1) /\ IsFiniteSet(B) /\ Cardinality(B) = j - l - 1
    BY <2>4, Between
  <2>7. IsFiniteSet(L \cup B) /\ Cardinality(L \cup B) <= Cardinality(L) + Cardinality(B)
    <3>1. /\ IsFiniteSet(L \cup B)
          /\ Cardinality(L \cup B) = Cardinality(L) + Cardinality(B) - Cardinality(L \cap B)
      BY <1>2, <2>6, FS_Union
    <3>2. Cardinality(L \cap B) \in Nat
      <4>1. IsFiniteSet(L \cap B)
        BY <1>2, FS_Subset
      <4> QED BY <4>1, FS_CardinalityType
    <3>3. Cardinality(L) \in Nat /\ Cardinality(B) \in Nat
      BY <1>2, <2>6, FS_CardinalityType
    <3> QED BY <3>1, <3>2, <3>3
  <2>8. Cardinality(N) <= Cardinality(L \cup B)
    BY <2>5, <2>6, <2>7, FS_Subset
  <2>9. Cardinality(L \cup B) \in Nat
    BY <2>7, FS_CardinalityType
  <2>10. \A n, u, a, b \in Int : n <= u /\ u <= a + b => n <= a + b
    OBVIOUS
  <2>11. new <= old + (j - l - 1)
    BY <1>1, <2>4, <2>6, <2>7, <2>8, <2>9, <2>10
  <2> QED BY <2>1, <2>3, <2>4, <2>11
<1> QED BY <1>3, <1>4

\* Of datagrams that arrive in order, all of one boot, it adds just those.
LEMMA LateInOrder ==
  ASSUME NEW s \in Seq(Record), NEW g \in Seq(Nat), NEW j \in 1..Len(s),
         \A x \in 1..Len(s) : s[x].boot = 0, \A k \in 1..Len(g) : g[k] \in 1..Len(s),
         Ascending(Append(g, j))
  PROVE  /\ Ascending(g)
         /\ g = <<>> => LateOf(s, Append(g, j)) = {}
         /\ g # <<>> => /\ g[Len(g)] < j
                        /\ Cardinality(LateOf(s, Append(g, j))) =
                             Cardinality(LateOf(s, g)) + (j - g[Len(g)] - 1)
<1>1. PICK h \in Seq(Nat), m \in Nat :
        /\ h = Append(g, j) /\ m = Len(g) /\ Len(h) = m + 1 /\ h[m + 1] = j
        /\ \A k \in 1..m : h[k] = g[k]
  <2>1. Append(g, j) \in Seq(Nat) /\ Len(g) \in Nat /\ Len(Append(g, j)) = Len(g) + 1
        /\ Append(g, j)[Len(g) + 1] = j /\ \A k \in 1..Len(g) : Append(g, j)[k] = g[k]
    OBVIOUS
  <2> QED BY <2>1
<1>2. /\ \A k \in 1..m : g[k] \in 1..Len(s) /\ g[k] \in Nat /\ s[g[k]].boot = 0
      /\ j \in Nat /\ s[j].boot = 0
  BY <1>1
<1>3. /\ \A k \in 1..(m + 1) : k \in 1..m \/ k = m + 1
      /\ \A k \in 1..m : k \in 1..(m + 1) /\ k < m + 1
      /\ m + 1 \in 1..(m + 1)
  BY <1>1
<1>4. Ascending(g)
  <2>1. \A a, b \in 1..m : a < b => h[a] < h[b]
    BY <1>1, <1>3 DEF Ascending
  <2> QED BY <1>1, <2>1 DEF Ascending
<1>5. \A k \in 1..m : g[k] < j
  BY <1>1, <1>3 DEF Ascending
<1>6. \A x \in 1..Len(s) : x \in LateOf(s, h) /\ x \notin LateOf(s, g) =>
        /\ g # <<>> /\ g[m] < x /\ x < j
  <2>1. /\ \A k \in 1..Len(g) : s[g[k]].boot <= s[g[Len(g)]].boot
                                /\ s[g[k]].boot <= s[j].boot
        /\ \A k \in 1..Len(g) : s[g[k]].boot \in Nat
        /\ s[j].boot \in Nat
    <3> SUFFICES ASSUME NEW k \in 1..m
                 PROVE  /\ s[g[k]].boot <= s[g[m]].boot /\ s[g[k]].boot <= s[j].boot
                        /\ s[g[k]].boot \in Nat
      BY <1>1, <1>2
    <3>1. m \in 1..m
      BY <1>1
    <3>2. s[g[k]].boot = 0 /\ s[g[m]].boot = 0 /\ s[j].boot = 0
      BY <1>2, <3>1
    <3> QED BY <3>2
  <2> QED BY <1>1, <1>2, <2>1, LateOfGot
<1>7. LateOf(s, h) \subseteq 1..Len(s) /\ LateOf(s, g) \subseteq 1..Len(s)
  BY DEF LateOf
<1>8. CASE g = <<>>
  <2>1. LateOf(s, g) = {}
    <3>1. Len(g) = 0
      BY <1>8
    <3>2. \A i \in 1..Len(g) : FALSE
      BY <3>1
    <3> QED BY <3>2 DEF LateOf, Passed
  <2> QED BY <1>1, <1>4, <1>6, <1>7, <1>8, <2>1
<1>9. CASE g # <<>>
  <2>1. PICK l \in Nat : l = g[m] /\ m \in 1..m /\ 1 \in 1..m
    <3>1. m \in 1..m /\ 1 \in 1..m
      BY <1>1, <1>9
    <3> QED BY <1>2, <3>1
  <2>2. l < j
    BY <1>5, <2>1
  <2>3. \A k \in 1..m : g[k] <= l
    <3> SUFFICES ASSUME NEW k \in 1..m PROVE g[k] <= l
      OBVIOUS
    <3>1. k = m \/ k < m
      BY <1>1
    <3> QED BY <1>1, <1>2, <1>4, <2>1, <3>1 DEF Ascending
  <2>4. PICK L, N, B : /\ L = LateOf(s, g) /\ N = LateOf(s, h) /\ B = (l + 1)..(j - 1)
                       /\ IsFiniteSet(B) /\ Cardinality(B) = j - l - 1
    <3>1. IsFiniteSet((l + 1)..(j - 1)) /\ Cardinality((l + 1)..(j - 1)) = j - l - 1
      BY <1>2, <2>1, <2>2, Between
    <3> QED BY <3>1
  <2>5. L \subseteq N
    <3> SUFFICES ASSUME NEW x \in L PROVE x \in N
      OBVIOUS
    <3>1. x \in 1..Len(s) /\ x \in Nat /\ Begun(s, g, x) /\ Passed(s, g, x) /\ Absent(g, x)
      BY <2>4 DEF LateOf
    <3>2. PICK p \in 1..m : s[g[p]].boot = s[x].boot /\ g[p] > x
      BY <1>1, <3>1 DEF Passed
    <3>3. Passed(s, h, x)
      BY <1>1, <1>3, <3>2 DEF Passed
    <3>4. x < j
      BY <1>2, <1>5, <3>1, <3>2
    <3>5. Absent(h, x)
      BY <1>1, <1>2, <1>3, <3>1, <3>4 DEF Absent
    <3>6. PICK i \in 1..m : /\ s[g[i]].boot = s[x].boot /\ g[i] < x
                            /\ \A k \in 1..m : s[g[k]].boot = s[x].boot => i <= k
      BY <1>1, <3>1 DEF Begun
    <3>7. i <= m + 1
      BY <1>1
    <3>8. Begun(s, h, x)
      <4>1. h[i] = g[i] /\ i \in 1..(m + 1)
        BY <1>1, <1>3
      <4>2. \A k \in 1..(m + 1) : s[h[k]].boot = s[x].boot => i <= k
        BY <1>1, <1>3, <3>6, <3>7
      <4> QED BY <1>1, <3>6, <4>1, <4>2 DEF Begun
    <3> QED BY <2>4, <3>1, <3>3, <3>5, <3>8 DEF LateOf
  <2>6. B \subseteq N
    <3> SUFFICES ASSUME NEW x \in B PROVE x \in N
      OBVIOUS
    <3>1. x \in Nat /\ l < x /\ x < j /\ x \in 1..Len(s) /\ s[x].boot = 0
      <4>1. x \in Int /\ l < x /\ x < j
        BY <1>2, <2>1, <2>4
      <4>2. j \in 1..Len(s) /\ Len(s) \in Nat
        OBVIOUS
      <4>3. x \in 1..Len(s)
        BY <2>1, <4>1, <4>2
      <4> QED BY <4>1, <4>3
    <3>2. Passed(s, h, x)
      BY <1>1, <1>2, <1>3, <3>1 DEF Passed
    <3>3. Absent(h, x)
      <4>1. \A k \in 1..m : g[k] # x
        BY <1>2, <2>1, <2>3, <3>1
      <4> QED BY <1>1, <1>2, <1>3, <3>1, <4>1 DEF Absent
    <3>4. Begun(s, h, x)
      <4>1. h[1] = g[1] /\ 1 \in 1..(m + 1) /\ s[g[1]].boot = 0 /\ g[1] <= l /\ g[1] \in Nat
        BY <1>1, <1>2, <1>3, <2>1, <2>3
      <4>2. g[1] < x
        BY <2>1, <3>1, <4>1
      <4>3. \A k \in 1..(m + 1) : 1 <= k
        BY <1>1
      <4> QED BY <1>1, <3>1, <4>1, <4>2, <4>3 DEF Begun
    <3> QED BY <2>4, <3>1, <3>2, <3>3, <3>4 DEF LateOf
  <2>7. N \subseteq L \cup B
    <3> SUFFICES ASSUME NEW x \in N, x \notin L PROVE x \in B
      OBVIOUS
    <3>1. x \in 1..Len(s) /\ l < x /\ x < j
      BY <1>6, <1>7, <2>1, <2>4
    <3> QED BY <1>2, <2>1, <2>4, <3>1
  <2>8. L \cap B = {}
    <3> SUFFICES ASSUME NEW x \in L, x \in B PROVE FALSE
      OBVIOUS
    <3>1. PICK p \in 1..m : g[p] > x
      BY <1>1, <2>4 DEF LateOf, Passed
    <3>2. x \in Int /\ l < x
      BY <2>1, <2>4
    <3> QED BY <1>2, <2>1, <2>3, <3>1, <3>2
  <2>9. N = L \cup B
    BY <2>5, <2>6, <2>7
  <2>10. IsFiniteSet(L) /\ Cardinality(L) \in Nat
    BY <2>4, LateFinite
  <2>11. Cardinality(N) = Cardinality(L) + Cardinality(B)
    <3>1. Cardinality(L \cup B) = Cardinality(L) + Cardinality(B) - Cardinality(L \cap B)
      BY <2>4, <2>10, FS_Union
    <3>2. Cardinality(L \cap B) = 0
      BY <2>8, FS_EmptySet
    <3>3. Cardinality(B) \in Nat
      BY <2>4, FS_CardinalityType
    <3> QED BY <2>9, <2>10, <3>1, <3>2, <3>3
  <2> QED BY <1>1, <1>4, <1>9, <2>1, <2>2, <2>4, <2>11
<1> QED BY <1>8, <1>9

\* What a link counts for a number d + 1 steps ahead is d.
LEMMA GapApart ==
  ASSUME NEW a \in 0..(Modulus - 1), NEW b \in 0..(Modulus - 1), NEW d \in 0..(GapLimit - 1),
         Apart(a, b, d + 1)
  PROVE  Gap(a, b) = d
<1>1. /\ Modulus \in Nat /\ GapLimit \in Nat /\ GapLimit < Modulus /\ a \in Nat /\ a # NoSeq
      /\ b \in Nat /\ d \in Nat /\ d < GapLimit
  BY ModulusFacts DEF NoSeq
<1>2. PICK e \in Int : e = b - a - 1
  BY <1>1
<1>3. e % Modulus = d
  <2>1. e = d \/ e = d - Modulus
    BY <1>1, <1>2 DEF Apart
  <2>2. CASE e = d
    <3>1. e \in 0..(Modulus - 1)
      BY <1>1, <2>2
    <3>2. e % Modulus = e
      BY <3>1, ModulusFacts, Zenon
    <3> QED BY <2>2, <3>2
  <2>3. CASE e = d - Modulus
    <3>1. e \in (-Modulus)..(-1)
      BY <1>1, <2>3
    <3>2. e % Modulus = e + Modulus
      BY <3>1, ModulusFacts, Zenon
    <3> QED BY <1>1, <2>3, <3>2
  <2> QED BY <2>1, <2>2, <2>3
<1>4. Gap(a, b) = IF 0 < e % Modulus /\ e % Modulus < GapLimit THEN e % Modulus ELSE 0
  BY <1>1, <1>2 DEF Gap
<1> QED BY <1>1, <1>3, <1>4

LEMMA SentFacts ==
  ASSUME DeviceTypes
  PROVE  /\ Len(sent) \in Nat /\ boot \in Nat
         /\ \A x \in 1..Len(sent) : /\ x \in Nat /\ sent[x].boot \in Nat
                                    /\ sent[x].packet \in Packet
                                    /\ sent[x].packet.seq \in 0..(Modulus - 1)
                                    /\ sent[x].packet.seq \in Nat
         /\ nextSeq \in Nat /\ nextSeq < Modulus
         /\ got \in Seq(Nat)
         /\ \A k \in 1..Len(got) : got[k] \in 1..MaxSent /\ got[k] \in Nat
<1>1. sent \in Seq(Record) /\ got \in Seq(1..MaxSent) /\ nextSeq \in 0..(Modulus - 1)
      /\ boot \in Nat
  BY DEF DeviceTypes
<1>2. ASSUME NEW x \in 1..Len(sent)
      PROVE  /\ x \in Nat /\ sent[x].boot \in Nat /\ sent[x].packet \in Packet
             /\ sent[x].packet.seq \in 0..(Modulus - 1) /\ sent[x].packet.seq \in Nat
  <2>1. sent[x] \in Record
    BY <1>1, ElementOfSeq
  <2>2. sent[x].packet \in Packet /\ sent[x].boot \in Nat
    BY <2>1 DEF Record
  <2>3. sent[x].packet.seq \in 0..(Modulus - 1)
    BY <2>2 DEF Packet
  <2>4. \A v \in 0..(Modulus - 1) : v \in Nat
    BY ModulusFacts
  <2> QED BY <2>2, <2>3, <2>4
<1>3. ASSUME NEW k \in 1..Len(got) PROVE got[k] \in 1..MaxSent /\ got[k] \in Nat
  <2>1. got[k] \in 1..MaxSent
    BY <1>1, ElementOfSeq
  <2> QED BY <2>1, Bounds
<1>4. got \in Seq(Nat)
  BY <1>1, Bounds
<1> QED BY <1>1, <1>2, <1>3, <1>4, ModulusFacts

\* A datagram is taken as the packet that was sent.
LEMMA Received ==
  ASSUME DeviceTypes, LinkTypes, NEW i \in 1..Len(sent), Receive(i)
  PROVE  /\ link' = Accept(link, sent[i].packet) /\ link' \in Links
         /\ link'.last = sent[i].packet.seq
         /\ link'.lost = link.lost + Gap(link.last, sent[i].packet.seq)
<1>1. PICK p \in Packet : p = sent[i].packet
  BY SentFacts
<1>2. PICK d : d = Bytes(p) /\ d = Bytes(p) \o <<>> /\ d \in Seq(Nat)
  <2>1. Bytes(p) \in Seq(Nat)
    BY BytesFacts
  <2>2. Bytes(p) \o <<>> = Bytes(p)
    BY <2>1, ConcatEmptySeq
  <2> QED BY <2>1, <2>2
<1>3. PacketOf(d, Header(d)) = p
  <2>1. <<>> \in Seq(Nat)
    OBVIOUS
  <2>2. PacketOf(Bytes(p) \o <<>>, Header(Bytes(p) \o <<>>)) = p
    BY <2>1, RoundTrip
  <2> QED BY <1>2, <2>2
<1>4. link' = Accept(link, p)
  BY <1>1, <1>2, <1>3 DEF Receive
<1>5. link \in Links
  BY DEF LinkTypes
<1> QED BY <1>1, <1>4, <1>5, AcceptFacts

LEMMA NumberedStep ==
  ASSUME DeviceTypes, Numbered, MaxSent <= GapLimit + 1, [Next]_vars
  PROVE  Numbered'
<1>1. ASSUME NEW p \in Payloads, Send(p) PROVE Numbered'
  <2>1. PICK r : /\ sent' = Append(sent, r) /\ r.boot = boot /\ r.packet.seq = nextSeq
    <3>1. PICK q : q = [version |-> version, seq |-> nextSeq, payload |-> p]
      OBVIOUS
    <3>2. sent' = Append(sent, [boot |-> boot, packet |-> q])
      BY <1>1, <3>1 DEF Send
    <3> QED BY <3>1, <3>2
  <2>2. PICK n \in Nat : n = Len(sent)
    BY SentFacts
  <2>3. /\ n < MaxSent /\ Len(sent') = n + 1 /\ sent'[n + 1] = r
        /\ \A x \in 1..n : sent'[x] = sent[x]
        /\ boot' = boot /\ nextSeq' = (nextSeq + 1) % Modulus
    BY <1>1, <2>1, <2>2 DEF Send, DeviceTypes
  <2>4. \A x \in 1..(n + 1) : (x \in 1..n /\ x # n + 1) \/ x = n + 1
    BY <2>2
  <2>5. \A x \in 1..n : /\ sent[x].boot <= boot /\ sent[x].boot \in Nat /\ x \in Nat
                        /\ sent[x].packet.seq \in Nat
    BY <2>2, SentFacts DEF Numbered
  <2>6. \A x \in 1..n : sent[x].boot = boot => Apart(sent[x].packet.seq, nextSeq, n + 1 - x)
    BY <2>2 DEF Numbered
  <2>7. nextSeq \in Nat /\ nextSeq < Modulus /\ Modulus \in Nat /\ boot \in Nat
        /\ n < Modulus
    BY <2>2, <2>3, SentFacts, ModulusFacts, Bounds
  <2>8. \A x \in 1..(n + 1) : sent'[x].boot <= boot'
    BY <2>1, <2>3, <2>4, <2>5, <2>7
  <2>9. ASSUME NEW x \in 1..(n + 1), NEW y \in 1..(n + 1), x <= y,
               sent'[x].boot = sent'[y].boot
        PROVE  Apart(sent'[x].packet.seq, sent'[y].packet.seq, y - x)
    <3>1. CASE y = n + 1 /\ x = n + 1
      <4>1. sent'[x].packet.seq = nextSeq /\ sent'[y].packet.seq = nextSeq
        BY <2>1, <2>3, <3>1
      <4>2. y - x = 0 /\ nextSeq - nextSeq = 0
        BY <2>2, <2>7, <3>1
      <4> QED BY <4>1, <4>2 DEF Apart
    <3>2. CASE y = n + 1 /\ x \in 1..n
      BY <2>1, <2>3, <2>6, <2>9, <3>2
    <3>3. CASE y \in 1..n /\ x \in 1..n
      BY <2>2, <2>3, <2>9, <3>3 DEF Numbered
    <3>4. ~(y \in 1..n /\ x = n + 1)
      BY <2>2, <2>9
    <3> QED BY <2>4, <3>1, <3>2, <3>3, <3>4
  <2>10. nextSeq' = nextSeq + 1 \/ (nextSeq = Modulus - 1 /\ nextSeq' = 0)
    <3>1. CASE nextSeq = Modulus - 1
      <4>1. nextSeq + 1 = Modulus
        BY <2>7, <3>1
      <4> QED BY <2>3, <3>1, <4>1, ModulusFacts
    <3>2. CASE nextSeq # Modulus - 1
      <4>1. nextSeq + 1 \in 0..(Modulus - 1)
        BY <2>7, <3>2
      <4>2. (nextSeq + 1) % Modulus = nextSeq + 1
        BY <4>1, ModulusFacts, Zenon
      <4> QED BY <2>3, <4>2
    <3> QED BY <3>1, <3>2
  <2>11. ASSUME NEW x \in 1..(n + 1), sent'[x].boot = boot'
         PROVE  Apart(sent'[x].packet.seq, nextSeq', n + 2 - x)
    <3>1. CASE x = n + 1
      <4>1. sent'[x].packet.seq = nextSeq /\ n + 2 - x = 1
        BY <2>1, <2>2, <2>3, <3>1
      <4> QED BY <2>7, <2>10, <4>1 DEF Apart
    <3>2. CASE x \in 1..n
      <4>1. sent'[x].packet.seq = sent[x].packet.seq /\ sent[x].boot = boot
        BY <2>3, <2>11, <3>2
      <4>2. Apart(sent[x].packet.seq, nextSeq, n + 1 - x)
        BY <2>6, <3>2, <4>1
      <4>3. ASSUME NEW a \in Nat, NEW c \in Nat, NEW m \in Nat, NEW k \in Nat, NEW u \in Nat,
                   NEW v \in Nat, c < m, a < m, 1 <= u, u <= k, k < m, m = Modulus,
                   Apart(c, a, k + 1 - u), v = a + 1 \/ (a = m - 1 /\ v = 0)
            PROVE  Apart(c, v, k + 2 - u)
        <5>1. a - c = k + 1 - u \/ a - c = k + 1 - u - m
          BY <4>3 DEF Apart
        <5>2. v - c = k + 2 - u \/ v - c = k + 2 - u - m
          <6>1. CASE v = a + 1
            BY <5>1, <6>1
          <6>2. CASE a = m - 1 /\ v = 0
            BY <4>3, <5>1, <6>2
          <6> QED BY <4>3, <6>1, <6>2
        <5> QED BY <4>3, <5>2 DEF Apart
      <4>4. /\ 1 <= x /\ x <= n /\ x \in Nat /\ nextSeq' \in Nat
            /\ sent[x].packet.seq \in Nat
        BY <2>2, <2>5, <2>7, <2>10, <3>2
      <4>5. sent[x].packet.seq < Modulus
        <5>1. sent[x].packet.seq \in 0..(Modulus - 1)
          BY <2>2, <3>2, SentFacts
        <5> QED BY <2>7, <5>1
      <4> QED BY <2>2, <2>7, <2>10, <4>1, <4>2, <4>3, <4>4, <4>5
    <3> QED BY <2>4, <3>1, <3>2
  <2>12. \A x \in 1..(n + 1) : (n + 1) + 1 - x = n + 2 - x
    BY <2>2
  <2> QED BY <2>3, <2>8, <2>9, <2>11, <2>12 DEF Numbered
<1>2. ASSUME NEW log \in BootLogs, Restart(log) PROVE Numbered'
  <2>1. sent' = sent /\ boot' = boot + 1 /\ nextSeq' = 0
    BY <1>2 DEF Restart
  <2>2. \A x \in 1..Len(sent) : sent[x].boot <= boot + 1 /\ sent[x].boot # boot + 1
    BY SentFacts DEF Numbered
  <2> QED BY <2>1, <2>2 DEF Numbered
<1>3. CASE UNCHANGED <<sent, boot, nextSeq>>
  BY <1>3 DEF Numbered
<1>4. \/ \E p \in Payloads : Send(p)
      \/ \E log \in BootLogs : Restart(log)
      \/ UNCHANGED <<sent, boot, nextSeq>>
  BY DEF Next, Put, vars, reading, Read, Flush, LoseCells, Receive, ReceiveJunk, Drain
<1> QED BY <1>1, <1>2, <1>3, <1>4

\* The steps that leave alone what is counted.
LEMMA NotCounting ==
  ASSUME [Next]_vars, kind' # "usb"
  PROVE  \/ \E p \in Payloads : Send(p)
         \/ \E log \in BootLogs : Restart(log)
         \/ \E i \in 1..Len(sent) : Receive(i)
         \/ \E d \in Junk : ReceiveJunk(d)
         \/ Drain
         \/ UNCHANGED reading
BY DEF Next, Put, vars, reading, Read, Flush, LoseCells

LEMMA ArrivingStep ==
  ASSUME DeviceTypes, LinkTypes, Numbered, Arriving, [Next]_vars
  PROVE  Arriving'
<1> SUFFICES ASSUME kind' # "usb" PROVE Arriving'
  BY DEF Arriving
<1>1. kind # "usb" /\ kind' = kind
  BY NotCounting DEF Send, Restart, Receive, ReceiveJunk, Drain, vars, reading
<1>2. /\ \A i \in 1..MaxSent : net[i] > 0 => i <= Len(sent) /\ sent[i].boot = boot
      /\ \A k \in 1..Len(got) : /\ got[k] <= Len(sent)
                                /\ sent[got[k]].boot <= sent[got[Len(got)]].boot
      /\ link.last = IF got = <<>> THEN NoSeq ELSE sent[got[Len(got)]].packet.seq
  BY <1>1 DEF Arriving
<1>3. /\ Len(sent) \in Nat /\ MaxSent \in Nat /\ net \in [1..MaxSent -> 0..MaxCopies]
      /\ \A k \in 1..Len(got) : got[k] \in 1..Len(sent)
      /\ got # <<>> => Len(got) \in 1..Len(got)
      /\ got \in Seq(1..MaxSent)
  <2>1. Len(sent) \in Nat /\ MaxSent \in Nat /\ net \in [1..MaxSent -> 0..MaxCopies]
        /\ got \in Seq(1..MaxSent)
    BY SentFacts, Bounds DEF DeviceTypes
  <2>2. ASSUME NEW k \in 1..Len(got) PROVE got[k] \in 1..Len(sent)
    <3>1. got[k] \in 1..MaxSent /\ got[k] <= Len(sent)
      BY <1>2, SentFacts
    <3> QED BY <2>1, <3>1
  <2>3. got # <<>> => Len(got) \in 1..Len(got)
    BY <2>1
  <2> QED BY <2>1, <2>2, <2>3
<1>4. ASSUME NEW p \in Payloads, Send(p) PROVE Arriving'
  <2>1. PICK r, c : /\ sent' = Append(sent, r) /\ r.boot = boot
                    /\ net' = [net EXCEPT ![Len(sent) + 1] = c]
    <3>1. PICK q : q = [version |-> version, seq |-> nextSeq, payload |-> p]
      OBVIOUS
    <3>2. sent' = Append(sent, [boot |-> boot, packet |-> q])
      BY <1>4, <3>1 DEF Send
    <3>3. PICK c \in 0..MaxCopies : net' = [net EXCEPT ![Len(sent) + 1] = c]
      BY <1>1, <1>4 DEF Send
    <3> QED BY <3>2, <3>3
  <2>2. got' = got /\ link' = link /\ boot' = boot
    BY <1>4 DEF Send
  <2>3. /\ Len(sent') = Len(sent) + 1 /\ sent'[Len(sent) + 1] = r
        /\ \A x \in 1..Len(sent) : sent'[x] = sent[x]
    BY <2>1 DEF DeviceTypes
  <2>4. \A i \in 1..MaxSent : net'[i] > 0 => i <= Len(sent') /\ sent'[i].boot = boot'
    <3> SUFFICES ASSUME NEW i \in 1..MaxSent, net'[i] > 0
                 PROVE  i <= Len(sent') /\ sent'[i].boot = boot'
      OBVIOUS
    <3>1. CASE i = Len(sent) + 1
      BY <1>3, <2>1, <2>2, <2>3, <3>1
    <3>2. CASE i # Len(sent) + 1
      <4>1. net'[i] = net[i]
        BY <1>3, <2>1, <3>2
      <4>2. i <= Len(sent) /\ sent[i].boot = boot
        BY <1>2, <4>1
      <4>3. i \in 1..Len(sent) /\ i <= Len(sent) + 1
        BY <1>3, <4>2
      <4> QED BY <2>2, <2>3, <4>2, <4>3
    <3> QED BY <3>1, <3>2
  <2>5. \A k \in 1..Len(got) : /\ got[k] <= Len(sent) + 1
                               /\ sent'[got[k]] = sent[got[k]]
    BY <1>3, <2>3
  <2>6. \A k \in 1..Len(got) : /\ got[k] <= Len(sent')
                               /\ sent'[got[k]].boot <= sent'[got[Len(got)]].boot
    <3> SUFFICES ASSUME NEW k \in 1..Len(got)
                 PROVE  /\ got[k] <= Len(sent')
                        /\ sent'[got[k]].boot <= sent'[got[Len(got)]].boot
      OBVIOUS
    <3>1. Len(got) \in 1..Len(got)
      BY <1>3
    <3> QED BY <1>2, <2>3, <2>5, <3>1
  <2>7. link.last = IF got = <<>> THEN NoSeq ELSE sent'[got[Len(got)]].packet.seq
    BY <1>2, <1>3, <2>5
  <2> QED BY <2>2, <2>4, <2>6, <2>7 DEF Arriving
<1>5. ASSUME NEW log \in BootLogs, Restart(log) PROVE Arriving'
  <2>1. /\ \A i \in 1..MaxSent : net[i] = 0
        /\ net' = net /\ sent' = sent /\ got' = got /\ link' = link
    BY <1>5 DEF Restart
  <2>2. \A i \in 1..MaxSent : ~(net'[i] > 0)
    BY <2>1
  <2> QED BY <1>2, <2>1, <2>2 DEF Arriving
<1>6. ASSUME NEW j \in 1..Len(sent), Receive(j) PROVE Arriving'
  <2>1. /\ net[j] > 0 /\ net' = [net EXCEPT ![j] = @ - 1] /\ got' = Append(got, j)
        /\ sent' = sent /\ boot' = boot
    BY <1>6 DEF Receive
  <2>2. link'.last = sent[j].packet.seq
    BY <1>6, Received
  <2>3. j \in 1..MaxSent
    BY Bounds DEF DeviceTypes
  <2>4. sent[j].boot = boot
    BY <1>2, <2>1, <2>3
  <2>5. \A i \in 1..MaxSent : net'[i] > 0 => net[i] > 0
    <3>1. \A i \in 1..MaxSent : net[i] \in Nat
      BY <1>3, Bounds
    <3> QED BY <1>3, <2>1, <2>3, <3>1
  <2>6. /\ Len(got') = Len(got) + 1 /\ got'[Len(got')] = j /\ got' # <<>>
        /\ Len(got) \in Nat
        /\ \A k \in 1..Len(got) : got'[k] = got[k]
    <3>1. got \in Seq(1..MaxSent)
      BY <1>3
    <3> QED BY <2>1, <2>3, <3>1
  <2>7. ASSUME NEW k \in 1..Len(got')
        PROVE  got'[k] <= Len(sent) /\ sent[got'[k]].boot <= sent[j].boot
    <3>1. CASE k \in 1..Len(got)
      <4>1. got'[k] = got[k] /\ got[k] \in 1..Len(sent)
        BY <1>3, <2>6, <3>1
      <4>2. sent[got[k]].boot <= boot
        BY <4>1 DEF Numbered
      <4> QED BY <1>3, <2>4, <4>1, <4>2
    <3>2. CASE k = Len(got) + 1
      <4>1. got'[k] = j /\ sent[j].boot \in Nat
        BY <2>6, <3>2, SentFacts
      <4> QED BY <1>3, <4>1
    <3> QED BY <2>6, <3>1, <3>2
  <2> QED BY <1>2, <2>1, <2>2, <2>5, <2>6, <2>7 DEF Arriving
<1>7. ASSUME NEW d \in Junk, ReceiveJunk(d) PROVE Arriving'
  <2>1. Len(d) \in Nat
    BY StreamAssumption
  <2>2. link'.last = link.last
    BY <1>7, <2>1, SkipFacts DEF ReceiveJunk, LinkTypes
  <2> QED BY <1>2, <1>7, <2>2 DEF ReceiveJunk, Arriving
<1>8. ASSUME Drain PROVE Arriving'
  <2>1. PICK arrived : net' = [i \in 1..MaxSent |-> IF i \in arrived THEN 0 ELSE net[i]]
    BY <1>8 DEF Drain
  <2>2. \A i \in 1..MaxSent : net'[i] > 0 => net[i] > 0
    BY <2>1
  <2>3. got' = <<>> /\ link' = NoLink /\ sent' = sent /\ boot' = boot
    BY <1>8 DEF Drain, NewRun
  <2>4. link'.last = NoSeq /\ \A k \in 1..Len(got') : FALSE
    BY <2>3 DEF NoLink
  <2> QED BY <1>2, <2>2, <2>3, <2>4 DEF Arriving
<1>9. ASSUME UNCHANGED reading PROVE Arriving'
  BY <1>2, <1>9 DEF reading, Arriving
<1> QED BY <1>4, <1>5, <1>6, <1>7, <1>8, <1>9, NotCounting

LEMMA CountedStep ==
  ASSUME DeviceTypes, LinkTypes, Numbered, Arriving, Counted, MaxSent <= GapLimit + 1,
         [Next]_vars
  PROVE  Counted'
<1> SUFFICES ASSUME kind' # "usb" PROVE Counted'
  BY DEF Counted
<1>1. kind # "usb" /\ kind' = kind
  BY NotCounting DEF Send, Restart, Receive, ReceiveJunk, Drain, vars, reading
<1>2. /\ link.lost >= Cardinality(LateOf(sent, got))
      /\ Ascending(got) /\ boot = 0 => link.lost = Cardinality(LateOf(sent, got))
  BY <1>1 DEF Counted
<1>3. sent \in Seq(Record) /\ got \in Seq(1..MaxSent) /\ link \in Links
  BY DEF DeviceTypes, LinkTypes
<1>4. ASSUME NEW p \in Payloads, Send(p) PROVE Counted'
  <2>1. PICK r \in Record : sent' = Append(sent, r)
    <3>1. PICK q : q = [version |-> version, seq |-> nextSeq, payload |-> p]
      OBVIOUS
    <3>2. sent' = Append(sent, [boot |-> boot, packet |-> q])
      BY <1>4, <3>1 DEF Send
    <3>3. q \in Packet
      BY <3>1, StreamAssumption DEF DeviceTypes, Packet
    <3>4. [boot |-> boot, packet |-> q] \in Record
      BY <3>3 DEF DeviceTypes, Record
    <3> QED BY <3>2, <3>4
  <2>2. \A k \in 1..Len(got) : got[k] <= Len(sent)
    BY <1>1 DEF Arriving
  <2>3. got' = got /\ link' = link /\ boot' = boot
    BY <1>4 DEF Send
  <2>4. LateOf(sent', got) = LateOf(sent, got)
    BY <1>3, <2>1, <2>2, LateOfSent
  <2> QED BY <1>2, <2>3, <2>4 DEF Counted
<1>5. ASSUME NEW log \in BootLogs, Restart(log) PROVE Counted'
  <2>1. sent' = sent /\ got' = got /\ link' = link /\ boot' # 0
    BY <1>5, SentFacts DEF Restart
  <2> QED BY <1>2, <2>1 DEF Counted
<1>6. ASSUME NEW j \in 1..Len(sent), Receive(j) PROVE Counted'
  <2>1. got' = Append(got, j) /\ sent' = sent /\ boot' = boot /\ net[j] > 0
    BY <1>6 DEF Receive
  <2>2. j \in 1..MaxSent /\ j \in Nat /\ got \in Seq(Nat)
    BY Bounds, SentFacts DEF DeviceTypes
  <2>3. PICK g \in Nat : g = Gap(link.last, sent[j].packet.seq) /\ link'.lost = link.lost + g
    <3>1. link.last \in Nat \cup {NoSeq} /\ sent[j].packet.seq \in 0..(Modulus - 1)
      BY <1>3, SentFacts DEF Links
    <3>2. Gap(link.last, sent[j].packet.seq) \in 0..(GapLimit - 1)
      BY <3>1, GapFacts
    <3>3. Gap(link.last, sent[j].packet.seq) \in Nat
      BY <3>2, ModulusFacts
    <3> QED BY <1>6, <3>3, Received
  <2>4. PICK old \in Nat, new \in Nat : /\ old = Cardinality(LateOf(sent, got))
                                        /\ new = Cardinality(LateOf(sent, Append(got, j)))
    BY <1>3, LateFinite
  <2>5. sent[j].boot = boot
    BY <1>1, <2>1, <2>2 DEF Arriving
  <2>6. \A k \in 1..Len(got) : got[k] \in 1..Len(sent)
    <3> SUFFICES ASSUME NEW k \in 1..Len(got) PROVE got[k] \in 1..Len(sent)
      OBVIOUS
    <3>1. got[k] \in 1..MaxSent /\ got[k] <= Len(sent) /\ Len(sent) \in Nat
      BY <1>1, SentFacts DEF Arriving
    <3> QED BY <3>1, Bounds
  <2>7. got # <<>> => Len(got) \in 1..Len(got)
    BY <2>2
  <2>8. \* The last one accepted, if it is of the same boot and behind.
        got # <<>> /\ sent[got[Len(got)]].boot = sent[j].boot /\ got[Len(got)] < j =>
          g = j - got[Len(got)] - 1
    <3> SUFFICES ASSUME got # <<>>, sent[got[Len(got)]].boot = sent[j].boot, got[Len(got)] < j
                 PROVE  g = j - got[Len(got)] - 1
      OBVIOUS
    <3>1. PICK l \in Nat : l = got[Len(got)] /\ l \in 1..Len(sent)
      BY <2>6, <2>7
    <3>2. PICK a \in 0..(Modulus - 1), b \in 0..(Modulus - 1) :
            a = sent[l].packet.seq /\ b = sent[j].packet.seq
      BY <3>1, SentFacts
    <3>3. link.last = a
      BY <1>1, <3>1, <3>2 DEF Arriving
    <3>4. l < j /\ l >= 1 /\ j <= MaxSent
      BY <2>2, <3>1
    <3>5. Apart(a, b, j - l)
      BY <2>2, <3>1, <3>2, <3>4 DEF Numbered
    <3>6. PICK d \in Nat : d = j - l - 1 /\ j - l = d + 1
      BY <2>2, <3>4
    <3>7. d \in 0..(GapLimit - 1)
      <4>1. GapLimit \in Nat /\ MaxSent \in Nat
        BY ModulusFacts, Bounds
      <4> QED BY <2>2, <3>4, <3>6, <4>1
    <3>8. Apart(a, b, d + 1)
      BY <3>5, <3>6
    <3>9. Gap(a, b) = d
      BY <3>7, <3>8, GapApart
    <3> QED BY <2>3, <3>1, <3>2, <3>3, <3>6, <3>9
  <2>9. link'.lost >= new
    <3>1. /\ \A k \in 1..Len(got) : /\ sent[got[k]].boot <= sent[got[Len(got)]].boot
                                    /\ sent[got[k]].boot <= sent[j].boot
          /\ \A k \in 1..Len(got) : sent[got[k]].boot \in Nat
          /\ sent[j].boot \in Nat
      BY <1>1, <2>5, <2>6, SentFacts DEF Arriving, Numbered
    <3>2. \/ new <= old
          \/ /\ got # <<>> /\ sent[got[Len(got)]].boot = sent[j].boot /\ got[Len(got)] < j
             /\ new <= old + (j - got[Len(got)] - 1)
      BY <1>3, <2>2, <2>4, <3>1, LateCount
    <3>3. link.lost \in Nat /\ link.lost >= old
      BY <1>2, <1>3, <2>4 DEF Links
    <3>4. CASE new <= old
      BY <2>3, <3>3, <3>4
    <3>5. CASE ~(new <= old)
      <4>1. PICK l \in Nat : l = got[Len(got)] /\ g = j - l - 1 /\ new <= old + (j - l - 1)
        BY <2>6, <2>7, <2>8, <3>2, <3>5
      <4>2. new <= old + g
        BY <4>1
      <4>3. \A a, b, c, d \in Nat : d <= b + c /\ a >= b => a + c >= d
        OBVIOUS
      <4> QED BY <2>3, <3>3, <4>2, <4>3
    <3> QED BY <3>4, <3>5
  <2>10. ASSUME Ascending(got'), boot' = 0 PROVE link'.lost = new
    <3>1. \A x \in 1..Len(sent) : sent[x].boot = 0
      <4> SUFFICES ASSUME NEW x \in 1..Len(sent) PROVE sent[x].boot = 0
        OBVIOUS
      <4>1. sent[x].boot <= 0 /\ sent[x].boot \in Nat
        BY <2>1, <2>10, SentFacts DEF Numbered
      <4> QED BY <4>1
    <3>2. /\ Ascending(got)
          /\ got = <<>> => LateOf(sent, Append(got, j)) = {}
          /\ got # <<>> => /\ got[Len(got)] < j
                           /\ Cardinality(LateOf(sent, Append(got, j))) =
                                Cardinality(LateOf(sent, got)) + (j - got[Len(got)] - 1)
      BY <1>3, <2>1, <2>2, <2>6, <2>10, <3>1, LateInOrder
    <3>3. link.lost = old
      BY <1>2, <2>1, <2>4, <2>10, <3>2
    <3>4. CASE got = <<>>
      <4>1. new = 0
        BY <2>4, <3>2, <3>4, FS_EmptySet
      <4>2. LateOf(sent, got) = {}
        <5>1. \A i \in 1..Len(got) : FALSE
          BY <3>4
        <5> QED BY <5>1 DEF LateOf, Passed
      <4>3. old = 0
        BY <2>4, <4>2, FS_EmptySet
      <4>4. g = 0
        <5>1. link.last = NoSeq
          BY <1>1, <3>4 DEF Arriving
        <5> QED BY <2>3, <5>1 DEF Gap
      <4> QED BY <2>3, <3>3, <4>1, <4>3, <4>4
    <3>5. CASE got # <<>>
      <4>1. PICK l \in Nat : l = got[Len(got)] /\ l \in 1..Len(sent)
        BY <2>6, <2>7, <3>5
      <4>2. sent[l].boot = sent[j].boot /\ l < j
        BY <3>1, <3>2, <3>5, <4>1
      <4>3. g = j - l - 1 /\ new = old + (j - l - 1)
        BY <2>4, <2>8, <3>2, <3>5, <4>1, <4>2
      <4> QED BY <2>3, <3>3, <4>3
    <3> QED BY <3>4, <3>5
  <2> QED BY <2>1, <2>4, <2>9, <2>10 DEF Counted
<1>7. ASSUME NEW d \in Junk, ReceiveJunk(d) PROVE Counted'
  <2>1. Len(d) \in Nat
    BY StreamAssumption
  <2>2. link'.lost = link.lost
    BY <1>3, <1>7, <2>1, SkipFacts DEF ReceiveJunk
  <2>3. sent' = sent /\ got' = got /\ boot' = boot
    BY <1>7 DEF ReceiveJunk
  <2> QED BY <1>2, <2>2, <2>3 DEF Counted
<1>8. ASSUME Drain PROVE Counted'
  <2>1. got' = <<>> /\ link'.lost = 0
    BY <1>8 DEF Drain, NoLink, NewRun
  <2>2. LateOf(sent', got') = {}
    <3>1. \A i \in 1..Len(got') : FALSE
      BY <2>1
    <3> QED BY <3>1 DEF LateOf, Passed
  <2>3. Cardinality(LateOf(sent', got')) = 0
    BY <2>2, FS_EmptySet
  <2> QED BY <2>1, <2>3 DEF Counted
<1>9. ASSUME UNCHANGED reading PROVE Counted'
  BY <1>2, <1>9 DEF reading, Counted
<1> QED BY <1>4, <1>5, <1>6, <1>7, <1>8, <1>9, NotCounting

\* SeqTracker (iis3dwb_packet.py) never counts less than what is missing, be the datagrams
\* reordered or doubled, the numbers turning over or the device rebooting, and just that when
\* they arrive in order.  SeqTracker takes a jump of GapLimit numbers or more for a restart and
\* counts nothing, so the hypothesis, that no stretch of so many can be missing, is the weakest
\* under which this holds.
THEOREM MissingCounted ==
  ASSUME MaxSent <= GapLimit + 1
  PROVE  Spec => []MissingIsCounted
<1> DEFINE Inv == Numbered /\ Arriving /\ Counted
<1>1. Init => Inv
  <2> SUFFICES ASSUME Init PROVE Inv
    OBVIOUS
  <2>1. /\ sent = <<>> /\ got = <<>> /\ boot = 0 /\ link.last = NoSeq /\ link.lost = 0
        /\ \A i \in 1..MaxSent : ~(net[i] > 0)
    BY DEF Init, NoLink
  <2>2. (\A x \in 1..Len(sent) : FALSE) /\ (\A k \in 1..Len(got) : FALSE)
    BY <2>1
  <2>3. Cardinality(LateOf(sent, got)) = 0
    <3>1. LateOf(sent, got) = {}
      BY <2>2 DEF LateOf
    <3> QED BY <3>1, FS_EmptySet
  <2>4. Numbered
    BY <2>2 DEF Numbered
  <2>5. Arriving
    BY <2>1, <2>2 DEF Arriving
  <2> QED BY <2>1, <2>3, <2>4, <2>5 DEF Counted
<1>2. DeviceTypes /\ LinkTypes /\ Inv /\ [Next]_vars => Inv'
  BY NumberedStep, ArrivingStep, CountedStep
<1>3. DeviceTypes /\ Inv => MissingIsCounted
  BY LateIsMissing DEF Counted, MissingIsCounted
<1> QED BY <1>1, <1>2, <1>3, StreamTypes, PTL DEF Spec

-----------------------------------------------------------------------------
(* The scan of a file *)

LEMMA ScansFacts ==
  /\ \A s \in Scans : /\ s.rest \in Seq(Nat) /\ s.packets \in Seq(Packet) /\ s.skipped \in Nat
                      /\ s = [rest |-> s.rest, packets |-> s.packets, skipped |-> s.skipped]
  /\ \A d \in Seq(Nat), ps \in Seq(Packet), n \in Nat :
       [rest |-> d, packets |-> ps, skipped |-> n] \in Scans
BY DEF Scans

LEMMA OverFacts ==
  ASSUME NEW d \in Seq(Nat), NEW ps \in Seq(Packet), NEW z \in Nat, NEW n \in 0..Len(d)
  PROVE  LET o == Over([rest |-> d, packets |-> ps, skipped |-> z], n)
         IN /\ o = [rest |-> From(d, n + 1), packets |-> ps, skipped |-> z + n]
            /\ o \in Scans
            /\ From(d, n + 1) \in Seq(Nat) /\ Len(From(d, n + 1)) = Len(d) - n
<1>1. n + 1 \in 1..(Len(d) + 1) /\ Len(d) - (n + 1) + 1 = Len(d) - n
  OBVIOUS
<1>2. From(d, n + 1) \in Seq(Nat) /\ Len(From(d, n + 1)) = Len(d) - n
  BY <1>1, FromFacts
<1>3. Over([rest |-> d, packets |-> ps, skipped |-> z], n) =
        [rest |-> From(d, n + 1), packets |-> ps, skipped |-> z + n]
  <2> DEFINE r == From(d, n + 1)
             s == [rest |-> d, packets |-> ps, skipped |-> z]
             t == [rest |-> r, packets |-> ps, skipped |-> z]
  <2>1. Over(s, n) = [s EXCEPT !.rest = r, !.skipped = z + n]
    BY DEF Over
  <2> HIDE DEF r
  <2>2. [s EXCEPT !.rest = r] = t
    OBVIOUS
  <2>3. [t EXCEPT !.skipped = z + n] = [rest |-> r, packets |-> ps, skipped |-> z + n]
    OBVIOUS
  <2> HIDE DEF s, t
  <2> QED BY <2>1, <2>2, <2>3 DEF r, s
<1>4. z + n \in Nat
  OBVIOUS
<1>5. [rest |-> From(d, n + 1), packets |-> ps, skipped |-> z + n] \in Scans
  BY <1>2, <1>4, ScansFacts
<1> QED BY <1>2, <1>3, <1>5

\* The five cases of a turn.
LEMMA ScanCases ==
  ASSUME NEW d \in Seq(Nat), NEW ps, NEW z
  PROVE  LET i == FindMagic(d)
             h == Header(d)
             s == [rest |-> d, packets |-> ps, skipped |-> z]
             t == ScanTurn(s)
         IN /\ i = 0 => t = Over(s, Len(d))
            /\ i > 1 => t = Over(s, i - 1)
            /\ i = 1 /\ ~Plausible(h) => t = Over(s, MagicLen)
            /\ i = 1 /\ Plausible(h) /\ Len(d) < Total(h) => t = Over(s, Len(d))
            /\ i = 1 /\ Plausible(h) /\ ~(Len(d) < Total(h)) =>
                 t = [rest |-> From(d, Total(h) + 1), packets |-> Append(ps, PacketOf(d, h)),
                      skipped |-> z]
<1> DEFINE i == FindMagic(d)
           h == Header(d)
           s == [rest |-> d, packets |-> ps, skipped |-> z]
           last == [s EXCEPT !.rest = From(d, Total(h) + 1),
                             !.packets = Append(@, PacketOf(d, h))]
<1>1. i \in Nat
  BY FindMagicFacts
<1>2. ScanTurn(s) = CASE i = 0 -> Over(s, Len(d))
       [] i > 1 -> Over(s, i - 1)
       [] i = 1 /\ ~Plausible(h) -> Over(s, MagicLen)
       [] i = 1 /\ Plausible(h) /\ Len(d) < Total(h) -> ScanEnd(s)
       [] OTHER -> last
  BY DEF ScanTurn
<1>3. ScanEnd(s) = Over(s, Len(d))
  BY DEF ScanEnd
<1>4. last = [rest |-> From(d, Total(h) + 1), packets |-> Append(ps, PacketOf(d, h)),
              skipped |-> z]
  <2> DEFINE r == From(d, Total(h) + 1)
             q == Append(ps, PacketOf(d, h))
             t == [rest |-> r, packets |-> ps, skipped |-> z]
  <2>1. last = [s EXCEPT !.rest = r, !.packets = q]
    OBVIOUS
  <2> HIDE DEF r, q, last
  <2>2. [s EXCEPT !.rest = r] = t
    OBVIOUS
  <2>3. [t EXCEPT !.packets = q] = [rest |-> r, packets |-> q, skipped |-> z]
    OBVIOUS
  <2> HIDE DEF s, t
  <2>4. last = [rest |-> r, packets |-> q, skipped |-> z]
    BY <2>1, <2>2, <2>3
  <2> QED BY <2>4 DEF r, q
<1> HIDE DEF i, h, s, last
<1>5. /\ i = 0 => ScanTurn(s) = Over(s, Len(d))
      /\ i > 1 => ScanTurn(s) = Over(s, i - 1)
      /\ i = 1 /\ ~Plausible(h) => ScanTurn(s) = Over(s, MagicLen)
      /\ i = 1 /\ Plausible(h) /\ Len(d) < Total(h) => ScanTurn(s) = Over(s, Len(d))
      /\ i = 1 /\ Plausible(h) /\ ~(Len(d) < Total(h)) => ScanTurn(s) = last
  BY <1>1, <1>2, <1>3
<1> QED BY <1>4, <1>5 DEF i, h, s

\* A turn leaves fewer bytes.
LEMMA ScanTurnFacts ==
  ASSUME NEW s \in Scans, s.rest # <<>>
  PROVE  ScanTurn(s) \in Scans /\ Len(ScanTurn(s).rest) < Len(s.rest)
<1>1. PICK d \in Seq(Nat), ps \in Seq(Packet), z \in Nat :
        s = [rest |-> d, packets |-> ps, skipped |-> z] /\ d = s.rest
  BY ScansFacts
<1>2. Len(d) \in Nat /\ Len(d) > 0
  BY <1>1
<1>3. \A n \in 1..Len(d) : Over(s, n) \in Scans /\ Len(Over(s, n).rest) < Len(d)
  <2> SUFFICES ASSUME NEW n \in 1..Len(d)
               PROVE  Over(s, n) \in Scans /\ Len(Over(s, n).rest) < Len(d)
    OBVIOUS
  <2>1. n \in 0..Len(d)
    OBVIOUS
  <2>2. /\ Over(s, n) = [rest |-> From(d, n + 1), packets |-> ps, skipped |-> z + n]
        /\ Over(s, n) \in Scans /\ Len(From(d, n + 1)) = Len(d) - n
    BY <1>1, <2>1, OverFacts
  <2>3. Over(s, n).rest = From(d, n + 1)
    BY <2>2
  <2> QED BY <1>2, <2>2, <2>3
<1>4. PICK i \in Nat, h \in Headers : i = FindMagic(d) /\ h = Header(d)
  BY FindMagicFacts, HeaderFacts
<1>5. /\ i = 0 => ScanTurn(s) = Over(s, Len(d))
      /\ i > 1 => ScanTurn(s) = Over(s, i - 1)
      /\ i = 1 /\ ~Plausible(h) => ScanTurn(s) = Over(s, MagicLen)
      /\ i = 1 /\ Plausible(h) /\ Len(d) < Total(h) => ScanTurn(s) = Over(s, Len(d))
      /\ i = 1 /\ Plausible(h) /\ ~(Len(d) < Total(h)) =>
           ScanTurn(s) = [rest |-> From(d, Total(h) + 1),
                          packets |-> Append(ps, PacketOf(d, h)), skipped |-> z]
  <2>1. /\ FindMagic(d) = 0 => ScanTurn([rest |-> d, packets |-> ps, skipped |-> z]) =
                                 Over([rest |-> d, packets |-> ps, skipped |-> z], Len(d))
        /\ FindMagic(d) > 1 => ScanTurn([rest |-> d, packets |-> ps, skipped |-> z]) =
                 Over([rest |-> d, packets |-> ps, skipped |-> z], FindMagic(d) - 1)
        /\ FindMagic(d) = 1 /\ ~Plausible(Header(d)) =>
             ScanTurn([rest |-> d, packets |-> ps, skipped |-> z]) =
                 Over([rest |-> d, packets |-> ps, skipped |-> z], MagicLen)
        /\ FindMagic(d) = 1 /\ Plausible(Header(d)) /\ Len(d) < Total(Header(d)) =>
             ScanTurn([rest |-> d, packets |-> ps, skipped |-> z]) =
                 Over([rest |-> d, packets |-> ps, skipped |-> z], Len(d))
        /\ FindMagic(d) = 1 /\ Plausible(Header(d)) /\ ~(Len(d) < Total(Header(d))) =>
             ScanTurn([rest |-> d, packets |-> ps, skipped |-> z]) =
               [rest |-> From(d, Total(Header(d)) + 1),
                packets |-> Append(ps, PacketOf(d, Header(d))), skipped |-> z]
    BY ScanCases, Zenon
  <2> QED BY <1>1, <1>4, <2>1, Zenon
<1>6. i # 0 => i < Len(d)
  BY <1>4, FindMagicFacts
<1>7. CASE i = 0
  <2>1. ScanTurn(s) = Over(s, Len(d)) /\ Len(d) \in 1..Len(d)
    BY <1>2, <1>7, <1>5
  <2> QED BY <1>1, <1>3, <2>1
<1>8. CASE i > 1
  <2>1. ScanTurn(s) = Over(s, i - 1)
    BY <1>2, <1>8, <1>5
  <2>2. i - 1 \in 1..Len(d)
    BY <1>2, <1>6, <1>8
  <2> QED BY <1>1, <1>3, <2>1, <2>2
<1>9. CASE i = 1 /\ ~Plausible(h)
  <2>1. ScanTurn(s) = Over(s, MagicLen)
    BY <1>2, <1>9, <1>5
  <2>2. MagicLen \in 1..Len(d)
    BY <1>2, <1>6, <1>9 DEF MagicLen, Magic
  <2> QED BY <1>1, <1>3, <2>1, <2>2
<1>10. CASE i = 1 /\ Plausible(h) /\ Len(d) < Total(h)
  <2>1. ScanTurn(s) = Over(s, Len(d)) /\ Len(d) \in 1..Len(d)
    BY <1>2, <1>10, <1>5
  <2> QED BY <1>1, <1>3, <2>1
<1>11. CASE i = 1 /\ Plausible(h) /\ ~(Len(d) < Total(h))
  <2>1. ScanTurn(s) = [rest |-> From(d, Total(h) + 1), packets |-> Append(ps, PacketOf(d, h)),
                       skipped |-> z]
    BY <1>2, <1>11, <1>5
  <2>2. Total(h) \in 1..Len(d)
    <3>1. h # NoHeader /\ h.size \in {5, 6} /\ h.count \in Nat
      BY <1>4, <1>11, HeaderFacts DEF Headers
    <3>2. Total(h) \in Nat /\ Total(h) >= 1
      BY <3>1 DEF Total
    <3> QED BY <1>2, <1>11, <3>2
  <2>3. From(d, Total(h) + 1) \in Seq(Nat) /\ Len(From(d, Total(h) + 1)) < Len(d)
    <3>1. PICK k \in Nat : k = Total(h) /\ k >= 1 /\ k + 1 \in 1..(Len(d) + 1)
      BY <2>2
    <3>2. From(d, k + 1) \in Seq(Nat) /\ Len(From(d, k + 1)) = Len(d) - (k + 1) + 1
      BY <3>1, FromFacts
    <3> QED BY <1>2, <3>1, <3>2
  <2>4. PacketOf(d, h) \in Packet
    <3>1. Total(h) <= Len(d)
      BY <1>2, <2>2
    <3> QED BY <1>4, <3>1, PacketOfFacts
  <2>5. Append(ps, PacketOf(d, h)) \in Seq(Packet)
    BY <2>4
  <2>6. PICK e, q : e = From(d, Total(h) + 1) /\ q = Append(ps, PacketOf(d, h))
    OBVIOUS
  <2>7. PICK t : t = [rest |-> e, packets |-> q, skipped |-> z]
    OBVIOUS
  <2>8. t \in Scans /\ t.rest = e /\ Len(e) < Len(d)
    BY <2>3, <2>5, <2>6, <2>7, ScansFacts
  <2> QED BY <1>1, <2>1, <2>6, <2>7, <2>8
<1>12. (i = 0 \/ i = 1 \/ i > 1)
  BY <1>4
<1> QED BY <1>7, <1>8, <1>9, <1>10, <1>11, <1>12

\* How ScanFile scans.
Scanning(g) ==
  /\ \A s \in Scans : g[s] = IF s.rest = <<>> THEN s ELSE g[ScanTurn(s)]
  /\ \A d \in Seq(Nat) : ScanFile(d) = g[[rest |-> d, packets |-> <<>>, skipped |-> 0]]

LEMMA ScanningExists == \E g : Scanning(g)
<1> DEFINE Loop(g) == g = [s \in Scans |-> IF s.rest = <<>> THEN s ELSE g[ScanTurn(s)]]
           loop == CHOOSE g : Loop(g)
<1>1. \E g : Loop(g)
  <2> DEFINE Turn == [s \in Scans |-> IF s.rest = <<>> THEN s ELSE ScanTurn(s)]
             Size == [s \in Scans |-> Len(s.rest)]
  <2>1. Turn \in [Scans -> Scans]
    BY ScanTurnFacts
  <2>2. Size \in [Scans -> Nat]
    <3>1. \A s \in Scans : Len(s.rest) \in Nat
      BY ScansFacts
    <3> QED BY <3>1
  <2>3. ASSUME NEW s \in Scans
        PROVE  /\ s.rest = <<>> => Turn[s] = s
               /\ s.rest # <<>> => Turn[s] = ScanTurn(s) /\ Turn[s] # s
               /\ Turn[s] # s => Size[Turn[s]] < Size[s]
    <3>1. CASE s.rest = <<>>
      BY <3>1
    <3>2. CASE s.rest # <<>>
      <4>1. Turn[s] = ScanTurn(s)
        BY <3>2
      <4>2. ScanTurn(s) \in Scans /\ Len(ScanTurn(s).rest) < Len(s.rest)
        BY <3>2, ScanTurnFacts
      <4>3. Size[s] = Len(s.rest) /\ Size[ScanTurn(s)] = Len(ScanTurn(s).rest)
        BY <4>2
      <4>4. Len(s.rest) \in Nat
        BY ScansFacts
      <4> HIDE DEF Turn, Size
      <4> QED BY <3>2, <4>1, <4>2, <4>3, <4>4
    <3> QED BY <3>1, <3>2
  <2> HIDE DEF Turn, Size
  <2>4. \A s \in Scans : Turn[s] # s => Size[Turn[s]] < Size[s]
    BY <2>3
  <2>5. PICK g \in [Scans -> Scans] :
          \A s \in Scans : g[s] = IF Turn[s] = s THEN s ELSE g[Turn[s]]
    BY <2>1, <2>2, <2>4, LoopExists
  <2>6. \A s \in Scans : g[s] = IF s.rest = <<>> THEN s ELSE g[ScanTurn(s)]
    BY <2>3, <2>5
  <2>7. g = [s \in Scans |-> IF s.rest = <<>> THEN s ELSE g[ScanTurn(s)]]
    BY <2>6
  <2> QED BY <2>7
<1>2. Loop(loop)
  <2> HIDE DEF Loop
  <2> QED BY <1>1, Zenon
<1>3. \A d : ScanFile(d) = loop[[rest |-> d, packets |-> <<>>, skipped |-> 0]]
  BY DEF ScanFile
<1> HIDE DEF loop
<1>4. \A s \in Scans : loop[s] = IF s.rest = <<>> THEN s ELSE loop[ScanTurn(s)]
  BY <1>2
<1> QED BY <1>3, <1>4 DEF Scanning

-----------------------------------------------------------------------------
(* The bytes of a file *)

\* The packets' bytes one after the other: g[n] holds those of the first n.
Joining(out, g) ==
  /\ g \in [Nat -> Seq(Nat)]
  /\ g[0] = <<>>
  /\ \A n \in Nat : n + 1 <= Len(out) => g[n + 1] = g[n] \o Bytes(out[n + 1])
  /\ FileBytes(out) = g[Len(out)]

LEMMA JoiningExists ==
  ASSUME NEW out \in Seq(Packet)
  PROVE  \E g : Joining(out, g)
<1>1. PICK m \in Nat : m = Len(out)
  OBVIOUS
<1>2. PICK b : b = [i \in DOMAIN out |-> Bytes(out[i])]
  OBVIOUS
<1>3. /\ b = [i \in 1..m |-> Bytes(out[i])] /\ Len(b) = m /\ DOMAIN b = 1..m
      /\ \A i \in 1..m : b[i] = Bytes(out[i]) /\ b[i] \in Seq(Nat)
  <2>1. DOMAIN out = 1..m
    BY <1>1
  <2>2. \A i \in 1..m : Bytes(out[i]) \in Seq(Nat)
    <3> SUFFICES ASSUME NEW i \in 1..m PROVE Bytes(out[i]) \in Seq(Nat)
      OBVIOUS
    <3>1. out[i] \in Packet
      BY <1>1
    <3> QED BY <3>1, BytesFacts
  <2>3. b = [i \in 1..m |-> Bytes(out[i])]
    BY <1>2, <2>1
  <2>4. b \in Seq(Seq(Nat)) /\ Len(b) = m
    BY <2>2, <2>3
  <2> QED BY <2>2, <2>3, <2>4
<1>4. PICK F \in [Nat -> [Seq(Nat) -> Seq(Nat)]] :
        \A n \in Nat, x \in Seq(Nat) : F[n][x] = IF n + 1 <= m THEN x \o b[n + 1] ELSE x
  <2>1. ASSUME NEW n \in Nat
        PROVE  [x \in Seq(Nat) |-> IF n + 1 <= m THEN x \o b[n + 1] ELSE x]
                 \in [Seq(Nat) -> Seq(Nat)]
    <3>1. n + 1 <= m => b[n + 1] \in Seq(Nat)
      <4>1. n + 1 <= m => n + 1 \in 1..m
        BY <1>1
      <4> QED BY <1>3, <4>1
    <3>2. ASSUME NEW x \in Seq(Nat)
          PROVE  (IF n + 1 <= m THEN x \o b[n + 1] ELSE x) \in Seq(Nat)
      BY <3>1, ConcatProperties
    <3> QED BY <3>2
  <2>2. [n \in Nat |-> [x \in Seq(Nat) |-> IF n + 1 <= m THEN x \o b[n + 1] ELSE x]]
          \in [Nat -> [Seq(Nat) -> Seq(Nat)]]
    BY <2>1
  <2> QED BY <2>2
<1>5. PICK f \in [Nat -> Seq(Nat)] : f[0] = <<>> /\ \A n \in Nat : f[n + 1] = F[n][f[n]]
  <2>1. <<>> \in Seq(Nat)
    OBVIOUS
  <2>2. Sequenced(Seq(Nat), <<>>, F)
    BY <1>4, <2>1, Recursion
  <2> QED BY <2>2 DEF Sequenced
<1>6. \A n \in Nat : n + 1 <= m => f[n + 1] = f[n] \o b[n + 1]
  BY <1>4, <1>5
<1> DEFINE Def(h) == h = [i \in 1..Len(b) |-> IF i = 1 THEN b[i] ELSE h[i - 1] \o b[i]]
           flatten == CHOOSE h : Def(h)
<1>7. ASSUME NEW i \in 1..m
      PROVE  f[i] = IF i = 1 THEN b[i] ELSE f[i - 1] \o b[i]
  <2>1. PICK n \in Nat : n = i - 1 /\ i = n + 1 /\ n + 1 <= m
    BY <1>1
  <2>2. f[i] = f[i - 1] \o b[i]
    BY <1>6, <2>1
  <2>3. CASE i = 1
    <3>1. b[i] \in Seq(Nat) /\ f[i - 1] = <<>>
      BY <1>3, <1>5, <2>3
    <3>2. <<>> \o b[i] = b[i]
      BY <3>1, ConcatEmptySeq
    <3> QED BY <2>2, <2>3, <3>1, <3>2
  <2> QED BY <2>2, <2>3
<1>8. \E h : Def(h)
  <2> DEFINE h == [i \in 1..m |-> f[i]]
  <2>1. ASSUME NEW i \in 1..m PROVE h[i] = IF i = 1 THEN b[i] ELSE h[i - 1] \o b[i]
    <3>1. CASE i = 1
      BY <1>7, <3>1
    <3>2. CASE i # 1
      <4>1. i - 1 \in 1..m
        BY <1>1, <3>2
      <4> QED BY <1>7, <3>2, <4>1
    <3> QED BY <3>1, <3>2
  <2>2. Def(h)
    <3>1. h = [i \in 1..m |-> h[i]]
      OBVIOUS
    <3> HIDE DEF h
    <3>2. h = [i \in 1..m |-> IF i = 1 THEN b[i] ELSE h[i - 1] \o b[i]]
      BY <2>1, <3>1
    <3> QED BY <1>3, <3>2
  <2> HIDE DEF h, Def
  <2> QED BY <2>2
<1>9. Def(flatten)
  <2> HIDE DEF Def
  <2> QED BY <1>8, Zenon
<1>10. FileBytes(out) = IF Len(b) = 0 THEN b ELSE flatten[Len(b)]
  BY <1>2 DEF FileBytes, FlattenSeq
<1> HIDE DEF flatten
<1>11. \A i \in 1..m : flatten[i] = IF i = 1 THEN b[i] ELSE flatten[i - 1] \o b[i]
  BY <1>3, <1>9
<1> HIDE DEF Def
<1>12. \A i \in 1..m : flatten[i] = f[i]
  <2> DEFINE T == {n \in Nat : n + 1 <= m => flatten[n + 1] = f[n + 1]}
  <2>1. 0 \in T
    <3> SUFFICES ASSUME 1 <= m PROVE flatten[1] = f[1]
      OBVIOUS
    <3>1. 1 \in 1..m
      BY <1>1
    <3> QED BY <1>7, <1>11, <3>1
  <2>2. ASSUME NEW n \in Nat, n \in T PROVE n + 1 \in T
    <3> SUFFICES ASSUME (n + 1) + 1 <= m PROVE flatten[(n + 1) + 1] = f[(n + 1) + 1]
      OBVIOUS
    <3>1. PICK i \in 1..m : i = (n + 1) + 1 /\ i # 1 /\ i - 1 = n + 1 /\ n + 1 <= m
      BY <1>1
    <3>2. flatten[n + 1] = f[n + 1]
      BY <2>2, <3>1
    <3>3. flatten[i] = flatten[i - 1] \o b[i] /\ f[i] = f[i - 1] \o b[i]
      BY <1>7, <1>11, <3>1
    <3> QED BY <3>1, <3>2, <3>3
  <2>3. \A n \in Nat : n \in T
    <3> HIDE DEF T
    <3> QED BY <2>1, <2>2, Induction
  <2> SUFFICES ASSUME NEW i \in 1..m PROVE flatten[i] = f[i]
    OBVIOUS
  <2>4. PICK n \in Nat : i = n + 1 /\ n + 1 <= m
    <3>1. i - 1 \in Nat /\ i = (i - 1) + 1 /\ i <= m
      BY <1>1
    <3> QED BY <3>1
  <2> QED BY <2>3, <2>4
<1>13. FileBytes(out) = f[m]
  <2>1. CASE m = 0
    <3>1. b = <<>>
      <4>1. b = [i \in 1..0 |-> Bytes(out[i])]
        BY <1>3, <2>1
      <4> QED BY <4>1
    <3> QED BY <1>3, <1>5, <1>10, <2>1, <3>1
  <2>2. CASE m # 0
    <3>1. m \in 1..m
      BY <1>1, <2>2
    <3> QED BY <1>3, <1>10, <1>12, <2>2, <3>1
  <2> QED BY <2>1, <2>2
<1>14. \A n \in Nat : n + 1 <= m => f[n + 1] = f[n] \o Bytes(out[n + 1])
  <2> SUFFICES ASSUME NEW n \in Nat, n + 1 <= m PROVE f[n + 1] = f[n] \o Bytes(out[n + 1])
    OBVIOUS
  <2>1. n + 1 \in 1..m
    BY <1>1
  <2> QED BY <1>3, <1>6, <2>1
<1> QED BY <1>1, <1>5, <1>13, <1>14 DEF Joining

\* The bytes of the first i packets are the first bytes of the file.
LEMMA FileParts ==
  ASSUME NEW out \in Seq(Packet), NEW g, Joining(out, g), NEW i \in 0..Len(out)
  PROVE  SubSeq(out, 1, i) \in Seq(Packet) /\ FileBytes(SubSeq(out, 1, i)) = g[i]
<1>1. PICK m \in Nat : m = Len(out)
  OBVIOUS
<1>2. PICK o : o = SubSeq(out, 1, i)
  OBVIOUS
<1>3. o \in Seq(Packet) /\ Len(o) = i /\ \A j \in 1..i : o[j] = out[j]
  <2>1. \A j \in 1..i : out[j] \in Packet
    BY <1>1
  <2>2. 1 \in Int /\ i \in Int
    OBVIOUS
  <2>3. o \in Seq(Packet)
    BY <1>1, <1>2, <2>1, <2>2, SubSeqProperties
  <2>4. Len(o) = i
    <3>1. Len(o) = IF 1 <= i THEN i - 1 + 1 ELSE 0
      BY <1>1, <1>2, <2>1, <2>2, SubSeqProperties
    <3>2. i \in Nat
      BY <1>1
    <3> QED BY <3>1, <3>2
  <2>5. \A j \in 1..i : o[j] = out[j]
    <3>1. \A j \in 1..(i - 1 + 1) : o[j] = out[1 + j - 1]
      BY <1>1, <1>2, <2>1, <2>2, SubSeqProperties
    <3>2. i - 1 + 1 = i /\ \A j \in 1..i : 1 + j - 1 = j
      BY <1>1
    <3> QED BY <3>1, <3>2
  <2> QED BY <2>3, <2>4, <2>5
<1>4. PICK h : Joining(o, h)
  BY <1>3, JoiningExists
<1> DEFINE T == {n \in Nat : n <= i => h[n] = g[n]}
<1>5. 0 \in T
  BY <1>4 DEF Joining
<1>6. ASSUME NEW n \in Nat, n \in T PROVE n + 1 \in T
  <2> SUFFICES ASSUME n + 1 <= i PROVE h[n + 1] = g[n + 1]
    OBVIOUS
  <2>1. h[n] = g[n] /\ n + 1 \in 1..i /\ n + 1 <= m
    BY <1>1, <1>6
  <2>2. h[n + 1] = h[n] \o Bytes(o[n + 1])
    BY <1>3, <1>4 DEF Joining
  <2>3. g[n + 1] = g[n] \o Bytes(out[n + 1])
    BY <1>1, <2>1 DEF Joining
  <2> QED BY <1>3, <2>1, <2>2, <2>3
<1>7. \A n \in Nat : n \in T
  <2> HIDE DEF T
  <2> QED BY <1>5, <1>6, Induction
<1>8. h[i] = g[i]
  <2>1. i \in Nat
    BY <1>1
  <2> QED BY <1>7, <2>1
<1> QED BY <1>2, <1>3, <1>4, <1>8 DEF Joining

-----------------------------------------------------------------------------
(* Scanning a file that was cut off *)

\* The scan from s finds no packet more.
Ended(g, s) ==
  g[s] = [rest |-> <<>>, packets |-> s.packets, skipped |-> s.skipped + Len(s.rest)]

\* What a turn does, by the names of its parts.
LEMMA ScanTo ==
  ASSUME NEW s \in Scans, NEW d, NEW i, NEW h,
         d = s.rest, i = FindMagic(d), h = Header(d)
  PROVE  /\ i = 0 => ScanTurn(s) = Over(s, Len(d))
         /\ i > 1 => ScanTurn(s) = Over(s, i - 1)
         /\ i = 1 /\ ~Plausible(h) => ScanTurn(s) = Over(s, MagicLen)
         /\ i = 1 /\ Plausible(h) /\ Len(d) < Total(h) => ScanTurn(s) = Over(s, Len(d))
         /\ i = 1 /\ Plausible(h) /\ ~(Len(d) < Total(h)) =>
              ScanTurn(s) = [rest |-> From(d, Total(h) + 1),
                             packets |-> Append(s.packets, PacketOf(d, h)),
                             skipped |-> s.skipped]
<1>1. PICK e \in Seq(Nat), ps \in Seq(Packet), z \in Nat :
        s = [rest |-> e, packets |-> ps, skipped |-> z] /\ ps = s.packets
        /\ z = s.skipped /\ d = e
  BY ScansFacts
<1>2. /\ FindMagic(e) = 0 => ScanTurn([rest |-> e, packets |-> ps, skipped |-> z]) =
                               Over([rest |-> e, packets |-> ps, skipped |-> z], Len(e))
      /\ FindMagic(e) > 1 => ScanTurn([rest |-> e, packets |-> ps, skipped |-> z]) =
               Over([rest |-> e, packets |-> ps, skipped |-> z], FindMagic(e) - 1)
      /\ FindMagic(e) = 1 /\ ~Plausible(Header(e)) =>
           ScanTurn([rest |-> e, packets |-> ps, skipped |-> z]) =
               Over([rest |-> e, packets |-> ps, skipped |-> z], MagicLen)
      /\ FindMagic(e) = 1 /\ Plausible(Header(e)) /\ Len(e) < Total(Header(e)) =>
           ScanTurn([rest |-> e, packets |-> ps, skipped |-> z]) =
               Over([rest |-> e, packets |-> ps, skipped |-> z], Len(e))
      /\ FindMagic(e) = 1 /\ Plausible(Header(e)) /\ ~(Len(e) < Total(Header(e))) =>
           ScanTurn([rest |-> e, packets |-> ps, skipped |-> z]) =
             [rest |-> From(e, Total(Header(e)) + 1),
              packets |-> Append(ps, PacketOf(e, Header(e))), skipped |-> z]
  BY ScanCases, Zenon
<1>3. PICK o : o = [rest |-> e, packets |-> ps, skipped |-> z]
  OBVIOUS
<1>4. s = o /\ ps = s.packets /\ z = s.skipped
  BY <1>1, <1>3
<1> QED BY <1>1, <1>2, <1>3, <1>4, Zenon

LEMMA OverTo ==
  ASSUME NEW s \in Scans, NEW n \in 0..Len(s.rest)
  PROVE  /\ Over(s, n) = [rest |-> From(s.rest, n + 1), packets |-> s.packets,
                          skipped |-> s.skipped + n]
         /\ Over(s, n) \in Scans
         /\ Len(Over(s, n).rest) = Len(s.rest) - n
         /\ Over(s, n).rest = From(s.rest, n + 1)
         /\ Over(s, n).packets = s.packets /\ Over(s, n).skipped = s.skipped + n
<1>1. PICK d \in Seq(Nat), ps \in Seq(Packet), z \in Nat :
        s = [rest |-> d, packets |-> ps, skipped |-> z] /\ d = s.rest /\ ps = s.packets
        /\ z = s.skipped
  BY ScansFacts
<1>2. n \in 0..Len(d)
  BY <1>1
<1>3. /\ Over(s, n) = [rest |-> From(d, n + 1), packets |-> ps, skipped |-> z + n]
      /\ Over(s, n) \in Scans /\ Len(From(d, n + 1)) = Len(d) - n
  BY <1>1, <1>2, OverFacts
<1>4. PICK o, r : o = Over(s, n) /\ r = From(d, n + 1)
  OBVIOUS
<1>5. o = [rest |-> r, packets |-> ps, skipped |-> z + n]
  BY <1>3, <1>4
<1>6. o.rest = r /\ o.packets = ps /\ o.skipped = z + n
  BY <1>5
<1> QED BY <1>1, <1>3, <1>4, <1>6

\* Passing n bytes over.
LEMMA ScanOver ==
  ASSUME NEW g, Scanning(g), NEW s \in Scans, NEW n \in 1..Len(s.rest),
         ScanTurn(s) = Over(s, n)
  PROVE  g[s] = g[Over(s, n)]
<1>1. s.rest # <<>>
  OBVIOUS
<1> QED BY <1>1 DEF Scanning

LEMMA ScanEmpty ==
  ASSUME NEW g, Scanning(g), NEW s \in Scans, s.rest = <<>>
  PROVE  g[s] = s /\ Ended(g, s)
<1>1. g[s] = s
  BY DEF Scanning
<1>2. s = [rest |-> s.rest, packets |-> s.packets, skipped |-> s.skipped] /\ s.skipped \in Nat
  BY ScansFacts
<1>3. s.skipped + Len(s.rest) = s.skipped
  BY <1>2
<1> QED BY <1>1, <1>2, <1>3 DEF Ended

\* Where the rest after a turn is passed over, all is.
LEMMA EndedOver ==
  ASSUME NEW g, Scanning(g), NEW s \in Scans, NEW n \in 1..Len(s.rest),
         ScanTurn(s) = Over(s, n), Ended(g, Over(s, n))
  PROVE  Ended(g, s)
<1>1. PICK o : o = Over(s, n)
  OBVIOUS
<1>2. n \in 0..Len(s.rest) /\ Len(s.rest) \in Nat /\ s.skipped \in Nat
  <2>1. PICK d \in Seq(Nat) : d = s.rest
    BY ScansFacts
  <2>2. s.skipped \in Nat
    BY ScansFacts
  <2> QED BY <2>1, <2>2
<1>3. Len(o.rest) = Len(s.rest) - n /\ o.packets = s.packets /\ o.skipped = s.skipped + n
  BY <1>1, <1>2, OverTo
<1>4. o.skipped + Len(o.rest) = s.skipped + Len(s.rest)
  BY <1>2, <1>3
<1>5. g[s] = g[o]
  BY <1>1, ScanOver
<1>6. g[o] = [rest |-> <<>>, packets |-> o.packets, skipped |-> o.skipped + Len(o.rest)]
  BY <1>1 DEF Ended
<1> QED BY <1>3, <1>4, <1>5, <1>6 DEF Ended

LEMMA EndedAll ==
  ASSUME NEW g, Scanning(g), NEW s \in Scans, s.rest # <<>>,
         ScanTurn(s) = Over(s, Len(s.rest))
  PROVE  Ended(g, s)
<1>1. PICK n \in Nat : n = Len(s.rest)
  <2>1. s.rest \in Seq(Nat)
    BY ScansFacts
  <2> QED BY <2>1
<1>2. n \in 1..Len(s.rest) /\ n \in 0..Len(s.rest)
  <2>1. s.rest \in Seq(Nat)
    BY ScansFacts
  <2> QED BY <1>1, <2>1
<1>3. PICK o : o = Over(s, n)
  OBVIOUS
<1>4. o \in Scans /\ o.rest = From(s.rest, n + 1)
  BY <1>2, <1>3, OverTo
<1>5. o.rest = <<>>
  <2>1. s.rest \in Seq(Nat)
    BY ScansFacts
  <2> QED BY <1>1, <1>4, <2>1, FromEnds
<1>6. Ended(g, o)
  BY <1>4, <1>5, ScanEmpty
<1> QED BY <1>1, <1>2, <1>3, <1>6, EndedOver

\* What is shorter than a header is passed over.
LEMMA ScanShort ==
  ASSUME NEW g, Scanning(g), NEW s0 \in Scans, Len(s0.rest) < 5
  PROVE  Ended(g, s0)
<1> DEFINE T == {n \in Nat : \A s \in Scans : Len(s.rest) = n /\ n < 5 => Ended(g, s)}
<1>1. ASSUME NEW n \in Nat, \A m \in 0..(n - 1) : m \in T PROVE n \in T
  <2> SUFFICES ASSUME NEW s \in Scans, Len(s.rest) = n, n < 5 PROVE Ended(g, s)
    OBVIOUS
  <2>1. PICK d \in Seq(Nat) : d = s.rest
    BY ScansFacts
  <2>2. CASE n = 0
    <3>1. s.rest = <<>>
      BY <2>1, <2>2
    <3> QED BY <3>1, ScanEmpty
  <2>3. CASE n # 0
    <3>1. PICK i, h : i = FindMagic(d) /\ h = Header(d) /\ i \in Nat
      BY FindMagicFacts
    <3>2. i # 0 => i < n
      BY <2>1, <3>1, FindMagicFacts
    <3>3. ~Plausible(h)
      <4>1. Plausible(h) => h.size \in {5, 6} /\ h.size <= Len(d)
        BY <3>1, HeaderFacts
      <4> QED BY <2>1, <4>1
    <3>4. /\ i = 0 => ScanTurn(s) = Over(s, Len(d))
          /\ i > 1 => ScanTurn(s) = Over(s, i - 1)
          /\ i = 1 /\ ~Plausible(h) => ScanTurn(s) = Over(s, MagicLen)
      BY <2>1, <3>1, ScanTo
    <3>5. PICK k \in 1..n : ScanTurn(s) = Over(s, k)
      <4>1. CASE i = 0
        <5>1. Len(d) \in 1..n
          BY <2>1, <2>3
        <5> QED BY <3>4, <4>1, <5>1
      <4>2. CASE i > 1
        <5>1. i - 1 \in 1..n
          BY <3>1, <3>2, <4>2
        <5> QED BY <3>4, <4>2, <5>1
      <4>3. CASE i = 1
        <5>1. MagicLen \in 1..n
          BY <3>2, <4>3 DEF MagicLen, Magic
        <5> QED BY <3>3, <3>4, <4>3, <5>1
      <4> QED BY <3>1, <4>1, <4>2, <4>3
    <3>6. k \in 1..Len(s.rest) /\ k \in 0..Len(s.rest)
      OBVIOUS
    <3>7. PICK o : o = Over(s, k)
      OBVIOUS
    <3>8. o \in Scans /\ Len(o.rest) = n - k
      BY <3>6, <3>7, OverTo
    <3>9. n - k \in 0..(n - 1) /\ n - k < 5
      OBVIOUS
    <3>10. Ended(g, o)
      BY <1>1, <3>8, <3>9
    <3> QED BY <3>5, <3>6, <3>7, <3>10, EndedOver
  <2> QED BY <2>2, <2>3
<1>2. \A n \in Nat : n \in T
  <2> HIDE DEF T
  <2> QED BY <1>1, StrongInduction
<1>3. Len(s0.rest) \in Nat
  BY ScansFacts
<1> QED BY <1>2, <1>3

\* A packet that is not all there is passed over.
LEMMA ScanPart ==
  ASSUME NEW g, Scanning(g), NEW s \in Scans, NEW p \in Full,
         Len(s.rest) < Len(Bytes(p)), \A j \in 1..Len(s.rest) : s.rest[j] = Bytes(p)[j]
  PROVE  Ended(g, s)
<1>1. p \in Packet /\ Len(p.payload) \in 1..MaxSamples /\ MaxSamples \in Nat
  BY StreamAssumption DEF Full
<1>2. PICK d, n, z, c, b, v :
        /\ d = s.rest /\ n = Len(d) /\ z = HeaderSize(p.version) /\ c = Len(p.payload)
        /\ b = Bytes(p) /\ v = p.version
  OBVIOUS
<1>3. /\ d \in Seq(Nat) /\ n \in Nat /\ c \in 1..MaxSamples /\ c \in Nat
      /\ n < Len(b) /\ \A j \in 1..n : d[j] = b[j]
  BY <1>1, <1>2, ScansFacts
<1>4. z \in {5, 6} /\ b \in Seq(Nat) /\ Len(b) = z + c /\ HeaderSize(v) = z
  BY <1>1, <1>2, BytesFacts
<1>5. b[1] = 8 /\ b[2] = 9 /\ b[3] = v /\ b[4] = c
  <2>1. PICK f : f = Heading(p)
    OBVIOUS
  <2>2. /\ f \in Seq(Nat) /\ Len(f) = z /\ f[1] = 8 /\ f[2] = 9 /\ f[3] = v /\ f[4] = c
        /\ b = f \o p.payload /\ p.payload \in Seq(Nat)
    BY <1>1, <1>2, <2>1, BytesFacts
  <2>3. \A j \in 1..4 : b[j] = f[j]
    <3> SUFFICES ASSUME NEW j \in 1..4 PROVE b[j] = f[j]
      OBVIOUS
    <3>1. Len(f) \in Nat /\ Len(p.payload) \in Nat /\ j <= Len(f)
      BY <1>4, <2>2
    <3>2. j \in 1..(Len(f) + Len(p.payload))
      BY <3>1
    <3> QED BY <2>2, <3>1, <3>2, ConcatProperties
  <2>4. 1 \in 1..4 /\ 2 \in 1..4 /\ 3 \in 1..4 /\ 4 \in 1..4
    OBVIOUS
  <2> QED BY <2>2, <2>3, <2>4
<1>6. CASE n < 5
  BY <1>2, <1>6, ScanShort
<1>7. CASE ~(n < 5)
  <2>1. \A j \in 1..5 : d[j] = b[j]
    <3> SUFFICES ASSUME NEW j \in 1..5 PROVE d[j] = b[j]
      OBVIOUS
    <3>1. j \in 1..n
      BY <1>3, <1>7
    <3> QED BY <1>3, <3>1
  <2>2. d[1] = 8 /\ d[2] = 9 /\ d[3] = v /\ d[4] = c
    BY <1>5, <2>1
  <2>3. 1 \in 1..Len(d) /\ 1 < Len(d) /\ 0 < Len(d) /\ 2 \in 1..Len(d) /\ 2 \in 0..Len(d)
    BY <1>2, <1>3, <1>7
  <2>4. FindMagic(d) = 1 /\ MagicAt(d, 1)
    <3>1. MagicAt(d, 1)
      BY <2>2, <2>3 DEF MagicAt, Magic
    <3>2. \A j \in 1..(1 - 1) : ~MagicAt(d, j)
      OBVIOUS
    <3> QED BY <1>3, <2>3, <3>1, <3>2, FindMagicIs
  <2>5. PICK h : h = Header(d)
    OBVIOUS
  <2>6. /\ ~Plausible(h) => ScanTurn(s) = Over(s, 2)
        /\ Plausible(h) /\ Len(d) < Total(h) => ScanTurn(s) = Over(s, Len(d))
    <3>1. MagicLen = 2
      BY DEF MagicLen, Magic
    <3> QED BY <1>2, <2>4, <2>5, <3>1, ScanTo
  <2>7. CASE ~(n < z)
    <3>1. h = [version |-> v, count |-> c, seq |-> d[5] % Modulus, size |-> z]
      <4>1. MagicLen = 2 /\ HeaderSize(1) = 5
        BY DEF HeaderSize, MagicLen, Magic
      <4>2. Len(d) >= HeaderSize(1) /\ Len(d) >= HeaderSize(d[3])
        <5>1. HeaderSize(d[3]) = z /\ n >= z /\ n >= 5
          <6>1. HeaderSize(d[3]) = z /\ z \in Nat
            BY <1>4, <2>2
          <6>2. n >= z /\ n >= 5
            BY <1>3, <1>7, <2>7, <6>1
          <6> QED BY <6>1, <6>2
        <5> QED BY <1>2, <4>1, <5>1
      <4>3. Header(d) = [version |-> d[3], count |-> d[4], seq |-> d[5] % Modulus,
                         size |-> HeaderSize(d[3])]
        BY <2>4, <4>1, <4>2 DEF Header
      <4> QED BY <1>4, <2>2, <2>5, <4>3
    <3>2. Plausible(h) /\ Total(h) = z + c
      BY <1>1, <1>3, <3>1 DEF Plausible, Total
    <3>3. Len(d) < Total(h)
      BY <1>2, <1>3, <1>4, <3>2
    <3>4. ScanTurn(s) = Over(s, Len(s.rest))
      BY <1>2, <2>6, <3>2, <3>3
    <3>5. s.rest # <<>>
      BY <1>2, <2>3
    <3> QED BY <3>4, <3>5, EndedAll
  <2>8. CASE n < z
    <3>1. n = 5 /\ z = 6
      BY <1>3, <1>4, <1>7, <2>8
    <3>2. ~Plausible(h)
      <4>1. ~(Len(d) >= HeaderSize(d[MagicLen + 1]))
        <5>1. MagicLen + 1 = 3
          BY DEF MagicLen, Magic
        <5>2. HeaderSize(d[MagicLen + 1]) = 6
          BY <1>4, <2>2, <3>1, <5>1
        <5> QED BY <1>2, <3>1, <5>2
      <4>2. Header(d) = NoHeader
        BY <4>1 DEF Header
      <4> QED BY <2>5, <4>2 DEF Plausible, NoHeader
    <3>3. ScanTurn(s) = Over(s, 2)
      BY <2>6, <3>2
    <3>4. 2 \in 1..Len(s.rest) /\ 2 \in 0..Len(s.rest)
      BY <1>2, <2>3
    <3>5. PICK o : o = Over(s, 2)
      OBVIOUS
    <3>6. o \in Scans /\ Len(o.rest) = Len(s.rest) - 2
      BY <3>4, <3>5, OverTo
    <3>7. Len(o.rest) < 5
      <4>1. Len(s.rest) = 5
        BY <1>2, <3>1
      <4> QED BY <3>6, <4>1
    <3>8. Ended(g, o)
      BY <3>6, <3>7, ScanShort
    <3> QED BY <3>3, <3>4, <3>5, <3>8, EndedOver
  <2> QED BY <2>7, <2>8
<1> QED BY <1>6, <1>7

\* A packet that is all there is read.
LEMMA ScanWhole ==
  ASSUME NEW g, Scanning(g), NEW s \in Scans, NEW p \in Full, NEW x \in Seq(Nat),
         s.rest = Bytes(p) \o x
  PROVE  g[s] = g[[rest |-> x, packets |-> Append(s.packets, p), skipped |-> s.skipped]]
<1>1. p \in Packet /\ Len(p.payload) \in 1..MaxSamples /\ MaxSamples \in Nat
  BY StreamAssumption DEF Full
<1>2. PICK w, h : w = Bytes(p) \o x /\ h = Header(w)
  OBVIOUS
<1>3. /\ w \in Seq(Nat) /\ Len(w) = Len(Bytes(p)) + Len(x) /\ FindMagic(w) = 1
      /\ h = [version |-> p.version, count |-> Len(p.payload), seq |-> p.seq,
              size |-> HeaderSize(p.version)]
      /\ Total(h) = Len(Bytes(p)) /\ Len(Bytes(p)) \in Nat
      /\ PacketOf(w, h) = p /\ From(w, Total(h) + 1) = x
  BY <1>1, <1>2, RoundTrip
<1>4. Plausible(h)
  BY <1>1, <1>3 DEF Plausible
<1>5. ~(Len(w) < Total(h))
  <2>1. Len(x) \in Nat
    OBVIOUS
  <2> QED BY <1>3, <2>1
<1>6. ScanTurn(s) = [rest |-> From(w, Total(h) + 1),
                     packets |-> Append(s.packets, PacketOf(w, h)), skipped |-> s.skipped]
  BY <1>2, <1>3, <1>4, <1>5, ScanTo
<1>7. s.rest # <<>>
  <2>1. FindMagic(w) \in 1..Len(w)
    BY <1>3, FindMagicFacts
  <2> QED BY <1>2, <1>3, <2>1
<1>8. g[s] = g[ScanTurn(s)]
  BY <1>7 DEF Scanning
<1> QED BY <1>3, <1>6, <1>8

\* What follows the first u bytes.
LEMMA FromAfter ==
  ASSUME NEW d \in Seq(Nat), NEW u \in 0..Len(d)
  PROVE  /\ From(d, u + 1) \in Seq(Nat) /\ Len(From(d, u + 1)) = Len(d) - u
         /\ \A j \in 1..(Len(d) - u) : From(d, u + 1)[j] = d[u + j]
<1>1. PICK k \in 1..(Len(d) + 1) : k = u + 1
  OBVIOUS
<1>2. PICK r : r = From(d, k)
  OBVIOUS
<1>3. /\ r \in Seq(Nat) /\ Len(r) = Len(d) - k + 1
      /\ \A j \in 1..(Len(d) - k + 1) : r[j] = d[k + j - 1]
  BY <1>2, FromFacts
<1>4. Len(d) - k + 1 = Len(d) - u /\ \A j \in 1..(Len(d) - u) : k + j - 1 = u + j
  BY <1>1
<1>5. \A j \in 1..(Len(d) - u) : r[j] = d[u + j]
  BY <1>3, <1>4
<1> QED BY <1>1, <1>2, <1>3, <1>4, <1>5

LEMMA FullFacts ==
  ASSUME NEW out \in Seq(Full)
  PROVE  /\ out \in Seq(Packet) /\ Len(out) \in Nat
         /\ \A i \in 1..Len(out) : out[i] \in Full /\ out[i] \in Packet
<1>1. Full \subseteq Packet
  BY DEF Full
<1>2. out \in Seq(Packet)
  BY <1>1, SeqMonotonic
<1> QED BY <1>1, <1>2

\* The file of the first i packets is how that of the first k begins.
LEMMA FilePrefix ==
  ASSUME NEW out \in Seq(Packet), NEW g, Joining(out, g), NEW i \in Nat, NEW k \in Nat,
         i <= k, k <= Len(out)
  PROVE  /\ g[i] \in Seq(Nat) /\ g[k] \in Seq(Nat) /\ Len(g[i]) <= Len(g[k])
         /\ \A j \in 1..Len(g[i]) : g[k][j] = g[i][j]
<1>1. PICK m \in Nat : m = Len(out)
  OBVIOUS
<1>2. \A n \in Nat : g[n] \in Seq(Nat)
  BY DEF Joining
<1> DEFINE Begins(n) == /\ Len(g[i]) <= Len(g[n])
                        /\ \A j \in 1..Len(g[i]) : g[n][j] = g[i][j]
           T == {n \in Nat : i <= n /\ n <= m => Begins(n)}
<1>3. Begins(i)
  <2>1. Len(g[i]) \in Nat
    BY <1>2
  <2> QED BY <2>1
<1>4. 0 \in T
  <2>1. CASE i = 0
    BY <1>3, <2>1
  <2>2. CASE i # 0
    <3>1. ~(i <= 0)
      BY <2>2
    <3> QED BY <3>1
  <2> QED BY <2>1, <2>2
<1>5. ASSUME NEW n \in Nat, n \in T PROVE n + 1 \in T
  <2> SUFFICES ASSUME i <= n + 1, n + 1 <= m PROVE Begins(n + 1)
    OBVIOUS
  <2>1. CASE i = n + 1
    BY <1>3, <2>1
  <2>2. CASE i # n + 1
    <3>1. Begins(n)
      <4>1. i <= n /\ n <= m
        BY <1>1, <2>2
      <4> QED BY <1>5, <4>1
    <3>2. PICK a, b, c : a = g[n] /\ b = Bytes(out[n + 1]) /\ c = g[n + 1]
      OBVIOUS
    <3>3. a \in Seq(Nat) /\ b \in Seq(Nat) /\ c = a \o b
      <4>1. n + 1 \in 1..Len(out)
        BY <1>1
      <4>2. out[n + 1] \in Packet
        BY <4>1
      <4>3. b \in Seq(Nat)
        BY <3>2, <4>2, BytesFacts
      <4>4. c = a \o b
        BY <1>1, <3>2 DEF Joining
      <4> QED BY <1>2, <3>2, <4>3, <4>4
    <3>4. Len(a) \in Nat /\ Len(b) \in Nat /\ Len(c) = Len(a) + Len(b)
          /\ \A j \in 1..Len(a) : c[j] = a[j]
      BY <3>3
    <3>5. Len(g[i]) \in Nat /\ Len(g[i]) <= Len(a) /\ \A j \in 1..Len(g[i]) : a[j] = g[i][j]
      BY <1>2, <3>1, <3>2
    <3>6. Len(g[i]) <= Len(c) /\ \A j \in 1..Len(g[i]) : j \in 1..Len(a)
      BY <3>4, <3>5
    <3> QED BY <3>2, <3>4, <3>5, <3>6
  <2> QED BY <2>1, <2>2
<1>6. \A n \in Nat : n \in T
  <2> HIDE DEF T
  <2> QED BY <1>4, <1>5, Induction
<1>7. Begins(k)
  BY <1>1, <1>6
<1> QED BY <1>2, <1>7

\* Where packet i + 1 stands in the file.
Placed(out, g, i) ==
  /\ Bytes(out[i + 1]) \in Seq(Nat) /\ Len(g[i]) \in Nat /\ Len(g[i + 1]) \in Nat
  /\ Len(g[i + 1]) = Len(g[i]) + Len(Bytes(out[i + 1]))
  /\ Len(g[i]) <= Len(g[i + 1]) /\ Len(g[i + 1]) <= Len(FileBytes(out))
  /\ \A j \in 1..Len(Bytes(out[i + 1])) :
       FileBytes(out)[Len(g[i]) + j] = Bytes(out[i + 1])[j]

LEMMA PacketAt ==
  ASSUME NEW out \in Seq(Packet), NEW g, Joining(out, g), NEW i \in Nat, i + 1 <= Len(out)
  PROVE  Placed(out, g, i)
<1>1. PICK m \in Nat : m = Len(out)
  OBVIOUS
<1>2. PICK a, b, c, f : a = g[i] /\ b = Bytes(out[i + 1]) /\ c = g[i + 1] /\ f = FileBytes(out)
  OBVIOUS
<1>3. a \in Seq(Nat) /\ b \in Seq(Nat) /\ c = a \o b
  <2>1. i + 1 \in 1..Len(out)
    BY <1>1
  <2>2. out[i + 1] \in Packet
    BY <2>1
  <2>3. b \in Seq(Nat)
    BY <1>2, <2>2, BytesFacts
  <2>4. a \in Seq(Nat) /\ c = a \o b
    BY <1>1, <1>2 DEF Joining
  <2> QED BY <2>3, <2>4
<1>4. c \in Seq(Nat) /\ Len(a) \in Nat /\ Len(b) \in Nat /\ Len(c) = Len(a) + Len(b)
  BY <1>3, ConcatProperties
<1>5. Len(c) <= Len(f) /\ \A j \in 1..Len(c) : f[j] = c[j]
  <2>1. f = g[m]
    BY <1>1, <1>2 DEF Joining
  <2>2. PICK e \in Nat : e = i + 1 /\ e <= m /\ m <= Len(out)
    BY <1>1
  <2>3. Len(g[e]) <= Len(g[m]) /\ \A j \in 1..Len(g[e]) : g[m][j] = g[e][j]
    BY <2>2, FilePrefix
  <2> QED BY <1>2, <2>1, <2>2, <2>3
<1>6. ASSUME NEW j \in 1..Len(b) PROVE f[Len(a) + j] = b[j]
  <2>1. PICK k \in Nat : k = Len(a) + j /\ k \in 1..(Len(a) + Len(b)) /\ ~(k <= Len(a))
                        /\ k - Len(a) = j
    <3>1. \A x, y \in Nat : \A z \in 1..y : /\ x + z \in Nat /\ x + z \in 1..(x + y)
                                          /\ ~(x + z <= x) /\ (x + z) - x = z
      OBVIOUS
    <3> QED BY <1>4, <3>1
  <2>2. c[k] = b[j]
    BY <1>3, <2>1, ConcatProperties
  <2>3. f[k] = c[k]
    BY <1>4, <1>5, <2>1
  <2> QED BY <2>1, <2>2, <2>3
<1>7. Len(a) <= Len(c)
  BY <1>4
<1>8. /\ b \in Seq(Nat) /\ Len(a) \in Nat /\ Len(c) \in Nat /\ Len(c) = Len(a) + Len(b)
      /\ Len(a) <= Len(c) /\ Len(c) <= Len(f)
      /\ \A j \in 1..Len(b) : f[Len(a) + j] = b[j]
  BY <1>3, <1>4, <1>5, <1>6, <1>7
<1> QED BY <1>2, <1>8, Zenon DEF Placed

\* d is what is there of a file f that was cut off.
Beginning(d, f) == d \in Seq(Nat) /\ Len(d) <= Len(f) /\ \A j \in 1..Len(d) : d[j] = f[j]

\* What is left of it when i packets have been read.
LeftAt(d, out, g, i) ==
  LET b == Bytes(out[i + 1])
      r == From(d, Len(g[i]) + 1)
  IN /\ r \in Seq(Nat) /\ Len(r) = Len(d) - Len(g[i])
     /\ Len(g[i + 1]) <= Len(d) => /\ From(d, Len(g[i + 1]) + 1) \in Seq(Nat)
                                   /\ r = b \o From(d, Len(g[i + 1]) + 1)
     /\ Len(g[i + 1]) > Len(d) => Len(r) < Len(b) /\ \A j \in 1..Len(r) : r[j] = b[j]

LEMMA RestAt ==
  ASSUME NEW out \in Seq(Packet), NEW g, Joining(out, g), NEW i \in Nat, i + 1 <= Len(out),
         NEW d, Beginning(d, FileBytes(out)), Len(g[i]) <= Len(d)
  PROVE  LeftAt(d, out, g, i)
<1>1. PICK b, r, u, v, f, n :
        /\ b = Bytes(out[i + 1]) /\ r = From(d, Len(g[i]) + 1) /\ n = Len(d)
        /\ u = Len(g[i]) /\ v = Len(g[i + 1]) /\ f = FileBytes(out)
  OBVIOUS
<1>2. /\ b \in Seq(Nat) /\ u \in Nat /\ v \in Nat /\ v = u + Len(b) /\ u <= v /\ v <= Len(f)
      /\ \A j \in 1..Len(b) : f[u + j] = b[j]
  <2>1. Placed(out, g, i)
    BY PacketAt
  <2> QED BY <1>1, <2>1, Zenon DEF Placed
<1>3. /\ n \in Nat /\ Len(b) \in Nat /\ u <= n /\ \A j \in 1..n : d[j] = f[j]
      /\ d \in Seq(Nat) /\ Len(d) = n
  BY <1>1, <1>2 DEF Beginning
<1>4. r \in Seq(Nat) /\ Len(r) = n - u /\ \A j \in 1..(n - u) : r[j] = d[u + j]
  <2>1. u \in 0..Len(d)
    BY <1>2, <1>3
  <2> QED BY <1>1, <1>3, <2>1, FromAfter
<1>5. \A j \in 1..(n - u) : j <= Len(b) => r[j] = b[j]
  <2> SUFFICES ASSUME NEW j \in 1..(n - u), j <= Len(b) PROVE r[j] = b[j]
    OBVIOUS
  <2>1. u \in Nat /\ n \in Nat /\ Len(b) \in Nat
    BY <1>2, <1>3
  <2>2. j \in 1..Len(b) /\ u + j \in 1..n
    BY <2>1
  <2> QED BY <1>2, <1>3, <1>4, <2>2
<1>6. CASE v <= n
  <2>1. PICK x : x = From(d, v + 1)
    OBVIOUS
  <2>2. x \in Seq(Nat) /\ Len(x) = n - v /\ \A j \in 1..(n - v) : x[j] = d[v + j]
    <3>1. v \in 0..Len(d)
      BY <1>2, <1>3, <1>6
    <3> QED BY <1>3, <2>1, <3>1, FromAfter
  <2>3. PICK y : y = b \o x
    OBVIOUS
  <2>4. /\ y \in Seq(Nat) /\ Len(y) = Len(b) + Len(x)
        /\ \A j \in 1..(Len(b) + Len(x)) : y[j] = IF j <= Len(b) THEN b[j] ELSE x[j - Len(b)]
    <3>1. b \in Seq(Nat) /\ x \in Seq(Nat)
      BY <1>2, <2>2
    <3> QED BY <2>3, <3>1, ConcatProperties
  <2>5. Len(y) = n - u /\ Len(b) + Len(x) = n - u
    BY <1>2, <1>3, <2>2, <2>4
  <2>6. ASSUME NEW j \in 1..(n - u) PROVE r[j] = y[j]
    <3>1. CASE j <= Len(b)
      BY <1>5, <2>4, <2>5, <3>1
    <3>2. CASE ~(j <= Len(b))
      <4>1. PICK k \in Nat : k = j - Len(b) /\ k \in 1..(n - v) /\ v + k = u + j
        <5>1. u \in Nat /\ n \in Nat /\ Len(b) \in Nat /\ v = u + Len(b)
          BY <1>2, <1>3
        <5>2. j - Len(b) \in Nat /\ j - Len(b) \in 1..(n - v) /\ v + (j - Len(b)) = u + j
          BY <3>2, <5>1
        <5> QED BY <5>2
      <4>2. x[k] = d[v + k] /\ r[j] = d[u + j]
        BY <1>4, <2>2, <4>1
      <4>3. y[j] = x[k]
        BY <2>4, <2>5, <3>2, <4>1
      <4> QED BY <4>1, <4>2, <4>3
    <3> QED BY <3>1, <3>2
  <2>7. r = y
    BY <1>4, <2>4, <2>5, <2>6, SeqEqual
  <2>8. ~(v > n)
    BY <1>2, <1>3, <1>6
  <2> QED BY <1>1, <1>4, <2>1, <2>2, <2>3, <2>7, <2>8 DEF LeftAt
<1>7. CASE v > n
  <2>1. Len(r) < Len(b) /\ \A j \in 1..Len(r) : r[j] = b[j]
    <3>1. n - u < Len(b) /\ \A j \in 1..(n - u) : j <= Len(b)
      BY <1>2, <1>3, <1>7
    <3> QED BY <1>4, <1>5, <3>1
  <2>2. ~(v <= n)
    BY <1>2, <1>3, <1>7
  <2> QED BY <1>1, <1>4, <1>7, <2>1, <2>2 DEF LeftAt
<1>8. v <= n \/ v > n
  BY <1>2, <1>3
<1> QED BY <1>6, <1>7, <1>8

\* The scan has read the first i packets and nothing else.
ReadSoFar(d, out, g, i) ==
  [rest |-> From(d, Len(g[i]) + 1), packets |-> SubSeq(out, 1, i), skipped |-> 0]

LEMMA FirstPackets ==
  ASSUME NEW out \in Seq(Packet), NEW i \in Nat, i <= Len(out)
  PROVE  /\ SubSeq(out, 1, i) \in Seq(Packet)
         /\ i + 1 <= Len(out) => SubSeq(out, 1, i + 1) = Append(SubSeq(out, 1, i), out[i + 1])
<1>1. PICK m \in Nat : m = Len(out)
  OBVIOUS
<1>2. SubSeq(out, 1, i) \in Seq(Packet)
  <2>1. 1 \in Int /\ i \in Int /\ \A j \in 1..i : out[j] \in Packet
    BY <1>1
  <2> QED BY <2>1, SubSeqProperties
<1>3. ASSUME i + 1 <= m PROVE SubSeq(out, 1, i + 1) = Append(SubSeq(out, 1, i), out[i + 1])
  <2>1. PICK n \in Nat, e \in Packet : n = i + 1 /\ e = out[n] /\ n - 1 = i
    BY <1>1, <1>3
  <2>2. 1 \in 1..Len(out) /\ n \in 1..Len(out)
    BY <1>1, <1>3, <2>1
  <2>3. SubSeq(out, 1, n) = SubSeq(out, 1, n - 1) \o <<out[n]>>
    BY <2>2, SubSeqRecursiveSecond
  <2>4. PICK s \in Seq(Packet) : s = SubSeq(out, 1, i)
    BY <1>2
  <2>5. s \o <<e>> = Append(s, e)
    BY AppendIsConcat
  <2> QED BY <2>1, <2>3, <2>4, <2>5
<1> QED BY <1>1, <1>2, <1>3

\* As long as the next packet is whole, it is read.
LEMMA ReadsWhole ==
  ASSUME NEW out \in Seq(Full), NEW g, Joining(out, g), NEW G, Scanning(G),
         NEW d, Beginning(d, FileBytes(out)), NEW k \in Nat, k <= Len(out),
         Len(g[k]) <= Len(d)
  PROVE  /\ ReadSoFar(d, out, g, k) \in Scans
         /\ ScanFile(d) = G[ReadSoFar(d, out, g, k)]
<1>1. PICK m \in Nat : m = Len(out)
  BY FullFacts
<1>2. out \in Seq(Packet) /\ \A i \in 1..m : out[i] \in Full /\ out[i] \in Packet
  BY <1>1, FullFacts
<1>3. /\ d \in Seq(Nat) /\ Len(d) \in Nat
      /\ \A i \in Nat : g[i] \in Seq(Nat) /\ Len(g[i]) \in Nat
  <2>1. d \in Seq(Nat) /\ \A i \in Nat : g[i] \in Seq(Nat)
    BY DEF Joining, Beginning
  <2> QED BY <2>1
<1> DEFINE S(i) == ReadSoFar(d, out, g, i)
           T == {i \in Nat : i <= m /\ Len(g[i]) <= Len(d) =>
                                S(i) \in Scans /\ ScanFile(d) = G[S(i)]}
<1>4. \A i \in Nat : i <= m /\ Len(g[i]) <= Len(d) => S(i) \in Scans
  <2> SUFFICES ASSUME NEW i \in Nat, i <= m, Len(g[i]) <= Len(d) PROVE S(i) \in Scans
    OBVIOUS
  <2>1. PICK u : u = Len(g[i]) + 1 /\ u \in 1..(Len(d) + 1)
    BY <1>3
  <2>2. From(d, u) \in Seq(Nat)
    BY <1>3, <2>1, FromFacts
  <2>3. SubSeq(out, 1, i) \in Seq(Packet)
    BY <1>1, <1>2, FirstPackets
  <2>4. 0 \in Nat
    OBVIOUS
  <2> QED BY <2>1, <2>2, <2>3, <2>4, ScansFacts DEF ReadSoFar
<1>5. 0 \in T
  <2>1. g[0] = <<>> /\ Len(g[0]) + 1 = 1
    BY DEF Joining
  <2>2. From(d, 1) = d
    BY <1>3, FromEnds
  <2>3. SubSeq(out, 1, 0) = <<>>
    <3>1. 1 \in Int /\ 0 \in Int /\ 0 < 1
      OBVIOUS
    <3> QED BY <3>1, SubSeqEmpty
  <2>4. S(0) = [rest |-> d, packets |-> <<>>, skipped |-> 0]
    BY <2>1, <2>2, <2>3 DEF ReadSoFar
  <2>5. ScanFile(d) = G[S(0)]
    BY <1>3, <2>4 DEF Scanning
  <2> QED BY <1>4, <2>5
<1>6. ASSUME NEW i \in Nat, i \in T PROVE i + 1 \in T
  <2> SUFFICES ASSUME i + 1 <= m, Len(g[i + 1]) <= Len(d) PROVE ScanFile(d) = G[S(i + 1)]
    BY <1>4
  <2>1. i + 1 <= Len(out) /\ i + 1 \in 1..m /\ i <= m
    BY <1>1
  <2>2. PICK p \in Full : p = out[i + 1] /\ p \in Packet
    BY <1>2, <2>1
  <2>3. Len(g[i]) <= Len(d)
    <3>1. Len(g[i]) <= Len(g[i + 1])
      BY <1>2, <2>1, PacketAt DEF Placed
    <3> QED BY <1>3, <3>1
  <2>4. S(i) \in Scans /\ ScanFile(d) = G[S(i)]
    BY <1>6, <2>1, <2>3
  <2>5. PICK r, x : r = From(d, Len(g[i]) + 1) /\ x = From(d, Len(g[i + 1]) + 1)
    OBVIOUS
  <2>6. x \in Seq(Nat) /\ r = Bytes(p) \o x
    <3>1. /\ From(d, Len(g[i + 1]) + 1) \in Seq(Nat)
          /\ From(d, Len(g[i]) + 1) = Bytes(out[i + 1]) \o From(d, Len(g[i + 1]) + 1)
      <4>1. LeftAt(d, out, g, i)
        BY <1>2, <2>1, <2>3, RestAt
      <4> QED BY <4>1 DEF LeftAt
    <3> QED BY <2>2, <2>5, <3>1
  <2>7. PICK s, q : s = S(i) /\ q = SubSeq(out, 1, i)
    OBVIOUS
  <2>8. s.rest = r /\ s.packets = q /\ s.skipped = 0
    BY <2>5, <2>7 DEF ReadSoFar
  <2>9. G[s] = G[[rest |-> x, packets |-> Append(q, p), skipped |-> 0]]
    <3>1. s \in Scans /\ s.rest = Bytes(p) \o x
      BY <2>4, <2>6, <2>7, <2>8
    <3>2. G[s] = G[[rest |-> x, packets |-> Append(s.packets, p), skipped |-> s.skipped]]
      BY <2>6, <3>1, ScanWhole
    <3> QED BY <2>8, <3>2
  <2>10. SubSeq(out, 1, i + 1) = Append(q, p)
    BY <1>1, <1>2, <2>1, <2>2, <2>7, FirstPackets
  <2>11. S(i + 1) = [rest |-> x, packets |-> Append(q, p), skipped |-> 0]
    BY <2>5, <2>10 DEF ReadSoFar
  <2> QED BY <2>4, <2>7, <2>9, <2>11
<1>7. \A i \in Nat : i \in T
  <2> HIDE DEF T
  <2> QED BY <1>5, <1>6, Induction
<1> QED BY <1>1, <1>7

\* A file cut off after n bytes, k of its packets being whole.
LEMMA ReadsBack ==
  ASSUME NEW out \in Seq(Full), NEW g, Joining(out, g),
         NEW n \in 0..Len(FileBytes(out)), NEW k \in Nat, k <= Len(out), Len(g[k]) <= n,
         k + 1 <= Len(out) => n < Len(g[k + 1])
  PROVE  ScanFile(SubSeq(FileBytes(out), 1, n)) =
           [rest |-> <<>>, packets |-> SubSeq(out, 1, k), skipped |-> n - Len(g[k])]
<1>1. PICK m \in Nat : m = Len(out)
  BY FullFacts
<1>2. out \in Seq(Packet) /\ \A i \in 1..m : out[i] \in Full /\ out[i] \in Packet
  BY <1>1, FullFacts
<1>3. PICK f \in Seq(Nat) : f = FileBytes(out) /\ f = g[m]
  BY <1>1 DEF Joining
<1>4. n \in Nat /\ n <= Len(f) /\ Len(f) \in Nat /\ g[k] \in Seq(Nat) /\ Len(g[k]) \in Nat
  <2>1. g[k] \in Seq(Nat)
    BY DEF Joining
  <2> QED BY <1>3, <2>1
<1>5. PICK d \in Seq(Nat) : /\ d = SubSeq(f, 1, n) /\ Len(d) = n
                            /\ \A j \in 1..n : d[j] = f[j]
  <2>1. 1 \in Int /\ n \in Int /\ \A j \in 1..n : f[j] \in Nat
    BY <1>3, <1>4
  <2>2. /\ SubSeq(f, 1, n) \in Seq(Nat)
        /\ Len(SubSeq(f, 1, n)) = IF 1 <= n THEN n - 1 + 1 ELSE 0
        /\ \A j \in 1..(n - 1 + 1) : SubSeq(f, 1, n)[j] = f[1 + j - 1]
    BY <2>1, SubSeqProperties
  <2>3. n - 1 + 1 = n /\ (~(1 <= n) => n = 0) /\ \A j \in 1..n : 1 + j - 1 = j
    BY <1>4
  <2> QED BY <2>2, <2>3
<1>6. Beginning(d, FileBytes(out)) /\ Len(g[k]) <= Len(d)
  BY <1>3, <1>4, <1>5 DEF Beginning
<1>7. PICK G : Scanning(G)
  BY ScanningExists
<1>8. PICK s : s = ReadSoFar(d, out, g, k)
  OBVIOUS
<1>9. s \in Scans /\ ScanFile(d) = G[s]
  <2>1. ReadSoFar(d, out, g, k) \in Scans /\ ScanFile(d) = G[ReadSoFar(d, out, g, k)]
    BY <1>7, <1>6, ReadsWhole
  <2> QED BY <1>8, <2>1
<1>10. s.rest = From(d, Len(g[k]) + 1) /\ s.packets = SubSeq(out, 1, k) /\ s.skipped = 0
  BY <1>8 DEF ReadSoFar
<1>11. Len(s.rest) = n - Len(g[k])
  <2>1. PICK u : u = Len(g[k]) + 1 /\ u \in 1..(Len(d) + 1) /\ Len(d) - u + 1 = n - Len(g[k])
    <3>1. \A v \in Nat : v <= n => v + 1 \in 1..(n + 1) /\ n - (v + 1) + 1 = n - v
      BY <1>4
    <3> QED BY <1>4, <1>5, <3>1
  <2>2. Len(From(d, u)) = Len(d) - u + 1
    BY <2>1, FromFacts
  <2> QED BY <1>10, <2>1, <2>2
<1>12. Ended(G, s)
  <2>1. CASE k + 1 <= m
    <3>1. k + 1 <= Len(out)
      BY <1>1, <2>1
    <3>2. PICK p \in Full : p = out[k + 1]
      <4>1. k + 1 \in 1..m
        BY <2>1
      <4> QED BY <1>2, <4>1
    <3>3. Len(g[k + 1]) > n
      <4>1. Len(g[k + 1]) \in Nat /\ n < Len(g[k + 1])
        BY <1>1, <1>2, <2>1, PacketAt DEF Placed
      <4> QED BY <1>4, <4>1
    <3>4. LET r == From(d, Len(g[k]) + 1)
          IN Len(r) < Len(Bytes(out[k + 1])) /\ \A j \in 1..Len(r) : r[j] = Bytes(out[k + 1])[j]
      <4>1. LeftAt(d, out, g, k)
        BY <1>2, <1>6, <3>1, RestAt
      <4> QED BY <1>5, <3>3, <4>1 DEF LeftAt
    <3>5. Len(s.rest) < Len(Bytes(p)) /\ \A j \in 1..Len(s.rest) : s.rest[j] = Bytes(p)[j]
      BY <1>10, <3>2, <3>4
    <3> QED BY <1>7, <1>9, <3>5, ScanPart
  <2>2. CASE ~(k + 1 <= m)
    <3>1. k = m
      BY <1>1, <2>2
    <3>2. Len(s.rest) = 0
      BY <1>3, <1>4, <1>11, <3>1
    <3>3. s.rest = <<>>
      BY <1>9, <3>2, ScansFacts
    <3> QED BY <1>7, <1>9, <3>3, ScanEmpty
  <2> QED BY <2>1, <2>2
<1>13. 0 + (n - Len(g[k])) = n - Len(g[k])
  BY <1>4
<1> QED BY <1>3, <1>5, <1>9, <1>10, <1>11, <1>12, <1>13 DEF Ended

\* A greatest number of packets fits into n bytes.
LEMMA GreatestIn ==
  ASSUME NEW m \in Nat, NEW W \in SUBSET (0..m), 0 \in W
  PROVE  \E k \in W : \A y \in W : y <= k
<1> DEFINE Above == {j \in 0..m : \A y \in W : y <= j}
<1>1. m \in Above /\ Above \in SUBSET Nat
  OBVIOUS
<1>2. PICK k \in Above : \A y \in Above : k <= y
  <2>1. Above # {}
    BY <1>1
  <2> HIDE DEF Above
  <2> QED BY <1>1, <2>1, LeastNumber
<1>3. k \in 0..m /\ \A y \in W : y <= k
  OBVIOUS
<1>4. k \in W
  <2> SUFFICES ASSUME k \notin W PROVE FALSE
    OBVIOUS
  <2>1. k # 0
    OBVIOUS
  <2>2. k - 1 \in 0..m
    BY <1>3, <2>1
  <2>3. \A y \in W : y <= k - 1
    BY <1>3
  <2>4. k - 1 \in Above
    BY <2>2, <2>3
  <2> QED BY <1>2, <1>3, <2>4
<1> QED BY <1>3, <1>4

LEMMA CutOff ==
  ASSUME NEW out \in Seq(Full), NEW n \in 0..Len(FileBytes(out))
  PROVE  LET End(k) == Len(FileBytes(SubSeq(out, 1, k)))
             whole == {k \in 0..Len(out) : End(k) <= n}
             k == CHOOSE x \in whole : \A y \in whole : y <= x
         IN ScanFile(SubSeq(FileBytes(out), 1, n)) =
              [rest |-> <<>>, packets |-> SubSeq(out, 1, k), skipped |-> n - End(k)]
<1> DEFINE End(k) == Len(FileBytes(SubSeq(out, 1, k)))
           whole == {k \in 0..Len(out) : End(k) <= n}
           k == CHOOSE x \in whole : \A y \in whole : y <= x
<1>1. PICK m \in Nat : m = Len(out)
  BY FullFacts
<1>2. out \in Seq(Packet)
  BY FullFacts
<1>3. PICK g : Joining(out, g)
  BY <1>2, JoiningExists
<1>4. \A i \in 0..m : End(i) = Len(g[i])
  BY <1>1, <1>2, <1>3, FileParts
<1>5. n \in Nat /\ g[0] = <<>> /\ \A i \in Nat : g[i] \in Seq(Nat)
  BY <1>3 DEF Joining
<1>6. whole = {i \in 0..m : Len(g[i]) <= n}
  BY <1>1, <1>4
<1>7. 0 \in whole /\ whole \in SUBSET (0..m)
  <2>1. Len(g[0]) = 0 /\ 0 \in 0..m
    BY <1>5
  <2> QED BY <1>5, <1>6, <2>1
<1> HIDE DEF whole
<1>8. \E x \in whole : \A y \in whole : y <= x
  BY <1>7, GreatestIn
<1>9. k \in whole /\ \A y \in whole : y <= k
  BY <1>8
<1> HIDE DEF k
<1>10. k \in Nat /\ k <= m /\ Len(g[k]) <= n /\ k \in 0..m
  BY <1>6, <1>9
<1>11. k + 1 <= m => n < Len(g[k + 1])
  <2> SUFFICES ASSUME k + 1 <= m, ~(n < Len(g[k + 1])) PROVE FALSE
    OBVIOUS
  <2>1. Len(g[k + 1]) \in Nat
    BY <1>5, <1>10
  <2>2. k + 1 \in whole
    BY <1>5, <1>6, <1>10, <2>1
  <2> QED BY <1>9, <1>10, <2>2
<1>12. ScanFile(SubSeq(FileBytes(out), 1, n)) =
         [rest |-> <<>>, packets |-> SubSeq(out, 1, k), skipped |-> n - Len(g[k])]
  BY <1>1, <1>3, <1>10, <1>11, ReadsBack
<1>13. End(k) = Len(g[k])
  BY <1>4, <1>10
<1> QED BY <1>12, <1>13 DEF k, whole

\* Only packets of a plausible length are sent and taken.
FullPackets ==
  /\ \A i \in 1..Len(sent) : Len(sent[i].packet.payload) \in 1..MaxSamples
  /\ link.out \in Seq(Full)

LEMMA AlwaysFull == Spec => []FullPackets
<1>1. Init => FullPackets
  BY DEF Init, NoLink, FullPackets
<1>2. ASSUME DeviceTypes, LinkTypes, FullPackets, [Next]_vars PROVE FullPackets'
  <2> DEFINE K == {l \in Links : l.out \in Seq(Full)}
             SentFull == \A i \in 1..Len(sent) : Len(sent[i].packet.payload) \in 1..MaxSamples
  <2>1. link \in K
    BY <1>2 DEF LinkTypes, FullPackets
  <2>2. \A l \in K, n \in Nat : Skip(l, n) \in K
    BY SkipFacts
  <2>3. \A l \in K, p \in Full : Accept(l, p) \in K
    <3> SUFFICES ASSUME NEW l \in K, NEW p \in Full PROVE Accept(l, p) \in K
      OBVIOUS
    <3>1. p \in Packet /\ l \in Links /\ l.out \in Seq(Full)
      BY DEF Full
    <3>2. Accept(l, p) \in Links /\ Accept(l, p).out = Append(l.out, p)
      BY <3>1, AcceptFacts
    <3> QED BY <3>1, <3>2
  <2>4. NoLink \in K
    <3>1. NoLink.out = <<>> /\ <<>> \in Seq(Full)
      BY DEF NoLink
    <3> QED BY <3>1, CuttingsFacts
  <2>5. SentFull'
    <3>1. CASE UNCHANGED sent
      BY <1>2, <3>1 DEF FullPackets
    <3>2. ASSUME NEW p \in Payloads, Send(p) PROVE SentFull'
      <4>1. Len(p) \in 1..MaxSamples
        BY StreamAssumption
      <4>2. PICK e : sent' = Append(sent, e) /\ e.packet.payload = p
        BY <3>2 DEF Send
      <4>3. sent \in Seq(Record) /\ Len(sent) \in Nat
        BY <1>2 DEF DeviceTypes
      <4>4. /\ Len(sent') = Len(sent) + 1 /\ sent'[Len(sent) + 1] = e
            /\ \A i \in 1..Len(sent) : sent'[i] = sent[i]
        BY <4>2, <4>3
      <4>5. ASSUME NEW i \in 1..Len(sent') PROVE Len(sent'[i].packet.payload) \in 1..MaxSamples
        <5>1. CASE i = Len(sent) + 1
          BY <4>1, <4>2, <4>4, <5>1
        <5>2. CASE i # Len(sent) + 1
          <6>1. i \in 1..Len(sent)
            BY <4>3, <4>4, <5>2
          <6> QED BY <1>2, <4>4, <6>1 DEF FullPackets
        <5> QED BY <5>1, <5>2
      <4> QED BY <4>5
    <3>3. UNCHANGED sent \/ \E p \in Payloads : Send(p)
      BY <1>2 DEF Next, Put, vars, reading, Restart, Read, Flush, LoseCells, Receive, ReceiveJunk, Drain
    <3> QED BY <3>1, <3>2, <3>3
  <2> HIDE DEF K, SentFull
  <2>6. link' \in K
    <3>1. CASE link' = link
      BY <2>1, <3>1
    <3>2. CASE link' = NoLink
      BY <2>4, <3>2
    <3>3. ASSUME NEW n \in 1..Len(wire), Read(n) PROVE link' \in K
      <4>1. PICK b : b = buf \o SubSeq(wire, 1, n) /\ link' = Extract(b, link).link
        BY <3>3 DEF Read
      <4>2. b \in Seq(Nat)
        <5>1. wire \in Seq(Nat) /\ n + 1 \in 1..(Len(wire) + 1) /\ (n + 1) - 1 = n
              /\ buf \in Seq(Nat)
          BY <1>2 DEF LinkTypes
        <5>2. SubSeq(wire, 1, n) \in Seq(Nat)
          BY <5>1, FromTyped
        <5> QED BY <4>1, <5>1, <5>2
      <4>3. K \in SUBSET Links
        BY DEF K
      <4>4. Extract(b, link).link \in K
        BY <2>1, <2>2, <2>3, <4>2, <4>3, LinkKeeps
      <4> QED BY <4>1, <4>4
    <3>4. ASSUME NEW i \in 1..Len(sent), Receive(i) PROVE link' \in K
      <4>1. link' = Accept(link, sent[i].packet)
        BY <1>2, <3>4, Received
      <4>2. sent[i].packet \in Full
        BY <1>2, SentFacts DEF Full, FullPackets
      <4> QED BY <2>1, <2>3, <4>1, <4>2
    <3>5. ASSUME NEW d \in Junk, ReceiveJunk(d) PROVE link' \in K
      <4>1. Len(d) \in Nat
        BY StreamAssumption
      <4> QED BY <2>1, <2>2, <3>5, <4>1 DEF ReceiveJunk
    <3>6. \/ link' = link \/ link' = NoLink
          \/ \E n \in 1..Len(wire) : Read(n)
          \/ \E i \in 1..Len(sent) : Receive(i)
          \/ \E d \in Junk : ReceiveJunk(d)
      BY <1>2 DEF Next, Put, vars, reading, Send, Restart, Flush, LoseCells, Drain, NewRun
    <3> QED BY <3>1, <3>2, <3>3, <3>4, <3>5, <3>6
  <2> QED BY <2>5, <2>6 DEF K, SentFull, FullPackets
<1> QED BY <1>1, <1>2, StreamTypes, PTL DEF Spec

\* So are those in the file.
FullFile == put \in Nat /\ file \in Seq(Full)

LEMMA AlwaysFullFile == Spec => []FullFile
<1>1. Init => FullFile
  BY DEF Init, FullFile
<1>2. ASSUME FullPackets, FullFile, [Next]_vars PROVE FullFile'
  <2>1. CASE UNCHANGED feed
    BY <1>2, <2>1 DEF FullFile, feed
  <2>2. CASE NewRun
    BY <2>2 DEF FullFile, NewRun
  <2>3. ASSUME NEW now, NEW full \in BOOLEAN, Put(now, full) PROVE FullFile'
    <3>1. PICK out \in Seq(Full), f \in Seq(Full) : out = link.out /\ f = file
      BY <1>2 DEF FullPackets, FullFile
    <3>2. /\ put < Len(out) /\ put' = put + 1 /\ put \in Nat
          /\ file' = IF now = "on" /\ ~full THEN Append(f, out[put + 1]) ELSE f
      BY <1>2, <2>3, <3>1 DEF Put, FullFile
    <3>3. put + 1 \in 1..Len(out) /\ put' \in Nat
      BY <3>2
    <3>4. out[put + 1] \in Full
      BY <3>3
    <3>5. Append(f, out[put + 1]) \in Seq(Full)
      BY <3>4
    <3> QED BY <3>2, <3>3, <3>5 DEF FullFile
  <2>4. \/ UNCHANGED feed \/ NewRun
        \/ \E now \in {"off", "on", "over"}, full \in BOOLEAN : Put(now, full)
    BY <1>2 DEF Next, vars, feed, Send, Restart, Read, Flush, LoseCells, Receive, ReceiveJunk,
                Drain
  <2> QED BY <2>1, <2>2, <2>3, <2>4
<1> QED BY <1>1, <1>2, AlwaysFull, PTL DEF Spec

\* A .bin that was cut off anywhere gives every packet that is whole, and what is passed over is
\* just the rest.
THEOREM CutFilesReadBack == Spec => []CutFileReadsBack
<1>1. FullFile => CutFileReadsBack
  BY CutOff DEF FullFile, CutFileReadsBack
<1> QED BY <1>1, AlwaysFullFile, PTL

-----------------------------------------------------------------------------
(* A stream without damage *)

Quiet(b) == \A j \in 1..Len(b) : ~MagicAt(b, j)

\* Boot logs are text in which the magic ("3SII" on the line) does not stand, nor where one
\* follows another.
QuietLogs == \A a, b \in BootLogs : Quiet(a \o b)

LEMMA ExtractShort ==
  ASSUME NEW t \in Seq(Nat), Len(t) <= 1, NEW l \in Links
  PROVE  Extract(t, l) = [buf |-> t, link |-> l]
<1>1. FindMagic(t) = 0
  <2>1. \A j \in 1..Len(t) : ~MagicAt(t, j)
    BY DEF MagicAt
  <2> QED BY <2>1, FindMagicNone
<1>2. KeepTail(t) = t /\ Len(t) - Len(KeepTail(t)) = 0
  <2>1. KeepTail(t) = t
    BY KeepTailFacts
  <2> QED BY <2>1
<1>3. Cut([buf |-> t, link |-> l]) = [buf |-> t, link |-> Skip(l, 0)]
  BY <1>1, <1>2, CutCases
<1>4. Skip(l, 0) = l
  BY SkipFacts
<1>5. PICK s \in Cuttings : s = [buf |-> t, link |-> l] /\ Run(s) = Extract(t, l)
  BY RunOf
<1> QED BY <1>3, <1>4, <1>5, ExtractTurn

\* Bytes without a magic are passed over but for the last one.
LEMMA ExtractQuiet ==
  ASSUME NEW b \in Seq(Nat), NEW l \in Links, Quiet(b)
  PROVE  /\ Extract(b, l) = [buf |-> KeepTail(b), link |-> Skip(l, Len(b) - Len(KeepTail(b)))]
         /\ KeepTail(b) \in Seq(Nat) /\ Len(KeepTail(b)) <= 1
         /\ Len(b) - Len(KeepTail(b)) \in Nat
<1>1. PICK t, n, k : t = KeepTail(b) /\ n = Len(b) - Len(t) /\ k = Skip(l, n)
  OBVIOUS
<1>2. t \in Seq(Nat) /\ Len(t) <= 1 /\ n \in Nat
  <2>1. /\ t \in Seq(Nat) /\ (Len(b) <= 1 => t = b) /\ (Len(b) > 1 => Len(t) = 1)
    BY <1>1, KeepTailFacts
  <2>2. Len(b) \in Nat /\ Len(t) \in Nat
    BY <2>1
  <2>3. Len(t) <= Len(b) /\ Len(t) <= 1
    <3>1. CASE Len(b) <= 1
      BY <2>1, <2>2, <3>1
    <3>2. CASE Len(b) > 1
      <4>1. Len(t) = 1
        BY <2>1, <3>2
      <4> QED BY <2>2, <3>2, <4>1
    <3> QED BY <2>2, <3>1, <3>2
  <2>4. \A x, y \in Nat : x <= y => y - x \in Nat
    OBVIOUS
  <2> QED BY <1>1, <2>1, <2>2, <2>4, <2>3
<1>3. k \in Links
  BY <1>1, <1>2, SkipFacts
<1>4. FindMagic(b) = 0
  BY FindMagicNone DEF Quiet
<1>5. Extract(b, l) = Extract(t, k)
  BY <1>1, <1>4, ExtractNone
<1>6. Extract(t, k) = [buf |-> t, link |-> k]
  BY <1>2, <1>3, ExtractShort
<1> QED BY <1>1, <1>2, <1>5, <1>6

\* A packet comes out whole, the byte kept before it is passed over.
LEMMA ExtractPacket ==
  ASSUME NEW t \in Seq(Nat), Len(t) <= 1, NEW l \in Links, NEW p \in Full
  PROVE  Extract(t \o Bytes(p), l) = [buf |-> <<>>, link |-> Accept(Skip(l, Len(t)), p)]
<1>1. PICK d \in Seq(Nat) : d = Bytes(p) /\ Bytes(p) \o <<>> = d
  <2>1. p \in Packet
    BY DEF Full
  <2>2. Bytes(p) \in Seq(Nat)
    BY <2>1, BytesFacts
  <2> QED BY <2>2, ConcatEmptySeq
<1>2. PICK h : h = Header(d)
  OBVIOUS
<1>3. PICK e \in Seq(Nat) : e = <<>> /\ Len(e) <= 1
  <2>1. <<>> \in Seq(Nat) /\ Len(<<>>) <= 1
    OBVIOUS
  <2> QED BY <2>1
<1>4. /\ FindMagic(d) = 1 /\ Total(h) = Len(d) /\ PacketOf(d, h) = p
      /\ From(d, Total(h) + 1) = e
      /\ h = [version |-> p.version, count |-> Len(p.payload), seq |-> p.seq,
              size |-> HeaderSize(p.version)]
  <2>1. p \in Packet
    BY DEF Full
  <2>2. Bytes(p) \o e = d
    BY <1>1, <1>3
  <2>3. /\ FindMagic(Bytes(p) \o e) = 1
        /\ Total(Header(Bytes(p) \o e)) = Len(Bytes(p))
        /\ PacketOf(Bytes(p) \o e, Header(Bytes(p) \o e)) = p
        /\ From(Bytes(p) \o e, Total(Header(Bytes(p) \o e)) + 1) = e
        /\ Header(Bytes(p) \o e) = [version |-> p.version, count |-> Len(p.payload),
                                    seq |-> p.seq, size |-> HeaderSize(p.version)]
    BY <1>3, <2>1, RoundTrip
  <2> QED BY <1>1, <1>2, <2>2, <2>3
<1>5. Plausible(h)
  <2>1. h.count = Len(p.payload)
    BY <1>4
  <2>2. Len(p.payload) \in 1..MaxSamples /\ MaxSamples \in Nat
    BY StreamAssumption DEF Full
  <2> QED BY <2>1, <2>2 DEF Plausible
<1>6. Len(d) \in Nat /\ Len(d) > 1
  BY <1>4, FindMagicFacts
<1>7. ASSUME NEW k \in Links PROVE Extract(d, k) = [buf |-> <<>>, link |-> Accept(k, p)]
  <2>1. PICK j \in Links : j = Accept(k, p)
    BY AcceptFacts DEF Full
  <2>2. Total(h) <= Len(d) /\ e = Rest(d, h)
    BY <1>4, <1>6 DEF Rest
  <2>3. Extract(d, k) = Extract(e, j)
    <3>1. j = Accept(k, PacketOf(d, h)) /\ Header(d) = h /\ FindMagic(d) = 1
      BY <1>2, <1>4, <2>1
    <3> QED BY <1>5, <2>2, <3>1, ExtractTakes
  <2>4. Extract(e, j) = [buf |-> e, link |-> j]
    BY <1>3, ExtractShort
  <2> QED BY <1>3, <2>1, <2>3, <2>4
<1>8. CASE Len(t) = 0
  <2>1. t = <<>>
    BY <1>8
  <2>2. t \o Bytes(p) = d
    BY <1>1, <2>1, ConcatEmptySeq
  <2>3. Skip(l, Len(t)) = l
    BY <1>8, SkipFacts
  <2> QED BY <1>7, <2>2, <2>3
<1>9. CASE Len(t) = 1
  <2>1. PICK w : w = t \o d
    OBVIOUS
  <2>2. /\ w \in Seq(Nat) /\ Len(w) = 1 + Len(d)
        /\ \A j \in 1..Len(d) : w[1 + j] = d[j]
    <3>1. w \in Seq(Nat) /\ Len(w) = 1 + Len(d)
      BY <1>9, <2>1, ConcatProperties
    <3>2. \A j \in 1..(Len(t) + Len(d)) : w[j] = IF j <= Len(t) THEN t[j] ELSE d[j - Len(t)]
      BY <2>1, ConcatProperties
    <3>3. ASSUME NEW j \in 1..Len(d) PROVE w[1 + j] = d[j]
      <4>1. 1 + j \in 1..(Len(t) + Len(d)) /\ ~(1 + j <= Len(t)) /\ (1 + j) - Len(t) = j
        BY <1>6, <1>9
      <4> QED BY <3>2, <4>1
    <3> QED BY <3>1, <3>3
  <2>3. d[1] = Magic[1] /\ d[2] = Magic[2]
    <3>1. MagicAt(d, 1)
      BY <1>4, FindMagicFacts
    <3> QED BY <3>1 DEF MagicAt
  <2>4. MagicAt(w, 2)
    <3>1. w[2] = d[1] /\ w[3] = d[2]
      <4>1. 1 \in 1..Len(d) /\ 2 \in 1..Len(d)
        BY <1>6
      <4>2. w[1 + 1] = d[1] /\ w[1 + 2] = d[2]
        BY <2>2, <4>1
      <4> QED BY <4>2
    <3> QED BY <1>6, <2>2, <2>3, <3>1 DEF MagicAt
  <2>5. ~MagicAt(w, 1)
    <3>1. w[2] = d[1]
      <4>1. 1 \in 1..Len(d)
        BY <1>6
      <4>2. w[1 + 1] = d[1]
        BY <2>2, <4>1
      <4> QED BY <4>2
    <3> QED BY <2>3, <3>1 DEF MagicAt, Magic
  <2>6. FindMagic(w) = 2
    <3>1. 2 \in 1..Len(w) /\ \A j \in 1..(2 - 1) : ~MagicAt(w, j)
      BY <1>6, <2>2, <2>5
    <3> QED BY <2>2, <2>4, <3>1, FindMagicIs
  <2>7. From(w, 2) = d
    <3>1. From(w, 2) = From(t, 2) \o d
      <4>1. 2 \in 1..(Len(t) + 1)
        BY <1>9
      <4> QED BY <2>1, <4>1, FromConcat
    <3>2. From(t, Len(t) + 1) = <<>>
      BY FromEnds
    <3>3. From(t, 2) = <<>>
      BY <1>9, <3>2
    <3> QED BY <3>1, <3>3, ConcatEmptySeq
  <2>8. Extract(w, l) = Extract(d, Skip(l, 1))
    <3>1. FindMagic(w) > 1 /\ FindMagic(w) - 1 = 1
      BY <2>6
    <3>2. Extract(w, l) = Extract(From(w, FindMagic(w)), Skip(l, FindMagic(w) - 1))
      BY <2>2, <3>1, ExtractSkips
    <3> QED BY <2>6, <2>7, <3>1, <3>2
  <2>9. Skip(l, 1) \in Links
    BY SkipFacts
  <2> QED BY <1>1, <1>7, <1>9, <2>1, <2>8, <2>9
<1>10. Len(t) = 0 \/ Len(t) = 1
  <2>1. PICK n \in Nat : n = Len(t) /\ n <= 1
    OBVIOUS
  <2>2. n = 0 \/ n = 1
    BY <2>1
  <2> QED BY <2>1, <2>2
<1> QED BY <1>8, <1>9, <1>10

LEMMA LastCell ==
  ASSUME NEW b \in Seq(Nat), b # <<>>
  PROVE  From(b, Len(b)) = <<b[Len(b)]>> /\ Len(b) \in 1..Len(b) /\ b[Len(b)] \in Nat
<1>1. PICK n \in Nat : n = Len(b) /\ n > 0
  <2>1. Len(b) \in Nat /\ (Len(b) = 0 => b = <<>>)
    OBVIOUS
  <2> QED BY <2>1
<1>2. b[n] \in Nat /\ n \in 1..(Len(b) + 1)
  BY <1>1
<1>3. PICK r, c : r = From(b, n) /\ c = <<b[n]>>
  OBVIOUS
<1>4. r \in Seq(Nat) /\ Len(r) = n - n + 1 /\ \A j \in 1..(n - n + 1) : r[j] = b[n + j - 1]
  BY <1>1, <1>2, <1>3, FromFacts
<1>5. n - n + 1 = 1 /\ n + 1 - 1 = n
  BY <1>1
<1>6. Len(r) = 1 /\ r[1] = b[n]
  BY <1>4, <1>5
<1>7. c \in Seq(Nat) /\ Len(c) = 1 /\ c[1] = b[n]
  BY <1>2, <1>3
<1>8. \A j \in 1..1 : r[j] = c[j]
  BY <1>6, <1>7
<1>9. r = c
  BY <1>4, <1>6, <1>7, <1>8, SeqEqual
<1> QED BY <1>1, <1>2, <1>3, <1>9

LEMMA QuietRest ==
  ASSUME NEW b \in Seq(Nat), Quiet(b), NEW i \in 1..(Len(b) + 1)
  PROVE  Quiet(From(b, i))
<1> SUFFICES ASSUME NEW j \in 1..Len(From(b, i)) PROVE ~MagicAt(From(b, i), j)
  BY DEF Quiet
<1>1. Len(From(b, i)) = Len(b) - i + 1
  BY FromFacts
<1>2. MagicAt(From(b, i), j) = MagicAt(b, i + j - 1)
  BY <1>1, MagicInRest
<1>3. i + j - 1 \in 1..Len(b)
  BY <1>1
<1> QED BY <1>2, <1>3 DEF Quiet

\* What the loop may keep of boot logs: nothing, or the last byte of one.
LogEnd(b) == b = <<>> \/ \E a \in BootLogs : a # <<>> /\ b = <<a[Len(a)]>>

LEMMA LogEndFacts ==
  ASSUME NEW b, LogEnd(b)
  PROVE  b \in Seq(Nat) /\ Len(b) <= 1
<1>1. CASE b = <<>>
  BY <1>1
<1>2. ASSUME NEW a \in BootLogs, a # <<>>, b = <<a[Len(a)]>> PROVE b \in Seq(Nat) /\ Len(b) <= 1
  <2>1. a \in Seq(Nat)
    BY StreamAssumption
  <2>2. a[Len(a)] \in Nat
    BY <1>2, <2>1, LastCell
  <2> QED BY <1>2, <2>2
<1> QED BY <1>1, <1>2 DEF LogEnd

\* A byte kept of a sequence that ends as a boot log does.
LEMMA KeepsLogEnd ==
  ASSUME NEW x \in Seq(Nat), NEW a \in BootLogs, a # <<>>, x # <<>>, x[Len(x)] = a[Len(a)]
  PROVE  LogEnd(KeepTail(x))
<1>1. From(x, Len(x)) = <<a[Len(a)]>>
  BY LastCell
<1>2. KeepTail(x) = From(x, Len(x))
  <2>1. CASE Len(x) > 1
    BY <2>1, KeepTailFacts
  <2>2. CASE Len(x) = 1
    <3>1. KeepTail(x) = x
      <4>1. Len(x) <= 1
        BY <2>2
      <4> QED BY <4>1, KeepTailFacts
    <3>2. From(x, 1) = x
      BY FromEnds
    <3> QED BY <2>2, <3>1, <3>2
  <2>3. Len(x) > 1 \/ Len(x) = 1
    <3>1. Len(x) \in 1..Len(x)
      BY LastCell
    <3>2. PICK n \in Nat : n = Len(x) /\ n \in 1..n
      BY <3>1
    <3>3. n > 1 \/ n = 1
      BY <3>2
    <3> QED BY <3>2, <3>3
  <2> QED BY <2>1, <2>2, <2>3
<1> QED BY <1>1, <1>2 DEF LogEnd

\* The rest of a boot log with which a stream begins.
LEMMA LogRest ==
  ASSUME QuietLogs, NEW log \in Logs, NEW i \in 1..(Len(log) + 1)
  PROVE  /\ From(log, i) \in Seq(Nat) /\ Quiet(From(log, i))
         /\ LogEnd(KeepTail(From(log, i))) /\ Len(From(log, i)) <= Len(log)
<1>1. PICK n \in Nat : n = Len(log) /\ log \in Seq(Nat)
  BY LogFacts
<1>2. PICK x : x = From(log, i)
  OBVIOUS
<1>3. /\ x \in Seq(Nat) /\ Len(x) = n - i + 1
      /\ \A j \in 1..(n - i + 1) : x[j] = log[i + j - 1]
  BY <1>1, <1>2, FromFacts
<1>4. Len(x) <= n
  BY <1>1, <1>3
<1>5. Quiet(log)
  <2>1. CASE log = <<>>
    BY <2>1 DEF Quiet
  <2>2. CASE log \in BootLogs
    <3>1. Quiet(log \o log)
      BY <2>2 DEF QuietLogs
    <3>2. ASSUME NEW j \in 1..n PROVE ~MagicAt(log, j)
      <4>1. MagicAt(log, j) => MagicAt(log \o log, j)
        BY <1>1, MagicInConcat
      <4>2. j \in 1..Len(log \o log)
        BY <1>1
      <4> QED BY <3>1, <4>1, <4>2 DEF Quiet
    <3> QED BY <1>1, <3>2 DEF Quiet
  <2> QED BY <2>1, <2>2 DEF Logs
<1>6. Quiet(x)
  BY <1>1, <1>2, <1>5, QuietRest
<1>7. LogEnd(KeepTail(x))
  <2>1. CASE x = <<>>
    <3>1. Len(x) <= 1
      BY <2>1
    <3>2. KeepTail(x) = x
      BY <1>3, <3>1, KeepTailFacts
    <3> QED BY <2>1, <3>2 DEF LogEnd
  <2>2. CASE x # <<>>
    <3>1. Len(x) \in 1..Len(x)
      BY <1>3, <2>2, LastCell
    <3>2. x[Len(x)] = log[n]
      <4>1. n - i + 1 \in 1..(n - i + 1) /\ i + (n - i + 1) - 1 = n
        BY <1>1, <1>3, <3>1
      <4>2. x[n - i + 1] = log[i + (n - i + 1) - 1]
        BY <1>3, <4>1
      <4> QED BY <1>3, <4>1, <4>2
    <3>3. n > 0
      BY <1>1, <1>3, <3>1
    <3>4. log # <<>> /\ log \in BootLogs
      BY <1>1, <3>3 DEF Logs
    <3> QED BY <1>1, <1>3, <2>2, <3>2, <3>4, KeepsLogEnd
  <2> QED BY <2>1, <2>2
<1> QED BY <1>1, <1>2, <1>3, <1>4, <1>6, <1>7

\* A boot log after what was kept of the ones before.
LEMMA LogAfterLog ==
  ASSUME QuietLogs, NEW t, LogEnd(t), NEW log \in BootLogs
  PROVE  t \o log \in Seq(Nat) /\ Quiet(t \o log) /\ LogEnd(KeepTail(t \o log))
<1>1. log \in Seq(Nat) /\ log \in Logs /\ t \in Seq(Nat)
  BY StreamAssumption, LogEndFacts DEF Logs
<1>2. CASE t = <<>>
  <2>1. 1 \in 1..(Len(log) + 1) /\ From(log, 1) = log
    BY <1>1, FromEnds
  <2>2. Quiet(From(log, 1)) /\ LogEnd(KeepTail(From(log, 1)))
    BY <1>1, <2>1, LogRest
  <2>3. t \o log = log
    BY <1>1, <1>2, ConcatEmptySeq
  <2> QED BY <1>1, <2>1, <2>2, <2>3
<1>3. ASSUME NEW a \in BootLogs, a # <<>>, t = <<a[Len(a)]>>
      PROVE  t \o log \in Seq(Nat) /\ Quiet(t \o log) /\ LogEnd(KeepTail(t \o log))
  <2>1. a \in Seq(Nat)
    BY StreamAssumption
  <2>2. t = From(a, Len(a)) /\ Len(a) \in 1..Len(a)
    BY <1>3, <2>1, LastCell
  <2>3. Len(a) \in 1..(Len(a) + 1) /\ Len(a) \in 1..(Len(a \o log) + 1) /\ a \o log \in Seq(Nat)
    BY <1>1, <2>1, <2>2
  <2>4. From(a \o log, Len(a)) = t \o log
    BY <1>1, <2>1, <2>2, <2>3, FromConcat
  <2>5. Quiet(a \o log)
    BY DEF QuietLogs
  <2>6. Quiet(t \o log)
    BY <2>3, <2>4, <2>5, QuietRest
  <2>7. t \o log \in Seq(Nat) /\ Len(t) = 1
    BY <1>1, <1>3
  <2>8. CASE log = <<>>
    <3>1. t \o log = t
      BY <1>1, <2>8, ConcatEmptySeq
    <3>2. KeepTail(t) = t
      <4>1. Len(t) <= 1
        BY <2>7
      <4> QED BY <1>1, <4>1, KeepTailFacts
    <3> QED BY <2>6, <2>7, <3>1, <3>2
  <2>9. CASE log # <<>>
    <3>1. PICK x : x = t \o log
      OBVIOUS
    <3>2. Len(log) \in 1..Len(log)
      BY <1>1, <2>9, LastCell
    <3>3. Len(x) = 1 + Len(log) /\ x[1 + Len(log)] = log[Len(log)]
      <4>1. Len(x) = 1 + Len(log)
        <5>1. Len(x) = Len(t) + Len(log)
          BY <1>1, <3>1, ConcatProperties
        <5> QED BY <2>7, <5>1
      <4>2. \A j \in 1..(1 + Len(log)) : x[j] = IF j <= 1 THEN t[j] ELSE log[j - 1]
        <5>1. \A j \in 1..(Len(t) + Len(log)) :
                x[j] = IF j <= Len(t) THEN t[j] ELSE log[j - Len(t)]
          BY <1>1, <3>1, ConcatProperties
        <5> QED BY <2>7, <5>1
      <4>3. /\ 1 + Len(log) \in 1..(1 + Len(log)) /\ ~(1 + Len(log) <= 1)
            /\ (1 + Len(log)) - 1 = Len(log)
        BY <3>2
      <4> QED BY <4>1, <4>2, <4>3
    <3>4. x # <<>> /\ x[Len(x)] = log[Len(log)]
      BY <3>2, <3>3
    <3>5. LogEnd(KeepTail(x))
      BY <2>7, <2>9, <3>1, <3>4, KeepsLogEnd
    <3> QED BY <2>6, <2>7, <3>1, <3>5
  <2> QED BY <2>8, <2>9
<1> QED BY <1>2, <1>3 DEF LogEnd

\* The numbers of out follow each other.
InTurn(out) == \A j \in 1..(Len(out) - 1) : Gap(out[j].seq, out[j + 1].seq) = 0

\* Where the loop is that has taken the first n of the packets out, with t before them.
TakenSoFar(out, t, l, n, s) ==
  /\ s \in Cuttings
  /\ LogEnd(s.buf) /\ s.link.resync + Len(s.buf) = l.resync + Len(t)
  /\ Len(s.link.out) = n /\ \A j \in 1..n : s.link.out[j] = out[j]
  /\ n = 0 => s.link.last = NoSeq
  /\ n > 0 => s.link.last = out[n].seq
  /\ InTurn(out) => s.link.lost = l.lost

LEMMA Associative == \A x, y, z \in Seq(Nat) : (x \o y) \o z = x \o (y \o z)
<1> SUFFICES ASSUME NEW x \in Seq(Nat), NEW y \in Seq(Nat), NEW z \in Seq(Nat)
             PROVE  (x \o y) \o z = x \o (y \o z)
  OBVIOUS
<1> QED BY ConcatAssociative, SMTT(60)

LEMMA GapNone == \A seq : Gap(NoSeq, seq) = 0
BY DEF Gap

\* The packets that follow a byte kept come out as they are.
LEMMA ExtractPackets ==
  ASSUME NEW out \in Seq(Full), NEW g, Joining(out, g), NEW t, LogEnd(t), NEW l \in Links,
         l.out = <<>>, l.last = NoSeq
  PROVE  TakenSoFar(out, t, l, Len(out), Extract(t \o FileBytes(out), l))
<1>1. PICK m \in Nat : m = Len(out) /\ out \in Seq(Packet)
                       /\ \A i \in 1..m : out[i] \in Full /\ out[i] \in Packet
  BY FullFacts
<1>2. t \in Seq(Nat) /\ Len(t) <= 1
  BY LogEndFacts
<1>3. PICK S : S = [n \in Nat |-> Extract(t \o g[n], l)]
  OBVIOUS
<1>4. \A n \in Nat : S[n] = Extract(t \o g[n], l) /\ g[n] \in Seq(Nat)
  BY <1>3 DEF Joining
<1> DEFINE T == {n \in Nat : n <= m => TakenSoFar(out, t, l, n, S[n])}
<1>5. 0 \in T
  <2>1. t \o g[0] = t
    <3>1. g[0] = <<>>
      BY DEF Joining
    <3> QED BY <1>2, <3>1, ConcatEmptySeq
  <2>2. S[0] = [buf |-> t, link |-> l]
    BY <1>2, <1>4, <2>1, ExtractShort
  <2>3. S[0] \in Cuttings /\ S[0].buf = t /\ S[0].link = l
    BY <1>2, <2>2, CuttingsFacts
  <2>4. Len(l.out) = 0
    OBVIOUS
  <2> QED BY <2>3, <2>4 DEF TakenSoFar
<1>6. ASSUME NEW n \in Nat, n \in T PROVE n + 1 \in T
  <2> SUFFICES ASSUME n + 1 <= m PROVE TakenSoFar(out, t, l, n + 1, S[n + 1])
    OBVIOUS
  <2>1. TakenSoFar(out, t, l, n, S[n]) /\ n + 1 \in 1..m
    BY <1>1, <1>6
  <2>2. PICK b \in Seq(Nat), k \in Links : b = S[n].buf /\ k = S[n].link
    BY <2>1, CuttingsFacts DEF TakenSoFar
  <2>3. /\ LogEnd(b) /\ k.resync + Len(b) = l.resync + Len(t)
        /\ Len(k.out) = n /\ \A j \in 1..n : k.out[j] = out[j]
        /\ n = 0 => k.last = NoSeq
        /\ n > 0 => k.last = out[n].seq
        /\ InTurn(out) => k.lost = l.lost
    BY <2>1, <2>2 DEF TakenSoFar
  <2>4. PICK p \in Full : p = out[n + 1] /\ p \in Packet
    BY <1>1, <2>1
  <2>5. t \o g[n + 1] = (t \o g[n]) \o Bytes(p) /\ t \o g[n] \in Seq(Nat)
        /\ Bytes(p) \in Seq(Nat)
    <3>1. g[n + 1] = g[n] \o Bytes(p)
      BY <1>1, <2>4 DEF Joining
    <3>2. Bytes(p) \in Seq(Nat) /\ g[n] \in Seq(Nat) /\ g[n] \in Seq(Nat)
      BY <1>4, <2>4, BytesFacts
    <3>3. t \o (g[n] \o Bytes(p)) = (t \o g[n]) \o Bytes(p)
      <4>1. PICK u \in Seq(Nat), v \in Seq(Nat) : u = g[n] /\ v = Bytes(p)
        BY <3>2
      <4>2. (t \o u) \o v = t \o (u \o v)
        BY <1>2, Associative
      <4> QED BY <4>1, <4>2
    <3>4. t \o g[n] \in Seq(Nat)
      BY <1>2, <3>2, ConcatProperties
    <3> QED BY <3>1, <3>2, <3>3, <3>4
  <2>6. S[n + 1] = Extract(b \o Bytes(p), k)
    <3>1. S[n + 1] = Extract((t \o g[n]) \o Bytes(p), l)
      <4>1. n + 1 \in Nat
        OBVIOUS
      <4> QED BY <1>4, <2>5, <4>1
    <3>2. Extract((t \o g[n]) \o Bytes(p), l) =
            Extract(Extract(t \o g[n], l).buf \o Bytes(p), Extract(t \o g[n], l).link)
      BY <2>5, ExtractConcat
    <3> QED BY <1>4, <2>2, <3>1, <3>2
  <2>7. b \in Seq(Nat) /\ Len(b) <= 1 /\ Len(b) \in Nat
    BY <2>3, LogEndFacts
  <2>8. PICK q \in Links : q = Skip(k, Len(b)) /\ q.resync = k.resync + Len(b)
                           /\ q.out = k.out /\ q.lost = k.lost /\ q.last = k.last
    BY <2>7, SkipFacts
  <2>9. PICK r \in Links : /\ r = Accept(q, p) /\ r.lost = q.lost + Gap(q.last, p.seq)
                           /\ r.last = p.seq /\ r.out = Append(q.out, p)
                           /\ r.resync = q.resync
    BY <2>4, AcceptFacts
  <2>10. S[n + 1] = [buf |-> <<>>, link |-> r]
    BY <2>6, <2>7, <2>8, <2>9, ExtractPacket
  <2>11. S[n + 1] \in Cuttings /\ S[n + 1].buf = <<>> /\ S[n + 1].link = r
    <3>1. <<>> \in Seq(Nat)
      OBVIOUS
    <3> QED BY <2>10, <3>1, CuttingsFacts
  <2>12. r.resync + Len(<<>>) = l.resync + Len(t)
    <3>1. Len(<<>>) = 0 /\ r.resync = k.resync + Len(b) /\ r.resync \in Nat
      BY <2>8, <2>9 DEF Links
    <3> QED BY <2>3, <3>1
  <2>13. Len(r.out) = n + 1 /\ \A j \in 1..(n + 1) : r.out[j] = out[j]
    <3>1. PICK o \in Seq(Packet) : o = k.out /\ r.out = Append(o, p)
      BY <2>8, <2>9 DEF Links
    <3>2. Len(o) = n /\ \A j \in 1..n : o[j] = out[j]
      BY <2>3, <3>1
    <3>3. Len(Append(o, p)) = n + 1 /\ Append(o, p)[n + 1] = p
          /\ \A j \in 1..n : Append(o, p)[j] = o[j]
      BY <3>2, AppendProperties
    <3>4. \A j \in 1..(n + 1) : j \in 1..n \/ j = n + 1
      OBVIOUS
    <3> QED BY <2>4, <3>1, <3>2, <3>3, <3>4
  <2>14. InTurn(out) => r.lost = l.lost
    <3> SUFFICES ASSUME InTurn(out) PROVE r.lost = l.lost
      OBVIOUS
    <3>1. Gap(q.last, p.seq) = 0
      <4>1. CASE n = 0
        BY <2>3, <2>8, <4>1, GapNone
      <4>2. CASE n > 0
        <5>1. n \in 1..(Len(out) - 1)
          BY <1>1, <4>2
        <5> QED BY <2>3, <2>4, <2>8, <4>2, <5>1 DEF InTurn
      <4> QED BY <4>1, <4>2
    <3>2. k.lost \in Nat
      BY DEF Links
    <3> QED BY <2>3, <2>8, <2>9, <3>1, <3>2
  <2>15. LogEnd(<<>>)
    BY DEF LogEnd
  <2>16. n + 1 > 0 /\ r.last = out[n + 1].seq /\ n + 1 # 0
    BY <2>4, <2>9
  <2> QED BY <2>11, <2>12, <2>13, <2>14, <2>15, <2>16 DEF TakenSoFar
<1>7. \A n \in Nat : n \in T
  <2> HIDE DEF T
  <2> QED BY <1>5, <1>6, Induction
<1>8. S[m] = Extract(t \o FileBytes(out), l)
  <2>1. FileBytes(out) = g[m]
    BY <1>1 DEF Joining
  <2> QED BY <1>4, <2>1
<1>9. TakenSoFar(out, t, l, m, S[m])
  BY <1>7
<1> QED BY <1>1, <1>8, <1>9

\* A stream that begins with (the rest of) a boot log.
LEMMA ExtractStream ==
  ASSUME QuietLogs, NEW log \in Logs, NEW i \in 1..(Len(log) + 1), NEW out \in Seq(Full)
  PROVE  LET x == Extract(From(log, i) \o FileBytes(out), NoLink)
         IN /\ x \in Cuttings /\ LogEnd(x.buf) /\ x.link.out = out
            /\ x.link.resync + Len(x.buf) <= Len(log)
            /\ IF out = <<>> THEN x.link.last = NoSeq ELSE x.link.last = out[Len(out)].seq
            /\ InTurn(out) => x.link.lost = 0
<1>1. PICK r \in Seq(Nat), m \in Nat : r = From(log, i) /\ m = Len(log) /\ Quiet(r)
                                       /\ LogEnd(KeepTail(r)) /\ Len(r) <= m
  <2>1. Len(log) \in Nat
    BY LogFacts
  <2> QED BY <2>1, LogRest
<1>2. PICK t \in Seq(Nat), n \in Nat : t = KeepTail(r) /\ n = Len(r) - Len(t)
  BY <1>1, ExtractQuiet, CuttingsFacts
<1>3. PICK l \in Links : l = Skip(NoLink, n) /\ l.resync = n /\ l.out = <<>>
                         /\ l.last = NoSeq /\ l.lost = 0
  <2>1. NoLink \in Links /\ NoLink.resync = 0 /\ NoLink.out = <<>> /\ NoLink.last = NoSeq
        /\ NoLink.lost = 0
    BY CuttingsFacts DEF NoLink
  <2>2. PICK l \in Links : l = Skip(NoLink, n) /\ l.resync = NoLink.resync + n
                           /\ l.out = NoLink.out /\ l.lost = NoLink.lost
                           /\ l.last = NoLink.last
    BY <2>1, SkipFacts
  <2>3. 0 + n = n
    OBVIOUS
  <2> QED BY <2>1, <2>2, <2>3
<1>4. PICK e \in Cuttings : e = Extract(r, NoLink) /\ e.buf = t /\ e.link = l
  <2>1. Extract(r, NoLink) = [buf |-> t, link |-> l]
    BY <1>1, <1>2, <1>3, ExtractQuiet, CuttingsFacts
  <2> QED BY <1>2, <1>3, <2>1, CuttingsFacts
<1>5. PICK g : Joining(out, g)
  BY FullFacts, JoiningExists
<1>6. PICK f \in Seq(Nat) : f = FileBytes(out)
  BY <1>5, FullFacts DEF Joining
<1>7. PICK x : x = Extract(r \o f, NoLink) /\ x = Extract(t \o f, l)
  BY <1>1, <1>4, <1>6, ExtractConcat, CuttingsFacts
<1>8. TakenSoFar(out, t, l, Len(out), x)
  <2>1. LogEnd(t)
    BY <1>1, <1>2
  <2> QED BY <1>3, <1>5, <1>6, <1>7, <2>1, ExtractPackets
<1>9. x.link.out = out
  <2>1. x.link.out \in Seq(Packet) /\ out \in Seq(Packet) /\ Len(out) \in Nat
    BY <1>8, FullFacts, CuttingsFacts DEF TakenSoFar, Links
  <2>2. Len(x.link.out) = Len(out) /\ \A j \in 1..Len(out) : x.link.out[j] = out[j]
    BY <1>8 DEF TakenSoFar
  <2> QED BY <2>1, <2>2, SeqEqual
<1>10. x.link.resync + Len(x.buf) <= m
  <2>1. x.link.resync + Len(x.buf) = n + Len(t)
    BY <1>3, <1>8 DEF TakenSoFar
  <2>2. n + Len(t) = Len(r)
    <3>1. PICK a, c \in Nat : a = Len(r) /\ c = Len(t)
      OBVIOUS
    <3> QED BY <1>2, <3>1
  <2> QED BY <1>1, <2>1, <2>2
<1>11. IF out = <<>> THEN x.link.last = NoSeq ELSE x.link.last = out[Len(out)].seq
  <2>1. CASE out = <<>>
    <3>1. Len(out) = 0
      BY <2>1
    <3> QED BY <1>8, <2>1, <3>1 DEF TakenSoFar
  <2>2. CASE out # <<>>
    <3>1. Len(out) \in Nat /\ Len(out) # 0
      BY <2>2, FullFacts
    <3>2. Len(out) > 0
      BY <3>1
    <3> QED BY <1>8, <2>2, <3>2 DEF TakenSoFar
  <2> QED BY <2>1, <2>2
<1>12. x \in Cuttings /\ LogEnd(x.buf) /\ (InTurn(out) => x.link.lost = 0)
  BY <1>3, <1>8 DEF TakenSoFar
<1> QED BY <1>1, <1>6, <1>7, <1>9, <1>10, <1>11, <1>12

\* Within a boot each number follows the one before.
Following ==
  boot = 0 =>
  \A j \in 1..Len(sent) :
    /\ j < Len(sent) => Gap(sent[j].packet.seq, sent[j + 1].packet.seq) = 0
    /\ j = Len(sent) => Gap(sent[j].packet.seq, nextSeq) = 0

\* What an undamaged stream gives once all that is under way has been read.
InSyncAt(x) ==
  /\ LogEnd(x.buf)
  /\ \E i \in 0..Len(sent) : x.link.out = From(PacketsSent, i + 1)
  /\ boot = 0 => /\ x.link.lost = 0
                 /\ Gap(x.link.last, nextSeq) = 0
                 /\ \E log \in Logs : x.link.resync + Len(x.buf) <= Len(log)

SyncInv == kind = "usb" /\ damage = "none" => InSyncAt(Extract(buf \o wire, link))

\* The number after this one is no gap.
LEMMA NextNumber ==
  ASSUME NEW a \in 0..(Modulus - 1)
  PROVE  Gap(a, (a + 1) % Modulus) = 0
<1>1. PICK v : v = (a + 1) % Modulus
  OBVIOUS
<1>2. v = a + 1 \/ (a = Modulus - 1 /\ v = 0)
  <2>1. CASE a = Modulus - 1
    <3>1. a + 1 = Modulus
      BY <2>1, ModulusFacts
    <3> QED BY <1>1, <2>1, <3>1, ModulusFacts
  <2>2. CASE a # Modulus - 1
    <3>1. a + 1 \in 0..(Modulus - 1)
      BY <2>2, ModulusFacts
    <3>2. (a + 1) % Modulus = a + 1
      BY <3>1, ModulusFacts, Zenon
    <3> QED BY <1>1, <3>2
  <2> QED BY <2>1, <2>2
<1>3. /\ v \in 0..(Modulus - 1) /\ 0 \in 0..(GapLimit - 1)
      /\ Modulus \in Nat /\ GapLimit \in Nat
  <2>1. a + 1 \in Int
    BY ModulusFacts
  <2> QED BY <1>1, <2>1, ModulusFacts
<1>4. Apart(a, v, 0 + 1)
  BY <1>2, <1>3 DEF Apart
<1> QED BY <1>1, <1>3, <1>4, GapApart

LEMMA FollowingStep ==
  ASSUME DeviceTypes, Following, [Next]_vars
  PROVE  Following'
<1>1. ASSUME NEW p \in Payloads, Send(p) PROVE Following'
  <2>1. PICK r : /\ sent' = Append(sent, r) /\ r.packet.seq = nextSeq
    <3>1. PICK q : q = [version |-> version, seq |-> nextSeq, payload |-> p]
      OBVIOUS
    <3>2. sent' = Append(sent, [boot |-> boot, packet |-> q])
      BY <1>1, <3>1 DEF Send
    <3> QED BY <3>1, <3>2
  <2>2. PICK n \in Nat : n = Len(sent)
    BY SentFacts
  <2>3. /\ Len(sent') = n + 1 /\ sent'[n + 1] = r
        /\ \A x \in 1..n : sent'[x] = sent[x]
        /\ boot' = boot /\ nextSeq' = (nextSeq + 1) % Modulus
    BY <1>1, <2>1, <2>2 DEF Send, DeviceTypes
  <2> SUFFICES ASSUME boot = 0, NEW j \in 1..(n + 1)
               PROVE  /\ j < n + 1 => Gap(sent'[j].packet.seq, sent'[j + 1].packet.seq) = 0
                      /\ j = n + 1 => Gap(sent'[j].packet.seq, nextSeq') = 0
    BY <2>3 DEF Following
  <2>4. CASE j = n + 1
    <3>1. nextSeq \in 0..(Modulus - 1)
      BY DEF DeviceTypes
    <3> QED BY <2>1, <2>3, <2>4, <3>1, NextNumber
  <2>5. CASE j = n
    <3>1. j \in 1..Len(sent) /\ j = Len(sent) /\ sent'[j] = sent[j] /\ sent'[j + 1] = r
      BY <2>2, <2>3, <2>5
    <3> QED BY <2>1, <2>5, <3>1 DEF Following
  <2>6. CASE j < n
    <3>1. /\ j \in 1..Len(sent) /\ j < Len(sent) /\ sent'[j] = sent[j]
          /\ sent'[j + 1] = sent[j + 1]
      BY <2>2, <2>3, <2>6
    <3> QED BY <2>6, <3>1 DEF Following
  <2> QED BY <2>4, <2>5, <2>6
<1>2. ASSUME NEW log \in BootLogs, Restart(log) PROVE Following'
  <2>1. boot' = boot + 1 /\ boot \in Nat
    BY <1>2, SentFacts DEF Restart
  <2>2. boot' # 0
    BY <2>1
  <2> QED BY <2>2 DEF Following
<1>3. CASE UNCHANGED <<sent, boot, nextSeq>>
  BY <1>3 DEF Following
<1>4. \/ \E p \in Payloads : Send(p)
      \/ \E log \in BootLogs : Restart(log)
      \/ UNCHANGED <<sent, boot, nextSeq>>
  BY DEF Next, Put, vars, reading, Read, Flush, LoseCells, Receive, ReceiveJunk, Drain
<1> QED BY <1>1, <1>2, <1>3, <1>4

PacketsOf(s) == [i \in DOMAIN s |-> s[i].packet]

AllFull(s) == \A i \in 1..Len(s) : s[i].packet \in Full

LEMMA SentFull ==
  ASSUME DeviceTypes, FullPackets
  PROVE  sent \in Seq(Record) /\ AllFull(sent) /\ PacketsSent = PacketsOf(sent)
<1>1. sent \in Seq(Record)
  BY DEF DeviceTypes
<1>2. AllFull(sent)
  BY SentFacts DEF AllFull, Full, FullPackets
<1> QED BY <1>1, <1>2 DEF PacketsSent, PacketsOf

\* The packets that come after the first i.
LEMMA PacketsFrom ==
  ASSUME NEW s \in Seq(Record), AllFull(s), NEW i \in 0..Len(s)
  PROVE  /\ PacketsOf(s) \in Seq(Full) /\ Len(PacketsOf(s)) = Len(s)
         /\ \A j \in 1..Len(s) : PacketsOf(s)[j] = s[j].packet
         /\ From(PacketsOf(s), i + 1) \in Seq(Full)
         /\ Len(From(PacketsOf(s), i + 1)) = Len(s) - i
         /\ \A j \in 1..(Len(s) - i) : From(PacketsOf(s), i + 1)[j] = s[i + j].packet
<1>1. PICK n \in Nat : n = Len(s) /\ DOMAIN s = 1..n
  OBVIOUS
<1>2. \A x \in 1..n : s[x].packet \in Full
  BY <1>1 DEF AllFull
<1>3. PICK P : P = PacketsOf(s) /\ P = [x \in 1..n |-> s[x].packet]
  BY <1>1 DEF PacketsOf
<1>4. P \in Seq(Full) /\ Len(P) = n /\ \A x \in 1..n : P[x] = s[x].packet
  <2>1. P \in [1..n -> Full]
    BY <1>2, <1>3
  <2>2. P \in Seq(Full)
    BY <2>1, IsASeq
  <2>3. Len(P) = n
    BY <1>3, <2>2
  <2> QED BY <1>3, <2>2, <2>3
<1>5. PICK k \in 1..(Len(P) + 1) : k = i + 1
  BY <1>1, <1>4
<1>6. /\ From(P, k) \in Seq(Full) /\ Len(From(P, k)) = n - k + 1
      /\ \A j \in 1..(n - k + 1) : From(P, k)[j] = P[k + j - 1]
  BY <1>4, FromFacts
<1>7. n - k + 1 = n - i
  BY <1>1, <1>5
<1>8. ASSUME NEW j \in 1..(n - i) PROVE From(P, k)[j] = s[i + j].packet
  <2>1. k + j - 1 = i + j /\ i + j \in 1..n
    BY <1>1, <1>5
  <2> QED BY <1>4, <1>6, <1>7, <2>1
<1> QED BY <1>1, <1>3, <1>4, <1>5, <1>6, <1>7, <1>8

\* What begins with a boot log and whole packets is in sync once it has been read.
LEMMA StreamInSync ==
  ASSUME QuietLogs, DeviceTypes, FullPackets, Following, NEW log \in Logs,
         NEW k \in 1..(Len(log) + 1), NEW i \in 0..Len(sent)
  PROVE  InSyncAt(Extract(From(log, k) \o FileBytes(From(PacketsSent, i + 1)), NoLink))
<1>1. PICK n \in Nat : n = Len(sent)
  BY SentFacts
<1>2. PICK out \in Seq(Full) :
        /\ out = From(PacketsSent, i + 1) /\ Len(out) = n - i
        /\ \A j \in 1..(n - i) : out[j] = sent[i + j].packet
  BY <1>1, SentFull, PacketsFrom
<1>3. PICK x : x = Extract(From(log, k) \o FileBytes(out), NoLink)
  OBVIOUS
<1>4. /\ LogEnd(x.buf) /\ x.link.out = out
      /\ x.link.resync + Len(x.buf) <= Len(log)
      /\ IF out = <<>> THEN x.link.last = NoSeq ELSE x.link.last = out[Len(out)].seq
      /\ InTurn(out) => x.link.lost = 0
  BY <1>3, ExtractStream
<1>5. ASSUME boot = 0 PROVE x.link.lost = 0 /\ Gap(x.link.last, nextSeq) = 0
  <2>1. InTurn(out)
    <3> SUFFICES ASSUME NEW j \in 1..(Len(out) - 1)
                 PROVE  Gap(out[j].seq, out[j + 1].seq) = 0
      BY DEF InTurn
    <3>1. /\ j \in 1..(n - i) /\ j + 1 \in 1..(n - i) /\ i + j \in 1..n /\ i + j < n
          /\ i + (j + 1) = (i + j) + 1
      <4>1. n \in Nat /\ i \in Nat /\ i <= n
        BY <1>1
      <4>2. j \in 1..((n - i) - 1)
        BY <1>2
      <4> QED BY <4>1, <4>2
    <3>2. out[j] = sent[i + j].packet /\ out[j + 1] = sent[(i + j) + 1].packet
      BY <1>2, <3>1
    <3> QED BY <1>1, <1>5, <3>1, <3>2 DEF Following
  <2>2. Gap(x.link.last, nextSeq) = 0
    <3>1. CASE out = <<>>
      BY <1>4, <3>1, GapNone
    <3>2. CASE out # <<>>
      <4>1. Len(out) # 0
        BY <1>2, <3>2
      <4>2. n - i \in 1..(n - i) /\ i + (n - i) = n /\ n \in 1..n
        BY <1>1, <1>2, <4>1
      <4>3. out[Len(out)] = sent[n].packet
        BY <1>2, <4>2
      <4> QED BY <1>1, <1>4, <1>5, <3>2, <4>2, <4>3 DEF Following
    <3> QED BY <3>1, <3>2
  <2> QED BY <1>4, <2>1, <2>2
<1> QED BY <1>2, <1>3, <1>4, <1>5 DEF InSyncAt

LEMMA SyncInit ==
  ASSUME QuietLogs, Init, DeviceTypes, FullPackets
  PROVE  Following /\ SyncInv
<1>1. sent = <<>> /\ buf = <<>> /\ link = NoLink /\ Len(sent) = 0
  BY DEF Init
<1>2. Following
  BY <1>1 DEF Following
<1>3. ASSUME kind = "usb" PROVE InSyncAt(Extract(buf \o wire, link))
  <2>1. PICK log \in Logs : log = wire /\ log \in Seq(Nat)
    BY <1>3, LogFacts DEF Init
  <2>2. From(log, 1) = log /\ 1 \in 1..(Len(log) + 1)
    BY <2>1, FromEnds
  <2>3. FileBytes(From(PacketsSent, 0 + 1)) = <<>>
    <3>1. PICK P \in Seq(Full) : P = PacketsSent /\ Len(P) = 0
      <4>1. 0 \in 0..Len(sent)
        BY <1>1
      <4> QED BY <1>1, <4>1, SentFull, PacketsFrom
    <3>2. From(P, Len(P) + 1) = <<>>
      BY FromEnds
    <3>3. From(PacketsSent, 0 + 1) = <<>>
      BY <3>1, <3>2
    <3>4. <<>> \in Seq(Packet) /\ Len(<<>>) = 0
      OBVIOUS
    <3>5. PICK g : Joining(<<>>, g)
      BY <3>4, JoiningExists
    <3>6. FileBytes(<<>>) = <<>>
      BY <3>4, <3>5 DEF Joining
    <3> QED BY <3>3, <3>6
  <2>4. buf \o wire = From(log, 1) \o FileBytes(From(PacketsSent, 0 + 1))
    <3>1. <<>> \o log = log /\ log \o <<>> = log
      BY <2>1, ConcatEmptySeq
    <3> QED BY <1>1, <2>1, <2>2, <2>3, <3>1
  <2>5. 0 \in 0..Len(sent)
    BY <1>1
  <2>6. InSyncAt(Extract(From(log, 1) \o FileBytes(From(PacketsSent, 0 + 1)), NoLink))
    BY <1>2, <2>2, <2>5, StreamInSync
  <2> QED BY <1>1, <2>4, <2>6
<1> QED BY <1>2, <1>3 DEF SyncInv

\* What has been read and what is under way, as one read of it all.
LEMMA AllCuttings ==
  ASSUME LinkTypes
  PROVE  /\ buf \o wire \in Seq(Nat) /\ link \in Links
         /\ Extract(buf \o wire, link) \in Cuttings
<1>1. buf \in Seq(Nat) /\ wire \in Seq(Nat) /\ link \in Links
  BY DEF LinkTypes
<1>2. buf \o wire \in Seq(Nat)
  BY <1>1, ConcatProperties
<1> QED BY <1>1, <1>2, RunOf

\* More bytes on the line.
LEMMA MoreBytes ==
  ASSUME LinkTypes, NEW d \in Seq(Nat), buf' = buf, link' = link, wire' = wire \o d,
         NEW x, x = Extract(buf \o wire, link)
  PROVE  Extract(buf' \o wire', link') = Extract(x.buf \o d, x.link)
<1>1. buf \in Seq(Nat) /\ wire \in Seq(Nat) /\ link \in Links /\ buf \o wire \in Seq(Nat)
  BY AllCuttings DEF LinkTypes
<1>2. (buf \o wire) \o d = buf \o (wire \o d)
  BY <1>1, Associative
<1>3. Extract((buf \o wire) \o d, link) = Extract(x.buf \o d, x.link)
  BY <1>1, ExtractConcat
<1> QED BY <1>2, <1>3

LEMMA SyncSend ==
  ASSUME DeviceTypes, LinkTypes, FullPackets, SyncInv, kind = "usb", damage = "none",
         NEW payload \in Payloads, Send(payload)
  PROVE  InSyncAt(Extract(buf \o wire, link))'
<1>1. PICK p \in Full : /\ p.seq = nextSeq /\ p \in Packet
                        /\ sent' = Append(sent, [boot |-> boot, packet |-> p])
                        /\ wire' = wire \o Bytes(p) /\ buf' = buf /\ link' = link
                        /\ nextSeq' = (nextSeq + 1) % Modulus /\ boot' = boot
  <2>1. PICK p : p = [version |-> version, seq |-> nextSeq, payload |-> payload]
    OBVIOUS
  <2>2. /\ version \in Nat /\ nextSeq \in 0..(Modulus - 1) /\ payload \in Seq(Nat)
        /\ Len(payload) \in 1..MaxSamples
    BY StreamAssumption DEF DeviceTypes
  <2>3. p \in Full /\ p \in Packet
    BY <2>1, <2>2 DEF Full, Packet
  <2>4. /\ sent' = Append(sent, [boot |-> boot, packet |-> p])
        /\ wire' = wire \o Bytes(p) /\ buf' = buf /\ link' = link
        /\ nextSeq' = (nextSeq + 1) % Modulus /\ boot' = boot
    BY <2>1 DEF Send
  <2> QED BY <2>1, <2>3, <2>4
<1>2. PICK x \in Cuttings : x = Extract(buf \o wire, link) /\ InSyncAt(x)
  BY AllCuttings DEF SyncInv
<1>3. PICK b \in Seq(Nat), k \in Links, n \in Nat :
        b = x.buf /\ k = x.link /\ LogEnd(b) /\ Len(b) <= 1 /\ n = Len(b)
  <2>1. x.buf \in Seq(Nat) /\ x.link \in Links /\ LogEnd(x.buf)
    BY <1>2, CuttingsFacts DEF InSyncAt
  <2>2. Len(x.buf) <= 1 /\ Len(x.buf) \in Nat
    BY <2>1, LogEndFacts
  <2> QED BY <2>1, <2>2
<1>4. PICK y : y = Extract(buf' \o wire', link') /\ y = Extract(b \o Bytes(p), k)
  <2>1. Bytes(p) \in Seq(Nat)
    BY <1>1, BytesFacts
  <2> QED BY <1>1, <1>2, <1>3, <2>1, MoreBytes
<1>5. PICK q \in Links : q = Skip(k, n) /\ q.resync = k.resync + n
                         /\ q.out = k.out /\ q.lost = k.lost /\ q.last = k.last
  BY SkipFacts
<1>6. PICK r \in Links : /\ r = Accept(q, p) /\ r.lost = q.lost + Gap(q.last, p.seq)
                         /\ r.last = p.seq /\ r.out = Append(q.out, p)
                         /\ r.resync = q.resync
  BY <1>1, AcceptFacts
<1>7. y = [buf |-> <<>>, link |-> r]
  BY <1>3, <1>4, <1>5, <1>6, ExtractPacket
<1>8. y.buf = <<>> /\ y.link = r /\ LogEnd(y.buf)
  BY <1>7 DEF LogEnd
<1>9. \E i \in 0..Len(sent') : r.out = From(PacketsSent', i + 1)
  <2>1. PICK m \in Nat : m = Len(sent) /\ sent \in Seq(Record) /\ AllFull(sent)
                         /\ PacketsSent = PacketsOf(sent)
    BY SentFacts, SentFull
  <2>2. PICK i \in 0..m : k.out = From(PacketsSent, i + 1)
    BY <1>2, <1>3, <2>1 DEF InSyncAt
  <2>3. PICK s : s = sent' /\ PacketsSent' = PacketsOf(s)
    BY DEF PacketsSent, PacketsOf
  <2>4. PICK e \in Record : e.packet = p /\ s = Append(sent, e)
    <3>1. [boot |-> boot, packet |-> p] \in Record
      BY <1>1 DEF DeviceTypes, Record
    <3> QED BY <1>1, <2>3, <3>1
  <2>5. /\ s \in Seq(Record) /\ Len(s) = m + 1 /\ s[m + 1] = e
        /\ \A j \in 1..m : s[j] = sent[j]
    BY <2>1, <2>4, AppendProperties
  <2>6. AllFull(s)
    <3>1. \A j \in 1..(m + 1) : j \in 1..m \/ j = m + 1
      BY <2>1
    <3> QED BY <2>1, <2>4, <2>5, <3>1 DEF AllFull
  <2>7. PICK c : /\ c = From(PacketsOf(sent), i + 1) /\ c \in Seq(Full) /\ Len(c) = m - i
                 /\ \A j \in 1..(m - i) : c[j] = sent[i + j].packet
    <3>1. i \in 0..Len(sent)
      BY <2>1, <2>2
    <3>2. /\ From(PacketsOf(sent), i + 1) \in Seq(Full)
          /\ Len(From(PacketsOf(sent), i + 1)) = Len(sent) - i
          /\ \A j \in 1..(Len(sent) - i) :
               From(PacketsOf(sent), i + 1)[j] = sent[i + j].packet
      BY <2>1, <3>1, PacketsFrom
    <3> QED BY <2>1, <3>2
  <2>8. PICK d : /\ d = From(PacketsOf(s), i + 1) /\ d \in Seq(Full) /\ Len(d) = m + 1 - i
                 /\ \A j \in 1..(m + 1 - i) : d[j] = s[i + j].packet
    <3>1. i \in 0..Len(s) /\ Len(s) - i = m + 1 - i
      <4>1. i \in 0..(m + 1)
        BY <2>1
      <4> QED BY <2>5, <4>1
    <3>2. /\ From(PacketsOf(s), i + 1) \in Seq(Full)
          /\ Len(From(PacketsOf(s), i + 1)) = Len(s) - i
          /\ \A j \in 1..(Len(s) - i) : From(PacketsOf(s), i + 1)[j] = s[i + j].packet
      BY <2>5, <2>6, <3>1, PacketsFrom
    <3> QED BY <3>1, <3>2
  <2>9. /\ Append(c, p) \in Seq(Full) /\ Len(Append(c, p)) = (m - i) + 1
        /\ Append(c, p)[(m - i) + 1] = p /\ \A j \in 1..(m - i) : Append(c, p)[j] = c[j]
    BY <2>7, AppendProperties
  <2>10. ASSUME NEW j \in 1..((m - i) + 1) PROVE Append(c, p)[j] = d[j]
    <3>1. j \in 1..(m + 1 - i) /\ d[j] = s[i + j].packet
      <4>1. j \in 1..(m + 1 - i)
        BY <2>1
      <4> QED BY <2>8, <4>1
    <3>2. CASE j = (m - i) + 1
      <4>1. i + j = m + 1
        BY <2>1, <3>2
      <4> QED BY <2>4, <2>5, <2>9, <3>1, <3>2, <4>1
    <3>3. CASE j # (m - i) + 1
      <4>1. PICK u \in Nat : u = m - i
        OBVIOUS
      <4>2. j \in 1..(u + 1) /\ j # u + 1
        BY <3>3, <4>1
      <4>3. j \in 1..u
        BY <4>2
      <4>4. i + j \in 1..m
        BY <2>1, <4>1, <4>3
      <4> QED BY <2>5, <2>7, <2>9, <3>1, <4>1, <4>3, <4>4
    <3> QED BY <3>2, <3>3
  <2>11. Append(c, p) = d
    <3>1. (m - i) + 1 = m + 1 - i
      BY <2>1
    <3>2. Len(Append(c, p)) = (m - i) + 1 /\ Len(d) = (m - i) + 1
      BY <2>8, <2>9, <3>1
    <3> QED BY <2>8, <2>9, <2>10, <3>2, SeqEqual
  <2>12. r.out = From(PacketsSent', i + 1) /\ i \in 0..Len(sent')
    <3>1. i \in 0..(m + 1)
      BY <2>1
    <3> QED BY <1>5, <1>6, <2>1, <2>2, <2>3, <2>5, <2>7, <2>8, <2>11, <3>1
  <2> QED BY <2>12
<1>10. ASSUME boot' = 0
       PROVE  /\ r.lost = 0 /\ Gap(r.last, nextSeq') = 0
              /\ \E log \in Logs : r.resync + Len(y.buf) <= Len(log)
  <2>1. /\ k.lost = 0 /\ Gap(k.last, nextSeq) = 0
        /\ \E log \in Logs : k.resync + n <= Len(log)
    BY <1>1, <1>2, <1>3, <1>10 DEF InSyncAt
  <2>2. r.lost = 0
    BY <1>1, <1>5, <1>6, <2>1
  <2>3. Gap(r.last, nextSeq') = 0
    <3>1. nextSeq \in 0..(Modulus - 1)
      BY DEF DeviceTypes
    <3> QED BY <1>1, <1>6, <3>1, NextNumber
  <2>4. r.resync + Len(y.buf) = k.resync + n
    <3>1. Len(<<>>) = 0 /\ k.resync \in Nat
      BY DEF Links
    <3> QED BY <1>5, <1>6, <1>8, <3>1
  <2> QED BY <2>1, <2>2, <2>3, <2>4
<1>11. InSyncAt(y)'
  BY <1>8, <1>9, <1>10 DEF InSyncAt
<1> QED BY <1>4, <1>11

LEMMA SyncRestart ==
  ASSUME QuietLogs, DeviceTypes, LinkTypes, SyncInv, kind = "usb", damage = "none",
         NEW log \in BootLogs, Restart(log)
  PROVE  InSyncAt(Extract(buf \o wire, link))'
<1>1. PICK x \in Cuttings : x = Extract(buf \o wire, link) /\ InSyncAt(x)
  BY AllCuttings DEF SyncInv
<1>2. PICK b \in Seq(Nat), k \in Links : b = x.buf /\ k = x.link /\ LogEnd(b)
  <2>1. x.buf \in Seq(Nat) /\ x.link \in Links /\ LogEnd(x.buf)
    BY <1>1, CuttingsFacts DEF InSyncAt
  <2> QED BY <2>1
<1>3. /\ sent' = sent /\ wire' = wire \o log /\ buf' = buf /\ link' = link
      /\ boot' = boot + 1 /\ boot' # 0
  BY SentFacts DEF Restart
<1>4. PICK y : y = Extract(buf' \o wire', link') /\ y = Extract(b \o log, k)
  <2>1. log \in Seq(Nat)
    BY StreamAssumption
  <2> QED BY <1>1, <1>2, <1>3, <2>1, MoreBytes
<1>5. PICK c \in Seq(Nat) : c = b \o log /\ Quiet(c) /\ LogEnd(KeepTail(c))
  BY <1>2, LogAfterLog
<1>6. PICK n \in Nat : n = Len(c) - Len(KeepTail(c))
                       /\ y = [buf |-> KeepTail(c), link |-> Skip(k, n)]
  BY <1>4, <1>5, ExtractQuiet
<1>7. y.link.out = k.out /\ LogEnd(y.buf)
  <2>1. y.link = Skip(k, n) /\ y.buf = KeepTail(c)
    BY <1>6
  <2> QED BY <1>5, <2>1, SkipFacts
<1>8. \E i \in 0..Len(sent) : y.link.out = From(PacketsSent, i + 1)
  BY <1>1, <1>2, <1>7 DEF InSyncAt
<1>9. PacketsSent' = PacketsSent
  BY <1>3 DEF PacketsSent
<1>10. InSyncAt(y)'
  BY <1>3, <1>7, <1>8, <1>9 DEF InSyncAt
<1> QED BY <1>4, <1>10

LEMMA SyncRead ==
  ASSUME LinkTypes, NEW n \in 1..Len(wire), Read(n)
  PROVE  Extract(buf' \o wire', link') = Extract(buf \o wire, link)
<1>1. PICK chunk, rest : chunk = SubSeq(wire, 1, n) /\ rest = From(wire, n + 1)
  OBVIOUS
<1>2. buf \in Seq(Nat) /\ wire \in Seq(Nat) /\ link \in Links
  BY DEF LinkTypes
<1>3. PICK x : x = Extract(buf \o chunk, link) /\ buf' = x.buf /\ link' = x.link
               /\ wire' = rest
  BY <1>1 DEF Read
<1>4. chunk \in Seq(Nat) /\ rest \in Seq(Nat)
  <2>1. n + 1 \in 1..(Len(wire) + 1) /\ (n + 1) - 1 = n
    BY <1>2
  <2> QED BY <1>1, <1>2, <2>1, FromTyped
<1>5. chunk \o rest = wire
  <2>1. 1 \in 1..(Len(wire) + 1) /\ n \in (1 - 1)..Len(wire) /\ Len(wire) \in n..Len(wire)
    BY <1>2
  <2>2. SubSeq(wire, 1, n) \o SubSeq(wire, n + 1, Len(wire)) = SubSeq(wire, 1, Len(wire))
    BY <1>2, <2>1, ConcatAdjacentSubSeq
  <2>3. SubSeq(wire, 1, Len(wire)) = wire
    BY <1>2, SubSeqFull
  <2> QED BY <1>1, <2>2, <2>3 DEF From
<1>6. buf \o chunk \in Seq(Nat)
  BY <1>2, <1>4, ConcatProperties
<1>7. Extract((buf \o chunk) \o rest, link) = Extract(x.buf \o rest, x.link)
  BY <1>2, <1>3, <1>4, <1>6, ExtractConcat
<1>8. (buf \o chunk) \o rest = buf \o wire
  BY <1>2, <1>4, <1>5, Associative
<1> QED BY <1>3, <1>7, <1>8

LEMMA SyncFlush ==
  ASSUME QuietLogs, DeviceTypes, FullPackets, Following, LinkTypes,
         NEW n \in 0..Len(wire), Flush(n), damage' = "none"
  PROVE  InSyncAt(Extract(buf \o wire, link))'
<1>1. PICK w : w = wire' /\ AtBoundary(w)
  BY DEF Flush, NewRun
<1>2. PICK i \in 0..Len(sent), log \in Logs, k \in Nat :
        /\ k \in 1..(Len(log) + 1)
        /\ w = From(log, k) \o FileBytes(From(PacketsSent, i + 1))
  BY <1>1 DEF AtBoundary
<1>3. PICK y : y = Extract(w, NoLink)
  OBVIOUS
<1>4. InSyncAt(y)
  BY <1>2, <1>3, StreamInSync
<1>5. UNCHANGED <<sent, boot, nextSeq>> /\ buf' = <<>> /\ link' = NoLink
  BY DEF Flush, NewRun
<1>6. InSyncAt(y)'
  BY <1>4, <1>5 DEF InSyncAt, PacketsSent
<1>7. buf' \o wire' = w
  <2>1. wire' \in Seq(Nat)
    <3>1. wire \in Seq(Nat) /\ n + 1 \in 1..(Len(wire) + 1) /\ wire' = From(wire, n + 1)
      BY DEF LinkTypes, Flush
    <3> QED BY <3>1, FromTyped
  <2> QED BY <1>1, <1>5, <2>1, ConcatEmptySeq
<1> QED BY <1>3, <1>5, <1>6, <1>7

LEMMA SyncStep ==
  ASSUME QuietLogs, DeviceTypes, LinkTypes, FullPackets, Following, SyncInv, [Next]_vars
  PROVE  SyncInv'
<1> SUFFICES ASSUME kind' = "usb", damage' = "none"
             PROVE  InSyncAt(Extract(buf \o wire, link))'
  BY DEF SyncInv
<1>1. kind = "usb"
  BY DEF Next, Put, vars, reading, Send, Restart, Read, Flush, LoseCells, Receive, ReceiveJunk, Drain
<1>2. ASSUME NEW p \in Payloads, Send(p) PROVE InSyncAt(Extract(buf \o wire, link))'
  <2>1. damage = "none"
    BY <1>2 DEF Send
  <2> QED BY <1>1, <1>2, <2>1, SyncSend
<1>3. ASSUME NEW log \in BootLogs, Restart(log) PROVE InSyncAt(Extract(buf \o wire, link))'
  <2>1. damage = "none"
    BY <1>3 DEF Restart
  <2> QED BY <1>1, <1>3, <2>1, SyncRestart
<1>4. ASSUME NEW n \in 1..Len(wire), Read(n) PROVE InSyncAt(Extract(buf \o wire, link))'
  <2>1. damage = "none" /\ UNCHANGED <<sent, boot, nextSeq>>
    BY <1>4 DEF Read
  <2>2. PICK x : x = Extract(buf \o wire, link) /\ InSyncAt(x)
    BY <1>1, <2>1 DEF SyncInv
  <2>3. x = Extract(buf' \o wire', link')
    BY <1>4, <2>2, SyncRead
  <2>4. InSyncAt(x)'
    BY <2>1, <2>2 DEF InSyncAt, PacketsSent
  <2> QED BY <2>3, <2>4
<1>5. ASSUME NEW n \in 0..Len(wire), Flush(n) PROVE InSyncAt(Extract(buf \o wire, link))'
  BY <1>5, SyncFlush
<1>6. CASE UNCHANGED reading
  <2>1. /\ damage = "none" /\ UNCHANGED <<sent, boot, nextSeq>>
        /\ wire' = wire /\ buf' = buf /\ link' = link
    BY <1>6 DEF reading
  <2>2. PICK x : x = Extract(buf \o wire, link) /\ InSyncAt(x)
    BY <1>1, <2>1 DEF SyncInv
  <2>3. x = Extract(buf' \o wire', link')
    BY <2>1, <2>2
  <2>4. InSyncAt(x)'
    BY <2>1, <2>2 DEF InSyncAt, PacketsSent
  <2> QED BY <2>3, <2>4
<1>7. \/ \E p \in Payloads : Send(p)
      \/ \E log \in BootLogs : Restart(log)
      \/ \E n \in 1..Len(wire) : Read(n)
      \/ \E n \in 0..Len(wire) : Flush(n)
      \/ UNCHANGED reading
  BY <1>1 DEF Next, Put, vars, reading, LoseCells, Receive, ReceiveJunk, Drain
<1> QED BY <1>2, <1>3, <1>4, <1>5, <1>6, <1>7

\* What has been read so far is a part of what a read of it all gives.
LEMMA SoFar ==
  ASSUME LinkTypes, NEW x, x = Extract(buf \o wire, link)
  PROVE  /\ link.out \in Seq(Packet) /\ x.link \in Links
         /\ Len(link.out) <= Len(x.link.out)
         /\ \A j \in 1..Len(link.out) : x.link.out[j] = link.out[j]
         /\ link.lost <= x.link.lost /\ link.resync <= x.link.resync
<1>1. PICK o \in Seq(Packet), m \in Nat, a \in Nat, c \in Nat :
        o = link.out /\ m = Len(o) /\ a = link.lost /\ c = link.resync
  BY DEF LinkTypes, Links
<1> DEFINE K == {l \in Links : /\ m <= Len(l.out) /\ \A j \in 1..m : l.out[j] = o[j]
                               /\ a <= l.lost /\ c <= l.resync}
<1>2. link \in K
  BY <1>1 DEF LinkTypes
<1>3. ASSUME NEW l \in K, NEW n \in Nat PROVE Skip(l, n) \in K
  <2>1. l \in Links /\ l.resync \in Nat
    BY DEF Links
  <2>2. /\ Skip(l, n) \in Links /\ Skip(l, n).resync = l.resync + n
        /\ Skip(l, n).out = l.out /\ Skip(l, n).lost = l.lost
    BY <2>1, SkipFacts
  <2>3. c <= l.resync + n
    BY <2>1
  <2> QED BY <2>2, <2>3
<1>4. ASSUME NEW l \in K, NEW p \in Full PROVE Accept(l, p) \in K
  <2>1. /\ l \in Links /\ p \in Packet /\ l.lost \in Nat /\ l.out \in Seq(Packet)
        /\ l.last \in Nat \cup {NoSeq} /\ p.seq \in 0..(Modulus - 1)
    BY DEF Links, Full, Packet
  <2>2. PICK e \in Nat : e = Gap(l.last, p.seq)
    <3>1. Gap(l.last, p.seq) \in 0..(GapLimit - 1)
      BY <2>1, GapFacts
    <3> QED BY <3>1, ModulusFacts
  <2>3. /\ Accept(l, p) \in Links /\ Accept(l, p).lost = l.lost + e
        /\ Accept(l, p).out = Append(l.out, p) /\ Accept(l, p).resync = l.resync
    BY <2>1, <2>2, AcceptFacts
  <2>4. a <= l.lost + e
    BY <2>1
  <2>5. PICK f \in Seq(Packet) : f = l.out /\ m <= Len(f) /\ \A j \in 1..m : f[j] = o[j]
    BY <2>1
  <2>6. /\ Len(Append(f, p)) = Len(f) + 1
        /\ \A j \in 1..Len(f) : Append(f, p)[j] = f[j]
    BY <2>1, AppendProperties
  <2>7. m <= Len(Append(f, p)) /\ \A j \in 1..m : Append(f, p)[j] = o[j]
    <3>1. PICK u \in Nat : u = Len(f)
      OBVIOUS
    <3>2. m <= u + 1 /\ \A j \in 1..m : j \in 1..u
      BY <2>5, <3>1
    <3> QED BY <2>5, <2>6, <3>1, <3>2
  <2> QED BY <2>3, <2>4, <2>5, <2>7
<1>5. K \in SUBSET Links
  OBVIOUS
<1>6. buf \o wire \in Seq(Nat)
  BY AllCuttings
<1>7. x.link \in K
  <2> HIDE DEF K
  <2>1. Extract(buf \o wire, link).link \in K
    BY <1>2, <1>3, <1>4, <1>5, <1>6, LinkKeeps
  <2> QED BY <2>1
<1> QED BY <1>1, <1>7

LEMMA SyncMeans ==
  ASSUME DeviceTypes, LinkTypes, ReadInv, FullPackets, SyncInv
  PROVE  InSync
<1> SUFFICES ASSUME kind = "usb", damage = "none"
             PROVE  /\ Contiguous(link.out)
                    /\ wire = <<>> =>
                         link.out = From(PacketsSent, Len(sent) - Len(link.out) + 1)
                    /\ boot = 0 => link.lost = 0 /\ \E log \in Logs : link.resync <= Len(log)
  BY DEF InSync
<1>1. PICK x \in Cuttings : x = Extract(buf \o wire, link) /\ InSyncAt(x)
  BY AllCuttings DEF SyncInv
<1>2. PICK o \in Seq(Packet), m \in Nat : o = link.out /\ m = Len(o)
  BY DEF LinkTypes, Links
<1>3. PICK z \in Seq(Packet) :
        z = x.link.out /\ m <= Len(z) /\ \A j \in 1..m : z[j] = o[j]
  BY <1>1, <1>2, SoFar DEF Links
<1>4. PICK n \in Nat : n = Len(sent) /\ sent \in Seq(Record) /\ AllFull(sent)
                       /\ PacketsSent = PacketsOf(sent)
  BY SentFacts, SentFull
<1>5. PICK i \in 0..n : z = From(PacketsSent, i + 1)
  BY <1>1, <1>3, <1>4 DEF InSyncAt
<1>6. /\ PacketsSent \in Seq(Full) /\ Len(PacketsSent) = n
      /\ \A j \in 1..n : PacketsSent[j] = sent[j].packet
      /\ Len(z) = n - i /\ \A j \in 1..(n - i) : z[j] = sent[i + j].packet
  <2>1. i \in 0..Len(sent)
    BY <1>4
  <2>2. /\ PacketsOf(sent) \in Seq(Full) /\ Len(PacketsOf(sent)) = Len(sent)
        /\ \A j \in 1..Len(sent) : PacketsOf(sent)[j] = sent[j].packet
        /\ Len(From(PacketsOf(sent), i + 1)) = Len(sent) - i
        /\ \A j \in 1..(Len(sent) - i) :
             From(PacketsOf(sent), i + 1)[j] = sent[i + j].packet
    BY <1>4, <2>1, PacketsFrom
  <2> QED BY <1>4, <1>5, <2>2
<1>7. PICK P \in Seq(Packet) : P = PacketsSent /\ Len(P) = n
                               /\ \A j \in 1..n : P[j] = sent[j].packet
  BY <1>6, FullFacts
<1>8. Contiguous(link.out)
  <2>1. m <= n - i /\ i \in 0..(n - m)
    BY <1>3, <1>6
  <2>2. PICK a \in Int, c \in Int : a = i + 1 /\ c = i + m
    OBVIOUS
  <2>3. PICK d : d = SubSeq(P, a, c)
    OBVIOUS
  <2>4. \A j \in a..c : P[j] \in Packet
    <3>1. \A j \in a..c : j \in 1..n
      BY <2>1, <2>2
    <3> QED BY <1>7, <3>1, ElementOfSeq
  <2>5. /\ d \in Seq(Packet) /\ Len(d) = (IF a <= c THEN c - a + 1 ELSE 0)
        /\ \A j \in 1..(c - a + 1) : d[j] = P[a + j - 1]
    BY <1>7, <2>3, <2>4, SubSeqProperties
  <2>6. c - a + 1 = m /\ (IF a <= c THEN c - a + 1 ELSE 0) = m
    BY <2>2
  <2>7. ASSUME NEW j \in 1..m PROVE d[j] = o[j]
    <3>1. a + j - 1 = i + j /\ i + j \in 1..n /\ j \in 1..(n - i)
      BY <2>1, <2>2
    <3>2. d[j] = P[i + j]
      BY <2>5, <2>6, <3>1
    <3> QED BY <1>3, <1>6, <1>7, <3>1, <3>2
  <2>8. o = d
    BY <1>2, <2>5, <2>6, <2>7, SeqEqual
  <2> QED BY <1>2, <1>4, <1>7, <2>1, <2>2, <2>3, <2>8 DEF Contiguous
<1>9. ASSUME wire = <<>>
      PROVE  link.out = From(PacketsSent, Len(sent) - Len(link.out) + 1)
  <2>1. x.link = link
    <3>1. cells \in Seq(Nat) /\ buf \in Seq(Nat) /\ <<>> \in Seq(Nat)
      BY DEF LinkTypes
    <3>2. cells \o <<>> = cells
      BY <3>1, ConcatEmptySeq
    <3>3. Extract(cells, NoLink) = [buf |-> buf, link |-> link]
      BY DEF ReadInv
    <3>4. Extract(cells \o <<>>, NoLink) =
            Extract(Extract(cells, NoLink).buf \o <<>>, Extract(cells, NoLink).link)
      BY <3>1, ExtractConcat, CuttingsFacts
    <3>5. Extract(cells, NoLink).buf = buf /\ Extract(cells, NoLink).link = link
      BY <3>3
    <3>6. Extract(cells, NoLink) = Extract(buf \o wire, link)
      BY <1>9, <3>2, <3>4, <3>5
    <3> QED BY <1>1, <3>5, <3>6
  <2>2. o = z /\ m = n - i
    BY <1>2, <1>3, <1>6, <2>1
  <2>3. n - m + 1 = i + 1
    BY <2>2
  <2> QED BY <1>2, <1>4, <1>5, <2>2, <2>3
<1>10. ASSUME boot = 0 PROVE link.lost = 0 /\ \E log \in Logs : link.resync <= Len(log)
  <2>1. /\ link.lost \in Nat /\ link.resync \in Nat /\ x.link \in Links
        /\ link.lost <= x.link.lost /\ link.resync <= x.link.resync
    BY <1>1, SoFar DEF LinkTypes, Links
  <2>2. x.link.lost = 0 /\ x.link.resync \in Nat /\ x.buf \in Seq(Nat)
    BY <1>1, <1>10, CuttingsFacts DEF InSyncAt, Links
  <2>3. PICK log \in Logs : x.link.resync + Len(x.buf) <= Len(log)
    BY <1>1, <1>10 DEF InSyncAt
  <2>4. Len(log) \in Nat /\ Len(x.buf) \in Nat
    BY <2>2, LogFacts
  <2>5. link.resync <= Len(log)
    BY <2>1, <2>2, <2>3, <2>4
  <2> QED BY <2>1, <2>2, <2>5
<1> QED BY <1>8, <1>9, <1>10

\* A serial stream that begins with a boot log or a whole packet and loses nothing comes out
\* packet by packet as the device put it together, whatever the samples look like and however
\* it is cut up; nothing counts as lost, and no more as garbage than the boot log
\* (SensorLink._loop).  Where a magic stands in a boot log it need not hold: what follows it
\* may be taken for a header.
THEOREM CutWhereSent ==
  ASSUME QuietLogs
  PROVE  Spec => []InSync
<1>1. Init /\ DeviceTypes /\ FullPackets => Following /\ SyncInv
  BY SyncInit
<1>2. DeviceTypes /\ LinkTypes /\ FullPackets /\ Following /\ SyncInv /\ [Next]_vars =>
        Following' /\ SyncInv'
  BY FollowingStep, SyncStep
<1>3. DeviceTypes /\ LinkTypes /\ ReadInv /\ FullPackets /\ SyncInv => InSync
  BY SyncMeans
<1> QED BY <1>1, <1>2, <1>3, StreamTypes, AlwaysFull, PTL DEF Spec
=============================================================================

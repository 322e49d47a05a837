-------------------------- MODULE StreamPipeProofs ---------------------------
(***************************************************************************)
(* Theorems about StreamPipe, for every size of the FIFO, of the bursts,   *)
(* of the ring buffer and of the packets, every divider of the rate and    *)
(* every set of faults.                                                    *)
(***************************************************************************)
EXTENDS StreamPipe, SequenceTheorems, TLAPS

-----------------------------------------------------------------------------
(* The inductive invariants *)

Inc(s)      == \A i, j \in DOMAIN s : i < j => s[i] < s[j]
Below(S, T) == \A x \in S, y \in T : x < y
Carried(p)  == Range(p.samples)

\* A sample goes from the last of these places to the first.
Air(n) == UNION {Carried(n[k]) : k \in DOMAIN n}
Unborn == {n \in Nat : n > born}
Places == <<Range(got), Air(net), Range(collected), Range(ring), Range(burst), Range(fifo), Unborn>>

\* What is nearer to the collector was converted earlier.
Chain(f) == \A a, b \in 1..7 : a < b => Below(f[a], f[b])

InOrder(n) ==
  /\ \A k \in DOMAIN n : Inc(n[k].samples)
  /\ \A k, l \in DOMAIN n : k < l => Below(Carried(n[k]), Carried(n[l]))

\* No sample is in two places, and none overtakes another, within a place or between them:
\* what makes ReceivedInOrder inductive.
OrderInv ==
  /\ Inc(got) /\ Inc(collected) /\ Inc(ring) /\ Inc(burst) /\ Inc(fifo)
  /\ InOrder(net)
  /\ Chain(Places)

\* Packets keep the order of their numbers, and the collector's count never goes down.
NumberInv ==
  /\ last < seq /\ lost >= 0
  /\ last = NoSeq => got = <<>>
  /\ \A k \in DOMAIN net : /\ last < net[k].seq /\ net[k].seq < seq
                           /\ Len(net[k].samples) = PerPacket
  /\ \A k, l \in DOMAIN net : k < l => net[k].seq < net[l].seq

\* The sensor's task never reads more than the FIFO has.
BurstInv ==
  /\ avail <= Len(fifo)
  /\ pc # "push" => burst = <<>>

\* The conversions, and those of them that are kept, by number from one.
Ticks == [n \in Int |-> n]
Kept  == [n \in Int |-> 1 + (n - 1) * Decim]

\* s is what w has after its k-th.
Marks(s, w, k) == \A i \in DOMAIN s : s[i] = w[k + i]

\* How many are kept in the packets before number q.
First(q) == q * PerPacket

\* Samples put into the ring buffer, and samples taken out of the FIFO by then.
Stored        == First(seq) + Len(collected) + Len(ring)
TakenAt(n, p) == IF p = 0 THEN n * Decim ELSE (n - 1) * Decim + p
Taken         == TakenAt(Stored, phase)

Silent == dropped = 0 /\ overruns = 0 /\ ~blind

\* While no loss is counted and none has slipped by, every sample on the device is where its
\* number says, up to an overrun that nobody has seen yet.
ExactInv ==
  Silent =>
    /\ ovr # "seen"
    /\ Marks(collected, Kept, First(seq))
    /\ Marks(ring, Kept, First(seq) + Len(collected))
    /\ Marks(burst, Ticks, Taken)
    /\ ovr = "off" => /\ born = Taken + Len(burst) + Len(fifo)
                      /\ Marks(fifo, Ticks, Taken + Len(burst))

Even(s) == \A i \in 1..(Len(s) - 1) : s[i + 1] = s[i] + Decim

\* The same of the packets, and of what the collector has got while it misses nothing.
ExactNet ==
  Silent =>
    /\ \A k \in DOMAIN net : Marks(net[k].samples, Kept, First(net[k].seq))
    /\ lost = 0 => /\ Even(got)
                   /\ last # NoSeq => got # <<>> /\ got[Len(got)] = Kept[First(last + 1)]

-----------------------------------------------------------------------------
(* Sequences of numbers: taking from the front, adding at the end *)

\* The empty sequence.
LEMMA EmptyFacts ==
  /\ Inc(<<>>) /\ Range(<<>>) = {}
  /\ \A S : <<>> \in Seq(S)
BY DEF Inc, Range

\* Taking the first and adding one, of any sequence.
LEMMA SeqTypes ==
  ASSUME NEW S, NEW s \in Seq(S)
  PROVE  /\ s # <<>> => /\ Tail(s) \in Seq(S) /\ Len(Tail(s)) = Len(s) - 1 /\ Head(s) \in S
         /\ \A x \in S : Append(s, x) \in Seq(S) /\ Len(Append(s, x)) = Len(s) + 1
         /\ s = <<>> <=> Len(s) = 0
         /\ Len(s) \in Nat
OBVIOUS

\* Any sequence cut in two.
LEMMA CutTypes ==
  ASSUME NEW S, NEW s \in Seq(S), NEW n \in 0..Len(s)
  PROVE  LET a == SubSeq(s, 1, n)
             b == SubSeq(s, n + 1, Len(s))
         IN /\ a \in Seq(S) /\ Len(a) = n /\ \A i \in 1..n : a[i] = s[i] /\ i \in DOMAIN s
            /\ b \in Seq(S) /\ Len(b) = Len(s) - n
            /\ \A i \in 1..(Len(s) - n) : b[i] = s[n + i] /\ n + i \in DOMAIN s
<1> DEFINE a == SubSeq(s, 1, n)
           b == SubSeq(s, n + 1, Len(s))
<1>1. /\ DOMAIN s = 1..Len(s) /\ Len(s) \in Nat /\ \A i \in DOMAIN s : s[i] \in S
  OBVIOUS
<1>2. a \in Seq(S) /\ Len(a) = n /\ \A i \in 1..n : a[i] = s[i] /\ i \in DOMAIN s
  BY <1>1, SubSeqProperties
<1>3. /\ b \in Seq(S) /\ Len(b) = Len(s) - n
      /\ \A i \in 1..(Len(s) - n) : b[i] = s[n + i] /\ n + i \in DOMAIN s
  <2>1. \A i \in (n + 1)..Len(s) : s[i] \in S
    BY <1>1
  <2>2. /\ b \in Seq(S)
        /\ Len(b) = IF n + 1 <= Len(s) THEN Len(s) - (n + 1) + 1 ELSE 0
        /\ \A i \in 1..(Len(s) - (n + 1) + 1) : b[i] = s[n + 1 + i - 1]
    BY <1>1, <2>1, SubSeqProperties
  <2>3. ASSUME NEW i \in 1..(Len(s) - n) PROVE b[i] = s[n + i] /\ n + i \in DOMAIN s
    <3>1. n + 1 + i - 1 = n + i /\ n + i \in DOMAIN s /\ i \in 1..(Len(s) - (n + 1) + 1)
      BY <1>1
    <3> QED BY <2>2, <3>1
  <2> HIDE DEF b
  <2>4. Len(b) = Len(s) - n
    <3>1. CASE n + 1 <= Len(s)
      BY <1>1, <2>2, <3>1
    <3>2. CASE ~(n + 1 <= Len(s))
      <4>1. Len(s) - n = 0
        <5>1. n \in Nat /\ n <= Len(s) /\ Len(s) \in Nat
          BY <1>1
        <5>2. \A m, k \in Nat : m <= k /\ ~(m + 1 <= k) => k - m = 0
          OBVIOUS
        <5> QED BY <3>2, <5>1, <5>2
      <4> QED BY <2>2, <3>2, <4>1
    <3> QED BY <3>1, <3>2
  <2> QED BY <2>2, <2>3, <2>4
<1> HIDE DEF a, b
<1> QED BY <1>2, <1>3 DEF a, b

\* What is first in an increasing sequence is less than all that remain.
LEMMA TailFacts ==
  ASSUME NEW S \in SUBSET Int, NEW s \in Seq(S), s # <<>>, Inc(s)
  PROVE  /\ Inc(Tail(s)) /\ Tail(s) \in Seq(S) /\ Head(s) \in S
         /\ Range(Tail(s)) \subseteq Range(s)
         /\ Head(s) \in Range(s)
         /\ Below({Head(s)}, Range(Tail(s)))
<1>1. /\ Tail(s) \in Seq(S) /\ DOMAIN Tail(s) = 1..(Len(s) - 1) /\ DOMAIN s = 1..Len(s)
      /\ Len(s) \in Nat /\ Len(s) > 0
      /\ \A i \in DOMAIN Tail(s) : Tail(s)[i] = s[i + 1] /\ i + 1 \in DOMAIN s
      /\ \A i \in DOMAIN s : s[i] \in S
      /\ Head(s) = s[1] /\ 1 \in DOMAIN s
  OBVIOUS
<1>2. Inc(Tail(s))
  BY <1>1 DEF Inc
<1>3. Range(Tail(s)) \subseteq Range(s) /\ Head(s) \in Range(s)
  BY <1>1 DEF Range
<1>4. Below({Head(s)}, Range(Tail(s)))
  BY <1>1 DEF Inc, Below, Range
<1> QED BY <1>1, <1>2, <1>3, <1>4

\* A greater number at the end leaves an increasing sequence increasing.
LEMMA AppendFacts ==
  ASSUME NEW S \in SUBSET Int, NEW s \in Seq(S), Inc(s), NEW x \in S, Below(Range(s), {x})
  PROVE  /\ Inc(Append(s, x)) /\ Append(s, x) \in Seq(S)
         /\ Range(Append(s, x)) = Range(s) \cup {x}
<1>1. /\ Append(s, x) \in Seq(S)
      /\ DOMAIN Append(s, x) = 1..(Len(s) + 1) /\ DOMAIN s = 1..Len(s) /\ Len(s) \in Nat
      /\ \A i \in DOMAIN s : Append(s, x)[i] = s[i] /\ s[i] \in S
      /\ Append(s, x)[Len(s) + 1] = x
  OBVIOUS
<1>2. \A i \in DOMAIN s : s[i] < x
  BY DEF Below, Range
<1>3. Inc(Append(s, x))
  BY <1>1, <1>2 DEF Inc
<1>4. Range(Append(s, x)) = Range(s) \cup {x}
  BY <1>1 DEF Range
<1> QED BY <1>1, <1>3, <1>4

\* Two increasing sequences, one after the other.
LEMMA ConcatFacts ==
  ASSUME NEW S \in SUBSET Int, NEW s \in Seq(S), NEW t \in Seq(S), Inc(s), Inc(t),
         Below(Range(s), Range(t))
  PROVE  /\ Inc(s \o t) /\ s \o t \in Seq(S)
         /\ Range(s \o t) = Range(s) \cup Range(t)
<1>1. /\ s \o t \in Seq(S) /\ Len(s) \in Nat /\ Len(t) \in Nat
      /\ DOMAIN (s \o t) = 1..(Len(s) + Len(t))
      /\ DOMAIN s = 1..Len(s) /\ DOMAIN t = 1..Len(t)
      /\ \A i \in DOMAIN s : (s \o t)[i] = s[i] /\ s[i] \in S
      /\ \A i \in DOMAIN (s \o t) : i > Len(s) =>
           (s \o t)[i] = t[i - Len(s)] /\ i - Len(s) \in DOMAIN t
      /\ \A i \in DOMAIN t : (s \o t)[i + Len(s)] = t[i] /\ t[i] \in S
  OBVIOUS
<1>2. \A i \in DOMAIN s, j \in DOMAIN t : s[i] < t[j]
  BY DEF Below, Range
<1>3. Inc(s \o t)
  <2> SUFFICES ASSUME NEW i \in DOMAIN (s \o t), NEW j \in DOMAIN (s \o t), i < j
               PROVE  (s \o t)[i] < (s \o t)[j]
    BY DEF Inc
  <2>1. CASE j <= Len(s)
    BY <1>1, <2>1 DEF Inc
  <2>2. CASE i <= Len(s) /\ j > Len(s)
    BY <1>1, <1>2, <2>2
  <2>3. CASE i > Len(s)
    BY <1>1, <2>3 DEF Inc
  <2> QED BY <1>1, <2>1, <2>2, <2>3
<1>4. Range(s \o t) = Range(s) \cup Range(t)
  <2>1. Range(s) \cup Range(t) \subseteq Range(s \o t)
    BY <1>1 DEF Range
  <2>2. Range(s \o t) \subseteq Range(s) \cup Range(t)
    BY <1>1 DEF Range
  <2> QED BY <2>1, <2>2
<1> QED BY <1>1, <1>3, <1>4

\* An increasing sequence cut in two.
LEMMA CutFacts ==
  ASSUME NEW S \in SUBSET Int, NEW s \in Seq(S), Inc(s), NEW n \in 0..Len(s)
  PROVE  LET a == SubSeq(s, 1, n)
             b == SubSeq(s, n + 1, Len(s))
         IN /\ a \in Seq(S) /\ b \in Seq(S) /\ Inc(a) /\ Inc(b)
            /\ Range(a) \subseteq Range(s) /\ Range(b) \subseteq Range(s)
            /\ Below(Range(a), Range(b))
            /\ Len(a) = n /\ Len(b) = Len(s) - n
<1> DEFINE a == SubSeq(s, 1, n)
           b == SubSeq(s, n + 1, Len(s))
<1>1. /\ DOMAIN s = 1..Len(s) /\ Len(s) \in Nat /\ \A i \in DOMAIN s : s[i] \in S
  OBVIOUS
<1>2. a \in Seq(S) /\ Len(a) = n /\ \A i \in 1..n : a[i] = s[i] /\ i \in DOMAIN s
  BY CutTypes
<1>3. /\ b \in Seq(S) /\ Len(b) = Len(s) - n
      /\ \A i \in 1..(Len(s) - n) : b[i] = s[n + i] /\ n + i \in DOMAIN s
  BY CutTypes
<1> HIDE DEF a, b
<1>d. DOMAIN a = 1..n /\ DOMAIN b = 1..(Len(s) - n)
  BY <1>2, <1>3
<1>4. Inc(a) /\ Inc(b)
  <2>1. \A i, j \in 1..n : i < j => a[i] < a[j]
    BY <1>2 DEF Inc
  <2>2. ASSUME NEW i \in 1..(Len(s) - n), NEW j \in 1..(Len(s) - n), i < j
        PROVE  b[i] < b[j]
    <3>1. n + i < n + j
      BY <1>1, <2>2
    <3> QED BY <1>3, <3>1 DEF Inc
  <2> QED BY <1>d, <2>1, <2>2 DEF Inc
<1>5. Range(a) \subseteq Range(s) /\ Range(b) \subseteq Range(s)
  <2>1. \A i \in DOMAIN a : a[i] \in Range(s)
    BY <1>2, <1>d DEF Range
  <2>2. \A i \in DOMAIN b : b[i] \in Range(s)
    BY <1>3, <1>d DEF Range
  <2> QED BY <2>1, <2>2 DEF Range
<1>6. Below(Range(a), Range(b))
  <2>1. \A i \in DOMAIN a, j \in DOMAIN b : a[i] < b[j]
    <3> SUFFICES ASSUME NEW i \in 1..n, NEW j \in 1..(Len(s) - n) PROVE a[i] < b[j]
      BY <1>d
    <3>1. i < n + j
      BY <1>1
    <3> QED BY <1>2, <1>3, <3>1 DEF Inc
  <2> QED BY <2>1 DEF Below, Range
<1> QED BY <1>2, <1>3, <1>4, <1>5, <1>6 DEF a, b

\* Samples P from the front of place c may join place a, the one before it; samples may
\* vanish from any place.
Hands(f, g, a, c, P) ==
  /\ c = a + 1 /\ P \subseteq f[c] /\ Below(P, g[c])
  /\ g[a] \subseteq f[a] \cup P /\ g[c] \subseteq f[c]
  /\ \A b \in 1..7 : b \notin {a, c} => g[b] \subseteq f[b]

\* What is handed on from place to place stays in order.
LEMMA Moved ==
  ASSUME NEW f, NEW g, NEW a \in 1..6, NEW z, NEW P, Chain(f), Hands(f, g, a, z, P)
  PROVE  Chain(g)
<1>0. /\ P \subseteq f[a + 1]
      /\ g[a] \subseteq f[a] \cup P /\ g[a + 1] \subseteq f[a + 1] /\ Below(P, g[a + 1])
      /\ \A b \in 1..7 : b \notin {a, a + 1} => g[b] \subseteq f[b]
  BY DEF Hands
<1> SUFFICES ASSUME NEW b \in 1..7, NEW c \in 1..7, b < c, NEW x \in g[b], NEW y \in g[c]
             PROVE  x < y
  BY DEF Chain, Below
<1>1. a + 1 \in 1..7 /\ a \in 1..7 /\ a < a + 1
  OBVIOUS
<1>2. \A d, e \in 1..7 : d < e => \A u \in f[d], v \in f[e] : u < v
  BY DEF Chain, Below
<1>3. CASE b = a /\ c = a + 1
  <2>1. CASE x \in f[a]
    BY <1>0, <1>1, <1>2, <1>3, <2>1
  <2>2. CASE x \in P
    BY <1>0, <1>3, <2>2 DEF Below
  <2> QED BY <1>0, <1>3, <2>1, <2>2
<1>4. CASE b = a /\ c # a + 1
  <2>1. y \in f[c] /\ c > a + 1 /\ (x \in f[a] \/ x \in f[a + 1])
    BY <1>0, <1>1, <1>4
  <2> QED BY <1>1, <1>2, <1>4, <2>1
<1>5. CASE b = a + 1
  <2>1. x \in f[b] /\ y \in f[c]
    BY <1>0, <1>1, <1>5
  <2> QED BY <1>2, <2>1
<1>6. CASE b \notin {a, a + 1}
  <2>1. x \in f[b]
    BY <1>0, <1>6
  <2>2. CASE c = a
    <3>1. (y \in f[a] \/ y \in f[a + 1]) /\ b < a /\ b < a + 1
      BY <1>0, <2>2
    <3> QED BY <1>1, <1>2, <2>1, <3>1
  <2>3. CASE c # a
    <3>1. y \in f[c]
      BY <1>0, <1>1, <2>3
    <3> QED BY <1>2, <2>1, <3>1
  <2> QED BY <2>2, <2>3
<1> QED BY <1>3, <1>4, <1>5, <1>6

-----------------------------------------------------------------------------
(* Types *)

\* What is read at once is what the FIFO has of it.
LEMMA WantFits ==
  ASSUME TypeOK, avail > 0
  PROVE  Want \in 1..BurstMax /\ Want <= avail
BY StreamAssumption DEF Want, TypeOK

\* BurstInv survives every step.
LEMMA BurstStep == ASSUME TypeOK, BurstInv, [Next]_vars PROVE BurstInv'
<1> USE StreamAssumption DEF BurstInv, TypeOK
<1>1. CASE Convert
  <2>1. UNCHANGED <<pc, avail, burst>>
    BY <1>1 DEF Convert, taskVars
  <2>2. Len(fifo') >= Len(fifo)
    <3>1. CASE Len(fifo) < FifoSize
      BY <1>1, <3>1 DEF Convert
    <3>2. CASE Len(fifo) = FifoSize
      <4>1. fifo # <<>>
        BY <3>2
      <4>2. Len(Tail(fifo)) = Len(fifo) - 1 /\ Tail(fifo) \in Seq(Samples)
        BY <4>1
      <4>3. Len(Append(Tail(fifo), born + 1)) = Len(fifo)
        BY <4>2
      <4> QED BY <1>1, <3>2, <4>3 DEF Convert
    <3> QED BY <1>1, <3>1, <3>2 DEF Convert
  <2> QED BY <2>1, <2>2
<1>2. CASE Wake \/ Status
  BY <1>2 DEF Wake, Status, sensorVars
<1>3. CASE ReadBurst
  <2>1. CASE pc' = "push"
    <3>1. Want \in Nat /\ Want <= avail /\ avail \in Nat /\ avail <= Len(fifo)
      BY <1>3, WantFits DEF ReadBurst
    <3>2. Len(fifo') = Len(fifo) - Want
      BY <1>3, <2>1, <3>1, SubSeqProperties DEF ReadBurst
    <3>3. avail' = avail - Want
      BY <1>3, <2>1 DEF ReadBurst
    <3> QED BY <2>1, <3>1, <3>2, <3>3
  <2>2. CASE pc' = "end" /\ UNCHANGED <<burst, fifo, avail>>
    BY <1>3, <2>2 DEF ReadBurst
  <2> QED BY <1>3, <2>1, <2>2 DEF ReadBurst
<1>4. CASE Push
  <2>1. UNCHANGED <<fifo, avail>>
    BY <1>4 DEF Push, sensorVars
  <2>2. pc' # "push" => burst' = <<>>
    <3>1. CASE Len(burst) = 1
      <4>1. burst # <<>> /\ burst \in Seq(Samples)
        BY <1>4 DEF Push
      <4>2. Tail(burst) \in Seq(Samples) /\ Len(Tail(burst)) = 0
        BY <3>1, <4>1, SeqTypes
      <4> QED BY <1>4, <4>2, SeqTypes DEF Push
    <3>2. CASE Len(burst) # 1
      BY <1>4, <3>2 DEF Push
    <3> QED BY <3>1, <3>2
  <2> QED BY <2>1, <2>2
<1>5. CASE DrainEnds
  BY <1>5 DEF DrainEnds, sensorVars
<1>6. CASE TxReceive \/ TxSend \/ NetLoses \/ Receive \/ UNCHANGED vars
  BY <1>6 DEF TxReceive, TxSend, NetLoses, Receive, vars, sensorVars, taskVars
<1> QED BY <1>1, <1>2, <1>3, <1>4, <1>5, <1>6 DEF Next, SensorTask, TxTask

\* The types survive every step of the sensor and of its task ...
LEMMA SensorTypes ==
  ASSUME TypeOK, BurstInv, Convert \/ SensorTask PROVE TypeOK'
<1>a. /\ FifoSize \in Nat \ {0} /\ BurstMax \in Nat \ {0} /\ RingSize \in Nat \ {0}
      /\ MaxSamples \in Nat /\ MaxOverruns \in Nat /\ Decim \in Nat \ {0}
  BY StreamAssumption
<1>1. CASE Convert
  <2>1. born + 1 \in Samples /\ born' \in 0..MaxSamples
    BY <1>1, <1>a DEF Convert, TypeOK, Samples
  <2>2. fifo' \in Seq(Samples) /\ Len(fifo') <= FifoSize /\ ovr' \in {"off", "new", "seen"}
    <3>1. CASE Len(fifo) < FifoSize /\ fifo' = Append(fifo, born + 1) /\ UNCHANGED ovr
      BY <1>a, <2>1, <3>1, SeqTypes DEF TypeOK
    <3>2. CASE Len(fifo) = FifoSize /\ fifo' = Append(Tail(fifo), born + 1) /\ ovr' = "new"
      <4>1. fifo # <<>>
        BY <1>a, <3>2
      <4>2. Tail(fifo) \in Seq(Samples) /\ Len(Tail(fifo)) = Len(fifo) - 1
        BY <4>1, SeqTypes DEF TypeOK
      <4> QED BY <1>a, <2>1, <3>2, <4>2, SeqTypes DEF TypeOK
    <3> QED BY <1>1, <3>1, <3>2 DEF Convert
  <2> QED
    BY <1>1, <2>1, <2>2
       DEF Convert, TypeOK, taskVars, statVars, txVars, netVars, rxVars
<1>2. CASE Wake
  BY <1>2 DEF Wake, TypeOK, sensorVars, statVars, txVars, netVars, rxVars
<1>3. CASE Status
  <2>1. avail' \in 0..FifoSize
    BY <1>3, <1>a DEF Status, TypeOK
  <2>2. overruns' \in 0..MaxOverruns /\ ovr' \in {"off", "new", "seen"}
    BY <1>3, <1>a DEF Status, TypeOK
  <2> QED BY <1>3, <2>1, <2>2 DEF Status, TypeOK, txVars, netVars, rxVars
<1>4. CASE ReadBurst
  <2>1. Want \in 1..BurstMax /\ Want <= avail /\ avail <= Len(fifo) /\ avail \in 0..FifoSize
    BY <1>4, WantFits DEF ReadBurst, BurstInv, TypeOK
  <2>2. fifo \in Seq(Samples) /\ Len(fifo) <= FifoSize /\ Len(fifo) \in Nat
    BY DEF TypeOK
  <2>3. Want \in 0..Len(fifo)
    <3>1. Want \in Nat /\ Want <= Len(fifo)
      BY <1>a, <2>1, <2>2
    <3> QED BY <2>2, <3>1
  <2>4. /\ SubSeq(fifo, 1, Want) \in Seq(Samples) /\ Len(SubSeq(fifo, 1, Want)) = Want
        /\ SubSeq(fifo, Want + 1, Len(fifo)) \in Seq(Samples)
        /\ Len(SubSeq(fifo, Want + 1, Len(fifo))) = Len(fifo) - Want
    BY <2>2, <2>3, CutTypes
  <2>5. Len(SubSeq(fifo, Want + 1, Len(fifo))) <= FifoSize
    BY <1>a, <2>1, <2>2, <2>4
  <2>6. fifo' \in Seq(Samples) /\ Len(fifo') <= FifoSize
    BY <1>4, <2>2, <2>4, <2>5 DEF ReadBurst
  <2>7. /\ burst' \in Seq(Samples) /\ Len(burst') <= BurstMax
        /\ pc' = "push" => burst' # <<>>
    <3>1. CASE pc' = "push"
      <4>1. burst' = SubSeq(fifo, 1, Want)
        BY <1>4, <3>1 DEF ReadBurst
      <4>2. Len(burst') = Want /\ Want >= 1 /\ Want <= BurstMax /\ Len(<<>>) = 0
        BY <1>a, <2>1, <2>4, <4>1
      <4> QED BY <1>a, <2>1, <2>4, <4>1, <4>2
    <3>2. CASE pc' # "push"
      BY <1>4, <3>2 DEF ReadBurst, TypeOK
    <3> QED BY <3>1, <3>2
  <2>8. avail' \in 0..FifoSize /\ ovr' \in {"off", "new", "seen"} /\ blind' \in BOOLEAN
    <3>1. avail - Want \in 0..FifoSize
      BY <1>a, <2>1
    <3>2. blind \in BOOLEAN /\ (blind \/ ovr = "new") \in BOOLEAN
      BY DEF TypeOK
    <3> QED BY <1>4, <2>1, <3>1, <3>2 DEF ReadBurst, TypeOK
  <2>9. pc' \in {"push", "end"}
    BY <1>4 DEF ReadBurst
  <2> QED
    BY <1>4, <2>6, <2>7, <2>8, <2>9 DEF ReadBurst, TypeOK, statVars, txVars, netVars, rxVars
<1>5. CASE Push
  <2>1. burst # <<>> /\ burst \in Seq(Samples) /\ Len(burst) <= BurstMax
    BY <1>5 DEF Push, TypeOK
  <2>2. Tail(burst) \in Seq(Samples) /\ Len(Tail(burst)) = Len(burst) - 1
        /\ Head(burst) \in Samples /\ Len(burst) \in Nat
    BY <2>1, SeqTypes
  <2>3. /\ burst' \in Seq(Samples) /\ Len(burst') <= BurstMax
        /\ pc' = "push" => burst' # <<>>
        /\ pc' \in {"drain", "push"}
    <3>1. Len(burst) - 1 <= BurstMax /\ (Len(burst) # 1 => Len(burst) - 1 # 0)
      BY <1>a, <2>1, <2>2
    <3>2. burst' = Tail(burst) /\ pc' = IF Len(burst) = 1 THEN "drain" ELSE "push"
      BY <1>5 DEF Push
    <3> QED BY <2>2, <3>1, <3>2, SeqTypes
  <2>4. ring' \in Seq(Samples) /\ Len(ring') <= RingSize
    <3>1. CASE ring' = ring
      BY <3>1 DEF TypeOK
    <3>2. CASE Len(ring) < RingSize /\ ring' = Append(ring, Head(burst))
      BY <1>a, <2>2, <3>2, SeqTypes DEF TypeOK
    <3> QED BY <1>5, <3>1, <3>2 DEF Push
  <2>5. dropped' \in Nat
    BY <1>5 DEF Push, DropCounted, TypeOK
  <2>6. phase' \in 0..(Decim - 1)
    BY <1>5, <1>a DEF Push, TypeOK
  <2> QED
    BY <1>5, <2>3, <2>4, <2>5, <2>6 DEF Push, TypeOK, sensorVars, txVars, netVars, rxVars
<1>6. CASE DrainEnds
  BY <1>6, <1>a DEF DrainEnds, TypeOK, sensorVars, statVars, txVars, netVars, rxVars
<1> QED BY <1>1, <1>2, <1>3, <1>4, <1>5, <1>6 DEF SensorTask

\* ... and every other step.
LEMMA TypeStep == ASSUME TypeOK, BurstInv, [Next]_vars PROVE TypeOK'
<1>a. PerPacket \in Nat \ {0} /\ MaxLost \in Nat
  BY StreamAssumption
<1>1. CASE Convert \/ SensorTask
  BY <1>1, SensorTypes
<1>2. CASE TxReceive
  <2>1. ring \in Seq(Samples) /\ ring # <<>> /\ collected \in Seq(Samples)
    BY <1>2 DEF TxReceive, TypeOK
  <2>2. /\ Tail(ring) \in Seq(Samples) /\ Len(Tail(ring)) = Len(ring) - 1
        /\ Head(ring) \in Samples /\ Len(ring) \in Nat
    BY <2>1, SeqTypes
  <2>3. ring' \in Seq(Samples) /\ Len(ring') <= RingSize
    BY <1>2, <2>2, StreamAssumption DEF TxReceive, RingAfterReceive, TypeOK
  <2>4. collected' \in Seq(Samples) /\ Len(collected') <= PerPacket
    BY <1>2, <1>a, <2>1, <2>2, SeqTypes DEF TxReceive
  <2> QED
    BY <1>2, <2>3, <2>4 DEF TxReceive, TypeOK, sensorVars, taskVars, statVars, netVars, rxVars
<1>3. CASE TxSend
  <2>1. seq' \in Nat /\ collected' = <<>>
    BY <1>3 DEF TxSend, TypeOK
  <2>2. <<>> \in Seq(Samples) /\ Len(<<>>) <= PerPacket
    BY <1>a
  <2>3. net' \in Seq(Packets)
    <3>1. [seq |-> seq, samples |-> collected] \in Packets
      BY DEF Packets, TypeOK
    <3> QED BY <1>3, <3>1, SeqTypes DEF TxSend, TypeOK
  <2> QED
    BY <1>3, <2>1, <2>2, <2>3
       DEF TxSend, TypeOK, sensorVars, taskVars, statVars, rxVars
<1>4. CASE NetLoses
  <2>1. net' \in Seq(Packets) /\ netLost' \in 0..MaxLost
    BY <1>4, <1>a, SeqTypes DEF NetLoses, TypeOK
  <2> QED BY <1>4, <2>1 DEF NetLoses, TypeOK, sensorVars, taskVars, statVars, txVars, rxVars
<1>5. CASE Receive
  <2>1. Head(net) \in Packets /\ Tail(net) \in Seq(Packets)
    BY <1>5, SeqTypes DEF Receive, TypeOK
  <2>2. Head(net).seq \in Nat /\ Head(net).samples \in Seq(Samples)
    BY <2>1 DEF Packets
  <2>3. got' \in Seq(Samples)
    BY <1>5, <2>2, ConcatProperties DEF Receive, TypeOK
  <2>4. last' \in Nat \cup {NoSeq} /\ lost' \in Int
    BY <1>5, <2>2 DEF Receive, Gap, NoSeq, TypeOK
  <2> QED
    BY <1>5, <2>1, <2>3, <2>4
       DEF Receive, TypeOK, sensorVars, taskVars, statVars, txVars
<1>6. CASE UNCHANGED vars
  BY <1>6 DEF vars, TypeOK, sensorVars, taskVars, statVars, txVars, netVars, rxVars
<1> QED BY <1>1, <1>2, <1>3, <1>4, <1>5, <1>6 DEF Next, TxTask

\* Every variable keeps to its type, and no burst is longer than the FIFO is full.
THEOREM TypeCorrect == Spec => [](TypeOK /\ BurstInv)
<1>1. ASSUME Init PROVE TypeOK /\ BurstInv
  <2>1. \A S : <<>> \in Seq(S) /\ Len(<<>>) = 0
    OBVIOUS
  <2>2. /\ FifoSize \in Nat /\ BurstMax \in Nat /\ RingSize \in Nat /\ PerPacket \in Nat
        /\ 0 \in 0..MaxSamples /\ 0 \in 0..FifoSize /\ 0 \in 0..(Decim - 1)
        /\ 0 \in 0..MaxOverruns /\ 0 \in 0..MaxLost
    BY StreamAssumption
  <2>3. /\ fifo = <<>> /\ burst = <<>> /\ ring = <<>> /\ collected = <<>> /\ net = <<>>
        /\ got = <<>>
    BY <1>1 DEF Init
  <2>4. /\ fifo \in Seq(Samples) /\ Len(fifo) <= FifoSize
        /\ burst \in Seq(Samples) /\ Len(burst) <= BurstMax
        /\ ring \in Seq(Samples) /\ Len(ring) <= RingSize
        /\ collected \in Seq(Samples) /\ Len(collected) <= PerPacket
        /\ net \in Seq(Packets) /\ got \in Seq(Samples)
    BY <2>1, <2>2, <2>3
  <2>5. /\ born \in 0..MaxSamples /\ avail \in 0..FifoSize /\ phase \in 0..(Decim - 1)
        /\ overruns \in 0..MaxOverruns /\ netLost \in 0..MaxLost
        /\ dropped \in Nat /\ seq \in Nat /\ lost \in Int /\ last \in Nat \cup {NoSeq}
    BY <1>1, <2>2 DEF Init
  <2>6. pc = "wait" /\ ovr = "off" /\ blind = FALSE
    BY <1>1 DEF Init
  <2>7. TypeOK
    BY <2>4, <2>5, <2>6 DEF TypeOK
  <2> QED BY <1>1, <2>1, <2>3, <2>7 DEF Init, BurstInv
<1> QED BY <1>1, TypeStep, BurstStep, PTL DEF Spec

-----------------------------------------------------------------------------
(* The order of the samples *)

\* The first packet leaves the network; what it carries comes before all that stays.
LEMMA NetTail ==
  ASSUME NEW n \in Seq(Packets), n # <<>>, InOrder(n)
  PROVE  /\ InOrder(Tail(n)) /\ Air(Tail(n)) \subseteq Air(n)
         /\ Head(n) \in Packets /\ Inc(Head(n).samples) /\ Carried(Head(n)) \subseteq Air(n)
         /\ Below(Carried(Head(n)), Air(Tail(n)))
<1>1. /\ DOMAIN Tail(n) = 1..(Len(n) - 1) /\ DOMAIN n = 1..Len(n) /\ Len(n) \in Nat
      /\ Head(n) = n[1] /\ 1 \in DOMAIN n /\ Head(n) \in Packets
      /\ \A k \in DOMAIN Tail(n) : Tail(n)[k] = n[k + 1] /\ k + 1 \in DOMAIN n
  OBVIOUS
<1>2. \A k \in DOMAIN Tail(n) : Tail(n)[k] = n[k + 1] /\ k + 1 \in DOMAIN n /\ 1 < k + 1
  BY <1>1
<1>3. \A k, l \in DOMAIN Tail(n) : k < l => k + 1 < l + 1
  BY <1>1
<1>4. InOrder(Tail(n))
  BY <1>2, <1>3 DEF InOrder
<1>5. Air(Tail(n)) \subseteq Air(n) /\ Carried(Head(n)) \subseteq Air(n)
  BY <1>1 DEF Air
<1>6. Below(Carried(Head(n)), Air(Tail(n)))
  BY <1>1, <1>2 DEF InOrder, Air, Below
<1> QED BY <1>1, <1>4, <1>5, <1>6 DEF InOrder

\* A packet joins the network, with samples that come after all that is there.
LEMMA NetAppend ==
  ASSUME NEW n \in Seq(Packets), NEW p \in Packets, InOrder(n), Inc(p.samples),
         Below(Air(n), Carried(p))
  PROVE  InOrder(Append(n, p)) /\ Air(Append(n, p)) \subseteq Air(n) \cup Carried(p)
<1>1. /\ DOMAIN Append(n, p) = 1..(Len(n) + 1) /\ DOMAIN n = 1..Len(n) /\ Len(n) \in Nat
      /\ \A k \in DOMAIN n : Append(n, p)[k] = n[k]
      /\ Append(n, p)[Len(n) + 1] = p
  OBVIOUS
<1>2. \A k \in DOMAIN Append(n, p) : k \in DOMAIN n \/ k = Len(n) + 1
  BY <1>1
<1>3. Air(Append(n, p)) \subseteq Air(n) \cup Carried(p)
  BY <1>1, <1>2 DEF Air
<1>4. \A k \in DOMAIN n : Below(Carried(n[k]), Carried(p))
  BY DEF Air, Below
<1>5. \A k \in DOMAIN Append(n, p) : Inc(Append(n, p)[k].samples)
  BY <1>1, <1>2 DEF InOrder
<1>6. ASSUME NEW k \in DOMAIN Append(n, p), NEW l \in DOMAIN Append(n, p), k < l
      PROVE  Below(Carried(Append(n, p)[k]), Carried(Append(n, p)[l]))
  <2>1. k \in DOMAIN n
    BY <1>1, <1>6
  <2> QED BY <1>1, <1>2, <1>4, <1>6, <2>1 DEF InOrder
<1> QED BY <1>3, <1>5, <1>6 DEF InOrder

\* What the seven places hold.
LEMMA PlacesHold ==
  /\ Places[1] = Range(got) /\ Places[2] = Air(net) /\ Places[3] = Range(collected)
  /\ Places[4] = Range(ring) /\ Places[5] = Range(burst) /\ Places[6] = Range(fifo)
  /\ Places[7] = Unborn
BY DEF Places

\* What place a hands over is greater than all that place b has, when b is nearer to the
\* collector.
LEMMA Earlier ==
  ASSUME Chain(Places), NEW a \in 1..7, NEW b \in 1..7, a < b
  PROVE  Below(Places[a], Places[b])
BY DEF Chain

\* The samples' numbers are integers.
LEMMA SamplesInt == Samples \in SUBSET Int
BY StreamAssumption DEF Samples

\* The order survives what the sensor and its task do ...
LEMMA SensorOrder ==
  ASSUME TypeOK, BurstInv, OrderInv, Convert \/ SensorTask PROVE OrderInv'
<1>0. /\ fifo \in Seq(Samples) /\ burst \in Seq(Samples) /\ ring \in Seq(Samples)
      /\ born \in 0..MaxSamples
      /\ Inc(fifo) /\ Inc(burst) /\ Inc(ring) /\ Inc(got) /\ Inc(collected) /\ InOrder(net)
      /\ Chain(Places)
  BY DEF TypeOK, OrderInv
<1>1. CASE Convert
  <2>1. /\ born' = born + 1 /\ born + 1 \in Samples
        /\ UNCHANGED <<got, net, collected, ring, burst>>
    BY <1>0, <1>1, StreamAssumption
       DEF Convert, Samples, taskVars, statVars, txVars, netVars, rxVars
  <2>2. Below(Range(fifo), {born + 1})
    <3>1. Below(Places[6], Places[7])
      BY <1>0, Earlier
    <3>2. born + 1 \in Unborn
      BY <1>0 DEF Unborn
    <3> QED BY <3>1, <3>2, PlacesHold DEF Below
  <2>3. /\ Inc(fifo') /\ Range(fifo') \subseteq Range(fifo) \cup {born + 1}
    <3>1. CASE fifo' = Append(fifo, born + 1)
      BY <1>0, <2>1, <2>2, <3>1, AppendFacts, SamplesInt
    <3>2. CASE Len(fifo) = FifoSize /\ fifo' = Append(Tail(fifo), born + 1)
      <4>1. fifo # <<>>
        <5>1. FifoSize # 0
          BY StreamAssumption
        <5> QED BY <1>0, <3>2, <5>1, SeqTypes
      <4>2. /\ Inc(Tail(fifo)) /\ Tail(fifo) \in Seq(Samples)
            /\ Range(Tail(fifo)) \subseteq Range(fifo)
        BY <1>0, <4>1, TailFacts, SamplesInt
      <4>3. Below(Range(Tail(fifo)), {born + 1})
        BY <2>2, <4>2 DEF Below
      <4>4. Inc(fifo') /\ Range(fifo') = Range(Tail(fifo)) \cup {born + 1}
        BY <2>1, <3>2, <4>2, <4>3, AppendFacts, SamplesInt
      <4> QED BY <4>2, <4>4
    <3> QED BY <1>1, <3>1, <3>2 DEF Convert
  <2>4. /\ Unborn' \subseteq Unborn /\ {born + 1} \subseteq Unborn
        /\ Below({born + 1}, Unborn')
    BY <1>0, <2>1 DEF Unborn, Below
  <2>5. Chain(Places')
    <3>1. /\ Places'[6] \subseteq Places[6] \cup {born + 1}
          /\ {born + 1} \subseteq Places[7] /\ Places'[7] \subseteq Places[7]
          /\ Below({born + 1}, Places'[7])
      BY <2>3, <2>4 DEF Places
    <3>2. \A b \in 1..7 : b \notin {6, 7} => Places'[b] \subseteq Places[b]
      BY <2>1 DEF Places
    <3> HIDE DEF Places
    <3>3. Hands(Places, Places', 6, 7, {born + 1})
      BY <3>1, <3>2 DEF Hands
    <3>4. 6 \in 1..6
      OBVIOUS
    <3> QED BY <1>0, <3>3, <3>4, Moved
  <2> QED BY <1>0, <2>1, <2>3, <2>5 DEF OrderInv
<1>2. CASE Wake \/ Status \/ DrainEnds
  <2>1. UNCHANGED <<got, net, collected, ring, burst, fifo, born>>
    BY <1>2 DEF Wake, Status, DrainEnds, sensorVars, txVars, netVars, rxVars
  <2> QED BY <2>1 DEF OrderInv, Places, Unborn
<1>3. CASE ReadBurst
  <2>1. /\ UNCHANGED <<got, net, collected, ring, born>>
        /\ pc = "drain" /\ burst = <<>>
    BY <1>3 DEF ReadBurst, BurstInv, statVars, txVars, netVars, rxVars
  <2>2. CASE UNCHANGED <<burst, fifo>>
    BY <2>1, <2>2 DEF OrderInv, Places, Unborn
  <2>3. CASE burst' = SubSeq(fifo, 1, Want) /\ fifo' = SubSeq(fifo, Want + 1, Len(fifo))
    <3>1. Want \in 0..Len(fifo)
      <4>1. Want \in 1..BurstMax /\ Want <= avail /\ avail <= Len(fifo) /\ avail \in Nat
        BY <1>3, WantFits DEF ReadBurst, BurstInv, TypeOK
      <4>2. Want \in Nat /\ Want <= Len(fifo) /\ Len(fifo) \in Nat
        BY <1>0, <4>1, StreamAssumption, SeqTypes
      <4> QED BY <4>2
    <3>2. /\ Inc(burst') /\ Inc(fifo') /\ Below(Range(burst'), Range(fifo'))
          /\ Range(burst') \subseteq Range(fifo) /\ Range(fifo') \subseteq Range(fifo)
      BY <1>0, <2>3, <3>1, CutFacts, SamplesInt
    <3>3. Chain(Places')
      <4>1. /\ Places'[5] \subseteq Places[5] \cup Range(burst')
            /\ Range(burst') \subseteq Places[6] /\ Places'[6] \subseteq Places[6]
            /\ Below(Range(burst'), Places'[6])
        BY <3>2 DEF Places
      <4>2. \A b \in 1..7 : b \notin {5, 6} => Places'[b] \subseteq Places[b]
        BY <2>1 DEF Places, Unborn
      <4> HIDE DEF Places
      <4>3. Hands(Places, Places', 5, 6, Range(burst'))
        BY <4>1, <4>2 DEF Hands
      <4>4. 5 \in 1..6
        OBVIOUS
      <4> QED BY <1>0, <4>3, <4>4, Moved
    <3> QED BY <1>0, <2>1, <3>2, <3>3 DEF OrderInv
  <2> QED BY <1>3, <2>2, <2>3 DEF ReadBurst
<1>4. CASE Push
  <2>1. /\ UNCHANGED <<got, net, collected, fifo, born>>
        /\ burst' = Tail(burst) /\ burst # <<>>
        /\ ring' = ring \/ ring' = Append(ring, Head(burst))
    BY <1>4 DEF Push, TypeOK, sensorVars, txVars, netVars, rxVars
  <2>2. /\ Inc(burst') /\ Range(burst') \subseteq Range(burst) /\ Head(burst) \in Samples
        /\ Head(burst) \in Range(burst) /\ Below({Head(burst)}, Range(burst'))
    BY <1>0, <2>1, TailFacts, SamplesInt
  <2>3. Below(Range(ring), {Head(burst)})
    <3>1. Below(Places[4], Places[5])
      BY <1>0, Earlier
    <3> QED BY <2>2, <3>1, PlacesHold DEF Below
  <2>4. Inc(ring') /\ Range(ring') \subseteq Range(ring) \cup {Head(burst)}
    <3>1. CASE ring' = ring
      BY <1>0, <3>1
    <3>2. CASE ring' = Append(ring, Head(burst))
      BY <1>0, <2>2, <2>3, <3>2, AppendFacts, SamplesInt
    <3> QED BY <2>1, <3>1, <3>2
  <2>5. Chain(Places')
    <3>1. /\ Places'[4] \subseteq Places[4] \cup {Head(burst)}
          /\ {Head(burst)} \subseteq Places[5] /\ Places'[5] \subseteq Places[5]
          /\ Below({Head(burst)}, Places'[5])
      BY <2>2, <2>4 DEF Places
    <3>2. \A b \in 1..7 : b \notin {4, 5} => Places'[b] \subseteq Places[b]
      BY <2>1 DEF Places, Unborn
    <3> HIDE DEF Places
    <3>3. Hands(Places, Places', 4, 5, {Head(burst)})
      BY <3>1, <3>2 DEF Hands
    <3>4. 4 \in 1..6
      OBVIOUS
    <3> QED BY <1>0, <3>3, <3>4, Moved
  <2> QED BY <1>0, <2>1, <2>2, <2>4, <2>5 DEF OrderInv
<1> QED BY <1>1, <1>2, <1>3, <1>4 DEF SensorTask

\* ... and every other step.
LEMMA OrderStep ==
  ASSUME TypeOK, BurstInv, OrderInv, [Next]_vars PROVE OrderInv'
<1>0. /\ ring \in Seq(Samples) /\ collected \in Seq(Samples) /\ got \in Seq(Samples)
      /\ net \in Seq(Packets) /\ seq \in Nat
      /\ Inc(fifo) /\ Inc(burst) /\ Inc(ring) /\ Inc(got) /\ Inc(collected) /\ InOrder(net)
      /\ Chain(Places)
  BY DEF TypeOK, OrderInv
<1>1. CASE Convert \/ SensorTask
  BY <1>1, SensorOrder
<1>2. CASE TxReceive
  <2>1. /\ UNCHANGED <<got, net, burst, fifo, born>>
        /\ ring # <<>> /\ ring' = Tail(ring) /\ collected' = Append(collected, Head(ring))
    BY <1>2 DEF TxReceive, RingAfterReceive, sensorVars, taskVars, netVars, rxVars
  <2>2. /\ Inc(ring') /\ Range(ring') \subseteq Range(ring) /\ Head(ring) \in Samples
        /\ Head(ring) \in Range(ring) /\ Below({Head(ring)}, Range(ring'))
    BY <1>0, <2>1, TailFacts, SamplesInt
  <2>3. Below(Range(collected), {Head(ring)})
    <3>1. Below(Places[3], Places[4])
      BY <1>0, Earlier
    <3> QED BY <2>2, <3>1, PlacesHold DEF Below
  <2>4. Inc(collected') /\ Range(collected') \subseteq Range(collected) \cup {Head(ring)}
    BY <1>0, <2>1, <2>2, <2>3, AppendFacts, SamplesInt
  <2>5. Chain(Places')
    <3>1. /\ Places'[3] \subseteq Places[3] \cup {Head(ring)}
          /\ {Head(ring)} \subseteq Places[4] /\ Places'[4] \subseteq Places[4]
          /\ Below({Head(ring)}, Places'[4])
      BY <2>2, <2>4 DEF Places
    <3>2. \A b \in 1..7 : b \notin {3, 4} => Places'[b] \subseteq Places[b]
      BY <2>1 DEF Places, Unborn
    <3> HIDE DEF Places
    <3>3. Hands(Places, Places', 3, 4, {Head(ring)})
      BY <3>1, <3>2 DEF Hands
    <3>4. 3 \in 1..6
      OBVIOUS
    <3> QED BY <1>0, <3>3, <3>4, Moved
  <2> QED BY <1>0, <2>1, <2>2, <2>4, <2>5 DEF OrderInv
<1>3. CASE TxSend
  <2> DEFINE p == [seq |-> seq, samples |-> collected]
  <2>1. /\ UNCHANGED <<got, ring, burst, fifo, born>>
        /\ collected' = <<>>
        /\ net' = net \/ net' = Append(net, p)
    BY <1>3 DEF TxSend, sensorVars, taskVars, rxVars
  <2>2. p \in Packets /\ p.samples = collected /\ Carried(p) = Range(collected)
    BY <1>0 DEF Packets, Carried
  <2> HIDE DEF p
  <2>3. Below(Air(net), Carried(p))
    <3>1. Below(Places[2], Places[3])
      BY <1>0, Earlier
    <3> QED BY <2>2, <3>1, PlacesHold
  <2>4. InOrder(net') /\ Air(net') \subseteq Air(net) \cup Range(collected)
    BY <1>0, <2>1, <2>2, <2>3, NetAppend
  <2>5. Inc(collected') /\ Range(collected') = {}
    BY <2>1, EmptyFacts
  <2>6. Chain(Places')
    <3>1. /\ Places'[2] \subseteq Places[2] \cup Range(collected)
          /\ Range(collected) \subseteq Places[3] /\ Places'[3] \subseteq Places[3]
          /\ Below(Range(collected), Places'[3])
      BY <2>4, <2>5 DEF Places, Below
    <3>2. \A b \in 1..7 : b \notin {2, 3} => Places'[b] \subseteq Places[b]
      BY <2>1 DEF Places, Unborn
    <3> HIDE DEF Places
    <3>3. Hands(Places, Places', 2, 3, Range(collected))
      BY <3>1, <3>2 DEF Hands
    <3>4. 2 \in 1..6
      OBVIOUS
    <3> QED BY <1>0, <3>3, <3>4, Moved
  <2> QED BY <1>0, <2>1, <2>4, <2>5, <2>6 DEF OrderInv
<1>4. CASE NetLoses \/ Receive
  <2> DEFINE p == Head(net)
  <2>1. /\ UNCHANGED <<collected, ring, burst, fifo, born>>
        /\ net # <<>> /\ net' = Tail(net)
        /\ got' = got \/ got' = got \o p.samples
    BY <1>4 DEF NetLoses, Receive, sensorVars, taskVars, txVars, rxVars
  <2>2. /\ InOrder(net') /\ Air(net') \subseteq Air(net)
        /\ p \in Packets /\ Inc(p.samples) /\ Carried(p) \subseteq Air(net)
        /\ Below(Carried(p), Air(net'))
    BY <1>0, <2>1, NetTail
  <2>3. p.samples \in Seq(Samples)
    BY <2>2 DEF Packets
  <2>4. Below(Range(got), Range(p.samples))
    <3>1. Below(Places[1], Places[2])
      BY <1>0, Earlier
    <3> QED BY <2>2, <3>1, PlacesHold DEF Below, Carried
  <2> HIDE DEF p
  <2>5. Inc(got') /\ Range(got') \subseteq Range(got) \cup Carried(p)
    BY <1>0, <2>1, <2>2, <2>3, <2>4, ConcatFacts, SamplesInt DEF Carried
  <2>6. Chain(Places')
    <3>1. /\ Places'[1] \subseteq Places[1] \cup Carried(p)
          /\ Carried(p) \subseteq Places[2] /\ Places'[2] \subseteq Places[2]
          /\ Below(Carried(p), Places'[2])
      BY <2>2, <2>5 DEF Places
    <3>2. \A b \in 1..7 : b \notin {1, 2} => Places'[b] \subseteq Places[b]
      BY <2>1 DEF Places, Unborn
    <3> HIDE DEF Places
    <3>3. Hands(Places, Places', 1, 2, Carried(p))
      BY <3>1, <3>2 DEF Hands
    <3>4. 1 \in 1..6
      OBVIOUS
    <3> QED BY <1>0, <3>3, <3>4, Moved
  <2> QED BY <1>0, <2>1, <2>2, <2>5, <2>6 DEF OrderInv
<1>5. CASE UNCHANGED vars
  <2>1. UNCHANGED <<got, net, collected, ring, burst, fifo, born>>
    BY <1>5 DEF vars, sensorVars, taskVars, txVars, netVars, rxVars
  <2> QED BY <2>1 DEF OrderInv, Places, Unborn
<1> QED BY <1>1, <1>2, <1>3, <1>4, <1>5 DEF Next, TxTask

\* The order of the samples at the start.
LEMMA OrderInit == Init => OrderInv
<1> SUFFICES ASSUME Init PROVE OrderInv
  OBVIOUS
<1>1. /\ got = <<>> /\ net = <<>> /\ collected = <<>> /\ ring = <<>> /\ burst = <<>>
      /\ fifo = <<>>
  BY DEF Init
<1>2. Inc(<<>>) /\ Range(<<>>) = {} /\ InOrder(<<>>) /\ Air(<<>>) = {}
  BY EmptyFacts DEF InOrder, Air
<1>3. \A a \in 1..6 : Places[a] = {}
  BY <1>1, <1>2 DEF Places
<1>4. \A a, b \in 1..7 : a < b => a \in 1..6
  OBVIOUS
<1>5. Chain(Places)
  BY <1>3, <1>4 DEF Chain, Below
<1> QED BY <1>1, <1>2, <1>5 DEF OrderInv

\* No sample is in two places and none overtakes another, anywhere between the sensor and
\* the collector.
THEOREM AlwaysOrderInv == Spec => []OrderInv
BY TypeCorrect, OrderInit, OrderStep, PTL DEF Spec

\* The collector gets samples in the order of conversion and none twice.
THEOREM AlwaysReceivedInOrder == Spec => []ReceivedInOrder
<1>1. OrderInv => ReceivedInOrder
  BY DEF OrderInv, Inc, ReceivedInOrder
<1> QED BY AlwaysOrderInv, <1>1, PTL

-----------------------------------------------------------------------------
(* The numbers of the packets *)

\* NumberInv survives every step.
LEMMA NumberStep == ASSUME TypeOK, NumberInv, [Next]_vars PROVE NumberInv'
<1>0. /\ net \in Seq(Packets) /\ seq \in Nat /\ last \in Nat \cup {NoSeq} /\ lost \in Int
      /\ collected \in Seq(Samples) /\ got \in Seq(Samples) /\ NoSeq = -1
  BY DEF TypeOK, NoSeq
<1>1. CASE Convert \/ SensorTask \/ TxReceive \/ UNCHANGED vars
  <2>1. UNCHANGED <<net, seq, last, lost, got>>
    BY <1>1 DEF Convert, SensorTask, Wake, Status, ReadBurst, Push, DrainEnds, TxReceive, vars,
                txVars, netVars, rxVars
  <2> QED BY <2>1 DEF NumberInv
<1>2. CASE TxSend
  <2> DEFINE p == [seq |-> seq, samples |-> collected]
  <2>1. /\ UNCHANGED <<last, lost, got>> /\ seq' = seq + 1 /\ Len(p.samples) = PerPacket
        /\ net' = net \/ net' = Append(net, p)
    BY <1>2 DEF TxSend, rxVars
  <2>2. p \in Packets /\ p.seq = seq
    BY <1>0 DEF Packets
  <2> HIDE DEF p
  <2>3. last' < seq' /\ lost' >= 0 /\ (last' = NoSeq => got' = <<>>)
    BY <1>0, <2>1 DEF NumberInv
  <2>4. \A k \in DOMAIN net : /\ last < net[k].seq /\ net[k].seq < seq /\ net[k].seq < seq'
                              /\ net[k].seq \in Nat /\ Len(net[k].samples) = PerPacket
    <3> TAKE k \in DOMAIN net
    <3>0. net[k] \in Packets
      BY <1>0
    <3>1. net[k].seq \in Nat
      BY <3>0 DEF Packets
    <3> QED BY <1>0, <2>1, <3>1 DEF NumberInv
  <2>5. CASE net' = net
    BY <2>1, <2>3, <2>4, <2>5 DEF NumberInv
  <2>6. CASE net' = Append(net, p)
    <3>1. /\ DOMAIN net' = 1..(Len(net) + 1) /\ DOMAIN net = 1..Len(net) /\ Len(net) \in Nat
          /\ \A k \in DOMAIN net : net'[k] = net[k]
          /\ net'[Len(net) + 1] = p
      BY <1>0, <2>2, <2>6
    <3>2. \A k \in DOMAIN net' : k \in DOMAIN net \/ k = Len(net) + 1
      BY <3>1
    <3>3. p.seq < seq' /\ last < p.seq
      BY <1>0, <2>1, <2>2 DEF NumberInv
    <3>4. \A k \in DOMAIN net' : /\ last < net'[k].seq /\ net'[k].seq < seq'
                                 /\ Len(net'[k].samples) = PerPacket
      BY <2>1, <2>4, <3>1, <3>2, <3>3
    <3>5. ASSUME NEW k \in DOMAIN net', NEW l \in DOMAIN net', k < l
          PROVE  net'[k].seq < net'[l].seq
      <4>1. k \in DOMAIN net
        BY <3>1, <3>5
      <4>2. CASE l \in DOMAIN net
        BY <3>1, <3>5, <4>1, <4>2 DEF NumberInv
      <4>3. CASE l = Len(net) + 1
        BY <2>2, <2>4, <3>1, <4>1, <4>3
      <4> QED BY <3>2, <4>2, <4>3
    <3> QED BY <2>1, <2>3, <3>4, <3>5 DEF NumberInv
  <2> QED BY <2>1, <2>5, <2>6
<1>3. CASE NetLoses \/ Receive
  <2>1. UNCHANGED seq /\ net # <<>> /\ net' = Tail(net)
    BY <1>3 DEF NetLoses, Receive, txVars
  <2>2. /\ DOMAIN net' = 1..(Len(net) - 1) /\ DOMAIN net = 1..Len(net) /\ Len(net) \in Nat
        /\ \A k \in DOMAIN net' : net'[k] = net[k + 1] /\ k + 1 \in DOMAIN net
        /\ Head(net) = net[1] /\ 1 \in DOMAIN net /\ Head(net) \in Packets
    BY <1>0, <2>1
  <2>3. \A k \in DOMAIN net' : 1 < k + 1
    BY <2>2
  <2>4. \A k, l \in DOMAIN net' : k < l => k + 1 < l + 1
    BY <2>2
  <2>5. \A k, l \in DOMAIN net' : k < l => net'[k].seq < net'[l].seq
    BY <2>2, <2>4 DEF NumberInv
  <2>6. CASE UNCHANGED <<last, lost, got>>
    BY <2>1, <2>2, <2>5, <2>6 DEF NumberInv
  <2>7. CASE Receive
    <3>1. last' = Head(net).seq /\ lost' = lost + Gap(Head(net).seq)
      BY <2>7 DEF Receive
    <3>2. Head(net).seq \in Nat /\ last < Head(net).seq /\ Head(net).seq < seq
      BY <2>2 DEF NumberInv, Packets
    <3>3. lost' >= 0
      BY <1>0, <3>1, <3>2 DEF NumberInv, Gap
    <3>4. last' < seq' /\ last' # NoSeq
      BY <1>0, <2>1, <3>1, <3>2
    <3>5. \A k \in DOMAIN net' : /\ last' < net'[k].seq /\ net'[k].seq < seq'
                                 /\ Len(net'[k].samples) = PerPacket
      BY <2>1, <2>2, <2>3, <3>1 DEF NumberInv
    <3> QED BY <2>5, <3>3, <3>4, <3>5 DEF NumberInv
  <2> QED BY <1>3, <2>6, <2>7 DEF NetLoses, rxVars
<1> QED BY <1>1, <1>2, <1>3 DEF Next, TxTask

-----------------------------------------------------------------------------
(* Which samples they are *)

\* Counting kept samples and packets up by one.
LEMMA KeptFacts ==
  /\ \A n \in Int : Kept[n] \in Int /\ Ticks[n] = n /\ Kept[n + 1] = Kept[n] + Decim
  /\ \A q \in Int : First(q) \in Int /\ First(q + 1) = First(q) + PerPacket
<1>1. Decim \in Int /\ PerPacket \in Int
  BY StreamAssumption
<1>2. \A n, d \in Int : (n + 1) * d = n * d + d /\ n * d \in Int
  OBVIOUS
<1>3. ASSUME NEW n \in Int PROVE Kept[n] \in Int /\ Kept[n + 1] = Kept[n] + Decim
  <2>1. n - 1 \in Int /\ (n - 1) + 1 = n /\ n + 1 \in Int /\ (n + 1) - 1 = n
    OBVIOUS
  <2>2. n * Decim = (n - 1) * Decim + Decim /\ (n - 1) * Decim \in Int
    BY <1>1, <1>2, <2>1
  <2>3. Kept[n] = 1 + (n - 1) * Decim /\ Kept[n + 1] = 1 + n * Decim
    BY <2>1 DEF Kept
  <2> QED BY <1>1, <2>2, <2>3
<1>4. \A q \in Int : First(q) \in Int /\ First(q + 1) = First(q) + PerPacket
  BY <1>1, <1>2 DEF First
<1> QED BY <1>3, <1>4 DEF Ticks

\* A sample that is skipped moves the task on by one; so does one that is kept, and its
\* number is the one its place says.
LEMMA TakenFacts ==
  ASSUME NEW n \in Int, NEW p \in 0..(Decim - 1)
  PROVE  LET q == (p + 1) % Decim
         IN /\ TakenAt(n, p) \in Int
            /\ p # 0 => TakenAt(n, q) = TakenAt(n, p) + 1
            /\ p = 0 => TakenAt(n + 1, q) = TakenAt(n, p) + 1 /\ Kept[n + 1] = TakenAt(n, p) + 1
<1> DEFINE q == (p + 1) % Decim
<1>1. Decim \in Nat /\ Decim > 0 /\ p \in Nat /\ p < Decim
  BY StreamAssumption
<1>2. \A m, d \in Int : (m + 1) * d = m * d + d /\ m * d \in Int
  OBVIOUS
<1>3. n * Decim = (n - 1) * Decim + Decim /\ n * Decim \in Int /\ (n - 1) * Decim \in Int
  <2>1. n - 1 \in Int /\ (n - 1) + 1 = n
    OBVIOUS
  <2> QED BY <1>1, <1>2, <2>1
<1>4. q = IF p + 1 = Decim THEN 0 ELSE p + 1
  BY <1>1
<1>5. Kept[n + 1] = 1 + n * Decim
  <2>1. n + 1 \in Int /\ (n + 1) - 1 = n
    OBVIOUS
  <2> QED BY <2>1 DEF Kept
<1> HIDE DEF q
<1>6. TakenAt(n, p) \in Int
  BY <1>1, <1>3 DEF TakenAt
<1>7. p # 0 => TakenAt(n, q) = TakenAt(n, p) + 1
  <2>1. CASE p + 1 = Decim
    BY <1>1, <1>3, <1>4, <2>1 DEF TakenAt
  <2>2. CASE p + 1 # Decim
    BY <1>1, <1>3, <1>4, <2>2 DEF TakenAt
  <2> QED BY <2>1, <2>2
<1>8. p = 0 => TakenAt(n + 1, q) = TakenAt(n, p) + 1
  <2>1. n + 1 \in Int /\ (n + 1) - 1 = n /\ (n + 1) * Decim = n * Decim + Decim
    BY <1>1, <1>2
  <2>2. CASE p + 1 = Decim
    BY <1>1, <1>3, <1>4, <2>1, <2>2 DEF TakenAt
  <2>3. CASE p + 1 # Decim
    BY <1>1, <1>3, <1>4, <2>1, <2>3 DEF TakenAt
  <2> QED BY <2>2, <2>3
<1>9. p = 0 => Kept[n + 1] = TakenAt(n, p) + 1
  BY <1>3, <1>5 DEF TakenAt
<1> QED BY <1>6, <1>7, <1>8, <1>9 DEF q

\* Marks, when a sequence loses its first, ...
LEMMA MarksTail ==
  ASSUME NEW S, NEW s \in Seq(S), s # <<>>, NEW w, NEW k \in Int, Marks(s, w, k)
  PROVE  Head(s) = w[k + 1] /\ Marks(Tail(s), w, k + 1)
<1>1. /\ DOMAIN Tail(s) = 1..(Len(s) - 1) /\ DOMAIN s = 1..Len(s) /\ Len(s) \in Nat
      /\ Head(s) = s[1] /\ 1 \in DOMAIN s
      /\ \A i \in DOMAIN Tail(s) : Tail(s)[i] = s[i + 1] /\ i + 1 \in DOMAIN s /\ i \in Int
  OBVIOUS
<1>2. \A i \in Int : k + (i + 1) = k + 1 + i
  OBVIOUS
<1> QED BY <1>1, <1>2 DEF Marks

\* ... gets another at its end ...
LEMMA MarksAppend ==
  ASSUME NEW S, NEW s \in Seq(S), NEW x \in S, NEW w, NEW k \in Int, Marks(s, w, k),
         x = w[k + Len(s) + 1]
  PROVE  Marks(Append(s, x), w, k)
<1>1. /\ DOMAIN Append(s, x) = 1..(Len(s) + 1) /\ DOMAIN s = 1..Len(s) /\ Len(s) \in Nat
      /\ \A i \in DOMAIN s : Append(s, x)[i] = s[i]
      /\ Append(s, x)[Len(s) + 1] = x
  OBVIOUS
<1>2. \A i \in 1..(Len(s) + 1) : i \in 1..Len(s) \/ i = Len(s) + 1
  BY <1>1
<1>3. k + (Len(s) + 1) = k + Len(s) + 1
  BY <1>1
<1> QED BY <1>1, <1>2, <1>3 DEF Marks

\* ... or is cut in two.
LEMMA MarksCut ==
  ASSUME NEW S, NEW s \in Seq(S), NEW n \in 0..Len(s), NEW w, NEW k \in Int, Marks(s, w, k)
  PROVE  Marks(SubSeq(s, 1, n), w, k) /\ Marks(SubSeq(s, n + 1, Len(s)), w, k + n)
<1> DEFINE a == SubSeq(s, 1, n)
           b == SubSeq(s, n + 1, Len(s))
<1>1. /\ a \in Seq(S) /\ Len(a) = n /\ \A i \in 1..n : a[i] = s[i] /\ i \in DOMAIN s
      /\ b \in Seq(S) /\ Len(b) = Len(s) - n
      /\ \A i \in 1..(Len(s) - n) : b[i] = s[n + i] /\ n + i \in DOMAIN s
  BY CutTypes
<1> HIDE DEF a, b
<1>2. DOMAIN a = 1..n /\ DOMAIN b = 1..(Len(s) - n)
  BY <1>1
<1>3. \A i \in 1..(Len(s) - n) : k + (n + i) = k + n + i
  OBVIOUS
<1>4. Marks(a, w, k)
  BY <1>1, <1>2 DEF Marks
<1>5. Marks(b, w, k + n)
  BY <1>1, <1>2, <1>3 DEF Marks
<1> QED BY <1>4, <1>5 DEF a, b

\* The kept samples are Decim apart, also across two sequences that follow each other.
LEMMA EvenFacts ==
  /\ \A s \in Seq(Samples), k \in Int : Marks(s, Kept, k) => Even(s)
  /\ \A s, t \in Seq(Samples) :
       /\ Even(s) /\ Even(t) /\ t # <<>>
       /\ s # <<>> => t[1] = s[Len(s)] + Decim
       => Even(s \o t)
<1>1. ASSUME NEW s \in Seq(Samples), NEW k \in Int, Marks(s, Kept, k) PROVE Even(s)
  <2> SUFFICES ASSUME NEW i \in 1..(Len(s) - 1) PROVE s[i + 1] = s[i] + Decim
    BY DEF Even
  <2>1. /\ i \in DOMAIN s /\ i + 1 \in DOMAIN s /\ k + (i + 1) = (k + i) + 1 /\ k + i \in Int
    BY SeqTypes
  <2>2. s[i] = Kept[k + i] /\ s[i + 1] = Kept[(k + i) + 1]
    BY <1>1, <2>1 DEF Marks
  <2>3. Kept[(k + i) + 1] = Kept[k + i] + Decim
    BY <2>1, KeptFacts
  <2> QED BY <2>2, <2>3
<1>2. ASSUME NEW s \in Seq(Samples), NEW t \in Seq(Samples), Even(s), Even(t), t # <<>>,
             s # <<>> => t[1] = s[Len(s)] + Decim
      PROVE  Even(s \o t)
  <2>1. /\ Len(s) \in Nat /\ Len(t) \in Nat /\ Len(s \o t) = Len(s) + Len(t)
        /\ \A i \in 1..Len(s) : (s \o t)[i] = s[i]
        /\ \A i \in 1..(Len(s) + Len(t)) : i > Len(s) => (s \o t)[i] = t[i - Len(s)]
    OBVIOUS
  <2> SUFFICES ASSUME NEW i \in 1..(Len(s) + Len(t) - 1)
               PROVE  (s \o t)[i + 1] = (s \o t)[i] + Decim
    BY <2>1 DEF Even
  <2>2. CASE i < Len(s)
    <3>1. i \in 1..(Len(s) - 1) /\ i \in 1..Len(s) /\ i + 1 \in 1..Len(s)
      BY <2>1, <2>2
    <3> QED BY <1>2, <2>1, <3>1 DEF Even
  <2>3. CASE i = Len(s)
    <3>1. /\ i \in 1..Len(s) /\ i + 1 \in 1..(Len(s) + Len(t)) /\ i + 1 > Len(s)
          /\ i + 1 - Len(s) = 1 /\ s # <<>>
      BY <2>1, <2>3
    <3> QED BY <1>2, <2>1, <2>3, <3>1
  <2>4. CASE i > Len(s)
    <3>1. /\ i \in 1..(Len(s) + Len(t)) /\ i + 1 \in 1..(Len(s) + Len(t)) /\ i + 1 > Len(s)
          /\ i + 1 - Len(s) = (i - Len(s)) + 1 /\ i - Len(s) \in 1..(Len(t) - 1)
      BY <2>1, <2>4
    <3> QED BY <1>2, <2>1, <2>4, <3>1 DEF Even
  <2> QED BY <2>1, <2>2, <2>3, <2>4
<1> QED BY <1>1, <1>2

\* What has been counted or has slipped by stays so.
LEMMA SilentBefore == ASSUME TypeOK, [Next]_vars, Silent' PROVE Silent
<1>1. dropped \in Nat /\ overruns \in Nat
  BY StreamAssumption DEF TypeOK
<1>2. dropped' = dropped \/ dropped' = dropped + 1
  BY DEF Next, Convert, SensorTask, Wake, Status, ReadBurst, Push, DropCounted, DrainEnds, TxTask,
         TxReceive, TxSend, NetLoses, Receive, vars, statVars
<1>3. overruns' = overruns \/ overruns' = overruns + 1
  BY DEF Next, Convert, SensorTask, Wake, Status, ReadBurst, Push, DrainEnds, TxTask,
         TxReceive, TxSend, NetLoses, Receive, vars, statVars
<1>4. blind => blind'
  BY DEF Next, Convert, SensorTask, Wake, Status, ReadBurst, Push, DrainEnds, TxTask,
         TxReceive, TxSend, NetLoses, Receive, vars, sensorVars
<1> QED BY <1>1, <1>2, <1>3, <1>4 DEF Silent

\* The types of what ExactInv counts with.
LEMMA CountTypes ==
  ASSUME TypeOK
  PROVE  /\ First(seq) \in Int /\ Stored \in Int /\ Taken \in Int
         /\ Len(collected) \in Nat /\ Len(ring) \in Nat /\ Len(burst) \in Nat /\ Len(fifo) \in Nat
         /\ born \in Nat /\ seq \in Nat /\ phase \in 0..(Decim - 1)
         /\ fifo \in Seq(Samples) /\ burst \in Seq(Samples) /\ ring \in Seq(Samples)
         /\ collected \in Seq(Samples) /\ got \in Seq(Samples) /\ net \in Seq(Packets)
<1>1. /\ born \in Nat /\ seq \in Nat /\ phase \in 0..(Decim - 1)
      /\ fifo \in Seq(Samples) /\ burst \in Seq(Samples) /\ ring \in Seq(Samples)
      /\ collected \in Seq(Samples) /\ got \in Seq(Samples) /\ net \in Seq(Packets)
  BY StreamAssumption DEF TypeOK
<1>2. /\ Len(collected) \in Nat /\ Len(ring) \in Nat /\ Len(burst) \in Nat /\ Len(fifo) \in Nat
  BY <1>1, SeqTypes
<1>3. First(seq) \in Int
  BY <1>1, KeptFacts
<1>4. Stored \in Int
  BY <1>2, <1>3 DEF Stored
<1>5. Taken \in Int
  BY <1>1, <1>4, TakenFacts DEF Taken
<1> QED BY <1>1, <1>2, <1>3, <1>4, <1>5

\* ExactInv survives what the sensor and its task do ...
LEMMA SensorExact ==
  ASSUME TypeOK, BurstInv, ExactInv, Convert \/ SensorTask PROVE ExactInv'
<1> SUFFICES ASSUME Silent' PROVE ExactInv'
  BY DEF ExactInv
<1>0. /\ Silent /\ ovr # "seen"
      /\ Marks(collected, Kept, First(seq))
      /\ Marks(ring, Kept, First(seq) + Len(collected))
      /\ Marks(burst, Ticks, Taken)
      /\ ovr = "off" => /\ born = Taken + Len(burst) + Len(fifo)
                        /\ Marks(fifo, Ticks, Taken + Len(burst))
  BY SilentBefore DEF ExactInv, Next
<1> DEFINE first == First(seq)
           taken == Taken
<1>t. /\ first \in Int /\ taken \in Int /\ Stored \in Int
      /\ Len(collected) \in Nat /\ Len(ring) \in Nat /\ Len(burst) \in Nat /\ Len(fifo) \in Nat
      /\ born \in Nat /\ phase \in 0..(Decim - 1)
      /\ fifo \in Seq(Samples) /\ burst \in Seq(Samples) /\ ring \in Seq(Samples)
  BY CountTypes
<1>1. CASE Convert
  <2>1. UNCHANGED <<collected, seq, ring, burst, phase>> /\ born' = born + 1
    BY <1>1 DEF Convert, taskVars, txVars
  <2>2. Taken' = Taken
    BY <2>1 DEF Taken, Stored
  <2>3. born + 1 \in Samples
    BY <1>1, <1>t, StreamAssumption DEF Convert, Samples
  <2>4. ovr' # "seen"
    BY <1>0, <1>1 DEF Convert
  <2>5. ASSUME ovr' = "off"
        PROVE  born' = taken + Len(burst) + Len(fifo') /\ Marks(fifo', Ticks, taken + Len(burst))
    <3>1. ovr = "off" /\ fifo' = Append(fifo, born + 1)
      BY <1>1, <2>5 DEF Convert
    <3>2. Len(fifo') = Len(fifo) + 1
      BY <1>t, <2>3, <3>1, SeqTypes
    <3>3. born + 1 = taken + Len(burst) + Len(fifo) + 1
      BY <1>0, <1>t, <3>1
    <3>4. taken + Len(burst) \in Int /\ taken + Len(burst) + Len(fifo) + 1 \in Int
      BY <1>t
    <3>5. born + 1 = Ticks[taken + Len(burst) + Len(fifo) + 1]
      BY <3>3, <3>4, KeptFacts
    <3> HIDE DEF taken
    <3>6. Marks(fifo, Ticks, taken + Len(burst))
      BY <1>0, <3>1 DEF taken
    <3>7. Marks(fifo', Ticks, taken + Len(burst))
      BY <1>t, <2>3, <3>1, <3>4, <3>5, <3>6, MarksAppend
    <3> QED BY <1>t, <2>1, <3>2, <3>3, <3>7
  <2> QED BY <1>0, <2>1, <2>2, <2>4, <2>5 DEF ExactInv
<1>2. CASE Wake \/ DrainEnds \/ Status
  <2>1. UNCHANGED <<collected, seq, ring, burst, phase, born, fifo>>
    BY <1>2 DEF Wake, Status, DrainEnds, sensorVars, txVars
  <2>2. Taken' = Taken
    BY <2>1 DEF Taken, Stored
  <2>3. ovr' = ovr
    <3>1. CASE overruns' = overruns + 1
      <4>1. overruns \in Nat
        BY StreamAssumption DEF TypeOK
      <4> QED BY <3>1, <4>1 DEF Silent
    <3> QED BY <1>2, <3>1 DEF Wake, Status, DrainEnds, sensorVars
  <2> QED BY <1>0, <2>1, <2>2, <2>3 DEF ExactInv
<1>3. CASE ReadBurst
  <2>1. UNCHANGED <<collected, seq, ring, phase, born>> /\ pc = "drain" /\ burst = <<>>
    BY <1>3 DEF ReadBurst, BurstInv, txVars
  <2>2. Taken' = Taken
    BY <2>1 DEF Taken, Stored
  <2>3. CASE UNCHANGED <<burst, fifo, ovr>>
    BY <1>0, <2>1, <2>2, <2>3 DEF ExactInv
  <2>4. CASE /\ burst' = SubSeq(fifo, 1, Want) /\ fifo' = SubSeq(fifo, Want + 1, Len(fifo))
             /\ ovr' = "off" /\ blind' = (blind \/ ovr = "new")
    <3>1. ovr = "off"
      <4>1. ovr # "new"
        BY <2>4 DEF Silent
      <4> QED BY <1>0, <4>1 DEF TypeOK
    <3>2. Want \in 0..Len(fifo)
      <4>1. Want \in 1..BurstMax /\ Want <= avail /\ avail <= Len(fifo) /\ avail \in Nat
        BY <1>3, WantFits DEF ReadBurst, BurstInv, TypeOK
      <4>2. Want \in Nat /\ Want <= Len(fifo)
        BY <1>t, <4>1, StreamAssumption
      <4> QED BY <1>t, <4>2
    <3>3. Len(burst) = 0
      BY <2>1, <1>t, SeqTypes
    <3> HIDE DEF taken
    <3>4. born = taken + Len(fifo) /\ Marks(fifo, Ticks, taken)
      <4>1. born = taken + 0 + Len(fifo) /\ Marks(fifo, Ticks, taken + 0)
        BY <1>0, <3>1, <3>3 DEF taken
      <4> QED BY <1>t, <4>1
    <3>5. Len(burst') = Want /\ Len(fifo') = Len(fifo) - Want
      BY <1>t, <2>4, <3>2, CutTypes
    <3>6. Marks(burst', Ticks, taken) /\ Marks(fifo', Ticks, taken + Want)
      BY <1>t, <2>4, <3>2, <3>4, MarksCut
    <3>7. born' = taken + Len(burst') + Len(fifo')
      <4>1. Want \in Int
        BY <3>2
      <4> QED BY <1>t, <2>1, <3>4, <3>5, <4>1
    <3> QED BY <1>0, <2>1, <2>2, <2>4, <3>5, <3>6, <3>7 DEF ExactInv, taken
  <2> QED BY <1>3, <2>3, <2>4 DEF ReadBurst
<1>4. CASE Push
  <2>1. /\ UNCHANGED <<collected, seq, fifo, born, ovr>>
        /\ burst # <<>> /\ burst' = Tail(burst) /\ phase' = (phase + 1) % Decim
    BY <1>4 DEF Push, TypeOK, sensorVars, txVars
  <2>2. /\ Head(burst) = taken + 1 /\ Marks(burst', Ticks, taken + 1)
        /\ Len(burst') = Len(burst) - 1 /\ Head(burst) \in Samples
    <3>1. Head(burst) = Ticks[taken + 1] /\ Marks(burst', Ticks, taken + 1)
      BY <1>0, <1>t, <2>1, MarksTail
    <3>2. taken + 1 \in Int
      BY <1>t
    <3> QED BY <1>t, <2>1, <3>1, <3>2, KeptFacts, SeqTypes
  <2>3. /\ Taken' = Taken + 1
        /\ Marks(ring', Kept, first + Len(collected))
    <3>1. CASE phase # 0 /\ UNCHANGED ring
      <4>1. Stored' = Stored
        BY <2>1, <3>1 DEF Stored
      <4>2. Taken' = Taken + 1
        BY <1>t, <2>1, <3>1, <4>1, TakenFacts DEF Taken
      <4> QED BY <1>0, <3>1, <4>2
    <3>2. CASE phase = 0 /\ ring' = Append(ring, Head(burst))
      <4>1. Len(ring') = Len(ring) + 1
        BY <1>t, <2>2, <3>2, SeqTypes
      <4>2. Stored' = Stored + 1
        BY <1>t, <2>1, <4>1 DEF Stored
      <4>3. Taken' = Taken + 1 /\ Kept[Stored + 1] = Taken + 1
        BY <1>t, <2>1, <3>2, <4>2, TakenFacts DEF Taken
      <4>4. Head(burst) = Kept[first + Len(collected) + Len(ring) + 1]
        BY <2>2, <4>3 DEF Stored
      <4>5. Marks(ring', Kept, first + Len(collected))
        <5> HIDE DEF first
        <5>1. first + Len(collected) \in Int /\ Marks(ring, Kept, first + Len(collected))
          BY <1>0, <1>t DEF first
        <5> QED BY <1>t, <2>2, <3>2, <4>4, <5>1, MarksAppend
      <4> QED BY <4>3, <4>5
    <3>3. CASE dropped' = DropCounted
      <4>1. dropped \in Nat
        BY DEF TypeOK
      <4> QED BY <3>3, <4>1 DEF Silent, DropCounted
    <3> QED BY <1>4, <3>1, <3>2, <3>3 DEF Push
  <2>4. ASSUME ovr = "off"
        PROVE  /\ born = (taken + 1) + Len(burst') + Len(fifo)
               /\ Marks(fifo, Ticks, (taken + 1) + Len(burst'))
    <3> HIDE DEF taken
    <3>1. (taken + 1) + Len(burst') = taken + Len(burst)
      BY <1>t, <2>2
    <3>2. born = taken + Len(burst) + Len(fifo) /\ Marks(fifo, Ticks, taken + Len(burst))
      BY <1>0, <2>4 DEF taken
    <3> QED BY <3>1, <3>2
  <2> QED BY <1>0, <2>1, <2>2, <2>3, <2>4 DEF ExactInv
<1> QED BY <1>1, <1>2, <1>3, <1>4 DEF SensorTask

\* ... and every other step.
LEMMA ExactStep ==
  ASSUME TypeOK, BurstInv, ExactInv, [Next]_vars PROVE ExactInv'
<1> SUFFICES ASSUME Silent' PROVE ExactInv'
  BY DEF ExactInv
<1>0. /\ Silent /\ ovr # "seen"
      /\ Marks(collected, Kept, First(seq))
      /\ Marks(ring, Kept, First(seq) + Len(collected))
      /\ Marks(burst, Ticks, Taken)
      /\ ovr = "off" => /\ born = Taken + Len(burst) + Len(fifo)
                        /\ Marks(fifo, Ticks, Taken + Len(burst))
  BY SilentBefore DEF ExactInv
<1> DEFINE first == First(seq)
<1>t. /\ first \in Int /\ Stored \in Int /\ seq \in Nat
      /\ Len(collected) \in Nat /\ Len(ring) \in Nat
      /\ collected \in Seq(Samples) /\ ring \in Seq(Samples)
  BY CountTypes
<1>1. CASE Convert \/ SensorTask
  BY <1>1, SensorExact
<1>2. CASE TxReceive
  <2>1. /\ UNCHANGED <<seq, burst, fifo, phase, born, ovr>>
        /\ ring # <<>> /\ ring' = Tail(ring) /\ collected' = Append(collected, Head(ring))
    BY <1>2 DEF TxReceive, RingAfterReceive, sensorVars, taskVars
  <2>2. Len(ring') = Len(ring) - 1 /\ Len(collected') = Len(collected) + 1
        /\ Head(ring) \in Samples
    BY <1>t, <2>1, SeqTypes
  <2>3. first + Len(collected) \in Int
    BY <1>t
  <2>4. Head(ring) = Kept[first + Len(collected) + 1]
        /\ Marks(ring', Kept, first + Len(collected) + 1)
    BY <1>0, <1>t, <2>1, <2>3, MarksTail
  <2>5. Stored' = Stored
    BY <1>t, <2>1, <2>2 DEF Stored
  <2>6. Taken' = Taken
    BY <2>1, <2>5 DEF Taken
  <2>7. Marks(collected', Kept, first)
    BY <1>0, <1>t, <2>1, <2>2, <2>4, MarksAppend
  <2>8. Marks(ring', Kept, first + Len(collected'))
    <3> HIDE DEF first
    <3>1. first + (Len(collected) + 1) = first + Len(collected) + 1
      BY <1>t
    <3> QED BY <2>2, <2>4, <3>1
  <2> QED BY <1>0, <2>1, <2>6, <2>7, <2>8 DEF ExactInv
<1>3. CASE TxSend
  <2>1. /\ UNCHANGED <<ring, burst, fifo, phase, born, ovr>>
        /\ seq' = seq + 1 /\ collected' = <<>> /\ Len(collected) = PerPacket
    BY <1>3 DEF TxSend, sensorVars, taskVars
  <2>2. First(seq') = first + PerPacket
    BY <1>t, <2>1, KeptFacts
  <2>3. Len(collected') = 0 /\ Marks(collected', Kept, First(seq'))
    BY <2>1 DEF Marks
  <2>4. First(seq') + Len(collected') = first + Len(collected) /\ First(seq') \in Int
    <3> HIDE DEF first
    <3> QED BY <1>t, <2>1, <2>2, <2>3
  <2>5. Stored' = Stored
    BY <1>t, <2>1, <2>4 DEF Stored
  <2>6. Taken' = Taken
    BY <2>1, <2>5 DEF Taken
  <2> QED BY <1>0, <2>1, <2>3, <2>4, <2>6 DEF ExactInv
<1>4. CASE NetLoses \/ Receive \/ UNCHANGED vars
  <2>1. UNCHANGED <<seq, collected, ring, burst, fifo, phase, born, ovr>>
    BY <1>4 DEF NetLoses, Receive, vars, sensorVars, taskVars, txVars
  <2>2. Taken' = Taken
    BY <2>1 DEF Taken, Stored
  <2> QED BY <1>0, <2>1, <2>2 DEF ExactInv
<1> QED BY <1>1, <1>2, <1>3, <1>4 DEF Next, TxTask

\* What arrives without a gap continues what is there.
LEMMA Joins ==
  ASSUME TypeOK, NumberInv, NEW p \in Packets, p.seq > last, Len(p.samples) = PerPacket,
         Marks(p.samples, Kept, First(p.seq)), Gap(p.seq) = 0, Even(got),
         last # NoSeq => got # <<>> /\ got[Len(got)] = Kept[First(last + 1)]
  PROVE  LET g == got \o p.samples
         IN g # <<>> /\ g[Len(g)] = Kept[First(p.seq + 1)] /\ Even(g)
<1> DEFINE t == p.samples
           g == got \o t
           n == PerPacket
           f == First(p.seq)
<1>1. /\ got \in Seq(Samples) /\ t \in Seq(Samples) /\ p.seq \in Nat
      /\ n \in Nat /\ n > 0 /\ Len(t) = n /\ f \in Int
  BY KeptFacts, StreamAssumption DEF TypeOK, Packets
<1>2. DOMAIN t = 1..n /\ t # <<>> /\ 1 \in DOMAIN t /\ n \in DOMAIN t
  BY <1>1
<1> HIDE DEF t, f, n
<1>3. Marks(t, Kept, f)
  BY DEF t, f
<1>4. t[1] = Kept[f + 1] /\ t[n] = Kept[f + n]
  BY <1>2, <1>3 DEF Marks
<1>5. Even(t)
  BY <1>1, <1>3, EvenFacts
<1>6. Len(g) = Len(got) + n /\ Len(got) \in Nat /\ g \in Seq(Samples)
      /\ g[Len(got) + n] = t[n]
  <2>1. \A u, v \in Seq(Samples) :
          /\ Len(u \o v) = Len(u) + Len(v) /\ u \o v \in Seq(Samples)
          /\ \A i \in 1..Len(v) : (u \o v)[Len(u) + i] = v[i]
    OBVIOUS
  <2>2. n \in 1..Len(t)
    BY <1>1
  <2> HIDE DEF g
  <2>3. Len(g) = Len(got) + n /\ g \in Seq(Samples) /\ g[Len(got) + n] = t[n]
    BY <1>1, <2>1, <2>2 DEF g
  <2> QED BY <1>1, <2>3, SeqTypes
<1>7. First(p.seq + 1) = f + n
  <2>1. p.seq \in Int
    BY <1>1
  <2> QED BY <2>1, KeptFacts DEF f, n
<1>8. g # <<>> /\ g[Len(g)] = Kept[First(p.seq + 1)]
  BY <1>1, <1>4, <1>6, <1>7
<1>9. got # <<>> => t[1] = got[Len(got)] + Decim
  <2> SUFFICES ASSUME got # <<>> PROVE t[1] = got[Len(got)] + Decim
    OBVIOUS
  <2>1. last # NoSeq /\ last \in Nat
    BY DEF NumberInv, TypeOK
  <2>2. p.seq = last + 1
    BY <1>1, <2>1 DEF Gap
  <2>3. got[Len(got)] = Kept[f]
    BY <2>1, <2>2 DEF f
  <2> QED BY <1>1, <1>4, <2>3, KeptFacts
<1>10. Even(g)
  BY <1>1, <1>2, <1>5, <1>9, EvenFacts
<1> QED BY <1>8, <1>10 DEF g, t

\* ExactNet survives every step.
LEMMA ExactNetStep ==
  ASSUME TypeOK, NumberInv, ExactInv, ExactNet, [Next]_vars PROVE ExactNet'
<1> SUFFICES ASSUME Silent' PROVE ExactNet'
  BY DEF ExactNet
<1>0. /\ \A k \in DOMAIN net : Marks(net[k].samples, Kept, First(net[k].seq))
      /\ lost = 0 => /\ Even(got)
                     /\ last # NoSeq => got # <<>> /\ got[Len(got)] = Kept[First(last + 1)]
      /\ Marks(collected, Kept, First(seq))
  BY SilentBefore DEF ExactNet, ExactInv
<1>t. /\ net \in Seq(Packets) /\ seq \in Nat /\ collected \in Seq(Samples) /\ lost \in Int
  BY DEF TypeOK
<1>1. CASE UNCHANGED <<netVars, rxVars>>
  <2>1. UNCHANGED <<net, lost, last, got>>
    BY <1>1 DEF netVars, rxVars
  <2> QED BY <1>0, <2>1 DEF ExactNet
<1>2. CASE TxSend
  <2> DEFINE p == [seq |-> seq, samples |-> collected]
  <2>1. /\ UNCHANGED <<last, lost, got>>
        /\ net' = net \/ net' = Append(net, p)
    BY <1>2 DEF TxSend, rxVars
  <2>2. p \in Packets /\ p.seq = seq /\ p.samples = collected
    BY <1>t DEF Packets
  <2> HIDE DEF p
  <2>3. Marks(p.samples, Kept, First(p.seq))
    BY <1>0, <2>2
  <2>4. \A k \in DOMAIN net' : Marks(net'[k].samples, Kept, First(net'[k].seq))
    <3>1. CASE net' = net
      BY <1>0, <3>1
    <3>2. CASE net' = Append(net, p)
      <4>1. \A k \in DOMAIN net' : (k \in DOMAIN net /\ net'[k] = net[k]) \/ net'[k] = p
        BY <1>t, <2>2, <3>2
      <4> QED BY <1>0, <2>3, <4>1
    <3> QED BY <2>1, <3>1, <3>2
  <2> QED BY <1>0, <2>1, <2>4 DEF ExactNet
<1>3. CASE NetLoses \/ Receive
  <2>1. net # <<>> /\ net' = Tail(net)
    BY <1>3 DEF NetLoses, Receive
  <2>2. /\ \A k \in DOMAIN net' : net'[k] = net[k + 1] /\ k + 1 \in DOMAIN net
        /\ Head(net) = net[1] /\ 1 \in DOMAIN net /\ Head(net) \in Packets
    BY <1>t, <2>1
  <2>3. \A k \in DOMAIN net' : Marks(net'[k].samples, Kept, First(net'[k].seq))
    BY <1>0, <2>2
  <2>4. CASE UNCHANGED <<last, lost, got>>
    BY <1>0, <2>3, <2>4 DEF ExactNet
  <2>5. CASE Receive
    <3> DEFINE p == Head(net)
    <3>1. /\ last' = p.seq /\ lost' = lost + Gap(p.seq) /\ got' = got \o p.samples
      BY <2>5 DEF Receive
    <3>2. /\ p \in Packets /\ p.seq > last /\ Len(p.samples) = PerPacket
          /\ Marks(p.samples, Kept, First(p.seq)) /\ p.seq \in Nat
      <4>1. p \in Packets /\ p.seq \in Nat /\ last < p.seq
        BY <2>2 DEF Packets, NumberInv
      <4>2. last \in Int
        BY DEF TypeOK, NoSeq
      <4> QED BY <1>0, <2>2, <4>1, <4>2 DEF NumberInv
    <3> HIDE DEF p
    <3>3. ASSUME lost' = 0
          PROVE  /\ Even(got')
                 /\ got' # <<>> /\ got'[Len(got')] = Kept[First(last' + 1)]
      <4>1. Gap(p.seq) \in Int /\ Gap(p.seq) >= 0 /\ lost >= 0
        BY <3>2 DEF Gap, NumberInv, TypeOK
      <4>2. lost = 0 /\ Gap(p.seq) = 0
        BY <1>t, <3>1, <3>3, <4>1
      <4> QED BY <1>0, <3>1, <3>2, <4>2, Joins
    <3> QED BY <2>3, <3>3 DEF ExactNet
  <2> QED BY <1>3, <2>4, <2>5 DEF NetLoses, rxVars
<1>4. \/ UNCHANGED <<netVars, rxVars>>
      \/ TxSend \/ NetLoses \/ Receive
  BY DEF Next, Convert, SensorTask, Wake, Status, ReadBurst, Push, DrainEnds, TxTask, TxReceive, vars
<1> QED BY <1>1, <1>2, <1>3, <1>4

\* Nothing is exact before it starts: there is nothing yet.
LEMMA ExactInit == Init => NumberInv /\ ExactInv /\ ExactNet
<1> SUFFICES ASSUME Init PROVE NumberInv /\ ExactInv /\ ExactNet
  OBVIOUS
<1>1. /\ got = <<>> /\ net = <<>> /\ collected = <<>> /\ ring = <<>> /\ burst = <<>>
      /\ fifo = <<>> /\ last = NoSeq /\ lost = 0 /\ seq = 0 /\ phase = 0 /\ born = 0 /\ ovr = "off"
  BY DEF Init
<1>e. Len(<<>>) = 0 /\ DOMAIN <<>> = {} /\ 1..(Len(<<>>) - 1) = {}
  OBVIOUS
<1>2. (\A w, k : Marks(<<>>, w, k)) /\ Even(<<>>)
  BY <1>e DEF Marks, Even
<1>3. NumberInv
  BY <1>1, <1>e DEF NumberInv, NoSeq
<1>4. Decim \in Nat /\ PerPacket \in Nat
  BY StreamAssumption
<1>5. Taken = 0
  BY <1>1, <1>e, <1>4 DEF Taken, TakenAt, Stored, First
<1>6. ExactInv
  BY <1>1, <1>2, <1>5, <1>e DEF ExactInv
<1>7. ExactNet
  BY <1>1, <1>2, <1>e DEF ExactNet
<1> QED BY <1>3, <1>6, <1>7

\* While the device counts no drop and no overrun and none slips between two reads, every
\* sample is where its number says, from the sensor to the collector.
THEOREM AlwaysExact == Spec => [](NumberInv /\ ExactInv /\ ExactNet)
BY TypeCorrect, ExactInit, NumberStep, ExactStep, ExactNetStep, PTL DEF Spec

\* Loss is not silent from one end to the other: with all three counts at zero and no
\* overrun between a status and its burst, the collector has every Decim-th sample.
THEOREM AlwaysLossIsCounted == Spec => []LossIsCounted
<1>1. ExactNet => LossIsCounted
  BY DEF ExactNet, Silent, Even, LossIsCounted
<1> QED BY AlwaysExact, <1>1, PTL
=============================================================================

-------------------------- MODULE CollectorProofs ---------------------------
(***************************************************************************)
(* Theorems about Collector, for every number of holes, sensors, inputs    *)
(* and ports, every setup and every disk.                                  *)
(***************************************************************************)
EXTENDS Collector, FiniteSetTheorems, WellFoundedInduction, SequenceTheorems, TLAPS

-----------------------------------------------------------------------------
(* The inductive invariants *)

\* A channel's record has its fields, whatever is in them; so has the main thread's.
Fields(ch) ==
  ch \in [name : {ch.name}, src : {ch.src}, din : {ch.din}, lines : {ch.lines}, low : {ch.low},
          link : {ch.link}, state : {ch.state}, by : {ch.by}, w : {ch.w}, run : {ch.run},
          left : {ch.left}]

ThreadFields(u) ==
  u \in [op : {u.op}, todo : {u.todo}, phase : {u.phase}, then : {u.then}, c : {u.c},
         arg : {u.arg}, wait : {u.wait}]

\* Nothing comes in any more and no photo sensor can start it.
Silent(ch) == ch.lines = {} /\ ch.link = "off" /\ ch.w = "idle"

\* A channel listens to its own input only, and to none once it is given up; each sensor
\* has a channel of its own.
ChanInv ==
  /\ chan = [c \in Ids |-> chan[c]]
  /\ owned \in [Names -> Ids \cup {NoId}]
  /\ \A c \in Ids : Fields(chan[c]) /\ chan[c].lines \subseteq {chan[c].din}
  /\ \A c \in Ids \ Owned : Silent(chan[c])
  /\ \A n \in Names : owned[n] # NoId => chan[owned[n]].name = n

\* The questions of the window.
Questions == {"assign", "wifi", "usb", "add", "exit"}

\* What the main thread still has to do is about channels that are there; what close() is
\* through with is silent; what open() has before it are sensors without a channel, each
\* once.
TodoInv ==
  /\ ThreadFields(ui)
  /\ mode = "off" => ui.op = "off"
  /\ ui.op = "off" => Owned = {}
  /\ ui.op \in {"close", "start", "stop", "level"} => ui.todo \in Seq(Owned)
  /\ ui.op = "close" => \A c \in Owned \ Range(ui.todo) : Silent(chan[c])
  /\ ui.op = "din" => ui.c \in Owned
  /\ ui.op = "dialog" => ui.phase \in Questions
  /\ ui.op = "open" =>
       /\ ui.todo \in Seq(Range(ui.todo))
       /\ \A i \in DOMAIN ui.todo : ui.todo[i].name \in Names /\ owned[ui.todo[i].name] = NoId
       /\ \A i, j \in DOMAIN ui.todo : i # j => ui.todo[i].name # ui.todo[j].name

\* By slots.json sensor n is received at s.
From(n, s) == IF cfg.wifi[n] = NoSrc THEN s \in Holes /\ cfg.slots[s] = n ELSE s = cfg.wifi[n]

\* The channels are what slots.json says, but for the time between a new number and the
\* reopening it asks for; the level is the one that is set, but for those still to be told.
FollowInv ==
  /\ plugged \subseteq Holes
  /\ cfg \in [slots : {cfg.slots}, din : {cfg.din}, wifi : {cfg.wifi}]
  /\ set \in [size : {set.size}, auto : {set.auto}, low : {set.low}]
  /\ ui.op = "open" => \A i \in DOMAIN ui.todo : From(ui.todo[i].name, ui.todo[i].src)
  /\ ui.op = "open" \/ (ui.op # "close" /\ ~pending /\ ~refused) =>
       \A n \in Names : owned[n] # NoId => From(n, chan[owned[n]].src)
  /\ \A n \in Names : owned[n] # NoId =>
       \/ chan[owned[n]].low = set.low
       \/ ui.op = "level" /\ owned[n] \in Range(ui.todo)

-----------------------------------------------------------------------------
(* Numbers in order *)

\* InOrder has every number of the set, and each once.
LEMMA InOrderFacts ==
  ASSUME NEW S \in SUBSET Nat, IsFiniteSet(S)
  PROVE  /\ InOrder(S) \in Seq(S) /\ Range(InOrder(S)) = S
         /\ \A i, j \in DOMAIN InOrder(S) : i # j => InOrder(S)[i] # InOrder(S)[j]
<1> DEFINE Upto(n) == {m \in S : m <= n}
           rank(n) == Cardinality(Upto(n))
           N       == Cardinality(S)
           s       == InOrder(S)
<1>1. N \in Nat
  BY FS_CardinalityType
<1>2. ASSUME NEW n \in S
      PROVE  IsFiniteSet(Upto(n)) /\ rank(n) \in 1..N
  <2>1. Upto(n) \in SUBSET S /\ n \in Upto(n)
    OBVIOUS
  <2> HIDE DEF Upto
  <2>2. IsFiniteSet(Upto(n)) /\ rank(n) <= N
    BY <2>1, FS_Subset
  <2>3. rank(n) \in Nat /\ rank(n) # 0
    BY <2>1, <2>2, FS_EmptySet, FS_CardinalityType
  <2> QED BY <1>1, <2>2, <2>3
<1>3. ASSUME NEW n \in S, NEW k \in S, n < k
      PROVE  rank(n) # rank(k)
  <2>1. Upto(n) \in SUBSET Upto(k) /\ k \in Upto(k) /\ k \notin Upto(n)
    <3>1. n \in Nat /\ k \in Nat /\ ~(k <= n) /\ k <= k
      BY <1>3
    <3>2. \A m \in S : m <= n => m <= k
      BY <1>3, <3>1
    <3>3. \A m \in Upto(n) : m \in Upto(k)
      BY <3>2
    <3> QED BY <3>1, <3>3
  <2>2. IsFiniteSet(Upto(k))
    BY <1>2
  <2> HIDE DEF Upto
  <2> QED BY <2>1, <2>2, FS_Subset
<1>4. ASSUME NEW n \in S, NEW k \in S, rank(n) = rank(k)
      PROVE  n = k
  <2>1. n \in Nat /\ k \in Nat
    OBVIOUS
  <2> QED BY <1>3, <1>4, <2>1
<1>5. ASSUME NEW i \in 1..N
      PROVE  \E n \in S : rank(n) = i
  <2> SUFFICES ASSUME ~\E n \in S : rank(n) = i PROVE FALSE
    OBVIOUS
  <2> DEFINE T == (1..N) \ {i}
             f == [n \in S |-> rank(n)]
  <2>1. IsFiniteSet(1..N) /\ Cardinality(1..N) = N
    BY <1>1, FS_Interval
  <2>2. IsFiniteSet(T) /\ Cardinality(T) = N - 1
    BY <2>1, FS_RemoveElement
  <2>3. f \in [S -> T]
    BY <1>2
  <2>4. Cardinality(T) < Cardinality(S)
    BY <1>1, <2>2
  <2> HIDE DEF T, f, rank
  <2>5. \E x, y \in S : x # y /\ f[x] = f[y]
    BY <2>2, <2>3, <2>4, FS_PigeonHole
  <2> QED BY <1>4, <2>5 DEF f
<1>6. DOMAIN s = 1..N /\ \A i \in 1..N : s[i] \in S /\ rank(s[i]) = i
  BY <1>5 DEF InOrder
<1> HIDE DEF rank, N, s
<1>7. \A n \in S : rank(n) \in DOMAIN s /\ s[rank(n)] = n
  BY <1>2, <1>4, <1>6
<1>8. Range(s) = S
  BY <1>6, <1>7 DEF Range
<1>9. s \in Seq(S)
  <2>1. \A i \in 1..N : (CHOOSE n \in S : rank(n) = i) \in S
    BY <1>5
  <2>2. s \in [1..N -> S]
    BY <2>1 DEF s, InOrder, N, rank
  <2> QED BY <1>1, <2>2
<1>10. \A i, j \in DOMAIN s : i # j => s[i] # s[j]
  BY <1>6
<1> QED BY <1>8, <1>9, <1>10 DEF s

\* The channels that are open, and the sensors of any set, can be taken in turn.
LEMMA Turns ==
  ASSUME owned \in [Names -> Ids \cup {NoId}]
  PROVE  /\ Owned \subseteq Ids
         /\ \A S \in SUBSET Owned : InOrder(S) \in Seq(Owned) /\ Range(InOrder(S)) = S
         /\ \A S \in SUBSET Names :
              /\ InOrder(S) \in Seq(Names) /\ Range(InOrder(S)) = S
              /\ \A i, j \in DOMAIN InOrder(S) : i # j => InOrder(S)[i] # InOrder(S)[j]
<1>1. /\ IsFiniteSet(Ids) /\ Ids \in SUBSET Nat
      /\ IsFiniteSet(Names) /\ Names \in SUBSET Nat
  <2>1. Cardinality(Names) \in Nat
    BY CollectorAssumption, FS_CardinalityType
  <2>2. Names = 1..Cardinality(Names)
    BY CollectorAssumption
  <2>3. Names \in SUBSET Nat
    BY <2>1, <2>2
  <2>4. IsFiniteSet(Ids) /\ Ids \in SUBSET Nat /\ IsFiniteSet(Names)
    BY CollectorAssumption
  <2> QED BY <2>3, <2>4
<1>2. Owned \subseteq Ids
  BY DEF Owned, Range
<1>3. ASSUME NEW T, NEW S \in SUBSET T, IsFiniteSet(T), T \in SUBSET Nat
      PROVE  /\ InOrder(S) \in Seq(T) /\ Range(InOrder(S)) = S
             /\ \A i, j \in DOMAIN InOrder(S) : i # j => InOrder(S)[i] # InOrder(S)[j]
  <2>1. IsFiniteSet(S) /\ S \in SUBSET Nat
    BY <1>3, FS_Subset
  <2>2. /\ InOrder(S) \in Seq(S) /\ Range(InOrder(S)) = S
        /\ \A i, j \in DOMAIN InOrder(S) : i # j => InOrder(S)[i] # InOrder(S)[j]
    BY <2>1, InOrderFacts
  <2>3. Seq(S) \subseteq Seq(T)
    OBVIOUS
  <2> QED BY <2>2, <2>3
<1>4. IsFiniteSet(Owned) /\ Owned \in SUBSET Nat
  BY <1>1, <1>2, FS_Subset
<1> QED BY <1>1, <1>2, <1>3, <1>4

\* Taking the first of a sequence.
LEMMA TailFacts ==
  ASSUME NEW S, NEW s \in Seq(S), s # <<>>
  PROVE  /\ Head(s) \in S /\ Head(s) \in Range(s) /\ Tail(s) \in Seq(S)
         /\ Range(s) = {Head(s)} \cup Range(Tail(s))
         /\ \A i \in DOMAIN Tail(s) : Tail(s)[i] = s[i + 1] /\ i + 1 \in DOMAIN s
         /\ Head(s) = s[1] /\ 1 \in DOMAIN s /\ \A i \in DOMAIN Tail(s) : i + 1 # 1
         /\ \A i, j \in DOMAIN Tail(s) : i # j => i + 1 # j + 1
<1>1. /\ Tail(s) \in Seq(S) /\ DOMAIN Tail(s) = 1..(Len(s) - 1) /\ DOMAIN s = 1..Len(s)
      /\ Len(s) \in Nat /\ Head(s) = s[1] /\ 1 \in DOMAIN s /\ Head(s) \in S
      /\ \A i \in DOMAIN Tail(s) : Tail(s)[i] = s[i + 1] /\ i + 1 \in DOMAIN s
  OBVIOUS
<1>2. Range(s) \subseteq {Head(s)} \cup Range(Tail(s))
  <2> SUFFICES ASSUME NEW i \in DOMAIN s PROVE s[i] = Head(s) \/ s[i] \in Range(Tail(s))
    BY DEF Range
  <2>1. CASE i = 1
    BY <1>1, <2>1
  <2>2. CASE i # 1
    <3>1. i - 1 \in DOMAIN Tail(s) /\ (i - 1) + 1 = i
      BY <1>1, <2>2
    <3> QED BY <1>1, <3>1 DEF Range
  <2> QED BY <2>1, <2>2
<1>3. {Head(s)} \cup Range(Tail(s)) \subseteq Range(s)
  BY <1>1 DEF Range
<1>4. /\ \A i \in DOMAIN Tail(s) : i + 1 # 1
      /\ \A i, j \in DOMAIN Tail(s) : i # j => i + 1 # j + 1
  BY <1>1
<1> QED BY <1>1, <1>2, <1>3, <1>4

\* A sequence holds what it holds.
LEMMA OwnRange ==
  ASSUME NEW S, NEW s \in Seq(S)
  PROVE  s \in Seq(Range(s)) /\ Range(s) \subseteq S /\ (s = <<>> => Range(s) = {})
<1>1. DOMAIN s = 1..Len(s) /\ Len(s) \in Nat /\ \A i \in DOMAIN s : s[i] \in S
  OBVIOUS
<1>2. s \in [1..Len(s) -> Range(s)]
  BY <1>1 DEF Range
<1>3. Range(s) \subseteq S /\ (s = <<>> => Range(s) = {})
  BY <1>1 DEF Range
<1> QED BY <1>1, <1>2, <1>3

-----------------------------------------------------------------------------
(* Opening *)

\* open() has every sensor once before it, with the source that slots.json gives it.
LEMMA ToOpenFacts ==
  ASSUME plugged \subseteq Holes, owned \in [Names -> Ids \cup {NoId}]
  PROVE  LET t == ToOpen.todo
         IN /\ ToOpen.op = "open" /\ ThreadFields(ToOpen) /\ t \in Seq(Range(t))
            /\ \A i \in DOMAIN t : t[i].name \in Names /\ From(t[i].name, t[i].src)
            /\ \A i, j \in DOMAIN t : i # j => t[i].name # t[j].name
<1> DEFINE din      == LoadDinMap(Assigned \cup WifiNames)
           Of(n, s) == [name |-> n, src |-> s, din |-> din[n]]
           usb      == InOrder(Assigned \ WifiNames)
           wifi     == InOrder(WifiNames)
           a        == [i \in DOMAIN usb |-> Of(usb[i], HoleOf(usb[i]))]
           b        == [i \in DOMAIN wifi |-> Of(wifi[i], cfg.wifi[wifi[i]])]
           t        == a \o b
           V        == Range(a) \cup Range(b)
<1>1. ToOpen = [Free EXCEPT !.op = "open", !.todo = t]
  BY DEF ToOpen
<1>2. ToOpen.todo = t /\ ToOpen.op = "open" /\ ThreadFields(ToOpen)
  <2> HIDE DEF t
  <2> QED BY <1>1 DEF Free, ThreadFields
<1>3. /\ usb \in Seq(Names) /\ wifi \in Seq(Names)
      /\ Range(usb) = Assigned \ WifiNames /\ Range(wifi) = WifiNames
      /\ \A i, j \in DOMAIN usb : i # j => usb[i] # usb[j]
      /\ \A i, j \in DOMAIN wifi : i # j => wifi[i] # wifi[j]
  <2>1. Assigned \ WifiNames \in SUBSET Names /\ WifiNames \in SUBSET Names
    BY DEF Assigned, WifiNames
  <2> QED BY <2>1, Turns
<1>4. /\ \A i \in DOMAIN usb : usb[i] \in Names /\ usb[i] \in Assigned /\ usb[i] \notin WifiNames
      /\ \A i \in DOMAIN wifi : wifi[i] \in Names /\ wifi[i] \in WifiNames
  <2>1. \A i \in DOMAIN usb : usb[i] \in Range(usb)
    BY DEF Range
  <2>2. \A i \in DOMAIN wifi : wifi[i] \in Range(wifi)
    BY DEF Range
  <2>3. Assigned \subseteq Names /\ WifiNames \subseteq Names
    BY DEF Assigned, WifiNames
  <2> HIDE DEF usb, wifi
  <2> QED BY <1>3, <2>1, <2>2, <2>3
<1> HIDE DEF usb, wifi, din
<1>5. /\ DOMAIN a = DOMAIN usb /\ \A i \in DOMAIN usb : /\ a[i].name = usb[i]
                                                        /\ a[i].src = HoleOf(usb[i])
      /\ DOMAIN b = DOMAIN wifi /\ \A i \in DOMAIN wifi : /\ b[i].name = wifi[i]
                                                          /\ b[i].src = cfg.wifi[wifi[i]]
  OBVIOUS
<1>6. a \in Seq(V) /\ b \in Seq(V)
  <2>1. /\ DOMAIN usb = 1..Len(usb) /\ Len(usb) \in Nat
        /\ DOMAIN wifi = 1..Len(wifi) /\ Len(wifi) \in Nat
    BY <1>3
  <2>2. a \in [1..Len(usb) -> V] /\ b \in [1..Len(wifi) -> V]
    BY <2>1 DEF Range
  <2> QED BY <2>1, <2>2
<1> HIDE DEF a, b, V
<1>7. /\ t \in Seq(V) /\ DOMAIN t = 1..(Len(a) + Len(b)) /\ Len(a) \in Nat /\ Len(b) \in Nat
      /\ DOMAIN a = 1..Len(a) /\ DOMAIN b = 1..Len(b)
      /\ \A i \in DOMAIN t : \/ i \in DOMAIN a /\ t[i] = a[i]
                             \/ /\ i \notin DOMAIN a /\ i - Len(a) \in DOMAIN b
                                /\ t[i] = b[i - Len(a)]
  BY <1>6, ConcatProperties
<1> HIDE DEF t
<1>8. \A i \in DOMAIN a : a[i].name \in Names /\ From(a[i].name, a[i].src)
  <2> SUFFICES ASSUME NEW i \in DOMAIN usb PROVE From(usb[i], HoleOf(usb[i]))
    BY <1>4, <1>5
  <2>1. \E h \in plugged : cfg.slots[h] = usb[i]
    BY <1>4 DEF Assigned
  <2>2. HoleOf(usb[i]) \in plugged /\ cfg.slots[HoleOf(usb[i])] = usb[i]
    BY <2>1 DEF HoleOf
  <2>3. cfg.wifi[usb[i]] = NoSrc
    BY <1>4 DEF WifiNames
  <2> QED BY <2>2, <2>3 DEF From
<1>9. \A i \in DOMAIN b : b[i].name \in Names /\ From(b[i].name, b[i].src)
  BY <1>4, <1>5 DEF WifiNames, From
<1>10. \A i \in DOMAIN t : t[i].name \in Names /\ From(t[i].name, t[i].src)
  BY <1>7, <1>8, <1>9
<1>11. ASSUME NEW i \in DOMAIN t, NEW j \in DOMAIN t, i # j PROVE t[i].name # t[j].name
  <2>1. CASE i \in DOMAIN a /\ j \in DOMAIN a
    BY <1>3, <1>5, <1>7, <1>11, <2>1
  <2>2. CASE i \notin DOMAIN a /\ j \notin DOMAIN a
    <3>1. i - Len(a) # j - Len(a) /\ i - Len(a) \in DOMAIN wifi /\ j - Len(a) \in DOMAIN wifi
      BY <1>5, <1>7, <1>11, <2>2
    <3>2. t[i].name = wifi[i - Len(a)] /\ t[j].name = wifi[j - Len(a)]
      BY <1>5, <1>7, <2>2
    <3> QED BY <1>3, <3>1, <3>2
  <2>3. CASE (i \in DOMAIN a) # (j \in DOMAIN a)
    <3>1. \A k \in DOMAIN t : (k \in DOMAIN a) = (t[k].name \notin WifiNames)
      <4> SUFFICES ASSUME NEW k \in DOMAIN t
                   PROVE  (k \in DOMAIN a) = (t[k].name \notin WifiNames)
        OBVIOUS
      <4>1. CASE k \in DOMAIN a
        BY <1>4, <1>5, <1>7, <4>1
      <4>2. CASE k \notin DOMAIN a
        <5>1. k - Len(a) \in DOMAIN wifi /\ t[k] = b[k - Len(a)]
          BY <1>5, <1>7, <4>2
        <5> QED BY <1>4, <1>5, <4>2, <5>1
      <4> QED BY <4>1, <4>2
    <3> QED BY <2>3, <3>1
  <2> QED BY <2>1, <2>2, <2>3
<1>12. t \in Seq(Range(t))
  BY <1>7, OwnRange
<1> QED BY <1>2, <1>10, <1>11, <1>12
-----------------------------------------------------------------------------
(* Steps that leave every open channel where it is *)

\* A channel runs, writes or loses its port; what it is and listens to stays.
Kept(ch, new) ==
  /\ Fields(new)
  /\ new.name = ch.name /\ new.src = ch.src /\ new.din = ch.din /\ new.low = ch.low
  /\ new.lines = ch.lines
  /\ Silent(ch) => Silent(new)

\* So do all of them; of those given up one may vanish.
Quiet ==
  /\ owned' = owned /\ chan' = [c \in Ids |-> chan'[c]]
  /\ \A c \in Ids : Kept(chan[c], chan'[c]) \/ (c \notin Owned /\ chan'[c] = NoChan)

\* No channel object: nothing in it listens.
LEMMA NoChanFacts == Fields(NoChan) /\ Silent(NoChan) /\ NoChan.lines \subseteq {NoChan.din}
BY DEF NoChan, Fields, Silent

\* Nothing at all about the channels.
LEMMA QuietSame ==
  ASSUME ChanInv, owned' = owned, chan' = chan
  PROVE  Quiet
<1>1. chan' = [c \in Ids |-> chan'[c]]
  BY DEF ChanInv
<1>2. \A c \in Ids : Kept(chan[c], chan'[c])
  BY DEF ChanInv, Kept
<1> QED BY <1>1, <1>2 DEF Quiet

\* One channel.
LEMMA QuietOne ==
  ASSUME ChanInv, owned' = owned, NEW c \in Ids, NEW new, chan' = [chan EXCEPT ![c] = new],
         Kept(chan[c], new) \/ (c \notin Owned /\ new = NoChan)
  PROVE  Quiet
<1>1. chan' = [k \in Ids |-> IF k = c THEN new ELSE chan[k]]
  <2>1. chan = [k \in Ids |-> chan[k]]
    BY DEF ChanInv
  <2> QED BY <2>1
<1>2. chan' = [k \in Ids |-> chan'[k]] /\ chan'[c] = new
      /\ \A k \in Ids \ {c} : chan'[k] = chan[k]
  BY <1>1
<1>3. \A k \in Ids \ {c} : Kept(chan[k], chan'[k])
  BY <1>2 DEF ChanInv, Kept
<1> QED BY <1>2, <1>3 DEF Quiet

\* A run that ends, or is ended, changes nothing else about a channel.
LEMMA RunKept ==
  ASSUME NEW ch, Fields(ch)
  PROVE  /\ \A w : Kept(ch, [ch EXCEPT !.state = "FINISHING", !.by = w])
         /\ \A v : Kept(ch, [ch EXCEPT !.left = v])
         /\ \A v, r : Kept(ch, [ch EXCEPT !.state = "RECORDING", !.left = v, !.run = r])
         /\ Kept(ch, [ch EXCEPT !.state = "IDLE", !.by = "none", !.left = 0, !.run = 0])
         /\ Kept(ch, [ch EXCEPT !.by = "gone"]) /\ Kept(ch, Raised(ch))
         /\ ch.link = "up" => Kept(ch, [ch EXCEPT !.link = "dead"])
         /\ ch.lines # {} => Kept(ch, [ch EXCEPT !.w = "cleared"])
         /\ ch.w = "cleared" =>
              /\ Kept(ch, [ch EXCEPT !.w = "idle"])
              /\ Kept(ch, Raised([ch EXCEPT !.w = "idle"]))
              /\ \A v, r : Kept(ch, [[ch EXCEPT !.w = "idle"]
                                       EXCEPT !.state = "RECORDING", !.left = v, !.run = r])
<1>1. \A w : Kept(ch, [ch EXCEPT !.state = "FINISHING", !.by = w])
  BY DEF Fields, Kept, Silent
<1>2. \A v : Kept(ch, [ch EXCEPT !.left = v])
  BY DEF Fields, Kept, Silent
<1>3. \A v, r : Kept(ch, [ch EXCEPT !.state = "RECORDING", !.left = v, !.run = r])
  BY DEF Fields, Kept, Silent
<1>4. Kept(ch, [ch EXCEPT !.state = "IDLE", !.by = "none", !.left = 0, !.run = 0])
  BY DEF Fields, Kept, Silent
<1>5. ch.link = "up" => Kept(ch, [ch EXCEPT !.link = "dead"])
  BY DEF Fields, Kept, Silent
<1>6. ch.lines # {} => Kept(ch, [ch EXCEPT !.w = "cleared"])
  BY DEF Fields, Kept, Silent
<1>7. ch.w = "cleared" => Kept(ch, [ch EXCEPT !.w = "idle"])
  BY DEF Fields, Kept, Silent
<1>8. ch.w = "cleared" =>
        \A v, r : Kept(ch, [[ch EXCEPT !.w = "idle"]
                              EXCEPT !.state = "RECORDING", !.left = v, !.run = r])
  BY DEF Fields, Kept, Silent
<1>9. Kept(ch, [ch EXCEPT !.by = "gone"]) /\ Kept(ch, Raised(ch))
  BY DEF Fields, Kept, Silent, Raised
<1>10. ch.w = "cleared" => Kept(ch, Raised([ch EXCEPT !.w = "idle"]))
  BY DEF Fields, Kept, Silent, Raised
<1> QED BY <1>1, <1>2, <1>3, <1>4, <1>5, <1>6, <1>7, <1>8, <1>9, <1>10

\* They leave what holds of the channels.
LEMMA QuietChan ==
  ASSUME ChanInv, Quiet
  PROVE  ChanInv' /\ Owned' = Owned /\ \A c \in Owned : c \in Ids /\ Kept(chan[c], chan'[c])
<1>1. Owned' = Owned
  BY DEF Quiet, Owned
<1>2. Owned \subseteq Ids
  BY Turns DEF ChanInv
<1>3. ASSUME NEW c \in Ids
      PROVE  Fields(chan'[c]) /\ chan'[c].lines \subseteq {chan'[c].din}
  <2>1. CASE Kept(chan[c], chan'[c])
    BY <2>1 DEF ChanInv, Kept
  <2>2. CASE chan'[c] = NoChan
    BY <2>2, NoChanFacts
  <2> QED BY <2>1, <2>2 DEF Quiet
<1>4. \A c \in Ids \ Owned : Silent(chan'[c])
  BY NoChanFacts DEF ChanInv, Quiet, Kept
<1>5. \A c \in Owned : c \in Ids /\ Kept(chan[c], chan'[c])
  BY <1>2 DEF Quiet
<1>6. ASSUME NEW n \in Names, owned[n] # NoId
      PROVE  chan'[owned[n]].name = n
  <2>1. owned[n] \in Owned
    BY <1>6 DEF Owned, Range, ChanInv
  <2> QED BY <1>5, <1>6, <2>1 DEF ChanInv, Kept
<1> QED BY <1>1, <1>3, <1>4, <1>5, <1>6 DEF ChanInv, Quiet

\* They leave what holds of the main thread's work, also where it turns to something else.
LEMMA QuietTodo ==
  ASSUME ChanInv, TodoInv, Quiet, mode' = mode, ThreadFields(ui'),
         ui'.op = "dialog" => ui'.phase \in Questions,
         \/ ui'.op = ui.op /\ ui'.todo = ui.todo /\ ui'.c = ui.c
         \/ /\ ui.op # "off"
            /\ \/ ui'.op \in {"free", "dialog", "watch", "cli"}
               \/ ui'.op \in {"start", "stop", "level"} /\ ui'.todo \in Seq(Owned)
               \/ ui'.op = "close" /\ ui'.todo \in Seq(Owned) /\ Range(ui'.todo) = Owned
               \/ ui'.op = "din" /\ ui'.c \in Owned
  PROVE  TodoInv'
<1>1. Owned' = Owned /\ owned' = owned /\ \A c \in Owned : Kept(chan[c], chan'[c])
  BY QuietChan DEF Quiet
<1>2. \A c \in Owned : Silent(chan[c]) => Silent(chan'[c])
  BY <1>1 DEF Kept
<1>3. CASE ui'.op = ui.op /\ ui'.todo = ui.todo /\ ui'.c = ui.c
  BY <1>1, <1>2, <1>3 DEF TodoInv
<1>4. CASE ui.op # "off" /\ ui'.op \in {"free", "dialog", "watch", "cli"}
  BY <1>4 DEF TodoInv
<1>5. CASE /\ ui.op # "off" /\ ui'.op \in {"start", "stop", "level"}
           /\ ui'.todo \in Seq(Owned)
  BY <1>1, <1>5 DEF TodoInv
<1>6. CASE /\ ui.op # "off" /\ ui'.op = "close" /\ ui'.todo \in Seq(Owned)
           /\ Range(ui'.todo) = Owned
  BY <1>1, <1>6 DEF TodoInv
<1>7. CASE ui.op # "off" /\ ui'.op = "din" /\ ui'.c \in Owned
  BY <1>1, <1>7 DEF TodoInv
<1> QED BY <1>3, <1>4, <1>5, <1>6, <1>7

\* The channels follow slots.json but for the time between a new number and reopening.
Following == ui.op = "open" \/ (ui.op # "close" /\ ~pending /\ ~refused)

\* They leave the channels as the settings have them, unless those change.
LEMMA QuietFollow ==
  ASSUME ChanInv, FollowInv, Quiet, plugged' \subseteq Holes,
         cfg' \in [slots : {cfg'.slots}, din : {cfg'.din}, wifi : {cfg'.wifi}],
         set' \in [size : {set'.size}, auto : {set'.auto}, low : {set'.low}],
         ui'.op = "open" => ui.op = "open" /\ ui'.todo = ui.todo,
         Following' => Following /\ cfg'.slots = cfg.slots /\ cfg'.wifi = cfg.wifi,
         \/ /\ set'.low = set.low
            /\ ui.op = "level" => (ui'.op = "level" /\ ui'.todo = ui.todo) \/ ui.todo = <<>>
         \/ ui'.op = "level" /\ Owned \subseteq Range(ui'.todo)
  PROVE  FollowInv'
<1>1. /\ owned' = owned
      /\ \A n \in Names : owned[n] # NoId =>
           /\ owned[n] \in Owned
           /\ chan'[owned[n]].src = chan[owned[n]].src /\ chan'[owned[n]].low = chan[owned[n]].low
  <2>1. \A n \in Names : owned[n] # NoId => owned[n] \in Owned
    BY DEF Owned, Range, ChanInv
  <2> QED BY <2>1, QuietChan DEF Quiet, Kept
<1>3. (ui.op = "open" => \A i \in DOMAIN ui.todo : From(ui.todo[i].name, ui.todo[i].src))'
  <2> SUFFICES ASSUME ui'.op = "open"
               PROVE  \A i \in DOMAIN ui'.todo : From(ui.todo[i].name, ui.todo[i].src)'
    OBVIOUS
  <2>1. cfg'.slots = cfg.slots /\ cfg'.wifi = cfg.wifi
    BY DEF Following
  <2>2. \A i \in DOMAIN ui.todo : From(ui.todo[i].name, ui.todo[i].src)
    BY DEF FollowInv
  <2> QED BY <2>1, <2>2 DEF From
<1>4. (Following => \A n \in Names : owned[n] # NoId => From(n, chan[owned[n]].src))'
  <2> SUFFICES ASSUME Following', NEW n \in Names, owned[n] # NoId
               PROVE  From(n, chan[owned[n]].src)'
    BY <1>1
  <2>1. From(n, chan[owned[n]].src)
    BY DEF FollowInv, Following
  <2> QED BY <1>1, <2>1 DEF From
<1>5. ASSUME NEW n \in Names, owned'[n] # NoId
      PROVE  \/ chan'[owned'[n]].low = set'.low
             \/ ui'.op = "level" /\ owned'[n] \in Range(ui'.todo)
  <2>1. \/ chan[owned[n]].low = set.low
        \/ ui.op = "level" /\ owned[n] \in Range(ui.todo)
    BY <1>1, <1>5 DEF FollowInv
  <2>2. ui.todo = <<>> => Range(ui.todo) = {}
    BY DEF Range
  <2> QED BY <1>1, <1>5, <2>1, <2>2
<1> QED BY <1>1, <1>3, <1>4, <1>5 DEF FollowInv, Following
-----------------------------------------------------------------------------
(* The steps of Next *)

LinkInv == ChanInv /\ TodoInv /\ FollowInv

\* A step that does no more to the channels than Quiet says, and leaves the settings and
\* the main thread's work as they are.
LEMMA NothingNew ==
  ASSUME LinkInv, Quiet, plugged' \subseteq Holes, UNCHANGED <<cfg, mode, pending, refused>>,
         set' \in [size : {set'.size}, auto : {set'.auto}, low : {set'.low}],
         set'.low = set.low, ThreadFields(ui'),
         ui'.op = ui.op, ui'.todo = ui.todo, ui'.c = ui.c,
         ui.op = "dialog" => ui'.phase = ui.phase
  PROVE  LinkInv'
<1>1. ChanInv'
  BY QuietChan DEF LinkInv
<1>2. TodoInv'
  <2>1. ui'.op = "dialog" => ui'.phase \in Questions
    BY DEF LinkInv, TodoInv
  <2> QED BY <2>1, QuietTodo DEF LinkInv
<1>3. Following' => Following
  BY DEF Following
<1>4. cfg' \in [slots : {cfg'.slots}, din : {cfg'.din}, wifi : {cfg'.wifi}]
  BY DEF LinkInv, FollowInv
<1>5. FollowInv'
  BY <1>3, <1>4, QuietFollow DEF LinkInv
<1> QED BY <1>1, <1>2, <1>5 DEF LinkInv

\* The main thread turns to something else, or to the next channel, and all settings stay.
LEMMA Turn ==
  ASSUME LinkInv, Quiet, UNCHANGED <<plugged, cfg, set, mode>>, ThreadFields(ui'),
         ui'.op = "dialog" => ui'.phase \in Questions,
         ui.op \notin {"off", "close", "open"} \/ (ui.op = "open" /\ ui'.op \in {"free", "cli"}),
         ui.op = "level" => ui.todo = <<>>,
         \/ ui'.op \in {"free", "dialog", "watch", "cli"}
         \/ ui'.op \in {"start", "stop"} /\ ui'.todo \in Seq(Owned)
         \/ ui'.op = "close" /\ ui'.todo \in Seq(Owned) /\ Range(ui'.todo) = Owned
         \/ ui'.op = "din" /\ ui'.c \in Owned,
         ui'.op # "close" => (pending \/ refused => pending' \/ refused')
  PROVE  LinkInv'
<1>1. ChanInv'
  BY QuietChan DEF LinkInv
<1>2. TodoInv'
  BY QuietTodo DEF LinkInv
<1>3. Following' => Following
  BY DEF Following
<1>4. /\ cfg' \in [slots : {cfg'.slots}, din : {cfg'.din}, wifi : {cfg'.wifi}]
      /\ set' \in [size : {set'.size}, auto : {set'.auto}, low : {set'.low}]
      /\ plugged' \subseteq Holes
  BY DEF LinkInv, FollowInv
<1>5. ui'.op # "open"
  OBVIOUS
<1>6. FollowInv'
  BY <1>3, <1>4, <1>5, QuietFollow DEF LinkInv
<1> QED BY <1>1, <1>2, <1>6 DEF LinkInv

\* Channel.start changes nothing that a settled channel is known by.
LEMMA StartKept ==
  ASSUME ChanInv, owned' = owned, NEW c \in Ids,
         \/ StartOr(c, chan[c])
         \/ chan[c].w = "cleared" /\ StartOr(c, [chan[c] EXCEPT !.w = "idle"])
  PROVE  Quiet
<1>1. Fields(chan[c])
  BY DEF ChanInv
<1>2. CASE StartOr(c, chan[c])
  <2>1. CASE chan[c].state = "IDLE"
    <3> DEFINE new == [chan[c] EXCEPT !.state = "RECORDING", !.left = set.size,
                                      !.run = NextRun(chan[c].name)]
    <3>1. chan' = [chan EXCEPT ![c] = new]
      BY <1>2, <2>1 DEF StartOr
    <3>2. Kept(chan[c], new)
      BY <1>1, RunKept
    <3> HIDE DEF new
    <3> QED BY <3>1, <3>2, QuietOne
  <2>2. CASE chan[c].state # "IDLE"
    <3>1. chan' = [chan EXCEPT ![c] = chan[c]]
      BY <1>2, <2>2 DEF StartOr
    <3>2. Kept(chan[c], chan[c])
      BY <1>1 DEF Kept
    <3> QED BY <3>1, <3>2, QuietOne
  <2> QED BY <2>1, <2>2
<1>3. CASE chan[c].w = "cleared" /\ StartOr(c, [chan[c] EXCEPT !.w = "idle"])
  <2>1. CASE chan[c].state = "IDLE"
    <3> DEFINE new == [[chan[c] EXCEPT !.w = "idle"]
                         EXCEPT !.state = "RECORDING", !.left = set.size,
                                !.run = NextRun(chan[c].name)]
    <3>1. chan' = [chan EXCEPT ![c] = new]
      BY <1>3, <2>1 DEF StartOr
    <3>2. Kept(chan[c], new)
      BY <1>1, <1>3, RunKept
    <3> HIDE DEF new
    <3> QED BY <3>1, <3>2, QuietOne
  <2>2. CASE chan[c].state # "IDLE"
    <3> DEFINE new == [chan[c] EXCEPT !.w = "idle"]
    <3>1. chan' = [chan EXCEPT ![c] = new]
      BY <1>3, <2>2 DEF StartOr
    <3>2. Kept(chan[c], new)
      BY <1>1, <1>3, RunKept
    <3> HIDE DEF new
    <3> QED BY <3>1, <3>2, QuietOne
  <2> QED BY <2>1, <2>2
<1> QED BY <1>2, <1>3

\* Nor does a start() that raises.
LEMMA RaisedKept ==
  ASSUME ChanInv, owned' = owned, NEW c \in Ids,
         \/ chan' = [chan EXCEPT ![c] = Raised(chan[c])]
         \/ /\ chan[c].w = "cleared"
            /\ chan' = [chan EXCEPT ![c] = Raised([chan[c] EXCEPT !.w = "idle"])]
  PROVE  Quiet
<1>1. PICK new : chan' = [chan EXCEPT ![c] = new] /\ Kept(chan[c], new)
  BY RunKept DEF ChanInv
<1> QED BY <1>1, QuietOne

\* Channel.stop neither.
LEMMA StopKept ==
  ASSUME ChanInv, owned' = owned, NEW c \in Ids, NEW who, NEW stops,
         chan' = IF stops THEN StopBegins(c, who) ELSE chan
  PROVE  Quiet
<1>1. CASE stops
  <2> DEFINE new == [chan[c] EXCEPT !.state = "FINISHING", !.by = who]
  <2>1. chan = [k \in Ids |-> chan[k]]
    BY DEF ChanInv
  <2>2. chan' = [chan EXCEPT ![c] = new]
    BY <1>1, <2>1 DEF StopBegins
  <2>3. Kept(chan[c], new)
    BY RunKept DEF ChanInv
  <2> HIDE DEF new
  <2> QED BY <2>2, <2>3, QuietOne
<1>2. CASE ~stops
  BY <1>2, QuietSame
<1> QED BY <1>1, <1>2

\* close() has every open channel before it, in turn.
LEMMA ToCloseFacts ==
  ASSUME ChanInv, NEW then
  PROVE  /\ ToClose(then).op = "close" /\ ThreadFields(ToClose(then))
         /\ ToClose(then).todo \in Seq(Owned) /\ Range(ToClose(then).todo) = Owned
<1>1. InOrder(Owned) \in Seq(Owned) /\ Range(InOrder(Owned)) = Owned
  BY Turns DEF ChanInv
<1>2. ToClose(then) = [Free EXCEPT !.op = "close", !.phase = "check", !.then = then,
                                   !.todo = InOrder(Owned)]
  BY DEF ToClose
<1> QED BY <1>1, <1>2 DEF Free, ThreadFields

\* reopen ends in closing, or is refused.
LEMMA ReopenFacts ==
  ASSUME ChanInv, Reopen
  PROVE  /\ ThreadFields(ui')
         /\ \/ ui' = Free /\ refused'
            \/ ui'.op = "close" /\ ui'.todo \in Seq(Owned) /\ Range(ui'.todo) = Owned
<1>1. ThreadFields(Free)
  BY DEF Free, ThreadFields
<1> QED BY <1>1, ToCloseFacts DEF Reopen

\* The program is gone.
LEMMA EndsKeep ==
  ASSUME ProgramEnds, plugged' \subseteq Holes,
         cfg' \in [slots : {cfg'.slots}, din : {cfg'.din}, wifi : {cfg'.wifi}],
         set' \in [size : {set'.size}, auto : {set'.auto}, low : {set'.low}]
  PROVE  LinkInv'
<1>1. /\ mode' = "off" /\ ui' = [Free EXCEPT !.op = "off"] /\ chan' = [c \in Ids |-> NoChan]
      /\ owned' = [n \in Names |-> NoId]
  BY DEF ProgramEnds
<1>2. ThreadFields(ui') /\ ui'.op = "off"
  BY <1>1 DEF Free, ThreadFields
<1>3. Owned' = {}
  BY <1>1 DEF Owned, Range
<1>4. ChanInv'
  BY <1>1, NoChanFacts DEF ChanInv
<1>5. TodoInv'
  BY <1>1, <1>2, <1>3 DEF TodoInv
<1>6. FollowInv'
  BY <1>1, <1>2 DEF FollowInv
<1> QED BY <1>4, <1>5, <1>6 DEF LinkInv

\* start() or stop() has raised under the main thread's hands.
LEMMA BreakKeeps ==
  ASSUME LinkInv, NEW channels, BreakOff(channels), UNCHANGED <<plugged, cfg, set>>,
         ui.op \in {"start", "stop", "close"},
         chan' = channels /\ owned' = owned => Quiet
  PROVE  LinkInv'
<1>1. /\ ChanInv /\ TodoInv /\ FollowInv /\ plugged' \subseteq Holes
      /\ cfg' \in [slots : {cfg'.slots}, din : {cfg'.din}, wifi : {cfg'.wifi}]
      /\ set' \in [size : {set'.size}, auto : {set'.auto}, low : {set'.low}]
  BY DEF LinkInv, FollowInv
<1>2. CASE /\ chan' = channels /\ ui' = Free /\ refused' = (refused \/ ui.op = "close")
           /\ UNCHANGED <<mode, owned, pending>>
  <2>1. Quiet
    BY <1>2
  <2>2. ThreadFields(ui') /\ ui'.op = "free"
    BY <1>2 DEF ThreadFields, Free
  <2>3. ChanInv'
    BY <1>1, <2>1, QuietChan
  <2>4. TodoInv'
    BY <1>1, <1>2, <2>1, <2>2, QuietTodo
  <2>5. Following' => Following
    BY <1>2, <2>2 DEF Following
  <2>6. FollowInv'
    BY <1>1, <2>1, <2>2, <2>5, QuietFollow
  <2> QED BY <2>3, <2>4, <2>6 DEF LinkInv
<1>3. CASE /\ ui.op # "close" /\ chan' = channels /\ ui' = ToClose("exit")
           /\ UNCHANGED <<mode, owned, pending, refused>>
  <2>1. Quiet
    BY <1>3
  <2>2. /\ ThreadFields(ui') /\ ui'.op = "close" /\ ui'.todo \in Seq(Owned)
        /\ Range(ui'.todo) = Owned
    BY <1>1, <1>3, ToCloseFacts
  <2> QED BY <1>3, <2>1, <2>2, Turn
<1>4. CASE ProgramEnds
  BY <1>1, <1>4, EndsKeep
<1> QED BY <1>2, <1>3, <1>4 DEF BreakOff

\* The threads of a channel.
LEMMA ThreadsKeep ==
  ASSUME LinkInv, NEW c \in Ids, Threads(c)
  PROVE  LinkInv'
<1>1. Fields(chan[c]) /\ chan = [k \in Ids |-> chan[k]] /\ ChanInv
  BY DEF LinkInv, ChanInv
<1>2. /\ plugged \subseteq Holes /\ ThreadFields(ui)
      /\ set \in [size : {set.size}, auto : {set.auto}, low : {set.low}]
  BY DEF LinkInv, FollowInv, TodoInv
<1>3. CASE Edge(c)
  <2> DEFINE new == [chan[c] EXCEPT !.w = "cleared"]
  <2>1. /\ chan' = [chan EXCEPT ![c] = new] /\ chan[c].lines # {}
        /\ UNCHANGED <<plugged, cfg, set, mode, owned, ui, pending, refused>>
    BY <1>1, <1>3 DEF Edge
  <2>2. Kept(chan[c], new)
    BY <1>1, <2>1, RunKept
  <2> HIDE DEF new
  <2>3. Quiet
    BY <1>1, <2>1, <2>2, QuietOne
  <2> QED BY <1>2, <2>1, <2>3, NothingNew
<1>4. CASE TriggerStart(c)
  <2>1. /\ chan[c].w = "cleared"
        /\ \/ StartOr(c, [chan[c] EXCEPT !.w = "idle"])
           \/ chan' = [chan EXCEPT ![c] = Raised([chan[c] EXCEPT !.w = "idle"])]
        /\ UNCHANGED <<plugged, cfg, set, mode, owned, ui, pending, refused>>
    BY <1>4 DEF TriggerStart
  <2>2. Quiet
    BY <1>1, <2>1, StartKept, RaisedKept
  <2> QED BY <1>2, <2>1, <2>2, NothingNew
<1>5. CASE Write(c)
  <2> DEFINE new == [chan[c] EXCEPT !.left = @ - 1]
  <2>1. /\ chan' = [chan EXCEPT ![c] = new]
        /\ UNCHANGED <<plugged, cfg, set, mode, owned, ui, pending, refused>>
    BY <1>1, <1>5 DEF Write
  <2>2. Kept(chan[c], new)
    BY <1>1, RunKept
  <2> HIDE DEF new
  <2>3. Quiet
    BY <1>1, <2>1, <2>2, QuietOne
  <2> QED BY <1>2, <2>1, <2>3, NothingNew
<1>6. CASE TimeUp(c)
  <2>1. /\ chan' = (IF TRUE THEN StopBegins(c, "timer") ELSE chan)
        /\ UNCHANGED <<plugged, cfg, set, mode, owned, ui, pending, refused>>
    BY <1>6 DEF TimeUp
  <2>2. Quiet
    BY <1>1, <2>1, StopKept
  <2> QED BY <1>2, <2>1, <2>2, NothingNew
<1>7. CASE \E record \in BOOLEAN : Finish(c, record)
  <2> DEFINE idle == [chan[c] EXCEPT !.state = "IDLE", !.by = "none", !.left = 0, !.run = 0]
             new  == IF c \in Owned THEN idle ELSE NoChan
  <2>1. /\ chan' = [chan EXCEPT ![c] = new] /\ ui' = [ui EXCEPT !.wait = @ /\ chan[c].by # "main"]
        /\ UNCHANGED <<plugged, cfg, set, mode, owned, pending, refused>>
    BY <1>1, <1>7 DEF Finish
  <2>2. Kept(chan[c], idle)
    BY <1>1, RunKept
  <2> HIDE DEF idle
  <2>3. Kept(chan[c], new) \/ (c \notin Owned /\ new = NoChan)
    BY <2>2
  <2> HIDE DEF new
  <2>4. Quiet
    BY <1>1, <2>1, <2>3, QuietOne
  <2>5. /\ ThreadFields(ui') /\ ui'.op = ui.op /\ ui'.todo = ui.todo /\ ui'.c = ui.c
        /\ ui'.phase = ui.phase
    BY <1>2, <2>1 DEF ThreadFields
  <2> QED BY <1>2, <2>1, <2>4, <2>5, NothingNew
<1>8. CASE FinishRaises(c)
  <2> DEFINE new == [chan[c] EXCEPT !.by = "gone"]
  <2>1. chan' = [chan EXCEPT ![c] = new] /\ owned' = owned => Quiet
    <3>1. Kept(chan[c], new)
      BY <1>1, RunKept
    <3> HIDE DEF new
    <3> QED BY <1>1, <3>1, QuietOne
  <2>2. /\ UNCHANGED <<plugged, cfg, set>>
        /\ \/ ui.op \in {"stop", "close"} /\ BreakOff([chan EXCEPT ![c] = new])
           \/ chan' = [chan EXCEPT ![c] = new] /\ UNCHANGED <<mode, owned, ui, pending, refused>>
    BY <1>1, <1>8 DEF FinishRaises
  <2> HIDE DEF new
  <2> QED BY <1>2, <2>1, <2>2, BreakKeeps, NothingNew
<1> QED BY <1>3, <1>4, <1>5, <1>6, <1>7, <1>8 DEF Threads, StopEnds
\* open() begins: no sensor has a channel.
LEMMA OpenBegins ==
  ASSUME plugged \subseteq Holes, cfg \in [slots : {cfg.slots}, din : {cfg.din}, wifi : {cfg.wifi}],
         UNCHANGED <<plugged, cfg, set>>, set \in [size : {set.size}, auto : {set.auto}, low : {set.low}],
         ChanInv', owned \in [Names -> Ids \cup {NoId}], owned' = [n \in Names |-> NoId],
         ui' = ToOpen, mode' # "off"
  PROVE  LinkInv'
<1>1. /\ ui'.op = "open" /\ ThreadFields(ui') /\ ui'.todo \in Seq(Range(ui'.todo))
      /\ \A i \in DOMAIN ui'.todo : /\ ui'.todo[i].name \in Names
                                    /\ From(ui'.todo[i].name, ui'.todo[i].src)
      /\ \A i, j \in DOMAIN ui'.todo : i # j => ui'.todo[i].name # ui'.todo[j].name
  BY ToOpenFacts
<1>2. TodoInv'
  BY <1>1 DEF TodoInv
<1>3. (ui.op = "open" => \A i \in DOMAIN ui.todo : From(ui.todo[i].name, ui.todo[i].src))'
  BY <1>1 DEF From
<1>4. FollowInv'
  BY <1>3 DEF FollowInv
<1> QED BY <1>2, <1>4 DEF LinkInv

\* Closing, one channel after the other.
LEMMA CloseKeeps ==
  ASSUME LinkInv, CloseCheck \/ CloseJoin \/ CloseEnds
  PROVE  LinkInv'
<1>1. /\ ChanInv /\ ThreadFields(ui) /\ plugged \subseteq Holes
      /\ cfg \in [slots : {cfg.slots}, din : {cfg.din}, wifi : {cfg.wifi}]
      /\ set \in [size : {set.size}, auto : {set.auto}, low : {set.low}]
      /\ owned \in [Names -> Ids \cup {NoId}] /\ chan = [c \in Ids |-> chan[c]]
      /\ ui.op = "close" /\ ui.todo \in Seq(Owned)
      /\ \A c \in Owned \ Range(ui.todo) : Silent(chan[c])
      /\ mode # "off" /\ Owned \subseteq Ids
  <2>1. ui.op = "close"
    BY DEF CloseCheck, CloseJoin, CloseEnds
  <2>2. ChanInv /\ Owned \subseteq Ids
    BY Turns DEF LinkInv, ChanInv
  <2> QED BY <2>1, <2>2 DEF LinkInv, ChanInv, TodoInv, FollowInv
<1>2. CASE CloseCheck
  <2> DEFINE c     == Head(ui.todo)
             stops == chan[c].state = "RECORDING"
  <2>1. /\ ui.todo # <<>> /\ chan' = (IF stops THEN StopBegins(c, "main") ELSE chan)
        /\ ui' = [ui EXCEPT !.phase = "join", !.wait = stops]
        /\ UNCHANGED <<plugged, cfg, set, mode, owned, pending, refused>>
    BY <1>2 DEF CloseCheck
  <2>2. c \in Ids
    BY <1>1, <2>1, TailFacts
  <2> HIDE DEF c, stops
  <2>3. Quiet
    BY <1>1, <2>1, <2>2, StopKept
  <2>4. ThreadFields(ui') /\ ui'.op = ui.op /\ ui'.todo = ui.todo /\ ui'.c = ui.c
    BY <1>1, <2>1 DEF ThreadFields
  <2> QED BY <1>1, <2>1, <2>3, <2>4, NothingNew
<1>3. CASE CloseJoin
  <2> DEFINE c   == Head(ui.todo)
             new == Closed(chan[c])
  <2>1. /\ ui.todo # <<>> /\ chan[c].w = "idle" /\ chan' = [chan EXCEPT ![c] = new]
        /\ ui' = [ui EXCEPT !.phase = "check", !.todo = Tail(@)]
        /\ UNCHANGED <<plugged, cfg, set, mode, owned, pending, refused>>
    BY <1>1, <1>3 DEF CloseJoin
  <2>2. c \in Owned /\ Tail(ui.todo) \in Seq(Owned) /\ Range(ui.todo) = {c} \cup Range(Tail(ui.todo))
    BY <1>1, <2>1, TailFacts
  <2>3. Fields(chan[c])
    BY <1>1, <2>2 DEF ChanInv
  <2>4. /\ Fields(new) /\ Silent(new) /\ new.lines \subseteq {new.din}
        /\ new.name = chan[c].name /\ new.src = chan[c].src /\ new.low = chan[c].low
    BY <2>1, <2>3 DEF Closed, Fields, Silent
  <2>5. ThreadFields(ui') /\ ui'.op = "close" /\ ui'.todo = Tail(ui.todo)
    BY <1>1, <2>1 DEF ThreadFields
  <2> HIDE DEF c, new
  <2>6. /\ chan' = [k \in Ids |-> chan'[k]] /\ chan'[c] = new
        /\ \A k \in Ids \ {c} : chan'[k] = chan[k]
    BY <1>1, <2>1, <2>2
  <2>7. Owned' = Owned /\ owned' = owned
    BY <2>1 DEF Owned
  <2>8. ChanInv'
    <3>1. \A k \in Ids : Fields(chan'[k]) /\ chan'[k].lines \subseteq {chan'[k].din}
      BY <1>1, <2>4, <2>6 DEF ChanInv
    <3>2. \A k \in Ids \ Owned : Silent(chan'[k])
      BY <1>1, <2>2, <2>6 DEF ChanInv
    <3>3. ASSUME NEW n \in Names, owned[n] # NoId
          PROVE  owned[n] \in Ids /\ chan'[owned[n]].name = n
      <4>1. owned[n] \in Ids /\ chan[owned[n]].name = n
        BY <1>1, <3>3 DEF ChanInv
      <4>2. chan'[owned[n]].name = chan[owned[n]].name
        BY ONLY <2>4, <2>6, <4>1
      <4> QED BY ONLY <4>1, <4>2
    <3> QED BY <1>1, <2>6, <2>7, <3>1, <3>2, <3>3 DEF ChanInv
  <2>9. TodoInv'
    <3>1. \A k \in Owned \ Range(ui'.todo) : Silent(chan'[k])
      BY <1>1, <2>2, <2>4, <2>5, <2>6
    <3> QED BY <1>1, <2>1, <2>2, <2>5, <2>7, <3>1 DEF TodoInv
  <2>10. FollowInv'
    <3>1. \A n \in Names : owned[n] # NoId => chan[owned[n]].low = set.low
      BY <1>1 DEF LinkInv, FollowInv
    <3>2. \A n \in Names : owned[n] # NoId => owned[n] \in Ids
      BY <1>1
    <3>3. \A n \in Names : owned[n] # NoId => chan'[owned[n]].low = set.low
      BY <2>4, <2>6, <3>1, <3>2
    <3> QED BY <1>1, <2>1, <2>5, <3>3 DEF FollowInv
  <2> QED BY <2>8, <2>9, <2>10 DEF LinkInv
<1>4. CASE CloseEnds
  <2>1. CASE ui.then = "exit"
    <3>1. ProgramEnds /\ UNCHANGED <<plugged, cfg, set>>
      BY <1>4, <2>1 DEF CloseEnds
    <3> QED BY <1>1, <3>1, EndsKeep
  <2>2. CASE ui.then # "exit"
    <3>1. /\ owned' = [n \in Names |-> NoId] /\ ui' = ToOpen
          /\ chan' = [c \in Ids |-> IF chan[c].state = "IDLE" THEN NoChan ELSE chan[c]]
          /\ UNCHANGED <<plugged, cfg, set, mode, pending, refused>>
          /\ ui.todo = <<>>
      BY <1>4, <2>2 DEF CloseEnds
    <3>2. \A c \in Ids : Silent(chan[c])
      BY <1>1, <3>1, OwnRange DEF ChanInv
    <3>3. \A c \in Ids : /\ Fields(chan'[c]) /\ chan'[c].lines \subseteq {chan'[c].din}
                         /\ Silent(chan'[c])
      BY <1>1, <3>1, <3>2, NoChanFacts DEF ChanInv
    <3>4. ChanInv'
      BY <3>1, <3>3 DEF ChanInv
    <3> QED BY <1>1, <3>1, <3>4, OpenBegins
  <2> QED BY <2>1, <2>2
<1> QED BY <1>2, <1>3, <1>4
\* A set of numbers that is not empty has a least one.
LEMMA LeastNumber ==
  ASSUME NEW S \in SUBSET Nat, S # {}
  PROVE  Min(S) \in S
<1>1. \E x \in S : \A y \in S : ~(<<y, x>> \in OpToRel(<, Nat))
  BY NatLessThanWellFounded, WFMin
<1>2. PICK x \in S : \A y \in S : ~(<<y, x>> \in OpToRel(<, Nat))
  BY <1>1
<1>3. \A y \in S : ~(y < x)
  <2>1. \A y \in S : <<y, x>> \in Nat \X Nat /\ <<y, x>>[1] = y /\ <<y, x>>[2] = x
    OBVIOUS
  <2> QED BY <1>2, <2>1, Zenon DEF OpToRel
<1>4. \E z \in S : \A y \in S : z <= y
  <2>1. \A y \in S : x <= y
    BY <1>3
  <2> QED BY <2>1
<1> QED BY <1>4, Zenon DEF Min

\* Opening, one sensor after the other.
LEMMA OpenKeeps ==
  ASSUME LinkInv, (\E opens \in BOOLEAN : OpenOne(opens)) \/ OpenEnds
  PROVE  LinkInv'
<1>1. /\ ChanInv /\ ThreadFields(ui) /\ plugged \subseteq Holes
      /\ cfg \in [slots : {cfg.slots}, din : {cfg.din}, wifi : {cfg.wifi}]
      /\ set \in [size : {set.size}, auto : {set.auto}, low : {set.low}]
      /\ owned \in [Names -> Ids \cup {NoId}] /\ chan = [c \in Ids |-> chan[c]]
      /\ ui.op = "open" /\ ui.todo \in Seq(Range(ui.todo))
      /\ \A i \in DOMAIN ui.todo : ui.todo[i].name \in Names /\ owned[ui.todo[i].name] = NoId
      /\ \A i, j \in DOMAIN ui.todo : i # j => ui.todo[i].name # ui.todo[j].name
      /\ mode # "off" /\ Owned \subseteq Ids
  <2>1. ui.op = "open"
    BY DEF OpenOne, OpenEnds
  <2>2. ChanInv /\ Owned \subseteq Ids
    BY Turns DEF LinkInv, ChanInv
  <2> QED BY <2>1, <2>2 DEF LinkInv, ChanInv, TodoInv, FollowInv
<1>2. /\ \A i \in DOMAIN ui.todo : From(ui.todo[i].name, ui.todo[i].src)
      /\ \A n \in Names : owned[n] # NoId =>
           From(n, chan[owned[n]].src) /\ chan[owned[n]].low = set.low
  BY <1>1 DEF LinkInv, FollowInv
<1>3. CASE \E opens \in BOOLEAN : OpenOne(opens)
  <2> DEFINE e     == Head(ui.todo)
             spare == {k \in Ids : chan[k] = NoChan}
             c     == Min(spare)
             new   == [NoChan EXCEPT !.name = e.name, !.src = e.src, !.link = "up",
                                     !.din = e.din, !.low = set.low, !.lines = Line(c, e.din)]
             rest  == Tail(ui.todo)
  <2>1. /\ ui.todo # <<>> /\ spare # {} /\ ui' = [ui EXCEPT !.todo = rest]
        /\ UNCHANGED <<plugged, cfg, set, mode, pending, refused>>
        /\ \/ owned' = [owned EXCEPT ![e.name] = c] /\ chan' = [chan EXCEPT ![c] = new]
           \/ UNCHANGED <<owned, chan>>
    BY <1>3 DEF OpenOne
  <2>2. /\ rest \in Seq(Range(ui.todo)) /\ e = ui.todo[1] /\ 1 \in DOMAIN ui.todo
        /\ \A i \in DOMAIN rest : /\ rest[i] = ui.todo[i + 1] /\ i + 1 \in DOMAIN ui.todo
                                  /\ i + 1 # 1
        /\ \A i, j \in DOMAIN rest : i # j => i + 1 # j + 1
    <3> DEFINE V == Range(ui.todo)
    <3>1. ui.todo \in Seq(V) /\ ui.todo # <<>>
      BY <1>1, <2>1
    <3> HIDE DEF V
    <3> DEFINE s == ui.todo
    <3>2. s \in Seq(V) /\ s # <<>>
      BY <3>1
    <3> HIDE DEF s
    <3>3. /\ Tail(s) \in Seq(V) /\ Head(s) = s[1] /\ 1 \in DOMAIN s
          /\ \A i \in DOMAIN Tail(s) : /\ Tail(s)[i] = s[i + 1] /\ i + 1 \in DOMAIN s
                                       /\ i + 1 # 1
          /\ \A i, j \in DOMAIN Tail(s) : i # j => i + 1 # j + 1
      BY <3>2, TailFacts
    <3> QED BY <3>3 DEF V, s
  <2>3. ThreadFields(ui') /\ ui'.op = "open" /\ ui'.todo = rest
    BY <1>1, <2>1 DEF ThreadFields
  <2> HIDE DEF e, rest
  <2>4. e.name \in Names /\ owned[e.name] = NoId /\ From(e.name, e.src)
    BY <1>1, <1>2, <2>2
  <2>5. rest \in Seq(Range(rest))
    BY <2>2, OwnRange
  <2>6. \A i \in DOMAIN rest : /\ rest[i].name \in Names /\ owned[rest[i].name] = NoId
                               /\ rest[i].name # e.name /\ From(rest[i].name, rest[i].src)
    BY <1>1, <1>2, <2>2
  <2>7. \A i, j \in DOMAIN rest : i # j => rest[i].name # rest[j].name
    BY <1>1, <2>2
  <2>8. CASE UNCHANGED <<owned, chan>>
    <3>1. ChanInv'
      BY <1>1, <2>8 DEF ChanInv, Owned
    <3>2. TodoInv'
      BY <1>1, <2>1, <2>3, <2>5, <2>6, <2>7, <2>8 DEF TodoInv
    <3>3. (ui.op = "open" => \A i \in DOMAIN ui.todo : From(ui.todo[i].name, ui.todo[i].src))'
      BY <2>1, <2>3, <2>6 DEF From
    <3>4. (\A n \in Names : owned[n] # NoId =>
             From(n, chan[owned[n]].src) /\ chan[owned[n]].low = set.low)'
      BY <1>2, <2>1, <2>8 DEF From
    <3>5. FollowInv'
      BY <1>1, <2>1, <3>3, <3>4 DEF FollowInv
    <3> QED BY <3>1, <3>2, <3>5 DEF LinkInv
  <2>9. CASE owned' = [owned EXCEPT ![e.name] = c] /\ chan' = [chan EXCEPT ![c] = new]
    <3>1. c \in Ids /\ chan[c] = NoChan
      <4>1. spare \in SUBSET Nat
        <5>1. Ids \subseteq Nat
          BY CollectorAssumption
        <5> QED BY <5>1
      <4>2. c \in spare
        <5> HIDE DEF spare
        <5> QED BY <2>1, <4>1, LeastNumber
      <4> QED BY <4>2
    <3>2. Fields(new) /\ new.lines \subseteq {new.din}
      BY DEF NoChan, Fields, Line
    <3>3. new.name = e.name /\ new.src = e.src /\ new.low = set.low
      BY DEF NoChan
    <3> HIDE DEF c, new
    <3>4. c # NoId
      BY <3>1, CollectorAssumption DEF NoId
    <3>5. NoChan.name \notin Names
      <4>1. Cardinality(Names) \in Nat
        BY CollectorAssumption, FS_CardinalityType
      <4>2. Names = 1..Cardinality(Names)
        BY CollectorAssumption
      <4> QED BY <4>1, <4>2 DEF NoChan, NoName
    <3>6. \A n \in Names : owned[n] # c
      BY <1>1, <3>1, <3>4, <3>5 DEF ChanInv
    <3>7. /\ owned' \in [Names -> Ids \cup {NoId}] /\ owned'[e.name] = c
          /\ \A n \in Names \ {e.name} : owned'[n] = owned[n]
      BY <1>1, <2>4, <2>9, <3>1
    <3>8. Owned' = Owned \cup {c}
      <4>1. Owned' \subseteq Owned \cup {c}
        BY <1>1, <2>4, <3>7 DEF Owned, Range
      <4>2. c \in Owned'
        BY <2>4, <3>4, <3>7 DEF Owned, Range
      <4>3. ASSUME NEW k \in Owned PROVE k \in Owned'
        <5>1. PICK n \in Names : owned[n] = k
          BY <1>1, <4>3 DEF Owned, Range
        <5>2. n # e.name /\ k # NoId
          BY <2>4, <4>3, <5>1 DEF Owned
        <5> QED BY <3>7, <5>1, <5>2 DEF Owned, Range
      <4> QED BY <4>1, <4>2, <4>3
    <3>9. /\ chan' = [k \in Ids |-> chan'[k]] /\ chan'[c] = new
          /\ \A k \in Ids \ {c} : chan'[k] = chan[k]
      BY <1>1, <2>9, <3>1
    <3>10. ChanInv'
      <4>1. \A k \in Ids : Fields(chan'[k]) /\ chan'[k].lines \subseteq {chan'[k].din}
        BY <1>1, <3>2, <3>9 DEF ChanInv
      <4>2. \A k \in Ids \ Owned' : Silent(chan'[k])
        BY <1>1, <3>8, <3>9 DEF ChanInv
      <4>3. \A n \in Names : owned'[n] # NoId => chan'[owned'[n]].name = n
        <5> SUFFICES ASSUME NEW n \in Names, owned'[n] # NoId PROVE chan'[owned'[n]].name = n
          OBVIOUS
        <5>1. CASE n = e.name
          BY <3>3, <3>7, <3>9, <5>1
        <5>2. CASE n # e.name
          <6>1. owned[n] # NoId /\ owned'[n] = owned[n] /\ owned[n] \in Ids /\ owned[n] # c
            BY <1>1, <3>6, <3>7, <5>2
          <6>2. chan[owned[n]].name = n
            BY <1>1, <6>1 DEF ChanInv
          <6> QED BY <3>9, <6>1, <6>2
        <5> QED BY <5>1, <5>2
      <4> QED BY <3>7, <3>9, <4>1, <4>2, <4>3 DEF ChanInv
    <3>11. TodoInv'
      <4>1. \A i \in DOMAIN rest : rest[i].name \in Names /\ owned'[rest[i].name] = NoId
        BY <2>6, <3>7
      <4> QED BY <1>1, <2>1, <2>3, <2>5, <2>7, <4>1 DEF TodoInv
    <3>12. (ui.op = "open" => \A i \in DOMAIN ui.todo : From(ui.todo[i].name, ui.todo[i].src))'
      BY <2>1, <2>3, <2>6 DEF From
    <3>13. (\A n \in Names : owned[n] # NoId =>
              From(n, chan[owned[n]].src) /\ chan[owned[n]].low = set.low)'
      <4> SUFFICES ASSUME NEW n \in Names, owned'[n] # NoId
                   PROVE  (From(n, chan[owned[n]].src) /\ chan[owned[n]].low = set.low)'
        OBVIOUS
      <4>1. CASE n = e.name
        BY <2>1, <2>4, <3>3, <3>7, <3>9, <4>1 DEF From
      <4>2. CASE n # e.name
        <5>1. owned'[n] = owned[n] /\ chan'[owned[n]] = chan[owned[n]]
          BY <1>1, <3>6, <3>7, <3>9, <4>2
        <5>2. From(n, chan[owned[n]].src) /\ chan[owned[n]].low = set.low
          BY <1>2, <5>1
        <5> QED BY <2>1, <5>1, <5>2 DEF From
      <4> QED BY <4>1, <4>2
    <3>14. FollowInv'
      BY <1>1, <2>1, <3>12, <3>13 DEF FollowInv
    <3> QED BY <3>10, <3>11, <3>14 DEF LinkInv
  <2> QED BY <2>1, <2>8, <2>9
<1>4. CASE OpenEnds
  <2>1. CASE mode # "window" /\ Owned = {}
    <3>1. ProgramEnds /\ UNCHANGED <<plugged, cfg, set>>
      BY <1>4, <2>1 DEF OpenEnds
    <3> QED BY <1>1, <3>1, EndsKeep
  <2>2. CASE ~(mode # "window" /\ Owned = {})
    <3>1. /\ ui' = (IF mode = "window" THEN Free ELSE [Free EXCEPT !.op = "cli"])
          /\ UNCHANGED <<plugged, cfg, set, mode, chan, owned, pending, refused>>
      BY <1>4, <2>2 DEF OpenEnds
    <3>2. ThreadFields(ui') /\ ui'.op \in {"free", "cli"}
      BY <3>1 DEF ThreadFields, Free
    <3>3. Quiet
      BY <1>1, <3>1, QuietSame
    <3> QED BY <1>1, <3>1, <3>2, <3>3, Turn
  <2> QED BY <2>1, <2>2
<1> QED BY <1>3, <1>4
\* Another input or level for a channel: it listens to that input, if it gets it.
LEMMA RewatchedFacts ==
  ASSUME NEW c, NEW d, NEW low, Fields(chan[c])
  PROVE  LET new == Rewatched(c, d, low)
         IN /\ Fields(new) /\ new.lines \subseteq {new.din} /\ new.name = chan[c].name
            /\ new.src = chan[c].src /\ new.low = low
BY DEF Rewatched, Line, Fields

\* One open channel is watched in another way.
LEMMA RewatchKeeps ==
  ASSUME ChanInv, owned' = owned, NEW c \in Owned, NEW new, chan' = [chan EXCEPT ![c] = new],
         Fields(new), new.lines \subseteq {new.din}, new.name = chan[c].name,
         new.src = chan[c].src
  PROVE  /\ ChanInv' /\ Owned' = Owned
         /\ \A k \in Owned : /\ chan'[k].src = chan[k].src
                             /\ chan'[k].low = IF k = c THEN new.low ELSE chan[k].low
<1>1. Owned' = Owned /\ Owned \subseteq Ids /\ owned \in [Names -> Ids \cup {NoId}]
      /\ chan = [k \in Ids |-> chan[k]]
  BY Turns DEF Owned, ChanInv
<1>2. c \in Ids
  BY <1>1
<1>3. chan' = [k \in Ids |-> chan'[k]] /\ chan'[c] = new
      /\ \A k \in Ids \ {c} : chan'[k] = chan[k]
  BY <1>1, <1>2
<1>4. \A k \in Ids : Fields(chan'[k]) /\ chan'[k].lines \subseteq {chan'[k].din}
  BY <1>3 DEF ChanInv
<1>5. \A k \in Ids \ Owned : Silent(chan'[k])
  BY <1>3 DEF ChanInv
<1>6. \A n \in Names : owned[n] # NoId => chan'[owned[n]].name = n
  BY <1>1, <1>3 DEF ChanInv
<1>7. ChanInv'
  BY <1>1, <1>3, <1>4, <1>5, <1>6 DEF ChanInv
<1> QED BY <1>1, <1>3, <1>7

\* Starting, stopping, and what the command line does.
LEMMA LoopKeeps ==
  ASSUME LinkInv, StartCheck \/ StartGo \/ StopOne \/ LoopEnds \/ CliBegins \/ CliDone
  PROVE  LinkInv'
<1>1. /\ ChanInv /\ ThreadFields(ui) /\ Owned \subseteq Ids
      /\ ui.op \in {"start", "stop", "level", "cli", "watch"}
      /\ ui.op \in {"start", "stop"} => ui.todo \in Seq(Owned)
      /\ InOrder(Owned) \in Seq(Owned)
  <2>1. ui.op \in {"start", "stop", "level", "cli", "watch"}
    BY DEF StartCheck, StartGo, StopOne, LoopEnds, CliBegins, CliDone
  <2>2. ChanInv /\ ThreadFields(ui) /\ (ui.op \in {"start", "stop"} => ui.todo \in Seq(Owned))
    BY DEF LinkInv, TodoInv
  <2>3. Owned \subseteq Ids /\ InOrder(Owned) \in Seq(Owned)
    BY <2>2, Turns DEF ChanInv
  <2> QED BY <2>1, <2>2, <2>3
<1>2. CASE StartCheck
  <2>1. /\ ui.op = "start" /\ ui.todo # <<>>
        /\ ui' = [ui EXCEPT !.phase = "go"] \/ ui' = [ui EXCEPT !.todo = Tail(@)]
        /\ UNCHANGED <<plugged, cfg, set, mode, chan, owned, pending, refused>>
    BY <1>2 DEF StartCheck
  <2>2. Tail(ui.todo) \in Seq(Owned)
    BY <1>1, <2>1, TailFacts
  <2>3. ThreadFields(ui') /\ ui'.op = "start" /\ ui'.todo \in Seq(Owned)
    BY <1>1, <2>1, <2>2 DEF ThreadFields
  <2>4. Quiet
    BY <1>1, <2>1, QuietSame
  <2> QED BY <2>1, <2>3, <2>4, Turn
<1>3. CASE StartGo
  <2> DEFINE c == Head(ui.todo)
  <2>1. /\ ui.op = "start" /\ ui.todo # <<>> /\ UNCHANGED <<plugged, cfg, set>>
        /\ \/ /\ StartOr(c, chan[c]) /\ ui' = [ui EXCEPT !.phase = "check", !.todo = Tail(@)]
              /\ UNCHANGED <<mode, owned, pending, refused>>
           \/ BreakOff([chan EXCEPT ![c] = Raised(@)])
    BY <1>3 DEF StartGo
  <2>2. c \in Ids /\ Tail(ui.todo) \in Seq(Owned)
    BY <1>1, <2>1, TailFacts
  <2> HIDE DEF c
  <2>3. CASE /\ StartOr(c, chan[c]) /\ ui' = [ui EXCEPT !.phase = "check", !.todo = Tail(@)]
             /\ UNCHANGED <<mode, owned, pending, refused>>
    <3>1. ThreadFields(ui') /\ ui'.op = "start" /\ ui'.todo \in Seq(Owned)
      BY <1>1, <2>1, <2>2, <2>3 DEF ThreadFields
    <3>2. Quiet
      BY <1>1, <2>2, <2>3, StartKept
    <3> QED BY <2>1, <2>3, <3>1, <3>2, Turn
  <2>4. CASE BreakOff([chan EXCEPT ![c] = Raised(@)])
    <3>1. [chan EXCEPT ![c] = Raised(@)] = [chan EXCEPT ![c] = Raised(chan[c])]
      BY <1>1, <2>2 DEF ChanInv
    <3>2. chan' = [chan EXCEPT ![c] = Raised(chan[c])] /\ owned' = owned => Quiet
      BY <1>1, <2>2, RaisedKept
    <3> QED BY <2>1, <2>4, <3>1, <3>2, BreakKeeps
  <2> QED BY <2>1, <2>3, <2>4
<1>4. CASE StopOne
  <2> DEFINE c     == Head(ui.todo)
             stops == chan[c].state = "RECORDING"
  <2>1. /\ ui.op = "stop" /\ ui.todo # <<>>
        /\ chan' = IF stops THEN StopBegins(c, "main") ELSE chan
        /\ ui' = [ui EXCEPT !.todo = Tail(@), !.wait = stops]
        /\ UNCHANGED <<plugged, cfg, set, mode, owned, pending, refused>>
    BY <1>4 DEF StopOne
  <2>2. c \in Ids /\ Tail(ui.todo) \in Seq(Owned)
    BY <1>1, <2>1, TailFacts
  <2> HIDE DEF c, stops
  <2>3. ThreadFields(ui') /\ ui'.op = "stop" /\ ui'.todo \in Seq(Owned)
    BY <1>1, <2>1, <2>2 DEF ThreadFields
  <2>4. Quiet
    BY <1>1, <2>1, <2>2, StopKept
  <2> QED BY <2>1, <2>3, <2>4, Turn
<1>5. ThreadFields(Free) /\ Free.op = "free"
  BY DEF ThreadFields, Free
<1>6. ThreadFields([Free EXCEPT !.op = "watch"]) /\ [Free EXCEPT !.op = "watch"].op = "watch"
  BY DEF ThreadFields, Free
<1>7. CASE LoopEnds
  <2>1. /\ ui.op \in {"start", "stop", "level"} /\ ui.todo = <<>>
        /\ ui' \in {Free, [Free EXCEPT !.op = "watch"], ToClose("exit")}
        /\ UNCHANGED <<plugged, cfg, set, mode, chan, owned, pending, refused>>
    BY <1>7 DEF LoopEnds
  <2>2. Quiet
    BY <1>1, <2>1, QuietSame
  <2>3. /\ ThreadFields(ui')
        /\ \/ ui'.op \in {"free", "watch"}
           \/ ui'.op = "close" /\ ui'.todo \in Seq(Owned) /\ Range(ui'.todo) = Owned
    BY <1>1, <1>5, <1>6, <2>1, ToCloseFacts
  <2> QED BY <2>1, <2>2, <2>3, Turn
<1>8. CASE CliBegins
  <2> DEFINE begin == [Free EXCEPT !.op = "start", !.phase = "check", !.todo = InOrder(Owned)]
  <2>1. /\ ui.op = "cli"
        /\ ui' \in {[Free EXCEPT !.op = "watch"], begin, ToClose("exit")}
        /\ UNCHANGED <<plugged, cfg, set, mode, chan, owned, pending, refused>>
    BY <1>8 DEF CliBegins
  <2>2. Quiet
    BY <1>1, <2>1, QuietSame
  <2>3. ThreadFields(begin) /\ begin.op = "start" /\ begin.todo \in Seq(Owned)
    BY <1>1 DEF ThreadFields, Free
  <2> HIDE DEF begin
  <2>4. /\ ThreadFields(ui')
        /\ \/ ui'.op = "watch"
           \/ ui'.op = "start" /\ ui'.todo \in Seq(Owned)
           \/ ui'.op = "close" /\ ui'.todo \in Seq(Owned) /\ Range(ui'.todo) = Owned
    BY <1>1, <1>6, <2>1, <2>3, ToCloseFacts
  <2> QED BY <2>1, <2>2, <2>4, Turn
<1>9. CASE CliDone
  <2>1. /\ ui.op = "watch" /\ ui' = ToClose("exit")
        /\ UNCHANGED <<plugged, cfg, set, mode, chan, owned, pending, refused>>
    BY <1>9 DEF CliDone
  <2>2. Quiet
    BY <1>1, <2>1, QuietSame
  <2>3. /\ ThreadFields(ui') /\ ui'.op = "close" /\ ui'.todo \in Seq(Owned)
        /\ Range(ui'.todo) = Owned
    BY <1>1, <2>1, ToCloseFacts
  <2> QED BY <2>1, <2>2, <2>3, Turn
<1> QED BY <1>2, <1>3, <1>4, <1>7, <1>8, <1>9

\* Watching photo sensors again, with another level or another input.
LEMMA WatchKeeps ==
  ASSUME LinkInv, LevelOne \/ DinOne
  PROVE  LinkInv'
<1>1. /\ ChanInv /\ ThreadFields(ui) /\ plugged \subseteq Holes /\ mode # "off"
      /\ cfg \in [slots : {cfg.slots}, din : {cfg.din}, wifi : {cfg.wifi}]
      /\ set \in [size : {set.size}, auto : {set.auto}, low : {set.low}]
      /\ \A n \in Names : owned[n] # NoId => owned[n] \in Owned
  <2>1. ui.op \in {"level", "din"}
    BY DEF LevelOne, DinOne
  <2>2. \A n \in Names : owned[n] # NoId => owned[n] \in Owned
    BY DEF LinkInv, ChanInv, Owned, Range
  <2> QED BY <2>1, <2>2 DEF LinkInv, TodoInv, FollowInv
<1>2. Following => \A n \in Names : owned[n] # NoId => From(n, chan[owned[n]].src)
  BY DEF LinkInv, FollowInv, Following
<1>3. \A n \in Names : owned[n] # NoId =>
        chan[owned[n]].low = set.low \/ (ui.op = "level" /\ owned[n] \in Range(ui.todo))
  BY DEF LinkInv, FollowInv
<1>4. CASE LevelOne
  <2> DEFINE c == Head(ui.todo)
  <2>1. /\ ui.op = "level" /\ ui.todo # <<>>
        /\ chan' = [chan EXCEPT ![c] = Rewatched(c, chan[c].din, set.low)]
        /\ ui' = [ui EXCEPT !.todo = Tail(@)]
        /\ UNCHANGED <<plugged, cfg, set, mode, owned, pending, refused>>
    <3>1. chan = [k \in Ids |-> chan[k]]
      BY <1>1 DEF ChanInv
    <3> QED BY <1>4, <3>1 DEF LevelOne
  <2>2. ui.todo \in Seq(Owned)
    BY <2>1 DEF LinkInv, TodoInv
  <2>3. /\ c \in Owned /\ Tail(ui.todo) \in Seq(Owned)
        /\ Range(ui.todo) = {c} \cup Range(Tail(ui.todo))
    BY <2>1, <2>2, TailFacts
  <2>4. ThreadFields(ui') /\ ui'.op = "level" /\ ui'.todo = Tail(ui.todo)
    BY <1>1, <2>1 DEF ThreadFields
  <2> HIDE DEF c
  <2>5. /\ ChanInv' /\ Owned' = Owned
        /\ \A k \in Owned : /\ chan'[k].src = chan[k].src
                            /\ chan'[k].low = IF k = c THEN set.low ELSE chan[k].low
    <3> DEFINE new == Rewatched(c, chan[c].din, set.low)
    <3>1. /\ Fields(new) /\ new.lines \subseteq {new.din} /\ new.name = chan[c].name
          /\ new.src = chan[c].src /\ new.low = set.low
      <4>1. Fields(chan[c])
        BY <1>1, <2>3, Turns DEF ChanInv
      <4> QED BY <4>1, RewatchedFacts
    <3>2. chan' = [chan EXCEPT ![c] = new]
      BY <2>1
    <3> HIDE DEF new
    <3>3. ChanInv /\ owned' = owned /\ c \in Owned
      BY <1>1, <2>1, <2>3
    <3>4. /\ ChanInv' /\ Owned' = Owned
          /\ \A k \in Owned : /\ chan'[k].src = chan[k].src
                              /\ chan'[k].low = IF k = c THEN new.low ELSE chan[k].low
      BY <3>1, <3>2, <3>3, RewatchKeeps
    <3> QED BY <3>1, <3>4
  <2>6. TodoInv'
    BY <1>1, <2>1, <2>3, <2>4, <2>5 DEF TodoInv
  <2>7. (Following => \A n \in Names : owned[n] # NoId => From(n, chan[owned[n]].src))'
    <3>1. Following' => Following
      BY <2>1 DEF Following
    <3>2. owned' = owned /\ cfg' = cfg /\ plugged' = plugged
      BY <2>1
    <3>3. \A n \in Names : owned[n] # NoId => chan'[owned[n]].src = chan[owned[n]].src
      BY <1>1, <2>5
    <3> QED BY <1>2, <3>1, <3>2, <3>3 DEF From
  <2>8. \A n \in Names : owned[n] # NoId =>
          chan'[owned[n]].low = set.low \/ owned[n] \in Range(Tail(ui.todo))
    BY <1>1, <1>3, <2>3, <2>5
  <2>9. FollowInv'
    BY <1>1, <2>1, <2>4, <2>7, <2>8 DEF FollowInv, Following
  <2> QED BY <2>5, <2>6, <2>9 DEF LinkInv
<1>5. CASE DinOne
  <2>1. /\ ui.op = "din" /\ ui' = Free
        /\ chan' = [chan EXCEPT ![ui.c] = Rewatched(ui.c, ui.arg, chan[ui.c].low)]
        /\ \E f : cfg' = [cfg EXCEPT !.din = f]
        /\ UNCHANGED <<plugged, set, mode, owned, pending, refused>>
    BY <1>5 DEF DinOne
  <2>2. ui.c \in Owned
    BY <2>1 DEF LinkInv, TodoInv
  <2>3. ThreadFields(ui') /\ ui'.op = "free"
    BY <2>1 DEF ThreadFields, Free
  <2>4. /\ ChanInv' /\ Owned' = Owned
        /\ \A k \in Owned : chan'[k].src = chan[k].src /\ chan'[k].low = chan[k].low
    <3> DEFINE c   == ui.c
               new == Rewatched(c, ui.arg, chan[c].low)
    <3>1. /\ Fields(new) /\ new.lines \subseteq {new.din} /\ new.name = chan[c].name
          /\ new.src = chan[c].src /\ new.low = chan[c].low
      <4>1. Fields(chan[c])
        BY <1>1, <2>2, Turns DEF ChanInv
      <4> QED BY <4>1, RewatchedFacts
    <3>2. c \in Owned /\ chan' = [chan EXCEPT ![c] = new]
      BY <2>1, <2>2
    <3>3. ChanInv /\ owned' = owned
      BY <1>1, <2>1
    <3> HIDE DEF c, new
    <3>4. /\ ChanInv' /\ Owned' = Owned
          /\ \A k \in Owned : /\ chan'[k].src = chan[k].src
                             /\ chan'[k].low = IF k = c THEN new.low ELSE chan[k].low
      BY <3>1, <3>2, <3>3, RewatchKeeps
    <3> QED BY ONLY <3>1, <3>4
  <2>5. TodoInv'
    BY <1>1, <2>1, <2>3 DEF TodoInv
  <2>6. /\ cfg' \in [slots : {cfg'.slots}, din : {cfg'.din}, wifi : {cfg'.wifi}]
        /\ cfg'.slots = cfg.slots /\ cfg'.wifi = cfg.wifi
    BY <1>1, <2>1
  <2>7. (Following => \A n \in Names : owned[n] # NoId => From(n, chan[owned[n]].src))'
    <3>1. Following' => Following
      BY <2>1, <2>3 DEF Following
    <3> QED BY <1>1, <1>2, <2>1, <2>4, <2>6, <3>1 DEF From
  <2>8. \A n \in Names : owned[n] # NoId => chan'[owned[n]].low = set.low
    BY <1>1, <1>3, <2>1, <2>4
  <2>9. FollowInv'
    BY <1>1, <2>1, <2>3, <2>6, <2>7, <2>8 DEF FollowInv, Following
  <2> QED BY <2>4, <2>5, <2>9 DEF LinkInv
<1> QED BY <1>4, <1>5
\* A new number, source or port: what follows is a question less, reopening, or a warning.
LEMMA NewSettings ==
  ASSUME LinkInv, UNCHANGED <<plugged, set, mode, chan, owned>>, ui.op \in {"free", "dialog"},
         cfg' \in [slots : {cfg'.slots}, din : {cfg'.din}, wifi : {cfg'.wifi}],
         ThreadFields(ui'),
         \/ ui'.op = "free" /\ (refused' \/ pending')
         \/ ui'.op = "close" /\ ui'.todo \in Seq(Owned) /\ Range(ui'.todo) = Owned
  PROVE  LinkInv'
<1>1. Quiet
  BY QuietSame DEF LinkInv
<1>2. ChanInv'
  BY <1>1, QuietChan DEF LinkInv
<1>3. TodoInv'
  BY <1>1, QuietTodo DEF LinkInv
<1>4. ~Following'
  BY DEF Following
<1>5. /\ set' \in [size : {set'.size}, auto : {set'.auto}, low : {set'.low}]
      /\ plugged' \subseteq Holes /\ set'.low = set.low
  BY DEF LinkInv, FollowInv
<1>6. FollowInv'
  BY <1>1, <1>4, <1>5, QuietFollow DEF LinkInv
<1> QED BY <1>2, <1>3, <1>6 DEF LinkInv

\* --auto, and the button for it, keep the shape of slots.json.
LEMMA AutoAssignFields ==
  ASSUME cfg \in [slots : {cfg.slots}, din : {cfg.din}, wifi : {cfg.wifi}]
  PROVE  LET new == AutoAssign(cfg)
         IN new \in [slots : {new.slots}, din : {new.din}, wifi : {new.wifi}]
BY DEF AutoAssign

\* Questions, answers and the postponed reopening.
LEMMA AnswerKeeps ==
  ASSUME LinkInv, (\E yes \in BOOLEAN : Answer(yes)) \/ AfterIdle \/ OnReopen
  PROVE  LinkInv'
<1>1. /\ ChanInv /\ ui.op \in {"free", "dialog"}
      /\ cfg \in [slots : {cfg.slots}, din : {cfg.din}, wifi : {cfg.wifi}]
      /\ UNCHANGED <<plugged, set, mode, chan, owned>>
  <2>1. ui.op \in {"free", "dialog"} /\ UNCHANGED <<plugged, set, mode, chan, owned>>
    BY DEF Answer, AfterIdle, OnReopen, Command
  <2> QED BY <2>1 DEF LinkInv, FollowInv
<1>2. ThreadFields(Free) /\ Free.op = "free"
  BY DEF ThreadFields, Free
<1>3. ASSUME Reopen, cfg' \in [slots : {cfg'.slots}, din : {cfg'.din}, wifi : {cfg'.wifi}]
      PROVE  LinkInv'
  <2>1. /\ ThreadFields(ui')
        /\ \/ ui' = Free /\ refused'
           \/ ui'.op = "close" /\ ui'.todo \in Seq(Owned) /\ Range(ui'.todo) = Owned
    BY <1>1, <1>3, ReopenFacts
  <2> QED BY <1>1, <1>2, <1>3, <2>1, NewSettings
<1>4. CASE AfterIdle \/ OnReopen
  <2>1. Reopen /\ cfg' = cfg
    BY <1>4 DEF AfterIdle, OnReopen
  <2> QED BY <1>1, <1>3, <2>1
<1>5. CASE \E yes \in BOOLEAN : Answer(yes)
  <2>1. \/ ui' = Free /\ UNCHANGED <<cfg, pending, refused>>
        \/ cfg' = AutoAssign(cfg) /\ Reopen
        \/ (\E p : cfg' = [cfg EXCEPT !.wifi[ui.arg] = p]) /\ ui' = Free /\ pending'
        \/ (\E p : cfg' = [cfg EXCEPT !.wifi[ui.arg] = p]) /\ Reopen
        \/ ui' = ToClose("exit") /\ UNCHANGED <<cfg, pending, refused>>
    <3>1. PICK yes \in BOOLEAN : Answer(yes)
      BY <1>5
    <3>2. ui.op = "dialog" /\ ui.phase \in Questions
      BY <3>1 DEF Answer, LinkInv, TodoInv
    <3>3. CASE ~yes
      BY <3>1, <3>3 DEF Answer
    <3>4. CASE yes /\ ui.phase = "assign"
      BY <3>1, <3>4 DEF Answer
    <3>5. CASE yes /\ ui.phase \in {"wifi", "usb"}
      BY <3>1, <3>5 DEF Answer
    <3>6. CASE yes /\ ui.phase = "add"
      BY <3>1, <3>6 DEF Answer
    <3>7. CASE yes /\ ui.phase = "exit"
      BY <3>1, <3>7 DEF Answer
    <3> QED BY <3>2, <3>3, <3>4, <3>5, <3>6, <3>7 DEF Questions
  <2>2. CASE ui' = Free /\ UNCHANGED <<cfg, pending, refused>>
    <3>1. Quiet
      BY <1>1, QuietSame
    <3>2. ThreadFields(ui') /\ ui'.op = "free"
      BY <1>2, <2>2
    <3> QED BY <1>1, <2>2, <3>1, <3>2, Turn
  <2>3. CASE cfg' = AutoAssign(cfg) /\ Reopen
    BY <1>1, <1>3, <2>3, AutoAssignFields
  <2>4. CASE (\E p : cfg' = [cfg EXCEPT !.wifi[ui.arg] = p]) /\ ui' = Free /\ pending'
    <3>1. cfg' \in [slots : {cfg'.slots}, din : {cfg'.din}, wifi : {cfg'.wifi}]
      BY <1>1, <2>4
    <3> QED BY <1>1, <1>2, <2>4, <3>1, NewSettings
  <2>5. CASE (\E p : cfg' = [cfg EXCEPT !.wifi[ui.arg] = p]) /\ Reopen
    <3>1. cfg' \in [slots : {cfg'.slots}, din : {cfg'.din}, wifi : {cfg'.wifi}]
      BY <1>1, <2>5
    <3> QED BY <1>3, <2>5, <3>1
  <2>6. CASE ui' = ToClose("exit") /\ UNCHANGED <<cfg, pending, refused>>
    BY <1>1, <2>6, ToCloseFacts, NewSettings
  <2> QED BY <2>1, <2>2, <2>3, <2>4, <2>5, <2>6
<1> QED BY <1>4, <1>5

\* The other buttons and menus.
LEMMA WindowKeeps ==
  ASSUME LinkInv, Window
  PROVE  LinkInv'
<1>1. /\ ChanInv /\ ThreadFields(ui) /\ plugged \subseteq Holes
      /\ set \in [size : {set.size}, auto : {set.auto}, low : {set.low}]
      /\ cfg \in [slots : {cfg.slots}, din : {cfg.din}, wifi : {cfg.wifi}]
      /\ owned \in [Names -> Ids \cup {NoId}]
      /\ \A n \in Names : owned[n] # NoId => chan[owned[n]].name = n /\ owned[n] \in Owned
      /\ \A k \in Owned : owned[chan[k].name] = k
      /\ \A S \in SUBSET Owned : InOrder(S) \in Seq(Owned) /\ Range(InOrder(S)) = S
  <2>1. ChanInv /\ owned \in [Names -> Ids \cup {NoId}]
    BY DEF LinkInv, ChanInv
  <2>2. \A n \in Names : owned[n] # NoId => chan[owned[n]].name = n /\ owned[n] \in Owned
    BY <2>1 DEF ChanInv, Owned, Range
  <2>3. \A k \in Owned : owned[chan[k].name] = k
    BY <2>1 DEF ChanInv, Owned, Range
  <2>4. \A S \in SUBSET Owned : InOrder(S) \in Seq(Owned) /\ Range(InOrder(S)) = S
    BY <2>1, Turns
  <2> QED BY <2>1, <2>2, <2>3, <2>4 DEF LinkInv, TodoInv, FollowInv
<1>2. ASSUME UNCHANGED <<plugged, cfg, set, mode, chan, owned, pending, refused>>,
             ui.op = "free", ThreadFields(ui'),
             \/ ui'.op = "dialog" /\ ui'.phase \in Questions
             \/ ui'.op \in {"start", "stop"} /\ ui'.todo \in Seq(Owned)
             \/ ui'.op = "close" /\ ui'.todo \in Seq(Owned) /\ Range(ui'.todo) = Owned
             \/ ui'.op = "din" /\ ui'.c \in Owned
      PROVE  LinkInv'
  <2>1. Quiet
    BY <1>1, <1>2, QuietSame
  <2> QED BY <1>2, <2>1, Turn
<1>3. ASSUME NEW what \in Questions, NEW c, NEW arg, Ask(what, c, arg)
      PROVE  ThreadFields(ui') /\ ui'.op = "dialog" /\ ui'.phase \in Questions
  BY <1>3 DEF Ask, ThreadFields, Free
<1>4. CASE OnReopen
  BY <1>4, AnswerKeeps
<1>5. CASE OnAssign \/ (\E c \in Owned : ChangeSource(c)) \/ (\E n \in Names : OnAddWifi(n))
  <2>1. /\ UNCHANGED <<plugged, cfg, set, mode, chan, owned, pending, refused>>
        /\ ui.op = "free" /\ \E what \in Questions : \E c, arg : Ask(what, c, arg)
    BY <1>5 DEF OnAssign, ChangeSource, OnAddWifi, Command, Questions
  <2>2. ThreadFields(ui') /\ ui'.op = "dialog" /\ ui'.phase \in Questions
    BY <1>3, <2>1
  <2> QED BY <1>2, <2>1, <2>2
<1>6. CASE OnClose
  <2>1. /\ UNCHANGED <<plugged, cfg, set, mode, chan, owned, pending, refused>>
        /\ ui.op = "free" /\ (Ask("exit", NoId, 0) \/ ui' = ToClose("exit"))
    BY <1>6 DEF OnClose, Command
  <2>2. CASE Ask("exit", NoId, 0)
    <3>1. "exit" \in Questions
      BY DEF Questions
    <3>2. ThreadFields(ui') /\ ui'.op = "dialog" /\ ui'.phase \in Questions
      BY <1>3, <2>2, <3>1
    <3> QED BY <1>2, <2>1, <3>2
  <2>3. CASE ui' = ToClose("exit")
    BY <1>1, <1>2, <2>1, <2>3, ToCloseFacts
  <2> QED BY <2>1, <2>2, <2>3
<1>7. ASSUME NEW names, OnStart(names), [i \in DOMAIN names |-> owned[names[i]]] \in Seq(Owned)
      PROVE  LinkInv'
  <2> DEFINE todo == [i \in DOMAIN names |-> owned[names[i]]]
  <2>1. /\ UNCHANGED <<plugged, cfg, set, mode, chan, owned, pending, refused>>
        /\ ui.op = "free"
        /\ ui' = [Free EXCEPT !.op = "start", !.phase = "check", !.todo = todo]
    BY <1>7 DEF OnStart, Command
  <2> HIDE DEF todo
  <2>2. ThreadFields(ui') /\ ui'.op = "start" /\ ui'.todo = todo
    BY <2>1 DEF ThreadFields, Free
  <2> QED BY <1>2, <1>7, <2>1, <2>2 DEF todo
<1>8. CASE \E c \in Owned : OnStart(<<chan[c].name>>)
  <2>1. PICK c \in Owned : OnStart(<<chan[c].name>>)
    BY <1>8
  <2> DEFINE one == <<chan[c].name>>
  <2>2. [i \in DOMAIN one |-> owned[one[i]]] \in Seq(Owned)
    <3>1. DOMAIN one = 1..1 /\ \A i \in 1..1 : owned[one[i]] \in Owned
      BY <1>1
    <3> HIDE DEF one
    <3> QED BY <3>1
  <2>3. OnStart(one)
    BY <2>1
  <2> HIDE DEF one
  <2> QED BY <1>7, <2>2, <2>3
<1>9. CASE OnStart(InOrder({n \in Names : owned[n] # NoId}))
  <2> DEFINE S     == {n \in Names : owned[n] # NoId}
             names == InOrder(S)
  <2>1. names \in Seq(Names) /\ Range(names) = S
    BY <1>1, Turns
  <2> HIDE DEF names
  <2>2. DOMAIN names = 1..Len(names) /\ Len(names) \in Nat
    BY <2>1
  <2>3. \A i \in 1..Len(names) : owned[names[i]] \in Owned
    BY <1>1, <2>1, <2>2 DEF Range
  <2>4. [i \in DOMAIN names |-> owned[names[i]]] \in Seq(Owned)
    BY <2>2, <2>3
  <2> QED BY <1>7, <1>9, <2>4 DEF names
<1>10. CASE OnStop(Owned) \/ \E c \in Owned : OnStop({c})
  <2>1. PICK S \in SUBSET Owned : OnStop(S)
    BY <1>10
  <2>2. /\ UNCHANGED <<plugged, cfg, set, mode, chan, owned, pending, refused>>
        /\ ui.op = "free" /\ ui' = [Free EXCEPT !.op = "stop", !.todo = InOrder(S)]
    BY <2>1 DEF OnStop, Command
  <2>3. ThreadFields(ui') /\ ui'.op = "stop" /\ ui'.todo \in Seq(Owned)
    BY <1>1, <2>2 DEF ThreadFields, Free
  <2> QED BY <1>2, <2>2, <2>3
<1>11. CASE \E c \in Owned, d \in Dins : OnDin(c, d)
  <2>1. PICK c \in Owned, d \in Dins : OnDin(c, d)
    BY <1>11
  <2>2. /\ UNCHANGED <<plugged, cfg, set, mode, chan, owned, pending, refused>>
        /\ ui.op = "free" /\ ui' = [Free EXCEPT !.op = "din", !.c = c, !.arg = d]
    BY <2>1 DEF OnDin, Command
  <2>3. ThreadFields(ui') /\ ui'.op = "din" /\ ui'.c \in Owned
    BY <2>2 DEF ThreadFields, Free
  <2> QED BY <1>2, <2>2, <2>3
<1>12. CASE OnActive
  <2>1. /\ ui.op = "free" /\ set' = [set EXCEPT !.low = ~@]
        /\ ui' = [Free EXCEPT !.op = "level", !.todo = InOrder(Owned)]
        /\ UNCHANGED <<plugged, cfg, mode, chan, owned, pending, refused>>
    BY <1>12 DEF OnActive, Command
  <2>2. /\ ThreadFields(ui') /\ ui'.op = "level" /\ ui'.todo \in Seq(Owned)
        /\ Range(ui'.todo) = Owned
    BY <1>1, <2>1 DEF ThreadFields, Free
  <2>3. set' \in [size : {set'.size}, auto : {set'.auto}, low : {set'.low}]
    BY <1>1, <2>1
  <2>4. Quiet
    BY <1>1, <2>1, QuietSame
  <2>5. TodoInv'
    BY <2>1, <2>2, <2>4, QuietTodo DEF LinkInv
  <2>6. Following' => Following
    BY <2>1, <2>2 DEF Following
  <2>7. FollowInv'
    BY <1>1, <2>1, <2>2, <2>3, <2>4, <2>6, QuietFollow DEF LinkInv
  <2> QED BY <2>4, <2>5, <2>7, QuietChan DEF LinkInv
<1>13. CASE OnAuto \/ \E size \in Sizes : OnSize(size)
  <2>1. /\ UNCHANGED <<plugged, cfg, mode, chan, owned, ui, pending, refused>>
        /\ \E v : set' = [set EXCEPT !.auto = v] \/ set' = [set EXCEPT !.size = v]
    BY <1>13 DEF OnAuto, OnSize
  <2>2. set' \in [size : {set'.size}, auto : {set'.auto}, low : {set'.low}] /\ set'.low = set.low
    BY <1>1, <2>1
  <2>3. Quiet
    BY <1>1, <2>1, QuietSame
  <2> QED BY <1>1, <2>1, <2>2, <2>3, NothingNew
<1> QED BY <1>4, <1>5, <1>6, <1>8, <1>9, <1>10, <1>11, <1>12, <1>13 DEF Window
\* Commands, cables, the start and the end of a program.
LEMMA OutsideKeeps ==
  ASSUME LinkInv, Outside
  PROVE  LinkInv'
<1>1. /\ ChanInv /\ ThreadFields(ui) /\ plugged \subseteq Holes
      /\ set \in [size : {set.size}, auto : {set.auto}, low : {set.low}]
      /\ cfg \in [slots : {cfg.slots}, din : {cfg.din}, wifi : {cfg.wifi}]
      /\ owned \in [Names -> Ids \cup {NoId}] /\ chan = [c \in Ids |-> chan[c]]
  BY DEF LinkInv, ChanInv, TodoInv, FollowInv
<1>2. mode = "off" => ui.op = "off" /\ owned = [n \in Names |-> NoId]
  <2> SUFFICES ASSUME mode = "off" PROVE ui.op = "off" /\ owned = [n \in Names |-> NoId]
    OBVIOUS
  <2>1. ui.op = "off" /\ Owned = {}
    BY DEF LinkInv, TodoInv
  <2>2. \A n \in Names : owned[n] = NoId
    BY <1>1, <2>1 DEF Owned, Range
  <2> QED BY <1>1, <2>1, <2>2
<1>3. CASE \E m \in Modes : Launch(m)
  <2>1. /\ mode = "off" /\ mode' # "off" /\ ui' = ToOpen
        /\ UNCHANGED <<plugged, cfg, set, chan, owned>>
    BY <1>3, CollectorAssumption DEF Launch, Running
  <2>2. ChanInv'
    BY <1>1, <2>1 DEF ChanInv, Owned
  <2> QED BY <1>1, <1>2, <2>1, <2>2, OpenBegins
<1>4. CASE Interrupt
  <2>1. /\ ui.op = "watch" /\ ui' = [Free EXCEPT !.op = "stop", !.todo = InOrder(Owned)]
        /\ UNCHANGED <<plugged, cfg, set, mode, chan, owned, pending, refused>>
    BY <1>4 DEF Interrupt
  <2>2. InOrder(Owned) \in Seq(Owned)
    BY <1>1, Turns
  <2>3. ThreadFields(ui') /\ ui'.op = "stop" /\ ui'.todo \in Seq(Owned)
    BY <2>1, <2>2 DEF ThreadFields, Free
  <2>4. Quiet
    BY <1>1, <2>1, QuietSame
  <2> QED BY <2>1, <2>3, <2>4, Turn
<1>5. CASE SlotsCommand
  <2>1. /\ mode = "off" /\ (NumberCommand \/ DinCommand)
        /\ UNCHANGED <<plugged, set, mode, chan, owned, ui>>
    BY <1>5 DEF SlotsCommand, Running
  <2>2. cfg' \in [slots : {cfg'.slots}, din : {cfg'.din}, wifi : {cfg'.wifi}]
    <3>1. CASE cfg' = AutoAssign(cfg)
      BY <1>1, <3>1, AutoAssignFields
    <3>2. CASE \E f : cfg' = [cfg EXCEPT !.slots = f] \/ cfg' = [cfg EXCEPT !.din = f]
      BY <1>1, <3>2
    <3>3. CASE \E h \in Unknown : cfg' = [cfg EXCEPT !.slots[h] = Suggested(h)]
      BY <1>1, <3>3
    <3>4. CASE \E n \in Names, d \in Dins : cfg' = [cfg EXCEPT !.din[n] = d]
      BY <1>1, <3>4
    <3>5. CASE \E n \in Names : cfg' = [cfg EXCEPT !.slots = [h \in Holes |->
                                            IF @[h] = n THEN NoName ELSE @[h]]]
      BY <1>1, <3>5
    <3>6. CASE cfg' = [cfg EXCEPT !.slots = [h \in Holes |-> NoName]]
      BY <1>1, <3>6
    <3> QED BY <2>1, <3>1, <3>3, <3>4, <3>5, <3>6 DEF NumberCommand, DinCommand
  <2>3. ChanInv' /\ TodoInv'
    BY <2>1 DEF LinkInv, ChanInv, TodoInv, Owned
  <2>4. FollowInv'
    <3>1. ui'.op = "off" /\ \A n \in Names : owned'[n] = NoId
      BY <1>2, <2>1
    <3>2. plugged' \subseteq Holes /\ set' \in [size : {set'.size}, auto : {set'.auto}, low : {set'.low}]
      BY <1>1, <2>1
    <3> QED BY <2>2, <3>1, <3>2 DEF FollowInv
  <2> QED BY <2>3, <2>4 DEF LinkInv
<1>6. CASE Cables
  <2>1. UNCHANGED <<cfg, set, mode, owned, ui, pending, refused>>
    BY <1>6 DEF Cables
  <2>2. Quiet /\ plugged' \subseteq Holes
    <3>1. CASE chan' = chan
      <4>1. plugged' \subseteq Holes
        BY <1>1, <1>6 DEF Cables, Unplug, Plug, AirChanges
      <4> QED BY <1>1, <2>1, <3>1, <4>1, QuietSame
    <3>2. CASE \E h \in Holes : Unplug(h)
      <4>1. PICK h \in Holes : Unplug(h)
        BY <3>2
      <4>2. /\ plugged' = plugged \ {h}
            /\ chan' = [c \in Ids |-> IF chan[c].src = h /\ chan[c].link = "up"
                                      THEN [chan[c] EXCEPT !.link = "dead"] ELSE chan[c]]
        BY <4>1 DEF Unplug
      <4>3. ASSUME NEW c \in Ids PROVE Kept(chan[c], chan'[c])
        <5>1. Fields(chan[c])
          BY <1>1 DEF ChanInv
        <5>2. CASE chan[c].src = h /\ chan[c].link = "up"
          BY <4>2, <5>1, <5>2, RunKept
        <5>3. CASE ~(chan[c].src = h /\ chan[c].link = "up")
          BY <4>2, <5>1, <5>3 DEF Kept
        <5> QED BY <5>2, <5>3
      <4> QED BY <1>1, <2>1, <4>2, <4>3 DEF Quiet
    <3>3. CASE ~(chan' = chan) /\ ~\E h \in Holes : Unplug(h)
      BY <1>6, <3>3 DEF Cables, Plug, AirChanges
    <3> QED BY <3>1, <3>2, <3>3
  <2> QED BY <1>1, <2>1, <2>2, NothingNew
<1>7. CASE \E torn \in BOOLEAN : PowerCut(torn)
  <2>1. ProgramEnds /\ UNCHANGED <<plugged, set>>
    BY <1>7 DEF PowerCut
  <2>2. cfg' \in [slots : {cfg'.slots}, din : {cfg'.din}, wifi : {cfg'.wifi}]
    BY <1>1, <1>7 DEF PowerCut
  <2> QED BY <1>1, <2>1, <2>2, EndsKeep
<1>8. CASE DiskFills
  <2>1. UNCHANGED <<plugged, cfg, set, mode, chan, owned, ui, pending, refused>>
    BY <1>8 DEF DiskFills
  <2>2. Quiet /\ plugged' \subseteq Holes
    BY <1>1, <2>1, QuietSame
  <2> QED BY <1>1, <2>1, <2>2, NothingNew
<1> QED BY <1>3, <1>4, <1>5, <1>6, <1>7, <1>8 DEF Outside

-----------------------------------------------------------------------------
(* The theorems *)

\* At first no program runs.
LEMMA InitLink ==
  ASSUME Init
  PROVE  LinkInv
<1>1. /\ chan = [c \in Ids |-> NoChan] /\ owned = [n \in Names |-> NoId]
      /\ ui = [Free EXCEPT !.op = "off"]
      /\ set \in [size : {set.size}, auto : {set.auto}, low : {set.low}]
      /\ \E s \in Setups : plugged = s.plugged /\ cfg = s.cfg
  BY DEF Init
<1>2. Owned = {}
  BY <1>1 DEF Owned, Range
<1>3. ChanInv
  BY <1>1, NoChanFacts DEF ChanInv
<1>4. ThreadFields(ui) /\ ui.op = "off"
  BY <1>1 DEF ThreadFields, Free
<1>5. TodoInv
  BY <1>2, <1>4 DEF TodoInv
<1>6. plugged \subseteq Holes /\ cfg \in Cfgs
  <2>1. Setups \subseteq [plugged : SUBSET Holes, cfg : Cfgs]
    BY CollectorAssumption
  <2> QED BY <1>1, <2>1
<1>7. cfg \in [slots : {cfg.slots}, din : {cfg.din}, wifi : {cfg.wifi}]
  BY <1>6 DEF Cfgs
<1>8. FollowInv
  BY <1>1, <1>4, <1>6, <1>7 DEF FollowInv
<1> QED BY <1>3, <1>5, <1>8 DEF LinkInv

\* Channels, the main thread's work and the settings fit together in every state.
THEOREM AlwaysLinkInv == Spec => []LinkInv
<1>1. Init => LinkInv
  BY InitLink
<1>2. LinkInv /\ [Next]_vars => LinkInv'
  <2> SUFFICES ASSUME LinkInv, [Next]_vars PROVE LinkInv'
    OBVIOUS
  <2>1. CASE MainThread
    BY <2>1, CloseKeeps, OpenKeeps, LoopKeeps, WatchKeeps DEF MainThread
  <2>2. CASE Window
    BY <2>2, WindowKeeps
  <2>3. CASE Outside
    BY <2>3, OutsideKeeps
  <2>4. CASE AfterIdle \/ \E yes \in BOOLEAN : Answer(yes)
    BY <2>4, AnswerKeeps
  <2>5. CASE \E c \in Ids : Threads(c)
    BY <2>5, ThreadsKeep
  <2>6. CASE UNCHANGED vars
    <3>1. UNCHANGED <<plugged, cfg, set, mode, chan, owned, ui, pending, refused>>
      BY <2>6 DEF vars
    <3>2. ChanInv' /\ TodoInv'
      BY <3>1 DEF LinkInv, ChanInv, TodoInv, Owned
    <3>3. FollowInv'
      BY <3>1 DEF LinkInv, FollowInv, From
    <3> QED BY <3>2, <3>3 DEF LinkInv
  <2> QED BY <2>1, <2>2, <2>3, <2>4, <2>5, <2>6 DEF Next
<1> QED BY <1>1, <1>2, PTL DEF Spec

\* A channel that Collector.channels has lost listens to nothing any more, in whatever
\* order close(), the watcher, the timer and the opening of the next channels come.
THEOREM AlwaysNothingLeaks == Spec => []NothingLeaks
<1>1. LinkInv => NothingLeaks
  BY DEF LinkInv, ChanInv, NothingLeaks, Silent
<1> QED BY <1>1, AlwaysLinkInv, PTL

\* When the window is free, and no reopening is due or was refused, every channel is what
\* slots.json says of its number, and only its own photo sensor starts it.
THEOREM AlwaysChannelsFollowSettings == Spec => []ChannelsFollowSettings
<1>1. LinkInv => ChannelsFollowSettings
  <2> SUFFICES ASSUME LinkInv, ui.op = "free", ~pending, ~refused,
                      NEW n \in Names, owned[n] # NoId
               PROVE  LET ch == chan[owned[n]]
                      IN /\ ch.name = n
                         /\ IF cfg.wifi[n] = NoSrc THEN ch.src \in Holes /\ cfg.slots[ch.src] = n
                            ELSE ch.src = cfg.wifi[n]
                         /\ ch.lines \subseteq {ch.din}
                         /\ ch.low = set.low
    BY DEF ChannelsFollowSettings
  <2>1. owned[n] \in Ids
    BY DEF LinkInv, ChanInv
  <2>2. chan[owned[n]].name = n /\ chan[owned[n]].lines \subseteq {chan[owned[n]].din}
    BY <2>1 DEF LinkInv, ChanInv
  <2>3. From(n, chan[owned[n]].src) /\ chan[owned[n]].low = set.low
    BY DEF LinkInv, FollowInv
  <2> QED BY <2>2, <2>3 DEF From
<1> QED BY <1>1, AlwaysLinkInv, PTL

-----------------------------------------------------------------------------
(* The book of the runs *)

File(n, i, p) == [name |-> n, no |-> i, part |-> p]

\* The numbers that the files of a sensor bear, and their greatest.
Nos(n)    == {0} \cup {f.no : f \in {g \in files : g.name = n}}
Top(n, m) == m \in Nos(n) /\ \A k \in Nos(n) : k \in Nat /\ k <= m

\* The numbers have a greatest one; a run under way has its data file and no record yet;
\* no two channels are at the same run, also not one that outlives its channel.
BookInv ==
  /\ \A n \in Names : \E m \in Nat : Top(n, m)
  /\ \A c \in Ids : Live(chan[c]) =>
       /\ chan[c].name \in Names /\ chan[c].run \in Nat \ {0}
       /\ File(chan[c].name, chan[c].run, "data") \in files
       /\ File(chan[c].name, chan[c].run, "meta") \notin files
  /\ \A c, k \in Ids :
       Live(chan[c]) /\ Live(chan[k]) /\ chan[c].name = chan[k].name
         /\ chan[c].run = chan[k].run => c = k

TheBook == [n \in Names |-> [i \in 1..(NextRun(n) - 1) |-> Status(n, i)]]

\* A number of a set that no other exceeds is its maximum.
LEMMA Greatest ==
  ASSUME NEW S, NEW m \in S, \A k \in S : k \in Nat /\ k <= m
  PROVE  Max(S) = m
<1>1. \A x \in S : (\A y \in S : x >= y) => x = m
  OBVIOUS
<1>2. \A y \in S : m >= y
  OBVIOUS
<1> QED BY <1>1, <1>2, Zenon DEF Max

\* The next number is the greatest one and one.
LEMMA TopIsLast ==
  ASSUME NEW n, NEW m \in Nat, Top(n, m)
  PROVE  NextRun(n) = m + 1
BY Greatest DEF Top, Nos, NextRun

\* So the book has the runs 1..m, and every run under way is among them.
LEMMA BookLines ==
  ASSUME BookInv, NEW n \in Names
  PROVE  /\ NextRun(n) \in Nat \ {0} /\ Top(n, NextRun(n) - 1)
         /\ TheBook[n] = [i \in 1..(NextRun(n) - 1) |-> Status(n, i)]
         /\ \A f \in files : f.name = n => f.no \in Nat /\ f.no < NextRun(n)
         /\ \A c \in Ids : Live(chan[c]) /\ chan[c].name = n =>
              chan[c].run \in 1..(NextRun(n) - 1) /\ Status(n, chan[c].run) = "open"
<1>1. PICK m \in Nat : Top(n, m)
  BY DEF BookInv
<1>2. NextRun(n) = m + 1
  BY <1>1, TopIsLast
<1>3. \A f \in files : f.name = n => f.no \in Nat /\ f.no <= m
  BY <1>1 DEF Top, Nos
<1>4. ASSUME NEW c \in Ids, Live(chan[c]), chan[c].name = n
      PROVE  chan[c].run \in 1..m /\ Status(n, chan[c].run) = "open"
  <2>1. /\ chan[c].run \in Nat \ {0} /\ File(n, chan[c].run, "data") \in files
        /\ File(n, chan[c].run, "meta") \notin files
    BY <1>4 DEF BookInv
  <2>2. File(n, chan[c].run, "data").name = n /\ File(n, chan[c].run, "data").no = chan[c].run
    BY DEF File
  <2>3. chan[c].run \in 1..m
    BY <1>3, <2>1, <2>2
  <2>4. Status(n, chan[c].run) = "open"
    BY <1>4, <2>1 DEF Status, File, Live
  <2> QED BY <2>3, <2>4
<1>5. NextRun(n) \in Nat \ {0} /\ NextRun(n) - 1 = m
  BY <1>2
<1> QED BY <1>1, <1>2, <1>3, <1>4, <1>5 DEF TheBook

\* Nothing that the book is about.
SameRuns ==
  /\ files' = files
  /\ \A c \in Ids : /\ Live(chan'[c]) = Live(chan[c])
                    /\ Live(chan[c]) => chan'[c].name = chan[c].name /\ chan'[c].run = chan[c].run

LEMMA SameBook ==
  ASSUME BookInv, SameRuns
  PROVE  BookInv' /\ TheBook' = TheBook
<1>1. /\ files' = files
      /\ \A c \in Ids : /\ Live(chan'[c]) = Live(chan[c])
                        /\ Live(chan[c]) => /\ chan'[c].name = chan[c].name
                                            /\ chan'[c].run = chan[c].run
  BY DEF SameRuns
<1>2. \A n : NextRun(n)' = NextRun(n) /\ \A m : Top(n, m)' = Top(n, m)
  BY <1>1 DEF NextRun, Top, Nos
<1>3. \A n \in Names : \E m \in Nat : Top(n, m)'
  BY <1>2 DEF BookInv
<1>4. \A c \in Ids : Live(chan'[c]) =>
        /\ chan'[c].name \in Names /\ chan'[c].run \in Nat \ {0}
        /\ File(chan'[c].name, chan'[c].run, "data") \in files'
        /\ File(chan'[c].name, chan'[c].run, "meta") \notin files'
  BY <1>1 DEF BookInv
<1>5. \A c, k \in Ids :
        Live(chan'[c]) /\ Live(chan'[k]) /\ chan'[c].name = chan'[k].name
          /\ chan'[c].run = chan'[k].run => c = k
  BY <1>1 DEF BookInv
<1>6. ASSUME NEW n, NEW i PROVE Status(n, i)' = Status(n, i)
  <2>1. (\E c \in Ids : chan[c].name = n /\ chan[c].run = i /\ Live(chan[c]))'
          = (\E c \in Ids : chan[c].name = n /\ chan[c].run = i /\ Live(chan[c]))
    BY <1>1 DEF Live
  <2> QED BY <1>1, <2>1 DEF Status
<1>7. TheBook' = TheBook
  BY <1>2, <1>6 DEF TheBook
<1> QED BY <1>3, <1>4, <1>5, <1>7 DEF BookInv

\* A step that changes one channel, and what it is at not.
LEMMA SameOne ==
  ASSUME NEW c \in Ids, NEW new, chan = [k \in Ids |-> chan[k]],
         chan' = [chan EXCEPT ![c] = new], files' = files,
         Live(new) = Live(chan[c]),
         Live(new) => new.name = chan[c].name /\ new.run = chan[c].run
  PROVE  SameRuns
<1>1. \A k \in Ids : chan'[k] = IF k = c THEN new ELSE chan[k]
  OBVIOUS
<1> QED BY <1>1 DEF SameRuns

\* Channel.start begins a run, or does nothing that the book is about.
LEMMA RunBegins ==
  ASSUME LinkInv, BookInv, NEW c \in Owned,
         \/ StartOr(c, chan[c])
         \/ chan[c].w = "cleared" /\ StartOr(c, [chan[c] EXCEPT !.w = "idle"])
  PROVE  BookInv' /\ (TheBook' = TheBook \/ \E n \in Names : Book!Begin(n))
<1>0. PICK n, r : n = chan[c].name /\ r = NextRun(n)
  OBVIOUS
<1> DEFINE f == File(n, r, "data")
<1>1. /\ chan = [k \in Ids |-> chan[k]] /\ c \in Ids /\ n \in Names /\ Fields(chan[c])
  <2>1. ChanInv
    BY DEF LinkInv
  <2>2. c \in Ids
    BY <2>1, Turns DEF ChanInv
  <2>3. chan[c].name \in Names
    BY <2>1 DEF ChanInv, Owned, Range
  <2> QED BY <1>0, <2>1, <2>2, <2>3 DEF ChanInv
<1>2. CASE chan[c].state # "IDLE"
  <2>1. /\ files' = files
        /\ \/ chan' = [chan EXCEPT ![c] = chan[c]]
           \/ chan' = [chan EXCEPT ![c] = [chan[c] EXCEPT !.w = "idle"]]
    BY <1>2 DEF StartOr
  <2>2. \A new : new \in {chan[c], [chan[c] EXCEPT !.w = "idle"]} =>
          new.state = chan[c].state /\ new.name = chan[c].name /\ new.run = chan[c].run
    BY <1>1 DEF Fields
  <2>3. SameRuns
    BY <1>1, <2>1, <2>2, SameOne DEF Live
  <2> QED BY <2>3, SameBook
<1>3. CASE chan[c].state = "IDLE"
  <2>1. files' = files \cup {f}
    BY <1>0, <1>3 DEF StartOr, File
  <2>2. /\ \A k \in Ids \ {c} : chan'[k] = chan[k]
        /\ chan'[c].name = n /\ chan'[c].run = r /\ Live(chan'[c]) /\ ~Live(chan[c])
    <3>1. \/ chan' = [chan EXCEPT ![c] = [chan[c] EXCEPT !.state = "RECORDING",
                                            !.left = set.size, !.run = r]]
          \/ chan' = [chan EXCEPT ![c] = [[chan[c] EXCEPT !.w = "idle"] EXCEPT
                                            !.state = "RECORDING", !.left = set.size, !.run = r]]
      BY <1>0, <1>3 DEF StartOr
    <3>2. \A new : /\ \/ new = [chan[c] EXCEPT !.state = "RECORDING", !.left = set.size, !.run = r]
                      \/ new = [[chan[c] EXCEPT !.w = "idle"] EXCEPT
                                  !.state = "RECORDING", !.left = set.size, !.run = r]
                   => new.name = n /\ new.run = r /\ new.state = "RECORDING"
      BY <1>0, <1>1 DEF Fields
    <3>3. PICK new : /\ chan' = [chan EXCEPT ![c] = new]
                     /\ new.name = n /\ new.run = r /\ new.state = "RECORDING"
      BY <3>1, <3>2
    <3>4. r # 0
      BY <1>0, <1>1, BookLines
    <3> QED BY <1>1, <1>3, <3>3, <3>4 DEF Live
  <2>3. /\ r \in Nat \ {0} /\ Top(n, r - 1)
        /\ \A g \in files : g.name = n => g.no \in Nat /\ g.no < r
        /\ \A k \in Ids : Live(chan[k]) /\ chan[k].name = n => chan[k].run \in 1..(r - 1)
    BY <1>0, <1>1, BookLines
  <2>4. f.name = n /\ f.no = r /\ File(n, r, "meta").name = n /\ File(n, r, "meta").no = r
    BY DEF File
  <2>5. File(n, r, "meta") \notin files'
    <3>1. f # File(n, r, "meta")
      <4>1. f.part = "data" /\ File(n, r, "meta").part = "meta"
        BY DEF File
      <4> QED BY <4>1
    <3>2. File(n, r, "meta") \notin files
      BY <2>3, <2>4
    <3> QED BY <2>1, <3>1, <3>2
  <2> HIDE DEF f
  <2>6. Nos(n)' = Nos(n) \cup {r} /\ \A k \in Names \ {n} : Nos(k)' = Nos(k)
    BY <2>1, <2>4 DEF Nos
  <2>7. Top(n, r)' /\ NextRun(n)' = r + 1
    <3>1. Top(n, r)'
      BY <2>3, <2>6 DEF Top
    <3>2. Max(Nos(n)') = r
      BY <2>3, <3>1, Greatest DEF Top
    <3> QED BY <2>3, <3>1, <3>2 DEF NextRun, Nos
  <2>8. \A k \in Names \ {n} : NextRun(k)' = NextRun(k) /\ \A m : Top(k, m) => Top(k, m)'
    <3> SUFFICES ASSUME NEW k \in Names \ {n}
                 PROVE  NextRun(k)' = NextRun(k) /\ \A m : Top(k, m) => Top(k, m)'
      OBVIOUS
    <3>1. {g \in files : g.name = k}' = {g \in files : g.name = k}
      BY <2>1, <2>4
    <3> QED BY <2>6, <3>1 DEF NextRun, Top
  <2>9. \A k \in Names : \E m \in Nat : Top(k, m)'
    BY <1>1, <2>3, <2>7, <2>8 DEF BookInv
  <2>10. \A k \in Ids : Live(chan'[k]) =>
           /\ chan'[k].name \in Names /\ chan'[k].run \in Nat \ {0}
           /\ File(chan'[k].name, chan'[k].run, "data") \in files'
           /\ File(chan'[k].name, chan'[k].run, "meta") \notin files'
    <3> SUFFICES ASSUME NEW k \in Ids, Live(chan'[k])
                 PROVE  /\ chan'[k].name \in Names /\ chan'[k].run \in Nat \ {0}
                        /\ File(chan'[k].name, chan'[k].run, "data") \in files'
                        /\ File(chan'[k].name, chan'[k].run, "meta") \notin files'
      OBVIOUS
    <3>1. CASE k = c
      BY <1>1, <2>1, <2>2, <2>3, <2>5, <3>1 DEF f
    <3>2. CASE k # c
      <4>1. /\ chan'[k] = chan[k] /\ chan[k].name \in Names /\ chan[k].run \in Nat \ {0}
            /\ File(chan[k].name, chan[k].run, "data") \in files
            /\ File(chan[k].name, chan[k].run, "meta") \notin files
        BY <2>2, <3>2 DEF BookInv
      <4>2. File(chan[k].name, chan[k].run, "meta") # f
        <5>1. File(chan[k].name, chan[k].run, "meta").part = "meta" /\ f.part = "data"
          BY DEF File, f
        <5> QED BY <5>1
      <4> QED BY <2>1, <4>1, <4>2
    <3> QED BY <3>1, <3>2
  <2>11. \A k, l \in Ids :
           Live(chan'[k]) /\ Live(chan'[l]) /\ chan'[k].name = chan'[l].name
             /\ chan'[k].run = chan'[l].run => k = l
    <3>1. \A k \in Ids \ {c} : Live(chan'[k]) /\ chan'[k].name = n => chan'[k].run # r
      <4>1. r \notin 1..(r - 1)
        BY <2>3
      <4> QED BY <2>2, <2>3, <4>1
    <3>2. \A k, l \in Ids \ {c} :
           Live(chan'[k]) /\ Live(chan'[l]) /\ chan'[k].name = chan'[l].name
             /\ chan'[k].run = chan'[l].run => k = l
      BY <2>2 DEF BookInv
    <3> QED BY <1>1, <2>2, <3>1, <3>2
  <2>12. BookInv'
    BY <2>9, <2>10, <2>11 DEF BookInv
  <2>13. ASSUME NEW k \in Names, NEW i, k # n \/ i \in 1..(r - 1)
         PROVE  Status(k, i)' = Status(k, i)
    <3>1. k # n \/ i # r
      BY <2>3, <2>13
    <3>2. (File(k, i, "meta") \in files') = (File(k, i, "meta") \in files)
      <4>1. File(k, i, "meta").part = "meta" /\ f.part = "data"
        BY DEF File, f
      <4> QED BY <2>1, <4>1
    <3>3. (\E d \in Ids : chan'[d].name = k /\ chan'[d].run = i /\ Live(chan'[d]))
            = (\E d \in Ids : chan[d].name = k /\ chan[d].run = i /\ Live(chan[d]))
      BY <1>1, <2>2, <3>1 DEF Live
    <3> QED BY <3>2, <3>3 DEF Status, File
  <2>14. Status(n, r)' = "open"
    BY <1>1, <2>2, <2>5 DEF Status, File, Live
  <2>15. /\ \A k \in Names : TheBook[k] = [i \in 1..(NextRun(k) - 1) |-> Status(k, i)]
         /\ \A k \in Names : TheBook'[k] = [i \in 1..(NextRun(k)' - 1) |-> Status(k, i)']
    BY DEF TheBook
  <2>16. ASSUME NEW k \in Names \ {n} PROVE TheBook'[k] = TheBook[k]
    <3>1. NextRun(k)' = NextRun(k)
      BY <2>8
    <3>2. \A i : Status(k, i)' = Status(k, i)
      BY <2>13
    <3>3. TheBook'[k] = [i \in 1..(NextRun(k) - 1) |-> Status(k, i)]
      BY ONLY <2>15, <3>1, <3>2
    <3> QED BY ONLY <2>15, <3>3
  <2>17. TheBook'[n] = Append(TheBook[n], "open")
    <3>1. TheBook[n] = [i \in 1..(r - 1) |-> Status(n, i)] /\ r - 1 \in Nat
      BY <1>0, <1>1, <2>3, <2>15
    <3>2. TheBook'[n] = [i \in 1..r |-> Status(n, i)']
      <4>1. NextRun(n)' - 1 = r
        BY <2>3, <2>7
      <4> QED BY <1>1, <2>15, <4>1
    <3> DEFINE V == {"open"} \cup {Status(n, i) : i \in 1..(r - 1)}
               b == TheBook[n]
               a == TheBook'[n]
    <3>3. b \in Seq(V) /\ Len(b) = r - 1 /\ \A i \in 1..(r - 1) : b[i] = Status(n, i)
      <4>1. b \in [1..(r - 1) -> V]
        BY <3>1
      <4> QED BY <3>1, <4>1
    <3>4. a = [i \in 1..r |-> IF i = r THEN "open" ELSE b[i]]
      <4>1. \A i \in 1..r : i = r \/ i \in 1..(r - 1)
        BY <2>3
      <4>2. \A i \in 1..r : Status(n, i)' = IF i = r THEN "open" ELSE b[i]
        BY <1>1, <2>13, <2>14, <3>3, <4>1
      <4> QED BY <3>2, <4>2
    <3>5. Append(b, "open") = [i \in 1..r |-> IF i = r THEN "open" ELSE b[i]]
      <4> DEFINE s == Append(b, "open")
      <4>1. "open" \in V
        OBVIOUS
      <4> HIDE DEF b, V
      <4>2. s \in Seq(V) /\ Len(s) = r /\ s[r] = "open" /\ \A i \in 1..(r - 1) : s[i] = b[i]
        BY <2>3, <3>3, <4>1, AppendProperties
      <4> HIDE DEF s
      <4>3. DOMAIN s = 1..r /\ s = [i \in DOMAIN s |-> s[i]]
        BY <4>2
      <4>4. \A i \in 1..r : s[i] = IF i = r THEN "open" ELSE b[i]
        <5>1. \A i \in 1..r : i # r => i \in 1..(r - 1)
          BY <2>3
        <5> QED BY <4>2, <5>1
      <4> QED BY <4>3, <4>4 DEF s
    <3> HIDE DEF a, b, V
    <3> QED BY <3>4, <3>5 DEF a, b
  <2>18. TheBook = [k \in Names |-> TheBook[k]] /\ TheBook' = [k \in Names |-> TheBook'[k]]
    BY DEF TheBook
  <2>19. TheBook' = [TheBook EXCEPT ![n] = Append(@, "open")]
    BY <1>1, <2>16, <2>17, <2>18
  <2>20. Book!Begin(n)
    BY <2>19 DEF Book!Begin, TheBook
  <2> QED BY <1>1, <2>12, <2>20
<1> QED BY <1>2, <1>3

\* The end of stop() leaves an idle channel, or none.
LEMMA FinishIdles ==
  ASSUME LinkInv, NEW c \in Ids, NEW record, Finish(c, record)
  PROVE  (\A k \in Ids \ {c} : chan'[k] = chan[k]) /\ ~Live(chan'[c])
<1>1. chan = [k \in Ids |-> chan[k]] /\ Fields(chan[c])
  BY DEF LinkInv, ChanInv
<1>2. PICK new : /\ chan' = [chan EXCEPT ![c] = new]
                 /\ \/ new = [chan[c] EXCEPT !.state = "IDLE", !.by = "none", !.left = 0, !.run = 0]
                    \/ new = NoChan
  BY DEF Finish
<1>3. new.state = "IDLE"
  <2>1. [chan[c] EXCEPT !.state = "IDLE", !.by = "none", !.left = 0, !.run = 0].state = "IDLE"
    BY <1>1 DEF Fields
  <2>2. NoChan.state = "IDLE"
    BY DEF NoChan
  <2>3. CASE new = NoChan
    BY <2>2, <2>3
  <2>4. CASE new = [chan[c] EXCEPT !.state = "IDLE", !.by = "none", !.left = 0, !.run = 0]
    BY <2>1, <2>4, Zenon
  <2> QED BY <1>2, <2>3, <2>4, Zenon
<1> QED BY <1>1, <1>2, <1>3 DEF Live

\* The record of a run ends it.
LEMMA RunSaved ==
  ASSUME LinkInv, BookInv, NEW c \in Ids, Finish(c, TRUE)
  PROVE  BookInv' /\ \E n \in Names : \E i \in DOMAIN TheBook[n] : Book!Save(n, i)
<1>0. PICK n, r : n = chan[c].name /\ r = chan[c].run
  OBVIOUS
<1> DEFINE f == File(n, r, "meta")
<1>1. /\ files' = files \cup {f}
      /\ \A k \in Ids \ {c} : chan'[k] = chan[k]
      /\ Live(chan[c]) /\ ~Live(chan'[c])
  <2>1. (\A k \in Ids \ {c} : chan'[k] = chan[k]) /\ ~Live(chan'[c])
    BY FinishIdles
  <2>4. files' = files \cup {f} /\ chan[c].state = "FINISHING" /\ chan[c].run # 0
    BY <1>0 DEF Finish, File
  <2> HIDE DEF f
  <2> QED BY <2>1, <2>4 DEF Live
<1>2. n \in Names /\ File(n, r, "data") \in files
  BY <1>0, <1>1 DEF BookInv
<1>3. /\ NextRun(n) \in Nat \ {0} /\ r \in 1..(NextRun(n) - 1) /\ Status(n, r) = "open"
  BY <1>0, <1>1, <1>2, BookLines
<1>4. \A g, p : File(g, p, "meta").name = g /\ File(g, p, "meta").no = p
                /\ File(g, p, "meta").part = "meta" /\ File(g, p, "data").part = "data"
                /\ File(g, p, "data").name = g /\ File(g, p, "data").no = p
  BY DEF File
<1>5. f.name = n /\ f.no = r /\ f.part = "meta"
  BY <1>4
<1> HIDE DEF f
<1>6. \A k : Nos(k)' = Nos(k)
  <2> SUFFICES ASSUME NEW k PROVE Nos(k)' = Nos(k)
    OBVIOUS
  <2>1. {g.no : g \in {h \in files' : h.name = k}} = {g.no : g \in {h \in files : h.name = k}}
    <3>1. k = n => r \in {g.no : g \in {h \in files : h.name = k}}
      BY <1>2, <1>4
    <3> QED BY <1>1, <1>5, <3>1
  <2> QED BY <2>1 DEF Nos
<1>7. \A k : NextRun(k)' = NextRun(k) /\ \A m : Top(k, m)' = Top(k, m)
  BY <1>6 DEF NextRun, Nos, Top
<1>8. \A k \in Ids : Live(chan'[k]) =>
        /\ chan'[k].name \in Names /\ chan'[k].run \in Nat \ {0}
        /\ File(chan'[k].name, chan'[k].run, "data") \in files'
        /\ File(chan'[k].name, chan'[k].run, "meta") \notin files'
  <2> SUFFICES ASSUME NEW k \in Ids, Live(chan'[k])
               PROVE  /\ chan'[k].name \in Names /\ chan'[k].run \in Nat \ {0}
                      /\ File(chan'[k].name, chan'[k].run, "data") \in files'
                      /\ File(chan'[k].name, chan'[k].run, "meta") \notin files'
    OBVIOUS
  <2>1. k # c /\ chan'[k] = chan[k]
    BY <1>1
  <2>2. /\ chan[k].name \in Names /\ chan[k].run \in Nat \ {0}
        /\ File(chan[k].name, chan[k].run, "data") \in files
        /\ File(chan[k].name, chan[k].run, "meta") \notin files
        /\ ~(chan[k].name = n /\ chan[k].run = r)
    BY <1>0, <1>1, <2>1 DEF BookInv
  <2>3. File(chan[k].name, chan[k].run, "meta") # f
    BY <1>4, <1>5, <2>2
  <2> QED BY <1>1, <2>1, <2>2, <2>3
<1>9. \A k, l \in Ids :
        Live(chan'[k]) /\ Live(chan'[l]) /\ chan'[k].name = chan'[l].name
          /\ chan'[k].run = chan'[l].run => k = l
  BY <1>1 DEF BookInv
<1>10. BookInv'
  BY <1>7, <1>8, <1>9 DEF BookInv
<1>11. Status(n, r)' = "saved"
  <2>1. File(n, r, "meta") \in files'
    BY <1>1 DEF f
  <2>2. ~\E d \in Ids : chan'[d].name = n /\ chan'[d].run = r /\ Live(chan'[d])
    BY <1>0, <1>1 DEF BookInv, Live
  <2> QED BY <2>1, <2>2 DEF Status, File
<1>12. ASSUME NEW k \in Names, NEW i, k # n \/ i # r PROVE Status(k, i)' = Status(k, i)
  <2>1. (File(k, i, "meta") \in files') = (File(k, i, "meta") \in files)
    BY <1>1, <1>4, <1>5, <1>12
  <2>2. (\E d \in Ids : chan'[d].name = k /\ chan'[d].run = i /\ Live(chan'[d]))
          = (\E d \in Ids : chan[d].name = k /\ chan[d].run = i /\ Live(chan[d]))
    BY <1>0, <1>1, <1>12 DEF Live
  <2> QED BY <2>1, <2>2 DEF Status, File
<1>13. /\ \A k \in Names : TheBook[k] = [i \in 1..(NextRun(k) - 1) |-> Status(k, i)]
       /\ \A k \in Names : TheBook'[k] = [i \in 1..(NextRun(k) - 1) |-> Status(k, i)']
       /\ TheBook = [k \in Names |-> TheBook[k]] /\ TheBook' = [k \in Names |-> TheBook'[k]]
  BY <1>7 DEF TheBook
<1>14. \A k \in Names \ {n} : TheBook'[k] = TheBook[k]
  <2> SUFFICES ASSUME NEW k \in Names \ {n} PROVE TheBook'[k] = TheBook[k]
    OBVIOUS
  <2>1. \A i : Status(k, i)' = Status(k, i)
    BY <1>12
  <2>2. /\ TheBook[k] = [i \in 1..(NextRun(k) - 1) |-> Status(k, i)]
        /\ TheBook'[k] = [i \in 1..(NextRun(k) - 1) |-> Status(k, i)']
    BY <1>13
  <2> QED BY <2>1, <2>2
<1>15. TheBook'[n] = [TheBook[n] EXCEPT ![r] = "saved"]
  <2>1. /\ TheBook[n] = [i \in 1..(NextRun(n) - 1) |-> Status(n, i)]
        /\ TheBook'[n] = [i \in 1..(NextRun(n) - 1) |-> IF i = r THEN "saved" ELSE Status(n, i)]
    BY <1>2, <1>11, <1>12, <1>13
  <2> QED BY <1>3, <2>1
<1>16. r \in DOMAIN TheBook[n] /\ TheBook[n][r] = "open"
  BY <1>2, <1>3, <1>13
<1>17. TheBook' = [TheBook EXCEPT ![n][r] = "saved"]
  BY <1>2, <1>13, <1>14, <1>15
<1>18. Book!Save(n, r)
  BY <1>16, <1>17 DEF Book!Save, TheBook
<1> QED BY <1>2, <1>10, <1>16, <1>18

\* On a full disk a run may end without its record.
LEMMA RunLost ==
  ASSUME LinkInv, BookInv, NEW c \in Ids, Finish(c, FALSE), Live(chan[c])
  PROVE  BookInv' /\ \E n \in Names : \E i \in DOMAIN TheBook[n] : Book!Lose(n, i)
<1>0. PICK n, r : n = chan[c].name /\ r = chan[c].run
  OBVIOUS
<1>1. /\ files' = files /\ ~Live(chan'[c])
      /\ \A k \in Ids \ {c} : chan'[k] = chan[k]
  BY FinishIdles DEF Finish
<1>2. n \in Names /\ File(n, r, "meta") \notin files
  BY <1>0 DEF BookInv
<1>3. r \in 1..(NextRun(n) - 1) /\ Status(n, r) = "open"
  BY <1>0, <1>2, BookLines
<1>4. \A k : NextRun(k)' = NextRun(k) /\ \A m : Top(k, m)' = Top(k, m)
  BY <1>1 DEF NextRun, Nos, Top
<1>5. BookInv'
  BY <1>1, <1>4 DEF BookInv
<1>6. Status(n, r)' = "cut"
  <2>1. ~\E d \in Ids : chan'[d].name = n /\ chan'[d].run = r /\ Live(chan'[d])
    BY <1>0, <1>1 DEF BookInv
  <2> QED BY <1>1, <1>2, <2>1 DEF Status, File
<1>7. ASSUME NEW k \in Names, NEW i, k # n \/ i # r PROVE Status(k, i)' = Status(k, i)
  <2>1. (\E d \in Ids : chan'[d].name = k /\ chan'[d].run = i /\ Live(chan'[d]))
          = (\E d \in Ids : chan[d].name = k /\ chan[d].run = i /\ Live(chan[d]))
    BY <1>0, <1>1, <1>7
  <2> QED BY <1>1, <2>1 DEF Status
<1>8. /\ \A k \in Names : TheBook[k] = [i \in 1..(NextRun(k) - 1) |-> Status(k, i)]
      /\ \A k \in Names : TheBook'[k] = [i \in 1..(NextRun(k) - 1) |-> Status(k, i)']
      /\ TheBook = [k \in Names |-> TheBook[k]] /\ TheBook' = [k \in Names |-> TheBook'[k]]
  BY <1>4 DEF TheBook
<1>9. \A k \in Names \ {n} : TheBook'[k] = TheBook[k]
  <2> SUFFICES ASSUME NEW k \in Names \ {n} PROVE TheBook'[k] = TheBook[k]
    OBVIOUS
  <2>1. \A i : Status(k, i)' = Status(k, i)
    BY <1>7
  <2>2. /\ TheBook[k] = [i \in 1..(NextRun(k) - 1) |-> Status(k, i)]
        /\ TheBook'[k] = [i \in 1..(NextRun(k) - 1) |-> Status(k, i)']
    BY <1>8
  <2> QED BY <2>1, <2>2
<1>10. TheBook'[n] = [TheBook[n] EXCEPT ![r] = "cut"]
  <2>1. /\ TheBook[n] = [i \in 1..(NextRun(n) - 1) |-> Status(n, i)]
        /\ TheBook'[n] = [i \in 1..(NextRun(n) - 1) |-> IF i = r THEN "cut" ELSE Status(n, i)]
    BY <1>2, <1>6, <1>7, <1>8
  <2> QED BY <1>3, <2>1
<1>11. r \in DOMAIN TheBook[n] /\ TheBook[n][r] = "open"
  BY <1>2, <1>3, <1>8
<1>12. TheBook' = [TheBook EXCEPT ![n][r] = "cut"]
  BY <1>2, <1>8, <1>9, <1>10
<1>13. Book!Lose(n, r)
  BY <1>11, <1>12 DEF Book!Lose, TheBook
<1> QED BY <1>2, <1>5, <1>11, <1>13

\* The end of the program ends them all.
LEMMA RunsCut ==
  ASSUME BookInv, files' = files, chan' = [c \in Ids |-> NoChan]
  PROVE  BookInv' /\ Book!Cut
<1>1. \A c \in Ids : chan'[c].state = "IDLE"
  BY DEF NoChan
<1>2. \A k : NextRun(k)' = NextRun(k) /\ \A m : Top(k, m)' = Top(k, m)
  BY DEF NextRun, Nos, Top
<1>3. BookInv'
  BY <1>1, <1>2 DEF BookInv, Live
<1>4. \A k, i : Status(k, i)' = IF Status(k, i) = "open" THEN "cut" ELSE Status(k, i)
  <2> SUFFICES ASSUME NEW k, NEW i
               PROVE  Status(k, i)' = IF Status(k, i) = "open" THEN "cut" ELSE Status(k, i)
    OBVIOUS
  <2> DEFINE saved == [name |-> k, no |-> i, part |-> "meta"] \in files
             runs  == \E c \in Ids : chan[c].name = k /\ chan[c].run = i /\ Live(chan[c])
  <2>1. ~runs'
    BY <1>1 DEF Live
  <2>2. saved' = saved
    OBVIOUS
  <2>3. /\ Status(k, i) = CASE saved -> "saved" [] runs -> "open" [] OTHER -> "cut"
        /\ Status(k, i)' = CASE saved' -> "saved" [] runs' -> "open" [] OTHER -> "cut"
    BY DEF Status
  <2>6. saved => ~runs
    BY DEF BookInv, Live, File
  <2> HIDE DEF saved, runs
  <2>4. CASE saved
    <3>1. Status(k, i) = "saved" /\ Status(k, i)' = "saved"
      BY <2>1, <2>2, <2>3, <2>4, <2>6
    <3> QED BY <3>1
  <2>5. CASE ~saved
    BY <2>1, <2>2, <2>3, <2>5
  <2> QED BY <2>4, <2>5
<1>5. /\ TheBook = [k \in Names |-> [i \in 1..(NextRun(k) - 1) |-> Status(k, i)]]
      /\ TheBook' = [k \in Names |-> [i \in 1..(NextRun(k) - 1) |->
                       IF Status(k, i) = "open" THEN "cut" ELSE Status(k, i)]]
  BY <1>2, <1>4 DEF TheBook
<1>6. \A k \in Names : /\ DOMAIN TheBook[k] = 1..(NextRun(k) - 1)
                       /\ \A i \in DOMAIN TheBook[k] : TheBook[k][i] = Status(k, i)
  BY <1>5
<1>7. TheBook' = [k \in Names |-> [i \in DOMAIN TheBook[k] |->
                    IF TheBook[k][i] = "open" THEN "cut" ELSE TheBook[k][i]]]
  BY <1>5, <1>6
<1> QED BY <1>3, <1>7 DEF Book!Cut, TheBook

\* Stopping a run does not end it yet.
LEMMA StopsSame ==
  ASSUME LinkInv, NEW c \in Ids, NEW who, NEW stops, stops => chan[c].state = "RECORDING",
         chan' = IF stops THEN StopBegins(c, who) ELSE chan, files' = files
  PROVE  SameRuns
<1>1. chan = [k \in Ids |-> chan[k]] /\ Fields(chan[c])
  BY DEF LinkInv, ChanInv
<1>2. CASE stops
  <2> DEFINE new == [chan[c] EXCEPT !.state = "FINISHING", !.by = who]
  <2>1. chan' = [chan EXCEPT ![c] = new]
    BY <1>1, <1>2 DEF StopBegins
  <2>2. new.state = "FINISHING" /\ new.name = chan[c].name /\ new.run = chan[c].run
    BY <1>1 DEF Fields
  <2> HIDE DEF new
  <2>3. Live(new) = Live(chan[c])
    BY <1>2, <2>2 DEF Live
  <2> QED BY <1>1, <2>1, <2>2, <2>3, SameOne
<1>3. CASE ~stops
  BY <1>3 DEF SameRuns
<1> QED BY <1>2, <1>3

\* Nor does what a thread or a photo sensor does to a channel's other fields.
LEMMA OthersSame ==
  ASSUME LinkInv, NEW c \in Ids, NEW new, chan' = [chan EXCEPT ![c] = new], files' = files,
         \/ \E w : new = [chan[c] EXCEPT !.w = w]
         \/ \E left : new = [chan[c] EXCEPT !.left = left]
         \/ \E lines, link : new = [chan[c] EXCEPT !.lines = lines, !.link = link]
         \/ \E din, low, lines : new = [chan[c] EXCEPT !.din = din, !.low = low, !.lines = lines]
  PROVE  SameRuns
<1>1. chan = [k \in Ids |-> chan[k]] /\ Fields(chan[c])
  BY DEF LinkInv, ChanInv
<1>2. new.state = chan[c].state /\ new.name = chan[c].name /\ new.run = chan[c].run
  BY <1>1 DEF Fields
<1> QED BY <1>1, <1>2, SameOne DEF Live

\* The main thread: the channel it is about is open.
LEMMA TurnIsOpen ==
  ASSUME LinkInv
  PROVE  /\ ui.op \in {"close", "start", "stop", "level"} /\ ui.todo # <<>> =>
              Head(ui.todo) \in Owned /\ Head(ui.todo) \in Ids
         /\ ui.op = "din" => ui.c \in Ids
<1>1. Owned \subseteq Ids
  BY Turns DEF LinkInv, ChanInv
<1>2. ui.op \in {"close", "start", "stop", "level"} => ui.todo \in Seq(Owned)
  BY DEF LinkInv, TodoInv
<1>3. ui.op = "din" => ui.c \in Owned
  BY DEF LinkInv, TodoInv
<1> QED BY <1>1, <1>2, <1>3, TailFacts

Noted == BookInv' /\ (TheBook' = TheBook \/ Book!Next)

LEMMA NotedSame == ASSUME BookInv, SameRuns PROVE Noted
BY SameBook DEF Noted

LEMMA NotedBegin ==
  ASSUME LinkInv, BookInv, NEW c \in Owned,
         \/ StartOr(c, chan[c])
         \/ chan[c].w = "cleared" /\ StartOr(c, [chan[c] EXCEPT !.w = "idle"])
  PROVE  Noted
BY RunBegins DEF Noted, Book!Next

LEMMA NotedEnd ==
  ASSUME LinkInv, BookInv, NEW c \in Ids, NEW record \in BOOLEAN, Finish(c, record)
  PROVE  Noted
<1>1. (\E n \in Names : \E i \in DOMAIN TheBook[n] : Book!Save(n, i) \/ Book!Lose(n, i))
        => Book!Next
  BY DEF Book!Next, TheBook
<1>2. CASE record
  <2>1. BookInv' /\ \E n \in Names : \E i \in DOMAIN TheBook[n] : Book!Save(n, i)
    BY <1>2, RunSaved
  <2> QED BY <1>1, <2>1 DEF Noted
<1>3. CASE ~record /\ Live(chan[c])
  <2>1. BookInv' /\ \E n \in Names : \E i \in DOMAIN TheBook[n] : Book!Lose(n, i)
    BY <1>3, RunLost
  <2> QED BY <1>1, <2>1 DEF Noted
<1>4. CASE ~record /\ ~Live(chan[c])
  <2>1. files' = files
    BY <1>4 DEF Finish
  <2>2. (\A k \in Ids \ {c} : chan'[k] = chan[k]) /\ ~Live(chan'[c])
    BY FinishIdles
  <2>3. \A k \in Ids : /\ Live(chan'[k]) = Live(chan[k])
                       /\ Live(chan[k]) => chan'[k].name = chan[k].name /\ chan'[k].run = chan[k].run
    <3> TAKE k \in Ids
    <3>1. CASE k = c
      BY <1>4, <2>2, <3>1 DEF Live
    <3>2. CASE k # c
      BY <2>2, <3>2
    <3> QED BY <3>1, <3>2
  <2>4. SameRuns
    BY <2>1, <2>3 DEF SameRuns
  <2> QED BY <2>4, NotedSame
<1> QED BY <1>2, <1>3, <1>4

LEMMA NotedCut ==
  ASSUME BookInv, files' = files, chan' = [c \in Ids |-> NoChan]
  PROVE  Noted
BY RunsCut DEF Noted, Book!Next

\* What start() or stop() leaves when it raises is at the same runs as before.
LEMMA NotedRaised ==
  ASSUME LinkInv, BookInv, NEW c \in Ids, NEW new, files' = files,
         \/ chan' = [chan EXCEPT ![c] = new]
         \/ BreakOff([chan EXCEPT ![c] = new]),
         \/ new = [chan[c] EXCEPT !.by = "gone"]
         \/ /\ chan[c].state = "IDLE"
            /\ new \in {Raised(chan[c]), Raised([chan[c] EXCEPT !.w = "idle"])}
  PROVE  Noted
<1>1. chan = [k \in Ids |-> chan[k]] /\ Fields(chan[c])
  BY DEF LinkInv, ChanInv
<1>2. Live(new) = Live(chan[c]) /\ (Live(new) => new.name = chan[c].name /\ new.run = chan[c].run)
  BY <1>1 DEF Fields, Live, Raised
<1>3. CASE chan' = [chan EXCEPT ![c] = new]
  <2>1. SameRuns
    BY <1>1, <1>2, <1>3, SameOne
  <2> QED BY <2>1, NotedSame
<1>4. CASE ProgramEnds
  BY <1>4, NotedCut DEF ProgramEnds
<1> QED BY <1>3, <1>4 DEF BreakOff

\* What the main thread does is in the book.
LEMMA MainThreadNoted ==
  ASSUME LinkInv, BookInv, MainThread
  PROVE  Noted
<1>0. chan = [k \in Ids |-> chan[k]] /\ ChanInv
  BY DEF LinkInv, ChanInv
<1>1. CASE CloseCheck \/ StopOne
  <2>1. /\ ui.op \in {"close", "stop"} /\ ui.todo # <<>> /\ files' = files
        /\ LET c == Head(ui.todo)
           IN chan' = IF chan[c].state = "RECORDING" THEN StopBegins(c, "main") ELSE chan
    BY <1>1 DEF CloseCheck, StopOne, disk
  <2>2. Head(ui.todo) \in Ids
    BY <2>1, TurnIsOpen
  <2>3. SameRuns
    BY <2>1, <2>2, StopsSame
  <2> QED BY <2>3, NotedSame
<1>2. CASE CloseJoin
  <2>1. /\ ui.op = "close" /\ ui.todo # <<>> /\ files' = files
        /\ chan' = [chan EXCEPT ![Head(ui.todo)] = Closed(chan[Head(ui.todo)])]
    BY <1>0, <1>2, TurnIsOpen DEF CloseJoin, disk
  <2>2. Head(ui.todo) \in Ids
    BY <2>1, TurnIsOpen
  <2>3. SameRuns
    BY <2>1, <2>2, OthersSame DEF Closed
  <2> QED BY <2>3, NotedSame
<1>3. CASE CloseEnds
  <2>1. files' = files
    BY <1>3 DEF CloseEnds, disk
  <2>2. CASE ProgramEnds
    BY <2>1, <2>2, NotedCut DEF ProgramEnds
  <2>3. CASE ~ProgramEnds
    <3>1. chan' = [c \in Ids |-> IF chan[c].state = "IDLE" THEN NoChan ELSE chan[c]]
      BY <1>3, <2>3 DEF CloseEnds
    <3>2. SameRuns
      BY <2>1, <3>1 DEF SameRuns, Live, NoChan
    <3> QED BY <3>2, NotedSame
  <2> QED BY <2>2, <2>3
<1>4. CASE \E opens \in BOOLEAN : OpenOne(opens)
  <2>1. files' = files
    BY <1>4 DEF OpenOne, disk
  <2>2. CASE chan' = chan
    <3>1. SameRuns
      BY <2>1, <2>2 DEF SameRuns
    <3> QED BY <3>1, NotedSame
  <2>3. CASE chan' # chan
    <3> DEFINE spare == {c \in Ids : chan[c] = NoChan}
    <3>1. spare # {}
      BY <1>4 DEF OpenOne
    <3>2. PICK c : c \in spare /\ c = Min(spare)
      <4>1. Ids \in SUBSET Nat
        BY CollectorAssumption
      <4>2. spare \in SUBSET Nat
        BY <4>1
      <4> HIDE DEF spare
      <4> QED BY <3>1, <4>2, LeastNumber
    <3>3. PICK name, src, din, low, lines :
            chan' = [chan EXCEPT ![c] = [NoChan EXCEPT !.name = name, !.src = src, !.link = "up",
                                           !.din = din, !.low = low, !.lines = lines]]
      <4>1. PICK opens \in BOOLEAN : OpenOne(opens)
        BY <1>4
      <4> DEFINE e == Head(ui.todo)
      <4>2. chan' = [chan EXCEPT ![Min(spare)] =
                       [NoChan EXCEPT !.name = e.name, !.src = e.src, !.link = "up",
                                      !.din = e.din, !.low = set.low,
                                      !.lines = Line(Min(spare), e.din)]]
        BY <2>3, <4>1 DEF OpenOne
      <4> HIDE DEF spare
      <4> QED BY <3>2, <4>2
    <3> DEFINE new == [NoChan EXCEPT !.name = name, !.src = src, !.link = "up", !.din = din,
                                     !.low = low, !.lines = lines]
    <3>4. new.state = "IDLE" /\ NoChan.state = "IDLE"
      BY DEF NoChan
    <3>5. c \in Ids /\ chan[c] = NoChan
      BY <3>2
    <3> HIDE DEF new
    <3>6. SameRuns
      BY <1>0, <2>1, <3>3, <3>4, <3>5, SameOne DEF Live, new
    <3> QED BY <3>6, NotedSame
  <2> QED BY <2>2, <2>3
<1>5. CASE OpenEnds
  <2>1. files' = files
    BY <1>5 DEF OpenEnds, disk
  <2>2. CASE ProgramEnds
    BY <2>1, <2>2, NotedCut DEF ProgramEnds
  <2>3. CASE ~ProgramEnds
    <3>1. SameRuns
      BY <1>5, <2>1, <2>3 DEF OpenEnds, SameRuns
    <3> QED BY <3>1, NotedSame
  <2> QED BY <2>2, <2>3
<1>6. CASE StartGo
  <2> DEFINE c == Head(ui.todo)
  <2>1. /\ ui.op = "start" /\ ui.todo # <<>>
        /\ \/ StartOr(c, chan[c])
           \/ /\ chan[c].state = "IDLE" /\ files' = files
              /\ BreakOff([chan EXCEPT ![c] = Raised(@)])
    BY <1>6 DEF StartGo, CannotStart
  <2>2. c \in Owned /\ c \in Ids
    BY <2>1, TurnIsOpen
  <2> HIDE DEF c
  <2>3. [chan EXCEPT ![c] = Raised(@)] = [chan EXCEPT ![c] = Raised(chan[c])]
    BY <1>0, <2>2
  <2> QED BY <2>1, <2>2, <2>3, NotedBegin, NotedRaised
<1>7. CASE LevelOne \/ DinOne
  <2>1. PICK c \in Ids : \E din, low : /\ files' = files
                                       /\ chan' = [chan EXCEPT ![c] = Rewatched(c, din, low)]
    <3>1. CASE LevelOne
      <4>1. Head(ui.todo) \in Ids
        BY <3>1, TurnIsOpen DEF LevelOne
      <4> QED BY <1>0, <3>1, <4>1 DEF LevelOne, disk
    <3>2. CASE DinOne
      <4>1. ui.c \in Ids
        BY <3>2, TurnIsOpen DEF DinOne
      <4> QED BY <3>2, <4>1 DEF DinOne, disk
    <3> QED BY <1>7, <3>1, <3>2
  <2>2. SameRuns
    BY <2>1, OthersSame DEF Rewatched
  <2> QED BY <2>2, NotedSame
<1>8. CASE StartCheck \/ LoopEnds \/ CliBegins \/ CliDone
  <2>1. files' = files /\ chan' = chan
    BY <1>8 DEF StartCheck, LoopEnds, CliBegins, CliDone, disk
  <2>2. SameRuns
    BY <2>1 DEF SameRuns
  <2> QED BY <2>2, NotedSame
<1> QED BY <1>1, <1>2, <1>3, <1>4, <1>5, <1>6, <1>7, <1>8 DEF MainThread

\* So is what the threads of a channel do.
LEMMA ThreadsNoted ==
  ASSUME LinkInv, BookInv, NEW c \in Ids, Threads(c)
  PROVE  Noted
<1>0. chan = [k \in Ids |-> chan[k]] /\ ChanInv
  BY DEF LinkInv, ChanInv
<1>1. CASE Edge(c) \/ Write(c)
  <2>1. /\ files' = files
        /\ \/ chan' = [chan EXCEPT ![c] = [chan[c] EXCEPT !.w = "cleared"]]
           \/ chan' = [chan EXCEPT ![c] = [chan[c] EXCEPT !.left = chan[c].left - 1]]
    BY <1>0, <1>1 DEF Edge, Write, disk
  <2>2. SameRuns
    BY <2>1, OthersSame
  <2> QED BY <2>2, NotedSame
<1>2. CASE TriggerStart(c)
  <2> DEFINE new == [chan[c] EXCEPT !.w = "idle"]
  <2>1. /\ chan[c].w = "cleared"
        /\ \/ StartOr(c, new)
           \/ /\ chan[c].state = "IDLE" /\ files' = files
              /\ chan' = [chan EXCEPT ![c] = Raised(new)]
    BY <1>2 DEF TriggerStart, CannotStart
  <2>2. c \in Owned
    BY <1>0, <2>1 DEF ChanInv, Silent
  <2> QED BY <2>1, <2>2, NotedBegin, NotedRaised
<1>3. CASE TimeUp(c)
  <2>1. /\ chan[c].state = "RECORDING" /\ files' = files
        /\ chan' = IF TRUE THEN StopBegins(c, "timer") ELSE chan
    BY <1>3 DEF TimeUp, disk
  <2>2. SameRuns
    BY <2>1, StopsSame
  <2> QED BY <2>2, NotedSame
<1>4. CASE \E record \in BOOLEAN : Finish(c, record)
  BY <1>4, NotedEnd
<1>5. CASE FinishRaises(c)
  <2> DEFINE new == [chan[c] EXCEPT !.by = "gone"]
  <2>1. /\ files' = files
        /\ chan' = [chan EXCEPT ![c] = new] \/ BreakOff([chan EXCEPT ![c] = new])
    BY <1>0, <1>5 DEF FinishRaises, disk
  <2> QED BY <2>1, NotedRaised
<1> QED BY <1>1, <1>2, <1>3, <1>4, <1>5 DEF Threads, StopEnds

\* And what comes from outside: the cables change no run, the power ends them all.
LEMMA OutsideNoted ==
  ASSUME LinkInv, BookInv, Outside
  PROVE  Noted
<1>1. CASE \E torn \in BOOLEAN : PowerCut(torn)
  BY <1>1, NotedCut DEF PowerCut, ProgramEnds, disk
<1>2. CASE Cables
  <2>1. /\ files' = files
        /\ \/ chan' = chan
           \/ \E h : chan' = [c \in Ids |-> IF chan[c].src = h /\ chan[c].link = "up"
                                            THEN [chan[c] EXCEPT !.link = "dead"] ELSE chan[c]]
    BY <1>2 DEF Cables, Unplug, Plug, AirChanges, disk
  <2>2. \A c \in Ids : Fields(chan[c])
    BY DEF LinkInv, ChanInv
  <2>3. ASSUME NEW ch, Fields(ch)
        PROVE  LET new == [ch EXCEPT !.link = "dead"]
               IN new.state = ch.state /\ new.name = ch.name /\ new.run = ch.run
    BY <2>3 DEF Fields
  <2>4. \A c \in Ids : /\ chan'[c].state = chan[c].state /\ chan'[c].name = chan[c].name
                       /\ chan'[c].run = chan[c].run
    BY <2>1, <2>2, <2>3
  <2>5. SameRuns
    BY <2>1, <2>4 DEF SameRuns, Live
  <2> QED BY <2>5, NotedSame
<1>3. CASE (\E m \in Modes : Launch(m)) \/ Interrupt \/ SlotsCommand \/ DiskFills
  <2>1. files' = files /\ chan' = chan
    BY <1>3 DEF Launch, Interrupt, SlotsCommand, DiskFills, disk
  <2>2. SameRuns
    BY <2>1 DEF SameRuns
  <2> QED BY <2>2, NotedSame
<1> QED BY <1>1, <1>2, <1>3 DEF Outside

\* So is every step.
LEMMA StepNoted ==
  ASSUME LinkInv, BookInv, [Next]_vars
  PROVE  Noted
<1>1. CASE MainThread
  BY <1>1, MainThreadNoted
<1>2. CASE Window \/ AfterIdle \/ (\E yes \in BOOLEAN : Answer(yes)) \/ UNCHANGED vars
  <2>1. files' = files /\ chan' = chan
    BY <1>2 DEF Window, AfterIdle, Answer, vars, OnReopen, OnAssign, OnClose, OnActive, OnAuto,
                ChangeSource, OnStop, OnStart, OnAddWifi, OnDin, OnSize, disk
  <2>2. SameRuns
    BY <2>1 DEF SameRuns
  <2> QED BY <2>2, NotedSame
<1>3. CASE Outside
  BY <1>3, OutsideNoted
<1>4. CASE \E c \in Ids : Threads(c)
  BY <1>4, ThreadsNoted
<1> QED BY <1>1, <1>2, <1>3, <1>4 DEF Next

LEMMA InitBook ==
  ASSUME Init
  PROVE  BookInv /\ Book!Init
<1>1. files = {} /\ \A c \in Ids : ~Live(chan[c])
  BY DEF Init, Live, NoChan
<1>2. \A n \in Names : Top(n, 0)
  BY <1>1 DEF Top, Nos
<1>3. \A n \in Names : NextRun(n) = 1
  BY <1>2, TopIsLast
<1>4. \A n \in Names : [i \in 1..(NextRun(n) - 1) |-> Status(n, i)] = <<>>
  BY <1>3
<1> QED BY <1>1, <1>2, <1>4 DEF BookInv, Book!Init

\* A run under way has its data file and no record yet, and no two channels, of whatever
\* opening and whatever thread, are ever at the same run.
THEOREM AlwaysBookInv == Spec => []BookInv
<1>1. Init => BookInv
  BY InitBook
<1>2. BookInv /\ LinkInv /\ [Next]_vars => BookInv'
  BY StepNoted DEF Noted
<1> QED BY <1>1, <1>2, AlwaysLinkInv, PTL DEF Spec

\* Every step of the program is a step of the book or none: the runs of a sensor are
\* numbered one after the other, no number is given twice, each run ends once, and what has
\* been recorded about it stays, through reopening, two front ends, power cuts and runs
\* that outlive their channel.
THEOREM KeepsTheBook == Spec => BookSpec
<1>1. Init => Book!Init
  BY InitBook
<1>2. BookInv /\ LinkInv /\ [Next]_vars =>
        [Book!Next]_[n \in Names |-> [i \in 1..(NextRun(n) - 1) |-> Status(n, i)]]
  BY StepNoted DEF Noted, TheBook
<1> QED BY <1>1, <1>2, AlwaysLinkInv, AlwaysBookInv, PTL DEF Spec, BookSpec, Book!Spec

-----------------------------------------------------------------------------
(* Room on the disk *)

\* A thread has made the checks for a run of c and has not begun it yet.
Held(c) ==
  chan[c].w = "cleared"
    \/ (ui.op = "start" /\ ui.phase = "go" /\ ui.todo # <<>> /\ c = Head(ui.todo))

\* What a run that is on, or has been let through, will still write.
Due(c) ==
  IF ~Receiving(c) THEN 0
  ELSE IF chan[c].state = "RECORDING" THEN chan[c].left
  ELSE IF chan[c].state = "IDLE" /\ Held(c) THEN set.size
  ELSE 0

\* f[c] units for each c.
Units(f) == UNION {{c} \X (1..f[c]) : c \in Ids}
Dues     == [c \in Ids |-> Due(c)]

\* SpaceFits is not inductive: a run that has been let through and has not begun needs its
\* room, too.
SpaceInv ==
  /\ free \in Nat /\ set.size \in Nat
  /\ \A c \in Ids : chan[c].state = "RECORDING" => chan[c].left \in Nat
  /\ calm => /\ \A c \in Ids : chan[c].state = "RECORDING" => chan[c].left <= set.size
             /\ Cardinality(Units(Dues)) <= free

\* Finitely many of them, and each belongs to one channel.
LEMMA UnitsFinite ==
  ASSUME NEW f \in [Ids -> Nat]
  PROVE  /\ IsFiniteSet(Units(f)) /\ Cardinality(Units(f)) \in Nat
         /\ \A u : u \in Units(f) <=> \E c \in Ids : \E i \in 1..f[c] : u = <<c, i>>
<1> DEFINE parts == {{c} \X (1..f[c]) : c \in Ids}
<1>1. IsFiniteSet(parts)
  <2>1. IsFiniteSet(Ids)
    BY CollectorAssumption
  <2> DEFINE h == [c \in Ids |-> {c} \X (1..f[c])]
  <2>2. h \in [Ids -> parts] /\ \A T \in parts : \E c \in Ids : h[c] = T
    OBVIOUS
  <2>3. h \in Surjection(Ids, parts)
    <3> HIDE DEF h, parts
    <3> QED BY <2>2 DEF Surjection
  <2> HIDE DEF h, parts
  <2> QED BY <2>1, <2>3, FS_Surjection
<1>2. ASSUME NEW T \in parts PROVE IsFiniteSet(T)
  <2>1. PICK c \in Ids : T = {c} \X (1..f[c])
    OBVIOUS
  <2>2. IsFiniteSet({c})
    BY FS_Singleton
  <2>3. IsFiniteSet(1..f[c])
    <3>1. f[c] \in Int /\ 1 \in Int
      OBVIOUS
    <3> HIDE DEF parts
    <3> QED BY <3>1, FS_Interval
  <2> QED BY <2>1, <2>2, <2>3, FS_Product
<1>3. IsFiniteSet(UNION parts)
  BY <1>1, <1>2, FS_UNION
<1>4. IsFiniteSet(Units(f))
  BY <1>3 DEF Units
<1>5. Cardinality(Units(f)) \in Nat
  BY <1>4, FS_CardinalityType
<1>6. ASSUME NEW u PROVE u \in Units(f) <=> \E c \in Ids : \E i \in 1..f[c] : u = <<c, i>>
  <2>1. u \in Units(f) <=> \E c \in Ids : u \in {c} \X (1..f[c])
    BY DEF Units
  <2>2. ASSUME NEW c \in Ids
        PROVE  u \in {c} \X (1..f[c]) <=> \E i \in 1..f[c] : u = <<c, i>>
    OBVIOUS
  <2> QED BY <2>1, <2>2
<1> QED BY <1>4, <1>5, <1>6

\* Less for each is less in all.
LEMMA FewerUnits ==
  ASSUME NEW f \in [Ids -> Nat], NEW g \in [Ids -> Nat], \A c \in Ids : g[c] <= f[c]
  PROVE  Cardinality(Units(g)) <= Cardinality(Units(f))
<1>1. Units(g) \subseteq Units(f)
  BY UnitsFinite
<1> QED BY <1>1, UnitsFinite, FS_Subset

\* One less for one is one less in all.
LEMMA OneUnitLess ==
  ASSUME NEW f \in [Ids -> Nat], NEW k \in Ids, f[k] > 0
  PROVE  Cardinality(Units([f EXCEPT ![k] = f[k] - 1])) = Cardinality(Units(f)) - 1
<1> DEFINE g == [f EXCEPT ![k] = f[k] - 1]
<1>1. g \in [Ids -> Nat] /\ g[k] = f[k] - 1 /\ \A c \in Ids \ {k} : g[c] = f[c]
  OBVIOUS
<1> HIDE DEF g
<1>2. <<k, f[k]>> \in Units(f)
  BY UnitsFinite
<1>3. Units(g) = Units(f) \ {<<k, f[k]>>}
  <2>1. ASSUME NEW u PROVE u \in Units(g) <=> u \in Units(f) /\ u # <<k, f[k]>>
    <3>1. ASSUME NEW c \in Ids
          PROVE  (\E i \in 1..g[c] : u = <<c, i>>)
                   <=> (\E i \in 1..f[c] : u = <<c, i>> /\ u # <<k, f[k]>>)
      BY <1>1
    <3> QED BY <1>1, <3>1, UnitsFinite
  <2> QED BY <2>1
<1>4. Cardinality(Units(f) \ {<<k, f[k]>>}) = Cardinality(Units(f)) - 1
  BY <1>2, UnitsFinite, FS_RemoveElement
<1> QED BY <1>3, <1>4 DEF g

\* As much for each of some, and nothing for the others, is a product.
LEMMA UnitsBound ==
  ASSUME NEW f \in [Ids -> Nat], NEW S \in SUBSET Ids, NEW m \in Nat,
         \A c \in Ids : f[c] <= m, \A c \in Ids \ S : f[c] = 0
  PROVE  Cardinality(S) \in Nat /\ Cardinality(Units(f)) <= m * Cardinality(S)
<1>1. IsFiniteSet(S) /\ Cardinality(S) \in Nat
  BY CollectorAssumption, FS_Subset, FS_CardinalityType
<1>2. IsFiniteSet(1..m) /\ Cardinality(1..m) = m
  BY FS_Interval
<1>3. IsFiniteSet(S \X (1..m)) /\ Cardinality(S \X (1..m)) = Cardinality(S) * m
  BY <1>1, <1>2, FS_Product
<1>4. Units(f) \subseteq S \X (1..m)
  BY UnitsFinite
<1>5. Cardinality(Units(f)) <= Cardinality(S \X (1..m))
  BY <1>3, <1>4, FS_Subset
<1>6. Cardinality(S) * m = m * Cardinality(S)
  BY <1>1
<1> QED BY <1>1, <1>3, <1>5, <1>6

\* What a step may make of a channel without anything more being due for it.
Same(c) ==
  /\ chan'[c].state = chan[c].state /\ chan'[c].left = chan[c].left
  /\ calm' /\ Receiving(c)' => Receiving(c)
  /\ Held(c)' => Held(c)

\* Nothing is due for it any more.
Over(c) ==
  /\ \/ chan'[c].state \in {"IDLE", "FINISHING"}
     \/ chan'[c].state = "RECORDING" /\ chan'[c].left = 0
  /\ chan'[c].state = "IDLE" /\ calm' => ~Receiving(c)' \/ ~Held(c)'

\* The run it was let through for begins.
Begins(c) ==
  /\ chan[c].state = "IDLE" /\ Held(c)
  /\ chan'[c].state = "RECORDING" /\ chan'[c].left = set.size
  /\ Receiving(c)' => Receiving(c)

\* What is due is a number.
LEMMA DuesTyped == ASSUME SpaceInv PROVE Dues \in [Ids -> Nat]
BY DEF SpaceInv, Dues, Due

\* A step that asks for no more room than was there leaves it.
LEMMA NoMoreDue ==
  ASSUME SpaceInv, free' = free, set'.size = set.size, calm' => calm,
         \A c \in Ids : Same(c) \/ Over(c) \/ Begins(c)
  PROVE  SpaceInv'
<1>1. \A c \in Ids : chan'[c].state = "RECORDING" =>
        /\ chan'[c].left \in Nat
        /\ calm' => chan'[c].left <= set.size
  BY DEF SpaceInv, Same, Over, Begins
<1>2. ASSUME calm', NEW c \in Ids
      PROVE  Due(c)' \in Nat /\ Due(c)' <= Due(c)
  <2>1. set.size \in Nat /\ (chan[c].state = "RECORDING" => chan[c].left \in Nat)
    BY DEF SpaceInv
  <2>2. CASE Same(c)
    BY <1>2, <2>1, <2>2 DEF Same, Due
  <2>3. CASE Over(c)
    BY <1>2, <2>1, <2>3 DEF Over, Due
  <2>4. CASE Begins(c)
    BY <1>2, <2>1, <2>4 DEF Begins, Due
  <2> QED BY <2>2, <2>3, <2>4
<1>3. ASSUME calm' PROVE Cardinality(Units(Dues')) <= free
  <2>1. Dues \in [Ids -> Nat]
    BY DuesTyped
  <2>2. Dues' \in [Ids -> Nat] /\ \A c \in Ids : Dues'[c] <= Dues[c]
    BY <1>2, <1>3 DEF Dues
  <2>3. Cardinality(Units(Dues)) <= free /\ free \in Nat
    BY <1>3 DEF SpaceInv
  <2>4. Cardinality(Units(Dues')) <= Cardinality(Units(Dues))
    BY <2>1, <2>2, FewerUnits
  <2>5. Cardinality(Units(Dues')) \in Nat /\ Cardinality(Units(Dues)) \in Nat
    BY <2>1, <2>2, UnitsFinite
  <2> QED BY <2>3, <2>4, <2>5
<1>4. Units(Dues)' = Units(Dues')
  BY DEF Units
<1> QED BY <1>1, <1>3, <1>4 DEF SpaceInv

\* A run that is let through finds room beside all that may be on.
LEMMA LetThrough ==
  ASSUME LinkInv, SpaceInv, CheckSpace, NEW k \in Owned, Receiving(k),
         free' = free, set' = set, calm' = calm, air' = air,
         \A c \in Ids : /\ chan'[c].state = chan[c].state /\ chan'[c].left = chan[c].left
                        /\ chan'[c].link = chan[c].link /\ chan'[c].src = chan[c].src
  PROVE  SpaceInv'
<1> DEFINE S == {c \in Owned : Receiving(c)}
<1>1. Owned \subseteq Ids /\ \A c \in Ids \ Owned : ~Receiving(c)
  <2>1. ChanInv
    BY DEF LinkInv
  <2>2. Owned \subseteq Ids
    BY <2>1, Turns DEF ChanInv
  <2> QED BY <2>1, <2>2 DEF ChanInv, Silent, Receiving
<1>2. \A c \in Ids : Receiving(c)' = Receiving(c)
  BY DEF Receiving
<1>3. ASSUME calm, NEW c \in Ids
      PROVE  Due(c)' \in Nat /\ Due(c)' <= set.size /\ (c \notin S => Due(c)' = 0)
  <2>1. set.size \in Nat
        /\ (chan[c].state = "RECORDING" => chan[c].left \in Nat /\ chan[c].left <= set.size)
    BY <1>3 DEF SpaceInv
  <2>2. c \notin S => ~Receiving(c)
    BY <1>1
  <2> QED BY <1>2, <2>1, <2>2 DEF Due
<1>4. ASSUME calm PROVE Cardinality(Units(Dues')) <= free
  <2>1. /\ Dues' \in [Ids -> Nat] /\ \A c \in Ids : Dues'[c] <= set.size
        /\ \A c \in Ids \ S : Dues'[c] = 0
    BY <1>3, <1>4 DEF Dues
  <2>2. set.size \in Nat /\ free \in Nat /\ S \in SUBSET Ids
    BY <1>1 DEF SpaceInv
  <2>3. k \in S /\ S # {}
    OBVIOUS
  <2>4. Cardinality(S) \in Nat /\ Cardinality(Units(Dues')) <= set.size * Cardinality(S)
    <3> HIDE DEF S
    <3> QED BY <2>1, <2>2, UnitsBound
  <2>5. Cardinality(S) >= 1
    <3>1. IsFiniteSet(S)
      BY <2>2, CollectorAssumption, FS_Subset
    <3>2. Cardinality(S) # 0
      <4> HIDE DEF S
      <4> QED BY <2>3, <3>1, FS_EmptySet
    <3> QED BY <2>4, <3>2
  <2>6. RunsPlanned(S) = Cardinality(S)
    <3> HIDE DEF S
    <3>1. \A i \in {1, Cardinality(S)} : i \in Nat /\ i <= Cardinality(S)
      BY <2>4, <2>5
    <3> QED BY <3>1, Greatest DEF RunsPlanned
  <2>7. 10 * set.size * RunsPlanned(S) <= 9 * free
    BY <2>3 DEF CheckSpace
  <2>8. 10 * (set.size * Cardinality(S)) <= 9 * free
    <3> HIDE DEF S
    <3>1. \A a, b \in Nat : 10 * a * b = 10 * (a * b)
      OBVIOUS
    <3> QED BY <2>2, <2>4, <2>6, <2>7, <3>1
  <2>9. Cardinality(Units(Dues')) \in Nat /\ set.size * Cardinality(S) \in Nat
    <3> HIDE DEF S
    <3>1. \A a, b \in Nat : a * b \in Nat
      OBVIOUS
    <3> QED BY <2>1, <2>2, <2>4, <3>1, UnitsFinite
  <2> HIDE DEF S
  <2> QED BY <2>2, <2>4, <2>8, <2>9
<1>5. Units(Dues)' = Units(Dues')
  BY DEF Units
<1> QED BY <1>4, <1>5 DEF SpaceInv

\* A unit that is written is one less to write.
LEMMA WriteFits ==
  ASSUME LinkInv, SpaceInv, NEW k \in Ids, Write(k)
  PROVE  SpaceInv'
<1>1. /\ chan = [c \in Ids |-> chan[c]] /\ Fields(chan[k])
  BY DEF LinkInv, ChanInv
<1>2. /\ chan[k].state = "RECORDING" /\ Receiving(k) /\ chan[k].left > 0 /\ free > 0
      /\ chan' = [chan EXCEPT ![k].left = @ - 1] /\ free' = free - 1
      /\ set' = set /\ calm' = calm /\ air' = air /\ ui' = ui
  BY DEF Write
<1>3. /\ free \in Nat /\ set.size \in Nat /\ chan[k].left \in Nat
      /\ calm => chan[k].left <= set.size
  BY <1>2 DEF SpaceInv
<1>4. /\ chan'[k].left = chan[k].left - 1 /\ chan'[k].state = "RECORDING"
      /\ chan'[k].link = chan[k].link /\ chan'[k].src = chan[k].src
      /\ \A c \in Ids \ {k} : chan'[c] = chan[c]
  <2>1. /\ chan'[k] = [chan[k] EXCEPT !.left = chan[k].left - 1]
        /\ \A c \in Ids \ {k} : chan'[c] = chan[c]
    BY <1>1, <1>2
  <2> QED BY <1>1, <1>2, <2>1 DEF Fields
<1>5. /\ Due(k) = chan[k].left /\ Due(k)' = chan[k].left - 1
      /\ \A c \in Ids \ {k} : Due(c)' = Due(c)
  BY <1>2, <1>4 DEF Due, Receiving, Held
<1>6. Dues' = [Dues EXCEPT ![k] = Dues[k] - 1]
  BY <1>5 DEF Dues
<1>7. Dues \in [Ids -> Nat] /\ Dues[k] > 0
  BY <1>2, <1>5, DuesTyped DEF Dues
<1>8. Cardinality(Units(Dues')) = Cardinality(Units(Dues)) - 1 /\ Cardinality(Units(Dues)) \in Nat
  BY <1>6, <1>7, OneUnitLess, UnitsFinite
<1>9. Units(Dues)' = Units(Dues')
  BY DEF Units
<1>10. \A c \in Ids : chan'[c].state = "RECORDING" =>
         chan'[c].left \in Nat /\ (calm => chan'[c].left <= set.size)
  BY <1>2, <1>3, <1>4 DEF SpaceInv
<1>11. calm => Cardinality(Units(Dues)') <= free'
  BY <1>2, <1>3, <1>8, <1>9 DEF SpaceInv
<1> QED BY <1>2, <1>3, <1>10, <1>11 DEF SpaceInv

\* The main thread is not between the checks for a run and its start.
NotGoing == ui'.op # "start" \/ ui'.phase # "go"

\* A step that leaves a channel as it is.
LEMMA SameIfSame ==
  ASSUME NEW c \in Ids, chan'[c] = chan[c], air' = air, NotGoing \/ ui' = ui
  PROVE  Same(c)
<1>1. Receiving(c)' = Receiving(c)
  BY DEF Receiving
<1>2. Held(c)' => Held(c)
  BY DEF Held, NotGoing
<1> QED BY <1>1, <1>2 DEF Same

\* Nothing about the channels.
LEMMA SpaceSame ==
  ASSUME SpaceInv, free' = free, set'.size = set.size, calm' = calm, air' = air,
         chan' = chan, NotGoing \/ ui' = ui
  PROVE  SpaceInv'
<1>1. \A c \in Ids : Same(c)
  BY SameIfSame
<1> QED BY <1>1, NoMoreDue

\* One channel, that does not need room more than before.
LEMMA SpaceOne ==
  ASSUME LinkInv, SpaceInv, free' = free, set' = set, calm' => calm, air' = air,
         NEW k \in Ids, NEW new, chan' = [chan EXCEPT ![k] = new],
         NotGoing \/ ui' = ui,
         chan'[k] = new => Same(k) \/ Over(k) \/ Begins(k)
  PROVE  SpaceInv'
<1>1. chan = [c \in Ids |-> chan[c]]
  BY DEF LinkInv, ChanInv
<1>2. chan'[k] = new /\ \A c \in Ids \ {k} : chan'[c] = chan[c]
  BY <1>1
<1>3. \A c \in Ids \ {k} : Same(c)
  BY <1>2, SameIfSame
<1> QED BY <1>2, <1>3, NoMoreDue

\* All runs are gone.
LEMMA SpaceCut ==
  ASSUME SpaceInv, free' = free, set' = set, calm' = calm,
         chan' = [c \in Ids |-> NoChan]
  PROVE  SpaceInv'
<1>1. \A c \in Ids : Over(c)
  BY DEF Over, NoChan, Receiving
<1> QED BY <1>1, NoMoreDue

\* Channel.start begins the run that was let through, or does nothing.
LEMMA StartFits ==
  ASSUME LinkInv, SpaceInv, free' = free, set' = set, calm' = calm, air' = air,
         NEW k \in Ids, Held(k), NotGoing \/ ui' = ui,
         \/ StartOr(k, chan[k])
         \/ StartOr(k, [chan[k] EXCEPT !.w = "idle"])
  PROVE  SpaceInv'
<1>1. Fields(chan[k])
  BY DEF LinkInv, ChanInv
<1>2. PICK new : /\ new = chan[k] \/ new = [chan[k] EXCEPT !.w = "idle"]
                 /\ StartOr(k, new)
  OBVIOUS
<1>3. /\ Fields(new) /\ new.state = chan[k].state /\ new.left = chan[k].left
      /\ new.link = chan[k].link /\ new.src = chan[k].src
      /\ new.w \in {chan[k].w, "idle"}
  BY <1>1, <1>2 DEF Fields
<1>4. CASE chan[k].state = "IDLE"
  <2>1. PICK r : chan' = [chan EXCEPT ![k] = [new EXCEPT !.state = "RECORDING",
                                                         !.left = set.size, !.run = r]]
    BY <1>2, <1>4 DEF StartOr
  <2> DEFINE run == [new EXCEPT !.state = "RECORDING", !.left = set.size, !.run = r]
  <2>2. /\ run.state = "RECORDING" /\ run.left = set.size
        /\ run.link = chan[k].link /\ run.src = chan[k].src
    BY <1>3 DEF Fields
  <2>3. chan' = [chan EXCEPT ![k] = run]
    BY <2>1
  <2> HIDE DEF run
  <2>4. chan'[k] = run => Begins(k)
    BY <1>4, <2>2 DEF Begins, Receiving
  <2> QED BY <2>3, <2>4, SpaceOne
<1>5. CASE chan[k].state # "IDLE"
  <2>1. chan' = [chan EXCEPT ![k] = new]
    BY <1>2, <1>5 DEF StartOr
  <2>2. chan'[k] = new => Same(k)
    BY <1>3, <1>2 DEF Same, Receiving, Held, NotGoing
  <2> QED BY <2>1, <2>2, SpaceOne
<1> QED BY <1>4, <1>5

\* Stopping a run.
LEMMA StopFits ==
  ASSUME LinkInv, SpaceInv, free' = free, set' = set, calm' = calm, air' = air,
         NEW k \in Ids, NEW who, NEW stops, NotGoing \/ ui' = ui,
         chan' = IF stops THEN StopBegins(k, who) ELSE chan
  PROVE  SpaceInv'
<1>1. CASE stops
  <2> DEFINE new == [chan[k] EXCEPT !.state = "FINISHING", !.by = who]
  <2>1. chan = [c \in Ids |-> chan[c]] /\ Fields(chan[k])
    BY DEF LinkInv, ChanInv
  <2>2. chan' = [chan EXCEPT ![k] = new]
    BY <1>1, <2>1 DEF StopBegins
  <2>3. new.state = "FINISHING"
    BY <2>1 DEF Fields
  <2> HIDE DEF new
  <2>4. chan'[k] = new => Over(k)
    BY <2>3 DEF Over
  <2> QED BY <2>2, <2>4, SpaceOne
<1>2. CASE ~stops
  BY <1>2, SpaceSame
<1> QED BY <1>1, <1>2

\* The end of stop(): who was let through while the run was on may have too little room now.
LEMMA FinishFits ==
  ASSUME LinkInv, SpaceInv, NEW k \in Ids, NEW record, Finish(k, record)
  PROVE  SpaceInv'
<1>1. /\ free' = free /\ set' = set /\ air' = air
      /\ calm' = (calm /\ ~HeldUp(k)) /\ ui' = [ui EXCEPT !.wait = ui.wait /\ chan[k].by # "main"]
  BY DEF Finish
<1>2. chan = [c \in Ids |-> chan[c]] /\ Fields(chan[k]) /\ ThreadFields(ui)
  BY DEF LinkInv, ChanInv, TodoInv
<1>3. PICK new : /\ chan' = [chan EXCEPT ![k] = new]
                 /\ \/ new = NoChan
                    \/ new = [chan[k] EXCEPT !.state = "IDLE", !.by = "none", !.left = 0, !.run = 0]
  <2>1. chan' = [chan EXCEPT ![k] =
                   IF k \in Owned THEN [chan[k] EXCEPT !.state = "IDLE", !.by = "none",
                                                       !.left = 0, !.run = 0]
                   ELSE NoChan]
    BY <1>2 DEF Finish
  <2> QED BY <2>1
<1>4. new.state = "IDLE" /\ (new.link = "off" \/ new.w = chan[k].w)
  <2>1. CASE new = NoChan
    BY <2>1 DEF NoChan
  <2>2. CASE new # NoChan
    <3>1. new = [chan[k] EXCEPT !.state = "IDLE", !.by = "none", !.left = 0, !.run = 0]
      BY <1>3, <2>2
    <3> QED BY <1>2, <3>1 DEF Fields
  <2> QED BY <2>1, <2>2
<1>5. ui'.op = ui.op /\ ui'.phase = ui.phase /\ ui'.todo = ui.todo
  BY <1>1, <1>2 DEF ThreadFields
<1>6. chan'[k] = new /\ \A c \in Ids \ {k} : chan'[c] = chan[c]
  BY <1>2, <1>3
<1>7. Over(k)
  BY <1>1, <1>4, <1>5, <1>6 DEF Over, Held, HeldUp, Receiving
<1>8. ASSUME NEW c \in Ids \ {k} PROVE Same(c)
  BY <1>1, <1>5, <1>6, <1>8 DEF Same, Held, Receiving
<1> QED BY <1>1, <1>7, <1>8, NoMoreDue

\* What the main thread turns to.
LEMMA TurnsElsewhere ==
  /\ \A x : ui' = ToClose(x) => NotGoing
  /\ ui' = Free => NotGoing
  /\ ui' = [Free EXCEPT !.op = "watch"] => NotGoing
  /\ \A t : ui' = [Free EXCEPT !.op = "start", !.phase = "check", !.todo = t] => NotGoing
<1>1. \A x : ui' = ToClose(x) => NotGoing
  BY DEF ToClose, Free, NotGoing
<1>2. ui' = Free => NotGoing
  BY DEF Free, NotGoing
<1>3. ui' = [Free EXCEPT !.op = "watch"] => NotGoing
  BY DEF Free, NotGoing
<1>4. \A t : ui' = [Free EXCEPT !.op = "start", !.phase = "check", !.todo = t] => NotGoing
  BY DEF Free, NotGoing
<1> QED BY <1>1, <1>2, <1>3, <1>4

\* A channel whose source stays does not begin to receive.
LEMMA SameReceiving ==
  ASSUME NEW c, air' = air, chan'[c].src = chan[c].src,
         chan'[c].link = "up" => chan[c].link = "up"
  PROVE  Receiving(c)' => Receiving(c)
BY DEF Receiving

\* A channel's watcher or link changes, and none of its runs.
LEMMA OthersFit ==
  ASSUME LinkInv, SpaceInv, free' = free, set' = set, calm' = calm, air' = air,
         NEW k \in Ids, NEW new, chan' = [chan EXCEPT ![k] = new], NotGoing,
         \/ \E lines : new = [chan[k] EXCEPT !.lines = lines, !.link = "off"]
         \/ \E din, low, lines : new = [chan[k] EXCEPT !.din = din, !.low = low, !.lines = lines]
  PROVE  SpaceInv'
<1>1. Fields(chan[k])
  BY DEF LinkInv, ChanInv
<1>2. /\ new.state = chan[k].state /\ new.left = chan[k].left /\ new.src = chan[k].src
      /\ new.link \in {chan[k].link, "off"} /\ new.w = chan[k].w
  BY <1>1 DEF Fields
<1>3. ASSUME chan'[k] = new PROVE Same(k)
  <2>0. chan'[k].src = chan[k].src /\ (chan'[k].link = "up" => chan[k].link = "up")
    BY <1>2, <1>3
  <2>1. Receiving(k)' => Receiving(k)
    BY <2>0, SameReceiving
  <2>2. Held(k)' => Held(k)
    BY <1>2, <1>3 DEF Held, NotGoing
  <2> QED BY <1>2, <1>3, <2>1, <2>2 DEF Same
<1> QED BY <1>3, SpaceOne

\* start() or stop() has raised: nothing more will be written for this channel.
LEMMA RaisedFits ==
  ASSUME LinkInv, SpaceInv, free' = free, set' = set, calm' = calm, air' = air,
         NEW k \in Ids, NEW new,
         \/ chan' = [chan EXCEPT ![k] = new] /\ (NotGoing \/ ui' = ui)
         \/ BreakOff([chan EXCEPT ![k] = new]),
         \/ new = [chan[k] EXCEPT !.by = "gone"]
         \/ new \in {Raised(chan[k]), Raised([chan[k] EXCEPT !.w = "idle"])}
  PROVE  SpaceInv'
<1>1. Fields(chan[k])
  BY DEF LinkInv, ChanInv
<1>2. CASE chan' = [chan EXCEPT ![k] = new] /\ (NotGoing \/ ui' = ui)
  <2>1. CASE new = [chan[k] EXCEPT !.by = "gone"]
    <3>1. /\ new.state = chan[k].state /\ new.left = chan[k].left /\ new.src = chan[k].src
          /\ new.link = chan[k].link /\ new.w = chan[k].w
      BY <1>1, <2>1 DEF Fields
    <3>2. chan'[k] = new => Same(k)
      BY <1>2, <3>1 DEF Same, Held, Receiving, NotGoing
    <3> QED BY <1>2, <3>2, SpaceOne
  <2>2. CASE new \in {Raised(chan[k]), Raised([chan[k] EXCEPT !.w = "idle"])}
    <3>1. new.state = "RECORDING" /\ new.left = 0
      BY <1>1, <2>2 DEF Raised, Fields
    <3>2. chan'[k] = new => Over(k)
      BY <3>1 DEF Over
    <3> QED BY <1>2, <3>2, SpaceOne
  <2> QED BY <2>1, <2>2
<1>3. CASE ProgramEnds
  BY <1>3, SpaceCut DEF ProgramEnds
<1>4. BreakOff([chan EXCEPT ![k] = new]) =>
        ProgramEnds \/ (chan' = [chan EXCEPT ![k] = new] /\ NotGoing)
  BY TurnsElsewhere DEF BreakOff
<1> QED BY <1>2, <1>3, <1>4

\* What the main thread does.
LEMMA MainThreadFits ==
  ASSUME LinkInv, SpaceInv, MainThread
  PROVE  SpaceInv'
<1>0. /\ chan = [k \in Ids |-> chan[k]] /\ ChanInv /\ ThreadFields(ui)
      /\ set' = set /\ calm' = calm /\ air' = air /\ free' = free
  BY DEF LinkInv, ChanInv, TodoInv, MainThread, CloseCheck, CloseJoin, CloseEnds, OpenOne,
         OpenEnds, StartCheck, StartGo, StopOne, LevelOne, DinOne, LoopEnds, CliBegins, CliDone,
         disk
<1>1. CASE CloseCheck \/ StopOne
  <2>1. /\ ui.op \in {"close", "stop"} /\ ui.todo # <<>>
        /\ LET c == Head(ui.todo)
           IN chan' = IF chan[c].state = "RECORDING" THEN StopBegins(c, "main") ELSE chan
    BY <1>1 DEF CloseCheck, StopOne
  <2>2. Head(ui.todo) \in Ids
    BY <2>1, TurnIsOpen
  <2>3. NotGoing
    BY <1>0, <1>1 DEF CloseCheck, StopOne, ThreadFields, NotGoing
  <2> QED BY <1>0, <2>1, <2>2, <2>3, StopFits
<1>2. CASE CloseJoin
  <2>1. /\ ui.op = "close" /\ ui.todo # <<>>
        /\ chan' = [chan EXCEPT ![Head(ui.todo)] = Closed(chan[Head(ui.todo)])]
    BY <1>0, <1>2, TurnIsOpen DEF CloseJoin
  <2>2. Head(ui.todo) \in Ids
    BY <2>1, TurnIsOpen
  <2>3. NotGoing
    BY <1>0, <1>2 DEF CloseJoin, ThreadFields, NotGoing
  <2>4. Closed(chan[Head(ui.todo)]) =
          [chan[Head(ui.todo)] EXCEPT !.lines = {}, !.link = "off"]
    BY DEF Closed
  <2> QED BY <1>0, <2>1, <2>2, <2>3, <2>4, OthersFit
<1>3. CASE ProgramEnds
  BY <1>0, <1>3, SpaceCut DEF ProgramEnds
<1>4. CASE CloseEnds /\ ~ProgramEnds
  <2>1. /\ chan' = [c \in Ids |-> IF chan[c].state = "IDLE" THEN NoChan ELSE chan[c]]
        /\ ui' = ToOpen
    BY <1>4 DEF CloseEnds
  <2>2. NotGoing
    BY <2>1 DEF ToOpen, Free, NotGoing
  <2>3. ASSUME NEW c \in Ids PROVE Same(c) \/ Over(c)
    <3>1. CASE chan[c].state = "IDLE"
      BY <2>1, <3>1 DEF Over, NoChan, Receiving
    <3>2. CASE chan[c].state # "IDLE"
      BY <1>0, <2>1, <2>2, <3>2, SameIfSame
    <3> QED BY <3>1, <3>2
  <2> QED BY <1>0, <2>3, NoMoreDue
<1>5. CASE \E opens \in BOOLEAN : OpenOne(opens)
  <2>1. ui.op = "open" /\ ui' = [ui EXCEPT !.todo = Tail(ui.todo)]
    BY <1>5 DEF OpenOne
  <2>2. NotGoing
    BY <1>0, <2>1 DEF ThreadFields, NotGoing
  <2>3. CASE chan' = chan
    BY <1>0, <2>2, <2>3, SpaceSame
  <2>4. CASE chan' # chan
    <3>1. PICK c, name, src, din, low, lines :
            chan' = [chan EXCEPT ![c] = [NoChan EXCEPT !.name = name, !.src = src, !.link = "up",
                                           !.din = din, !.low = low, !.lines = lines]]
      <4>1. PICK opens \in BOOLEAN : OpenOne(opens)
        BY <1>5
      <4> DEFINE e == Head(ui.todo)
                 spare == {c \in Ids : chan[c] = NoChan}
      <4>2. chan' = [chan EXCEPT ![Min(spare)] =
                       [NoChan EXCEPT !.name = e.name, !.src = e.src, !.link = "up",
                                      !.din = e.din, !.low = set.low,
                                      !.lines = Line(Min(spare), e.din)]]
        BY <2>4, <4>1 DEF OpenOne
      <4> HIDE DEF spare
      <4> QED BY <4>2
    <3> DEFINE new == [NoChan EXCEPT !.name = name, !.src = src, !.link = "up", !.din = din,
                                     !.low = low, !.lines = lines]
    <3>2. new.state = "IDLE" /\ new.w = "idle"
      BY DEF NoChan
    <3>3. chan' = [chan EXCEPT ![c] = new]
      BY <3>1
    <3> HIDE DEF new
    <3>4. c \in Ids
      <4>1. c \notin Ids => chan' = chan
        BY <1>0, <3>3
      <4> QED BY <2>4, <4>1
    <3>5. chan'[c] = new => Over(c)
      BY <2>2, <3>2 DEF Over, Held, NotGoing
    <3> QED BY <1>0, <2>2, <3>3, <3>4, <3>5, SpaceOne
  <2> QED BY <2>3, <2>4
<1>6. CASE OpenEnds /\ ~ProgramEnds
  <2>1. chan' = chan /\ NotGoing
    BY <1>6 DEF OpenEnds, Free, NotGoing
  <2> QED BY <1>0, <2>1, SpaceSame
<1>7. CASE StartCheck
  <2>1. ui.op = "start" /\ ui.todo # <<>> /\ chan' = chan
    BY <1>7 DEF StartCheck
  <2>2. Head(ui.todo) \in Owned
    BY <2>1, TurnIsOpen
  <2>3. CASE Preflight(Head(ui.todo))
    BY <1>0, <2>1, <2>2, <2>3, LetThrough DEF Preflight
  <2>4. CASE ~Preflight(Head(ui.todo))
    <3>1. NotGoing
      BY <1>0, <1>7, <2>4 DEF StartCheck, ThreadFields, NotGoing
    <3> QED BY <1>0, <2>1, <3>1, SpaceSame
  <2> QED BY <2>3, <2>4
<1>8. CASE StartGo
  <2> DEFINE c == Head(ui.todo)
  <2>1. /\ ui.op = "start" /\ ui.todo # <<>> /\ ui.phase = "go"
        /\ \/ StartOr(c, chan[c]) /\ ui' = [ui EXCEPT !.phase = "check", !.todo = Tail(@)]
           \/ BreakOff([chan EXCEPT ![c] = Raised(@)])
    BY <1>8 DEF StartGo
  <2>2. c \in Ids /\ Held(c)
    BY <2>1, TurnIsOpen DEF Held
  <2>3. ui' = [ui EXCEPT !.phase = "check", !.todo = Tail(@)] => NotGoing
    BY <1>0 DEF ThreadFields, NotGoing
  <2> HIDE DEF c
  <2>4. [chan EXCEPT ![c] = Raised(@)] = [chan EXCEPT ![c] = Raised(chan[c])]
    BY <1>0, <2>2
  <2> QED BY <1>0, <2>1, <2>2, <2>3, <2>4, StartFits, RaisedFits
<1>9. CASE LevelOne \/ DinOne
  <2>1. NotGoing
    BY <1>0, <1>9 DEF LevelOne, DinOne, Free, ThreadFields, NotGoing
  <2>2. PICK c \in Ids : \E din, low : chan' = [chan EXCEPT ![c] = Rewatched(c, din, low)]
    <3>1. CASE LevelOne
      <4>1. Head(ui.todo) \in Ids
        BY <3>1, TurnIsOpen DEF LevelOne
      <4> QED BY <1>0, <3>1, <4>1 DEF LevelOne
    <3>2. CASE DinOne
      <4>1. ui.c \in Ids
        BY <3>2, TurnIsOpen DEF DinOne
      <4> QED BY <3>2, <4>1 DEF DinOne
    <3> QED BY <1>9, <3>1, <3>2
  <2>3. PICK new : /\ chan' = [chan EXCEPT ![c] = new]
                   /\ \E din, low, lines :
                        new = [chan[c] EXCEPT !.din = din, !.low = low, !.lines = lines]
    <3>1. PICK din, low : chan' = [chan EXCEPT ![c] = Rewatched(c, din, low)]
      BY ONLY <2>2
    <3>2. \E a, b, lines : Rewatched(c, din, low) =
                             [chan[c] EXCEPT !.din = a, !.low = b, !.lines = lines]
      BY ONLY DEF Rewatched
    <3> QED BY ONLY <3>1, <3>2
  <2> QED BY <1>0, <2>1, <2>3, OthersFit
<1>10. CASE LoopEnds \/ CliBegins \/ CliDone
  <2>1. chan' = chan
    BY <1>10 DEF LoopEnds, CliBegins, CliDone
  <2>2. ui' \in {Free, [Free EXCEPT !.op = "watch"], ToClose("exit"),
                 [Free EXCEPT !.op = "start", !.phase = "check", !.todo = InOrder(Owned)]}
    <3>1. LoopEnds => ui' \in {Free, [Free EXCEPT !.op = "watch"], ToClose("exit")}
      BY DEF LoopEnds
    <3>2. CliBegins => ui' \in {[Free EXCEPT !.op = "watch"], ToClose("exit"),
                   [Free EXCEPT !.op = "start", !.phase = "check", !.todo = InOrder(Owned)]}
      BY DEF CliBegins
    <3>3. CliDone => ui' = ToClose("exit")
      BY DEF CliDone
    <3> QED BY <1>10, <3>1, <3>2, <3>3
  <2>3. NotGoing
    BY <2>2, TurnsElsewhere
  <2> QED BY <1>0, <2>1, <2>3, SpaceSame
<1> QED BY <1>1, <1>2, <1>3, <1>4, <1>5, <1>6, <1>7, <1>8, <1>9, <1>10 DEF MainThread

\* What the threads of a channel do.
LEMMA ThreadsFit ==
  ASSUME LinkInv, SpaceInv, NEW c \in Ids, Threads(c)
  PROVE  SpaceInv'
<1>0. chan = [k \in Ids |-> chan[k]] /\ ChanInv /\ Fields(chan[c])
  BY DEF LinkInv, ChanInv
<1>1. CASE Edge(c)
  <2>1. /\ chan' = [chan EXCEPT ![c] = [chan[c] EXCEPT !.w = "cleared"]]
        /\ CheckSpace /\ Receiving(c) /\ chan[c].lines # {}
        /\ free' = free /\ set' = set /\ calm' = calm /\ air' = air
    BY <1>0, <1>1 DEF Edge, Preflight, disk
  <2>2. c \in Owned
    BY <1>0, <2>1 DEF ChanInv, Silent
  <2>3. \A k \in Ids : /\ chan'[k].state = chan[k].state /\ chan'[k].left = chan[k].left
                       /\ chan'[k].link = chan[k].link /\ chan'[k].src = chan[k].src
    <3>1. /\ chan'[c] = [chan[c] EXCEPT !.w = "cleared"]
          /\ \A k \in Ids \ {c} : chan'[k] = chan[k]
      BY <1>0, <2>1
    <3> QED BY <1>0, <3>1 DEF Fields
  <2> QED BY <2>1, <2>2, <2>3, LetThrough
<1>2. CASE TriggerStart(c)
  <2> DEFINE new == [chan[c] EXCEPT !.w = "idle"]
  <2>1. Held(c) /\ (StartOr(c, new) \/ chan' = [chan EXCEPT ![c] = Raised(new)])
    BY <1>2 DEF TriggerStart, Held
  <2>2. free' = free /\ set' = set /\ calm' = calm /\ air' = air /\ ui' = ui
    BY <1>2 DEF TriggerStart
  <2> QED BY <2>1, <2>2, StartFits, RaisedFits
<1>3. CASE TimeUp(c)
  <2>1. chan' = IF TRUE THEN StopBegins(c, "timer") ELSE chan
    BY <1>3 DEF TimeUp
  <2>2. free' = free /\ set' = set /\ calm' = calm /\ air' = air /\ ui' = ui
    BY <1>3 DEF TimeUp, disk
  <2> QED BY <2>1, <2>2, StopFits
<1>4. CASE FinishRaises(c)
  <2> DEFINE new == [chan[c] EXCEPT !.by = "gone"]
  <2>1. /\ free' = free /\ set' = set /\ calm' = calm /\ air' = air
        /\ (chan' = [chan EXCEPT ![c] = new] /\ ui' = ui) \/ BreakOff([chan EXCEPT ![c] = new])
    BY <1>0, <1>4 DEF FinishRaises, disk
  <2> QED BY <2>1, RaisedFits
<1> QED BY <1>1, <1>2, <1>3, <1>4, WriteFits, FinishFits DEF Threads, StopEnds

\* What happens outside.  A WiFi sensor that falls silent and comes back between the checks
\* for its run and the run itself would be left out of the checks of the others.
LEMMA OutsideFits ==
  ASSUME LinkInv, SpaceInv, Outside
  PROVE  SpaceInv'
<1>6. CASE DiskFills
  BY <1>6 DEF DiskFills, SpaceInv
<1> SUFFICES ASSUME ~DiskFills PROVE SpaceInv'
  BY <1>6
<1>0. /\ free' = free /\ set' = set /\ \A c \in Ids : Fields(chan[c])
  <2>1. \A c \in Ids : Fields(chan[c])
    BY DEF LinkInv, ChanInv
  <2>2. free' = free /\ set' = set
    BY DEF Outside, Launch, Interrupt, SlotsCommand, Cables, PowerCut, disk
  <2> QED BY <2>1, <2>2
<1>1. CASE \E torn \in BOOLEAN : PowerCut(torn)
  <2>1. calm' = calm /\ chan' = [c \in Ids |-> NoChan]
    BY <1>1 DEF PowerCut, ProgramEnds
  <2> QED BY <1>0, <2>1, SpaceCut
<1>2. CASE (\E m \in Modes : Launch(m)) \/ Interrupt \/ SlotsCommand
  <2>1. chan' = chan /\ calm' = calm /\ air' = air
    BY <1>2 DEF Launch, Interrupt, SlotsCommand
  <2>2. NotGoing \/ ui' = ui
    BY <1>2 DEF Launch, Interrupt, SlotsCommand, ToOpen, Free, NotGoing
  <2> QED BY <1>0, <2>1, <2>2, SpaceSame
<1>3. CASE Cables /\ \E h \in Holes : Unplug(h)
  <2>1. PICK h \in Holes : Unplug(h)
    BY <1>3
  <2>2. ui' = ui /\ air' = air /\ calm' = calm
    BY <1>3, <2>1 DEF Cables, Unplug
  <2>3. ASSUME NEW c \in Ids PROVE Same(c)
    <3>1. CASE chan'[c] = chan[c]
      BY <2>2, <3>1, SameIfSame
    <3>2. CASE chan'[c] # chan[c]
      <4>1. chan'[c] = [chan[c] EXCEPT !.link = "dead"]
        BY <2>1, <3>2 DEF Unplug
      <4>2. /\ chan'[c].state = chan[c].state /\ chan'[c].left = chan[c].left
            /\ chan'[c].w = chan[c].w /\ chan'[c].link = "dead"
        BY <1>0, <4>1 DEF Fields
      <4> QED BY <2>2, <4>2 DEF Same, Held, Receiving
    <3> QED BY <3>1, <3>2
  <2> QED BY <1>0, <2>2, <2>3, NoMoreDue
<1>4. CASE Cables /\ \E h \in Holes : Plug(h)
  <2>1. ui' = ui /\ air' = air /\ calm' = calm /\ chan' = chan
    BY <1>4 DEF Cables, Plug
  <2> QED BY <1>0, <2>1, SpaceSame
<1>5. CASE Cables /\ \E p \in Ports : AirChanges(p)
  <2>1. PICK p \in Ports : AirChanges(p)
    BY <1>5
  <2>2. /\ ui' = ui /\ chan' = chan
        /\ calm' = (calm /\ ~\E c \in Ids : chan[c].src = p /\ (chan[c].state # "IDLE" \/ HeldUp(c)))
        /\ \A q \in Ports \ {p} : q \in air' <=> q \in air
    BY <1>5, <2>1 DEF Cables, AirChanges
  <2>3. ASSUME NEW c \in Ids PROVE Same(c) \/ Over(c)
    <3>1. CASE chan[c].src # p
      <4>1. Receiving(c)' = Receiving(c)
        BY <2>2, <3>1 DEF Receiving
      <4> QED BY <2>2, <4>1 DEF Same, Held
    <3>2. CASE ~calm'
      BY <2>2, <3>2 DEF Same, Held
    <3>3. CASE chan[c].src = p /\ calm'
      <4>1. chan[c].state = "IDLE" /\ ~HeldUp(c)
        BY <2>2, <3>3
      <4> QED BY <2>2, <4>1 DEF Over, Held, HeldUp
    <3> QED BY <3>1, <3>2, <3>3
  <2> QED BY <1>0, <2>2, <2>3, NoMoreDue
<1> QED BY <1>1, <1>2, <1>3, <1>4, <1>5 DEF Outside, Cables

\* A new size is harmless while nothing is on and nothing has been let through.
LEMMA SizeFits ==
  ASSUME LinkInv, SpaceInv, NEW size \in Sizes, OnSize(size)
  PROVE  SpaceInv'
<1>1. /\ free' = free /\ chan' = chan /\ ui' = ui /\ ui.op = "free"
      /\ set' = [set EXCEPT !.size = size]
      /\ calm' = (calm /\ \A c \in Ids : chan[c].state = "IDLE" /\ chan[c].w = "idle")
  BY DEF OnSize, Command, disk
<1>2. set'.size = size /\ size \in Nat
  <2>1. set \in [size : {set.size}, auto : {set.auto}, low : {set.low}]
    BY DEF LinkInv, FollowInv
  <2>2. size \in Nat
    BY CollectorAssumption
  <2> QED BY <1>1, <2>1, <2>2
<1>3. free \in Nat /\ \A c \in Ids : chan'[c].state = "RECORDING" => chan'[c].left \in Nat
  BY <1>1 DEF SpaceInv
<1>4. ASSUME calm' PROVE Cardinality(Units(Dues')) <= free
  <2>1. \A c \in Ids : Due(c)' = 0
    BY <1>1, <1>4 DEF Due, Held
  <2>2. Dues' \in [Ids -> Nat] /\ \A c \in Ids : Dues'[c] = 0
    BY <2>1 DEF Dues
  <2>3. Cardinality({}) = 0
    BY FS_EmptySet
  <2>4. Cardinality(Units(Dues')) <= 0 * Cardinality({})
    BY <2>2, UnitsBound
  <2>5. Cardinality(Units(Dues')) \in Nat
    BY <2>2, UnitsFinite
  <2> QED BY <1>3, <2>3, <2>4, <2>5
<1>5. Units(Dues)' = Units(Dues')
  BY DEF Units
<1>6. calm' => \A c \in Ids : chan'[c].state = "RECORDING" => chan'[c].left <= set'.size
  BY <1>1
<1> QED BY <1>1, <1>2, <1>3, <1>4, <1>5, <1>6 DEF SpaceInv

\* Every answer ends in a free window, a reopening or the end.
LEMMA AnswersTurn ==
  ASSUME LinkInv, NEW yes \in BOOLEAN, Answer(yes)
  PROVE  Reopen \/ ui' = Free \/ ui' = ToClose("exit")
<1>1. ui.phase \in Questions
  BY DEF Answer, LinkInv, TodoInv
<1>2. CASE ~yes
  BY <1>2 DEF Answer
<1>3. CASE yes /\ ui.phase = "assign"
  BY <1>3 DEF Answer
<1>4. CASE yes /\ ui.phase \in {"wifi", "usb"}
  BY <1>4 DEF Answer
<1>5. CASE yes /\ ui.phase = "add"
  BY <1>5 DEF Answer
<1>6. CASE yes /\ ui.phase = "exit"
  BY <1>6 DEF Answer
<1> QED BY <1>1, <1>2, <1>3, <1>4, <1>5, <1>6 DEF Questions

\* What the user does otherwise.
LEMMA WindowFits ==
  ASSUME LinkInv, SpaceInv,
         Window \/ AfterIdle \/ \E yes \in BOOLEAN : Answer(yes)
  PROVE  SpaceInv'
<1>1. CASE \E size \in Sizes : OnSize(size)
  BY <1>1, SizeFits
<1>2. CASE ~\E size \in Sizes : OnSize(size)
  <2>1. free' = free /\ calm' = calm /\ air' = air /\ chan' = chan
    BY <1>2 DEF Window, AfterIdle, Answer, OnReopen, OnAssign, OnClose, OnActive, OnAuto,
                ChangeSource, OnStop, OnStart, OnAddWifi, OnDin, disk
  <2>2. set'.size = set.size
    <3>1. set \in [size : {set.size}, auto : {set.auto}, low : {set.low}]
      BY DEF LinkInv, FollowInv
    <3>2. CASE OnActive \/ OnAuto
      BY <3>1, <3>2 DEF OnActive, OnAuto
    <3>3. CASE ~(OnActive \/ OnAuto)
      <4>1. set' = set
        BY <1>2, <3>3 DEF Window, AfterIdle, Answer, OnReopen, OnAssign, OnClose, ChangeSource,
                          OnStop, OnStart, OnAddWifi, OnDin
      <4> QED BY <4>1
    <3> QED BY <3>2, <3>3
  <2>3. Reopen => NotGoing
    BY DEF Reopen, ToClose, Free, NotGoing
  <2>4. \A what, c, arg : Ask(what, c, arg) => NotGoing
    BY DEF Ask, Free, NotGoing
  <2>5. NotGoing \/ ui' = ui
    <3>1. CASE Window
      <4>1. (\E c \in Owned : OnStart(<<chan[c].name>>))
              \/ OnStart(InOrder({n \in Names : owned[n] # NoId})) => NotGoing
        BY DEF OnStart, Free, NotGoing
      <4>2. OnReopen \/ OnAssign \/ OnClose \/ (\E c \in Owned : ChangeSource(c))
              \/ (\E n \in Names : OnAddWifi(n)) => NotGoing
        BY <2>3, <2>4 DEF OnReopen, OnAssign, OnClose, ChangeSource, OnAddWifi, ToClose, Free,
                          NotGoing
      <4>3. OnActive \/ (\E S : OnStop(S)) \/ (\E c \in Owned, d \in Dins : OnDin(c, d)) => NotGoing
        BY DEF OnActive, OnStop, OnDin, Free, NotGoing
      <4>4. OnAuto => ui' = ui
        BY DEF OnAuto
      <4> QED BY <1>2, <3>1, <4>1, <4>2, <4>3, <4>4 DEF Window
    <3>2. CASE AfterIdle
      BY <2>3, <3>2 DEF AfterIdle
    <3>3. CASE \E yes \in BOOLEAN : Answer(yes)
      <4>1. Reopen \/ ui' = Free \/ ui' = ToClose("exit")
        BY <3>3, AnswersTurn
      <4> QED BY <2>3, <4>1, TurnsElsewhere
    <3> QED BY <3>1, <3>2, <3>3
  <2> QED BY <2>1, <2>2, <2>5, SpaceSame
<1> QED BY <1>1, <1>2

\* Beside the runs that are on, those that have been let through have their room.
THEOREM AlwaysSpaceInv == Spec => []SpaceInv
<1>1. Init => SpaceInv
  <2> SUFFICES ASSUME Init PROVE SpaceInv
    OBVIOUS
  <2>1. /\ free \in Nat /\ free = Disk /\ \A c \in Ids : chan[c] = NoChan
        /\ set = [size |-> Min(Sizes), auto |-> TRUE, low |-> TRUE]
    BY CollectorAssumption DEF Init
  <2>2. Sizes \in SUBSET Nat /\ Sizes # {}
    BY CollectorAssumption
  <2>3. set.size \in Nat
    BY <2>1, <2>2, LeastNumber
  <2>4. \A c \in Ids : Due(c) = 0 /\ chan[c].state # "RECORDING"
    BY <2>1 DEF Due, Receiving, NoChan
  <2>5. Dues \in [Ids -> Nat] /\ \A c \in Ids : Dues[c] = 0
    BY <2>4 DEF Dues
  <2>6. Cardinality({}) = 0
    BY FS_EmptySet
  <2>7. Cardinality(Units(Dues)) <= 0 * Cardinality({}) /\ Cardinality(Units(Dues)) \in Nat
    BY <2>5, UnitsBound, UnitsFinite
  <2> QED BY <2>1, <2>3, <2>4, <2>6, <2>7 DEF SpaceInv
<1>2. SpaceInv /\ LinkInv /\ [Next]_vars => SpaceInv'
  <2> SUFFICES ASSUME SpaceInv, LinkInv, [Next]_vars PROVE SpaceInv'
    OBVIOUS
  <2>1. CASE UNCHANGED vars
    BY <2>1, SpaceSame DEF vars
  <2>2. CASE \E c \in Ids : Threads(c)
    BY <2>2, ThreadsFit
  <2> QED BY <2>1, <2>2, MainThreadFits, WindowFits, OutsideFits DEF Next
<1> QED BY <1>1, <1>2, AlwaysLinkInv, PTL DEF Spec

\* The runs that are on fit on the disk together: the checks of each channel count the
\* others, also those that a photo sensor starts in between.
THEOREM AlwaysSpaceFits == Spec => []SpaceFits
<1>1. SpaceInv => SpaceFits
  <2> SUFFICES ASSUME SpaceInv, calm PROVE Cardinality(StillNeeded) <= free
    BY DEF SpaceFits
  <2>1. Dues \in [Ids -> Nat]
    BY DuesTyped
  <2>2. StillNeeded \subseteq Units(Dues)
    <3>1. ASSUME NEW c \in Ids, chan[c].state = "RECORDING" /\ Receiving(c)
          PROVE  {c} \X (1..chan[c].left) \subseteq Units(Dues)
      <4>1. Dues[c] = chan[c].left
        BY <3>1 DEF Dues, Due
      <4> QED BY <4>1 DEF Units
    <3> QED BY <3>1 DEF StillNeeded
  <2>3. Cardinality(StillNeeded) <= Cardinality(Units(Dues)) /\ IsFiniteSet(StillNeeded)
    BY <2>1, <2>2, UnitsFinite, FS_Subset
  <2>4. Cardinality(StillNeeded) \in Nat /\ Cardinality(Units(Dues)) \in Nat
    BY <2>1, <2>3, UnitsFinite, FS_CardinalityType
  <2> QED BY <2>3, <2>4 DEF SpaceInv
<1> QED BY <1>1, AlwaysSpaceInv, PTL
=============================================================================

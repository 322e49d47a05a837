------------------------ MODULE ProvisionBenchProofs ------------------------
(***************************************************************************)
(* Theorems about ProvisionBench, for every number of sockets, boards and  *)
(* ttys, every form and package, and any number of stalls and jobs.        *)
(***************************************************************************)
EXTENDS ProvisionBench, FiniteSetTheorems, WellFoundedInduction, SequenceTheorems, TLAPS

-----------------------------------------------------------------------------
(* The inductive invariants *)

\* A line of the list, what the entry fields hold, what is to be written.
Entries == [slot : Slots, dev : Ttys, mac : Boards \cup {NoMac}]
Typed   == [transport : {"wifi", "usb"}, ssid : {"net", "unused", NoSsid}, port : 0..(MaxPort + 1)]
Wanted  == {c \in Typed : c.ssid # NoSsid /\ (c.transport = "usb" => c.port <= MaxPort)}

Workers ==
  [name : Jobs \cup {"none"}, phase : {"mac", "main"},
   step : {"idle", "preflight", "esptool", "ask", "asked", "reset", "refused", "boot", "record"},
   port : Ttys \cup {NoTty}, item : Nat, todo : Nat, image : Packages \cup {"none"},
   cfg : Wanted \cup {NoBin}, mac : Boards \cup {NoMac}, tries : {0, 1},
   aim : Boards \cup {NoBoard}, sure : BOOLEAN, stop : Nat]

\* The window's own state.
WindowInv ==
  /\ list \in Seq(Entries) /\ sel \in 0..Len(list) /\ (sel = 0 <=> list = <<>>)
  /\ busy \in BOOLEAN /\ cancel \in BOOLEAN
  /\ form \in Typed /\ prefs \in Typed
  /\ hist = [b \in Boards |-> hist[b]]
  /\ uses \in 0..MaxUses

\* The window waits for what the worker has posted: a question, or the end of the job.
QueueInv ==
  /\ ~busy => job.step = "idle" /\ ~cancel /\ queue = <<>>
  /\ busy /\ job.step = "idle" =>
       \E m \in Range(queue) : m.kind = "busy" /\
         \/ queue = <<m>>
         \/ \E k \in Range(queue) : k.kind \in {"info", "prefill"} /\ queue = <<k, m>>
  /\ job.step = "ask" => \E m \in Range(queue) : m.kind = "ask" /\ queue = <<m>>
  /\ job.step \notin {"idle", "ask"} => queue = <<>>

\* The port of a job leads to the board it is about, or to none.
Aimed(j) == \A s \in SlotsAt(j.port) : socket[s] = j.aim

\* What a job knows of its board: a name, a phase and a row of the list that go together,
\* a port that leads to the board, and a MAC address that is the board's.
KnownInv ==
  job.step # "idle" =>
    /\ job.name \in Jobs
    /\ job.name = "find" => job.phase = "mac" /\ job.todo = Len(list) /\ ~job.sure
    /\ job.phase = "mac" => job.name \in {"find", "inject"} /\ job.item \in DOMAIN list
    /\ job.name # "find" => Aimed(job)
    /\ job.name = "inject" => job.cfg \in Wanted
    /\ job.name = "inject" /\ job.phase = "mac" => list[job.item].dev = job.port
    /\ job.name = "flash" /\ job.step = "esptool" => job.image = "deploy"
    /\ job.sure => job.mac \in {NoMac, job.aim}
    /\ job.sure /\ job.phase = "mac" => list[job.item].mac \in {NoMac, job.aim}
    /\ cancel => job.stop = uses

\* What a job has written, after its write and after the board's answer.
WrittenInv ==
  /\ job.step = "boot" =>
       /\ job.phase = "main" /\ job.aim \in Boards
       /\ \/ job.name = "flash" /\ fw[job.aim] = "deploy"
          \/ job.name = "inject" /\ nvs[job.aim] = Binary(job.cfg)
  /\ job.step = "record" =>
       /\ job.name = "inject" /\ job.aim \in Boards
       /\ nvs[job.aim] = job.cfg /\ job.cfg \in Configs
       /\ fw[job.aim] \in {"deploy", "dev"} /\ job.aim \notin Faulty

JobInv == job \in Workers /\ KnownInv /\ WrittenInv

\* The board check's own state; the two tools are not used at the same time.
CheckInv ==
  /\ busy => step = "idle"
  /\ cands \in Seq([slot : Slots, dev : Ttys])
  /\ \A i, j \in DOMAIN cands : i # j => /\ cands[i].slot # cands[j].slot
                                         /\ cands[i].dev # cands[j].dev
  /\ step \in {"idle", "flash", "reset", "capture", "summary", "traceback"}
  /\ port \in Ttys \cup {NoTty}
  /\ rows \in Seq([slot : Slots, board : Boards \cup {NoBoard}, held : Boards \cup {NoBoard},
                   result : {"PASS", "WARN", "FAIL", "none"}, rc : 0..3])
  /\ exit \in {Running} \cup 0..3 /\ (step \in {"summary", "traceback"}) = (exit # Running)

\* The board under test is found at the port, those to come at the ttys they had, unless
\* the cable was pulled.
TurnInv ==
  step \in {"flash", "reset", "capture"} =>
    /\ at \in DOMAIN cands /\ Len(rows) = at - 1
    /\ socket[cands[at].slot] # NoBoard => tty[cands[at].slot] = port
    /\ \A k \in DOMAIN cands : k > at /\ socket[cands[k].slot] # NoBoard =>
         tty[cands[k].slot] = cands[k].dev /\ port # cands[k].dev

\* The lines of the table, and the exit status.
TableInv ==
  /\ Len(rows) <= Len(cands)
  /\ \A i \in DOMAIN rows :
       /\ rows[i].slot = cands[i].slot
       /\ rows[i].board \in {NoBoard, rows[i].held} \/ rows[i].held = NoBoard
       /\ rows[i].result \in {"PASS", "WARN"} => rows[i].board \notin Faulty \cup {NoBoard}
       /\ rows[i].rc = ExitCode(rows[i].result)
  /\ step = "idle" => rows = <<>> /\ cands = <<>>
  /\ step = "summary" /\ rows # <<>> =>
       /\ Len(rows) = Len(cands)
       /\ exit = 0 <=> \A i \in DOMAIN rows : rows[i].result = "PASS"

\* What a message says is so, of boards with this firmware and these settings.
Says(m, image, stored) ==
  m.kind = "info" /\ m.board # NoBoard =>
    /\ m.name \in {"flash", "inject", "factory"}
    /\ m.name = "flash"   => image[m.board] = "deploy"
    /\ m.name = "inject"  => /\ stored[m.board] = m.cfg /\ m.cfg \in Configs
                             /\ image[m.board] \in {"deploy", "dev"} /\ m.board \notin Faulty
    /\ m.name = "factory" => stored[m.board] = Blank

SaidInv == \A i \in DOMAIN queue : Says(queue[i], fw, nvs)

\* What holds while the setup tool works, and while the board check does.
ToolInv  == WindowInv /\ QueueInv /\ JobInv /\ SaidInv
TestInv  == CheckInv /\ TurnInv /\ TableInv
BenchInv == BenchTypeOK /\ ToolInv /\ TestInv

-----------------------------------------------------------------------------
(* The bench *)

\* The tty number handed out is one that no socket has.
LEMMA FreeTty ==
  ASSUME tty \in [Slots -> Ttys \cup {NoTty}]
  PROVE  LowestFree(TakenTtys) \in Ttys \ TakenTtys
<1> DEFINE spare == Ttys \ TakenTtys
<1>1. MaxTty \in Nat /\ IsFiniteSet(Slots) /\ MaxTty >= Cardinality(Slots)
  BY BenchAssumption
<1>2. spare # {}
  <2> SUFFICES ASSUME spare = {} PROVE FALSE
    OBVIOUS
  <2> DEFINE f == [q \in Ttys |-> CHOOSE s \in Slots : tty[s] = q]
  <2>1. \A q \in Ttys : \E s \in Slots : tty[s] = q
    BY DEF TakenTtys
  <2>2. f \in [Ttys -> Slots] /\ \A q \in Ttys : tty[f[q]] = q
    BY <2>1
  <2>3. IsFiniteSet(Ttys) /\ Cardinality(Ttys) = MaxTty + 1
    BY <1>1, FS_Interval DEF Ttys
  <2>4. Cardinality(Slots) \in Nat
    BY <1>1, FS_CardinalityType
  <2>5. Cardinality(Slots) < Cardinality(Ttys)
    BY <1>1, <2>3, <2>4
  <2> HIDE DEF f
  <2>6. \E x, y \in Ttys : x # y /\ f[x] = f[y]
    BY <1>1, <2>2, <2>3, <2>5, FS_PigeonHole
  <2> QED BY <2>2, <2>6
<1>3. spare \in SUBSET Nat
  BY <1>1 DEF Ttys
<1> HIDE DEF spare
<1>4. \E x \in spare : \A y \in spare : ~(<<y, x>> \in OpToRel(<, Nat))
  BY <1>2, <1>3, NatLessThanWellFounded, WFMin
<1>5. PICK x \in spare : \A y \in spare : ~(<<y, x>> \in OpToRel(<, Nat))
  BY <1>4
<1>6. \A y \in spare : ~(y < x)
  <2>1. \A y \in spare : <<y, x>> \in Nat \X Nat /\ <<y, x>>[1] = y /\ <<y, x>>[2] = x
    BY <1>3
  <2> QED BY <1>5, <2>1, Zenon DEF OpToRel
<1>7. \E z \in spare : \A y \in spare : z <= y
  <2>1. \A y \in spare : x <= y
    BY <1>3, <1>6
  <2> QED BY <2>1
<1>8. Min(spare) \in spare
  BY <1>7, Zenon DEF Min
<1> QED BY <1>8 DEF LowestFree, spare

\* A tty is one socket's, or nobody's.
LEMMA AtFacts ==
  ASSUME BenchTypeOK, NEW p
  PROVE  /\ SlotsAt(p) \subseteq Slots
         /\ \A s, r \in SlotsAt(p) : s = r
         /\ \A s \in SlotsAt(p) : tty[s] = p /\ p # NoTty /\ socket[s] = BoardAt(p)
         /\ SlotsAt(p) = {} => BoardAt(p) = NoBoard
         /\ SlotsAt(p) # {} => BoardAt(p) \in Boards
<1>1. /\ SlotsAt(p) \subseteq Slots /\ \A s \in SlotsAt(p) : tty[s] = p /\ p # NoTty
      /\ \A s \in Slots : tty[s] = p /\ p # NoTty => s \in SlotsAt(p)
  BY DEF SlotsAt
<1>2. /\ \A s, r \in Slots : s # r /\ tty[s] # NoTty => tty[s] # tty[r]
      /\ \A s \in Slots : socket[s] \in Boards \cup {NoBoard}
      /\ \A s \in Slots : tty[s] = NoTty <=> socket[s] = NoBoard
  BY DEF BenchTypeOK
<1>3. \A s, r \in SlotsAt(p) : s = r
  BY <1>1, <1>2
<1>4. \A s \in SlotsAt(p) : socket[s] \in Boards
  BY <1>1, <1>2
<1>5. \A s \in SlotsAt(p) : socket[s] = BoardAt(p)
  BY <1>3 DEF BoardAt
<1>6. SlotsAt(p) = {} => BoardAt(p) = NoBoard
  BY DEF BoardAt
<1> QED BY <1>1, <1>3, <1>4, <1>5, <1>6

\* A stall leaves the bench well formed.
LEMMA StallKeeps ==
  ASSUME BenchTypeOK, UNCHANGED <<socket, tty>>, NEW p, NEW r, StallFrom(p, r),
         r = "stall" => MayStall(p)
  PROVE  /\ stalled' \subseteq {s \in Slots : socket'[s] # NoBoard}
         /\ faults' \in 0..MaxFaults
<1>1. SlotsAt(p) \subseteq {s \in Slots : socket[s] # NoBoard}
  <2>1. \A s \in SlotsAt(p) : s \in Slots /\ tty[s] # NoTty
    BY AtFacts
  <2> QED BY <2>1 DEF BenchTypeOK
<1>2. stalled' \subseteq {s \in Slots : socket'[s] # NoBoard}
  BY <1>1 DEF StallFrom, BenchTypeOK
<1>3. faults' \in 0..MaxFaults
  <2>1. MaxFaults \in Nat
    BY BenchAssumption
  <2> QED BY <2>1 DEF StallFrom, BenchTypeOK, MayStall
<1> QED BY <1>2, <1>3

\* Writing firmware touches the board at the port alone; a write that esptool confirms is
\* complete.
LEMMA WriteFwFacts ==
  ASSUME BenchTypeOK, NEW p, NEW r, NEW image \in {"deploy", "dev", "check", "broken"},
         WriteFw(p, image, r)
  PROVE  /\ BenchTypeOK' /\ UNCHANGED <<socket, tty, nvs>>
         /\ \A b \in Boards : b # BoardAt(p) => fw'[b] = fw[b]
         /\ r = "ok" => BoardAt(p) \in Boards /\ fw'[BoardAt(p)] = image
<1>1. UNCHANGED <<socket, tty, nvs>> /\ r \in Esptool(p) \cup {"cancel"} /\ StallFrom(p, r)
  BY DEF WriteFw
<1>2. r = "stall" => MayStall(p)
  BY <1>1 DEF Esptool, MayStall
<1>3. r = "ok" => BoardAt(p) # NoBoard
  <2>1. r = "ok" => SlotsAt(p) # {}
    BY <1>1 DEF Esptool
  <2> QED BY <2>1, AtFacts, BenchAssumption
<1>4. BoardAt(p) \in Boards \cup {NoBoard} /\ fw \in [Boards -> {"deploy", "dev", "check", "broken"}]
  BY AtFacts DEF BenchTypeOK
<1>5. /\ fw' \in [Boards -> {"deploy", "dev", "check", "broken"}]
      /\ \A b \in Boards : b # BoardAt(p) => fw'[b] = fw[b]
      /\ r = "ok" => BoardAt(p) \in Boards /\ fw'[BoardAt(p)] = image
  <2>1. CASE BoardAt(p) = NoBoard
    BY <1>3, <1>4, <2>1 DEF WriteFw
  <2>2. CASE BoardAt(p) # NoBoard
    <3>1. PICK x \in Written(fw[BoardAt(p)], image, "broken", r) :
                 fw' = [fw EXCEPT ![BoardAt(p)] = x]
      BY <2>2 DEF WriteFw
    <3>2. x \in {"deploy", "dev", "check", "broken"} /\ (r = "ok" => x = image)
      <4>1. CASE r = "ok"
        BY <3>1, <4>1 DEF Written
      <4>2. CASE r = "unverified"
        BY <3>1, <4>2 DEF Written
      <4>3. CASE r \notin {"ok", "unverified"}
        <5>1. fw[BoardAt(p)] \in {"deploy", "dev", "check", "broken"}
          BY <1>4, <2>2
        <5> QED BY <3>1, <4>3, <5>1 DEF Written
      <4> QED BY <4>1, <4>2, <4>3
    <3> QED BY <1>4, <2>2, <3>1, <3>2
  <2> QED BY <2>1, <2>2
<1>6. /\ stalled' \subseteq {s \in Slots : socket'[s] # NoBoard}
      /\ faults' \in 0..MaxFaults
  BY <1>1, <1>2, StallKeeps
<1> QED BY <1>1, <1>5, <1>6 DEF BenchTypeOK

\* The same for the settings.
LEMMA WriteNvsFacts ==
  ASSUME BenchTypeOK, NEW p, NEW r, NEW image \in Configs \cup {Blank}, WriteNvs(p, image, r)
  PROVE  /\ BenchTypeOK' /\ UNCHANGED <<socket, tty, fw>>
         /\ \A b \in Boards : b # BoardAt(p) => nvs'[b] = nvs[b]
         /\ r = "ok" => BoardAt(p) \in Boards /\ nvs'[BoardAt(p)] = image
<1>1. UNCHANGED <<socket, tty, fw>> /\ r \in Esptool(p) \cup {"cancel"} /\ StallFrom(p, r)
  BY DEF WriteNvs
<1>2. r = "stall" => MayStall(p)
  BY <1>1 DEF Esptool, MayStall
<1>3. r = "ok" => BoardAt(p) # NoBoard
  <2>1. r = "ok" => SlotsAt(p) # {}
    BY <1>1 DEF Esptool
  <2> QED BY <2>1, AtFacts, BenchAssumption
<1>4. BoardAt(p) \in Boards \cup {NoBoard} /\ nvs \in [Boards -> Configs \cup {Blank, Torn}]
  BY AtFacts DEF BenchTypeOK
<1>5. /\ nvs' \in [Boards -> Configs \cup {Blank, Torn}]
      /\ \A b \in Boards : b # BoardAt(p) => nvs'[b] = nvs[b]
      /\ r = "ok" => BoardAt(p) \in Boards /\ nvs'[BoardAt(p)] = image
  <2>1. CASE BoardAt(p) = NoBoard
    BY <1>3, <1>4, <2>1 DEF WriteNvs
  <2>2. CASE BoardAt(p) # NoBoard
    <3>1. PICK x \in Written(nvs[BoardAt(p)], image, Torn, r) :
                 nvs' = [nvs EXCEPT ![BoardAt(p)] = x]
      BY <2>2 DEF WriteNvs
    <3>2. x \in Configs \cup {Blank, Torn} /\ (r = "ok" => x = image)
      <4>1. CASE r = "ok"
        BY <3>1, <4>1 DEF Written
      <4>2. CASE r = "unverified"
        BY <3>1, <4>2 DEF Written
      <4>3. CASE r \notin {"ok", "unverified"}
        <5>1. nvs[BoardAt(p)] \in Configs \cup {Blank, Torn}
          BY <1>4, <2>2
        <5> QED BY <3>1, <4>3, <5>1 DEF Written
      <4> QED BY <4>1, <4>2, <4>3
    <3> QED BY <1>4, <2>2, <3>1, <3>2
  <2> QED BY <2>1, <2>2
<1>6. /\ stalled' \subseteq {s \in Slots : socket'[s] # NoBoard}
      /\ faults' \in 0..MaxFaults
  BY <1>1, <1>2, StallKeeps
<1> QED BY <1>1, <1>5, <1>6 DEF BenchTypeOK

\* Reading may find a new stall, and changes nothing else.
LEMMA ReadFacts ==
  ASSUME BenchTypeOK, NEW p, NEW r, ReadBoard(p, r)
  PROVE  /\ BenchTypeOK' /\ UNCHANGED <<socket, tty, fw, nvs>>
         /\ r = "ok" => SlotsAt(p) # {}
<1>1. /\ UNCHANGED <<socket, tty, fw, nvs>> /\ r \in Esptool(p) \ {"unverified"}
      /\ StallFrom(p, r)
  BY DEF ReadBoard
<1>2. (r = "stall" => MayStall(p)) /\ (r = "ok" => SlotsAt(p) # {})
  BY <1>1 DEF Esptool, MayStall
<1>3. /\ stalled' \subseteq {s \in Slots : socket'[s] # NoBoard}
      /\ faults' \in 0..MaxFaults
  BY <1>1, <1>2, StallKeeps
<1> QED BY <1>1, <1>2, <1>3 DEF BenchTypeOK

\* After a reset the same board is there, and nobody else had its new tty.
LEMMA RecoverFacts ==
  ASSUME BenchTypeOK, NEW p, NEW q, Recover(p, q)
  PROVE  /\ BenchTypeOK' /\ UNCHANGED <<socket, fw, nvs>> /\ q \in Ttys
         /\ \E s \in SlotsAt(p) : /\ s \in Slots /\ tty' = [tty EXCEPT ![s] = q] /\ tty[s] = p
                                  /\ \A r \in Slots \ {s} : tty[r] # q
<1>1. PICK s \in SlotsAt(p), n \in {p, LowestFree(TakenTtys)} :
        /\ tty' = [tty EXCEPT ![s] = n] /\ stalled' = stalled \ {s} /\ q \in ByPath(s, n)
        /\ UNCHANGED <<socket, fw, nvs, faults>>
  BY DEF Recover
<1>2. q = n
  BY <1>1 DEF ByPath
<1>3. /\ tty \in [Slots -> Ttys \cup {NoTty}]
      /\ \A k, r \in Slots : k # r /\ tty[k] # NoTty => tty[k] # tty[r]
      /\ \A k \in Slots : tty[k] = NoTty <=> socket[k] = NoBoard
  BY DEF BenchTypeOK
<1>4. s \in Slots /\ tty[s] = p /\ p # NoTty
  BY AtFacts
<1>5. NoTty \notin Ttys
  BY DEF NoTty, Ttys
<1>6. q \in Ttys /\ \A r \in Slots \ {s} : tty[r] # q
  <2>1. CASE n = p
    BY <1>2, <1>3, <1>4, <2>1
  <2>2. CASE n = LowestFree(TakenTtys)
    BY <1>2, <1>3, <2>2, FreeTty DEF TakenTtys
  <2> QED BY <2>1, <2>2
<1>7. tty' \in [Slots -> Ttys \cup {NoTty}] /\ tty'[s] = q /\ \A r \in Slots \ {s} : tty'[r] = tty[r]
  BY <1>1, <1>2, <1>3, <1>4, <1>6
<1>8. /\ \A k, r \in Slots : k # r /\ tty'[k] # NoTty => tty'[k] # tty'[r]
      /\ \A k \in Slots : tty'[k] = NoTty <=> socket'[k] = NoBoard
  BY <1>1, <1>3, <1>4, <1>5, <1>6, <1>7
<1>9. BenchTypeOK'
  BY <1>1, <1>7, <1>8 DEF BenchTypeOK
<1> QED BY <1>1, <1>2, <1>4, <1>6, <1>9

\* A cable is pulled, or plugged in.
LEMMA HandsFacts ==
  ASSUME BenchTypeOK, NEW s \in Slots
  PROVE  /\ Unplug(s) => /\ BenchTypeOK' /\ UNCHANGED <<fw, nvs>>
                         /\ socket' = [socket EXCEPT ![s] = NoBoard]
                         /\ tty' = [tty EXCEPT ![s] = NoTty]
         /\ \A b \in Boards : Plug(b, s) => BenchTypeOK' /\ UNCHANGED <<fw, nvs>>
<1>1. /\ tty \in [Slots -> Ttys \cup {NoTty}] /\ socket \in [Slots -> Boards \cup {NoBoard}]
      /\ \A k, r \in Slots : k # r /\ tty[k] # NoTty => tty[k] # tty[r]
      /\ \A k \in Slots : tty[k] = NoTty <=> socket[k] = NoBoard
      /\ stalled \subseteq {k \in Slots : socket[k] # NoBoard}
  BY DEF BenchTypeOK
<1>2. ASSUME Unplug(s)
      PROVE  /\ BenchTypeOK' /\ UNCHANGED <<fw, nvs>>
             /\ socket' = [socket EXCEPT ![s] = NoBoard] /\ tty' = [tty EXCEPT ![s] = NoTty]
  <2>1. /\ socket' = [socket EXCEPT ![s] = NoBoard] /\ tty' = [tty EXCEPT ![s] = NoTty]
        /\ stalled' = stalled \ {s} /\ faults' \in 0..MaxFaults /\ UNCHANGED <<fw, nvs>>
    BY <1>2, BenchAssumption DEF Unplug
  <2>2. /\ tty' \in [Slots -> Ttys \cup {NoTty}] /\ socket' \in [Slots -> Boards \cup {NoBoard}]
        /\ tty'[s] = NoTty /\ socket'[s] = NoBoard
        /\ \A r \in Slots \ {s} : tty'[r] = tty[r] /\ socket'[r] = socket[r]
    BY <1>1, <2>1
  <2>3. /\ \A k, r \in Slots : k # r /\ tty'[k] # NoTty => tty'[k] # tty'[r]
        /\ \A k \in Slots : tty'[k] = NoTty <=> socket'[k] = NoBoard
        /\ stalled' \subseteq {k \in Slots : socket'[k] # NoBoard}
    BY <1>1, <2>1, <2>2
  <2> QED BY <2>1, <2>2, <2>3 DEF BenchTypeOK
<1>3. ASSUME NEW b \in Boards, Plug(b, s)
      PROVE  BenchTypeOK' /\ UNCHANGED <<fw, nvs>>
  <2> DEFINE n == LowestFree(TakenTtys)
  <2>1. /\ socket' = [socket EXCEPT ![s] = b] /\ tty' = [tty EXCEPT ![s] = n]
        /\ UNCHANGED <<stalled, faults, fw, nvs>> /\ socket[s] = NoBoard
    BY <1>3 DEF Plug
  <2>2. n \in Ttys /\ (\A r \in Slots : tty[r] # n) /\ n # NoTty /\ b # NoBoard
    <3>1. n \in Ttys \ TakenTtys
      BY <1>1, FreeTty
    <3>2. NoTty \notin Ttys /\ b # NoBoard
      BY BenchAssumption DEF NoTty, Ttys
    <3> QED BY <3>1, <3>2 DEF TakenTtys
  <2> HIDE DEF n
  <2>3. /\ tty' \in [Slots -> Ttys \cup {NoTty}] /\ socket' \in [Slots -> Boards \cup {NoBoard}]
        /\ tty'[s] = n /\ socket'[s] = b
        /\ \A r \in Slots \ {s} : tty'[r] = tty[r] /\ socket'[r] = socket[r]
    BY <1>1, <2>1, <2>2
  <2>4. /\ \A k, r \in Slots : k # r /\ tty'[k] # NoTty => tty'[k] # tty'[r]
        /\ \A k \in Slots : tty'[k] = NoTty <=> socket'[k] = NoBoard
        /\ stalled' \subseteq {k \in Slots : socket'[k] # NoBoard}
    BY <1>1, <2>1, <2>2, <2>3
  <2> QED BY <2>1, <2>3, <2>4 DEF BenchTypeOK
<1> QED BY <1>2, <1>3
-----------------------------------------------------------------------------
(* The list *)

\* list_ports has every occupied socket once, with its tty.
LEMMA ListPortsFacts ==
  ASSUME BenchTypeOK
  PROVE  /\ ListPorts \in Seq([slot : Slots, dev : Ttys])
         /\ \A i \in DOMAIN ListPorts : tty[ListPorts[i].slot] = ListPorts[i].dev
         /\ \A i, j \in DOMAIN ListPorts :
              i # j => /\ ListPorts[i].slot # ListPorts[j].slot
                       /\ ListPorts[i].dev # ListPorts[j].dev
<1> DEFINE S       == {s \in Slots : tty[s] # NoTty}
           Upto(n) == {m \in S : m <= n}
           rank(n) == Cardinality(Upto(n))
           N       == Cardinality(S)
           nth(i)  == CHOOSE n \in S : rank(n) = i
<1>1. S \in SUBSET Slots /\ S \in SUBSET Nat /\ IsFiniteSet(S) /\ N \in Nat
  <2>1. Slots \subseteq Nat /\ IsFiniteSet(Slots)
    BY BenchAssumption
  <2> QED BY <2>1, FS_Subset, FS_CardinalityType
<1>2. \A s, r \in S : s # r => tty[s] # tty[r]
  BY DEF BenchTypeOK
<1>3. \A s \in S : tty[s] \in Ttys
  BY DEF BenchTypeOK
<1>4. ListPorts = [i \in 1..N |-> [slot |-> nth(i), dev |-> tty[nth(i)]]]
  BY DEF ListPorts
<1> HIDE DEF S
<1>5. ASSUME NEW n \in S
      PROVE  IsFiniteSet(Upto(n)) /\ rank(n) \in 1..N
  <2>1. Upto(n) \in SUBSET S /\ n \in Upto(n)
    BY <1>1
  <2> HIDE DEF Upto
  <2>2. IsFiniteSet(Upto(n)) /\ rank(n) <= N
    BY <1>1, <2>1, FS_Subset
  <2>3. rank(n) \in Nat /\ rank(n) # 0
    BY <2>1, <2>2, FS_EmptySet, FS_CardinalityType
  <2> QED BY <1>1, <2>2, <2>3
<1>6. ASSUME NEW n \in S, NEW k \in S, n < k
      PROVE  rank(n) # rank(k)
  <2>1. Upto(n) \in SUBSET Upto(k) /\ k \in Upto(k) /\ k \notin Upto(n)
    <3>1. n \in Nat /\ k \in Nat /\ ~(k <= n) /\ k <= k
      BY <1>1, <1>6
    <3>2. \A m \in S : m <= n => m <= k
      BY <1>1, <1>6, <3>1
    <3>3. \A m \in Upto(n) : m \in Upto(k)
      BY <3>2
    <3> QED BY <3>1, <3>3
  <2>2. IsFiniteSet(Upto(k))
    BY <1>5
  <2> HIDE DEF Upto
  <2> QED BY <2>1, <2>2, FS_Subset
<1>7. ASSUME NEW n \in S, NEW k \in S, rank(n) = rank(k)
      PROVE  n = k
  <2>1. n \in Nat /\ k \in Nat
    BY <1>1
  <2> QED BY <1>6, <1>7, <2>1
<1>8. ASSUME NEW i \in 1..N
      PROVE  \E n \in S : rank(n) = i
  <2> SUFFICES ASSUME ~\E n \in S : rank(n) = i PROVE FALSE
    OBVIOUS
  <2> DEFINE T == (1..N) \ {i}
             f == [n \in S |-> rank(n)]
  <2>1. IsFiniteSet(1..N) /\ Cardinality(1..N) = N
    BY <1>1, FS_Interval
  <2>2. IsFiniteSet(T) /\ Cardinality(T) = N - 1
    BY ONLY <2>1, i \in 1..N, FS_RemoveElement
  <2>3. f \in [S -> T]
    BY <1>5
  <2>4. Cardinality(T) < Cardinality(S)
    BY <1>1, <2>2
  <2> HIDE DEF T, f, rank
  <2>5. \E x, y \in S : x # y /\ f[x] = f[y]
    BY <1>1, <2>2, <2>3, <2>4, FS_PigeonHole
  <2> QED BY <1>7, <2>5 DEF f
<1>9. \A i \in 1..N : nth(i) \in S /\ rank(nth(i)) = i
  BY <1>8
<1> HIDE DEF rank, nth, N
<1>10. DOMAIN ListPorts = 1..N
       /\ \A i \in 1..N : /\ ListPorts[i] \in [slot : Slots, dev : Ttys]
                          /\ ListPorts[i].slot = nth(i) /\ ListPorts[i].dev = tty[nth(i)]
  BY <1>1, <1>3, <1>4, <1>9
<1>11. \A i, j \in 1..N : i # j => nth(i) # nth(j) /\ tty[nth(i)] # tty[nth(j)]
  BY <1>2, <1>9
<1>12. ListPorts \in [1..N -> [slot : Slots, dev : Ttys]]
  BY <1>4, <1>10
<1>13. ListPorts \in Seq([slot : Slots, dev : Ttys])
  <2> DEFINE P == [slot : Slots, dev : Ttys]
  <2>1. ListPorts \in [1..N -> P]
    BY <1>12
  <2> HIDE DEF P
  <2>2. ListPorts \in Seq(P)
    BY <1>1, <2>1
  <2> QED BY <2>2 DEF P
<1>14. \A i \in DOMAIN ListPorts : tty[ListPorts[i].slot] = ListPorts[i].dev
  BY <1>10
<1>15. \A i, j \in DOMAIN ListPorts :
         i # j => ListPorts[i].slot # ListPorts[j].slot /\ ListPorts[i].dev # ListPorts[j].dev
  BY <1>10, <1>11
<1> QED BY <1>13, <1>14, <1>15, Zenon

\* The list is one of boards that are there, whatever is inherited.
LEMMA ListedFacts ==
  ASSUME BenchTypeOK, NEW old \in Seq(Entries)
  PROVE  LET new == Listed(ListPorts, old)
         IN new \in Seq(Entries) /\ DOMAIN new = 1..Len(new) /\ Len(new) \in Nat
<1> DEFINE ports == ListPorts
           new   == Listed(ports, old)
           P     == [slot : Slots, dev : Ttys]
<1> HIDE DEF ports, new
<1>1. ports \in Seq(P)
  BY ListPortsFacts, Zenon DEF ports
<1> HIDE DEF P
<1>2. /\ DOMAIN ports = 1..Len(ports) /\ Len(ports) \in Nat
      /\ \A i \in 1..Len(ports) : ports[i] \in P
  BY <1>1
<1>3. \A s : (\E k \in DOMAIN old : old[k].slot = s) =>
        (CHOOSE e \in Range(old) : e.slot = s).mac \in Boards \cup {NoMac}
  <2> SUFFICES ASSUME NEW s, NEW k \in DOMAIN old, old[k].slot = s
               PROVE  (CHOOSE e \in Range(old) : e.slot = s).mac \in Boards \cup {NoMac}
    OBVIOUS
  <2>1. \A e \in Range(old) : e \in Entries
    BY DEF Range
  <2>2. old[k] \in Range(old)
    BY DEF Range
  <2>3. (CHOOSE e \in Range(old) : e.slot = s) \in Range(old)
    BY <2>2
  <2>4. (CHOOSE e \in Range(old) : e.slot = s) \in Entries
    BY <2>1, <2>3
  <2> QED BY <2>4 DEF Entries
<1>4. \A i \in 1..Len(ports) :
        [slot |-> ports[i].slot, dev |-> ports[i].dev,
         mac |-> IF \E k \in DOMAIN old : old[k].slot = ports[i].slot
                 THEN (CHOOSE e \in Range(old) : e.slot = ports[i].slot).mac ELSE NoMac]
          \in Entries
  BY <1>2, <1>3 DEF Entries, P
<1>5. new \in [1..Len(ports) -> Entries]
  BY <1>2, <1>4, Zenon DEF Listed, new
<1>6. new \in Seq(Entries)
  BY <1>2, <1>5
<1>7. DOMAIN new = 1..Len(new) /\ Len(new) \in Nat
  BY <1>6
<1> QED BY <1>6, <1>7 DEF new, ports

\* The selected row is one of the list's.
LEMMA SelectedFacts ==
  ASSUME NEW new \in Seq(Entries), NEW s
  PROVE  /\ Selected(new, s) \in 0..Len(new)
         /\ Selected(new, s) = 0 <=> new = <<>>
<1>1. DOMAIN new = 1..Len(new) /\ Len(new) \in Nat /\ (new # <<>> => Len(new) >= 1)
  OBVIOUS
<1>2. CASE new = <<>>
  BY <1>1, <1>2 DEF Selected
<1>3. CASE new # <<>> /\ \E i \in DOMAIN new : new[i].slot = s
  <2>1. (CHOOSE i \in DOMAIN new : new[i].slot = s) \in DOMAIN new
    BY <1>3
  <2>2. Selected(new, s) = CHOOSE i \in DOMAIN new : new[i].slot = s
    BY <1>3 DEF Selected
  <2> QED BY <1>1, <1>3, <2>1, <2>2
<1>4. CASE new # <<>> /\ ~\E i \in DOMAIN new : new[i].slot = s
  BY <1>1, <1>4 DEF Selected
<1> QED BY <1>2, <1>3, <1>4-----------------------------------------------------------------------------
(* The worker *)

\* The number of a port survives the 16 bits of NVS if it fits in them.
LEMMA BinaryFacts ==
  ASSUME NEW cfg \in Wanted
  PROVE  /\ Binary(cfg) \in Configs
         /\ cfg.transport = "usb" => Binary(cfg) = cfg
         /\ Binary(cfg).port = cfg.port => Binary(cfg) = cfg
         /\ Binary(cfg).transport = cfg.transport
<1>1. MaxPort \in Nat \ {0}
  BY BenchAssumption
<1>2. /\ cfg \in [transport : {"wifi", "usb"}, ssid : {"net", "unused", NoSsid}, port : 0..(MaxPort + 1)]
      /\ cfg.ssid \in {"net", "unused"} /\ (cfg.transport = "usb" => cfg.port <= MaxPort)
  BY DEF Wanted, Typed
<1>3. /\ Binary(cfg) = [transport |-> cfg.transport, ssid |-> cfg.ssid,
                        port |-> cfg.port % (MaxPort + 1)]
      /\ cfg = [transport |-> cfg.transport, ssid |-> cfg.ssid, port |-> cfg.port]
  <2> DEFINE n == cfg.port % (MaxPort + 1)
  <2>1. Binary(cfg) = [cfg EXCEPT !.port = n]
    BY DEF Binary
  <2> HIDE DEF n
  <2>2. [cfg EXCEPT !.port = n] = [transport |-> cfg.transport, ssid |-> cfg.ssid, port |-> n]
    BY <1>2
  <2>3. cfg = [transport |-> cfg.transport, ssid |-> cfg.ssid, port |-> cfg.port]
    BY <1>2
  <2> QED BY <2>1, <2>2, <2>3 DEF n
<1>4. cfg.port \in Nat /\ cfg.port % (MaxPort + 1) \in 0..MaxPort
  <2>1. cfg.port \in Nat
    BY <1>1, <1>2
  <2> QED BY <1>1, <2>1
<1>5. cfg.port <= MaxPort => cfg.port % (MaxPort + 1) = cfg.port
  BY <1>1, <1>4
<1>6. Binary(cfg) \in Configs
  BY <1>2, <1>3, <1>4 DEF Configs
<1>7. Binary(cfg).port = cfg.port => Binary(cfg) = cfg
  BY <1>3
<1> QED BY <1>2, <1>3, <1>5, <1>6, <1>7

\* Two messages, one after the other.
LEMMA TwoMessages ==
  ASSUME NEW m, NEW b
  PROVE  <<m>> \o <<b>> = <<m, b>>
<1> DEFINE S == {m, b}
           p == <<m>>
           q == <<b>>
           r == p \o q
           t == <<m, b>>
<1>1. /\ p \in Seq(S) /\ q \in Seq(S) /\ Len(p) = 1 /\ Len(q) = 1 /\ p[1] = m /\ q[1] = b
      /\ t \in Seq(S) /\ Len(t) = 2 /\ t[1] = m /\ t[2] = b
  OBVIOUS
<1> HIDE DEF p, q, S, r, t
<1>2. r \in Seq(S) /\ Len(r) = 2 /\ r[1] = m /\ r[2] = b
  BY <1>1, ConcatProperties DEF r
<1>3. \A i \in 1..2 : r[i] = t[i]
  <2>1. \A i \in 1..2 : i = 1 \/ i = 2
    OBVIOUS
  <2> QED BY <1>1, <1>2, <2>1
<1>4. r = t
  BY <1>1, <1>2, <1>3, SeqEqual
<1> QED BY <1>4 DEF p, q, r, t

\* The end of a job: the box if it succeeded, and the buttons.
LEMMA WorkerEnds ==
  ASSUME ToolInv, busy, job.step \notin {"idle", "ask"}, job' = Idle, UNCHANGED main,
         hist' = [b \in Boards |-> hist'[b]], list' \in Seq(Entries), Len(list') = Len(list),
         NEW b, b.kind = "busy", NEW m,
         \/ queue' = queue \o <<b>>
         \/ /\ queue' = queue \o (<<m>> \o <<b>>)
            /\ m.kind \in {"info", "prefill"} /\ Says(m, fw', nvs')
  PROVE  ToolInv'
<1>1. queue = <<>>
  BY DEF ToolInv, QueueInv
<1>2. WindowInv'
  BY DEF ToolInv, WindowInv, main
<1>3. \/ queue' = <<b>>
      \/ queue' = <<m, b>> /\ m.kind \in {"info", "prefill"} /\ Says(m, fw', nvs')
  BY <1>1, TwoMessages
<1>4. job'.step = "idle" /\ busy'
  BY DEF Idle, main
<1>5. QueueInv'
  <2>1. b \in Range(queue') /\ (queue' = <<m, b>> => m \in Range(queue'))
    BY <1>3 DEF Range
  <2> QED BY <1>3, <1>4, <2>1 DEF QueueInv
<1>6. SaidInv'
  <2>1. \A i \in DOMAIN queue' : Says(queue'[i], fw', nvs')
    <3>1. Says(b, fw', nvs')
      BY DEF Says
    <3>2. CASE queue' = <<b>>
      BY <3>1, <3>2
    <3>3. CASE queue' = <<m, b>> /\ Says(m, fw', nvs')
      BY <3>1, <3>3
    <3> QED BY <1>3, <3>2, <3>3
  <2> QED BY <2>1 DEF SaidInv, Says
<1>7. JobInv'
  <2>1. job' \in Workers
    BY DEF Workers, Idle, Jobs
  <2> QED BY <1>4, <2>1 DEF JobInv, KnownInv, WrittenInv
<1> QED BY <1>2, <1>5, <1>6, <1>7 DEF ToolInv

\* The job goes on, perhaps after a question.
LEMMA WorkerGoesOn ==
  ASSUME ToolInv, busy, job.step \notin {"idle", "ask"}, JobInv', UNCHANGED main,
         hist' = [b \in Boards |-> hist'[b]], list' \in Seq(Entries), Len(list') = Len(list),
         \/ queue' = queue /\ job'.step \notin {"idle", "ask"}
         \/ queue' = queue \o <<Message("ask")>> /\ job'.step = "ask"
  PROVE  ToolInv'
<1>1. queue = <<>>
  BY DEF ToolInv, QueueInv
<1>2. WindowInv'
  BY DEF ToolInv, WindowInv, main
<1>3. Message("ask").kind = "ask"
  BY DEF Message
<1>4. QueueInv' /\ SaidInv'
  <2>1. CASE queue' = <<>> /\ job'.step \notin {"idle", "ask"}
    BY <2>1 DEF QueueInv, SaidInv, Says, main
  <2>2. CASE queue' = queue \o <<Message("ask")>> /\ job'.step = "ask"
    <3> DEFINE m == Message("ask")
    <3> HIDE DEF m
    <3>1. queue' = <<m>> /\ m.kind = "ask"
      BY <1>1, <1>3, <2>2 DEF m
    <3>2. m \in Range(queue')
      BY <3>1 DEF Range
    <3>3. QueueInv'
      BY <2>2, <3>1, <3>2 DEF QueueInv, main
    <3>4. \A i \in DOMAIN queue' : queue'[i].kind # "info"
      BY <3>1
    <3> QED BY <3>3, <3>4 DEF SaidInv, Says
  <2> QED BY <1>1, <2>1, <2>2
<1> QED BY <1>2, <1>4 DEF ToolInv

\* The job goes on to step s with nothing else changed but firmware and settings, of
\* which it knows what it has written.
LEMMA NextStep ==
  ASSUME ToolInv, busy, job.step \notin {"idle", "ask"}, UNCHANGED <<main, hist, list, socket, tty>>,
         NEW s \in {"preflight", "esptool", "ask", "reset", "refused", "boot", "record"},
         job' = [job EXCEPT !.step = s], s \in {"boot", "record"} => WrittenInv',
         job.name = "flash" /\ s = "esptool" => job.image = "deploy",
         queue' = IF s = "ask" THEN queue \o <<Message("ask")>> ELSE queue
  PROVE  ToolInv'
<1>1. job \in Workers /\ hist = [b \in Boards |-> hist[b]] /\ list \in Seq(Entries)
  BY DEF ToolInv, JobInv, WindowInv
<1>2. /\ job' \in Workers /\ job'.step = s
      /\ UNCHANGED <<job.name, job.phase, job.port, job.item, job.todo, job.image, job.cfg,
                     job.mac, job.tries, job.aim, job.sure, job.stop>>
  BY <1>1 DEF Workers
<1>3. Aimed(job) => Aimed(job)'
  BY <1>2 DEF Aimed, SlotsAt
<1>4. KnownInv
  BY DEF ToolInv, JobInv
<1>5. KnownInv'
  BY <1>2, <1>3, <1>4 DEF KnownInv, main
<1>6. WrittenInv'
  <2>1. s \notin {"boot", "record"} => WrittenInv'
    BY <1>2 DEF WrittenInv
  <2> QED BY <2>1
<1>7. JobInv'
  BY <1>2, <1>5, <1>6 DEF JobInv
<1>8. hist' = [b \in Boards |-> hist'[b]] /\ list' \in Seq(Entries) /\ Len(list') = Len(list)
  BY <1>1
<1> QED BY <1>2, <1>7, <1>8, WorkerGoesOn
\* The list with a new MAC address in the row that is being read.
LEMMA RowRead ==
  ASSUME ToolInv, job.step # "idle", job.phase = "mac", NEW mac \in Boards \cup {NoMac},
         list' = [list EXCEPT ![job.item].mac = mac]
  PROVE  /\ job.item \in DOMAIN list /\ DOMAIN list' = DOMAIN list /\ list' \in Seq(Entries)
         /\ Len(list') = Len(list) /\ Len(list) \in Nat /\ DOMAIN list = 1..Len(list)
         /\ \A i \in DOMAIN list : list'[i].dev = list[i].dev /\ list'[i].dev \in Ttys
         /\ list'[job.item].mac = mac
<1>1. job.item \in DOMAIN list /\ list \in Seq(Entries)
  BY DEF ToolInv, JobInv, KnownInv, WindowInv
<1>2. \A i \in DOMAIN list : list[i] \in Entries
  BY <1>1
<1> DEFINE e == [list[job.item] EXCEPT !.mac = mac]
<1>3. list' = [list EXCEPT ![job.item] = e]
  OBVIOUS
<1>4. e \in Entries /\ e.dev = list[job.item].dev /\ e.mac = mac
  BY <1>1, <1>2 DEF Entries
<1> HIDE DEF e
<1>5. \A i \in DOMAIN list : list[i].dev \in Ttys
  BY <1>2 DEF Entries
<1> QED BY <1>1, <1>3, <1>4, <1>5

\* One MAC address has been read, or not: on to the next board, or to the injection.
LEMMA AfterMacKeeps ==
  ASSUME ToolInv, busy, job.step \notin {"idle", "ask"}, UNCHANGED <<main, hist, socket, tty>>,
         job.phase = "mac", NEW mac \in Boards \cup {NoMac}, job.sure => mac \in {NoMac, job.aim},
         list' = [list EXCEPT ![job.item].mac = mac], AfterMac(list')
  PROVE  ToolInv'
<1>1. /\ job \in Workers /\ hist' = [b \in Boards |-> hist'[b]] /\ KnownInv
  BY DEF ToolInv, JobInv, WindowInv
<1>2. /\ job.item \in DOMAIN list /\ DOMAIN list' = DOMAIN list /\ list' \in Seq(Entries)
      /\ Len(list') = Len(list) /\ Len(list) \in Nat /\ DOMAIN list = 1..Len(list)
      /\ \A i \in DOMAIN list : list'[i].dev = list[i].dev /\ list'[i].dev \in Ttys
      /\ list'[job.item].mac = mac
  BY RowRead
<1>3. job.name \in {"find", "inject"}
  BY <1>1 DEF KnownInv
<1>4. CASE job.name = "find" /\ job.item = job.todo
  <2>1. job' = Idle /\ queue' = queue \o (<<>> \o <<Message("busy")>>)
    BY <1>4 DEF AfterMac, Succeed, Post
  <2>2. Message("busy").kind = "busy"
    BY DEF Message
  <2> DEFINE m == Message("busy")
  <2> HIDE DEF m
  <2>3. queue' = queue \o <<m>> /\ m.kind = "busy"
    BY <2>1, <2>2 DEF m
  <2> QED BY <1>1, <1>2, <2>1, <2>3, WorkerEnds
<1>5. CASE job.name = "find" /\ job.item # job.todo
  <2> DEFINE n == job.item + 1
  <2>1. job' = [job EXCEPT !.item = n, !.step = "preflight", !.tries = 0, !.port = list'[n].dev]
        /\ queue' = queue
    BY <1>5 DEF AfterMac
  <2>2. job.todo = Len(list) /\ ~job.sure
    BY <1>1, <1>5 DEF KnownInv
  <2>3. n \in DOMAIN list /\ n \in Nat
    BY <1>2, <1>5, <2>2
  <2> HIDE DEF n
  <2>4. list'[n].dev \in Ttys
    BY <1>2, <2>3
  <2>5. /\ job' \in Workers /\ job'.step = "preflight" /\ job'.item = n
        /\ UNCHANGED <<job.name, job.phase, job.todo, job.sure, job.stop>>
    BY <1>1, <2>1, <2>3, <2>4 DEF Workers
  <2>6. JobInv'
    BY <1>1, <1>2, <1>5, <2>2, <2>3, <2>5 DEF JobInv, KnownInv, WrittenInv, main
  <2> QED BY <1>1, <1>2, <2>1, <2>5, <2>6, WorkerGoesOn
<1>6. CASE job.name = "inject"
  <2> DEFINE e == list'[job.item]
  <2>1. /\ job' = [job EXCEPT !.phase = "main", !.step = "preflight", !.tries = 0,
                              !.mac = e.mac, !.port = e.dev]
        /\ queue' = queue
    BY <1>6 DEF AfterMac
  <2>2. e.mac = mac /\ e.dev = job.port
    BY <1>1, <1>2, <1>6 DEF KnownInv
  <2> HIDE DEF e
  <2>3. /\ job' \in Workers /\ job'.step = "preflight" /\ job'.phase = "main" /\ job'.mac = mac
        /\ UNCHANGED <<job.name, job.port, job.cfg, job.aim, job.sure, job.stop>>
    BY <1>1, <2>1, <2>2 DEF Workers
  <2>4. Aimed(job)'
    BY <1>1, <1>6, <2>3 DEF KnownInv, Aimed, SlotsAt
  <2>5. JobInv'
    BY <1>1, <1>6, <2>3, <2>4 DEF JobInv, KnownInv, WrittenInv, main
  <2> QED BY <1>1, <1>2, <2>1, <2>3, <2>5, WorkerGoesOn
<1> QED BY <1>3, <1>4, <1>5, <1>6

\* A job fails.
LEMMA FailKeeps ==
  ASSUME ToolInv, busy, job.step \notin {"idle", "ask"}, UNCHANGED <<main, hist, list>>, Fail
  PROVE  ToolInv'
<1>1. hist = [b \in Boards |-> hist[b]] /\ list \in Seq(Entries)
  BY DEF ToolInv, WindowInv
<1> DEFINE m == Message("busy")
<1>2. job' = Idle /\ queue' = queue \o <<m>> /\ m.kind = "busy"
  BY DEF Fail, Post, Message
<1> HIDE DEF m
<1> QED BY <1>1, <1>2, WorkerEnds

\* An error ends the reading of one MAC address, and any other job.
LEMMA ErrorKeeps ==
  ASSUME ToolInv, busy, job.step \notin {"idle", "ask"}, UNCHANGED <<main, hist, socket, tty>>,
         OnError
  PROVE  ToolInv'
<1>1. CASE job.phase = "mac"
  <2> DEFINE mac == NoMac
  <2>1. mac \in Boards \cup {NoMac} /\ mac \in {NoMac, job.aim}
    OBVIOUS
  <2>2. list' = [list EXCEPT ![job.item].mac = mac] /\ AfterMac(list')
    BY <1>1 DEF OnError
  <2> HIDE DEF mac
  <2> QED BY <1>1, <2>1, <2>2, AfterMacKeeps
<1>2. CASE job.phase # "mac"
  <2>1. Fail /\ UNCHANGED list
    BY <1>2 DEF OnError
  <2> QED BY <2>1, FailKeeps
<1> QED BY <1>1, <1>2

\* A stall leads to a reset, a question, or the end.
LEMMA StallGoesOn ==
  ASSUME ToolInv, busy, job.step \notin {"idle", "ask"}, UNCHANGED <<main, hist, socket, tty>>,
         OnStall
  PROVE  ToolInv'
<1>1. CASE job.phase = "mac" /\ job.tries = 0
  <2>1. job' = [job EXCEPT !.step = "reset"] /\ UNCHANGED <<queue, list>>
    BY <1>1 DEF OnStall
  <2> QED BY <2>1, NextStep
<1>2. CASE job.phase = "mac" /\ job.tries = 1
  <2> DEFINE mac == NoMac
  <2>1. mac \in Boards \cup {NoMac} /\ mac \in {NoMac, job.aim}
    OBVIOUS
  <2>2. list' = [list EXCEPT ![job.item].mac = mac] /\ AfterMac(list')
    BY <1>2 DEF OnStall
  <2> HIDE DEF mac
  <2> QED BY <1>2, <2>1, <2>2, AfterMacKeeps
<1>3. CASE job.phase = "main" /\ job.name \in {"flash", "inject"} /\ job.tries = 0
  <2>1. /\ job' = [job EXCEPT !.step = "ask"] /\ UNCHANGED list
        /\ queue' = queue \o <<Message("ask")>>
    BY <1>3 DEF OnStall, Post
  <2> QED BY <2>1, NextStep
<1>4. CASE ~(\/ job.phase = "mac" /\ job.tries \in {0, 1}
             \/ job.phase = "main" /\ job.name \in {"flash", "inject"} /\ job.tries = 0)
  <2>1. Fail /\ UNCHANGED list
    BY <1>4 DEF OnStall
  <2> QED BY <2>1, FailKeeps
<1> QED BY <1>1, <1>2, <1>3, <1>4
\* A board at the job's port is the one the job is about.
LEMMA AimFacts ==
  ASSUME BenchTypeOK, KnownInv, job.step # "idle", job.name # "find",
         SlotsAt(job.port) # {} \/ BoardAt(job.port) # NoBoard
  PROVE  BoardAt(job.port) = job.aim /\ job.aim \in Boards
<1>1. SlotsAt(job.port) # {}
  BY AtFacts
<1>2. PICK s \in SlotsAt(job.port) : TRUE
  BY <1>1
<1>3. socket[s] = job.aim
  BY <1>2 DEF KnownInv, Aimed
<1> QED BY <1>1, <1>2, <1>3, AtFacts

\* A job with a step is a busy one.
LEMMA Working ==
  ASSUME ToolInv, job.step # "idle"
  PROVE  busy
BY DEF ToolInv, QueueInv, WindowInv

\* preflight
LEMMA PreflightKeeps ==
  ASSUME BenchTypeOK, ToolInv, NEW r, WorkerPreflight(r)
  PROVE  BenchTypeOK' /\ ToolInv'
<1>1. /\ job.step = "preflight" /\ busy /\ job.step \notin {"idle", "ask"}
      /\ UNCHANGED <<socket, tty, fw, nvs, main, hist>>
      /\ StallFrom(job.port, r) /\ r \in IF Usable(job) THEN Preflight(job.port) ELSE {"error"}
  BY Working DEF WorkerPreflight
<1>2. r = "stall" => MayStall(job.port)
  BY <1>1 DEF Preflight
<1>3. BenchTypeOK'
  <2>1. stalled' \subseteq {s \in Slots : socket'[s] # NoBoard} /\ faults' \in 0..MaxFaults
    BY <1>1, <1>2, StallKeeps
  <2> QED BY <1>1, <2>1 DEF BenchTypeOK
<1>4. CASE r = "ok"
  <2>1. job' = [job EXCEPT !.step = "esptool"] /\ UNCHANGED <<queue, list>>
    BY <1>4 DEF WorkerPreflight
  <2>2. job.name = "flash" => job.image = "deploy"
    BY <1>1, <1>4 DEF Usable
  <2> QED BY <1>1, <1>3, <2>1, <2>2, NextStep
<1>5. CASE r = "stall"
  <2>1. OnStall
    BY <1>5 DEF WorkerPreflight
  <2> QED BY <1>1, <1>3, <2>1, StallGoesOn
<1>6. CASE r = "error"
  <2>1. OnError
    BY <1>6 DEF WorkerPreflight
  <2> QED BY <1>1, <1>3, <2>1, ErrorKeeps
<1>7. r \in {"ok", "stall", "error"}
  BY <1>1 DEF Preflight
<1> QED BY <1>4, <1>5, <1>6, <1>7

\* The jobs that read MAC addresses, and the others.
LEMMA JobKinds ==
  ASSUME ToolInv, job.step # "idle"
  PROVE  \/ job.phase = "mac"
         \/ job.phase = "main" /\ job.name \in {"read", "flash", "inject", "factory"}
<1>1. job \in Workers /\ KnownInv
  BY DEF ToolInv, JobInv
<1>2. job.phase \in {"mac", "main"}
  BY <1>1 DEF Workers
<1>3. job.name \in Jobs /\ (job.name = "find" => job.phase = "mac")
  BY <1>1 DEF KnownInv
<1> QED BY <1>2, <1>3 DEF Jobs

\* What a run of esptool does to the bench, and to the board of the job.
LEMMA EsptoolFacts ==
  ASSUME BenchTypeOK, ToolInv, NEW r, WorkerEsptool(r)
  PROVE  /\ BenchTypeOK' /\ UNCHANGED <<socket, tty>> /\ busy
         /\ \A b \in Boards : b # job.aim => fw'[b] = fw[b] /\ nvs'[b] = nvs[b]
         /\ r = "ok" /\ job.phase = "mac" =>
              /\ BoardAt(job.port) \in Boards /\ (job.sure => BoardAt(job.port) = job.aim)
         /\ r = "ok" /\ job.phase = "main" /\ job.name \in {"flash", "inject", "factory"} =>
              /\ job.aim \in Boards
              /\ job.name = "flash" => fw'[job.aim] = "deploy"
              /\ job.name = "inject" => nvs'[job.aim] = Binary(job.cfg)
              /\ job.name = "factory" => nvs'[job.aim] = Blank
<1>1. job.step = "esptool" /\ job.step # "idle" /\ KnownInv /\ busy
  BY Working DEF WorkerEsptool, ToolInv, JobInv
<1>2. /\ \/ job.phase = "mac"
         \/ job.phase = "main" /\ job.name \in {"read", "flash", "inject", "factory"}
      /\ job.phase = "mac" => job.name \in {"find", "inject"}
      /\ job.name = "find" => ~job.sure /\ job.phase = "mac"
      /\ job.name = "flash" => job.image = "deploy"
      /\ job.name = "inject" => job.cfg \in Wanted
  BY <1>1, JobKinds DEF KnownInv
<1>3. CASE job.phase = "mac" \/ job.name = "read"
  <2>1. ReadBoard(job.port, r)
    BY <1>3 DEF WorkerEsptool
  <2>2. BenchTypeOK' /\ UNCHANGED <<socket, tty, fw, nvs>> /\ (r = "ok" => SlotsAt(job.port) # {})
    BY <2>1, ReadFacts
  <2>3. r = "ok" => BoardAt(job.port) \in Boards /\ (job.sure => BoardAt(job.port) = job.aim)
    BY <1>1, <1>2, <2>2, AtFacts, AimFacts
  <2> QED BY <1>1, <1>2, <1>3, <2>2, <2>3
<1>4. CASE job.phase = "main" /\ job.name = "flash"
  <2>1. WriteFw(job.port, "deploy", r)
    BY <1>2, <1>4 DEF WorkerEsptool
  <2>2. /\ BenchTypeOK' /\ UNCHANGED <<socket, tty, nvs>>
        /\ \A b \in Boards : b # BoardAt(job.port) => fw'[b] = fw[b]
        /\ r = "ok" => BoardAt(job.port) \in Boards /\ fw'[BoardAt(job.port)] = "deploy"
    BY <2>1, WriteFwFacts
  <2>3. BoardAt(job.port) # NoBoard => BoardAt(job.port) = job.aim /\ job.aim \in Boards
    BY <1>1, <1>4, AimFacts
  <2>4. NoBoard \notin Boards
    BY BenchAssumption
  <2>5. \A b \in Boards : b # job.aim => fw'[b] = fw[b] /\ nvs'[b] = nvs[b]
    BY <2>2, <2>3, <2>4
  <2> QED BY <1>1, <1>4, <2>2, <2>3, <2>4, <2>5
<1>5. CASE job.phase = "main" /\ job.name \in {"inject", "factory"}
  <2> DEFINE image == IF job.name = "inject" THEN Binary(job.cfg) ELSE Blank
  <2>1. WriteNvs(job.port, image, r)
    BY <1>5 DEF WorkerEsptool
  <2>2. image \in Configs \cup {Blank}
    BY <1>2, <1>5, BinaryFacts
  <2>3. /\ job.name = "inject" => image = Binary(job.cfg)
        /\ job.name = "factory" => image = Blank
    OBVIOUS
  <2> HIDE DEF image
  <2>4. /\ BenchTypeOK' /\ UNCHANGED <<socket, tty, fw>>
        /\ \A b \in Boards : b # BoardAt(job.port) => nvs'[b] = nvs[b]
        /\ r = "ok" => BoardAt(job.port) \in Boards /\ nvs'[BoardAt(job.port)] = image
    BY <2>1, <2>2, WriteNvsFacts
  <2>5. BoardAt(job.port) # NoBoard => BoardAt(job.port) = job.aim /\ job.aim \in Boards
    BY <1>1, <1>5, AimFacts
  <2>6. NoBoard \notin Boards
    BY BenchAssumption
  <2>7. \A b \in Boards : b # job.aim => fw'[b] = fw[b] /\ nvs'[b] = nvs[b]
    BY <2>4, <2>5, <2>6
  <2> QED BY <1>1, <1>5, <2>3, <2>4, <2>5, <2>6, <2>7
<1> QED BY <1>2, <1>3, <1>4, <1>5

\* run_esptool and what follows
LEMMA EsptoolKeeps ==
  ASSUME BenchTypeOK, ToolInv, NEW r, WorkerEsptool(r)
  PROVE  BenchTypeOK' /\ ToolInv'
<1>1. /\ BenchTypeOK' /\ UNCHANGED <<socket, tty, main, hist>> /\ busy
      /\ job.step = "esptool" /\ job.step \notin {"idle", "ask"}
      /\ hist' = [b \in Boards |-> hist'[b]]
  BY EsptoolFacts DEF WorkerEsptool, ToolInv, WindowInv
<1>2. CASE r = "stall"
  <2>1. OnStall
    BY <1>2 DEF WorkerEsptool, Verified
  <2> QED BY <1>1, <2>1, StallGoesOn
<1>3. CASE r # "stall" /\ ~Verified(r)
  <2>1. OnError
    BY <1>3 DEF WorkerEsptool, Verified
  <2> QED BY <1>1, <2>1, ErrorKeeps
<1>4. CASE Verified(r) /\ job.phase = "mac"
  <2> DEFINE mac == BoardAt(job.port)
  <2>1. r = "ok"
    BY <1>4 DEF Verified
  <2>2. mac \in Boards /\ (job.sure => mac = job.aim)
    BY <1>4, <2>1, EsptoolFacts
  <2>3. list' = [list EXCEPT ![job.item].mac = mac] /\ AfterMac(list')
    BY <1>4, <2>1 DEF WorkerEsptool
  <2> HIDE DEF mac
  <2> QED BY <1>1, <1>4, <2>2, <2>3, AfterMacKeeps
<1>5. CASE Verified(r) /\ job.phase = "main" /\ job.name \in {"read", "factory"}
  <2> DEFINE m == IF job.name = "read"
                  THEN [Message("prefill") EXCEPT !.stored = nvs[BoardAt(job.port)]]
                  ELSE Message("info")
             b == Message("busy")
  <2>1. r = "ok"
    BY <1>5 DEF Verified
  <2>2. job' = Idle /\ queue' = queue \o (<<m>> \o <<b>>) /\ UNCHANGED list
    BY <1>5, <2>1 DEF WorkerEsptool, Succeed, Post
  <2>3. b.kind = "busy" /\ m.kind \in {"info", "prefill"}
    BY DEF Message
  <2>4. Says(m, fw', nvs')
    <3>1. CASE job.name = "read"
      BY <3>1 DEF Says, Message
    <3>2. CASE job.name = "factory"
      <4>1. m.name = "factory" /\ m.board = job.aim
        BY <3>2 DEF Message
      <4>2. nvs'[job.aim] = Blank
        BY <1>5, <2>1, <3>2, EsptoolFacts
      <4> HIDE DEF m
      <4> QED BY <4>1, <4>2 DEF Says
    <3> QED BY <1>5, <3>1, <3>2
  <2>5. list \in Seq(Entries)
    BY DEF ToolInv, WindowInv
  <2> HIDE DEF m, b
  <2> QED BY <1>1, <2>2, <2>3, <2>4, <2>5, WorkerEnds
<1>6. CASE Verified(r) /\ job.phase = "main" /\ job.name \in {"flash", "inject"}
  <2>1. r = "ok"
    BY <1>6 DEF Verified
  <2>2. job' = [job EXCEPT !.step = "boot"] /\ UNCHANGED <<queue, list>>
    BY <1>6, <2>1 DEF WorkerEsptool
  <2>3. /\ job.aim \in Boards
        /\ job.name = "flash" => fw'[job.aim] = "deploy"
        /\ job.name = "inject" => nvs'[job.aim] = Binary(job.cfg)
    BY <1>6, <2>1, EsptoolFacts
  <2>4. WrittenInv'
    <3>1. job \in Workers
      BY DEF ToolInv, JobInv
    <3>2. /\ job'.step = "boot"
          /\ UNCHANGED <<job.name, job.phase, job.aim, job.cfg>>
      BY <2>2, <3>1 DEF Workers
    <3>3. Binary(job.cfg)' = Binary(job.cfg)
      BY <3>2 DEF Binary
    <3> QED BY <1>6, <2>3, <3>2, <3>3 DEF WrittenInv
  <2> QED BY <1>1, <2>2, <2>4, NextStep
<1>7. \/ job.phase = "mac"
      \/ job.phase = "main" /\ job.name \in {"read", "flash", "inject", "factory"}
  BY <1>1, JobKinds
<1> QED BY <1>2, <1>3, <1>4, <1>5, <1>6, <1>7
\* usb_reset.recover: the job goes on with the tty its board has now.
LEMMA ResetKeeps ==
  ASSUME BenchTypeOK, ToolInv, NEW p, WorkerReset(p)
  PROVE  BenchTypeOK' /\ ToolInv' /\ UNCHANGED <<fw, nvs>>
<1>1. /\ job.step = "reset" /\ job.step \notin {"idle", "ask"} /\ busy /\ KnownInv
      /\ UNCHANGED <<main, queue, hist>> /\ job \in Workers /\ list \in Seq(Entries)
      /\ hist' = [b \in Boards |-> hist'[b]]
  BY Working DEF WorkerReset, ToolInv, JobInv, WindowInv
<1>2. BenchTypeOK' /\ UNCHANGED <<socket, fw, nvs>> /\ p \in Ttys
  BY RecoverFacts DEF WorkerReset
<1>3. PICK s \in SlotsAt(job.port) :
        /\ s \in Slots /\ tty' = [tty EXCEPT ![s] = p] /\ \A r \in Slots \ {s} : tty[r] # p
  BY RecoverFacts DEF WorkerReset
<1>4. job' = [job EXCEPT !.port = p, !.tries = 1, !.step = "preflight"]
  BY DEF WorkerReset
<1>5. /\ job' \in Workers /\ job'.step = "preflight" /\ job'.port = p
      /\ UNCHANGED <<job.name, job.phase, job.item, job.todo, job.image, job.cfg,
                     job.mac, job.aim, job.sure, job.stop>>
  BY <1>1, <1>2, <1>4 DEF Workers
<1>6. job.name # "find" => Aimed(job)'
  <2>1. tty \in [Slots -> Ttys \cup {NoTty}]
    BY DEF BenchTypeOK
  <2>2. \A r \in Slots \ {s} : tty'[r] # p
    BY <1>3, <2>1
  <2>3. \A r \in SlotsAt(p)' : r = s
    BY <2>2 DEF SlotsAt
  <2>4. job.name # "find" => socket[s] = job.aim
    BY <1>1, <1>3 DEF KnownInv, Aimed
  <2> QED BY <1>2, <1>5, <2>3, <2>4 DEF Aimed, SlotsAt
<1>7. /\ list' \in Seq(Entries) /\ Len(list') = Len(list) /\ DOMAIN list' = DOMAIN list
      /\ job.phase = "mac" => list'[job.item].dev = p /\ list'[job.item].mac = list[job.item].mac
  <2>1. CASE job.phase = "mac"
    <3> DEFINE e == [list[job.item] EXCEPT !.dev = p]
    <3>1. job.item \in DOMAIN list
      BY <1>1, <2>1 DEF KnownInv
    <3>2. list' = [list EXCEPT ![job.item] = e]
      BY <2>1 DEF WorkerReset
    <3>3. list[job.item] \in Entries
      BY <1>1, <3>1
    <3>4. e \in Entries /\ e.dev = p /\ e.mac = list[job.item].mac
      BY <1>2, <3>3 DEF Entries
    <3> HIDE DEF e
    <3> QED BY <1>1, <3>1, <3>2, <3>4
  <2>2. CASE job.phase # "mac"
    BY <1>1, <2>2 DEF WorkerReset
  <2> QED BY <2>1, <2>2
<1>8. JobInv'
  <2>1. KnownInv'
    BY <1>1, <1>5, <1>6, <1>7 DEF KnownInv, main
  <2>2. WrittenInv'
    BY <1>5 DEF WrittenInv
  <2> QED BY <1>5, <2>1, <2>2 DEF JobInv
<1> QED BY <1>1, <1>2, <1>5, <1>7, <1>8, WorkerGoesOn

\* The reset fails, or the user refuses it.
LEMMA GivesUpKeeps ==
  ASSUME BenchTypeOK, ToolInv, WorkerResetFails \/ WorkerRefused
  PROVE  BenchTypeOK' /\ ToolInv' /\ UNCHANGED <<fw, nvs>>
<1>1. /\ job.step \in {"reset", "refused"} /\ job.step \notin {"idle", "ask"} /\ busy
      /\ UNCHANGED <<bench, main, hist>>
  BY Working DEF WorkerResetFails, WorkerRefused, RecoverFails
<1>2. BenchTypeOK' /\ UNCHANGED <<socket, tty, fw, nvs>>
  BY <1>1 DEF BenchTypeOK, bench
<1>3. OnError \/ (Fail /\ UNCHANGED list)
  BY DEF WorkerResetFails, WorkerRefused
<1> QED BY <1>1, <1>2, <1>3, ErrorKeeps, FailKeeps

\* The settings a board answers with, when none differs from what was entered, are the
\* settings that were entered.
LEMMA ConfirmedFacts ==
  ASSUME BenchTypeOK, NEW b, NEW cfg \in Wanted, b \in Boards => nvs[b] = Binary(cfg),
         b \in Boards \cup {NoBoard}, NEW log \in BootLogs(b), Confirmed(log, cfg)
  PROVE  /\ b \in Boards /\ nvs[b] = cfg /\ cfg \in Configs
         /\ fw[b] \in {"deploy", "dev"} /\ b \notin Faulty
<1>1. log.cfg # Blank /\ ~Mismatch(log, cfg) /\ log.streaming
  BY DEF Confirmed
<1>2. NoLog.cfg = Blank
  BY DEF NoLog
<1>3. b # NoBoard /\ log # NoLog /\ fw[b] \notin {"check", "broken"}
  BY <1>1, <1>2 DEF BootLogs
<1>4. b \in Boards /\ nvs[b] = Binary(cfg) /\ Binary(cfg) \in Configs
  BY <1>3, BinaryFacts
<1>5. Applied(b).transport = Binary(cfg).transport /\ Applied(b).port = Binary(cfg).port
  <2> DEFINE stored == Binary(cfg)
  <2>1. Applied(b) = stored \/ Applied(b) = [stored EXCEPT !.ssid = "kconfig"]
    BY <1>4 DEF Applied
  <2>2. stored \in Configs
    BY <1>4
  <2> HIDE DEF stored
  <2>3. [stored EXCEPT !.ssid = "kconfig"].transport = stored.transport
        /\ [stored EXCEPT !.ssid = "kconfig"].port = stored.port
    BY <2>2 DEF Configs
  <2> QED BY <2>1, <2>3 DEF stored
<1>6. /\ log.cfg.transport = Applied(b).transport /\ log.cfg.port = Applied(b).port
      /\ b \notin Faulty
  <2>1. b \notin Faulty /\ \E n : log.cfg = [Applied(b) EXCEPT !.ssid = n]
    <3> DEFINE told == [Applied(b) EXCEPT !.ssid =
                          IF fw[b] = "dev" \/ Applied(b).transport = "usb" THEN NoSsid ELSE @]
               said(up, seen) == [cfg |-> told, dev |-> fw[b] = "dev",
                                  streaming |-> up /\ b \notin Faulty,
                                  sensorMissing |-> seen /\ b \in Faulty]
    <3>0. BootLogs(b) \subseteq {NoLog} \cup {said(up, seen) : up \in BOOLEAN, seen \in BOOLEAN}
      BY DEF BootLogs
    <3> HIDE DEF told
    <3>1. PICK up, seen \in BOOLEAN : log = said(up, seen)
      <4> HIDE DEF said
      <4> QED BY <1>3, <3>0
    <3>2. log.cfg = told /\ log.streaming = (up /\ b \notin Faulty)
      BY <3>1
    <3>3. b \notin Faulty
      BY <1>1, <3>2
    <3> QED BY <3>2, <3>3 DEF told
  <2>2. \E x, y, z : Applied(b) = [transport |-> x, ssid |-> y, port |-> z]
    <3> DEFINE stored == Binary(cfg)
    <3>1. stored \in Configs /\ (Applied(b) = stored \/ Applied(b) = [stored EXCEPT !.ssid = "kconfig"])
      BY <1>4 DEF Applied
    <3> HIDE DEF stored
    <3>2. stored = [transport |-> stored.transport, ssid |-> stored.ssid, port |-> stored.port]
      BY <3>1 DEF Configs
    <3>3. [stored EXCEPT !.ssid = "kconfig"]
            = [transport |-> stored.transport, ssid |-> "kconfig", port |-> stored.port]
      BY <3>1 DEF Configs
    <3> QED BY <3>1, <3>2, <3>3
  <2> QED BY <2>1, <2>2
<1> fw[b] \in {"deploy", "dev"} /\ b \notin Faulty
  BY <1>3, <1>4, <1>6 DEF BenchTypeOK
<1>7. CASE cfg.transport = "usb"
  BY <1>4, <1>7, BinaryFacts
<1>8. CASE cfg.transport # "usb"
  <2>1. log.cfg.transport = cfg.transport /\ log.cfg.port = cfg.port
    BY <1>1, <1>8 DEF Mismatch
  <2>2. Binary(cfg).port = cfg.port
    BY <1>5, <1>6, <2>1
  <2> QED BY <1>4, <2>2, BinaryFacts
<1> QED BY <1>7, <1>8

\* verify_after_flash, verify_after_inject
LEMMA BootKeeps ==
  ASSUME BenchTypeOK, ToolInv, NEW log, WorkerBoot(log)
  PROVE  BenchTypeOK' /\ ToolInv' /\ UNCHANGED <<fw, nvs>>
<1>1. /\ job.step = "boot" /\ job.step \notin {"idle", "ask"} /\ busy
      /\ UNCHANGED <<bench, main, hist, list>> /\ job \in Workers /\ list \in Seq(Entries)
      /\ hist' = [b \in Boards |-> hist'[b]] /\ KnownInv
      /\ log \in BootLogs(BoardAt(job.port))
  BY Working DEF WorkerBoot, ToolInv, JobInv, WindowInv
<1>2. BenchTypeOK' /\ UNCHANGED <<socket, tty, fw, nvs>>
  BY <1>1 DEF BenchTypeOK, bench
<1>3. /\ job.phase = "main" /\ job.aim \in Boards
      /\ \/ job.name = "flash" /\ fw[job.aim] = "deploy"
         \/ job.name = "inject" /\ nvs[job.aim] = Binary(job.cfg)
  BY <1>1 DEF ToolInv, JobInv, WrittenInv
<1>4. CASE job.name = "flash" /\ ~log.sensorMissing /\ ~log.dev
  <2> DEFINE m == Message("info")
             b == Message("busy")
  <2>1. job' = Idle /\ queue' = queue \o (<<m>> \o <<b>>)
    BY <1>4 DEF WorkerBoot, Succeed, Post
  <2>2. b.kind = "busy" /\ m.kind = "info" /\ m.name = "flash" /\ m.board = job.aim
    BY <1>4 DEF Message
  <2> HIDE DEF m, b
  <2>3. Says(m, fw', nvs')
    BY <1>2, <1>3, <1>4, <2>2 DEF Says
  <2> QED BY <1>1, <1>2, <2>1, <2>2, <2>3, WorkerEnds
<1>5. CASE job.name = "inject" /\ Confirmed(log, job.cfg)
  <2>1. job' = [job EXCEPT !.step = "record"] /\ UNCHANGED queue
    BY <1>5 DEF WorkerBoot
  <2>2. /\ nvs[job.aim] = job.cfg /\ job.cfg \in Configs
        /\ fw[job.aim] \in {"deploy", "dev"} /\ job.aim \notin Faulty
    <3> DEFINE b == BoardAt(job.port)
    <3>1. b \in Boards \cup {NoBoard} /\ job.cfg \in Wanted
      BY <1>1, <1>5, AtFacts DEF KnownInv
    <3>2. b # NoBoard => b = job.aim
      BY <1>1, <1>5, AimFacts
    <3>3. b \in Boards => b = job.aim /\ nvs[b] = Binary(job.cfg)
      BY <1>3, <1>5, <3>2, BenchAssumption
    <3> HIDE DEF b
    <3>4. /\ b \in Boards /\ nvs[b] = job.cfg /\ job.cfg \in Configs
          /\ fw[b] \in {"deploy", "dev"} /\ b \notin Faulty
      BY <1>1, <1>5, <3>1, <3>3, ConfirmedFacts DEF b
    <3> QED BY <3>3, <3>4
  <2>3. WrittenInv'
    <3>1. job'.step = "record" /\ UNCHANGED <<job.name, job.aim, job.cfg>>
      BY <1>1, <2>1 DEF Workers
    <3> QED BY <1>2, <1>3, <1>5, <2>2, <3>1 DEF WrittenInv, Configs
  <2> QED BY <1>1, <1>2, <2>1, <2>3, NextStep
<1>6. CASE /\ ~(job.name = "flash" /\ ~log.sensorMissing /\ ~log.dev)
           /\ ~(job.name = "inject" /\ Confirmed(log, job.cfg))
  <2>1. Fail
    BY <1>6 DEF WorkerBoot
  <2> QED BY <1>1, <1>2, <2>1, FailKeeps
<1> QED BY <1>4, <1>5, <1>6

\* provision_log.record
LEMMA RecordKeeps ==
  ASSUME BenchTypeOK, ToolInv, NEW written, WorkerRecord(written)
  PROVE  BenchTypeOK' /\ ToolInv' /\ UNCHANGED <<fw, nvs>>
<1>1. /\ job.step = "record" /\ job.step \notin {"idle", "ask"} /\ busy
      /\ UNCHANGED <<bench, main, list>> /\ list \in Seq(Entries) /\ hist = [b \in Boards |-> hist[b]]
  BY Working DEF WorkerRecord, ToolInv, JobInv, WindowInv
<1>2. BenchTypeOK' /\ UNCHANGED <<socket, tty, fw, nvs>>
  BY <1>1 DEF BenchTypeOK, bench
<1>3. hist' = [b \in Boards |-> hist'[b]]
  <2>1. hist' = hist \/ hist' = [hist EXCEPT ![job.mac] = job.cfg]
    BY DEF WorkerRecord, Recorded
  <2> QED BY <1>1, <2>1
<1>4. /\ job.name = "inject" /\ job.aim \in Boards /\ nvs[job.aim] = job.cfg
      /\ job.cfg \in Configs /\ fw[job.aim] \in {"deploy", "dev"} /\ job.aim \notin Faulty
  BY <1>1 DEF ToolInv, JobInv, WrittenInv
<1> DEFINE m == Message("info")
           b == Message("busy")
<1>5. job' = Idle /\ queue' = queue \o (<<m>> \o <<b>>)
  BY DEF WorkerRecord, Succeed, Post
<1>6. /\ b.kind = "busy" /\ m.kind = "info" /\ m.name = "inject" /\ m.board = job.aim
      /\ m.cfg = job.cfg
  BY <1>4 DEF Message
<1> HIDE DEF m, b
<1>7. Says(m, fw', nvs')
  BY <1>2, <1>4, <1>6 DEF Says
<1> QED BY <1>1, <1>2, <1>3, <1>5, <1>6, <1>7, WorkerEnds
-----------------------------------------------------------------------------
(* The main thread *)

\* Between two jobs the window is all there is.
LEMMA Calm ==
  ASSUME ToolInv, ~busy
  PROVE  job.step = "idle" /\ ~cancel /\ queue = <<>>
BY DEF ToolInv, QueueInv

\* A job begins.
LEMMA StartKeeps ==
  ASSUME BenchTypeOK, ToolInv, NEW new, Start(new), UNCHANGED <<bench, queue, hist>>,
         list' \in Seq(Entries), sel' \in 0..Len(list'), sel' = 0 <=> list' = <<>>,
         form' \in Typed, prefs' \in Typed,
         new \in Workers, new.step = "preflight", KnownInv'
  PROVE  BenchTypeOK' /\ ToolInv'
<1>1. /\ busy' /\ ~cancel' /\ job' = new /\ uses' = uses + 1 /\ ~busy /\ uses < MaxUses
      /\ busy' \in BOOLEAN /\ cancel' \in BOOLEAN
  BY DEF Start, Cleared
<1>2. queue' = <<>>
  BY <1>1, Calm
<1>3. BenchTypeOK'
  BY DEF BenchTypeOK, bench
<1>4. WindowInv'
  <2>1. uses' \in 0..MaxUses
    <3>1. MaxUses \in Nat /\ uses \in 0..MaxUses
      BY BenchAssumption DEF ToolInv, WindowInv
    <3> QED BY <1>1, <3>1
  <2>2. hist' = [b \in Boards |-> hist'[b]]
    BY DEF ToolInv, WindowInv
  <2> QED BY <1>1, <2>1, <2>2 DEF WindowInv
<1>5. QueueInv' /\ SaidInv'
  BY <1>1, <1>2 DEF QueueInv, SaidInv, Says
<1>6. JobInv'
  BY <1>1 DEF JobInv, WrittenInv
<1> QED BY <1>3, <1>4, <1>5, <1>6 DEF ToolInv

\* A job on a row of the list knows the board behind that row's tty.
LEMMA JobOnFacts ==
  ASSUME BenchTypeOK, list \in Seq(Entries), NEW i \in DOMAIN list, NEW name \in Jobs,
         NEW cfg \in Wanted \cup {NoBin}
  PROVE  LET new == JobOn(name, i, cfg)
         IN /\ new \in Workers /\ new.name = name /\ new.step = "preflight" /\ new.phase = "main"
            /\ new.port = list[i].dev /\ new.item = i /\ new.cfg = cfg /\ new.mac = list[i].mac
            /\ Aimed(new) /\ (new.sure => new.mac \in {NoMac, new.aim}) /\ new.image = "none"
<1> DEFINE dev  == list[i].dev
           mac  == list[i].mac
           aim  == BoardAt(dev)
           slot == list[i].slot
           sure == dev = tty[slot] /\ mac \in {NoMac, socket[slot]}
           new  == JobOn(name, i, cfg)
<1>1. dev \in Ttys /\ mac \in Boards \cup {NoMac} /\ slot \in Slots /\ i \in Nat
  <2>1. list[i] \in Entries /\ i \in Nat
    OBVIOUS
  <2> QED BY <2>1 DEF Entries
<1>2. aim \in Boards \cup {NoBoard}
  BY AtFacts
<1>3. \A s \in SlotsAt(dev) : socket[s] = aim
  BY AtFacts
<1>4. sure => mac \in {NoMac, aim}
  <2>1. NoTty \notin Ttys
    BY DEF NoTty, Ttys
  <2>2. sure => slot \in SlotsAt(dev)
    BY <1>1, <2>1 DEF SlotsAt
  <2> QED BY <1>3, <2>2
<1>5. sure \in BOOLEAN
  OBVIOUS
<1> HIDE DEF sure
<1>6. new = [Idle EXCEPT !.name = name, !.step = "preflight", !.port = dev, !.item = i,
                         !.cfg = cfg, !.mac = mac, !.aim = aim, !.sure = sure]
  BY DEF JobOn, sure
<1> HIDE DEF dev, mac, aim, slot, new
<1>7. /\ new.name = name /\ new.step = "preflight" /\ new.phase = "main" /\ new.port = dev
      /\ new.item = i /\ new.cfg = cfg /\ new.mac = mac /\ new.aim = aim /\ new.sure = sure
      /\ new.image = "none"
  BY <1>6 DEF Idle
<1>8. new \in Workers
  BY <1>1, <1>2, <1>5, <1>6 DEF Idle, Workers
<1>9. Aimed(new)
  BY <1>3, <1>7 DEF Aimed
<1> QED BY <1>4, <1>7, <1>8, <1>9 DEF new, dev, mac

\* on_read_settings, on_flash_firmware, on_factory_reset
LEMMA ButtonKeeps ==
  ASSUME BenchTypeOK, ToolInv,
         OnReadSettings \/ OnFactoryReset \/ \E package \in Packages : OnFlashFirmware(package)
  PROVE  BenchTypeOK' /\ ToolInv'
<1>1. /\ list \in Seq(Entries) /\ sel \in 0..Len(list) /\ (sel = 0 <=> list = <<>>)
      /\ form \in Typed /\ prefs \in Typed
  BY DEF ToolInv, WindowInv
<1>2. sel # 0 /\ UNCHANGED <<bench, list, sel, form, prefs, queue, hist>>
  BY DEF OnReadSettings, OnFactoryReset, OnFlashFirmware
<1>3. sel \in DOMAIN list
  BY <1>1, <1>2
<1> DEFINE none == NoBin
<1>4. none \in Wanted \cup {NoBin}
  OBVIOUS
<1>5. PICK name \in {"read", "factory", "flash"}, image \in Packages \cup {"none"} :
        Start([JobOn(name, sel, none) EXCEPT !.image = image])
  <2>1. ASSUME NEW name \in {"read", "factory"}, Start(JobOn(name, sel, none))
        PROVE  Start([JobOn(name, sel, none) EXCEPT !.image = "none"])
    <3> DEFINE new == JobOn(name, sel, none)
    <3>1. new \in Workers /\ new.image = "none"
      BY <1>1, <1>3, <1>4, JobOnFacts DEF Jobs
    <3> HIDE DEF new
    <3>2. new = [new EXCEPT !.image = "none"]
      BY <3>1 DEF Workers
    <3> QED BY <2>1, <3>2, Zenon DEF new
  <2>2. CASE OnReadSettings
    BY <2>1, <2>2 DEF OnReadSettings
  <2>3. CASE OnFactoryReset
    BY <2>1, <2>3 DEF OnFactoryReset
  <2>4. CASE \E package \in Packages : OnFlashFirmware(package)
    BY <2>4 DEF OnFlashFirmware
  <2> QED BY <2>2, <2>3, <2>4
<1> DEFINE old == JobOn(name, sel, none)
           new == [old EXCEPT !.image = image]
<1>6. name \in Jobs
  BY <1>5 DEF Jobs
<1>7. /\ old \in Workers /\ old.name = name /\ old.step = "preflight" /\ old.phase = "main"
      /\ Aimed(old) /\ (old.sure => old.mac \in {NoMac, old.aim})
  BY <1>1, <1>3, <1>4, <1>6, JobOnFacts
<1> HIDE DEF old, none
<1>8. /\ new \in Workers /\ new.name = name /\ new.step = "preflight" /\ new.phase = "main"
      /\ new.port = old.port /\ new.aim = old.aim /\ new.mac = old.mac /\ new.sure = old.sure
  BY <1>5, <1>7 DEF Workers
<1>9. Start(new)
  BY <1>5 DEF old
<1> HIDE DEF new
<1>10. job' = new /\ ~cancel'
  BY <1>9 DEF Start, Cleared
<1>11. Aimed(job)'
  BY <1>2, <1>7, <1>8, <1>10 DEF Aimed, SlotsAt, bench
<1>12. KnownInv'
  BY <1>5, <1>6, <1>7, <1>8, <1>10, <1>11 DEF KnownInv
<1> QED BY <1>1, <1>2, <1>8, <1>9, <1>12, StartKeeps
\* What collect makes of a valid form can be written, also with the next port.
LEMMA CollectFacts ==
  ASSUME NEW f \in Typed, Valid(f)
  PROVE  /\ Collect(f) \in Wanted
         /\ Collect(f).transport = "wifi" =>
              /\ [Collect(f) EXCEPT !.port = @ + 1] \in Wanted
              /\ [f EXCEPT !.port = Collect(f).port + 1] \in Typed
<1>1. MaxPort \in Nat \ {0}
  BY BenchAssumption
<1>2. /\ f.transport \in {"wifi", "usb"} /\ f.ssid \in {"net", "unused", NoSsid}
      /\ f.port \in 0..(MaxPort + 1)
      /\ f = [transport |-> f.transport, ssid |-> f.ssid, port |-> f.port]
  <2> DEFINE T == {"wifi", "usb"}
             S == {"net", "unused", NoSsid}
             P == 0..(MaxPort + 1)
  <2>1. f \in [transport : T, ssid : S, port : P]
    BY DEF Typed
  <2> HIDE DEF T, S, P
  <2>2. /\ f.transport \in T /\ f.ssid \in S /\ f.port \in P
        /\ f = [transport |-> f.transport, ssid |-> f.ssid, port |-> f.port]
    BY <2>1
  <2> QED BY <2>2 DEF T, S, P
<1>3. NoSsid # "net" /\ NoSsid # "unused"
  BY Zenon DEF NoSsid
<1>4. CASE f.transport = "usb"
  <2> DEFINE s == IF f.ssid = NoSsid THEN "unused" ELSE f.ssid
             p == IF f.port \in 1..MaxPort THEN f.port ELSE 1
  <2>1. Collect(f) = [f EXCEPT !.ssid = s, !.port = p]
    BY <1>4 DEF Collect
  <2>2. s \in {"net", "unused"} /\ p \in 1..MaxPort
    BY <1>1, <1>2
  <2> HIDE DEF s, p
  <2>3. Collect(f) = [transport |-> "usb", ssid |-> s, port |-> p]
    BY <1>2, <1>4, <2>1
  <2>4. p \in 0..(MaxPort + 1) /\ p <= MaxPort
    BY <1>1, <2>2
  <2>5. s \in {"net", "unused", NoSsid} /\ s # NoSsid
    BY <1>3, <2>2
  <2> QED BY <2>3, <2>4, <2>5 DEF Wanted, Typed
<1>5. CASE f.transport = "wifi"
  <2>1. Collect(f) = f
    BY <1>5 DEF Collect
  <2>2. f.ssid # NoSsid /\ f.port \in 1..MaxPort
    BY <1>5 DEF Valid
  <2> DEFINE n == f.port + 1
  <2>3. n \in 0..(MaxPort + 1)
    BY <1>1, <2>2
  <2>4. [f EXCEPT !.port = f.port + 1] = [transport |-> f.transport, ssid |-> f.ssid, port |-> n]
    BY <1>2
  <2> HIDE DEF n
  <2>5. [f EXCEPT !.port = f.port + 1] \in Typed
    BY <1>2, <2>3, <2>4 DEF Typed
  <2>6. [f EXCEPT !.port = f.port + 1] \in Wanted
    BY <1>5, <2>2, <2>4, <2>5 DEF Wanted
  <2>7. f \in Wanted
    BY <1>5, <2>2 DEF Wanted
  <2> QED BY <2>1, <2>5, <2>6, <2>7
<1> QED BY <1>2, <1>4, <1>5

\* on_inject
LEMMA InjectKeeps ==
  ASSUME BenchTypeOK, ToolInv, NEW f \in Forms \cup {form}, NEW answer, OnInject(f, answer)
  PROVE  BenchTypeOK' /\ ToolInv'
<1>1. /\ list \in Seq(Entries) /\ sel \in 0..Len(list) /\ (sel = 0 <=> list = <<>>)
      /\ form \in Typed
  BY DEF ToolInv, WindowInv
<1>2. sel # 0 /\ Valid(f) /\ UNCHANGED <<bench, list, sel, queue, hist>>
  BY DEF OnInject
<1>3. sel \in DOMAIN list
  BY <1>1, <1>2
<1>4. f \in Typed
  <2>1. MaxPort \in Nat
    BY BenchAssumption
  <2>2. Forms \subseteq [transport : {"wifi", "usb"}, ssid : {"net", "unused", NoSsid}, port : 0..MaxPort]
    BY SetupAssumption
  <2>3. 0..MaxPort \subseteq 0..(MaxPort + 1)
    BY <2>1
  <2> DEFINE P == 0..MaxPort
             Q == 0..(MaxPort + 1)
  <2> HIDE DEF P, Q
  <2>4. [transport : {"wifi", "usb"}, ssid : {"net", "unused", NoSsid}, port : P]
          \subseteq [transport : {"wifi", "usb"}, ssid : {"net", "unused", NoSsid}, port : Q]
    BY <2>3 DEF P, Q
  <2>5. Forms \subseteq Typed
    BY <2>2, <2>4 DEF Typed, P, Q
  <2> QED BY <1>1, <2>5
<1> DEFINE cfg  == Collect(f)
           used == IF answer = "next" THEN [cfg EXCEPT !.port = @ + 1] ELSE cfg
           asks == PortConflict(cfg, list[sel].mac)
           old  == JobOn("inject", sel, used)
           new  == IF old.mac = NoMac THEN [old EXCEPT !.phase = "mac", !.todo = sel] ELSE old
<1>5. /\ answer \in IF asks THEN {"next", "keep"} ELSE {"no conflict"}
      /\ form' = IF answer = "next" THEN [f EXCEPT !.port = used.port] ELSE f
      /\ prefs' = used /\ Start(new)
  BY DEF OnInject
<1>6. used \in Wanted /\ form' \in Typed
  <2>1. cfg \in Wanted
    BY <1>2, <1>4, CollectFacts
  <2>2. CASE answer = "next"
    <3>1. cfg.transport = "wifi"
      BY <1>5, <2>2 DEF PortConflict
    <3>2. [cfg EXCEPT !.port = @ + 1] \in Wanted /\ [f EXCEPT !.port = cfg.port + 1] \in Typed
      BY <1>2, <1>4, <3>1, CollectFacts
    <3>3. used.port = cfg.port + 1
      BY <2>1, <2>2 DEF Wanted, Typed
    <3> QED BY <1>5, <2>2, <3>2, <3>3
  <2>3. CASE answer # "next"
    BY <1>4, <1>5, <2>1, <2>3
  <2> QED BY <2>2, <2>3
<1>7. used \in Typed
  BY <1>6 DEF Wanted
<1> HIDE DEF used
<1>8. /\ old \in Workers /\ old.name = "inject" /\ old.step = "preflight" /\ old.phase = "main"
      /\ old.port = list[sel].dev /\ old.item = sel /\ old.cfg = used /\ old.mac = list[sel].mac
      /\ Aimed(old) /\ (old.sure => old.mac \in {NoMac, old.aim})
  BY <1>1, <1>3, <1>6, JobOnFacts DEF Jobs
<1> HIDE DEF old
<1>9. sel \in Nat
  BY <1>1
<1>10. /\ new \in Workers /\ new.name = "inject" /\ new.step = "preflight"
       /\ new.phase \in {"mac", "main"} /\ (new.phase = "mac" => old.mac = NoMac)
       /\ new.port = old.port /\ new.item = sel /\ new.cfg = used /\ new.mac = old.mac
       /\ new.aim = old.aim /\ new.sure = old.sure
  BY <1>8, <1>9 DEF Workers
<1> HIDE DEF new
<1>11. job' = new /\ ~cancel'
  BY <1>5 DEF Start, Cleared
<1>12. Aimed(job)'
  BY <1>2, <1>8, <1>10, <1>11 DEF Aimed, SlotsAt, bench
<1>13. KnownInv'
  BY <1>2, <1>3, <1>6, <1>8, <1>10, <1>11, <1>12 DEF KnownInv, Jobs
<1> QED BY <1>1, <1>2, <1>5, <1>6, <1>7, <1>10, <1>13, StartKeeps
\* refresh_ports leaves a list of what is there and a row of it selected.
LEMMA RefreshFacts ==
  ASSUME BenchTypeOK, NEW old \in Seq(Entries), RefreshPorts(old)
  PROVE  /\ list' \in Seq(Entries) /\ DOMAIN list' = 1..Len(list') /\ Len(list') \in Nat
         /\ sel' \in 0..Len(list') /\ (sel' = 0 <=> list' = <<>>)
<1>1. list' \in Seq(Entries) /\ DOMAIN list' = 1..Len(list') /\ Len(list') \in Nat
  BY ListedFacts DEF RefreshPorts
<1> DEFINE new == list'
           s   == IF sel = 0 THEN 0 ELSE list[sel].slot
<1>2. sel' = Selected(new, s)
  BY DEF RefreshPorts
<1> HIDE DEF s
<1>3. new \in Seq(Entries)
  BY <1>1
<1> HIDE DEF new
<1>4. Selected(new, s) \in 0..Len(new) /\ (Selected(new, s) = 0 <=> new = <<>>)
  BY <1>3, SelectedFacts
<1> QED BY <1>1, <1>2, <1>4 DEF new

\* The window changes with no job at work.
LEMMA WindowKeeps ==
  ASSUME BenchTypeOK, ToolInv, ~busy, WindowInv', UNCHANGED <<bench, busy, cancel, queue, job>>
  PROVE  BenchTypeOK' /\ ToolInv'
<1>1. job.step = "idle" /\ ~cancel /\ queue = <<>>
  BY Calm
<1>2. BenchTypeOK'
  BY DEF BenchTypeOK, bench
<1>3. QueueInv' /\ SaidInv'
  BY <1>1 DEF QueueInv, SaidInv, Says
<1>4. JobInv'
  BY <1>1 DEF ToolInv, JobInv, KnownInv, WrittenInv, Workers
<1> QED BY <1>2, <1>3, <1>4 DEF ToolInv

\* on_find_boards
LEMMA FindKeeps ==
  ASSUME BenchTypeOK, ToolInv, OnFind
  PROVE  BenchTypeOK' /\ ToolInv'
<1>1. ~busy /\ RefreshPorts(<<>>) /\ UNCHANGED <<bench, form, prefs, queue, hist>>
  BY DEF OnFind
<1>2. /\ list' \in Seq(Entries) /\ DOMAIN list' = 1..Len(list') /\ Len(list') \in Nat
      /\ sel' \in 0..Len(list') /\ (sel' = 0 <=> list' = <<>>)
  <2> DEFINE old == <<>>
  <2>1. old \in Seq(Entries) /\ RefreshPorts(old)
    BY <1>1
  <2> HIDE DEF old
  <2> QED BY <2>1, RefreshFacts
<1>3. /\ form \in Typed /\ prefs \in Typed /\ hist = [b \in Boards |-> hist[b]] /\ uses \in 0..MaxUses
      /\ busy \in BOOLEAN /\ cancel \in BOOLEAN
  BY DEF ToolInv, WindowInv
<1>4. CASE list' = <<>>
  <2>1. UNCHANGED <<busy, cancel, job, uses>>
    BY <1>4 DEF OnFind
  <2>2. WindowInv'
    BY <1>1, <1>2, <1>3, <2>1 DEF WindowInv
  <2> QED BY <1>1, <2>1, <2>2, WindowKeeps
<1>5. CASE list' # <<>>
  <2> DEFINE dev == list'[1].dev
             n   == Len(list')
             new == [Idle EXCEPT !.name = "find", !.phase = "mac", !.step = "preflight",
                                 !.item = 1, !.todo = n, !.port = dev]
  <2>1. Start(new)
    BY <1>5 DEF OnFind
  <2>2. 1 \in DOMAIN list' /\ n \in Nat
    BY <1>2, <1>5
  <2>3. list'[1] \in Entries
    BY <1>2, <2>2
  <2>4. dev \in Ttys
    BY <2>3 DEF Entries
  <2> HIDE DEF dev, n
  <2>5. /\ new \in Workers /\ new.name = "find" /\ new.phase = "mac" /\ new.step = "preflight"
        /\ new.item = 1 /\ new.todo = n /\ ~new.sure
    BY <2>2, <2>4 DEF Idle, Workers, Jobs
  <2> HIDE DEF new
  <2>6. job' = new /\ ~cancel'
    BY <2>1 DEF Start, Cleared
  <2>7. KnownInv'
    BY <2>2, <2>5, <2>6 DEF KnownInv, Jobs, n
  <2> QED BY <1>1, <1>2, <1>3, <2>1, <2>5, <2>7, StartKeeps
<1> QED BY <1>4, <1>5

\* on_refresh, on_select
LEMMA ListKeeps ==
  ASSUME BenchTypeOK, ToolInv, OnRefresh \/ \E i \in DOMAIN list : OnSelect(i)
  PROVE  BenchTypeOK' /\ ToolInv'
<1>1. /\ ~busy /\ UNCHANGED <<bench, busy, cancel, form, prefs, queue, job, hist, uses>>
  BY DEF OnRefresh, OnSelect
<1>2. WindowInv
  BY DEF ToolInv
<1>3. /\ list' \in Seq(Entries) /\ sel' \in 0..Len(list') /\ (sel' = 0 <=> list' = <<>>)
  <2>1. CASE OnRefresh
    <3>1. list \in Seq(Entries) /\ RefreshPorts(list)
      BY <1>2, <2>1 DEF OnRefresh, WindowInv
    <3> QED BY <3>1, RefreshFacts
  <2>2. CASE \E i \in DOMAIN list : OnSelect(i)
    <3>1. PICK i \in DOMAIN list : sel' = i /\ list' = list
      BY <2>2 DEF OnSelect
    <3> QED BY <1>2, <3>1 DEF WindowInv
  <2> QED BY <2>1, <2>2
<1>4. WindowInv'
  BY <1>1, <1>2, <1>3 DEF WindowInv
<1> QED BY <1>1, <1>4, WindowKeeps

\* on_cancel
LEMMA CancelKeeps ==
  ASSUME BenchTypeOK, ToolInv, OnCancel
  PROVE  BenchTypeOK' /\ ToolInv'
<1>1. /\ busy /\ cancel' = TRUE /\ job' = [job EXCEPT !.stop = uses]
      /\ UNCHANGED <<bench, list, sel, busy, form, prefs, queue, hist, uses>>
      /\ UNCHANGED <<socket, tty, fw, nvs>>
  BY DEF OnCancel, bench
<1>2. BenchTypeOK'
  BY <1>1 DEF BenchTypeOK, bench
<1>3. WindowInv'
  BY <1>1 DEF ToolInv, WindowInv
<1>4. job \in Workers /\ uses \in Nat
  BY BenchAssumption DEF ToolInv, JobInv, WindowInv
<1>5. /\ job' \in Workers /\ job'.stop = uses
      /\ UNCHANGED <<job.name, job.phase, job.step, job.port, job.item, job.todo, job.image,
                     job.cfg, job.mac, job.tries, job.aim, job.sure>>
  BY <1>1, <1>4 DEF Workers
<1>6. QueueInv' /\ SaidInv'
  BY <1>1, <1>5 DEF ToolInv, QueueInv, SaidInv, Says
<1>7. Aimed(job) => Aimed(job)'
  BY <1>1, <1>5 DEF Aimed, SlotsAt
<1>8. KnownInv'
  BY <1>1, <1>5, <1>7 DEF ToolInv, JobInv, KnownInv
<1>9. WrittenInv'
  <2>1. Binary(job.cfg)' = Binary(job.cfg)
    BY <1>5 DEF Binary
  <2>2. (job.cfg \in Configs)' <=> job.cfg \in Configs
    BY <1>5 DEF Configs
  <2> QED BY <1>1, <1>5, <2>1, <2>2 DEF ToolInv, JobInv, WrittenInv
<1> QED BY <1>2, <1>3, <1>5, <1>6, <1>8, <1>9 DEF ToolInv, JobInv
\* Nothing is said in an empty queue.
LEMMA NothingSaid ==
  ASSUME queue' = <<>>
  PROVE  SaidInv'
<1>1. DOMAIN queue' = {}
  OBVIOUS
<1> QED BY <1>1 DEF SaidInv, Says

\* How _handle treats each kind of message.
LEMMA HandleFacts ==
  ASSUME NEW answer, Pump(answer), NEW m, m = Head(queue)
  PROVE  /\ m.kind = "busy" => busy' = FALSE /\ cancel' = FALSE /\ UNCHANGED <<form, job>>
         /\ m.kind = "info" => UNCHANGED <<busy, cancel, form, job>>
         /\ m.kind = "prefill" => form' = Prefill(m.stored) /\ UNCHANGED <<busy, cancel, job>>
         /\ m.kind = "ask" => /\ job' = [job EXCEPT !.step = StepAfter(answer)]
                             /\ UNCHANGED <<busy, cancel, form>>
<1>1. CASE m.kind = "busy"
  BY <1>1, Zenon DEF Pump, Cleared
<1>2. CASE m.kind = "info"
  BY <1>2, Zenon DEF Pump
<1>3. CASE m.kind = "prefill"
  BY <1>3, Zenon DEF Pump
<1>4. CASE m.kind = "ask"
  BY <1>4, Zenon DEF Pump
<1> QED BY <1>1, <1>2, <1>3, <1>4

\* _pump: one message is handled, the next one is as true as before.
LEMMA PumpKeeps ==
  ASSUME BenchTypeOK, ToolInv, NEW answer, Pump(answer)
  PROVE  BenchTypeOK' /\ ToolInv' /\ UNCHANGED <<bench, hist>>
<1>1. /\ queue # <<>> /\ queue' = Tail(queue)
      /\ UNCHANGED <<bench, list, sel, prefs, hist, uses>>
      /\ UNCHANGED <<socket, tty, fw, nvs>>
  BY DEF Pump, bench
<1>2. BenchTypeOK'
  BY <1>1 DEF BenchTypeOK, bench
<1>3. /\ WindowInv /\ QueueInv /\ JobInv /\ SaidInv /\ job \in Workers
      /\ KnownInv /\ busy
  BY <1>1, Calm DEF ToolInv, JobInv
<1>4. PICK m \in Range(queue), k \in Range(queue) :
        \/ queue = <<m>> /\ m.kind = "busy" /\ job.step = "idle"
        \/ queue = <<k, m>> /\ k.kind \in {"info", "prefill"} /\ m.kind = "busy" /\ job.step = "idle"
        \/ queue = <<m>> /\ m.kind = "ask" /\ job.step = "ask"
  <2>1. CASE job.step = "idle"
    BY <1>3, <2>1 DEF QueueInv
  <2>2. CASE job.step = "ask"
    BY <1>3, <2>2 DEF QueueInv
  <2> QED BY <1>1, <1>3, <2>1, <2>2 DEF QueueInv
<1>5. CASE queue = <<m>> /\ m.kind = "busy" /\ job.step = "idle"
  <2>1. /\ busy' = FALSE /\ cancel' = FALSE /\ UNCHANGED <<form, job>>
    <3>1. m = Head(queue)
      BY <1>5
    <3> QED BY <1>5, <3>1, HandleFacts
  <2>2. queue' = <<>>
    BY <1>1, <1>5
  <2>3. WindowInv' /\ QueueInv' /\ SaidInv'
    <3>1. WindowInv'
      BY <1>1, <1>3, <2>1 DEF WindowInv
    <3>2. QueueInv'
      BY <1>5, <2>1, <2>2 DEF QueueInv
    <3> QED BY <2>2, <3>1, <3>2, NothingSaid
  <2>4. JobInv'
    BY <1>3, <1>5, <2>1 DEF JobInv, KnownInv, WrittenInv, Workers
  <2> QED BY <1>1, <1>2, <2>3, <2>4 DEF ToolInv
<1>6. CASE queue = <<k, m>> /\ k.kind \in {"info", "prefill"} /\ m.kind = "busy" /\ job.step = "idle"
  <2>1. UNCHANGED <<busy, cancel, job>> /\ form' \in Typed
    <3>0. k = Head(queue)
      BY <1>6
    <3>1. CASE k.kind = "info"
      BY <1>3, <3>0, <3>1, HandleFacts DEF WindowInv
    <3>2. CASE k.kind = "prefill"
      <4>1. UNCHANGED <<busy, cancel, job>> /\ form' = Prefill(k.stored)
        BY <3>0, <3>2, HandleFacts
      <4>2. Prefill(k.stored) \in Configs \cup {form}
        BY DEF Prefill
      <4>3. Configs \subseteq Typed
        <5> DEFINE P == 0..MaxPort
                   Q == 0..(MaxPort + 1)
        <5>1. \A p \in P : p \in Q
          BY BenchAssumption
        <5> HIDE DEF P, Q
        <5>2. Configs = [transport : {"wifi", "usb"}, ssid : {"net", "unused"}, port : P]
          BY DEF Configs, P
        <5>3. Typed = [transport : {"wifi", "usb"}, ssid : {"net", "unused", NoSsid}, port : Q]
          BY DEF Typed, Q
        <5> QED BY <5>1, <5>2, <5>3
      <4> QED BY <1>3, <4>1, <4>2, <4>3 DEF WindowInv
    <3> QED BY <1>6, <3>1, <3>2
  <2>2. queue' = <<m>>
    BY <1>1, <1>6
  <2>3. WindowInv' /\ QueueInv' /\ SaidInv'
    <3>1. m \in Range(queue')
      BY <2>2 DEF Range
    <3>2. \A i \in DOMAIN queue' : queue'[i].kind # "info"
      BY <1>6, <2>2
    <3>3. QueueInv'
      BY <1>3, <1>6, <2>1, <2>2, <3>1 DEF QueueInv
    <3>4. WindowInv'
      BY <1>1, <1>3, <2>1 DEF WindowInv
    <3> QED BY <3>2, <3>3, <3>4 DEF SaidInv, Says
  <2>4. JobInv'
    BY <1>3, <1>6, <2>1 DEF JobInv, KnownInv, WrittenInv, Workers
  <2> QED BY <1>1, <1>2, <2>3, <2>4 DEF ToolInv
<1>7. CASE queue = <<m>> /\ m.kind = "ask" /\ job.step = "ask"
  <2> DEFINE s == StepAfter(answer)
  <2>1. UNCHANGED <<busy, cancel, form>> /\ job' = [job EXCEPT !.step = s]
    <3>1. m = Head(queue)
      BY <1>7
    <3> QED BY <1>7, <3>1, HandleFacts
  <2>2. queue' = <<>>
    BY <1>1, <1>7
  <2>3. s \in {"reset", "refused"}
    BY DEF StepAfter
  <2> HIDE DEF s
  <2>4. /\ job' \in Workers /\ job'.step = s
        /\ UNCHANGED <<job.name, job.phase, job.port, job.item, job.todo, job.image, job.cfg,
                       job.mac, job.tries, job.aim, job.sure, job.stop>>
    BY <1>3, <2>1, <2>3 DEF Workers
  <2>5. Aimed(job) => Aimed(job)'
    BY <1>1, <2>4 DEF Aimed, SlotsAt
  <2>6. KnownInv'
    BY <1>1, <1>3, <1>7, <2>1, <2>3, <2>4, <2>5 DEF KnownInv
  <2>7. WrittenInv'
    BY <2>3, <2>4 DEF WrittenInv
  <2>8. WindowInv' /\ QueueInv' /\ SaidInv'
    <3>1. WindowInv'
      BY <1>1, <1>3, <2>1 DEF WindowInv
    <3>2. QueueInv'
      BY <1>3, <2>1, <2>2, <2>3, <2>4 DEF QueueInv
    <3> QED BY <2>2, <3>1, <3>2, NothingSaid
  <2> QED BY <1>1, <1>2, <2>4, <2>6, <2>7, <2>8 DEF ToolInv, JobInv
<1> QED BY <1>4, <1>5, <1>6, <1>7

\* Closing the window touches no board but the one of the job, and forgets the job.
LEMMA CloseKeeps ==
  ASSUME BenchTypeOK, ToolInv, Close
  PROVE  /\ BenchTypeOK' /\ ToolInv'
         /\ \A b \in Boards : b # job.aim => fw'[b] = fw[b] /\ nvs'[b] = nvs[b]
<1>1. /\ job \in Workers /\ KnownInv /\ hist = [b \in Boards |-> hist[b]] /\ uses \in 0..MaxUses
      /\ prefs \in Typed
  BY DEF ToolInv, JobInv, WindowInv
<1>2. BenchTypeOK' /\ \A b \in Boards : b # job.aim => fw'[b] = fw[b] /\ nvs'[b] = nvs[b]
  <2>1. NoBoard \notin Boards
    BY BenchAssumption
  <2>2. CASE job.step = "esptool" /\ job.phase = "main" /\ job.name = "flash"
    <3>1. WriteFw(job.port, "deploy", "cancel")
      BY <1>1, <2>2 DEF Close, KnownInv
    <3>2. /\ BenchTypeOK' /\ UNCHANGED nvs
          /\ \A b \in Boards : b # BoardAt(job.port) => fw'[b] = fw[b]
      BY <3>1, WriteFwFacts
    <3>3. BoardAt(job.port) # NoBoard => BoardAt(job.port) = job.aim
      BY <1>1, <2>2, AimFacts
    <3> QED BY <2>1, <3>2, <3>3
  <2>3. CASE job.step = "esptool" /\ job.phase = "main" /\ job.name \in {"inject", "factory"}
    <3> DEFINE image == IF job.name = "inject" THEN Binary(job.cfg) ELSE Blank
    <3>1. WriteNvs(job.port, image, "cancel")
      BY <2>3 DEF Close
    <3>2. image \in Configs \cup {Blank}
      BY <1>1, <2>3, BinaryFacts DEF KnownInv
    <3> HIDE DEF image
    <3>3. /\ BenchTypeOK' /\ UNCHANGED fw
          /\ \A b \in Boards : b # BoardAt(job.port) => nvs'[b] = nvs[b]
      BY <3>1, <3>2, WriteNvsFacts
    <3>4. BoardAt(job.port) # NoBoard => BoardAt(job.port) = job.aim
      BY <1>1, <2>3, AimFacts
    <3> QED BY <2>1, <3>3, <3>4
  <2>4. CASE ~(/\ job.step = "esptool" /\ job.phase = "main"
               /\ job.name \in {"flash", "inject", "factory"})
    <3>1. UNCHANGED bench
      BY <2>4 DEF Close
    <3> QED BY <3>1 DEF BenchTypeOK, bench
  <2> QED BY <2>2, <2>3, <2>4
<1>3. /\ list' = Listed(ListPorts, <<>>) /\ sel' = Selected(list', 0)
      /\ busy' = FALSE /\ cancel' = FALSE /\ queue' = <<>> /\ job' = Idle
      /\ form' = prefs /\ UNCHANGED <<prefs, uses>>
  BY DEF Close
<1>4. list' \in Seq(Entries) /\ sel' \in 0..Len(list') /\ (sel' = 0 <=> list' = <<>>)
  <2> DEFINE old == <<>>
  <2>1. old \in Seq(Entries) /\ list' = Listed(ListPorts, old)
    BY <1>3
  <2> HIDE DEF old
  <2>2. list' \in Seq(Entries)
    BY <2>1, ListedFacts
  <2> DEFINE new == list'
  <2>3. new \in Seq(Entries) /\ sel' = Selected(new, 0)
    BY <1>3, <2>2
  <2> HIDE DEF new
  <2>4. Selected(new, 0) \in 0..Len(new) /\ (Selected(new, 0) = 0 <=> new = <<>>)
    BY <2>3, SelectedFacts
  <2> QED BY <2>2, <2>3, <2>4 DEF new
<1>5. hist' = [b \in Boards |-> hist'[b]]
  <2>1. hist' \in {hist, [b \in Boards |-> None], [hist EXCEPT ![job.mac] = job.cfg]}
    BY DEF Close, Recorded
  <2> QED BY <1>1, <2>1
<1>6. WindowInv' /\ QueueInv' /\ SaidInv'
  <2>1. WindowInv'
    BY <1>1, <1>3, <1>4, <1>5 DEF WindowInv
  <2>2. QueueInv'
    BY <1>3 DEF QueueInv, Idle
  <2> QED BY <1>3, <2>1, <2>2, NothingSaid
<1>7. JobInv'
  <2>1. Idle \in Workers /\ Idle.step = "idle"
    BY DEF Workers, Idle, Jobs
  <2>2. job' \in Workers /\ job'.step = "idle"
    BY <1>3, <2>1 DEF Workers
  <2> QED BY <2>2 DEF JobInv, KnownInv, WrittenInv
<1> QED BY <1>2, <1>6, <1>7 DEF ToolInv
-----------------------------------------------------------------------------
(* The board check *)

\* A line of the table.
Row4 == [slot : Slots, board : Boards \cup {NoBoard}, held : Boards \cup {NoBoard},
         result : {"PASS", "WARN", "FAIL", "none"}, rc : 0..3]

\* While the setup tool works the board check does nothing.
LEMMA CheckRests ==
  ASSUME TestInv, step = "idle", UNCHANGED check
  PROVE  TestInv'
<1>1. /\ step' = "idle" /\ UNCHANGED <<cands, port, rows, exit>> /\ rows = <<>> /\ cands = <<>>
  BY DEF TestInv, TableInv, check
<1>2. CheckInv'
  BY <1>1 DEF TestInv, CheckInv
<1>3. TurnInv'
  BY <1>1 DEF TurnInv
<1>4. TableInv'
  <2>1. rows' = <<>> /\ cands' = <<>> /\ DOMAIN rows' = {} /\ Len(rows') = 0 /\ Len(cands') = 0
    BY <1>1
  <2> QED BY <1>1, <2>1 DEF TableInv
<1> QED BY <1>2, <1>3, <1>4 DEF TestInv

\* While the board check works the setup tool does nothing.
LEMMA ToolRests ==
  ASSUME ToolInv, ~busy, UNCHANGED window, uses' \in 0..MaxUses
  PROVE  ToolInv' /\ ~busy'
<1>1. job.step = "idle" /\ ~cancel /\ queue = <<>>
  BY Calm
<1>2. UNCHANGED <<list, sel, busy, cancel, form, prefs, queue, job, hist>>
  BY DEF window
<1>3. WindowInv'
  BY <1>2 DEF ToolInv, WindowInv
<1>4. QueueInv' /\ SaidInv'
  BY <1>1, <1>2, NothingSaid DEF QueueInv
<1>5. JobInv'
  BY <1>1, <1>2 DEF ToolInv, JobInv, KnownInv, WrittenInv, Workers
<1> QED BY <1>2, <1>3, <1>4, <1>5 DEF ToolInv

\* The exit status is 0 if every board passed, and at most 3.
LEMMA WorstFacts ==
  ASSUME NEW table \in Seq(Row4), \A i \in DOMAIN table : table[i].rc = ExitCode(table[i].result)
  PROVE  /\ WorstRc(table) \in 0..3
         /\ WorstRc(table) = 0 <=> \A i \in DOMAIN table : table[i].result = "PASS"
<1> DEFINE S == {0} \cup {table[i].rc : i \in DOMAIN table}
<1>1. \A i \in DOMAIN table : /\ table[i].rc \in 0..3
                              /\ table[i].result \in {"PASS", "WARN", "FAIL", "none"}
  <2> SUFFICES ASSUME NEW i \in DOMAIN table
               PROVE  table[i].rc \in 0..3 /\ table[i].result \in {"PASS", "WARN", "FAIL", "none"}
    OBVIOUS
  <2>1. table[i] \in Row4
    OBVIOUS
  <2> QED BY <2>1 DEF Row4
<1>2. \A i \in DOMAIN table : table[i].rc = 0 <=> table[i].result = "PASS"
  BY <1>1 DEF ExitCode
<1>3. S \subseteq {0, 1, 2, 3} /\ 0 \in S
  BY <1>1
<1>4. \A i \in DOMAIN table : table[i].rc \in S
  OBVIOUS
<1>5. \A x \in S : x = 0 \/ \E i \in DOMAIN table : x = table[i].rc
  OBVIOUS
<1> HIDE DEF S
<1>6. \E x \in S : \A y \in S : x >= y
  <2>1. CASE 3 \in S
    BY <1>3, <2>1
  <2>2. CASE 3 \notin S /\ 2 \in S
    BY <1>3, <2>2
  <2>3. CASE 3 \notin S /\ 2 \notin S /\ 1 \in S
    BY <1>3, <2>3
  <2>4. CASE 3 \notin S /\ 2 \notin S /\ 1 \notin S
    BY <1>3, <2>4
  <2> QED BY <2>1, <2>2, <2>3, <2>4
<1>7. Max(S) \in S /\ \A y \in S : Max(S) >= y
  BY <1>6, Zenon DEF Max
<1>8. Max(S) \in 0..3
  <2>1. \A x \in S : x \in 0..3
    BY <1>3
  <2> QED BY <1>7, <2>1
<1>9. ASSUME \A i \in DOMAIN table : table[i].result = "PASS" PROVE Max(S) = 0
  BY <1>2, <1>5, <1>7, <1>9
<1>10. ASSUME Max(S) = 0, NEW i \in DOMAIN table PROVE table[i].result = "PASS"
  <2>1. table[i].rc \in 0..3 /\ 0 >= table[i].rc
    BY <1>1, <1>4, <1>7, <1>10
  <2>2. table[i].rc = 0
    BY <2>1
  <2> QED BY <1>2, <2>2
<1>11. WorstRc(table) = Max(S)
  BY Zenon DEF WorstRc, S
<1> QED BY <1>8, <1>9, <1>10, <1>11

\* A line about the board under test is written: on to the next board, or the summary.
LEMMA RowKeeps ==
  ASSUME BenchTypeOK, TestInv, step \in {"flash", "reset", "capture"}, ~busy',
         UNCHANGED <<socket, tty, cands, flashed>>, NEW result \in {"PASS", "WARN", "FAIL", "none"},
         NEW board \in {NoBoard, BoardAt(port)}, Row(result, board),
         result \in {"PASS", "WARN"} => board \notin Faulty \cup {NoBoard}
  PROVE  TestInv'
<1> DEFINE C == [slot : Slots, dev : Ttys]
           n == at + 1
<1>1. /\ cands \in Seq(C) /\ at \in DOMAIN cands /\ Len(rows) = at - 1 /\ rows \in Seq(Row4)
      /\ exit \in {Running} \cup 0..3 /\ (step \in {"summary", "traceback"}) = (exit # Running)
      /\ \A k \in DOMAIN cands : k > at /\ socket[cands[k].slot] # NoBoard =>
           tty[cands[k].slot] = cands[k].dev
      /\ \A i, j \in DOMAIN cands : i # j => /\ cands[i].slot # cands[j].slot
                                             /\ cands[i].dev # cands[j].dev
  BY DEF TestInv, CheckInv, TurnInv, Row4
<1>2. \A i \in DOMAIN rows :
        /\ rows[i].slot = cands[i].slot
        /\ rows[i].board \in {NoBoard, rows[i].held} \/ rows[i].held = NoBoard
        /\ rows[i].result \in {"PASS", "WARN"} => rows[i].board \notin Faulty \cup {NoBoard}
        /\ rows[i].rc = ExitCode(rows[i].result)
  BY DEF TestInv, TableInv
<1> HIDE DEF C
<1>3. \A k \in DOMAIN cands : cands[k].slot \in Slots /\ cands[k].dev \in Ttys
  <2>1. \A k \in DOMAIN cands : cands[k] \in C
    BY <1>1
  <2> QED BY <2>1 DEF C
<1>4. DOMAIN cands = 1..Len(cands) /\ Len(cands) \in Nat /\ at \in 1..Len(cands)
  BY <1>1
<1> DEFINE s    == cands[at].slot
           line == [slot |-> s, board |-> board, held |-> socket[s], result |-> result, rc |-> ExitCode(result)]
<1>5. line \in Row4 /\ line.slot = s /\ line.board = board /\ line.result = result
      /\ line.held = socket[s] /\ line.rc = ExitCode(result)
  <2>1. ExitCode(result) \in 0..3
    BY DEF ExitCode
  <2>2. board \in Boards \cup {NoBoard} /\ s \in Slots /\ socket[s] \in Boards \cup {NoBoard}
    BY <1>3, <1>4, AtFacts DEF BenchTypeOK
  <2> HIDE DEF s
  <2> QED BY <2>1, <2>2 DEF Row4
<1>6. rows' = Append(rows, line)
  BY DEF Row
<1>7. board \in {NoBoard, socket[s]} \/ socket[s] = NoBoard
  <2> SUFFICES ASSUME socket[s] # NoBoard PROVE BoardAt(port) = socket[s]
    OBVIOUS
  <2>1. tty[s] = port /\ s \in Slots
    BY <1>1, <1>3 DEF TestInv, TurnInv
  <2>2. port # NoTty
    BY <2>1 DEF BenchTypeOK
  <2>3. s \in SlotsAt(port)
    BY <2>1, <2>2 DEF SlotsAt
  <2> QED BY <2>3, AtFacts
<1> HIDE DEF line
<1>8. /\ rows' \in Seq(Row4) /\ Len(rows') = at /\ DOMAIN rows' = 1..at
      /\ rows'[at] = line /\ \A i \in DOMAIN rows : rows'[i] = rows[i]
      /\ DOMAIN rows = 1..(at - 1)
  BY <1>1, <1>4, <1>5, <1>6
<1>9. \A i \in DOMAIN rows' :
        /\ rows'[i].slot = cands[i].slot
        /\ rows'[i].board \in {NoBoard, rows'[i].held} \/ rows'[i].held = NoBoard
        /\ rows'[i].result \in {"PASS", "WARN"} => rows'[i].board \notin Faulty \cup {NoBoard}
        /\ rows'[i].rc = ExitCode(rows'[i].result)
  <2> SUFFICES ASSUME NEW i \in DOMAIN rows'
               PROVE  /\ rows'[i].slot = cands[i].slot
                      /\ rows'[i].board \in {NoBoard, rows'[i].held} \/ rows'[i].held = NoBoard
                      /\ rows'[i].result \in {"PASS", "WARN"} =>
                           rows'[i].board \notin Faulty \cup {NoBoard}
                      /\ rows'[i].rc = ExitCode(rows'[i].result)
    OBVIOUS
  <2>1. CASE i \in DOMAIN rows
    BY <1>2, <1>8, <2>1
  <2>2. CASE i \notin DOMAIN rows
    <3>1. i = at
      BY <1>4, <1>8, <2>2
    <3> QED BY <1>5, <1>7, <1>8, <3>1
  <2> QED BY <2>1, <2>2
<1>10. CASE at < Len(cands)
  <2>1. at' = n /\ port' = cands[n].dev /\ step' \in {"flash", "capture"} /\ UNCHANGED exit
    BY <1>10 DEF Row, RunOnce
  <2>2. n \in DOMAIN cands /\ n > at
    BY <1>4, <1>10
  <2>3. CheckInv'
    BY <1>1, <1>3, <1>8, <2>1, <2>2 DEF CheckInv, Row4, C
  <2>4. TurnInv'
    <3>1. socket'[cands'[at'].slot] # NoBoard => tty'[cands'[at'].slot] = port'
      BY <1>1, <2>1, <2>2
    <3>2. \A k \in DOMAIN cands' : k > at' /\ socket'[cands'[k].slot] # NoBoard =>
            tty'[cands'[k].slot] = cands'[k].dev /\ port' # cands'[k].dev
      BY <1>1, <1>4, <2>1, <2>2
    <3>3. at' \in DOMAIN cands' /\ Len(rows') = at' - 1
      BY <1>4, <1>8, <2>1, <2>2
    <3> QED BY <3>1, <3>2, <3>3 DEF TurnInv
  <2>5. TableInv'
    <3>1. Len(rows') <= Len(cands')
      BY <1>4, <1>8
    <3> QED BY <1>9, <2>1, <3>1 DEF TableInv
  <2> QED BY <2>3, <2>4, <2>5 DEF TestInv
<1>11. CASE ~(at < Len(cands))
  <2>1. step' = "summary" /\ exit' = WorstRc(rows') /\ UNCHANGED <<at, port, tries>>
    BY <1>11 DEF Row
  <2> DEFINE table == rows'
  <2>2. table \in Seq(Row4) /\ \A i \in DOMAIN table : table[i].rc = ExitCode(table[i].result)
    BY <1>8, <1>9
  <2> HIDE DEF table
  <2>3. /\ WorstRc(table) \in 0..3
        /\ WorstRc(table) = 0 <=> \A i \in DOMAIN table : table[i].result = "PASS"
    BY <2>2, WorstFacts
  <2>4. exit' \in 0..3 /\ exit' # Running
    BY <2>1, <2>3 DEF Running, table
  <2>5. CheckInv'
    <3>1. port \in Ttys \cup {NoTty}
      BY DEF TestInv, CheckInv
    <3> QED BY <1>1, <1>8, <2>1, <2>4, <3>1 DEF CheckInv, Row4, C
  <2>6. TurnInv'
    BY <2>1 DEF TurnInv
  <2>7. TableInv'
    <3>1. Len(rows') = Len(cands')
      BY <1>4, <1>8, <1>11
    <3> QED BY <1>4, <1>9, <2>1, <2>3, <3>1 DEF TableInv, table
  <2> QED BY <2>5, <2>6, <2>7 DEF TestInv
<1> QED BY <1>10, <1>11
\* The board under test stays where it is.
LEMMA TurnGoesOn ==
  ASSUME TestInv, step \in {"flash", "reset", "capture"}, ~busy',
         UNCHANGED <<socket, tty, cands, at, port, rows, exit>>,
         step' \in {"flash", "reset", "capture"}
  PROVE  TestInv'
<1>1. CheckInv'
  BY DEF TestInv, CheckInv
<1>2. TurnInv'
  BY DEF TestInv, TurnInv
<1>3. TableInv'
  BY DEF TestInv, TableInv
<1> QED BY <1>1, <1>2, <1>3 DEF TestInv

\* The check firmware is flashed.
LEMMA CheckFlashKeeps ==
  ASSUME BenchTypeOK, TestInv, ~busy', NEW r, CheckFlash(r)
  PROVE  BenchTypeOK' /\ TestInv'
<1>1. BenchTypeOK' /\ UNCHANGED <<socket, tty>>
  BY WriteFwFacts DEF CheckFlash
<1>2. step \in {"flash", "reset", "capture"} /\ UNCHANGED <<cands, flashed>>
  BY DEF CheckFlash
<1>3. CASE r = "ok" \/ (r = "stall" /\ tries = 0)
  <2>1. step' \in {"flash", "reset", "capture"} /\ UNCHANGED <<at, port, rows, exit>>
    BY <1>3 DEF CheckFlash
  <2> QED BY <1>1, <1>2, <2>1, TurnGoesOn
<1>4. CASE ~(r = "ok" \/ (r = "stall" /\ tries = 0))
  <2> DEFINE board  == NoBoard
             result == "none"
  <2>1. Row(result, board)
    BY <1>4 DEF CheckFlash
  <2>2. board \in {NoBoard, BoardAt(port)} /\ result \in {"PASS", "WARN", "FAIL", "none"}
        /\ result \notin {"PASS", "WARN"}
    OBVIOUS
  <2> HIDE DEF board, result
  <2> QED BY <1>1, <1>2, <2>1, <2>2, RowKeeps
<1> QED BY <1>3, <1>4

\* usb_reset.recover: the board under test is found at its new tty, and no other board
\* was there.
LEMMA CheckResetKeeps ==
  ASSUME BenchTypeOK, TestInv, ~busy', NEW p, CheckReset(p)
  PROVE  BenchTypeOK' /\ TestInv'
<1>1. /\ step = "reset" /\ step' = "flash" /\ port' = p /\ UNCHANGED <<cands, at, rows, exit>>
      /\ Recover(port, p)
  BY DEF CheckReset
<1>2. BenchTypeOK' /\ UNCHANGED <<socket, fw, nvs>> /\ p \in Ttys
  BY <1>1, RecoverFacts
<1>3. PICK s \in SlotsAt(port) :
        /\ s \in Slots /\ tty' = [tty EXCEPT ![s] = p] /\ tty[s] = port
        /\ \A r \in Slots \ {s} : tty[r] # p
  BY <1>1, RecoverFacts
<1>4. /\ tty \in [Slots -> Ttys \cup {NoTty}]
      /\ \A k, r \in Slots : k # r /\ tty[k] # NoTty => tty[k] # tty[r]
      /\ port # NoTty
  BY AtFacts DEF BenchTypeOK
<1>5. tty'[s] = p /\ \A r \in Slots \ {s} : tty'[r] = tty[r]
  BY <1>3, <1>4
<1>6. CheckInv'
  BY <1>1, <1>2 DEF TestInv, CheckInv
<1>7. \A k \in DOMAIN cands : cands[k].slot \in Slots
  <2> DEFINE C == [slot : Slots, dev : Ttys]
  <2>1. cands \in Seq(C)
    BY DEF TestInv, CheckInv
  <2> HIDE DEF C
  <2>2. \A k \in DOMAIN cands : cands[k] \in C
    BY <2>1
  <2> QED BY <2>2 DEF C
<1>8. TurnInv'
  <2>1. /\ at \in DOMAIN cands /\ Len(rows) = at - 1
        /\ socket[cands[at].slot] # NoBoard => tty[cands[at].slot] = port
        /\ \A k \in DOMAIN cands : k > at /\ socket[cands[k].slot] # NoBoard =>
             tty[cands[k].slot] = cands[k].dev /\ port # cands[k].dev
    BY <1>1 DEF TestInv, TurnInv
  <2>2. socket'[cands'[at'].slot] # NoBoard => tty'[cands'[at'].slot] = port'
    BY <1>1, <1>2, <1>3, <1>4, <1>5, <1>7, <2>1
  <2>3. \A k \in DOMAIN cands' : k > at' /\ socket'[cands'[k].slot] # NoBoard =>
          tty'[cands'[k].slot] = cands'[k].dev /\ port' # cands'[k].dev
    BY <1>1, <1>2, <1>3, <1>5, <1>7, <2>1
  <2> QED BY <1>1, <2>1, <2>2, <2>3 DEF TurnInv
<1>9. TableInv'
  BY <1>1, <1>2 DEF TestInv, TableInv
<1> QED BY <1>2, <1>6, <1>8, <1>9 DEF TestInv

\* The reset fails, the console is read or cannot be, the program ends.
LEMMA CheckEndsKeep ==
  ASSUME BenchTypeOK, TestInv, ~busy',
         \/ CheckResetFails \/ CheckRaises \/ CheckExits
         \/ \E result \in {"PASS", "WARN", "FAIL", "none"}, seen \in BOOLEAN :
              CheckCapture(result, seen)
  PROVE  BenchTypeOK' /\ TestInv'
<1>1. UNCHANGED <<socket, tty, stalled, fw, nvs, faults>>
  BY DEF CheckResetFails, CheckRaises, CheckExits, CheckCapture, RecoverFails, bench
<1>2. BenchTypeOK'
  BY <1>1 DEF BenchTypeOK
<1>3. CASE CheckResetFails
  <2> DEFINE board  == NoBoard
             result == "none"
  <2>1. Row(result, board) /\ step = "reset" /\ UNCHANGED <<cands, flashed>>
    BY <1>3 DEF CheckResetFails
  <2>2. board \in {NoBoard, BoardAt(port)} /\ result \in {"PASS", "WARN", "FAIL", "none"}
        /\ result \notin {"PASS", "WARN"}
    OBVIOUS
  <2> HIDE DEF board, result
  <2> QED BY <1>1, <1>2, <2>1, <2>2, RowKeeps
<1>4. CASE CheckExits
  <2>1. /\ step' = "idle" /\ cands' = <<>> /\ port' = NoTty /\ rows' = <<>> /\ exit' = Running
    BY <1>4 DEF CheckExits
  <2>2. Len(rows') = 0 /\ Len(cands') = 0 /\ DOMAIN rows' = {} /\ DOMAIN cands' = {}
    BY <2>1
  <2>3. CheckInv'
    BY <2>1, <2>2 DEF CheckInv
  <2>4. TurnInv' /\ TableInv'
    BY <2>1, <2>2 DEF TurnInv, TableInv
  <2> QED BY <1>2, <2>3, <2>4 DEF TestInv
<1>5. ASSUME NEW result \in {"PASS", "WARN", "FAIL", "none"}, NEW seen \in BOOLEAN,
             CheckCapture(result, seen)
      PROVE  TestInv'
  <2> DEFINE board == IF result # "none" \/ (seen /\ Verdicts(BoardAt(port)) # {"none"})
                      THEN BoardAt(port) ELSE NoBoard
  <2>1. Row(result, board) /\ step = "capture" /\ UNCHANGED <<cands, flashed>>
        /\ result \in Verdicts(BoardAt(port))
    BY <1>5 DEF CheckCapture
  <2>2. board \in {NoBoard, BoardAt(port)}
    OBVIOUS
  <2>3. result \in {"PASS", "WARN"} => board \notin Faulty \cup {NoBoard}
    BY <2>1 DEF Verdicts
  <2> HIDE DEF board
  <2> QED BY <1>1, <2>1, <2>2, <2>3, RowKeeps
<1>6. CASE CheckRaises
  <2>1. step' = "traceback" /\ exit' = 1 /\ UNCHANGED <<cands, port, rows, socket, tty>>
    BY <1>1, <1>6 DEF CheckRaises
  <2>2. CheckInv'
    BY <2>1 DEF TestInv, CheckInv, Running
  <2>3. TurnInv' /\ TableInv'
    BY <2>1 DEF TestInv, TurnInv, TableInv
  <2> QED BY <1>2, <2>2, <2>3 DEF TestInv
<1>7. TestInv'
  BY <1>3, <1>4, <1>5, <1>6
<1> QED BY <1>2, <1>7

\* main: the boards that are there, one after the other.
LEMMA CheckKeeps ==
  ASSUME BenchTypeOK, TestInv, ~busy', NEW all, NEW flash, Check(all, flash)
  PROVE  BenchTypeOK' /\ TestInv'
<1>1. UNCHANGED <<socket, tty, stalled, fw, nvs, faults>>
  BY DEF Check, bench
<1>2. BenchTypeOK'
  BY <1>1 DEF BenchTypeOK
<1> DEFINE C == [slot : Slots, dev : Ttys]
<1>3. /\ cands' = ListPorts /\ rows' = <<>> /\ ListPorts \in Seq(C)
      /\ \A i \in DOMAIN ListPorts : tty[ListPorts[i].slot] = ListPorts[i].dev
      /\ \A i, j \in DOMAIN ListPorts :
           i # j => /\ ListPorts[i].slot # ListPorts[j].slot
                    /\ ListPorts[i].dev # ListPorts[j].dev
  BY ListPortsFacts DEF Check
<1> HIDE DEF C
<1>4. cands' \in Seq(C) /\ DOMAIN cands' = 1..Len(cands') /\ Len(cands') \in Nat
  BY <1>3
<1>5. /\ \A i, j \in DOMAIN cands' : i # j => /\ cands'[i].slot # cands'[j].slot
                                              /\ cands'[i].dev # cands'[j].dev
      /\ Len(rows') = 0 /\ DOMAIN rows' = {} /\ rows' = <<>>
  BY <1>3
<1>6. /\ rows' \in Seq(Row4) /\ port \in Ttys \cup {NoTty} /\ exit \in {Running} \cup 0..3
  BY <1>3 DEF TestInv, CheckInv
<1>7. CASE Len(cands') = 1 \/ (all /\ cands' # <<>>)
  <2>1. /\ exit' = Running /\ at' = 1 /\ port' = cands'[1].dev /\ step' \in {"flash", "capture"}
    BY <1>7 DEF Check, RunOnce
  <2>2. 1 \in DOMAIN cands'
    BY <1>4, <1>7
  <2>3. cands'[1].dev \in Ttys
    <3>1. cands'[1] \in C
      BY <1>4, <2>2
    <3> QED BY <3>1 DEF C
  <2>4. CheckInv'
    BY <1>4, <1>5, <1>6, <2>1, <2>3 DEF CheckInv, Row4, C
  <2>5. TurnInv'
    <3>1. tty'[cands'[at'].slot] = port'
      BY <1>1, <1>3, <2>1, <2>2
    <3>2. \A k \in DOMAIN cands' : k > at' =>
            tty'[cands'[k].slot] = cands'[k].dev /\ port' # cands'[k].dev
      BY <1>1, <1>3, <1>5, <2>1, <2>2
    <3>3. at' \in DOMAIN cands' /\ Len(rows') = at' - 1
      BY <1>5, <2>1, <2>2
    <3> QED BY <3>1, <3>2, <3>3 DEF TurnInv
  <2>6. TableInv'
    BY <1>4, <1>5, <2>1 DEF TableInv
  <2> QED BY <1>2, <2>4, <2>5, <2>6 DEF TestInv
<1>8. CASE ~(Len(cands') = 1 \/ (all /\ cands' # <<>>))
  <2>1. exit' = 3 /\ step' = "summary" /\ UNCHANGED <<at, port, tries>>
    BY <1>8 DEF Check
  <2>2. CheckInv'
    BY <1>4, <1>5, <1>6, <2>1 DEF CheckInv, Row4, C, Running
  <2>3. TurnInv' /\ TableInv'
    BY <1>4, <1>5, <2>1 DEF TurnInv, TableInv
  <2> QED BY <1>2, <2>2, <2>3 DEF TestInv
<1> QED BY <1>7, <1>8
-----------------------------------------------------------------------------
(* The steps of the whole bench *)

\* A cable that is pulled takes a board away from a job and from the board check, and
\* gives neither another one.
LEMMA UnplugKeeps ==
  ASSUME BenchInv, NEW s \in Slots, Unplug(s), UNCHANGED <<gui, check>>
  PROVE  BenchInv'
<1>1. BenchTypeOK /\ ToolInv /\ TestInv
  BY DEF BenchInv
<1>2. /\ BenchTypeOK' /\ UNCHANGED <<fw, nvs>>
      /\ socket' = [socket EXCEPT ![s] = NoBoard] /\ tty' = [tty EXCEPT ![s] = NoTty]
  BY <1>1, HandsFacts
<1>3. /\ UNCHANGED <<list, sel, busy, cancel, form, prefs, queue, job, hist, uses>>
      /\ UNCHANGED <<step, cands, at, port, rows, exit>>
  BY DEF gui, window, check
<1>4. /\ \A r \in Slots : r # s => tty'[r] = tty[r] /\ socket'[r] = socket[r]
      /\ tty'[s] = NoTty /\ socket'[s] = NoBoard
  <2>1. tty \in [Slots -> Ttys \cup {NoTty}] /\ socket \in [Slots -> Boards \cup {NoBoard}]
    BY <1>1 DEF BenchTypeOK
  <2> QED BY <1>2, <2>1
<1>5. ToolInv'
  <2>1. WindowInv' /\ QueueInv'
    BY <1>1, <1>3 DEF ToolInv, WindowInv, QueueInv
  <2>2. SaidInv'
    BY <1>1, <1>2, <1>3 DEF ToolInv, SaidInv, Says
  <2>3. Aimed(job) => Aimed(job)'
    BY <1>3, <1>4 DEF Aimed, SlotsAt
  <2>4. KnownInv'
    BY <1>1, <1>3, <2>3 DEF ToolInv, JobInv, KnownInv
  <2>5. WrittenInv'
    BY <1>1, <1>2, <1>3 DEF ToolInv, JobInv, WrittenInv, Binary, Configs
  <2>6. job' \in Workers
    BY <1>1, <1>3 DEF ToolInv, JobInv
  <2> QED BY <2>1, <2>2, <2>4, <2>5, <2>6 DEF ToolInv, JobInv, Workers
<1>6. CheckInv'
  BY <1>1, <1>3 DEF TestInv, CheckInv
<1>7. \A k \in DOMAIN cands : cands[k].slot \in Slots
  <2> DEFINE C == [slot : Slots, dev : Ttys]
  <2>1. cands \in Seq(C)
    BY <1>1 DEF TestInv, CheckInv
  <2> HIDE DEF C
  <2>2. \A k \in DOMAIN cands : cands[k] \in C
    BY <2>1
  <2> QED BY <2>2 DEF C
<1>8. TurnInv'
  <2> SUFFICES ASSUME step \in {"flash", "reset", "capture"} PROVE TurnInv'
    BY <1>3 DEF TurnInv
  <2>1. /\ at \in DOMAIN cands /\ Len(rows) = at - 1
        /\ socket[cands[at].slot] # NoBoard => tty[cands[at].slot] = port
        /\ \A k \in DOMAIN cands : k > at /\ socket[cands[k].slot] # NoBoard =>
             tty[cands[k].slot] = cands[k].dev /\ port # cands[k].dev
    BY <1>1 DEF TestInv, TurnInv
  <2>2. socket'[cands[at].slot] # NoBoard => tty'[cands[at].slot] = port
    BY <1>4, <1>7, <2>1
  <2>3. \A k \in DOMAIN cands : k > at /\ socket'[cands[k].slot] # NoBoard =>
          tty'[cands[k].slot] = cands[k].dev /\ port # cands[k].dev
    BY <1>4, <1>7, <2>1
  <2> QED BY <1>3, <2>1, <2>2, <2>3 DEF TurnInv
<1>9. TableInv'
  BY <1>1, <1>3 DEF TestInv, TableInv
<1> QED BY <1>2, <1>5, <1>6, <1>8, <1>9 DEF BenchInv, TestInv

\* A board is plugged in while neither tool works.
LEMMA PlugKeeps ==
  ASSUME BenchInv, Resting, NEW b \in Boards, NEW s \in Slots, Plug(b, s), UNCHANGED <<gui, check>>
  PROVE  BenchInv'
<1>1. BenchTypeOK /\ ToolInv /\ TestInv /\ ~busy /\ step = "idle"
  BY DEF BenchInv, Resting
<1>2. BenchTypeOK'
  BY <1>1, HandsFacts
<1>3. uses \in 0..MaxUses
  BY <1>1 DEF ToolInv, WindowInv
<1>4. ToolInv'
  BY <1>1, <1>3, ToolRests DEF gui
<1>5. TestInv'
  BY <1>1, CheckRests
<1> QED BY <1>2, <1>4, <1>5 DEF BenchInv

\* The setup tool, whose steps all preserve the first two parts.
LEMMA ToolKeeps ==
  ASSUME BenchInv, User \/ Worker \/ Pumping
  PROVE  BenchInv'
<1>1. BenchTypeOK /\ ToolInv /\ TestInv /\ UNCHANGED check
  BY DEF BenchInv, User, Worker, Pumping
<1>2. step = "idle"
  <2>1. CASE User
    BY <2>1 DEF User
  <2>2. CASE Worker
    <3>1. job.step # "idle"
      BY <2>2 DEF Worker, WorkerPreflight, WorkerEsptool, WorkerReset, WorkerResetFails,
                  WorkerRefused, WorkerBoot, WorkerRecord
    <3> QED BY <1>1, <3>1, Working DEF TestInv, CheckInv
  <2>3. CASE Pumping
    <3>1. busy
      BY <1>1, <2>3, Calm DEF Pumping, Pump
    <3> QED BY <1>1, <3>1 DEF TestInv, CheckInv
  <2> QED BY <2>1, <2>2, <2>3
<1>3. TestInv'
  BY <1>1, <1>2, CheckRests
<1>4. BenchTypeOK' /\ ToolInv'
  <2>1. CASE User
    <3>1. \/ OnFind \/ OnRefresh \/ OnReadSettings \/ OnFactoryReset
          \/ \E package \in Packages : OnFlashFirmware(package)
          \/ \E i \in DOMAIN list : OnSelect(i)
          \/ \E f \in Forms \cup {form}, answer \in {"next", "keep", "no conflict"} :
               OnInject(f, answer)
          \/ OnCancel \/ Close
      BY <2>1 DEF User
    <3> QED BY <1>1, <3>1, FindKeeps, ListKeeps, ButtonKeeps, InjectKeeps, CancelKeeps, CloseKeeps
  <2>2. CASE Worker
    <3>1. \/ \E r \in {"ok", "stall", "error"} : WorkerPreflight(r)
          \/ \E r \in {"ok", "stall", "error", "unverified", "cancel"} : WorkerEsptool(r)
          \/ \E p \in Ttys : WorkerReset(p)
          \/ WorkerResetFails \/ WorkerRefused
          \/ \E log \in BootLogs(BoardAt(job.port)) : WorkerBoot(log)
          \/ \E written \in BOOLEAN : WorkerRecord(written)
      BY <2>2 DEF Worker
    <3> QED BY <1>1, <3>1, PreflightKeeps, EsptoolKeeps, ResetKeeps, GivesUpKeeps, BootKeeps,
               RecordKeeps
  <2>3. CASE Pumping
    BY <1>1, <2>3, PumpKeeps DEF Pumping
  <2> QED BY <2>1, <2>2, <2>3
<1> QED BY <1>3, <1>4 DEF BenchInv

\* The board check, which finds the setup tool at rest.
LEMMA CheckingKeeps ==
  ASSUME BenchInv, Checking
  PROVE  BenchInv'
<1>1. BenchTypeOK /\ ToolInv /\ TestInv
  BY DEF BenchInv
<1>2. ~busy /\ UNCHANGED window /\ uses' \in 0..MaxUses
  <2>1. uses \in 0..MaxUses /\ MaxUses \in Nat
    BY <1>1, BenchAssumption DEF ToolInv, WindowInv
  <2>2. CASE CheckStep /\ UNCHANGED gui
    <3>1. step # "idle"
      BY <2>2 DEF CheckStep, CheckFlash, CheckReset, CheckResetFails, CheckRaises,
                  CheckExits, CheckCapture
    <3> QED BY <1>1, <2>1, <2>2, <3>1 DEF TestInv, CheckInv, gui
  <2>3. CASE ~(CheckStep /\ UNCHANGED gui)
    <3>1. ~busy /\ UNCHANGED window /\ uses < MaxUses /\ uses' = uses + 1
      BY <2>3 DEF Checking
    <3> QED BY <2>1, <3>1
  <2> QED BY <2>2, <2>3
<1>3. ToolInv' /\ ~busy'
  BY <1>1, <1>2, ToolRests
<1>4. BenchTypeOK' /\ TestInv'
  <2>1. \/ \E all \in BOOLEAN, flash \in BOOLEAN : Check(all, flash)
        \/ \E r \in {"ok", "error", "unverified", "stall"} : CheckFlash(r)
        \/ \E p \in Ttys : CheckReset(p)
        \/ CheckResetFails \/ CheckRaises \/ CheckExits
        \/ \E result \in {"PASS", "WARN", "FAIL", "none"}, seen \in BOOLEAN :
             CheckCapture(result, seen)
    BY DEF Checking, CheckStep
  <2> QED BY <1>1, <1>3, <2>1, CheckKeeps, CheckFlashKeeps, CheckResetKeeps, CheckEndsKeep
<1> QED BY <1>3, <1>4 DEF BenchInv

\* Before anything happens the boards are in their sockets, the lowest socket's board
\* has the lowest tty, and both tools are at rest.
LEMMA InitBench ==
  ASSUME Init
  PROVE  BenchInv
<1>1. /\ Slots \subseteq Nat /\ IsFiniteSet(Slots) /\ IsFiniteSet(Boards) /\ NoBoard \notin Boards
      /\ MaxTty \in Nat /\ MaxTty >= Cardinality(Slots) /\ Outdated \subseteq Boards
      /\ MaxFaults \in Nat /\ MaxUses \in Nat /\ MaxPort \in Nat \ {0}
  BY BenchAssumption
<1> DEFINE row == SetToSeq(Boards)
           N   == Cardinality(Boards)
<1>2. N \in Nat /\ row \in [1..N -> Boards]
  <2>1. N \in Nat /\ \E f : f \in Bijection(1..N, Boards)
    BY <1>1, FS_CardinalityType DEF ExistsBijection
  <2>2. \E f \in [1..N -> Boards] : IsInjective(f)
    BY <2>1 DEF Bijection, Injection, IsInjective
  <2> QED BY <2>1, <2>2, Zenon DEF SetToSeq
<1> HIDE DEF row, N
<1>3. /\ socket \in [Slots -> Boards \cup {NoBoard}]
      /\ tty = [s \in Slots |-> IF socket[s] = NoBoard THEN NoTty
                                ELSE Cardinality({r \in Slots : r < s /\ socket[r] # NoBoard})]
  <2>1. socket = [s \in Slots |-> IF s \in DOMAIN row THEN row[s] ELSE NoBoard]
    BY DEF Init, row
  <2>2. \A s \in Slots : (IF s \in DOMAIN row THEN row[s] ELSE NoBoard) \in Boards \cup {NoBoard}
    BY <1>2
  <2> QED BY <2>1, <2>2 DEF Init
<1> DEFINE Under(s) == {r \in Slots : r < s /\ socket[r] # NoBoard}
           rank(s)  == Cardinality(Under(s))
<1>4. ASSUME NEW s \in Slots
      PROVE  IsFiniteSet(Under(s)) /\ rank(s) \in Nat /\ rank(s) < Cardinality(Slots)
  <2>1. Under(s) \in SUBSET Slots /\ s \notin Under(s) /\ Under(s) # Slots
    BY <1>1
  <2> HIDE DEF Under
  <2>2. IsFiniteSet(Under(s)) /\ rank(s) \in Nat /\ Cardinality(Slots) \in Nat
        /\ rank(s) <= Cardinality(Slots)
    BY <1>1, <2>1, FS_Subset, FS_CardinalityType
  <2>3. rank(s) # Cardinality(Slots)
    BY <1>1, <2>1, FS_Subset
  <2> QED BY <2>2, <2>3
<1>5. ASSUME NEW s \in Slots, NEW r \in Slots, s < r, socket[s] # NoBoard
      PROVE  rank(s) # rank(r)
  <2>1. Under(s) \in SUBSET Under(r) /\ s \in Under(r) /\ s \notin Under(s)
    <3>1. \A m \in Slots : m < s => m < r
      <4>1. s \in Nat /\ r \in Nat /\ \A m \in Slots : m \in Nat
        BY <1>1
      <4> QED BY <1>5, <4>1
    <3>2. ~(s < s)
      BY <1>1
    <3>3. \A m \in Under(s) : m \in Under(r)
      BY <3>1
    <3> QED BY <1>5, <3>2, <3>3
  <2>2. IsFiniteSet(Under(r))
    BY <1>4
  <2> HIDE DEF Under
  <2> QED BY <2>1, <2>2, FS_Subset
<1>6. \A s \in Slots : tty[s] = IF socket[s] = NoBoard THEN NoTty ELSE rank(s)
  BY <1>3
<1> HIDE DEF rank
<1>7. tty \in [Slots -> Ttys \cup {NoTty}] /\ \A s \in Slots : tty[s] = NoTty <=> socket[s] = NoBoard
  <2>1. \A s \in Slots : rank(s) \in Ttys /\ rank(s) # NoTty
    <3>1. Cardinality(Slots) \in Nat
      BY <1>1, FS_CardinalityType
    <3> SUFFICES ASSUME NEW s \in Slots PROVE rank(s) \in Ttys /\ rank(s) # NoTty
      OBVIOUS
    <3>2. rank(s) \in Nat /\ rank(s) < Cardinality(Slots)
      BY <1>4
    <3>3. rank(s) \in 0..MaxTty /\ rank(s) # -1
      BY <1>1, <3>1, <3>2
    <3> QED BY <3>3 DEF Ttys, NoTty
  <2>2. \A s \in Slots : tty[s] \in Ttys \cup {NoTty}
    BY <1>6, <2>1
  <2> QED BY <1>3, <1>6, <2>1, <2>2
<1>8. \A s, r \in Slots : s # r /\ tty[s] # NoTty => tty[s] # tty[r]
  <2> SUFFICES ASSUME NEW s \in Slots, NEW r \in Slots, s # r, tty[s] # NoTty, tty[s] = tty[r]
               PROVE  FALSE
    OBVIOUS
  <2>1. socket[s] # NoBoard /\ socket[r] # NoBoard /\ rank(s) = rank(r)
    BY <1>6, <1>7
  <2>2. s < r \/ r < s
    BY <1>1
  <2> QED BY <1>5, <2>1, <2>2
<1>9. BenchTypeOK
  <2>1. stalled = {} /\ faults = 0
    BY DEF Init
  <2>2. fw \in [Boards -> {"deploy", "dev", "check", "broken"}]
    BY DEF Init
  <2>3. nvs \in [Boards -> Configs \cup {Blank, Torn}]
    BY DEF Init
  <2> QED BY <1>1, <1>3, <1>7, <1>8, <2>1, <2>2, <2>3 DEF BenchTypeOK
<1>10. WindowInv
  <2>1. list = Listed(ListPorts, <<>>) /\ sel = Selected(list, 0)
    BY DEF Init
  <2> DEFINE old == <<>>
  <2>2. old \in Seq(Entries) /\ list = Listed(ListPorts, old)
    BY <2>1
  <2> HIDE DEF old
  <2>3. list \in Seq(Entries)
    BY <1>9, <2>2, ListedFacts
  <2>4. sel \in 0..Len(list) /\ (sel = 0 <=> list = <<>>)
    BY <2>1, <2>3, SelectedFacts
  <2>5. Fresh \in Typed
    BY <1>1 DEF Fresh, Typed
  <2>6. /\ busy = FALSE /\ cancel = FALSE /\ form = Fresh /\ prefs = Fresh /\ uses = 0
        /\ hist = [b \in Boards |-> None]
    BY DEF Init
  <2>7. hist = [b \in Boards |-> hist[b]] /\ uses \in 0..MaxUses
    BY <1>1, <2>6
  <2> QED BY <2>3, <2>4, <2>5, <2>6, <2>7 DEF WindowInv
<1>11. QueueInv /\ JobInv /\ SaidInv
  <2>1. job = Idle /\ queue = <<>> /\ busy = FALSE /\ cancel = FALSE
    BY DEF Init
  <2>2. Idle \in Workers /\ Idle.step = "idle"
    BY DEF Workers, Idle, Jobs
  <2>3. DOMAIN queue = {}
    BY <2>1
  <2> QED BY <2>1, <2>2, <2>3 DEF QueueInv, JobInv, KnownInv, WrittenInv, SaidInv, Says
<1>12. TestInv
  <2>1. /\ step = "idle" /\ cands = <<>> /\ port = NoTty /\ rows = <<>> /\ exit = Running
        /\ busy = FALSE
    BY DEF Init, CheckInit
  <2>2. Len(rows) = 0 /\ Len(cands) = 0 /\ DOMAIN rows = {} /\ DOMAIN cands = {}
    BY <2>1
  <2>3. CheckInv
    BY <2>1, <2>2 DEF CheckInv
  <2>4. TurnInv /\ TableInv
    BY <2>1, <2>2 DEF TurnInv, TableInv
  <2> QED BY <2>3, <2>4 DEF TestInv
<1> QED BY <1>9, <1>10, <1>11, <1>12 DEF BenchInv, ToolInv
-----------------------------------------------------------------------------
(* The theorems *)

\* Every step of every part keeps the invariant.
LEMMA StepKeeps ==
  ASSUME BenchInv, [Next]_vars
  PROVE  BenchInv'
<1>1. CASE Hands
  <2>1. UNCHANGED <<gui, check>>
    BY <1>1 DEF Hands
  <2>2. CASE \E s \in Slots : Unplug(s)
    BY <2>1, <2>2, UnplugKeeps
  <2>3. CASE Resting /\ \E b \in Boards, s \in Slots : Plug(b, s)
    BY <2>1, <2>3, PlugKeeps
  <2> QED BY <1>1, <2>2, <2>3 DEF Hands
<1>2. CASE User \/ Worker \/ Pumping
  BY <1>2, ToolKeeps
<1>3. CASE Checking
  BY <1>3, CheckingKeeps
<1>4. CASE UNCHANGED vars
  <2>1. /\ UNCHANGED <<socket, tty, stalled, fw, nvs, faults, uses, window, check>>
        /\ UNCHANGED <<list, sel, busy, cancel, form, prefs, queue, job, hist>>
        /\ UNCHANGED <<step, cands, at, port, rows, exit>>
    BY <1>4 DEF vars, bench, gui, window, check
  <2>2. BenchTypeOK' /\ WindowInv' /\ QueueInv' /\ SaidInv'
    BY <2>1 DEF BenchInv, ToolInv, BenchTypeOK, WindowInv, QueueInv, SaidInv, Says
  <2>3. Aimed(job) => Aimed(job)'
    BY <2>1 DEF Aimed, SlotsAt
  <2>4. KnownInv'
    BY <2>1, <2>3 DEF BenchInv, ToolInv, JobInv, KnownInv
  <2>5. (job \in Workers)' /\ WrittenInv'
    BY <2>1 DEF BenchInv, ToolInv, JobInv, WrittenInv, Binary, Configs, Workers
  <2>6. CheckInv' /\ TurnInv' /\ TableInv'
    BY <2>1 DEF BenchInv, TestInv, CheckInv, TurnInv, TableInv
  <2> QED BY <2>2, <2>4, <2>5, <2>6 DEF BenchInv, ToolInv, JobInv, TestInv
<1> QED BY <1>1, <1>2, <1>3, <1>4 DEF Next

\* What the two tools know of the boards, the worker of the window, and the window of
\* the worker.
THEOREM AlwaysBenchInv == Spec => []BenchInv
<1>1. Init => BenchInv
  BY InitBench
<1>2. BenchInv /\ [Next]_vars => BenchInv'
  BY StepKeeps
<1> QED BY <1>1, <1>2, PTL DEF Spec

\* Every variable has a value of its kind, and a message one that _handle knows.
THEOREM TypeCorrect == Spec => []TypeOK
<1>1. BenchInv => TypeOK
  <2> SUFFICES ASSUME BenchInv PROVE TypeOK
    OBVIOUS
  <2>1. /\ BenchTypeOK /\ WindowInv /\ QueueInv /\ job \in Workers /\ KnownInv
        /\ CheckInv /\ TableInv
    BY DEF BenchInv, ToolInv, JobInv, TestInv
  <2>2. \A i \in DOMAIN list :
          /\ list[i].slot \in Slots /\ list[i].dev \in Ttys
          /\ list[i].mac \in Boards \cup {NoMac}
    <3>1. \A i \in DOMAIN list : list[i] \in Entries
      BY <2>1 DEF WindowInv
    <3> QED BY <3>1 DEF Entries
  <2>3. /\ job.name \in Jobs \cup {"none"} /\ job.phase \in {"mac", "main"}
        /\ job.step \in {"idle", "preflight", "esptool", "ask", "asked", "reset", "refused",
                         "boot", "record"}
        /\ job.tries \in {0, 1} /\ job.port \in Ttys \cup {NoTty}
    BY <2>1 DEF Workers
  <2>4. \A i \in DOMAIN queue : queue[i].kind \in {"ask", "prefill", "info", "busy"}
    <3>1. CASE queue = <<>>
      BY <3>1
    <3>2. CASE \E m \in Range(queue) : m.kind \in {"busy", "ask"} /\ queue = <<m>>
      BY <3>2
    <3>3. CASE \E m, k \in Range(queue) : m.kind = "busy" /\ k.kind \in {"info", "prefill"}
                                          /\ queue = <<k, m>>
      BY <3>3
    <3>4. \/ queue = <<>>
          \/ \E m \in Range(queue) : m.kind \in {"busy", "ask"} /\ queue = <<m>>
          \/ \E m, k \in Range(queue) : m.kind = "busy" /\ k.kind \in {"info", "prefill"}
                                        /\ queue = <<k, m>>
      BY <2>1 DEF QueueInv, WindowInv
    <3> QED BY <3>1, <3>2, <3>3, <3>4
  <2> QED BY <2>1, <2>2, <2>3, <2>4 DEF TypeOK, WindowInv, CheckInv, TableInv
<1> QED BY <1>1, AlwaysBenchInv, PTL

\* The box that reports a success tells the truth (_w_flash_fw, _w_inject, _w_factory),
\* but for the access point of a development build: it is posted after the last write,
\* and no board is written to while it is on its way.
THEOREM AlwaysSuccessIsTrue == Spec => []SuccessIsTrue
<1>1. ASSUME NEW b, nvs[b] \in Configs, fw[b] \in {"deploy", "dev"}, b \notin Faulty
      PROVE  WorksWith(b, nvs[b])
  <2> DEFINE stored == nvs[b]
  <2>1. \/ Applied(b) = stored
        \/ fw[b] # "deploy" /\ Applied(b) = [stored EXCEPT !.ssid = "kconfig"]
    BY <1>1 DEF Applied
  <2> HIDE DEF stored
  <2>2. /\ [stored EXCEPT !.ssid = "kconfig"].transport = stored.transport
        /\ [stored EXCEPT !.ssid = "kconfig"].port = stored.port
    BY <1>1 DEF Configs, stored
  <2> QED BY <1>1, <2>1, <2>2 DEF WorksWith, stored
<1>2. BenchInv => SuccessIsTrue
  <2> SUFFICES ASSUME SaidInv PROVE SuccessIsTrue
    BY DEF BenchInv, ToolInv
  <2> QED BY <1>1 DEF SaidInv, Says, SuccessIsTrue
<1> QED BY <1>2, AlwaysBenchInv, PTL

\* A cancel is never met by a later job than the one it was meant for (_start,
\* _set_busy).
THEOREM AlwaysCancelIsNotInherited == Spec => []CancelIsNotInherited
<1>1. BenchInv => CancelIsNotInherited
  BY DEF BenchInv, ToolInv, JobInv, KnownInv, CancelIsNotInherited
<1> QED BY <1>1, AlwaysBenchInv, PTL

\* The table of the board check is about the boards in the sockets it names, and its exit
\* status about the whole table (run_once, cmd_all).
THEOREM AlwaysRowsAreTrue == Spec => []RowsAreTrue
<1>1. BenchInv => RowsAreTrue
  <2> SUFFICES ASSUME BenchInv PROVE RowsAreTrue
    OBVIOUS
  <2>1. TableInv /\ rows \in Seq(Row4) /\ Len(rows) <= Len(cands) /\ Len(cands) \in Nat
    BY DEF BenchInv, TestInv, CheckInv, TableInv, Row4
  <2>2. \A i \in DOMAIN rows : i <= Len(cands)
    BY <2>1
  <2> QED BY <2>1, <2>2 DEF RowsAreTrue, TableInv
<1> QED BY <1>1, AlwaysBenchInv, PTL

\* A job changes the board it was started for and no other, whatever tty that board has
\* by then (usb_reset.stable_id, wait_for_port).
THEOREM AlwaysOnlyTheChosenBoard == Spec => OnlyTheChosenBoard
<1>1. ASSUME BenchInv, [Next]_vars
      PROVE  \A b \in Boards :
               busy /\ job.sure /\ b # job.aim => fw'[b] = fw[b] /\ nvs'[b] = nvs[b]
  <2>1. BenchTypeOK /\ ToolInv /\ TestInv
    BY <1>1 DEF BenchInv
  <2>2. CASE Hands
    BY <2>1, <2>2, HandsFacts DEF Hands
  <2>3. CASE User
    <3>1. Close \/ UNCHANGED bench
      BY <2>3 DEF User, OnFind, OnRefresh, OnReadSettings, OnFactoryReset, OnFlashFirmware,
                  OnSelect, OnInject, OnCancel
    <3>2. UNCHANGED bench => UNCHANGED <<fw, nvs>>
      BY DEF bench
    <3> QED BY <2>1, <3>1, <3>2, CloseKeeps
  <2>4. CASE Worker
    <3>1. \/ \E r \in {"ok", "stall", "error"} : WorkerPreflight(r)
          \/ \E r \in {"ok", "stall", "error", "unverified", "cancel"} : WorkerEsptool(r)
          \/ \E p \in Ttys : WorkerReset(p)
          \/ WorkerResetFails \/ WorkerRefused
          \/ \E log \in BootLogs(BoardAt(job.port)) : WorkerBoot(log)
          \/ \E written \in BOOLEAN : WorkerRecord(written)
      BY <2>4 DEF Worker
    <3>2. \A r : WorkerPreflight(r) => UNCHANGED <<fw, nvs>>
      BY DEF WorkerPreflight
    <3> QED BY <2>1, <3>1, <3>2, EsptoolFacts, ResetKeeps, GivesUpKeeps, BootKeeps, RecordKeeps
  <2>5. CASE Pumping
    <3>1. UNCHANGED bench
      BY <2>5 DEF Pumping, Pump
    <3> QED BY <3>1 DEF bench
  <2>6. CASE Checking
    <3>1. CASE CheckStep
      <4>1. step # "idle"
        BY <3>1 DEF CheckStep, CheckFlash, CheckReset, CheckResetFails, CheckRaises,
                  CheckExits, CheckCapture
      <4> QED BY <2>1, <4>1 DEF TestInv, CheckInv
    <3>2. CASE ~CheckStep
      BY <2>6, <3>2 DEF Checking
    <3> QED BY <3>1, <3>2
  <2>7. CASE UNCHANGED vars
    BY <2>7 DEF vars, bench
  <2> QED BY <1>1, <2>2, <2>3, <2>4, <2>5, <2>6, <2>7 DEF Next
<1>2. BenchInv /\ [Next]_vars =>
        [\A b \in Boards :
           busy /\ job.sure /\ b # job.aim => fw'[b] = fw[b] /\ nvs'[b] = nvs[b]]_vars
  BY <1>1
<1> QED BY <1>2, AlwaysBenchInv, PTL DEF Spec, OnlyTheChosenBoard

\* What the history gets to hear of a board is what the board was given and answered
\* (_do_inject, provision_log.record).
THEOREM AlwaysHistoryIsTrueWhenWritten == Spec => HistoryIsTrueWhenWritten
<1>1. ASSUME BenchInv, [Next]_vars
      PROVE  \A b \in Boards :
               hist'[b] \notin {hist[b], None} /\ job.sure =>
                 /\ nvs[b] = hist'[b]
                 /\ fw[b] = "deploy" => Applied(b) = hist'[b]
  <2> SUFFICES ASSUME NEW b \in Boards, hist'[b] # hist[b], hist'[b] # None, job.sure
               PROVE  nvs[b] = hist'[b] /\ (fw[b] = "deploy" => Applied(b) = hist'[b])
    OBVIOUS
  <2>1. /\ KnownInv /\ WrittenInv /\ hist = [c \in Boards |-> hist[c]]
    BY <1>1 DEF BenchInv, ToolInv, WindowInv, JobInv
  <2>2. Close \/ \E written \in BOOLEAN : WorkerRecord(written)
    <3>1. CASE UNCHANGED hist
      BY <3>1
    <3>2. CASE ~UNCHANGED hist
      <4>1. ~UNCHANGED gui /\ ~UNCHANGED window
        BY <3>2 DEF gui, window
      <4>2. ~Hands /\ ~Checking /\ ~Pumping /\ ~UNCHANGED vars
        BY <3>2, <4>1 DEF Hands, Checking, Pumping, Pump, vars
      <4>3. CASE User
        BY <3>2, <4>3 DEF User, OnFind, OnRefresh, OnReadSettings, OnFactoryReset,
                         OnFlashFirmware, OnSelect, OnInject, OnCancel
      <4>4. CASE Worker
        BY <3>2, <4>4 DEF Worker, WorkerPreflight, WorkerEsptool, WorkerReset, WorkerResetFails,
                         WorkerRefused, WorkerBoot
      <4> QED BY <1>1, <4>2, <4>3, <4>4 DEF Next
    <3> QED BY <3>1, <3>2
  <2>3. /\ job.step = "record" /\ job.mac # NoMac
        /\ hist' \in {hist, [c \in Boards |-> None], [hist EXCEPT ![job.mac] = job.cfg]}
    <3>1. CASE Close
      <4>1. hist' # hist
        OBVIOUS
      <4> QED BY <3>1, <4>1 DEF Close, Recorded
    <3>2. CASE \E written \in BOOLEAN : WorkerRecord(written)
      <4>1. hist' # hist
        OBVIOUS
      <4> QED BY <3>2, <4>1 DEF WorkerRecord, Recorded
    <3> QED BY <2>2, <3>1, <3>2
  <2>4. hist' = [hist EXCEPT ![job.mac] = job.cfg]
    BY <2>3
  <2>5. b = job.mac /\ hist'[b] = job.cfg
    BY <2>1, <2>4
  <2>6. job.mac = job.aim /\ nvs[job.aim] = job.cfg /\ job.cfg \in Configs
    BY <2>1, <2>3 DEF KnownInv, WrittenInv
  <2>7. fw[b] = "deploy" => Applied(b) = nvs[b]
    BY <2>5, <2>6 DEF Applied
  <2> QED BY <2>5, <2>6, <2>7
<1>2. BenchInv /\ [Next]_vars =>
        [\A b \in Boards :
           hist'[b] \notin {hist[b], None} /\ job.sure =>
             /\ nvs[b] = hist'[b]
             /\ fw[b] = "deploy" => Applied(b) = hist'[b]]_vars
  BY <1>1
<1> QED BY <1>2, AlwaysBenchInv, PTL DEF Spec, HistoryIsTrueWhenWritten
=============================================================================

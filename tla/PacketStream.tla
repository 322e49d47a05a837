----------------------------- MODULE PacketStream -----------------------------
(***************************************************************************)
(* From the bytes of one sensor to a data file and back                    *)
(*                                                                         *)
(*   sensor_link.py SensorLink._loop   cuts a serial byte stream, read in  *)
(*                                     chunks of any size, into packets    *)
(*   sensor_link.py UdpLink._loop      one packet a datagram               *)
(*   udp_receiver.py main              the same, as a tool of its own      *)
(*   the queue of a run                packets, as long as `recording' is  *)
(*                                     set and the queue is not full       *)
(*   iis3dwb_packet.py SeqTracker      counts what is missing              *)
(*   writer.py Writer._loop_bin        puts the packets back together      *)
(*   bin_to_csv.py iter_packets        reads that file, whole or cut off   *)
(*                                                                         *)
(* A byte is a cell: a small number, or one of the two cells of the magic, *)
(* which may turn up in boot logs and in samples as well.  A sample, the   *)
(* version, the count, the sequence number and the full scale take one     *)
(* cell each.  Sequence numbers run modulo Modulus (2^32 in the code).     *)
(***************************************************************************)
EXTENDS Integers, Sequences, FiniteSets, SequencesExt

CONSTANTS
  MaxSent,     \* bound: packets the device sends
  MaxRestarts, \* bound: reboots of the device
  MaxPuts,     \* bound: packets handed on in a run
  MaxCopies,   \* bound: copies the network makes of a datagram
  MaxSamples,  \* sensor_link.py MAX_SAMPLES
  Modulus,     \* sequence numbers are 0..Modulus-1
  GapLimit,    \* a gap this large is taken for a restart
  FirstSeqs,   \* where a device's numbering may stand when the link opens
  Versions,    \* packet versions of the devices
  Payloads,    \* what a packet may carry
  BootLogs,    \* what a booting device writes to the serial line
  Junk         \* datagrams of other programs

ASSUME StreamAssumption ==
  /\ MaxSent \in Nat /\ MaxRestarts \in Nat /\ MaxCopies \in Nat \ {0} /\ MaxPuts \in Nat
  /\ MaxSamples \in Nat \ {0}
  /\ Modulus \in Nat \ {0} /\ GapLimit \in 1..(Modulus - 1)
  /\ FirstSeqs \subseteq 0..(Modulus - 1)
  /\ Versions \subseteq Nat
  /\ \A p \in Payloads : p \in Seq(Nat) /\ Len(p) \in 1..MaxSamples
  /\ BootLogs \subseteq Seq(Nat) /\ Junk \subseteq Seq(Nat)

Magic    == <<8, 9>>
MagicLen == Len(Magic)
NoSeq    == -1
NoHeader == [version |-> 0, count |-> 0, seq |-> 0, size |-> 0]

VARIABLES
  kind,    \* "usb", "wifi": a link of the collector; "tool": udp_receiver
  version, \* the device's packet version
  nextSeq, \* the number the device gives its next packet
  sent,    \* history: what the device sent, with the boot it belongs to
  boot,    \* how often the device has restarted
  wire,    \* serial: cells not read yet, oldest first
  damage,  \* history: what the serial stream since the last flush has suffered:
           \* nothing, a start in the middle of a packet, or cells lost on the line
  net,     \* [ordinal of a datagram -> copies under way]
  buf,     \* SensorLink._loop: bytes not cut into packets yet
  cells,   \* history: cells read since the last flush
  got,     \* ordinals of the datagrams accepted, in order
  link,    \* last, lost, resync (relative to the run's base values) and out, the
           \* packets that came out whole
  recording, \* what the loop found `recording' to be: "off" until start() set it,
           \* "on", "over" since stop() cleared it; a tool of its own has it "on"
  put,     \* how many packets of link.out the loop is through with
  file,    \* those it has handed to the queue, which the writer puts into the file
  drops    \* queue_drops, relative to the run's base value

reading == <<kind, version, nextSeq, sent, boot, wire, damage, net, buf, cells, got,
             link>>
feed == <<recording, put, file, drops>>
vars == <<kind, version, nextSeq, sent, boot, wire, damage, net, buf, cells, got,
          link, recording, put, file, drops>>

Logs == BootLogs \cup {<<>>}

Packet == [version : Nat, seq : 0..(Modulus - 1), payload : Seq(Nat)]

\* Where the parsers stand between two turns of their loops.
Cuttings == [ buf  : Seq(Nat),
              link : [last : Nat \cup {NoSeq}, lost : Nat, resync : Nat, out : Seq(Packet)] ]
Scans    == [rest : Seq(Nat), packets : Seq(Packet), skipped : Nat]

NoLink == [last |-> NoSeq, lost |-> 0, resync |-> 0, out |-> <<>>]

Init ==
  /\ kind \in {"usb", "wifi", "tool"}
  /\ version \in Versions
  /\ nextSeq \in FirstSeqs
  /\ sent = <<>>
  /\ boot = 0
  /\ wire \in IF kind = "usb" THEN Logs ELSE {<<>>}
  /\ damage = "none"
  /\ net = [i \in 1..MaxSent |-> 0]
  /\ buf = <<>>
  /\ cells = <<>>
  /\ got = <<>>
  /\ link = NoLink
  /\ recording = IF kind = "tool" THEN "on" ELSE "off"
  /\ put = 0
  /\ file = <<>>
  /\ drops = 0

-----------------------------------------------------------------------------
(* iis3dwb_packet.py *)

HeaderSize(v) == IF v >= 2 THEN MagicLen + 4 ELSE MagicLen + 3

MagicAt(b, i) == i < Len(b) /\ b[i] = Magic[1] /\ b[i + 1] = Magic[2]

\* parse_header at the start of b: version 1 has no full scale.  Whatever stands where the
\* sequence number should makes a number of its width.
Header(b) ==
  IF /\ Len(b) >= HeaderSize(1) /\ MagicAt(b, 1)
     /\ Len(b) >= HeaderSize(b[MagicLen + 1])
  THEN [version |-> b[MagicLen + 1], count |-> b[MagicLen + 2],
        seq |-> b[MagicLen + 3] % Modulus, size |-> HeaderSize(b[MagicLen + 1])]
  ELSE NoHeader

Plausible(h) == h.count # 0 /\ h.count <= MaxSamples

Total(h) == h.size + h.count

Payload(b, h) == SubSeq(b, h.size + 1, Total(h))

PacketOf(b, h) == [version |-> h.version, seq |-> h.seq, payload |-> Payload(b, h)]

\* Slip: no mask, so that a gap across the turn of the numbers is negative.
GapUnmasked(last, seq) ==
  LET gap == seq - last - 1
  IN IF last # NoSeq /\ 0 < gap /\ gap < GapLimit THEN gap ELSE 0

\* Slip: a single missing packet is not counted.
GapAboveOne(last, seq) ==
  LET gap == (seq - last - 1) % Modulus
  IN IF last # NoSeq /\ 1 < gap /\ gap < GapLimit THEN gap ELSE 0

\* SeqTracker.update: what a new number adds to `lost'.
Gap(last, seq) ==
  LET gap == (seq - last - 1) % Modulus
  IN IF last # NoSeq /\ 0 < gap /\ gap < GapLimit THEN gap ELSE 0

\* SeqTracker counts every packet that came out, whether `recording' is set or not.
Accept(l, p) == [l EXCEPT !.lost = @ + Gap(l.last, p.seq),
                          !.last = p.seq,
                          !.out  = Append(@, p)]

Skip(l, n) == [l EXCEPT !.resync = @ + n]

\* writer.py _rebuild_header and the payload; also what the firmware sends.
Bytes(p) ==
  Magic \o <<p.version, Len(p.payload), p.seq>>
        \o (IF p.version >= 2 THEN <<4>> ELSE <<>>) \o p.payload

\* Where the magic first stands in b, or 0.
FindMagic(b) ==
  LET at == {i \in 1..Len(b) : MagicAt(b, i)}
  IN IF at = {} THEN 0 ELSE CHOOSE i \in at : \A j \in at : i <= j

From(b, i) == SubSeq(b, i, Len(b))

PacketsSent == [i \in DOMAIN sent |-> sent[i].packet]

FileBytes(out) == FlattenSeq([i \in DOMAIN out |-> Bytes(out[i])])

\* What is under way starts with a whole packet, or with (the rest of) a boot log.
AtBoundary(w) ==
  \E i \in 0..Len(sent), log \in Logs : \E k \in 1..(Len(log) + 1) :
    w = From(log, k) \o FileBytes(From(PacketsSent, i + 1))

-----------------------------------------------------------------------------
(* sensor_link.py *)

\* Slip: nothing is kept when no magic is in sight, not even the start of one.
KeepNothing(b) == <<>>

\* No magic: keep what may be the start of one.
KeepTail(b) == From(b, IF Len(b) < MagicLen THEN 1 ELSE Len(b) - MagicLen + 2)

\* Slip: only the header is taken out, the samples are searched for a magic.
RestAfterHeader(b, h) == From(b, h.size + 1)

Rest(b, h) == From(b, Total(h) + 1)

\* A turn of the inner loop of SensorLink._loop: a packet is taken, or what cannot be one
\* is passed over; nothing changes when more has to arrive first.
Cut(s) ==
  LET b == s.buf
      i == FindMagic(b)
      h == Header(b)
  IN CASE i = 0 ->
            [buf |-> KeepTail(b), link |-> Skip(s.link, Len(b) - Len(KeepTail(b)))]
       [] i > 1 -> [buf |-> From(b, i), link |-> Skip(s.link, i - 1)]
       [] i = 1 /\ h # NoHeader /\ ~Plausible(h) ->
            [buf |-> From(b, MagicLen + 1), link |-> Skip(s.link, MagicLen)]
       [] i = 1 /\ Plausible(h) /\ Total(h) <= Len(b) ->
            [buf |-> Rest(b, h), link |-> Accept(s.link, PacketOf(b, h))]
       [] OTHER -> s

\* The loop: turn after turn until one changes nothing.
Extract(b, l) ==
  LET loop[s \in Cuttings] ==
        LET t == Cut(s) IN IF t = s THEN s ELSE loop[t]
  IN loop[[buf |-> b, link |-> l]]

\* What the loop may find when it looks again.
Seen(r) ==
  CASE kind = "tool" -> {"on"}
    [] r = "off"     -> {"off", "on"}
    [] OTHER         -> {r, "over"}

\* Bound: the loop hands a packet on before it cuts the next; nothing it reads looks at the
\* queue, so here all that is under way comes first.
NothingUnderWay == wire = <<>> /\ \A i \in 1..MaxSent : net[i] = 0

\* Slip: a packet that finds the queue full is forgotten without a count.
PutOrForget(now, full) ==
  /\ NothingUnderWay /\ put < MaxPuts /\ put < Len(link.out)
  /\ now \in Seen(recording) /\ (full => now = "on" /\ kind # "tool")
  /\ recording' = now
  /\ put' = put + 1
  /\ file' = IF now = "on" /\ ~full THEN Append(file, link.out[put + 1]) ELSE file
  /\ UNCHANGED <<reading, drops>>

\* The loop hands the next packet that came out to the queue: only while `recording' is
\* set, and a full queue drops it and counts it.  udp_receiver.py writes every one.
Put(now, full) ==
  /\ NothingUnderWay /\ put < MaxPuts /\ put < Len(link.out)
  /\ now \in Seen(recording) /\ (full => now = "on" /\ kind # "tool")
  /\ recording' = now
  /\ put' = put + 1
  /\ file' = IF now = "on" /\ ~full THEN Append(file, link.out[put + 1]) ELSE file
  /\ drops' = IF full THEN drops + 1 ELSE drops
  /\ UNCHANGED reading

\* What flush() leaves to the run that it precedes.
NewRun ==
  /\ link' = NoLink
  /\ recording' = "off" /\ put' = 0 /\ file' = <<>> /\ drops' = 0

\* One turn of the loop: a chunk of any length has arrived.
Read(n) ==
  /\ kind = "usb"
  /\ n \in 1..Len(wire)
  /\ LET chunk == SubSeq(wire, 1, n)
         x     == Extract(buf \o chunk, link)
     IN /\ buf' = x.buf
        /\ link' = x.link
        /\ cells' = cells \o chunk
  /\ wire' = From(wire, n + 1)
  /\ UNCHANGED <<kind, version, nextSeq, sent, boot, damage, net, got, feed>>

\* The reader serves flush(): the driver's buffer, which holds the first n cells under
\* way, and the own buffer are emptied.  start() then takes the counters' values as
\* the run's base.
Flush(n) ==
  /\ kind = "usb" /\ damage # "line"
  /\ n \in 0..Len(wire)
  /\ wire' = From(wire, n + 1)
  /\ buf' = <<>>
  /\ cells' = <<>>
  /\ NewRun
  /\ damage' = IF AtBoundary(wire') THEN "none" ELSE "cut"
  /\ UNCHANGED <<kind, version, nextSeq, sent, boot, net, got>>

\* UdpLink's flush: _drain throws away what has arrived.
Drain ==
  /\ kind = "wifi"
  /\ \E arrived \in SUBSET {i \in 1..MaxSent : net[i] > 0} :
       net' = [i \in 1..MaxSent |-> IF i \in arrived THEN 0 ELSE net[i]]
  /\ NewRun
  /\ got' = <<>>
  /\ UNCHANGED <<kind, version, nextSeq, sent, boot, wire, damage, buf, cells>>

\* UdpLink asks for a plausible count, udp_receiver only for a header and its samples.
Takes(d) ==
  LET h == Header(d)
  IN /\ h # NoHeader
     /\ kind = "wifi" => Plausible(h)
     /\ Len(d) >= Total(h)

Receive(i) ==
  /\ kind # "usb"
  /\ net[i] > 0
  /\ net' = [net EXCEPT ![i] = @ - 1]
  /\ LET d == Bytes(sent[i].packet)
     IN /\ Takes(d)
        /\ link' = Accept(link, PacketOf(d, Header(d)))
        /\ got' = Append(got, i)
  /\ UNCHANGED <<kind, version, nextSeq, sent, boot, wire, damage, buf, cells, feed>>

\* A datagram that is no packet is counted (UdpLink.resync_bytes, bad_pkts).
ReceiveJunk(d) ==
  /\ kind # "usb"
  /\ link.resync = 0
  /\ ~Takes(d)
  /\ link' = Skip(link, Len(d))
  /\ UNCHANGED <<kind, version, nextSeq, sent, boot, wire, damage, net, buf, cells,
                 got, feed>>

-----------------------------------------------------------------------------
(* The device and what lies between (external) *)

\* Bound: reading commutes with what the device sends and the line loses later, so on a
\* serial line both come first; the chunks may still end anywhere.
NothingRead == cells = <<>>

Send(payload) ==
  /\ NothingRead
  /\ Len(sent) < MaxSent
  /\ LET p == [version |-> version, seq |-> nextSeq, payload |-> payload]
     IN /\ sent' = Append(sent, [boot |-> boot, packet |-> p])
        /\ IF kind = "usb"
           THEN wire' = wire \o Bytes(p) /\ UNCHANGED net
           ELSE /\ UNCHANGED wire
                /\ \E copies \in 0..MaxCopies :
                     net' = [net EXCEPT ![Len(sent) + 1] = copies]
  /\ nextSeq' = (nextSeq + 1) % Modulus
  /\ UNCHANGED <<kind, version, boot, damage, buf, cells, got, link,
                 feed>>

\* A reboot takes seconds: no datagram of the time before is still under way.
Restart(log) ==
  /\ NothingRead
  /\ boot < MaxRestarts
  /\ boot' = boot + 1
  /\ nextSeq' = 0
  /\ \A i \in 1..MaxSent : net[i] = 0
  /\ wire' = IF kind = "usb" THEN wire \o log ELSE wire
  /\ UNCHANGED <<kind, version, sent, damage, net, buf, cells, got, link,
                 feed>>

\* The serial driver's buffer overflows, or the line fails: cells i..j are gone.
\* Bound: once, in a full-length stream without a reboot or a flush.
LoseCells(i, j) ==
  /\ NothingRead
  /\ kind = "usb" /\ damage = "none" /\ boot = 0 /\ Len(sent) = MaxSent
  /\ i \in 1..Len(wire) /\ j \in i..Len(wire)
  /\ damage' = "line"
  /\ wire' = SubSeq(wire, 1, i - 1) \o From(wire, j + 1)
  /\ UNCHANGED <<kind, version, nextSeq, sent, boot, net, buf, cells, got, link, feed>>

Next ==
  \/ \E p \in Payloads : Send(p)
  \/ \E log \in BootLogs : Restart(log)
  \/ \E n \in 1..Len(wire) : Read(n)
  \/ \E n \in 0..Len(wire) : Flush(n)
  \/ \E i \in 1..Len(wire) : \E j \in i..Len(wire) : LoseCells(i, j)
  \/ \E i \in 1..Len(sent) : Receive(i)
  \/ \E d \in Junk : ReceiveJunk(d)
  \/ Drain
  \/ \E now \in {"off", "on", "over"}, full \in BOOLEAN : Put(now, full)

Spec == Init /\ [][Next]_vars

-----------------------------------------------------------------------------
(* bin_to_csv.py *)

\* n bytes are passed over.
Over(s, n) == [s EXCEPT !.rest = From(@, n + 1), !.skipped = @ + n]

\* Slip: a last packet that was cut off is passed over without a word.
ScanEndSilent(s) == [s EXCEPT !.rest = <<>>]

\* The end of iter_packets: a packet that is not all there ends the scan.
ScanEnd(s) == Over(s, Len(s.rest))

\* A turn of the loop of iter_packets.
ScanTurn(s) ==
  LET d == s.rest
      i == FindMagic(d)
      h == Header(d)
  IN CASE i = 0 -> Over(s, Len(d))
       [] i > 1 -> Over(s, i - 1)
       [] i = 1 /\ ~Plausible(h) -> Over(s, MagicLen)
       [] i = 1 /\ Plausible(h) /\ Len(d) < Total(h) -> ScanEnd(s)
       [] OTHER -> [s EXCEPT !.rest = From(d, Total(h) + 1),
                             !.packets = Append(@, PacketOf(d, h))]

\* iter_packets over d: the packets, and how many bytes were passed over.
ScanFile(d) ==
  LET loop[s \in Scans] == IF s.rest = <<>> THEN s ELSE loop[ScanTurn(s)]
  IN loop[[rest |-> d, packets |-> <<>>, skipped |-> 0]]

\* convert() and check() count the gaps again, without the mask.
FileGap(a, b) == IF 0 < b - a - 1 /\ b - a - 1 < GapLimit THEN b - a - 1 ELSE 0

FileGaps(out) ==
  LET gaps[n \in Nat] ==
        IF n \in 2..Len(out) THEN gaps[n - 1] + FileGap(out[n - 1].seq, out[n].seq) ELSE 0
  IN gaps[Len(out)]

-----------------------------------------------------------------------------
(* Properties *)

\* The types of the state; the assembly buffer never holds as much as the longest
\* packet once the inner loop is through with it (SensorLink._loop keeps nothing else).
TypeOK ==
  /\ kind \in {"usb", "wifi", "tool"}
  /\ version \in Versions
  /\ nextSeq \in 0..(Modulus - 1)
  /\ damage \in {"none", "cut", "line"}
  /\ net \in [1..MaxSent -> 0..MaxCopies]
  /\ got \in Seq(1..MaxSent)
  /\ link.last \in Nat \cup {NoSeq} /\ link.lost \in Nat /\ link.resync \in Nat
  /\ \A i \in DOMAIN link.out : link.out[i] \in Packet
  /\ recording \in {"off", "on", "over"}
  /\ put \in 0..Len(link.out) /\ file \in Seq(Packet) /\ drops \in 0..put
  /\ Len(buf) < HeaderSize(2) + MaxSamples

\* How the serial line hands the bytes over does not matter: whatever the sizes of the
\* chunks, the packets, the counters and the bytes kept are those of one read of it all, and
\* what is kept is always less than the longest packet.
ChunkingIrrelevant ==
  kind = "usb" =>
    /\ Extract(cells, NoLink) = [buf |-> buf, link |-> link]
    /\ Len(buf) < HeaderSize(2) + MaxSamples

Contiguous(out) ==
  \E j \in 0..(Len(sent) - Len(out)) : out = SubSeq(PacketsSent, j + 1, j + Len(out))

\* A stream that starts with a whole packet (or a boot log) and loses nothing is cut
\* where the device put its packets together, though samples look like a magic: every
\* packet comes out as it was sent, none is missing, and nothing but the boot log counts as
\* lost or as garbage.
InSync ==
  kind = "usb" /\ damage = "none" =>
    /\ Contiguous(link.out)
    /\ wire = <<>> => link.out = From(PacketsSent, Len(sent) - Len(link.out) + 1)
    /\ boot = 0 => link.lost = 0 /\ \E log \in Logs : link.resync <= Len(log)

Genuine(p) == \E i \in DOMAIN sent : sent[i].packet = p

\* No silent loss (sensor_link.py's docstring): when the line or flush() has cut the stream
\* anywhere and a packet that came out is not what the device sent, or one is missing
\* between two, lost_packets or resync_bytes of the run say so as soon as a packet has come
\* through whole again.  (Short of a magic among the samples, and of samples that can stand
\* in for a lost count and number: a header has no check sum.)
DamageLeavesATrace ==
  kind = "usb" /\ boot = 0 /\ link.out # <<>>
    /\ (\A i \in DOMAIN sent : sent[i].packet.payload # Magic) =>
    \/ ~Genuine(Last(link.out))
    \/ Contiguous(link.out)
    \/ link.lost + link.resync > 0

\* Datagrams that never came though a later one of their boot did, after its first.
Missing ==
  {x \in DOMAIN sent :
     LET here  == {i \in DOMAIN got : sent[got[i]].boot = sent[x].boot}
     IN /\ \E i \in here : got[i] < x /\ \A k \in here : i <= k
        /\ \E i \in here : got[i] > x
        /\ x \notin ToSet(got)}

InOrder == \A i, j \in DOMAIN got : i < j => got[i] < got[j]

\* SeqTracker never counts less than what is missing, be the datagrams reordered or
\* doubled, the numbers turning over or the device rebooting; and it counts exactly that
\* when they arrive in order.
MissingIsCounted ==
  kind # "usb" =>
  /\ link.lost >= Cardinality(Missing)
  /\ InOrder /\ boot = 0 => link.lost = Cardinality(Missing)

\* A step that both counts take for lost packets, or one to the same number.
Near(a, b) == (b - a) % Modulus <= GapLimit

InSteps(out) == \A i \in 2..Len(out) : Near(out[i - 1].seq, out[i].seq)

StepsBack(out) == \E i \in 2..Len(out) : out[i].seq < out[i - 1].seq

Doubled(out) == \E i \in 2..Len(out) : out[i].seq = out[i - 1].seq

\* Every packet that came out met `recording', and neither the first nor the last a full queue.
WholeRun ==
  /\ Len(file) + drops = Len(link.out) /\ file # <<>>
  /\ file[1] = link.out[1] /\ Last(file) = Last(link.out)

\* What bin_to_csv.py finds missing in the file is in the run's record: never more than
\* lost_packets, what the link missed, and queue_drops, what a full queue cost, together; and
\* exactly that when the file goes from the first packet to the last and the numbers do
\* not step back.  (Beside the steps of a restart a dropped packet leaves a gap of any size,
\* so with drops all steps have to be Near, and a doubled packet can be dropped without a gap.)
ConverterAgrees ==
  LET out == link.out
  IN /\ drops = 0 \/ InSteps(out) => FileGaps(file) <= link.lost + drops
     /\ /\ WholeRun /\ ~StepsBack(out)
        /\ drops = 0 \/ (InSteps(out) /\ InSteps(file) /\ ~Doubled(out))
        => FileGaps(file) = link.lost + drops

\* A .bin cut off anywhere (disk full, power cut) still gives every packet that is whole,
\* and the bytes reported as skipped are exactly those of the one that is not.
CutFileReadsBack ==
  LET all == FileBytes(file)
      End(k) == Len(FileBytes(SubSeq(file, 1, k)))
  IN \A n \in 0..Len(all) :
       LET whole == {k \in 0..Len(file) : End(k) <= n}
           k == CHOOSE x \in whole : \A y \in whole : y <= x
       IN ScanFile(SubSeq(all, 1, n)) =
            [rest |-> <<>>, packets |-> SubSeq(file, 1, k), skipped |-> n - End(k)]
=============================================================================

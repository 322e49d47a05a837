-------------------------- MODULE CollectChannelInv --------------------------
(***************************************************************************)
(* The inductive invariants behind the safety properties of CollectChannel: *)
(* TLC checks them as invariants, CollectChannelProofs proves them.        *)
(***************************************************************************)
EXTENDS CollectChannel

(* Where the packets are.  Every packet moves one way: driver's buffer, the  *)
(* reader's hand, the queue, a writer thread's hand, a data file.            *)

InReader == IF reader = "put" THEN {hand} ELSE {}

Holding(r) == wthread[r] = "write"

InWriters == {whand[r] : r \in {q \in Runs : Holding(q)}}

Written == UNION {Contents(r) : r \in Runs}

Below(S, T) == \A x \in S, y \in T : x < y

Preparing(s) == pc[s] \in SetupPoints

\* The points of start() before its Writer runs.
Unstarted == SetupPoints \ {"recOn", "mkTimer", "armTimer"}

\* Every start() makes a run of its own and starts one thread in it, so a Writer that
\* has two threads has them for good.
StartsApart ==
  /\ \A s \in Starters : Preparing(s) => att[s] <= nRuns
  /\ \A s, t \in Starters : Preparing(s) /\ Preparing(t) /\ s # t => att[s] # att[t]
  /\ \A s \in Starters : pc[s] \in Unstarted => served[att[s]] = NoRun
  /\ \A t \in Runs : served[t] # NoRun => t <= nRuns

\* Within each stage packets are in the order of emission, ...
StagesInOrder ==
  /\ IsIncreasing(osbuf)
  /\ IsIncreasing(queue)
  /\ \A r \in Runs : OneThread(r) => IsIncreasing(file[r])
  /\ \A r \in Runs : IsInjective(file[r])

\* ... a packet that is further on its way was emitted before all that follow, ...
StagesFollow ==
  /\ Below(Written \cup InWriters, Range(queue) \cup InReader \cup Range(osbuf))
  /\ Below(Range(queue), InReader \cup Range(osbuf))
  /\ Below(InReader, Range(osbuf))
  /\ Below(Written \cup InWriters \cup Range(queue) \cup InReader \cup Range(osbuf),
           {sent + 1})

\* ... and no packet is with two threads, or with a thread and in a file already.
WritersApart ==
  /\ \A t \in Runs : Holding(t) /\ OneThread(served[t]) => Below(Contents(served[t]), {whand[t]})
  /\ \A r, q \in Runs : Holding(r) => whand[r] \notin Contents(q)
  /\ \A r, q \in Runs : Holding(r) /\ Holding(q) /\ r # q => whand[r] # whand[q]
  /\ \A r, q \in Runs : r # q => Contents(r) \cap Contents(q) = {}

\* The packets are nowhere duplicated and nowhere out of order, in any interleaving of
\* the reader with the writer threads of several runs: what makes FilesInOrder
\* inductive, together with StartsApart.
FifoInv == StagesInOrder /\ StagesFollow /\ WritersApart

-----------------------------------------------------------------------------
(* Who owns what, when no stop() meets a start() in its unlocked part and the *)
(* ten-second limits of Writer.stop are not exceeded.                         *)

NoRaces == Faults \cap {"stopInSetup", "drainTimeout"} = {}

\* At most one start() is under way, it prepares the latest run, and it finds the
\* channel's writer and timer cleared until it makes them, and then its own.
OneSetup ==
  /\ \A s, t \in Starters : Preparing(s) /\ Preparing(t) => s = t
  /\ \A s \in Starters : Preparing(s) =>
       /\ state = "RECORDING"
       /\ att[s] = nRuns
       /\ chTimer = IF pc[s] = "armTimer" THEN att[s] ELSE NoRun
       /\ chWriter = IF pc[s] \in {"wStart", "recOn", "mkTimer", "armTimer"}
                       THEN att[s] ELSE NoRun

\* Each step of stop() finds done what the steps before it do.
StopInOrder ==
  /\ chWriter <= nRuns /\ sw <= nRuns
  /\ spc # "none" => state = "FINISHING"
  /\ spc \in {"drain", "join", "close", "result"} => sw = chWriter
  /\ spc \in {"close", "result"} => ~WriterRunning(sw)
  /\ spc = "result" => wfile[sw] # "open"
  /\ spc \in {"drain", "join", "close", "result"} => chTimer = NoRun /\ ~recording
  /\ state = "IDLE" => chWriter = NoRun /\ chTimer = NoRun /\ ~recording
  /\ recording => state = "RECORDING" \/ spc = "cancel"

\* Whatever still works or can still fire belongs to the run the channel points to,
\* and that run has no result yet.
OwnedByChannel ==
  /\ \A r \in Runs : served[r] \in {r, NoRun} /\ wlast[r] = served[r]
  /\ \A r \in Runs : wthread[r] # "none" \/ wfile[r] # "none" => served[r] = r
  /\ \A r \in Runs : WriterRunning(r) \/ wfile[r] = "open" => chWriter = r
  /\ \A r \in Runs : timer[r] = "armed" => chTimer = r
  /\ \A r \in Runs : result[r] # "none" =>
       /\ r <= nRuns
       /\ chWriter # r
       /\ \A s \in Starters : Preparing(s) => att[s] # r

\* At every moment the pieces of a run (writer thread, file, timer, gate, result)
\* agree with where start() and stop() stand: what makes IdleIsClean and FileFinal
\* inductive.
CleanInv == OneSetup /\ StopInOrder /\ OwnedByChannel
-----------------------------------------------------------------------------
(* No hole in a run that is ok, when moreover the reader answers flush() in   *)
(* time.                                                                      *)

Timely == NoRaces /\ "flushTimeout" \notin Faults

\* The packets of run r between the reader and the file.
Taken(r) == {p \in Contents(r) \cup InWriters \cup Range(queue) \cup InReader : p > mark[r]}

Unbroken(S) == \A p, q \in S : \A n \in p..q : n \in S

\* The channel still knows the run: it records it, or stop() is at work on it.
Known(r) == r \in {chWriter, sw}

\* So far nothing would make the verdict of the run a bad one.
Intact(r) == lost = base /\ drops = 0 /\ ~werror[r]

\* The tracker is reset for the run that is being prepared, never for one that records, and
\* what the reader has seen is older than what it is going to read.
ResetInTime ==
  /\ resyncDone => ~resyncReq
  /\ resyncReq => reader = "dead" \/ \E s \in Starters : pc[s] = "flushWait"
  /\ Below({lastSeq}, Range(osbuf) \cup {sent + 1})

\* The gate opens on a run that has its own mark and its own base, before any packet of it
\* has passed.
OpensClean ==
  /\ \A s \in Starters : Preparing(s) /\ pc[s] \notin {"mkTimer", "armTimer"} => ~recording
  /\ \A s \in Starters :
       pc[s] \in SetupPoints \ {"setup", "flush", "mkTimer", "armTimer"} => Taken(att[s]) = {}
  /\ (\E s \in Starters : pc[s] = "mkWriter") => lost >= base
  /\ recording => chWriter # NoRun

\* The channel knows no run but the latest.
OneKnown ==
  /\ spc \in {"none", "cancel"} => sw = NoRun
  /\ \A r \in Runs : Known(r) => r = nRuns

\* As long as nothing speaks against a run, its packets follow each other without a hole
\* all the way to the reader, and the reader's last one is among them.
NoHoleYet ==
  \A r \in Runs : Known(r) =>
    /\ lost >= base
    /\ Intact(r) => Unbroken(Taken(r))
    /\ Intact(r) /\ recording => Taken(r) = {} \/ lastSeq \in Taken(r)

\* What makes OkRunHasNoHole inductive.
HoleInv == ResetInTime /\ OpensClean /\ OneKnown /\ NoHoleYet /\ OkRunHasNoHole
=============================================================================

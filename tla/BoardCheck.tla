----------------------------- MODULE BoardCheck -----------------------------
(***************************************************************************)
(* boardcheck.py: flashes the check firmware on one board, or on all of    *)
(* them in turn, and reads the verdict from the console.                   *)
(***************************************************************************)
EXTENDS UsbBench

VARIABLES
  step,    \* "idle", "flash", "reset", "capture", "summary", "traceback"
  cands,   \* list_candidates: [slot, dev], taken once
  at,      \* the candidate under test
  port,    \* run_once's port
  tries,   \* flashes of this board that stalled
  flashed, \* not --no-flash
  rows,    \* the table: [slot, board, result, rc]; held is history: the board in that
           \* socket when the row was written
  exit     \* exit status at the end

check == <<step, cands, at, port, tries, flashed, rows, exit>>

Running == -1

\* EXIT; 3 for anything that did not end with a verdict.
ExitCode(result) ==
  CASE result = "PASS" -> 0 [] result = "WARN" -> 1 [] result = "FAIL" -> 2 [] OTHER -> 3

\* run_once begins with the candidate's port.
RunOnce(new, i, flash) ==
  /\ at' = i
  /\ port' = new[i].dev
  /\ tries' = 0
  /\ step' = IF flash THEN "flash" ELSE "capture"

\* main.  find_port refuses to guess among several boards; --all takes them in turn.
Check(all, flash) ==
  /\ step = "idle"
  /\ flashed' = flash
  /\ cands' = ListPorts
  /\ rows' = <<>>
  /\ IF Len(cands') = 1 \/ (all /\ cands' # <<>>)
     THEN exit' = Running /\ RunOnce(cands', 1, flash)
     ELSE exit' = 3 /\ step' = "summary" /\ UNCHANGED <<at, port, tries>>
  /\ UNCHANGED bench

\* The program ends, and leaves nothing behind but what it wrote to the boards.
CheckExits ==
  /\ step \in {"summary", "traceback"}
  /\ step' = "idle" /\ cands' = <<>> /\ at' = 0 /\ port' = NoTty /\ tries' = 0
  /\ flashed' = TRUE /\ rows' = <<>> /\ exit' = Running
  /\ UNCHANGED bench

\* Slip: the exit status is that of the last board.
LastRc(table) == IF table = <<>> THEN 0 ELSE Last(table).rc

\* cmd_all: the worst of the boards.
WorstRc(table) == Max({0} \cup {table[i].rc : i \in DOMAIN table})

\* One board is through: on to the next one, or the summary.
Row(result, board) ==
  /\ rows' = Append(rows, [slot |-> cands[at].slot, board |-> board,
                           held |-> socket[cands[at].slot],
                           result |-> result, rc |-> ExitCode(result)])
  /\ IF at < Len(cands) THEN RunOnce(cands, at + 1, flashed) /\ UNCHANGED exit
     ELSE /\ step' = "summary"
          /\ exit' = WorstRc(rows')
          /\ UNCHANGED <<at, port, tries>>

\* flash: no preflight here.  A stall is followed by a reset once, an error ends this
\* board only.
CheckFlash(r) ==
  /\ step = "flash"
  /\ WriteFw(port, "check", r)
  /\ r # "cancel"
  /\ CASE r = "ok" -> step' = "capture" /\ UNCHANGED <<at, port, tries, rows, exit>>
       [] r = "stall" /\ tries = 0 -> step' = "reset" /\ UNCHANGED <<at, port, tries, rows, exit>>
       [] OTHER -> Row("none", NoBoard)
  /\ UNCHANGED <<cands, flashed>>

CheckReset(p) ==
  /\ step = "reset"
  /\ Recover(port, p)
  /\ port' = p
  /\ tries' = 1
  /\ step' = "flash"
  /\ UNCHANGED <<cands, at, rows, exit, flashed>>

CheckResetFails ==
  /\ step = "reset"
  /\ RecoverFails
  /\ Row("none", NoBoard)
  /\ UNCHANGED <<cands, flashed>>

\* capture and parse, on a port that is there.  Only the check firmware prints a
\* verdict, and it may not come in time; the MAC stands in the first item.
Verdicts(b) ==
  IF b = NoBoard \/ fw[b] # "check" THEN {"none"}
  ELSE {"none"} \cup IF b \in Faulty THEN {"FAIL"} ELSE {"PASS", "WARN"}

CheckCapture(result, seen) ==
  /\ step = "capture" /\ SlotsAt(port) # {}
  /\ result \in Verdicts(BoardAt(port))
  /\ Row(result, IF result # "none" \/ (seen /\ Verdicts(BoardAt(port)) # {"none"})
                 THEN BoardAt(port) ELSE NoBoard)
  /\ UNCHANGED <<bench, cands, flashed>>

\* The port cannot be opened or read (it is gone, held by another program or closed to
\* us), or the log cannot be written: neither cmd_all nor main catches that.  The
\* program ends there with Python's exit status, whatever the other boards did.
CheckRaises ==
  /\ step = "capture"
  /\ step' = "traceback" /\ exit' = 1
  /\ UNCHANGED <<bench, cands, at, port, tries, flashed, rows>>

CheckInit ==
  /\ step = "idle" /\ cands = <<>> /\ at = 0 /\ port = NoTty /\ tries = 0
  /\ flashed = TRUE /\ rows = <<>> /\ exit = Running

CheckStep ==
  \/ \E r \in {"ok", "error", "unverified", "stall"} : CheckFlash(r)
  \/ \E p \in Ttys : CheckReset(p)
  \/ CheckResetFails \/ CheckRaises \/ CheckExits
  \/ \E result \in {"PASS", "WARN", "FAIL", "none"}, seen \in BOOLEAN : CheckCapture(result, seen)

=============================================================================

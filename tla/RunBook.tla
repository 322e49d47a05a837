------------------------------ MODULE RunBook -------------------------------
(***************************************************************************)
(* What the collector promises about its runs, whatever the window, the    *)
(* threads, the cables and the power do: the runs of a sensor are numbered *)
(* one after the other, no number is given twice, each ends once, and what *)
(* has been recorded about it stays.                                       *)
(***************************************************************************)
EXTENDS Naturals, Sequences

CONSTANT Names   \* the sensors

VARIABLE book    \* [Names -> Seq of "open", "saved", "cut"]

Init == book = [n \in Names |-> <<>>]

Begin(n) == book' = [book EXCEPT ![n] = Append(@, "open")]

Save(n, i) ==
  /\ book[n][i] = "open"
  /\ book' = [book EXCEPT ![n][i] = "saved"]

\* The disk is full: a run ends without its record.
Lose(n, i) ==
  /\ book[n][i] = "open"
  /\ book' = [book EXCEPT ![n][i] = "cut"]

\* The program ends: the data of the runs under way stays, their record is missing.
Cut ==
  book' = [n \in Names |->
            [i \in DOMAIN book[n] |-> IF book[n][i] = "open" THEN "cut" ELSE book[n][i]]]

Next ==
  \/ \E n \in Names : Begin(n)
  \/ \E n \in Names : \E i \in DOMAIN book[n] : Save(n, i) \/ Lose(n, i)
  \/ Cut

Spec == Init /\ [][Next]_book

=============================================================================

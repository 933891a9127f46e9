----------------------------- MODULE RecentLog -----------------------------
(***************************************************************************)
(* What the hub's event history promises, with no ring: the last Capacity  *)
(* lines written, oldest first.  A line is written at the end; a line that *)
(* finds the log full pushes out the oldest one.  One step of the hub      *)
(* writes one line or two.                                                 *)
(***************************************************************************)
EXTENDS Naturals, Sequences

CONSTANTS Lines, Doubled, Capacity   \* Doubled: the lines a step may write two of

VARIABLE log

Written(s, line) == Append(IF Len(s) = Capacity THEN Tail(s) ELSE s, line)

Init == log = <<>>

WriteOne == \E l \in Lines : log' = Written(log, l)
WriteTwo == \E l \in Doubled : log' = Written(Written(log, l), l)

Next == WriteOne \/ WriteTwo

Spec == Init /\ [][Next]_log
=============================================================================

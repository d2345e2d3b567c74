----------------------------- MODULE LineBudget -----------------------------
(***************************************************************************)
(* What the program of threads.asm promises, without threads: Total lines  *)
(* are drawn one at a time, and each line drawn is written once.  The      *)
(* process may die while it starts, and then nothing more is written.      *)
(***************************************************************************)
EXTENDS Naturals

CONSTANT Total

VARIABLES
    drawn,      \* lines somebody has promised to write
    written,    \* lines written
    dead        \* the process was killed

vars == <<drawn, written, dead>>

Init == drawn = 0 /\ written = 0 /\ dead = FALSE

Draw ==
    /\ ~dead
    /\ drawn < Total
    /\ drawn' = drawn + 1
    /\ UNCHANGED <<written, dead>>

Write ==
    /\ ~dead
    /\ written < drawn
    /\ written' = written + 1
    /\ UNCHANGED <<drawn, dead>>

Die ==
    /\ ~dead
    /\ dead' = TRUE
    /\ UNCHANGED <<drawn, written>>

Next == Draw \/ Write \/ Die

Fairness == WF_vars(Draw) /\ WF_vars(Write)

Spec == Init /\ [][Next]_vars /\ Fairness
=============================================================================

------------------------------ MODULE Terminal ------------------------------
(***************************************************************************)
(* What put_char() promises of the cursor: every character moves it at     *)
(* once, and it stays on the screen, which rolls when it is full.  Lost is *)
(* what remains when two characters are put at the same time.              *)
(***************************************************************************)
EXTENDS Integers

CONSTANTS ROWS, COLS

VARIABLE pos

Lost == -1
Last == ROWS * COLS - COLS   \* the start of the last line

Init == pos \in 0..(ROWS * COLS - 1)

Advance == pos' = IF pos + 1 = ROWS * COLS THEN Last ELSE pos + 1

NewLine == pos' = IF pos >= Last THEN Last ELSE pos - (pos % COLS) + COLS

Back == pos > 0 /\ pos' = pos - 1

Lose == pos' = Lost

Next == pos # Lost /\ (Advance \/ NewLine \/ Back \/ Lose)

Spec == Init /\ [][Next]_pos
=============================================================================

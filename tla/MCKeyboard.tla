----------------------------- MODULE MCKeyboard ------------------------------
\* A letter, Enter, a screen mode key, the pause key, Break and Ctrl.
EXTENDS Keyboard
CONSTANTS A, F1, F9, Brk, Ctl, Ent, Ret
MCWordOf == [code \in Watched |-> IF code = A THEN 1 ELSE NumWords]
=============================================================================

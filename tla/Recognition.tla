----------------------------- MODULE Recognition -----------------------------
(***************************************************************************)
(* What the launcher promises its user, whatever its threads do: a drawing *)
(* that a pause has ended is recognised, and the letter recognised, no     *)
(* other, is launched, once, before the next drawing; or the launcher      *)
(* quits.                                                                  *)
(***************************************************************************)
CONSTANTS Letters, NoLetter

VARIABLES phase,    \* of the current drawing
          letter,   \* the letter recognised, while it waits to be launched
          launched  \* the letter last launched

vars == <<phase, letter, launched>>

Init == phase = "idle" /\ letter = NoLetter /\ launched = NoLetter

Draw == /\ phase = "idle" /\ phase' = "drawing"
        /\ UNCHANGED <<letter, launched>>

Pause == /\ phase = "drawing" /\ phase' = "recognising"
         /\ UNCHANGED <<letter, launched>>

Recognise == /\ phase = "recognising" /\ phase' = "result"
             /\ letter' \in Letters
             /\ UNCHANGED launched

Launch == /\ phase = "result" /\ phase' = "idle"
          /\ launched' = letter
          /\ letter' = NoLetter

Quit == phase' = "quit" /\ letter' = NoLetter /\ launched' = NoLetter

Next == Draw \/ Pause \/ Recognise \/ Launch \/ Quit

\* What may happen, and what must.
Safety == Init /\ [][Next]_vars

Spec == Safety /\ WF_vars(Recognise \/ Launch)
=============================================================================

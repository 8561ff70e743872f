--------------------------- MODULE AnswerChannel ---------------------------
(***************************************************************************)
(* What the mentor chat promises a learner who asks one question at a      *)
(* time, whatever happens between the page and the model: the text on the  *)
(* page is a prefix of what the model has written, it only grows while the *)
(* question is open, and it stays as it is once the question is closed.    *)
(* The pieces the model writes are numbered 1, 2, 3, ...                   *)
(***************************************************************************)
EXTENDS Naturals

VARIABLES
  made,     \* how many pieces the model has written for this question
  text,     \* how many of them the page shows
  phase     \* "open" while the page waits for more, "quiet" otherwise

vars == <<made, text, phase>>

Init == made = 0 /\ text = 0 /\ phase = "quiet"

\* A new question clears what the previous one left.
Ask == /\ phase = "quiet"
       /\ phase' = "open"
       /\ made' = 0
       /\ text' = 0

\* The model may go on writing after the page has stopped listening.
Write == /\ made' = made + 1
         /\ UNCHANGED <<text, phase>>

Deliver == /\ phase = "open"
           /\ text' \in text .. made
           /\ UNCHANGED <<made, phase>>

Close == /\ phase = "open"
         /\ phase' = "quiet"
         /\ UNCHANGED <<made, text>>

\* The page is left or reloaded: its bubble goes with it.
Abandon == /\ phase' = "quiet"
           /\ text' = 0
           /\ UNCHANGED made

Next == Ask \/ Write \/ Deliver \/ Close \/ Abandon

Spec == Init /\ [][Next]_vars
=============================================================================

----------------------------- MODULE LatestAnswer -----------------------------
(* What a panel of FrameRetrace promises its user.  Every selection and    *)
(* every experiment supersedes the ones before; the answer on display may  *)
(* be behind what the user asked for last, but it never goes back to an    *)
(* older question, never shows one that was not asked, and catches up if   *)
(* the user waits.  Questions are numbered in the order they are asked.    *)
EXTENDS Naturals

VARIABLES
  asked,     \* the number of the user's last question
  shown,     \* the question whose answer is on display
  waiting    \* the user waits for the answer, and may be told it will not come

vars == <<asked, shown, waiting>>

Init == asked = 0 /\ shown = 0 /\ waiting = TRUE

Ask ==
  /\ asked' = asked + 1
  /\ UNCHANGED <<shown, waiting>>

Answer ==
  /\ shown' \in (shown + 1)..asked
  /\ UNCHANGED <<asked, waiting>>

GiveUp ==
  /\ waiting' = FALSE
  /\ UNCHANGED <<asked, shown>>

Next == Ask \/ Answer \/ GiveUp

CatchesUp == <>(~waiting) \/ []<>(shown = asked)

Spec == Init /\ [][Next]_vars /\ CatchesUp
===============================================================================

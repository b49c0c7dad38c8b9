----------------------------- MODULE Reprogram -----------------------------
(***************************************************************************)
(* What the bootloader promises to whoever puts a card into the device:    *)
(* a session rewrites the user area and nothing below it, ends with the    *)
(* image of the file if the file is good and nothing fails, then leaves    *)
(* the memory alone, and says FAIL only if there is a reason to.  Power    *)
(* may be lost at any time; the next session begins from what is there.    *)
(***************************************************************************)
EXTENDS Integers

CONSTANTS
  Cells,            \* the addresses of the memory
  UserStart,        \* the first one of the user area
  UserEnd,          \* the first one behind it
  Good(_),          \* the files for which the promise is made
  Image(_, _)       \* what a file wants to be at an address

VARIABLES
  memory,
  card,             \* the file on the card
  failed,           \* the card has failed
  phase,            \* idle, working, written, over; or lost
  verdict           \* what the display says

vars == <<memory, card, failed, phase, verdict>>

Init == phase = "idle" /\ verdict = "none" /\ ~failed

BootKept == \A a \in Cells : a < UserStart => memory'[a] = memory[a]

Same == UNCHANGED <<memory, card, verdict>>

(* The card may fail at any time, and that is not forgotten.               *)
CardMayFail == failed' \in BOOLEAN /\ (failed => failed')

Begin ==
  /\ phase = "idle" /\ phase' \in {"idle", "working"}
  /\ Same /\ CardMayFail

Work ==
  /\ phase = "working" /\ phase' = "working"
  /\ BootKept
  /\ CardMayFail
  /\ UNCHANGED <<card, verdict>>

(* A file that is not good may take the program out of its code.           *)
Lose ==
  /\ phase = "working" /\ ~Good(card)
  /\ phase' = "lost"
  /\ Same /\ UNCHANGED failed

Finish ==
  /\ phase = "working" /\ phase' = "written"
  /\ BootKept
  /\ ~failed /\ Good(card)
       => \A a \in Cells :
            UserStart <= a /\ a < UserEnd => memory'[a] = Image(card, a)
  /\ UNCHANGED <<card, failed, verdict>>

Check ==
  /\ phase = "written" /\ phase' = "written"
  /\ Same /\ CardMayFail

Judge ==
  /\ phase = "written" /\ phase' = "over"
  /\ verdict' \in {"PASS", "FAIL"}
  /\ ~failed /\ Good(card) => verdict' = "PASS"
  /\ UNCHANGED <<memory, card, failed>>

(* Power is lost; the card may come back with another file.                *)
Cut ==
  /\ phase' = "idle" /\ verdict' = "none" /\ ~failed'
  /\ BootKept

Next == Begin \/ Work \/ Lose \/ Finish \/ Check \/ Judge \/ Cut

Spec == Init /\ [][Next]_vars
=============================================================================

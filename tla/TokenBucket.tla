------------------------------ MODULE TokenBucket ------------------------------
(***************************************************************************)
(* What a rate limiter promises, without a store, a clock or an expiry: a  *)
(* bucket that starts full, loses what is granted, and gains at most Rate  *)
(* with every unit of time that an observer sees pass.  It may lose tokens *)
(* at any time (the limiter errs on the side of refusing), and never gains *)
(* any but by the passing of time.                                         *)
(***************************************************************************)
EXTENDS Integers

CONSTANTS Size,   \* what a full bucket holds
          Rate,   \* what it gains at most in a unit of time
          Price,  \* what one token takes
          Most    \* how many tokens are granted at once, at most

VARIABLES level, granted, time

vars == <<level, granted, time>>

Init == level = Size /\ granted = 0 /\ time = 0

Grant ==
  \E n \in 1..Most :
    /\ n * Price <= level
    /\ level' = level - n * Price
    /\ granted' = granted + n * Price
    /\ UNCHANGED time

Refill ==
  /\ level' \in level..Size
  /\ level' <= level + Rate
  /\ time' = time + 1
  /\ UNCHANGED granted

Lose == level' \in 0..level /\ UNCHANGED <<granted, time>>

(* An observer starts to count anew. *)
Restart == granted' = 0 /\ time' = 0 /\ UNCHANGED level

Next == Grant \/ Refill \/ Lose \/ Restart

Spec == Init /\ [][Next]_vars
================================================================================

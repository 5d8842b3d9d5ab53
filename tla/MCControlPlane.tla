---------------------------- MODULE MCControlPlane ----------------------------
(***************************************************************************)
(* What stands in front of the platform, on small sets: the requests of    *)
(* InvocationApi, which are interchangeable, and the rate limiter that an  *)
(* invoke request has passed before it is one of them.  The two share no   *)
(* state, so that a behaviour moves one of them: what is watched.          *)
(***************************************************************************)
EXTENDS InvocationApi, RateLimiter, TLC

VARIABLE watched

controlVars == <<watched, apiVars, vars>>

ControlInit ==
  /\ watched \in {"requests", "bucket"}
  /\ ApiInit
  /\ Init
  /\ watched = "requests" => now_ms = 0

ControlNext ==
  \/ watched = "requests" /\ ApiNext /\ UNCHANGED <<watched, vars>>
  \/ watched = "bucket" /\ Next /\ UNCHANGED <<watched, apiVars>>

ControlSpec == ControlInit /\ [][ControlNext]_controlVars

RequestSymmetry == Permutations(Requests)
================================================================================

--------------------------- MODULE MCAuthSessions ---------------------------
(***************************************************************************)
(* AuthSessions for TLC: one account acted on, a second administrator so   *)
(* that the first may be demoted and deleted, or the first run, with two   *)
(* tokens and two requests.                                                *)
(***************************************************************************)
EXTENDS AuthSessions, TLC

CONSTANTS u1, u2

\* Both accounts exist, or this is the first run.
BothOrNone == {u1 :> 1 @@ u2 :> 2, u1 :> 0 @@ u2 :> 0}

Symmetry == Permutations(Procs) \cup Permutations(Tokens)
=============================================================================

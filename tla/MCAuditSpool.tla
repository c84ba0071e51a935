---------------------------- MODULE MCAuditSpool ----------------------------
(***************************************************************************)
(* AuditSpool for TLC.  Who recorded an entry is of no consequence once    *)
(* its call is over and its file gone, so such states are explored once.   *)
(***************************************************************************)
EXTENDS AuditSpool, TLC

Writer == [e \in Entries |-> IF rec[e] \in Busy \/ e \in files THEN writer[e] ELSE NoProc]

View == <<table, inserts, rec, Writer, lost, dir, state, flushVars, world>>

Symmetry == Permutations(Procs)
=============================================================================

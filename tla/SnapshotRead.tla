---------------------------- MODULE SnapshotRead ----------------------------
(***************************************************************************)
(* What a block-fetched list of a log promises to the person who scrolls   *)
(* it: the blocks on the screen are slices of one set of rows that answer  *)
(* the query, whatever is added, committed late or pruned while they come  *)
(* in. A new reading replaces the whole screen, with its first block.      *)
(***************************************************************************)
EXTENDS Naturals, FiniteSets

CONSTANTS Ids, Queries, Blocks, BlockSize, Hole

VARIABLES
    query,  \* the ids that answer the query
    set,    \* the rows that are being read
    view    \* block -> its ids, or Hole

vars == <<query, set, view>>

\* Newest first: the rows of S with b * BlockSize .. newer ones in S.
Slice(S, b) == {i \in S : Cardinality({j \in S : j > i}) \div BlockSize = b}

Empty == [b \in Blocks |-> Hole]

Init == query \in Queries /\ set = {} /\ view = Empty

NewQuery ==
    /\ query' \in Queries /\ set' = {} /\ view' = Empty

FirstBlock(b) ==
    /\ set' \in SUBSET (Ids \cap query)
    /\ view' = [Empty EXCEPT ![b] = Slice(set', b)]
    /\ UNCHANGED query

NextBlock(b) ==
    /\ view' = [view EXCEPT ![b] = Slice(set, b)]
    /\ UNCHANGED <<query, set>>

Next == NewQuery \/ \E b \in Blocks : FirstBlock(b) \/ NextBlock(b)

Spec == Init /\ [][Next]_vars
=============================================================================

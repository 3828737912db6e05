-------------------------- MODULE MCDeadNonceList --------------------------
(***************************************************************************)
(* Instances of DeadNonceList for TLC.                                     *)
(***************************************************************************)
EXTENDS DeadNonceList, TLC

CONSTANTS loop1, loop2

TwoHashes == loop1 :> 1 @@ loop2 :> 2

\* Capacities so small that every limit is reached, and any load below 4.
Small == [initial |-> 6, min |-> 5, max |-> 7, marks |-> 2, evict |-> 2,
          load |-> 3, steady |-> FALSE, dead |-> {loop1, loop2}]

\* The constants of the code under a steady load.
AsBuilt(load) == [initial |-> 128, min |-> 8, max |-> 16777216, marks |-> 5, evict |-> 64,
                  load |-> load, steady |-> TRUE, dead |-> {loop1}]

SmallAndBuilt == {Small} \cup {AsBuilt(load) : load \in {0, 7, 40, 100}}
=============================================================================

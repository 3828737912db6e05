-------------------------- MODULE MCFunctionChain --------------------------
(***************************************************************************)
(* Instances of FunctionChain for TLC.                                     *)
(***************************************************************************)
EXTENDS FunctionChain

CONSTANTS file1, file2, f, g, consumer1, consumer2

\* Two consumers on different files, with a chain of two functions.
ChainRequest == [c \in Consumer |-> [file |-> IF c = consumer1 THEN file1 ELSE file2, func |-> <<f, g>>]]

\* The same with one function.
OneFunction == [c \in Consumer |-> [file |-> IF c = consumer1 THEN file1 ELSE file2, func |-> <<f>>]]

\* The result of g is shorter than its input.
ShorterResult(c) == IF c.applied # << >> /\ Last(c.applied) = g THEN 2 ELSE 3
TwoSegments(c) == 2

Lossy == [consumers |-> {consumer1}, lossy |-> TRUE, serial |-> FALSE]
Serial == [consumers |-> Consumer, lossy |-> FALSE, serial |-> TRUE]
Parallel == [consumers |-> Consumer, lossy |-> FALSE, serial |-> FALSE]

LossyOrSerial == {Lossy, Serial}
ParallelOnly == {Parallel}
=============================================================================

-------------------------- MODULE MCStrategyTables --------------------------
(***************************************************************************)
(* Instances of StrategyTables for TLC.                                    *)
(***************************************************************************)
EXTENDS StrategyTables, NameHash

Req(name, func) == [name |-> name, func |-> func, cbp |-> FALSE, mbf |-> FALSE]
Dat(name, func) == [name |-> name, func |-> func, digest |-> 1, fresh |-> 1]

A == <<10>>
AB == <<10, 11>>
Function == <<12>>
Far == <<13, 14, 15, 16>>

\* Nested strategies over a name, with and without a function.
Nested == [interests |-> {Req(AB, << >>), Req(AB, Function)}, data |-> {Dat(AB, << >>), Dat(AB, Function)},
           start |-> {[prefix |-> << >>, face |-> 1], [prefix |-> A, face |-> 2]},
           nexthops |-> {[prefix |-> AB, face |-> 1]},
           commands |-> {[prefix |-> A, type |-> "access"], [prefix |-> A, type |-> "best-route"],
                         [prefix |-> AB, type |-> "best-route"]},
           inputs |-> 7]

\* Nodes that come and go with FIB and PIT entries.
Deep == [interests |-> {Req(AB \o <<17, 18>>, << >>)}, data |-> {},
         start |-> {[prefix |-> << >>, face |-> 1]},
         nexthops |-> {[prefix |-> Far, face |-> 1], [prefix |-> A, face |-> 2]},
         commands |-> {[prefix |-> A, type |-> "access"]},
         inputs |-> 7]

AllNames == UNION {{Prefix(n, i) : i \in 0 .. Len(n)} : n \in {AB \o Function, AB \o <<17, 18>>, Far}}

NestedAndDeep == {Nested, Deep}
=============================================================================

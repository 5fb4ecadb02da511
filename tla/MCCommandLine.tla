---------------------------- MODULE MCCommandLine ----------------------------
EXTENDS CommandLine

(***************************************************************************)
(* Three relations of up to two columns; in some catalogs the third is a     *)
(* view, a foreign table or a table granted by one column only, which none   *)
(* of the checks that decide asks about. Two foreign keys of the same name   *)
(* on two relations, one of them over two columns.                           *)
(***************************************************************************)
Clean ==
    [granted |-> {1, 2}, byColumn |-> [t \in 1..3 |-> {}], views |-> {}, foreign |-> {},
     columns |-> [t \in 1..3 |-> IF t = 3 THEN {1} ELSE {1, 2}],
     key |-> [t \in 1..3 |-> IF t = 2 THEN <<2, 1>> ELSE <<1>>],
     links |-> {[name |-> 1, from |-> 1, to |-> 2, pairs |-> <<<<1, 2>>, <<2, 1>>>>],
                [name |-> 1, from |-> 2, to |-> 1, pairs |-> <<<<2, 1>>>>],
                [name |-> 2, from |-> 2, to |-> 3, pairs |-> <<<<1, 1>>>>]},
     secured |-> {1, 2}, forced |-> {}, owned |-> {}, policed |-> {1, 2}, literal |-> {},
     faults |-> {}]

MCCatalogs ==
    {Clean,
     [Clean EXCEPT !.granted = {}],
     [Clean EXCEPT !.granted = {1, 2, 3}, !.secured = {1, 2, 3}],
     [Clean EXCEPT !.granted = {1, 3}, !.views = {3}],
     [Clean EXCEPT !.granted = {1, 3}, !.foreign = {3}],
     [Clean EXCEPT !.byColumn[3] = {1}],
     [Clean EXCEPT !.granted = {1}, !.byColumn[2] = {2}],
     [Clean EXCEPT !.secured = {2}],
     [Clean EXCEPT !.owned = {1}],
     [Clean EXCEPT !.owned = {1}, !.forced = {1}],
     [Clean EXCEPT !.policed = {2}],
     [Clean EXCEPT !.literal = {2}],
     [Clean EXCEPT !.columns[1] = {1, 2, 3}],
     [Clean EXCEPT !.granted = {}, !.faults = {"absent"}]}
    \union {[Clean EXCEPT !.faults = {f}] : f \in Faults \ {"absent"}}
=============================================================================

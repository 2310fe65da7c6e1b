---- MODULE MCParts ----
(* Characters are numbers: 0 to 9 the digits, from 10 on the letters. *)
EXTENDS Parts

CONSTANT Tracked  \* the product whose history varies

MCIds == {<<10>>, <<11>>, <<10, 10>>}
MCNumbers == {<<9>>, <<1, 0>>, <<1, 1>>}
MCDates == {<<1>>, <<2>>}

MCHistories(p) ==
    IF p = Tracked THEN UNION {[days -> {0, 4}] : days \in SUBSET {3, 10, 17, 30}}
    ELSE {<<>>}
MCRows(p) ==
    IF p = Tracked
    THEN [supplier : Suppliers \cup {NULL}, stock : {Zero, Whole(20)}, transit : {Whole(3)},
          demand : {NULL}, lead : {0, 3}]
    ELSE [supplier : Suppliers \cup {NULL}, stock : {Whole(5)}, transit : {Whole(-6)},
          demand : {NULL, Whole(2)}, lead : {NULL}]
MCScores == {NULL, Frac(1, 3), Frac(5, 2)}
MCMasters ==
    {[product |-> [p \in Products |-> IF p \in priced THEN Whole(2) ELSE NULL],
      supplier |-> [s \in Suppliers |-> default]] :
        priced \in {{}, {Tracked}}, default \in {NULL, Whole(3)}}
====

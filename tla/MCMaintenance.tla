---------------------------- MODULE MCMaintenance ----------------------------
(* An instance of Maintenance for TLC: a library "f" with a folder "g" below *)
(* it and "h" below that; "x" is a subtitle of "a", "m" lies in the root.    *)
(* Five assets in two folders, "1" and "01", "02" and twice "b" by name, and *)
(* two libraries: one with duplicates, one with rows without a length.       *)
EXTENDS Maintenance

mcAbove == [f |-> {"f"}, g |-> {"f", "g"}, h |-> {"f", "g", "h"}]
mcDir == [m |-> "f", x |-> "g", a |-> "g", n |-> "h"]
mcStem == [m |-> "m", x |-> "a", a |-> "a", n |-> "n"]
mcDirOf == <<1, 2, 1, 1, 2>>
mcName == <<[key |-> 1, low |-> 2, letter |-> 1], [key |-> 20, low |-> 20, letter |-> 12],
            [key |-> 1, low |-> 0, letter |-> 0], [key |-> 20, low |-> 20, letter |-> 12],
            [key |-> 2, low |-> 1, letter |-> 0]>>
mcRow(t, s, l, h, c) ==
    [live |-> TRUE, imported |-> IF t = 2 THEN 0 ELSE 1, time |-> t, size |-> s, length |-> l,
     hidden |-> FALSE, ready |-> TRUE, tagged |-> TRUE, hash |-> h, content |-> c]
mcShelves == {<<mcRow(0,1,0,1,1), mcRow(0,1,5,1,1), mcRow(1,9,5,2,2), mcRow(2,9,0,2,2), mcRow(1,1,3,0,1)>>,
              <<mcRow(3,1,2,0,1), mcRow(1,1,5,0,1), mcRow(1,1,2,0,2), mcRow(3,0,0,0,1), mcRow(3,9,2,0,2)>>}
mcLooks == {[kind |-> "library", narrow |-> n] : n \in {"none", "fast", "tags"}}
    \cup {[kind |-> k, narrow |-> "none"] : k \in {"folder", "hidden", "duplicates"}}
mcInitially == {{}, {"m", "x", "a"}}
=============================================================================

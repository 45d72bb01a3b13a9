------------------------------- MODULE MCGroups -------------------------------
(***************************************************************************)
(* Model-checking instance of Groups: two oxygens (1, 2) and two hydrogens *)
(* (3, 4), with one command of each kind and the compositions the          *)
(* documentation shows.                                                    *)
(***************************************************************************)
EXTENDS Groups

MCIds == <<1, 2, 3, 4>>
MCTypeOf == [a \in 1 .. 4 |-> IF a <= 2 THEN "O" ELSE "H"]

(* The two oxygens are near each other or not, each hydrogen is near (1) or *)
(* far (2) from each oxygen, and the hydrogens are far from each other.     *)
MCDistances ==
  LET free == {{1, 2}, {1, 3}, {1, 4}, {2, 3}, {2, 4}}
      between(d, a, b) == IF a = b THEN 0 ELSE IF {a, b} \in free THEN d[{a, b}] ELSE 2
  IN  {[a \in 1 .. 4 |-> [b \in 1 .. 4 |-> between(d, a, b)]] : d \in [free -> 1 .. 2]}

Command(name, kind, of) ==
  [name |-> name, kind |-> kind, of |-> of, static |-> FALSE, ids |-> <<>>, types |-> {},
   minDist |-> 0, maxDist |-> 2, minCoord |-> 1, maxCoord |-> 9, maxHistory |-> 2,
   include |-> FALSE, corresponding |-> "none"]
Coord(c, n) == [c EXCEPT !.minCoord = n, !.maxCoord = n]
Static(c) == [c EXCEPT !.static = TRUE]

MCConfig == <<
  Static([Command("All", "atomicnumber", <<>>) EXCEPT !.types = {"O", "H"}]),
  Static([Command("O", "atomicnumber", <<>>) EXCEPT !.types = {"O"}]),
  [Command("H", "atomicnumber", <<>>) EXCEPT !.types = {"H"}],
  [Command("Picked", "list", <<>>) EXCEPT !.ids = <<4, 2, 7>>, !.static = TRUE],
  (* bonds, their corresponding groups, a chain that includes its to-atoms *)
  [Command("Bonded", "bond", <<"O", "H">>) EXCEPT !.corresponding = "OfBonded"],
  Coord([Command("Single", "bond", <<"O", "H">>) EXCEPT !.corresponding = "OfSingle"], 1),
  [Command("Chain", "bond", <<"All", "All">>) EXCEPT !.include = TRUE, !.maxCoord = 2],
  Static([Command("First", "bond", <<"O", "H">>) EXCEPT !.corresponding = "OfFirst", !.minCoord = 0]),
  (* docs/input.rst, section FINDSHORTEST *)
  Command("O_H", "findshortest", <<"H", "O">>),
  Coord(Command("WaterO", "subgroupcn", <<"O_H">>), 2),
  Coord(Command("HydroxideO", "subgroupcn", <<"O_H">>), 1),
  Command("OxideO", "diff", <<"O", "O_H">>),
  (* sets of groups *)
  Command("Both", "intersection", <<"Bonded", "O_H", "Chain">>),
  Command("Either", "sum", <<"Single", "O_H", "OfBonded">>),
  Command("Kept", "sum", <<"First", "OfFirst", "O">>),
  Command("Lost", "diff", <<"First", "Picked">>),
  Command("OnlyNow", "diff", <<"Bonded", "First", "Picked">>),
  (* coordination tables *)
  Command("Inverted", "invertcoordination", <<"Chain">>),
  Command("Molecules", "includecoordination", <<"O_H">>),
  Command("Second", "addcoordination", <<"Chain", "Bonded">>),
  Command("SecondO", "coordinationtableintersection", <<"Second", "O", "Chain">>),
  [Command("Third", "subgroup", <<"Molecules">>) EXCEPT !.ids = <<2, 0, 5>>],
  [Command("Left", "memberhistory", <<"All", "Bonded", "O">>) EXCEPT !.maxCoord = 1],
  [Command("Never", "memberhistory", <<"All", "Chain", "All">>) EXCEPT !.minCoord = 0, !.maxCoord = 0]
>>

(* The parents of both MEMBERHISTORYs are static.                           *)
ASSUME ParentsStatic == HistoriesFromStatic

(* Every oxygen is oxide, hydroxide or water (docs/input.rst, section       *)
(* FINDSHORTEST), and the hydrogens are all counted.                        *)
OxygensClassified ==
  past["O"] # <<>> => Classified("O_H", {"WaterO", "HydroxideO"}, "OxideO", "H", "O")
=============================================================================

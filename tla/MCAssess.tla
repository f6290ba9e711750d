------------------------------- MODULE MCAssess -------------------------------
(* Inputs on, below and above every limit of the code.                       *)
EXTENDS Assess

(* Any two fields of a good message replaced. *)
Good == [f \in Fields |-> Num(1)]
Odd  == {Absent, Text, NaN}
        \cup {Num(n) : n \in {-6, -5, -1, 0, 20, 21, 50, 51, 150, 151, 1800, 1801}}
SomeMessages == {[Good EXCEPT ![f] = v, ![g] = w] : f, g \in Fields, v, w \in Odd}

(* Each statistic on both sides of its limit, in the region and around it,  *)
(* frames that just hold the region and frames that do not; and a usable    *)
(* frame with probabilities 2% apart and their neighbours.                  *)
Stats == {[mean |-> m, std |-> s, blue |-> 60, red |-> r] :
             m \in {29, 30, 220, 221}, s \in {14, 15}, r \in {85, 86}}
Sizes == {<<w, h>> : w \in {2289, 2290, 2304}, h \in {1259, 1260, 1296}}
Triple(slightly, dirty) ==
    [c \in Labels |-> CASE c = "slightly_dirty" -> slightly [] c = "dirty" -> dirty
                        [] OTHER -> One - slightly - dirty]
OneFrame == CHOOSE s \in Stats : s.mean = 30 /\ s.std = 15 /\ s.red = 85
Grid == {200 * k + e : k \in 0..50, e \in {-1, 0, 1}} \cap 0..One
SomeSights ==
    {[frame |-> [width |-> z[1], height |-> z[2], roi |-> a, whole |-> b],
      p |-> Triple(0, One)] : z \in Sizes, a, b \in Stats}
    \cup {[frame |-> [width |-> 2304, height |-> 1296, roi |-> OneFrame, whole |-> OneFrame],
           p |-> Triple(u[1], u[2])] : u \in {v \in Grid \X Grid : v[1] + v[2] <= One}}

(* A deposit of any size with a run of any length; bars and cell edges in  *)
(* any number and width; and the panel that they cut into blocks.  Runs    *)
(* shorter and longer than the kernels, inside and at each border.         *)
Intervals(places) == {i..j : i, j \in places}
Rectangles == {c \X r : c \in Intervals(Columns), r \in Intervals(Rows)}
Runs       == {q \in Rectangles : \E x \in Columns, y \in Rows :
                                     q \subseteq Columns \X {y} \/ q \subseteq {x} \X Rows}
Lattices   == {(c \X Rows) \cup (Columns \X r) : c \in SUBSET Columns, r \in SUBSET Rows}
Blocks     == {c \X r : c \in SUBSET Columns, r \in SUBSET Rows}
SomeMasks  == {d \cup run : d \in Rectangles, run \in Runs} \cup Lattices \cup Blocks
NoMessages == {}
NoSights   == {}
===============================================================================

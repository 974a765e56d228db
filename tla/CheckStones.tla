----------------------------- MODULE CheckStones -----------------------------
(***************************************************************************)
(* The judge of the game: checkStones() in OmokDatas.swift, for a board of *)
(* N by N cells and lines of K stones (11 and 5 in the code).  A board is  *)
(* a function from cells to colours: 0 empty, 1 the challenger's stones,   *)
(* 2 the challenged player's.                                              *)
(*                                                                         *)
(* The code walks the board line by line with one running count.  A walk   *)
(* is the sequence of cells it visits between two resets of the count, and *)
(* the count is looked at after every "step"-th cell.  Rows and columns    *)
(* are walks of their own, looked at after every cell.  The diagonals are  *)
(* not: the reset stands in the outer loop over x, so all the diagonal     *)
(* segments of K cells that start in row x form one walk, looked at after  *)
(* each segment, and a segment inherits the count the one before left.     *)
(***************************************************************************)
EXTENDS Integers, Sequences, FiniteSets

CONSTANTS
  N,       \* the board is N by N
  K        \* stones in a line

ASSUME SizeAssumption == N \in Nat \ {0} /\ K \in Nat \ {0}

Index  == 0..(N - 1)
Cells  == Index \X Index
Colour == 1..2
Boards == [Cells -> {0} \cup Colour]
Blank  == [p \in Cells |-> 0]

Stones(b, k) == {p \in Cells : b[p] = k}
-----------------------------------------------------------------------------
(* Mutant of Count: a foreign stone does not reset the count.              *)
CountNoReset(b, k, s) ==
  LET count[i \in 0..Len(s)] ==
        IF i = 0 THEN 0
        ELSE IF b[s[i]] = k THEN count[i - 1] + 1 ELSE count[i - 1]
  IN count

(* The running count after the i-th cell of walk s, for stones of colour k.*)
Count(b, k, s) ==
  LET count[i \in 0..Len(s)] ==
        IF i > 0 /\ b[s[i]] = k THEN count[i - 1] + 1 ELSE 0
  IN count

Hit(b, k, s, step) ==
  \E i \in 1..Len(s) : i % step = 0 /\ Count(b, k, s)[i] = K

(* Mutant of Rows: the last cell is left out.                              *)
RowsShort == {[j \in 1..(N - 1) |-> <<x, j - 1>>] : x \in Index}
Rows    == {[j \in 1..N |-> <<x, j - 1>>] : x \in Index}
Columns == {[j \in 1..N |-> <<j - 1, y>>] : y \in Index}

(* Cell j of the walk through the segments that start in row x.            *)
Segments == N - K + 1
Place(j)   == (j - 1) % K
Segment(j) == (j - 1) \div K
(* Mutant of Diagonals: the last row of segments is left out.              *)
DiagonalsShort ==
  {[j \in 1..(Segments * K) |-> <<x + Place(j), Segment(j) + Place(j)>>]
     : x \in 0..(N - K - 1)}
Diagonals ==
  {[j \in 1..(Segments * K) |-> <<x + Place(j), Segment(j) + Place(j)>>]
     : x \in 0..(N - K)}
Antidiagonals ==
  {[j \in 1..(Segments * K) |->
      <<x + Place(j), (K - 1) + Segment(j) - Place(j)>>] : x \in 0..(N - K)}

HasLine(b, k) ==
  \/ \E s \in Rows \cup Columns : Hit(b, k, s, 1)
  \/ \E s \in Diagonals \cup Antidiagonals : Hit(b, k, s, K)

(* The colours are tried in order; 0 when the function falls through and   *)
(* leaves winner and gameOver as they are.                                 *)
Verdict(b) ==
  IF HasLine(b, 1) THEN 1 ELSE IF HasLine(b, 2) THEN 2 ELSE 0
=============================================================================

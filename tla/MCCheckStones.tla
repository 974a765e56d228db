--------------------------- MODULE MCCheckStones ---------------------------
(***************************************************************************)
(* The judge on every small board.  The boards are reached the way a match *)
(* reaches them, by laying stones of the colours in Laid on empty cells;   *)
(* every order is allowed, so every board over these colours is reached.   *)
(***************************************************************************)
EXTENDS CheckStones

CONSTANT Laid     \* bound: the colours laid in this run

VARIABLE board

Init == board = Blank

Lay(p, k) == board[p] = 0 /\ board' = [board EXCEPT ![p] = k]

Next == \E p \in Cells, k \in Laid : Lay(p, k)

Spec == Init /\ [][Next]_board
-----------------------------------------------------------------------------
(* What a line is: K stones of one colour in a row, straight or diagonal.  *)
Line(b, k, p, d) ==
  \A i \in 0..(K - 1) :
    LET q == <<p[1] + i * d[1], p[2] + i * d[2]>>
    IN q \in Cells /\ b[q] = k

Straight == {<<0, 1>>, <<1, 0>>}
Slanted  == {<<1, 1>>, <<1, -1>>}

FiveInRow(b, k) ==
  \E p \in Cells, d \in Straight \cup Slanted : Line(b, k, p, d)

(* The judge never invents a line: whatever count the walk carries over    *)
(* (OmokDatas.swift:133-175), a verdict is backed by K stones in a row of  *)
(* that colour.                                                            *)
NoFalseVerdict == \A k \in Colour : Verdict(board) = k => FiveInRow(board, k)

(* Rows and columns are always found: a line there gives a verdict.        *)
StraightLinesFound ==
  \A k \in Colour, p \in Cells, d \in Straight :
    Line(board, k, p, d) => HasLine(board, k)

(* A diagonal goes unnoticed only if the segment walked just before it,    *)
(* the one whose last cell is the left neighbour of its own last cell, is  *)
(* on the board and ends with a stone of the same colour.                  *)
OnlyCarryHides ==
  \A k \in Colour, p \in Cells, d \in Slanted :
    Line(board, k, p, d) /\ ~HasLine(board, k) =>
      LET left == <<p[1] + K - 1, p[2] - 1 + (K - 1) * d[2]>>
      IN left \in Cells /\ board[left] = k

(* The game the README announces: K stones in a row end it.                *)
EveryLineEnds ==
  \A k \in Colour : FiveInRow(board, k) => Verdict(board) # 0
=============================================================================

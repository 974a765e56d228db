----------------------------- MODULE MCOmokGame -----------------------------
(* OmokGame on small boards: the two players, and boards as the values of  *)
(* the shared location.                                                    *)
EXTENDS OmokGame

MCClient == {Challenger, Challenged}
MCValue  == Boards

CONSTANT WritesEach
MCMaxWrites == [c \in MCClient |-> WritesEach]

FirstRow    == {0} \X Index
ThreeCells  == Cells \ {<<N - 1, N - 1>>}
=============================================================================

------------------------------ MODULE MCPaging ------------------------------
(* Ledgers of up to four rows growing to six, pages of one to three rows,   *)
(* walks from the first or second row, unset and too large parameters.      *)
EXTENDS Paging

MCLedgers == {<<>>, <<1>>, <<1, 2>>, <<1, 2, 3, 4>>}
=============================================================================

------------------------------- MODULE MCPoll -------------------------------
(* Two polls of one order: four copies in all, at most two for one call;    *)
(* options left unset (doubling), a fractional multiplier (1.25, by which 3 *)
(* becomes 3.75, no float64, and then 3 or 4), and one whose products are   *)
(* no int64, starting above the cap. float64 has significands of three bits *)
(* here.                                                                    *)
EXTENDS Poll

Opt(i, m, f) == [initial |-> i, max |-> m, mult |-> f]

MCFloats == {s * 2^e : s \in 0..7, e \in 0..5}

MCDefaults == Opt(1, 3, 8)
MCOptions == {Opt(0, 0, 0), Opt(3, 4, 5), Opt(21, 20, 224)}
MCAboveCap == {Opt(4, 2, 4)}
=============================================================================

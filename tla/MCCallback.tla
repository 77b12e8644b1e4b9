----------------------------- MODULE MCCallback -----------------------------
(* Callbacks through a key rotation and crashes, with a stray sender.       *)
(* Handlers are interchangeable for the safety properties.                  *)
EXTENDS Callback, TLC

\* The texts share one alphabet, and one path is the beginning of the other.
MCCharacters == {"POST", " ", "/", "a", "b", "0", "1"}
MCClientID == <<"a">>
MCMillis == [t \in 0..MaxTime |-> IF t = 0 THEN <<"0">> ELSE <<"1">>]
MCEndpoint == <<"/", "a">>
MCElsewhere == <<"/", "a", "b">>
MCBody == [e \in Events \cup {Stray} |-> IF e = Stray THEN "stray" ELSE "event"]
MCTorn == [b \in {"event", "stray"} |-> "torn"]
MCBase64 == [event |-> <<"b", "a">>, stray |-> <<"b", "b">>, torn |-> <<"b">>]

MCSymmetry == Permutations(Handlers)
=============================================================================

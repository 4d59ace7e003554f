--------------------------- MODULE MCCliqueEngine ---------------------------
(* Two signers who may vote to drop the second of them. *)
EXTENDS CliqueEngine

MCBallots == {<<0, "drop">>, <<2, "drop">>}
=============================================================================

--------------------------- MODULE MCCliqueVoting ---------------------------
(* CliqueVoting with its constants given by the configurations. *)
EXTENDS CliqueVoting

\* Two signers, and four (whose limit the first blocks do not reach).
MCGenesis == {{1, 2}, {0, 1, 2, 3}}
=============================================================================

--------------------------- MODULE MCCliqueSealer ---------------------------
(* CliqueSealer with its constants given by the configurations. *)
EXTENDS CliqueSealer

\* Two signers.
MCGenesis == {{1, 2}}
=============================================================================

------------------------- MODULE MCServerLifecycle -------------------------
(***************************************************************************)
(* The instance of ServerLifecycle that TLC checks.                        *)
(***************************************************************************)
EXTENDS ServerLifecycle

MCMaxEvents == 4

=============================================================================

------------------------------ MODULE MCConsole ------------------------------
(* Small instances of Console.                                             *)
EXTENDS Console

AllKinds == {"claim", "burn", "recover", "send", "swap", "bridge"}
OnlyBurn == {"burn"}
=============================================================================

-------------------------- MODULE MCCleanSubmission --------------------------
(***************************************************************************)
(* Two providers, as in production (a primary and a fallback).             *)
(***************************************************************************)
EXTENDS CleanSubmission

CONSTANTS primary, fallback

MCProvider == {primary, fallback}
=============================================================================

----------------------------- MODULE MCEnrolment -----------------------------
(***************************************************************************)
(* An instance of Enrolment for TLC.                                       *)
(***************************************************************************)
EXTENDS Enrolment

CONSTANTS a, b
MCClients == {a, b}
=============================================================================

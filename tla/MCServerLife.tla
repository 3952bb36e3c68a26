---------------------------- MODULE MCServerLife ----------------------------
(***************************************************************************)
(* An instance of ServerLife for TLC.                                      *)
(***************************************************************************)
EXTENDS ServerLife

CONSTANTS p, q, a, b, c
MCProcesses == {p, q}
MCPasswords == [o \in {p, q} |-> IF o = p THEN {"first"} ELSE {"first", "other"}]
MCAddresses == {a, b, c}
=============================================================================

------------------------------ MODULE MCFormats ------------------------------
(***************************************************************************)
(* An instance of Formats for TLC.                                         *)
(***************************************************************************)
EXTENDS Formats

\* Two faults where the parts of a record are bound to each other by keys.
MCMaxFaults ==
  [request |-> 1, response |-> 1, bootstrap |-> 1, challenge |-> 1, manifest |-> 1,
   body |-> 1, object |-> 2, vault_key |-> 2, commit |-> 1]

\* Around one, two and sixteen records, and around the most a transport may carry.
MCSizes ==
  {0, 1} \cup 61439 .. 61441 \cup 122879 .. 122881 \cup 983039 .. 983041
    \cup 1048200 .. 1048576

\* From too fast to measure to a minute.
MCTimings ==
  {0, 1, 49999, 50000, 50001, 79999, 80000, 80001, 499999, 500000, 500001, 800001, 60000000}

MCMaxTyped == [path |-> 4, vault |-> 5, text |-> 6]
MCMaxSegments == [path |-> 2, vault |-> 4]
=============================================================================

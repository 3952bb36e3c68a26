---------------------------- MODULE VaultPromise ----------------------------
(***************************************************************************)
(* What setting up promises: a vault is founded once, with one key, and    *)
(* whoever has joined it holds that key for ever.  There are no sessions,  *)
(* messages or servers here.                                               *)
(***************************************************************************)
CONSTANTS Members, Keys, NoKey

VARIABLES
  key,   \* the key of the vault
  holds  \* member -> the key it holds

vars == <<key, holds>>

Init == key = NoKey /\ holds = [m \in Members |-> NoKey]

Found(k) ==
  /\ key = NoKey
  /\ key' = k
  /\ UNCHANGED holds

Join(m) ==
  /\ key # NoKey
  /\ holds[m] = NoKey
  /\ holds' = [holds EXCEPT ![m] = key]
  /\ UNCHANGED key

Next == (\E k \in Keys : Found(k)) \/ (\E m \in Members : Join(m))

Spec == Init /\ [][Next]_vars
=============================================================================

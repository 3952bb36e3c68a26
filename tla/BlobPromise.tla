---------------------------- MODULE BlobPromise ----------------------------
(***************************************************************************)
(* What the object store promises its clients: objects become readable     *)
(* whole, stay readable, and are confirmed to a device only then.  There   *)
(* are no chunks, files, tables or crashes here.                           *)
(***************************************************************************)
CONSTANTS Devices, Blobs

VARIABLES
  readable,  \* the objects every device can download
  promised   \* the <<device, object>> pairs that were confirmed

vars == <<readable, promised>>

Init == readable = {} /\ promised = {}

Publish(b) ==
  /\ readable' = readable \cup {b}
  /\ UNCHANGED promised

Confirm(d, b) ==
  /\ b \in readable
  /\ promised' = promised \cup {<<d, b>>}
  /\ UNCHANGED readable

Next ==
  \/ \E b \in Blobs : Publish(b)
  \/ \E d \in Devices, b \in Blobs : Confirm(d, b)

Spec == Init /\ [][Next]_vars
=============================================================================

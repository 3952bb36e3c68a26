\* The attempts of one device, cut off and crashed, share a single upload slot.
SPECIFICATION FairSpec
CONSTANTS
  b1 = b1
  b2 = b2
  Devices = {d1}
  Blobs = {b1, b2}
  Size <- TwoAndOne
  Chunks = {"good"}
  Uploads = {u1, u2, u3}
  None = None
  Tasks = {t1, t2}
  MaxActive = 4
  MaxPerDevice = 1
  Cancellable = FALSE
INVARIANT
  TypeOK
PROPERTY
  EventuallyConfirmed

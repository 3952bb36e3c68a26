\* Two devices publish one ciphertext at once, with crashes between renames.
SPECIFICATION Spec
CONSTANTS
  b1 = b1
  b2 = b2
  Devices = {d1, d2}
  Blobs = {b1}
  Size <- OneChunk
  Chunks = {"good", "bad"}
  Uploads = {u1, u2}
  None = None
  Tasks = {t1, t2}
  MaxActive = 4
  MaxPerDevice = 2
  Cancellable = FALSE
SYMMETRY StoreSymmetry
PROPERTY
  ImplementsPromise

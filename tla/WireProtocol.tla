---------------------------- MODULE WireProtocol ----------------------------
(***************************************************************************)
(* The messages of the protocol (ll-protocol: codec.rs, types.rs,          *)
(* limits.rs, frame.rs) and the records and frames that carry them         *)
(* (ll-crypto: noise.rs).  Lengths are the bytes of the code.              *)
(***************************************************************************)
EXTENDS Cbor, FiniteSets

PROTOCOL_VERSION == 1
MAX_HANDSHAKE_BYTES == 4096
MAX_TRANSPORT_CIPHERTEXT_BYTES == 1024 * 1024

\* Mutant of MAX_HTTP_BODY_BYTES: the frame's header is forgotten.
HTTP_BODY_WITHOUT_HEADER == MAX_TRANSPORT_CIPHERTEXT_BYTES

MAX_HTTP_BODY_BYTES == MAX_TRANSPORT_CIPHERTEXT_BYTES + 64
MAX_CHUNK_BYTES == 256 * 1024
MAX_ENCRYPTED_DEVICE_NAME_BYTES == 4096
MAX_SIGNED_COMMIT_BYTES == 264 * 1024
MAX_VAULT_KEY_ENVELOPE_BYTES == 512
MAX_KNOWN_COMMITS == 2048
MAX_HEADS == 1024

MAX_CHANGES_PER_RESPONSE == 3
MAX_DEVICES_READ == 1024

Version == Expect(Uint(PROTOCOL_VERSION))

\* The suite is compared with the only one there is after it is read.
NoiseSuite == Text(33, Atom(0))

----------------------------------------------------------------------------
\* What a client may ask.  An alternative begins with its length and its number.
Alternative(tag, fields) ==
  <<Expect(Array(Len(fields) + 1)), Expect(Uint(tag))>> \o fields

Requests ==
  [authenticate |-> Alternative(1, <<Fixed(32), Optional(16), Optional(64)>>),
   register_device |->
     Alternative(2, <<Fixed(16), Fixed(32), Bounded(MAX_ENCRYPTED_DEVICE_NAME_BYTES), Fixed(64)>>),
   list_devices |-> Alternative(3, <<>>),
   revoke_device |-> Alternative(4, <<Fixed(16)>>),
   begin_upload |-> Alternative(5, <<U64, Fixed(32)>>),
   upload_chunk |-> Alternative(6, <<Fixed(16), U64, Bounded(MAX_CHUNK_BYTES)>>),
   commit_upload |-> Alternative(7, <<Fixed(16)>>),
   get_blob |-> Alternative(8, <<Fixed(32), U64, U32>>),
   ping |-> Alternative(9, <<>>),
   put_commit |-> Alternative(10, <<Bounded(MAX_SIGNED_COMMIT_BYTES)>>),
   get_commit |-> Alternative(11, <<Fixed(32)>>),
   get_heads |-> Alternative(12, <<>>),
   get_changes |->
     Alternative(13, <<List(MAX_KNOWN_COMMITS, <<Fixed(32)>>),
                       Numbers(1 .. MAX_CHANGES_PER_RESPONSE)>>),
   put_vault_key_envelope |-> Alternative(14, <<Bounded(MAX_VAULT_KEY_ENVELOPE_BYTES)>>),
   get_vault_key_envelope |-> Alternative(15, <<>>)]

\* The proof of an existing device has both its parts or neither.
PairedProof(values) == (values[3] = <<>>) <=> (values[4] = <<>>)

----------------------------------------------------------------------------
\* What the server may answer.
Device ==
  <<Expect(Array(4)), Fixed(16), Fixed(32), Bounded(MAX_ENCRYPTED_DEVICE_NAME_BYTES), Truth>>

ErrorCodes == 1 .. 19

Responses ==
  [authenticated |-> Alternative(1, <<Truth, Fixed(16)>>),
   device_registered |-> Alternative(2, <<>>),
   devices |-> Alternative(3, <<List(MAX_DEVICES_READ, Device)>>),
   device_revoked |-> Alternative(4, <<>>),
   upload_ready |-> Alternative(5, <<Fixed(16), U64>>),
   chunk_accepted |-> Alternative(6, <<U64>>),
   upload_committed |-> Alternative(7, <<Fixed(32)>>),
   blob_chunk |-> Alternative(8, <<U64, U64, Truth, Bounded(MAX_CHUNK_BYTES)>>),
   pong |-> Alternative(9, <<>>),
   commit_stored |-> Alternative(10, <<Fixed(32), List(MAX_HEADS, <<Fixed(32)>>)>>),
   commit_record |-> Alternative(11, <<Bounded(MAX_SIGNED_COMMIT_BYTES)>>),
   heads |-> Alternative(12, <<List(MAX_HEADS, <<Fixed(32)>>)>>),
   changes |->
     Alternative(13, <<List(MAX_CHANGES_PER_RESPONSE, <<Bounded(MAX_SIGNED_COMMIT_BYTES)>>),
                       Truth>>),
   vault_key_envelope_stored |-> Alternative(14, <<>>),
   vault_key_envelope |-> Alternative(15, <<Bounded(MAX_VAULT_KEY_ENVELOPE_BYTES)>>),
   error |-> Alternative(255, <<Numbers(ErrorCodes)>>)]

\* ClientMessage and ServerMessage: the version, the sequence number, the body.
Message(body) == <<Expect(Array(3)), Version, U64>> \o body

Bootstrap ==
  <<Expect(Array(7)), Version, Fixed(16), Name, Fixed(32), Name, U32, U32>>

AuthChallenge ==
  <<Expect(Array(7)), Fixed(32), Fixed(16), U32, U32, U32, Fixed(32), Fixed(16)>>

KnownSuite(values) == values[2] = <<NoiseSuite.n, NoiseSuite.content>>

NoisePrologue(instance) ==
  <<Array(4), Text(13, Atom(0)), Uint(PROTOCOL_VERSION), Bytes(16, instance), NoiseSuite>>

----------------------------------------------------------------------------
\* Decoding: the readings of some bytes, of which there is at most one; each names
\* the alternative that the length and the number select.
RequestReadings(tokens) ==
  {reading \in {<<name, Decoded(Message(Requests[name]), tokens)>> :
                 name \in {name \in DOMAIN Requests : Decodes(Message(Requests[name]), tokens)}} :
     reading[1] = "authenticate" => PairedProof(reading[2])}

ResponseReadings(tokens) ==
  {<<name, Decoded(Message(Responses[name]), tokens)>> :
     name \in {name \in DOMAIN Responses : Decodes(Message(Responses[name]), tokens)}}

BootstrapReadings(tokens) ==
  {values \in {Decoded(Bootstrap, tokens)} : Decodes(Bootstrap, tokens) /\ KnownSuite(values)}

\* The most bytes that a schema admits.
LargestItem(field) ==
  CASE field.type = "expect" -> Size(field.token)
    [] field.type = "truth" -> 1
    [] field.type = "one_of" -> HeadSize(Cardinality(field.set))
    [] field.type = "number" -> HeadSize(field.n)
    [] OTHER -> HeadSize(field.n) + field.n

LargestItems(fields) == FoldLeft(LAMBDA total, field : total + LargestItem(field), 0, fields)

Largest(schema) ==
  FoldLeft(LAMBDA total, field :
             total + IF field.type = "list"
                     THEN HeadSize(field.max) + field.max * LargestItems(field.fields)
                     ELSE LargestItem(field),
           0, schema)

----------------------------------------------------------------------------
\* Records and frames: a message of so many bytes is cut into chunks, each of
\* them gets a tag and a length of two bytes, and a header precedes them.
NOISE_TAG_BYTES == 16
RECORD_LENGTH_BYTES == 2
MAX_NOISE_MESSAGE_BYTES == 65535
TRANSPORT_PLAINTEXT_RECORD_BYTES == 60 * 1024
FRAME_HEADER_BYTES == 40

Records(size) ==
  [k \in 1 .. (size + TRANSPORT_PLAINTEXT_RECORD_BYTES - 1)
                 \div TRANSPORT_PLAINTEXT_RECORD_BYTES |->
     NOISE_TAG_BYTES
       + IF k * TRANSPORT_PLAINTEXT_RECORD_BYTES <= size
         THEN TRANSPORT_PLAINTEXT_RECORD_BYTES
         ELSE size % TRANSPORT_PLAINTEXT_RECORD_BYTES]

SizeOfRecords(records) ==
  FoldLeft(LAMBDA total, length : total + RECORD_LENGTH_BYTES + length, 0, records)

\* encrypt_transport_records refuses an empty and an oversized message.
Encrypts(size) == size > 0 /\ SizeOfRecords(Records(size)) <= MAX_TRANSPORT_CIPHERTEXT_BYTES

\* decrypt_transport_records: every length is one that Noise may have, and the
\* clear text is what the records leave without their tags.
Decrypts(records) ==
  /\ records # <<>>
  /\ SizeOfRecords(records) <= MAX_TRANSPORT_CIPHERTEXT_BYTES
  /\ \A k \in DOMAIN records : records[k] \in NOISE_TAG_BYTES .. MAX_NOISE_MESSAGE_BYTES

ClearSize(records) ==
  FoldLeft(LAMBDA total, length : total + length - NOISE_TAG_BYTES, 0, records)

\* encode_transport_frame, decode_transport_frame and the limit of the HTTP body.
FrameSize(records) == FRAME_HEADER_BYTES + SizeOfRecords(records)

Arrives(size) ==
  LET records == Records(size)
  IN /\ FrameSize(records) <= MAX_HTTP_BODY_BYTES
     /\ Decrypts(records)
     /\ ClearSize(records) = size
=============================================================================

--------------------------- MODULE VersionRecords ---------------------------
(***************************************************************************)
(* Manifests, commit bodies and signed commits (ll-versioning: manifest.rs,*)
(* commit.rs) and the commit a client makes of them (ll-client: vault.rs,  *)
(* ll-client-core: formats.rs).                                            *)
(***************************************************************************)
EXTENDS EncryptedObject

CONSTANTS
  MAX_MANIFEST_ENTRIES,  \* of manifest.rs
  MAX_OPERATIONS,        \* of manifest.rs
  MAX_CONFLICT_OBJECTS,  \* of manifest.rs
  MAX_COMMIT_PARENTS     \* of commit.rs

ASSUME RecordsAssumption ==
  {MAX_MANIFEST_ENTRIES, MAX_OPERATIONS, MAX_CONFLICT_OBJECTS, MAX_COMMIT_PARENTS}
    \subseteq Nat

MAX_MANIFEST_BYTES == 16 * 1024 * 1024
MAX_COMMIT_BODY_BYTES == 256 * 1024

\* Identifiers are atoms and ordered by their numbers.
Rank(content) == content[1].n

Ascending(ranks) == \A k \in 1 .. Len(ranks) - 1 : ranks[k] < ranks[k + 1]

----------------------------------------------------------------------------
\* A manifest: the vault and entries of object, revision, type, path, content,
\* metadata, hash, tombstone.
ManifestSchema ==
  <<Expect(Map(3)), Key(0), Version, Key(1), Fixed(16), Key(2),
    List(MAX_MANIFEST_ENTRIES,
         <<Expect(Array(8)), Fixed(16), U64, Numbers(ObjectTypes), Fixed(32), Blank(32),
           Blank(32), Fixed(32), Truth>>)>>

EntryIsValid(entry) ==
  /\ entry[2][1] > 0
  /\ entry[3][1] \notin {PATH, COMMIT, RECOVERY}
  /\ (entry[5] = <<>>) = (entry[8][1] = 1)

ObjectRanks(entries) == [k \in DOMAIN entries |-> Rank(entries[k][1][2])]

ManifestIsValid(values) ==
  /\ Len(values[2]) <= MAX_MANIFEST_ENTRIES
  /\ Ascending(ObjectRanks(values[2]))
  /\ \A k \in DOMAIN values[2] : EntryIsValid(values[2][k])

ManifestDecodes(tokens) ==
  /\ SizeOf(tokens) <= MAX_MANIFEST_BYTES
  /\ Decodes(ManifestSchema, tokens)
  /\ ManifestIsValid(Decoded(ManifestSchema, tokens))

\* Manifest::new: the entries in the order of their objects.
NewManifest(vault, entries) ==
  <<<<16, vault>>,
    SortSeq(entries, LAMBDA x, y : Rank(x[1][2]) < Rank(y[1][2]))>>

ManifestRoot(values) == Hash(Write(ManifestSchema, values))

----------------------------------------------------------------------------
\* OperationKind.
CREATE == 1
MODIFY == 2
RENAME == 3
DELETE_TOMBSTONE == 4
MERGE == 5

\* A commit body: time, operations of kind, object, base, revision, path, content;
\* the manifest's root and blob, the merge base, the conflicting objects.
BodySchema ==
  <<Expect(Map(7)), Key(0), Version, Key(1), U64, Key(2),
    List(MAX_OPERATIONS,
         <<Expect(Array(6)), Numbers(1 .. 5), Fixed(16), U64, U64, Blank(32), Blank(32)>>),
    Key(3), Fixed(32), Key(4), Fixed(32), Key(5), Blank(32), Key(6),
    List(MAX_CONFLICT_OBJECTS, <<Fixed(16)>>)>>

\* operation_shape_is_valid.
ShapeIsValid(kind, path, content) ==
  \/ kind = CREATE /\ path # <<>> /\ content # <<>>
  \/ kind \in {MODIFY, MERGE} /\ content # <<>>
  \/ kind = RENAME /\ path # <<>> /\ content = <<>>
  \/ kind = DELETE_TOMBSTONE /\ path = <<>> /\ content = <<>>

OperationIsValid(operation) ==
  /\ operation[4][1] = operation[3][1] + 1
  /\ (operation[1][1] = CREATE) = (operation[3][1] = 0)
  /\ ShapeIsValid(operation[1][1], operation[5], operation[6])

\* operation_key: the object, then the kind, of which there are five.
OperationRanks(operations) ==
  [k \in DOMAIN operations |-> 8 * Rank(operations[k][2][2]) + operations[k][1][1]]

BodyIsValid(values) ==
  /\ values[1][1] > 0
  /\ Len(values[2]) <= MAX_OPERATIONS
  /\ Len(values[6]) <= MAX_CONFLICT_OBJECTS
  /\ Ascending(OperationRanks(values[2]))
  /\ Ascending([k \in DOMAIN values[6] |-> Rank(values[6][k][1][2])])
  /\ \A k \in DOMAIN values[2] : OperationIsValid(values[2][k])

BodyEncodes(values) ==
  BodyIsValid(values) /\ SizeOf(Write(BodySchema, values)) <= MAX_COMMIT_BODY_BYTES

BodyDecodes(tokens) ==
  /\ SizeOf(tokens) <= MAX_COMMIT_BODY_BYTES
  /\ Decodes(BodySchema, tokens)
  /\ BodyIsValid(Decoded(BodySchema, tokens))

----------------------------------------------------------------------------
\* The fields that are signed: vault, parents, device, number, size, hash and
\* bytes of the encrypted body.
UnsignedSchema ==
  <<Expect(Map(8)), Key(0), Version, Key(1), Fixed(16), Key(2),
    List(MAX_COMMIT_PARENTS, <<Fixed(32)>>), Key(3), Fixed(16), Key(4), U64, Key(5), U64,
    Key(6), Fixed(32), Key(7), Bounded(MAX_COMMIT_BODY_BYTES)>>

SignedSchema ==
  <<Expect(Map(3)), Key(0), Bounded(MAX_SIGNED_COMMIT_BYTES), Key(1), Fixed(32),
    Key(2), Fixed(64)>>

\* validate_unsigned: limits, sorted parents, and a body that is an object of this
\* vault and of the type of commits.
UnsignedIsValid(values) ==
  /\ values[4][1] > 0
  /\ Ascending([k \in DOMAIN values[2] |-> Rank(values[2][k][1][2])])
  /\ values[7] # <<>>
  /\ ObjectDecodes(values[7][2])
  /\ LET body == Decoded(ObjectSchema, values[7][2])
     IN body[1] = values[1] /\ body[4][1] = COMMIT

\* decode_unsigned: the declared size and hash are those of the body.
UnsignedDecodes(tokens) ==
  /\ Decodes(UnsignedSchema, tokens)
  /\ LET values == Decoded(UnsignedSchema, tokens)
     IN /\ UnsignedIsValid(values)
        /\ values[5][1] = values[7][1]
        /\ values[6][2] = Hash(values[7][2])

\* The hash of a label and the fields.
CommitId(unsigned) == Term("commit_id", unsigned)

Signature(key, id) == Term("signature", <<Group(key), Group(id)>>)

NamesItself(values) == values[2][2] = CommitId(values[1][2])

\* decode_signed_commit.
CommitDecodes(tokens) ==
  /\ SizeOf(tokens) <= MAX_SIGNED_COMMIT_BYTES
  /\ Decodes(SignedSchema, tokens)
  /\ LET values == Decoded(SignedSchema, tokens)
     IN UnsignedDecodes(values[1][2]) /\ NamesItself(values)

\* verify_signed_commit.
CommitVerifies(tokens, key) ==
  LET values == Decoded(SignedSchema, tokens)
  IN values[3][2] = Signature(key, values[2][2])

\* SignedCommit::create and encode_signed_commit, of fields that UnsignedIsValid accepts.
SignCommit(key, vault, parents, device, number, body) ==
  LET unsigned ==
        Write(UnsignedSchema,
              <<<<16, vault>>, parents, <<16, device>>, <<number, <<>>>>,
                <<SizeOf(body), <<>>>>, <<32, Hash(body)>>, <<SizeOf(body), body>>>>)
      id == CommitId(unsigned)
  IN Write(SignedSchema,
           <<<<SizeOf(unsigned), unsigned>>, <<32, id>>, <<64, Signature(key, id)>>>>)

\* decode_signed_commit_output: what a device makes of a record: nothing, unless
\* it is well formed, signed by the device that is asked for, in this vault, and
\* its body is well formed too.
CommitIsRead(tokens, key, master, vault) ==
  /\ CommitDecodes(tokens)
  /\ CommitVerifies(tokens, key)
  /\ LET unsigned == Decoded(UnsignedSchema, Decoded(SignedSchema, tokens)[1][2])
     IN /\ Opens(master, vault, unsigned[7][2])
        /\ BodyDecodes(OpenedObject(unsigned[7][2]).clear)
=============================================================================

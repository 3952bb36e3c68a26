--------------------------- MODULE EncryptedObject ---------------------------
(***************************************************************************)
(* Encrypted objects (ll-crypto: object.rs, keys.rs), the vault key        *)
(* wrapped by a password (vault.rs) and what an unlocked client does with  *)
(* them (ll-client: vault.rs, device.rs).  The cryptography is symbolic: a *)
(* key is a term, and what was sealed with a key, a nonce and associated   *)
(* data is opened only with the same three.                                *)
(***************************************************************************)
EXTENDS WireProtocol

DEK_BYTES == 32
TAG_BYTES == 16
NONCE_BYTES == 24
MAX_OBJECT_CIPHERTEXT_BYTES == 512 * 1024 * 1024 + 16
CIPHER_SUITE == Text(34, Atom(1))

\* ObjectType.
CONTENT == 1
PATH == 2
METADATA == 3
COMMIT == 4
ATTACHMENT == 5
RECOVERY == 6
ObjectTypes == 1 .. 6

----------------------------------------------------------------------------
\* Terms: byte strings by the way they were made.
Group(tokens) == Token("group", Len(tokens), tokens)
Term(constructor, parts) == <<Token(constructor, Len(parts), parts)>>

Hash(tokens) == Term("hash", tokens)

\* HKDF with the vault as salt and a label for each type of object.
Subkey(master, vault, type) ==
  Term("hkdf", <<Group(master), Group(vault), Uint(type)>>)

\* Argon2id with a label before the password.
Kek(password, salt, policy) == Term("argon2", <<Group(password), Group(salt), Group(policy)>>)

Seal(key, nonce, aad, clear) ==
  Term("sealed", <<Group(key), Group(nonce), Group(aad), Group(clear)>>)

Sealed(key, nonce, aad, content) ==
  /\ content # <<>>
  /\ content[1].kind = "sealed"
  /\ SubSeq(content[1].content, 1, 3) = <<Group(key), Group(nonce), Group(aad)>>

Opened(content) == content[1].content[4].content

----------------------------------------------------------------------------
\* The envelope of an object: vault, object, revision, type, the nonces of the
\* payload and of the key, the wrapped key, the payload.
ObjectSchema ==
  <<Expect(Map(9)), Key(0), Version, Key(1), Fixed(16), Key(2), Fixed(16), Key(3), U64,
    Key(4), Numbers(ObjectTypes), Key(5), Fixed(NONCE_BYTES), Key(6), Fixed(NONCE_BYTES),
    Key(7), Fixed(DEK_BYTES + TAG_BYTES), Key(8), Bounded(MAX_OBJECT_CIPHERTEXT_BYTES)>>

\* Mutant of ObjectAad: the revision is not bound.
ObjectAadUnversioned(values, purpose) ==
  <<Array(6), Uint(PROTOCOL_VERSION), Bytes(values[1][1], values[1][2]),
    Bytes(values[2][1], values[2][2]), Uint(values[4][1]), CIPHER_SUITE,
    Bytes(7, Atom(purpose))>>

\* What the two encryptions are bound to; purpose 2 is payload, 3 is wrapped-dek.
ObjectAad(values, purpose) ==
  <<Array(7), Uint(PROTOCOL_VERSION), Bytes(values[1][1], values[1][2]),
    Bytes(values[2][1], values[2][2]), Uint(values[3][1]), Uint(values[4][1]),
    CIPHER_SUITE, Bytes(IF purpose = 2 THEN 7 ELSE 11, Atom(purpose))>>

\* encrypt_object of a revision above zero and a clear text within the limit, with the
\* random data key and nonces as arguments.
EncryptedValues(master, vault, identity, clear, dek, nonces) ==
  LET head == <<<<16, vault>>, <<16, identity.object>>, <<identity.revision, <<>>>>,
                <<identity.type, <<>>>>, <<NONCE_BYTES, nonces[1]>>, <<NONCE_BYTES, nonces[2]>>>>
  IN head \o
     <<<<DEK_BYTES + TAG_BYTES,
         Seal(Subkey(master, vault, identity.type), nonces[2], ObjectAad(head, 3), dek)>>,
       <<SizeOf(clear) + TAG_BYTES, Seal(dek, nonces[1], ObjectAad(head, 2), clear)>>>>

EncryptObject(master, vault, identity, clear, dek, nonces) ==
  Write(ObjectSchema, EncryptedValues(master, vault, identity, clear, dek, nonces))

\* decode_object_envelope: the tag is there and the revision is not zero.
ObjectDecodes(tokens) ==
  /\ SizeOf(tokens) <= MAX_OBJECT_CIPHERTEXT_BYTES + 512
  /\ Decodes(ObjectSchema, tokens)
  /\ LET values == Decoded(ObjectSchema, tokens)
     IN values[3][1] > 0 /\ values[8] # <<>> /\ values[8][1] >= TAG_BYTES

\* decrypt_object: the key that opens the data key is that of the type that the
\* envelope names, and the data key opens the payload.
Decrypted(master, vault, tokens) ==
  LET values == Decoded(ObjectSchema, tokens)
      dek == Opened(values[7][2])
  IN /\ Sealed(Subkey(master, vault, values[4][1]), values[6][2],
               ObjectAad(values, 3), values[7][2])
     /\ Sealed(dek, values[5][2], ObjectAad(values, 2), values[8][2])

\* UnlockedVault::decrypt: and the object belongs to this vault.
Opens(master, vault, tokens) ==
  /\ ObjectDecodes(tokens)
  /\ Decrypted(master, vault, tokens)
  /\ Decoded(ObjectSchema, tokens)[1] = <<16, vault>>

OpenedObject(tokens) ==
  LET values == Decoded(ObjectSchema, tokens)
  IN [object |-> values[2][2], revision |-> values[3][1], type |-> values[4][1],
      clear |-> Opened(values[8][2])]

BlobId(tokens) == Hash(tokens)

----------------------------------------------------------------------------
\* The wrapped vault key: salt, memory, iterations, lanes, nonce, key.
MIN_MEMORY_KIB == 19456
MAX_DESKTOP_MEMORY_KIB == 256 * 1024
WRAPPED_VMK_BYTES == 48

VaultKeySchema ==
  <<Expect(Map(7)), Key(0), Version, Key(1), Fixed(16), Key(2), U32, Key(3), U32,
    Key(4), U32, Key(5), Fixed(NONCE_BYTES), Key(6), Fixed(WRAPPED_VMK_BYTES)>>

PolicyOf(values) == <<Uint(values[2][1]), Uint(values[3][1]), Uint(values[4][1])>>

\* ClientKdfPolicy::argon2.
PolicyIsAllowed(values) ==
  /\ values[2][1] \in MIN_MEMORY_KIB .. MAX_DESKTOP_MEMORY_KIB
  /\ values[3][1] \in 1 .. 10
  /\ values[4][1] \in 1 .. 4

VaultKeyAad(values) ==
  <<Array(7), Text(29, Atom(4)), Uint(PROTOCOL_VERSION), Bytes(values[1][1], values[1][2])>>
    \o PolicyOf(values) \o <<CIPHER_SUITE>>

\* wrap_vault_master_key, with the random salt and nonce as arguments.
WrapVaultKey(password, policy, master, salt, nonce) ==
  LET head == <<<<16, salt>>>> \o [k \in 1 .. 3 |-> <<policy[k], <<>>>>]
                \o <<<<NONCE_BYTES, nonce>>>>
  IN Write(VaultKeySchema,
           Append(head, <<WRAPPED_VMK_BYTES,
                          Seal(Kek(password, salt, PolicyOf(head)), nonce,
                               VaultKeyAad(head), master)>>))

VaultKeyDecodes(tokens) ==
  /\ SizeOf(tokens) <= 512
  /\ Decodes(VaultKeySchema, tokens)
  /\ PolicyIsAllowed(Decoded(VaultKeySchema, tokens))

\* unlock_vault_master_key.
Unlocks(password, tokens) ==
  /\ VaultKeyDecodes(tokens)
  /\ LET values == Decoded(VaultKeySchema, tokens)
     IN Sealed(Kek(password, values[1][2], PolicyOf(values)), values[5][2],
               VaultKeyAad(values), values[6][2])

UnlockedKey(tokens) == Opened(Decoded(VaultKeySchema, tokens)[6][2])

\* select_calibrated_policy: so many iterations that a measured one adds up to
\* the platform's target, but from one to ten.
CalibratedIterations(target, measured) ==
  LET rounds == (target + measured - 1) \div measured
  IN IF rounds < 1 THEN 1 ELSE IF rounds > 10 THEN 10 ELSE rounds

CalibratedPolicy(android, measured) ==
  <<IF android THEN 32 * 1024 ELSE 64 * 1024,
    CalibratedIterations(IF android THEN 800000 ELSE 500000,
                         IF measured = 0 THEN 1 ELSE measured),
    1>>
=============================================================================

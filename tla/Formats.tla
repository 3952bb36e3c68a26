------------------------------- MODULE Formats -------------------------------
(***************************************************************************)
(* What is written on one side and read on the other: messages, manifests, *)
(* commits, objects and wrapped keys, which storage or a network may       *)
(* damage; the sizes of messages; the paths of a vault and the texts in    *)
(* it.  Each behaviour is about one subject.                               *)
(***************************************************************************)
EXTENDS VersionRecords, PortablePath

CONSTANTS
  MaxFaults,   \* format -> how many times one of its encodings is damaged
  Sizes,       \* the sizes of messages
  Timings,     \* the times that one iteration may take, in microseconds
  MaxTyped,    \* subject -> how many characters are typed
  MaxSegments  \* subject -> how many segments the paths have in all

\* Sizes are numbers of bytes.
ASSUME SizesAssumption == Sizes \subseteq Nat

VARIABLES
  subject,  \* what this behaviour is about
  origin,   \* the record that was written
  wire,     \* the tokens that arrive
  faults,   \* how often they were damaged
  number,   \* a size or a time
  paths,    \* the files of a vault
  text

vars == <<subject, origin, wire, faults, number, paths, text>>

----------------------------------------------------------------------------
\* One value for each field: the k-th of two, which are the least and the greatest.
SampleItem(field, k) ==
  CASE field.type = "fixed" -> <<field.n, Atom(k)>>
    [] field.type = "number" -> <<IF k = 1 THEN 0 ELSE field.n, <<>>>>
    [] field.type = "one_of" -> <<k, <<>>>>
    [] field.type = "truth" -> <<k - 1, <<>>>>
    [] field.type = "name" -> <<NoiseSuite.n, NoiseSuite.content>>
    [] OTHER -> IF k = 1 THEN <<>> ELSE <<field.n, Atom(k)>>

SampleItems(fields, k) ==
  LET carrying == SelectSeq(fields, LAMBDA field : field.type # "expect")
  IN [n \in DOMAIN carrying |-> SampleItem(carrying[n], k)]

Sample(schema, k) ==
  LET carrying == SelectSeq(schema, LAMBDA field : field.type # "expect")
  IN [n \in DOMAIN carrying |->
        IF carrying[n].type = "list"
        THEN [item \in 1 .. IF k = 1 THEN 0 ELSE Min({2, carrying[n].max}) |->
                SampleItems(carrying[n].fields, item)]
        ELSE SampleItem(carrying[n], k)]

Encodings(format, schema) ==
  {[format |-> format, values |-> Sample(schema, k), wire |-> Write(schema, Sample(schema, k))] :
     k \in 1 .. 2}

HonestMessages ==
  UNION {Encodings("request", Message(Requests[name])) : name \in DOMAIN Requests}
    \cup UNION {Encodings("response", Message(Responses[name])) : name \in DOMAIN Responses}
    \cup Encodings("bootstrap", Bootstrap)
    \cup Encodings("challenge", AuthChallenge)

----------------------------------------------------------------------------
\* Two vaults with their keys, and what their devices write.
Vaults == {Atom(1), Atom(2)}
MasterOf(vault) == Atom(10 + vault[1].n)

Entry(object, revision, deleted) ==
  <<<<16, Atom(object)>>, <<revision, <<>>>>, <<CONTENT, <<>>>>, <<32, Atom(3)>>,
    IF deleted THEN <<>> ELSE <<32, Atom(4)>>, <<>>, <<32, Atom(5)>>,
    <<IF deleted THEN 1 ELSE 0, <<>>>>>>

EntryLists == {<<>>, <<Entry(7, 1, FALSE)>>, <<Entry(8, 2, TRUE), Entry(7, 1, FALSE)>>}

HonestManifests ==
  {[format |-> "manifest", values |-> manifest, wire |-> Write(ManifestSchema, manifest)] :
     manifest \in {NewManifest(Atom(1), entries) : entries \in EntryLists}}

Operation(kind, object, base, path, content) ==
  <<<<kind, <<>>>>, <<16, Atom(object)>>, <<base, <<>>>>, <<base + 1, <<>>>>, path, content>>

Bodies ==
  {<<<<time, <<>>>>, operations, <<32, Atom(6)>>, <<32, Atom(7)>>, <<>>, conflicts>> :
     time \in {1},
     operations \in
       {<<Operation(CREATE, 7, 0, <<32, Atom(3)>>, <<32, Atom(4)>>)>>,
        <<Operation(MODIFY, 7, 1, <<>>, <<32, Atom(4)>>),
          Operation(DELETE_TOMBSTONE, 8, 2, <<>>, <<>>)>>},
     conflicts \in {<<>>, <<<<<<16, Atom(8)>>>>>>}}

HonestBodies ==
  {[format |-> "body", values |-> body, wire |-> Write(BodySchema, body)] : body \in Bodies}

\* Every object has a data key and nonces of its own.
Identity(object, revision, type) ==
  [object |-> Atom(object), revision |-> revision, type |-> type]

Object(vault, identity, clear, k) ==
  EncryptObject(MasterOf(vault), vault, identity, clear, Atom(100 + k), <<Atom(200 + k), Atom(300 + k)>>)

Objects ==
  {<<Atom(1), Identity(7, 1, CONTENT), 1>>, <<Atom(1), Identity(7, 2, CONTENT), 2>>,
   <<Atom(1), Identity(8, 1, PATH), 3>>, <<Atom(2), Identity(7, 1, CONTENT), 4>>}

HonestObjects ==
  {[format |-> "object", values |-> object,
    wire |-> Object(object[1], object[2], <<Bytes(5, Atom(object[3]))>>, object[3])] :
     object \in Objects}

\* Two wrappings of one key, with two passwords.
Passwords == {Atom(20), Atom(21)}

HonestVaultKeys ==
  {[format |-> "vault_key", values |-> password,
    wire |-> WrapVaultKey(password, policy, MasterOf(Atom(1)), Atom(30 + policy[2]),
                          Atom(40 + policy[2]))] :
     password \in Passwords, policy \in {<<65536, 4, 1>>, <<32768, 10, 1>>}}

\* Two commits of one device and one of another.
Commits == {<<50, <<>>, 1>>, <<50, <<<<<<32, Atom(60)>>>>>>, 2>>, <<51, <<<<<<32, Atom(60)>>>>>>, 1>>}

CommitWire(commit) ==
  SignCommit(Atom(commit[1]), Atom(1), commit[2], Atom(commit[1]), commit[3],
             Object(Atom(1), Identity(9, commit[3], COMMIT),
                    Write(BodySchema, CHOOSE body \in Bodies : TRUE), commit[1] + commit[3]))

HonestCommits ==
  {[format |-> "commit", values |-> commit, wire |-> CommitWire(commit)] : commit \in Commits}

Honest ==
  HonestMessages \cup HonestManifests \cup HonestBodies \cup HonestObjects
    \cup HonestVaultKeys \cup HonestCommits

----------------------------------------------------------------------------
\* What the reader of a format makes of some tokens: at most one reading.
Readings(format, tokens) ==
  CASE format = "request" -> RequestReadings(tokens)
    [] format = "response" -> ResponseReadings(tokens)
    [] format = "bootstrap" -> BootstrapReadings(tokens)
    [] format = "challenge" ->
         {values \in {Decoded(AuthChallenge, tokens)} : Decodes(AuthChallenge, tokens)}
    [] format = "manifest" ->
         {values \in {Decoded(ManifestSchema, tokens)} : ManifestDecodes(tokens)}
    [] format = "body" -> {values \in {Decoded(BodySchema, tokens)} : BodyDecodes(tokens)}
    [] format = "object" -> {values \in {Decoded(ObjectSchema, tokens)} : ObjectDecodes(tokens)}
    [] format = "vault_key" ->
         {values \in {Decoded(VaultKeySchema, tokens)} : VaultKeyDecodes(tokens)}
    [] OTHER -> {values \in {Decoded(SignedSchema, tokens)} : CommitDecodes(tokens)}

\* One fault at the k-th token: it is lost or repeated, a bit of it is another, or it
\* is that of another record.
DamagedToken(token) ==
  {[token EXCEPT !.form = "longer"], [token EXCEPT !.form = "indefinite"]}
    \cup IF token.kind \in {"bytes", "text"}
         THEN {[token EXCEPT !.n = n, !.content = Atom(9)] :
                 n \in {token.n - 1, token.n, token.n + 1} \cap Nat}
         ELSE {[token EXCEPT !.n = n] : n \in {token.n - 1, token.n + 1} \cap Nat}

Damaged(tokens, others) ==
  LET at(k) ==
        {RemoveAt(tokens, k), InsertAt(tokens, k, tokens[k])}
          \cup {ReplaceAt(tokens, k, token) :
                  token \in DamagedToken(tokens[k])
                              \cup {other[k] : other \in {o \in others : k \in DOMAIN o}}}
  IN UNION {at(k) : k \in DOMAIN tokens} \ {tokens}

\* The signed fields of a commit are damaged inside the record as well.
SIGNED_FIELDS == 3

DamagedInside(tokens, others) ==
  LET inside == {other[SIGNED_FIELDS].content : other \in others}
  IN IF Len(tokens) < SIGNED_FIELDS \/ tokens[SIGNED_FIELDS].content \notin inside
     THEN {}
     ELSE {ReplaceAt(tokens, SIGNED_FIELDS, Bytes(SizeOf(fields), fields)) :
             fields \in Damaged(tokens[SIGNED_FIELDS].content, inside)}

Siblings == {other.wire : other \in {other \in Honest : other.format = origin.format}}

Damage ==
  /\ subject = "record"
  /\ faults < MaxFaults[origin.format]
  /\ faults' = faults + 1
  /\ wire' \in Damaged(wire, Siblings)
                 \cup IF origin.format = "commit" THEN DamagedInside(wire, Siblings) ELSE {}
  /\ UNCHANGED <<subject, origin, number, paths, text>>

----------------------------------------------------------------------------
\* Someone names the files of a vault or types a text.
Segments == FlattenSeq(paths)
Typed == Len(text) + Len(FlattenSeq(Segments))

LastSegment == Last(Last(paths))

\* The names of a vault are real; a path alone may be anything.
Letters == IF subject = "path" THEN Characters ELSE {"e", "E", "sharp-s", "s"}

TypeCharacter ==
  /\ subject \in {"path", "vault"}
  /\ Typed < MaxTyped[subject]
  /\ \E character \in Letters :
       paths' = [paths EXCEPT ![Len(paths)][Len(paths[Len(paths)])] = Append(@, character)]
  /\ UNCHANGED <<subject, origin, wire, faults, number, text>>

TypeSlash ==
  /\ subject = "path" \/ (subject = "vault" /\ LastSegment # <<>>)
  /\ Len(Segments) < MaxSegments[subject]
  /\ paths' = [paths EXCEPT ![Len(paths)] = Append(@, <<>>)]
  /\ UNCHANGED <<subject, origin, wire, faults, number, text>>

AddFile ==
  /\ subject = "vault"
  /\ LastSegment # <<>>
  /\ Len(Segments) < MaxSegments[subject]
  /\ paths' = Append(paths, <<<<>>>>)
  /\ UNCHANGED <<subject, origin, wire, faults, number, text>>

TypeText ==
  /\ subject = "text"
  /\ Typed < MaxTyped[subject]
  /\ \E character \in TextCharacters : text' = Append(text, character)
  /\ UNCHANGED <<subject, origin, wire, faults, number, paths>>

NoRecord == [format |-> "none", values |-> <<>>, wire |-> <<>>]

Init ==
  /\ faults = 0
  /\ paths = <<<<<<>>>>>>
  /\ text = <<>>
  /\ \/ subject = "record" /\ origin \in Honest /\ number = 0
     \/ subject = "size" /\ origin = NoRecord /\ number \in Sizes
     \/ subject = "timing" /\ origin = NoRecord /\ number \in Timings
     \/ subject \in {"path", "vault", "text"} /\ origin = NoRecord /\ number = 0
  /\ wire = origin.wire

Next == Damage \/ TypeCharacter \/ TypeSlash \/ AddFile \/ TypeText

Spec == Init /\ [][Next]_vars

----------------------------------------------------------------------------
\* What is written is read as it was meant: encoders and decoders agree on every
\* field, on the optional ones that are absent and on the order the decoder asks for
\* (codec.rs, manifest.rs, commit.rs, object.rs, vault.rs).
WrittenIsRead ==
  subject = "record" /\ faults = 0 => Cardinality(Readings(origin.format, wire)) = 1

\* A damaged record is refused or read as something else, never as what was written:
\* one meaning has one encoding, so hashes and signatures of bytes are hashes and
\* signatures of meanings (ensure_deterministic, exact).
OneEncodingEach ==
  subject = "record" /\ wire # origin.wire =>
    Readings(origin.format, wire) \cap Readings(origin.format, origin.wire) = {}

\* An object that opens is, bit by bit, one that was sealed for this vault, whatever
\* parts of other objects were mixed into it: revision, type, name and keys belong
\* together (decrypt_object, UnlockedVault::decrypt).
OpenedIsWhatWasSealed ==
  subject = "record" /\ origin.format = "object" =>
    \A vault \in Vaults :
      Opens(MasterOf(vault), vault, wire) =>
        \E sealed \in Honest :
          /\ sealed.format = "object"
          /\ sealed.wire = wire
          /\ sealed.values[1] = vault
          /\ OpenedObject(wire).revision = sealed.values[2].revision

\* Only the password that wrapped it opens a wrapped key, only as it was wrapped, and
\* what it opens is the key of the vault (unlock_vault_master_key).
UnlockedIsWhatWasWrapped ==
  subject = "record" /\ origin.format = "vault_key" =>
    \A password \in Passwords :
      Unlocks(password, wire) =>
        /\ UnlockedKey(wire) = MasterOf(Atom(1))
        /\ \E wrapped \in Honest : wrapped.wire = wire /\ wrapped.values = password

\* A commit that a device takes for one of another device is, bit by bit, one that the
\* other device signed (decode_signed_commit, verify_signed_commit, and
\* decode_signed_commit_output).
ReadIsWhatWasSigned ==
  subject = "record" /\ origin.format = "commit" =>
    \A key \in {50, 51} :
      CommitIsRead(wire, Atom(key), MasterOf(Atom(1)), Atom(1)) =>
        \E signed \in Honest :
          signed.format = "commit" /\ signed.wire = wire /\ signed.values[1] = key

\* Devices that hold the same entries name the same root, in whatever order they came
\* upon them (Manifest::new, Manifest::root).
RootsIgnoreOrder ==
  subject = "record" /\ origin.format = "manifest" /\ faults = 0 =>
    LET entries == origin.values[2]
    IN \A order \in Permutations(DOMAIN entries) :
         ManifestRoot(NewManifest(Atom(1), [k \in DOMAIN entries |-> entries[order[k]]]))
           = Hash(wire)

\* Every message the transport agrees to encrypt arrives whole: its frame fits the body
\* the server admits and its records are as long as the receiver permits.
WhatIsEncryptedArrives == subject = "size" /\ Encrypts(number) => Arrives(number)

\* The largest request and the largest answer that the decoders admit fit the transport.
\* The list of devices does not: it is limited where it is read only.
LargestMessagesFit ==
  subject = "size" =>
    /\ \A name \in DOMAIN Requests : Encrypts(Largest(Message(Requests[name])))
    /\ \A name \in DOMAIN Responses \ {"devices"} : Encrypts(Largest(Message(Responses[name])))

\* However slow or fast a device derives keys, the parameters it chooses are accepted
\* when a vault is unlocked, on this device and on others (calibrate_client_kdf).
CalibratedKeyUnlocks ==
  subject = "timing" =>
    \A android \in BOOLEAN :
      Unlocks(Atom(20), WrapVaultKey(Atom(20), CalibratedPolicy(android, number),
                                     Atom(11), Atom(30), Atom(40)))

----------------------------------------------------------------------------
\* The spelling with every accent on its own.
Decomposed(segment) ==
  FlattenSeq([k \in DOMAIN segment |->
    CASE segment[k] = "e-accent" -> <<"e", "accent">>
      [] segment[k] = "E-accent" -> <<"E", "accent">>
      [] OTHER -> <<segment[k]>>])

\* The two spellings of a path are accepted or refused alike and are one path, which is
\* accepted again as it is.
SpellingsAgree ==
  subject = "path" =>
    LET other == [k \in DOMAIN paths[1] |-> Decomposed(paths[1][k])]
    IN /\ Parses(paths[1]) = Parses(other)
       /\ Canonical(paths[1]) = Canonical(other)
       /\ Parses(paths[1]) => Parses(Canonical(paths[1]))

\* A disk that tells neither cases nor spellings apart.
OnDisk(path) == [k \in DOMAIN path |-> Decomposed(CaseFold(path[k]))]

CanBeCreated(files) ==
  LET create(disk, path) ==
        LET name == OnDisk(path)
        IN [files |-> disk.files \cup {name},
            folders |-> disk.folders \cup Ancestors(name),
            ok |-> /\ disk.ok
                   /\ name \notin disk.files \cup disk.folders
                   /\ Ancestors(name) \cap disk.files = {}]
  IN FoldLeft(create, [files |-> {}, folders |-> {}, ok |-> TRUE], files).ok

AllParse == \A k \in DOMAIN paths : Parses(paths[k])

\* Collisions are reported exactly if the files cannot all be created, one after the
\* other, on such a disk; the plugin and the core agree on that.
CollisionsAreExact ==
  subject = "vault" /\ AllParse =>
    /\ (Collisions(paths) = {}) = CanBeCreated(paths)
    /\ (ConflictGroups(paths) = {}) = CanBeCreated(paths)

\* The files that a scan keeps can all be created on another device, although a group
\* may miss members that were found early.
KeptFilesCanBeCreated ==
  subject = "vault" /\ AllParse => CanBeCreated(SetToSeq(Kept(paths)))

\* The name suggested for a bad one is a good one.  (Cutting a long one to the limit may
\* end it badly again.)
SuggestionsAreAccepted ==
  subject = "path" =>
    \A k \in DOMAIN paths[1] :
      Suggested(paths[1][k]) = Repaired(paths[1][k]) => Parses(<<Suggested(paths[1][k])>>)

\* The canonical text is the text without its mark, character for character, but that every
\* line end is one line feed: nothing else is lost, added or moved, and texts that differ in
\* their line ends only have one canonical form.  It is canonical itself, unless the text
\* began with two byte order marks, of which one is taken each time (content.rs:21).
CanonicalTextKeepsLines ==
  subject = "text" =>
    LET written == WithoutMark(text)
        canonical == CanonicalText(text)
        kept == {k \in DOMAIN written :
                   ~ (written[k] = "lf" /\ k > 1 /\ written[k - 1] = "cr")}
    IN /\ Len(canonical) = Cardinality(kept)
       /\ \A k \in kept :
            canonical[Cardinality({j \in kept : j <= k})]
              = IF written[k] = "cr" THEN "lf" ELSE written[k]
       /\ ~(Len(text) > 1 /\ text[1] = "bom" /\ text[2] = "bom") =>
            CanonicalText(canonical) = canonical

----------------------------------------------------------------------------
(***************************************************************************)
(* What the runs check: the properties above, by the question they answer. *)
(***************************************************************************)

\* The encodings are exact: what is written is read back, nothing else is read as it, and
\* a root does not depend on the order in which a list was made.
EncodingsAreExact == WrittenIsRead /\ OneEncodingEach /\ RootsIgnoreOrder

\* What a device accepts is what another device made, whole: an object, a wrapped key or a
\* signed commit.
AcceptedIsWhatWasMade == OpenedIsWhatWasSealed /\ UnlockedIsWhatWasWrapped /\ ReadIsWhatWasSigned

\* Three limits of one side are within the limits of the other: what the transport encrypts
\* arrives, the largest request and the largest answer but the list of devices fit it, and
\* what a calibration chose a device accepts.  It is not so of every pair of limits: the
\* body of a commit may be as long as its whole record (commit.rs:12, 162), an object be
\* sealed that no message holds (object.rs:12, 101; limits.rs:16), and the list of devices
\* is limited where it is read only (codec.rs:541).
ProducedIsAccepted == WhatIsEncryptedArrives /\ LargestMessagesFit /\ CalibratedKeyUnlocks

\* Devices with different file systems agree on which paths name one file, and keep only
\* files that every one of them can create.
PathsAreExact ==
  /\ SpellingsAgree
  /\ CollisionsAreExact
  /\ KeptFilesCanBeCreated
  /\ SuggestionsAreAccepted
=============================================================================

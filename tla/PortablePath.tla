---------------------------- MODULE PortablePath ----------------------------
(***************************************************************************)
(* Portable paths and canonical text (ll-canonical: path.rs, content.rs)   *)
(* and the groups of conflicting paths the plugin finds (sync/paths.ts).   *)
(* The characters are one of each kind the code tells apart; a reserved    *)
(* name of a device is one character of three bytes.                       *)
(***************************************************************************)
EXTENDS Integers, Sequences, FiniteSets, SequencesExt

CONSTANTS
  MAX_SEGMENT_BYTES,  \* 255 in the code
  MAX_PATH_BYTES      \* 1024 in the code

ASSUME PathAssumption == {MAX_SEGMENT_BYTES, MAX_PATH_BYTES} \subseteq Nat \ {0}

\* A letter in both cases, one with an accent that follows it or is part of it,
\* one that folds to two others, a device in both cases, a dot, a space, one of the
\* forbidden characters, a control character, and the repair of the last two.
Characters ==
  {"e", "E", "accent", "e-accent", "E-accent", "sharp-s", "s", "con", "CON",
   ".", " ", ":", "bell", "_"}

Utf8Length(character) ==
  CASE character \in {"accent", "e-accent", "E-accent", "sharp-s"} -> 2
    [] character \in {"con", "CON"} -> 3
    [] character = "untitled" -> 8
    [] OTHER -> 1

ByteLength(segment) ==
  FoldLeft(LAMBDA total, character : total + Utf8Length(character), 0, segment)

\* NFC: an accent joins the letter before it.
Compose(segment) ==
  FoldLeft(LAMBDA sofar, character :
             IF character = "accent" /\ sofar # <<>> /\ Last(sofar) \in {"e", "E"}
             THEN Append(Front(sofar), Last(sofar) \o "-accent")
             ELSE Append(sofar, character),
           <<>>, segment)

\* Full case folding, which may make a segment longer.
CaseFold(segment) ==
  FlattenSeq([k \in DOMAIN segment |->
    CASE segment[k] = "E" -> <<"e">>
      [] segment[k] = "E-accent" -> <<"e-accent">>
      [] segment[k] = "CON" -> <<"con">>
      [] segment[k] = "sharp-s" -> <<"s", "s">>
      [] OTHER -> <<segment[k]>>])

\* The name before the first dot, without trailing spaces and in upper case.
IsReserved(segment) ==
  LET before == SelectInSeq(segment, LAMBDA character : character = ".")
      basename == IF before = 0 THEN segment ELSE SubSeq(segment, 1, before - 1)
  IN /\ basename # <<>>
     /\ basename[1] \in {"con", "CON"}
     /\ \A k \in 2 .. Len(basename) : basename[k] = " "

IsPlain(character) == character \notin {":", "bell"}

EndsBadly(segment) == segment # <<>> /\ Last(segment) \in {" ", "."}

SegmentIsValid(segment) ==
  /\ \A k \in DOMAIN segment : IsPlain(segment[k])
  /\ ~EndsBadly(segment)
  /\ ~IsReserved(segment)
  /\ ByteLength(segment) <= MAX_SEGMENT_BYTES

----------------------------------------------------------------------------
\* A path is what its slashes separate: an empty one is one empty segment, an
\* absolute one begins with an empty segment.
Canonical(path) == [k \in DOMAIN path |-> Compose(path[k])]

\* The bytes of a path with its slashes.
PathLength(path) ==
  FoldLeft(LAMBDA total, segment : total + ByteLength(segment), Len(path) - 1, path)

\* PortablePath::parse.
Parses(path) ==
  /\ \A k \in DOMAIN path :
       /\ path[k] \notin {<<>>, <<".">>, <<".", ".">>}
       /\ SegmentIsValid(Compose(path[k]))
  /\ PathLength(Canonical(path)) <= MAX_PATH_BYTES

CollisionKey(path) == [k \in DOMAIN path |-> Compose(CaseFold(path[k]))]

----------------------------------------------------------------------------
\* Paths of a sequence by their key.
KeysOf(paths) == {CollisionKey(paths[k]) : k \in DOMAIN paths}

MembersOf(paths, key) == {k \in DOMAIN paths : CollisionKey(paths[k]) = key}

Ancestors(key) == {SubSeq(key, 1, n) : n \in 1 .. Len(key) - 1}

\* The first half of detect_collisions: two paths with one key.
SameNameCollisions(paths) ==
  {[key |-> key, paths |-> {paths[k] : k \in MembersOf(paths, key)}] :
     key \in {key \in KeysOf(paths) : Cardinality(MembersOf(paths, key)) > 1}}

\* detect_collisions, where a file at the place of a directory joins the files
\* below it.
Collisions(paths) ==
  LET blocking == {key \in KeysOf(paths) :
                     \E other \in KeysOf(paths) : key \in Ancestors(other)}
      below(key) == {k \in DOMAIN paths :
                       key = CollisionKey(paths[k]) \/ key \in Ancestors(CollisionKey(paths[k]))}
  IN SameNameCollisions(paths)
       \cup {[key |-> key, paths |-> {paths[k] : k \in below(key)}] : key \in blocking}

\* portablePathsConflict.
PathsConflict(left, right) ==
  LET leftKey == CollisionKey(left)
      rightKey == CollisionKey(right)
  IN leftKey = rightKey \/ leftKey \in Ancestors(rightKey) \/ rightKey \in Ancestors(leftKey)

\* Keys in the order of their first paths.
FirstOf(paths, key) == CHOOSE k \in MembersOf(paths, key) :
                         \A other \in MembersOf(paths, key) : k <= other

\* Mutant of ConflictGroups: a file in the place of a directory is not found.
NameGroups(paths) ==
  {collision.paths : collision \in SameNameCollisions(paths)}

\* portablePathConflictGroups: one group for each key.  A key with two paths
\* starts its group anew, without what was found below it before.
ConflictGroups(paths) ==
  LET own(key) == {paths[k] : k \in MembersOf(paths, key)}
      repeated == {key \in KeysOf(paths) : Cardinality(MembersOf(paths, key)) > 1}
      below(key) == {other \in KeysOf(paths) : key \in Ancestors(other)}
      joining(key) == {other \in below(key) :
                         key \in repeated => FirstOf(paths, other) > FirstOf(paths, key)}
  IN {own(key) \cup UNION {own(other) : other \in joining(key)} :
        key \in {key \in KeysOf(paths) : key \in repeated \/ below(key) # {}}}

\* rejectCollisions: what a scan leaves.
Kept(paths) == ToSet(paths) \ UNION ConflictGroups(paths)

----------------------------------------------------------------------------
\* The segment without the characters of a set at its end.
Trimmed(segment, unwanted) ==
  LET kept == {n \in 0 .. Len(segment) : n = 0 \/ segment[n] \notin unwanted}
  IN SubSeq(segment, 1, CHOOSE n \in kept : \A other \in kept : other <= n)

Untitled == <<"untitled">>

\* The suggestion before it is cut to the limit.
Repaired(segment) ==
  LET replaced == [k \in DOMAIN Compose(segment) |->
                     IF IsPlain(Compose(segment)[k]) THEN Compose(segment)[k] ELSE "_"]
      trimmed == Trimmed(replaced, {" ", "."})
      named == IF trimmed = <<>> THEN Untitled ELSE trimmed
  IN IF IsReserved(named) THEN <<"_">> \o named ELSE named

\* Characters are taken from the end until the rest fits.
Cut(segment) ==
  SubSeq(segment, 1,
         CHOOSE n \in 0 .. Len(segment) :
           /\ ByteLength(SubSeq(segment, 1, n)) <= MAX_SEGMENT_BYTES
           /\ n < Len(segment) => ByteLength(SubSeq(segment, 1, n + 1)) > MAX_SEGMENT_BYTES)

\* suggest_safe_segment.
Suggested(segment) ==
  LET cut == Cut(Repaired(segment))
  IN IF cut = <<>> THEN Untitled ELSE cut

----------------------------------------------------------------------------
\* Text: a byte order mark, the two characters of a line end, and any other.
TextCharacters == {"bom", "cr", "lf", "x"}

WithoutMark(text) == IF text # <<>> /\ text[1] = "bom" THEN Tail(text) ELSE text

\* Mutant of CanonicalText: each character of a line end becomes one.
CanonicalCharacters(text) ==
  [k \in DOMAIN WithoutMark(text) |->
     IF WithoutMark(text)[k] = "cr" THEN "lf" ELSE WithoutMark(text)[k]]

\* canonicalize_text: a line feed that follows a carriage return is taken with it.
CanonicalText(text) ==
  LET step(sofar, character) ==
        [out |-> IF character = "lf" /\ sofar.returned
                 THEN sofar.out
                 ELSE Append(sofar.out, IF character = "cr" THEN "lf" ELSE character),
         returned |-> character = "cr"]
  IN FoldLeft(step, [out |-> <<>>, returned |-> FALSE], WithoutMark(text)).out
=============================================================================

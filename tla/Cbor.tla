-------------------------------- MODULE Cbor --------------------------------
(***************************************************************************)
(* The deterministic CBOR in which every message, record and envelope is   *)
(* written (the helpers at the end of codec.rs, manifest.rs, commit.rs,    *)
(* object.rs and vault.rs), token by token.  A byte string is its length   *)
(* and what it stands for; the schemas of its users are sequences of       *)
(* fields.                                                                 *)
(***************************************************************************)
EXTENDS Integers, Sequences, SequencesExt

\* A token: its kind; how its head is written; its number (the value of an
\* integer, the length of a string, the items of an array); and, of a string,
\* its content, which is again a sequence of tokens.
Token(kind, n, content) ==
  [kind |-> kind, form |-> "shortest", n |-> n, content |-> content]

Uint(n) == Token("uint", n, <<>>)
Array(n) == Token("array", n, <<>>)
Map(n) == Token("map", n, <<>>)
Bytes(n, content) == Token("bytes", n, content)
Text(n, content) == Token("text", n, content)
Bool(b) == Token("bool", IF b THEN 1 ELSE 0, <<>>)
Null == Token("null", 0, <<>>)

\* The content of a string that nothing looks into: some byte string, the k-th
\* in lexicographic order.
Atom(k) == <<Token("atom", k, <<>>)>>

\* The bytes of a head and of a whole item.  No number here reaches 2^32.
HeadSize(n) == IF n < 24 THEN 1 ELSE IF n < 256 THEN 2 ELSE IF n < 65536 THEN 3 ELSE 5

Size(token) ==
  CASE token.kind \in {"bytes", "text"} -> HeadSize(token.n) + token.n
    [] token.kind \in {"bool", "null"} -> 1
    [] OTHER -> HeadSize(token.n)

SizeOf(tokens) == FoldLeft(LAMBDA total, token : total + Size(token), 0, tokens)

----------------------------------------------------------------------------
\* Fields of a schema.  An expected head carries no value, a list has items
\* made of fields, and every other field is one token.

Expect(token) == [type |-> "expect", token |-> token]
Key(n) == Expect(Uint(n))
Fixed(n) == [type |-> "fixed", n |-> n]
Bounded(n) == [type |-> "bounded", n |-> n]
Optional(n) == [type |-> "optional", n |-> n]
Blank(n) == [type |-> "blank", n |-> n]
Number(n) == [type |-> "number", n |-> n]
Numbers(S) == [type |-> "one_of", set |-> S]
Truth == [type |-> "truth"]
Name == [type |-> "name"]
List(max, fields) == [type |-> "list", max |-> max, fields |-> fields]

U8 == Number(255)
U16 == Number(65535)

\* A number near the largest of TLC's stands for the largest of 32 and of 64 bits.
U32 == Number(2147483646)
U64 == Number(2147483646)

\* What the decoder's read of one field accepts.  Integers and heads longer than
\* necessary pass here.
Reads(field, token) ==
  /\ token.form # "indefinite"
  /\ CASE field.type = "expect" ->
            token.kind = field.token.kind /\ token.n = field.token.n
       [] field.type = "fixed" -> token.kind = "bytes" /\ token.n = field.n
       [] field.type = "bounded" -> token.kind = "bytes" /\ token.n <= field.n
       [] field.type = "optional" ->
            token.kind = "null" \/ (token.kind = "bytes" /\ token.n = field.n)
       [] field.type = "blank" -> token.kind = "bytes" /\ token.n \in {0, field.n}
       [] field.type = "number" -> token.kind = "uint" /\ token.n <= field.n
       [] field.type = "one_of" -> token.kind = "uint" /\ token.n \in field.set
       [] field.type = "truth" -> token.kind = "bool"
       [] OTHER -> token.kind = "text"

\* A value is the number and the content read; an absent one is empty.
ValueOf(token) ==
  IF token.kind = "null" \/ (token.kind = "bytes" /\ token.n = 0)
  THEN <<>>
  ELSE <<token.n, token.content>>

\* A decoder: what it has read and what is left; it has failed or not.
Start(tokens) == [ok |-> TRUE, rest |-> tokens, out |-> <<>>]
Failed == [ok |-> FALSE, rest |-> <<>>, out |-> <<>>]

ReadItem(decoder, field) ==
  IF ~decoder.ok \/ decoder.rest = <<>> \/ ~Reads(field, Head(decoder.rest))
  THEN Failed
  ELSE [ok |-> TRUE,
        rest |-> Tail(decoder.rest),
        out |-> IF field.type = "expect"
                THEN decoder.out
                ELSE Append(decoder.out, ValueOf(Head(decoder.rest)))]

\* The items of a list, each of them read field by field.
ReadItems(decoder, field, count) ==
  LET next(sofar, k) ==
        LET item == FoldLeft(ReadItem, [sofar EXCEPT !.out = <<>>], field.fields)
        IN IF item.ok
           THEN [item EXCEPT !.out = Append(sofar.out, @)]
           ELSE Failed
      items == FoldLeft(next, [decoder EXCEPT !.out = <<>>], [k \in 1 .. count |-> k])
  IN IF items.ok THEN [items EXCEPT !.out = Append(decoder.out, @)] ELSE Failed

ReadField(decoder, field) ==
  IF field.type # "list"
  THEN ReadItem(decoder, field)
  ELSE IF \/ ~decoder.ok
          \/ decoder.rest = <<>>
          \/ Head(decoder.rest).kind # "array"
          \/ Head(decoder.rest).form = "indefinite"
          \/ Head(decoder.rest).n > field.max
       THEN Failed
       ELSE ReadItems([decoder EXCEPT !.rest = Tail(@)], field, Head(decoder.rest).n)

Read(schema, tokens) == FoldLeft(ReadField, Start(tokens), schema)

----------------------------------------------------------------------------
\* The token that the encoder writes for one field.
Written(field, value) ==
  CASE field.type = "expect" -> field.token
    [] field.type = "optional" /\ value = <<>> -> Null
    [] value = <<>> -> Bytes(0, <<>>)
    [] field.type \in {"number", "one_of"} -> Uint(value[1])
    [] field.type = "truth" -> Bool(value[1] = 1)
    [] field.type = "name" -> Text(value[1], value[2])
    [] OTHER -> Bytes(value[1], value[2])

\* Values are consumed as fields that carry one are written.
WriteItem(encoder, field) ==
  IF field.type = "expect"
  THEN [encoder EXCEPT !.out = Append(@, field.token)]
  ELSE [out |-> Append(encoder.out, Written(field, Head(encoder.rest))),
        rest |-> Tail(encoder.rest)]

WriteItems(fields, values) ==
  FoldLeft(WriteItem, [out |-> <<>>, rest |-> values], fields).out

WriteField(encoder, field) ==
  IF field.type # "list"
  THEN WriteItem(encoder, field)
  ELSE LET items == Head(encoder.rest)
           next(sofar, values) == sofar \o WriteItems(field.fields, values)
       IN [out |-> FoldLeft(next, Append(encoder.out, Array(Len(items))), items),
           rest |-> Tail(encoder.rest)]

Write(schema, values) ==
  FoldLeft(WriteField, [out |-> <<>>, rest |-> values], schema).out

----------------------------------------------------------------------------
\* Mutant of IsExact: only that nothing is left is asked.
IsConsumed(schema, tokens) == Read(schema, tokens).rest = <<>>

\* finish and ensure_deterministic: nothing is left, and what was read would be
\* written in the same way.
IsExact(schema, tokens) ==
  LET decoder == Read(schema, tokens)
  IN decoder.rest = <<>> /\ Write(schema, decoder.out) = tokens

\* What every decoder does before it validates: the values read, or a failure.
Decodes(schema, tokens) == Read(schema, tokens).ok /\ IsExact(schema, tokens)
Decoded(schema, tokens) == Read(schema, tokens).out
=============================================================================

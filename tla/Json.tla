-------------------------------- MODULE Json --------------------------------
(***************************************************************************)
(* The json library: typed values written by a Serializer and read back by  *)
(* the Deserializer over Parser, with the same or another type.             *)
(*                                                                          *)
(* Text is a sequence of lexemes: a brace, a quote, a sign, the digits of a  *)
(* number, a keyword, a run of a string's characters or one of whitespace.   *)
(***************************************************************************)
EXTENDS Integers, Sequences, SequencesExt, FiniteSets

CONSTANTS Digits,       \* the digits of a number, unsigned
          Cases         \* [from, value, to]: written as from, read as to

Space == " "

VARIABLES case, text, result
vars == <<case, text, result>>

-----------------------------------------------------------------------------
(* Serializer: the tokens written, each a sequence of lexemes. *)

\* i64 in decimal
serialize_number(n) == << IF n.neg THEN <<"-", n.digits>> ELSE <<n.digits>> >>
serialize_bool(b) == << IF b THEN <<"true">> ELSE <<"false">> >>
serialize_string(s) == << <<"quote", s, "quote">> >>

RECURSIVE serialize(_, _)

\* Mutant: the bracket at the end is only written for an empty list.
serialize_list_Unclosed(t, values) ==
    FoldLeft(LAMBDA out, v : out \o serialize(t, v) \o << <<",">> >>, << <<"[">> >>, values)

\* Every item is followed by a comma, the last one too.
serialize_list(t, values) ==
    FoldLeft(LAMBDA out, v : out \o serialize(t, v) \o << <<",">> >>, << <<"[">> >>, values) \o << <<"]">> >>

serialize_object(members) ==
    FoldLeft(LAMBDA out, m : out \o serialize_string(m.name) \o << <<":">> >> \o serialize(m.t, m.v) \o << <<",">> >>,
             << <<"{">> >>, members) \o << <<"}">> >>

\* derive!: the fields by name, in order
SerializeStruct(fields, values) ==
    serialize_object([i \in DOMAIN fields |-> [name |-> fields[i].name, t |-> fields[i].t, v |-> values[i]]])

\* Serialize::serialize, by type
serialize(t, v) ==
    CASE t.k = "number" -> serialize_number(v)
      [] t.k = "bool" -> serialize_bool(v)
      [] t.k = "string" -> serialize_string(v)
      [] t.k = "list" -> serialize_list(t.t, v)
      [] t.k = "option" -> IF v = <<>> THEN << <<"null">> >> ELSE serialize(t.t, v[1])
      [] t.k = "struct" -> SerializeStruct(t.fields, v)

-----------------------------------------------------------------------------
(* Parser: what is left of the text. *)

Done(v, rest) == [ok |-> TRUE, val |-> v, rest |-> rest, panic |-> FALSE]
Error(rest) == [ok |-> FALSE, val |-> <<>>, rest |-> rest, panic |-> FALSE]
Panic == [ok |-> FALSE, val |-> <<>>, rest |-> <<>>, panic |-> TRUE]

\* The `?' operator: K goes on from a success.
IfOk(r, K(_)) == IF r.ok THEN K(r) ELSE r

From(in, at) == IF at = 0 THEN <<>> ELSE SubSeq(in, at, Len(in))
skip_whitespace(in) == From(in, SelectInSeq(in, LAMBDA c : c # Space))

StartsWith(in, c) == in # <<>> /\ in[1] = c

\* Parser::eat, with the whitespace next() skips
Eaten(at, c) == IF StartsWith(at, c) THEN Done(c, Tail(at)) ELSE Error(IF at = <<>> THEN at ELSE Tail(at))
eat(in, c) == Eaten(skip_whitespace(in), c)

Comma(in) == eat(in, ",")
Colon(in) == eat(in, ":")
LeftBrace(in) == eat(in, "{")
RightBrace(in) == eat(in, "}")
LeftBracket(in) == eat(in, "[")
RightBracket(in) == eat(in, "]")
Quote(in) == eat(in, "quote")

\* Option<Comma>: parse_or_rewind
Rewound(r, in) == IF r.ok THEN Done(TRUE, r.rest) ELSE Done(FALSE, in)
MaybeComma(in) == Rewound(Comma(in), in)

\* &str: between the quotes everything is taken as it is
UpToQuote(in) ==
    IF Len(in) >= 2 /\ in[2] = "quote" THEN Done(in[1], SubSeq(in, 3, Len(in))) ELSE Error(<<>>)
parse_str(in) == IfOk(Quote(in), LAMBDA open : UpToQuote(open.rest))

\* i64: a sign and digits, with nothing skipped in front
Number(neg, at) ==
    IF at # <<>> /\ at[1] \in Digits THEN Done([neg |-> neg, digits |-> at[1]], Tail(at)) ELSE Error(at)
parse_i64(in) == IF StartsWith(in, "-") THEN Number(TRUE, Tail(in)) ELSE Number(FALSE, in)

Boolean(at) ==
    IF StartsWith(at, "true") THEN Done(TRUE, Tail(at))
    ELSE IF StartsWith(at, "false") THEN Done(FALSE, Tail(at))
    ELSE Error(at)
parse_bool(in) == Boolean(skip_whitespace(in))

RECURSIVE parse_value(_)
RECURSIVE RepeatUntilNoTrail(_, _, _)

\* (String, Colon, Value)
parse_member(in) ==
    IfOk(parse_str(in), LAMBDA name :
        IfOk(Colon(name.rest), LAMBDA colon :
            IfOk(parse_value(colon.rest), LAMBDA v : Done(<<name.val, v.val>>, v.rest))))

\* As long as there is one followed by a comma; one that fails is rewound.
RepeatAfter(comma, member, values) ==
    IF comma.val THEN RepeatUntilNoTrail(member, comma.rest, values) ELSE Done(values, comma.rest)
Repeat(r, member, in, values) ==
    IF r.ok THEN RepeatAfter(MaybeComma(r.rest), member, Append(values, r.val)) ELSE Done(values, in)
RepeatUntilNoTrail(member, in, values) ==
    Repeat(IF member THEN parse_member(in) ELSE parse_value(in), member, in, values)

\* List::parse
parse_list(in) ==
    IfOk(LeftBracket(in), LAMBDA left :
        IfOk(RepeatUntilNoTrail(FALSE, left.rest, <<>>), LAMBDA items :
            IfOk(RightBracket(items.rest), LAMBDA right : Done(items.val, right.rest))))

\* The members by name, the last of a name (collected into a BTreeMap)
Members(pairs) ==
    [name \in { p[1] : p \in Range(pairs) } |->
        pairs[CHOOSE i \in DOMAIN pairs : pairs[i][1] = name /\ \A j \in DOMAIN pairs : pairs[j][1] = name => j <= i][2]]

\* Object::parse
parse_object(in) ==
    IfOk(LeftBrace(in), LAMBDA left :
        IfOk(RepeatUntilNoTrail(TRUE, left.rest, <<>>), LAMBDA items :
            IfOk(RightBrace(items.rest), LAMBDA right : Done(Members(items.val), right.rest))))

Tagged(tag, r) == IfOk(r, LAMBDA v : [v EXCEPT !.val = <<tag, v.val>>])

\* Value::parse: the first character decides.  A number has no sign here, and
\* null is taken for a number, which it is not.
ValueAt(at) ==
    CASE at = <<>> -> Error(at)
      [] StartsWith(at, "quote") -> Tagged("string", parse_str(at))
      [] StartsWith(at, "[") -> Tagged("list", parse_list(at))
      [] StartsWith(at, "{") -> Tagged("object", parse_object(at))
      [] StartsWith(at, "true") \/ StartsWith(at, "false") -> Tagged("bool", parse_bool(at))
      [] at # <<>> /\ at[1] \in Digits \cup {"null"} -> Tagged("number", parse_i64(at))
      [] at # <<>> /\ at[1] \in {"]", "}", ",", ":", "-"} -> Error(at)
parse_value(in) == ValueAt(skip_whitespace(in))

-----------------------------------------------------------------------------
(* Deserializer for Parser, and Deserialize by type. *)

RECURSIVE deserialize(_, _)
RECURSIVE ListItems(_, _, _)
RECURSIVE ObjectMembers(_, _, _)

\* i8 to u64: try_from the i64
DeserializeNumber(t, in) ==
    IfOk(parse_i64(in), LAMBDA r : IF r.val \in t.fits THEN r ELSE Error(r.rest))

\* the loop of deserialize_list
ItemsAfter(comma, t, values) ==
    IF comma.val THEN ListItems(t, comma.rest, values) ELSE Done(values, comma.rest)
ItemsAt(t, at, values) ==
    IF StartsWith(at, "]") THEN Done(values, at)
    ELSE IfOk(deserialize(t, at), LAMBDA r : ItemsAfter(MaybeComma(r.rest), t, Append(values, r.val)))
ListItems(t, in, values) == ItemsAt(t, skip_whitespace(in), values)

\* deserialize_list: the bracket's result is unwrapped
Unwrap(r) == IF r.ok THEN r ELSE Panic
deserialize_list(t, in) ==
    IfOk(Unwrap(LeftBracket(in)), LAMBDA left :
        IfOk(ListItems(t, left.rest, <<>>), LAMBDA items :
            IfOk(RightBracket(items.rest), LAMBDA right : Done(items.val, right.rest))))

\* Mutant: a member that is not known is taken for the next field.
DeserializeMember_Shifts(fields, found, name, in) ==
    LET i == SelectInSeq([j \in DOMAIN fields |-> <<fields[j].name, found[j]>>], LAMBDA f : f[1] = name \/ f[2] = <<>>)
    IN  IF i = 0 THEN IfOk(parse_value(in), LAMBDA unknown : Done(found, unknown.rest))
        ELSE IfOk(deserialize(fields[i].t, in), LAMBDA r : Done([found EXCEPT ![i] = <<r.val>>], r.rest))

\* The callback derive! makes: a field is set, each time it is met; what is
\* not a field is read as a Value and dropped.
DeserializeMember(fields, found, name, in) ==
    LET i == SelectInSeq(fields, LAMBDA f : f.name = name)
    IN  IF i = 0 THEN IfOk(parse_value(in), LAMBDA unknown : Done(found, unknown.rest))
        ELSE IfOk(deserialize(fields[i].t, in), LAMBDA r : Done([found EXCEPT ![i] = <<r.val>>], r.rest))

\* the loop of deserialize_object: it ends where no name and colon follow
MembersAfter(comma, fields, found) ==
    IF comma.val THEN ObjectMembers(fields, comma.rest, found) ELSE Done(found, comma.rest)
ParseName(in) ==
    IfOk(parse_str(in), LAMBDA name : IfOk(Colon(name.rest), LAMBDA colon : Done(name.val, colon.rest)))
MembersAt(name, fields, in, found) ==
    IF ~name.ok THEN Done(found, in)
    ELSE IfOk(DeserializeMember(fields, found, name.val, skip_whitespace(name.rest)),
              LAMBDA r : MembersAfter(MaybeComma(r.rest), fields, r.val))
ObjectMembers(fields, in, found) == MembersAt(ParseName(in), fields, in, found)

\* Deserialize::init: a field that is an option begins as None.
InitField(t) == IF t.k = "option" THEN << <<>> >> ELSE <<>>

\* every field was met, or began as None
AllFound(found, rest) ==
    IF \E i \in DOMAIN found : found[i] = <<>> THEN Error(rest)
    ELSE Done([i \in DOMAIN found |-> found[i][1]], rest)
DeserializeStruct(fields, in) ==
    IfOk(LeftBrace(in), LAMBDA left :
        IfOk(ObjectMembers(fields, left.rest, [i \in DOMAIN fields |-> InitField(fields[i].t)]), LAMBDA members :
            IfOk(RightBrace(members.rest), LAMBDA right : AllFound(members.val, right.rest))))

\* Option: try_deserialize, and null from where that began
OrNull(r, in) ==
    IF r.panic THEN r ELSE IF r.ok THEN Done(<<r.val>>, r.rest)
    ELSE IfOk(eat(in, "null"), LAMBDA null : Done(<<>>, null.rest))
DeserializeOption(t, in) == OrNull(deserialize(t, in), in)

deserialize(t, in) ==
    CASE t.k = "number" -> DeserializeNumber(t, in)
      [] t.k = "bool" -> parse_bool(in)
      [] t.k = "string" -> parse_str(in)
      [] t.k = "list" -> deserialize_list(t.t, in)
      [] t.k = "option" -> DeserializeOption(t.t, in)
      [] t.k = "struct" -> DeserializeStruct(t.fields, in)
      [] t.k = "value" -> parse_value(in)

-----------------------------------------------------------------------------
(* A value is written, whitespace may be put between tokens, and it is read. *)

NotRead == [read |-> FALSE]

Init ==
    /\ case \in Cases
    /\ text = <<>>
    /\ result = NotRead

\* json::to_bytes; a text from elsewhere is spaced in other ways, here
\* after one token or after each.
Spaced(tokens, after) ==
    FoldLeft(LAMBDA out, i : out \o tokens[i] \o IF i \in after THEN <<Space>> ELSE <<>>,
             <<>>, [i \in DOMAIN tokens |-> i])
Write ==
    /\ text = <<>>
    /\ \E tokens \in {serialize(case.from, case.value)} :
        \E after \in { {}, DOMAIN tokens } \cup { {i} : i \in DOMAIN tokens } : text' = Spaced(tokens, after)
    /\ UNCHANGED <<case, result>>

\* json::deserialize
Read ==
    /\ text # <<>>
    /\ ~result.read
    /\ \E r \in {deserialize(case.to, text)} :
        result' = [read |-> TRUE, ok |-> r.ok, val |-> r.val, panic |-> r.panic]
    /\ UNCHANGED <<case, text>>

Next == Write \/ Read

Spec == Init /\ [][Next]_vars

-----------------------------------------------------------------------------
(* What the text means, and what a type makes of it. *)

RECURSIVE Meaning(_, _)
Meaning(t, v) ==
    CASE t.k \in {"number", "bool", "string"} -> <<t.k, v>>
      [] t.k = "list" -> <<"list", [i \in DOMAIN v |-> Meaning(t.t, v[i])]>>
      [] t.k = "option" -> IF v = <<>> THEN <<"null">> ELSE Meaning(t.t, v[1])
      [] t.k = "struct" ->
            <<"object", [name \in { f.name : f \in Range(t.fields) } |->
                LET i == CHOOSE j \in DOMAIN t.fields : t.fields[j].name = name
                IN  Meaning(t.fields[i].t, v[i])]>>

\* What Value can hold: numbers below zero and null are not among it.
RECURSIVE Holds(_)
Holds(j) ==
    CASE j[1] = "null" -> FALSE
      [] j[1] = "number" -> ~j[2].neg
      [] j[1] \in {"bool", "string"} -> TRUE
      [] j[1] \in {"list", "object"} -> \A i \in DOMAIN j[2] : Holds(j[2][i])

RECURSIVE ReadAs(_, _)
ReadAs(t, j) ==
    LET wrong == [ok |-> FALSE, val |-> <<>>]
        right(v) == [ok |-> TRUE, val |-> v]
    IN  IF t.k = "value" THEN (IF Holds(j) THEN right(j) ELSE wrong)
        ELSE IF t.k = "option"
        THEN LET r == ReadAs(t.t, j)
             IN  IF r.ok THEN right(<<r.val>>) ELSE IF j = <<"null">> THEN right(<<>>) ELSE wrong
        ELSE IF t.k = "struct"
        THEN IF j[1] # "object" THEN wrong
             ELSE LET names == { f.name : f \in Range(t.fields) }
                      read(i) == IF t.fields[i].name \in DOMAIN j[2]
                                 THEN ReadAs(t.fields[i].t, j[2][t.fields[i].name])
                                 ELSE IF t.fields[i].t.k = "option" THEN right(<<>>) ELSE wrong
                  IN  IF /\ \A i \in DOMAIN t.fields : read(i).ok
                         /\ \A x \in DOMAIN j[2] \ names : Holds(j[2][x])
                      THEN right([i \in DOMAIN t.fields |-> read(i).val]) ELSE wrong
        ELSE IF t.k # j[1] THEN wrong
        ELSE IF t.k = "number" THEN (IF j[2] \in t.fits THEN right(j[2]) ELSE wrong)
        ELSE IF t.k = "list"
        THEN IF \A i \in DOMAIN j[2] : ReadAs(t.t, j[2][i]).ok
             THEN right([i \in DOMAIN j[2] |-> ReadAs(t.t, j[2][i]).val]) ELSE wrong
        ELSE right(j[2])

\* A value that is written and read as the same type comes back, with the
\* commas the writer leaves at the end of lists and objects and whatever
\* whitespace there is (Serialize and Deserialize of each type).
RoundTrip ==
    result.read /\ case.from = case.to => result.ok /\ result.val = case.value

\* A value that is read as another type: members that are not fields are
\* skipped, optional fields may be missing, a number must fit, and nothing
\* else is accepted or lost on the way (the callback of derive!, Option's
\* rewind).  A member to skip that holds a null or a number below zero is
\* an error, since Value holds neither.
ReadsByName ==
    result.read =>
        \E r \in {ReadAs(case.to, Meaning(case.from, case.value))} :
            result.ok = r.ok /\ (r.ok => result.val = r.val)

\* Reading is answered by a value or an error; an option that is tried gives
\* its error back to try_deserialize (deserialize_list's unwrap).
NeverPanics == result.read => ~result.panic

=============================================================================

------------------------------- MODULE MC_Formats ------------------------------
(***************************************************************************)
(* What is written for others to read, for TLC: messages between tasks,    *)
(* JSON, DHCP options, and the parsers of the interface definition         *)
(* language, from the combinators up.  A behaviour is about one of them;   *)
(* the variables it does not use are 0.                                    *)
(***************************************************************************)
EXTENDS Integers, Sequences, SequencesExt, FiniteSets, TLC

CONSTANTS c1, c2, c3   \* capabilities

VARIABLES
    part,
    sending, phase, message, received,                     \* Materialize
    case, text, result,                                    \* Json
    at, room, usedSpace, bytes, pushed, data, options,     \* Dhcp
    input, stream, last, calls,                            \* CombCalls
    source, lexed,                                         \* VidlLexer
    document, tokens, tokenStream, ast, usages, stage      \* Vidl

-----------------------------------------------------------------------------
(* JSON: values written as one type and read as the same or another *)

Number(negatives, digits) ==
    [k |-> "number", fits |-> { [neg |-> n, digits |-> d] : n \in negatives, d \in digits }]
I64 == Number(BOOLEAN, {"1", "300"})
U64 == Number({FALSE}, {"1", "300"})
I8 == Number(BOOLEAN, {"1"})
Bool == [k |-> "bool"]
String == [k |-> "string"]
Value == [k |-> "value"]
List(type) == [k |-> "list", t |-> type]
Maybe(type) == [k |-> "option", t |-> type]
Field(name, t) == [name |-> name, t |-> t]
Struct(fields) == [k |-> "struct", fields |-> fields]
XY(t, u) == Struct(<<Field("x", t), Field("y", u)>>)

RECURSIVE ValuesOf(_)
ValuesOf(t) ==
    CASE t.k = "number" -> t.fits
      [] t.k = "bool" -> BOOLEAN
      [] t.k = "string" -> {"x", "y"}
      [] t.k = "list" -> LET vs == ValuesOf(t.t) IN { <<>> } \cup { <<v>> : v \in vs } \cup { <<v, w>> : v, w \in vs }
      [] t.k = "option" -> { <<>> } \cup { <<v>> : v \in ValuesOf(t.t) }
      [] t.k = "struct" ->
            FoldLeft(LAMBDA vs, f : { Append(v, x) : v \in vs, x \in ValuesOf(f.t) }, { <<>> }, t.fields)

Plain ==
    {I64, Bool, String, U64, I8, Maybe(I64), Maybe(String), List(List(Bool)), Struct(<<Field("x", String)>>)}
    \cup { List(t) : t \in {I64, String, Maybe(Bool), Struct(<<Field("x", Maybe(Bool))>>)} }
    \cup { XY(t, u) : t, u \in {I64, Maybe(Bool), List(Bool)} }
    \cup { Maybe(Struct(<<Field("x", List(Bool)), Field("z", Maybe(String))>>)) }
ReadAs(from, to) == { [from |-> from, value |-> v, to |-> to] : v \in ValuesOf(from) }
Changed ==
    UNION { ReadAs(XY(t, u), Struct(fields)) :
                t, u \in {I64, Maybe(Bool)},
                fields \in {<<Field("x", I64)>>, <<Field("x", Maybe(U64))>>, <<Field("y", Maybe(Bool))>>,
                            <<Field("z", Maybe(String)), Field("y", I8)>>, <<Field("z", String)>>,
                            <<Field("y", Value), Field("x", Value)>>} }
    \cup UNION { ReadAs(t, Value) : t \in {I64, Bool, Maybe(String), List(I64), XY(I64, List(Bool))} }
    \cup ReadAs(I64, I8) \cup ReadAs(I64, Bool) \cup ReadAs(Bool, String) \cup ReadAs(List(I64), List(Maybe(U64)))
    \cup ReadAs(Maybe(Bool), Struct(<<Field("x", Bool)>>))

Texts == INSTANCE Json WITH Digits <- {"1", "300"}, Cases <- UNION { ReadAs(t, t) : t \in Plain } \cup Changed

-----------------------------------------------------------------------------
(* Messages: types with a few values each *)

Layouts == INSTANCE Materialize WITH Cases <- {}, Width <- 1000000
Bytes(n) == Layouts!IntOf(n)
Unit == Layouts!Unit
Str == [k |-> "str"]
Cap == [k |-> "cap"]
Tuple(fields) == [k |-> "tuple", fields |-> fields]
Vec(T) == [k |-> "vec", of |-> T]
Array(T, n) == [k |-> "array", of |-> T, len |-> n]
Option(T) == [k |-> "option", of |-> T]
Result(T, E) == [k |-> "result", ok |-> T, err |-> E]
Enum(repr, explicit, variants) == [k |-> "enum", repr |-> repr, explicit |-> explicit, variants |-> variants]

\* The values of a type that are tried; n keeps neighbouring values apart.
RECURSIVE Sample(_, _)
Sample(T, n) ==
    CASE T.k = "unit" -> {<<>>}
      [] T.k = "int" -> {0, n}
      [] T.k = "str" -> {<<>>, <<n, n + 1, n + 2>>}
      [] T.k = "cap" -> {<<c1, c2, c3>>[1 + (n % 3)]}
      [] T.k = "tuple" ->
            FoldLeft(LAMBDA vs, i : { Append(v, x) : v \in vs, x \in Sample(T.fields[i], n + i) },
                     {<<>>}, [i \in DOMAIN T.fields |-> i])
      [] T.k = "vec" -> {<<>>} \cup { <<x, y>> : x \in Sample(T.of, n + 1), y \in Sample(T.of, n + 2) }
      [] T.k = "array" -> { [i \in 1..T.len |-> CHOOSE x \in Sample(T.of, n + i) : TRUE] }
      [] T.k \in {"option", "result", "enum"} ->
            UNION { { <<i, x>> : x \in Sample(Layouts!Variants(T)[i], n + i) } : i \in DOMAIN Layouts!Variants(T) }

\* Tuples in which no field is followed by one of larger alignment, except at
\* the end.
Words == {Bytes(8), Str, Cap, Bytes(4), Bytes(1)}
Align(T) == Layouts!LayoutOf(Layouts!Primitive(T)).align
Tuples ==
    { Tuple(f) : f \in { g \in Words \X Words \X Words : Align(g[1]) >= Align(g[2]) } }
    \cup { Tuple(<<a, b>>) : a \in {Bytes(1), Cap}, b \in {Bytes(8), Str} }
Counted == Enum(4, <<2, -1, -1>>, <<Unit, Tuple(<<Bytes(4)>>), Tuple(<<Cap>>)>>)
Numbered == Enum(8, <<-1, -1, 6>>, <<Unit, Unit, Unit>>)
Nested ==
    { Vec(T) : T \in { Tuple(<<a, b>>) : a \in {Bytes(1), Cap}, b \in {Bytes(8), Str} } \cup {Bytes(1), Str, Option(Cap)} }
    \cup {Array(Tuple(<<Bytes(4)>>), 3), Array(Bytes(1), 3), Array(Str, 2), Option(Str), Option(Tuple(<<Bytes(8), Bytes(1)>>)),
          Result(Unit, Str), Result(Vec(Cap), Bytes(4)), Numbered, Counted, Vec(Counted),
          Enum(8, <<-1, -1, -1>>, <<Tuple(<<Str>>), Tuple(<<Bytes(4)>>), Tuple(<<Vec(Tuple(<<Bytes(1), Bytes(8)>>))>>)>>),
          Tuple(<<Option(Cap), Vec(Cap), Cap>>), Tuple(<<Numbered, Bytes(4), Option(Bytes(1))>>),
          Tuple(<<Tuple(<<Cap, Bytes(1)>>), Cap>>)}

Messages == INSTANCE Materialize WITH
    Cases <- UNION { { [type |-> T, value |-> v] : v \in Sample(T, 1) } : T \in Tuples \cup Nested }, Width <- 1000000

-----------------------------------------------------------------------------
(* DHCP: a router, a server, a message type, a parameter list that names an  *)
(* option number and the end's, an empty and an overlong unknown option, and *)
(* an end.                                                                   *)

Opt(id, value) == [id |-> id, value |-> value]
Replies == INSTANCE Dhcp WITH
    SliceSizes <- {239, 240, 246, 252, 510}, MaxPushes <- 3,
    Pushable <- { Opt(3, <<10, 0, 2, 2>>), Opt(54, <<255, 3, 53, 0>>), Opt(53, <<2>>), Opt(55, <<3, 255>>), Opt(0, <<>>),
                  Opt(12, [n \in 1..256 |-> 3]), Opt(255, <<>>) }

-----------------------------------------------------------------------------
(* Parsers built up from atoms over two items *)

MCApply(f, v) == <<f, v>>
One(x) == [k |-> "one", set |-> {x}]
Nest == [k |-> "rule", name |-> "nest"]
MCRules == [nest |-> [k |-> "then", p |-> One("a"),
                      q |-> [k |-> "thenassert", p |-> [k |-> "maybe", p |-> Nest], q |-> One("b")]]]
Inputs3 == UNION { [1..n -> {"a", "b"}] : n \in 0..3 }

\* A loop over a parser that matches nothing would not end.
RECURSIVE Consumes(_)
Consumes(p) ==
    \/ p.k \in {"one", "oneof", "any", "sequence", "delimited", "rule"}
    \/ p.k \in {"map", "consume", "peek", "padded", "string", "separated"} /\ Consumes(p.p)
    \/ p.k \in {"then", "thento", "thenassert"} /\ (Consumes(p.p) \/ Consumes(p.q))
    \/ p.k = "or" /\ Consumes(p.p) /\ Consumes(p.q)
    \/ p.k \in {"choice", "hinted"} /\ \A i \in DOMAIN p.ps : Consumes(p.ps[i])
Consuming(ps) == { p \in ps : Consumes(p) }

Atoms == { One("a"), One("b"), [k |-> "oneof", set |-> {"a", "b"}], [k |-> "sequence", items |-> <<"a", "b">>] }
Unary(ps) ==
    { [k |-> kind, p |-> p] : kind \in {"maybe", "peek", "consume"}, p \in ps }
    \cup { [k |-> "map", p |-> p, f |-> "f"] : p \in ps }
    \cup { [k |-> kind, p |-> p] : kind \in {"many", "consumemany"}, p \in Consuming(ps) }
    \cup { [k |-> "until", set |-> {"b"}, p |-> p] : p \in Consuming(ps) }
Binary(ps, qs) ==
    { [k |-> kind, p |-> p, q |-> q] : kind \in {"then", "thento", "thenassert", "or"}, p \in ps, q \in qs }
    \cup { [k |-> kind, p |-> p, q |-> q] : kind \in {"padded", "string"}, p \in ps, q \in Consuming(qs) }
    \cup { [k |-> "separated", p |-> p, q |-> q, trailing |-> t] : p \in Consuming(ps), q \in qs, t \in BOOLEAN }
Others(ps) ==
    { [k |-> "delimited", start |-> One("a"), p |-> p, end |-> One("b")] : p \in ps }
    \cup { [k |-> "choice", ps |-> <<p, q>>] : p \in ps, q \in ps }
    \cup { [k |-> "hinted", hints |-> <<{"a"}, {"b"}>>, ps |-> <<p, q>>] : p \in ps, q \in ps }
    \cup { [k |-> "hinted", hints |-> <<{"b"}, {"b"}>>, ps |-> <<p, p>>] : p \in ps }
Simple == Atoms \cup {[k |-> "any"]} \cup Unary(Atoms) \cup Others(Atoms) \cup {Nest}

\* Parsers in parsers, called once; and simple ones, called one after the other.
Two == { One("a"), [k |-> "sequence", items |-> <<"a", "b">>] }
Deep == Unary(Binary(Two, Atoms) \cup Simple) \cup Binary(Simple, Two) \cup Binary(Two, Simple)
Deeply == INSTANCE CombCalls WITH
    Rules <- MCRules, Apply <- MCApply, Inputs <- Inputs3, MaxCalls <- 1, Parsers <- Deep
Shallow == Simple \cup Binary(Atoms, {One("b")}) \cup { [k |-> "end"] }
             \cup { [k |-> "thenassert", p |-> p, q |-> [k |-> "end"]] : p \in Unary({One("a")}) }
Repeatedly == INSTANCE CombCalls WITH
    Rules <- MCRules, Apply <- MCApply, Inputs <- Inputs3, MaxCalls <- 3, Parsers <- Shallow

-----------------------------------------------------------------------------
(* Interface definitions *)

Lexer == INSTANCE VidlLexer WITH
    result <- lexed, Letters <- {"f", "n"}, Digits <- {"1"}, Spaces <- {" "}, MaxLength <- 4

Path(x) == <<"path", <<x>>, <<>>>>
Types == <<Path("x"), <<"str", "String">>, <<"path", <<"x", "y">>, <<>>>>,
           <<"slice", Path("x")>>, <<"slice", <<"slice", Path("y")>>>>, <<"array", Path("x"), "1">>,
           <<"path", <<"Result">>, <<<<Path("x"), <<"slice", Path("y")>>>>>>>>,
           <<"path", <<"x">>, <<<<<<"path", <<"y">>, <<<<Path("x")>>>>>>>>>>>>>>
Full(path) == <<"full", path>>
Uses == << Full(<<"x">>), Full(<<"y", "Result">>),
           <<"grouped", <<"y">>, <<Full(<<"x">>), Full(<<"x", "Result">>)>>>>,
           <<"grouped", <<"x">>, <<Full(<<"x">>), <<"grouped", <<"y">>, <<Full(<<"Result">>), Full(<<"y">>)>>>>>>>>,
           <<"grouped", <<>>, <<<<"grouped", <<"y", "x">>, <<Full(<<"x">>)>>>>>>>> >>
FieldLists == << <<<<"x", Types[1]>>>>, <<<<"y", Types[2]>>, <<"x", Types[8]>>>> >>
Methods == [i \in 1..8 |-> <<"method", "x", <<<<"y", Types[i]>>>>, <<Types[9 - i]>>>>]
            \o << <<"method", "y", FieldLists[2], <<>>>> >>
VariantList == << <<"x", <<>>>>, <<"y", <<<<"tuple", <<Types[3], Types[4]>>>>>>>>,
                  <<"Result", <<<<"fields", FieldLists[2]>>>>>> >>
GenericLists == << <<>>, <<<<"x">>>>, <<<<"x", "y">>>> >>
Nodes ==
    [i \in 1..5 |-> <<"use", Uses[i]>>]
    \o [i \in 1..9 |-> <<"service", "x", <<Methods[i]>>>>]
    \o << <<"service", "y", <<>>>>, <<"service", "y", <<Methods[1], Methods[9]>>>> >>
    \o [i \in 1..3 |-> <<"type", <<>>, <<"struct", "x", GenericLists[i], FieldLists[1 + (i % 2)]>>>>]
    \o [i \in 1..3 |-> <<"type", <<"y">>, <<"enum", "x", GenericLists[i], <<VariantList[i]>>>>>>]
    \o << <<"type", <<"x", "y">>, <<"enum", "y", <<>>, VariantList>>>>,
          <<"type", <<"x">>, <<"struct", "y", <<>>, FieldLists[2]>>>> >>

\* Every definition, followed by one of each kind.
Sources == { [nodes |-> <<Nodes[i], Nodes[j]>>, trailing |-> c] : i \in DOMAIN Nodes, j \in {1, 4, 6, 15, 18, 23}, c \in BOOLEAN }

Definitions == INSTANCE Vidl WITH
    stream <- tokenStream, phase <- stage, Identifiers <- {"x", "y", "Result"}, Numbers <- {"1"},
    Documents <- Sources, MaxCut <- 4

-----------------------------------------------------------------------------
messageVars == <<sending, phase, message, received>>
textVars == <<case, text, result>>
replyVars == <<at, room, usedSpace, bytes, pushed, data, options>>
callVars == <<input, stream, last, calls>>
lexerVars == <<source, lexed>>
grammarVars == <<document, tokens, tokenStream, ast, usages, stage>>
vars == <<part, messageVars, textVars, replyVars, callVars, lexerVars, grammarVars>>

NoMessage == sending = 0 /\ phase = 0 /\ message = 0 /\ received = 0
NoText == case = 0 /\ text = 0 /\ result = 0
NoReply == at = 0 /\ room = 0 /\ usedSpace = 0 /\ bytes = 0 /\ pushed = 0 /\ data = 0 /\ options = 0
NoCalls == input = 0 /\ stream = 0 /\ last = 0 /\ calls = 0
NoLexer == source = 0 /\ lexed = 0
NoGrammar == document = 0 /\ tokens = 0 /\ tokenStream = 0 /\ ast = 0 /\ usages = 0 /\ stage = 0

Init ==
    \/ /\ NoText /\ NoReply /\ NoCalls /\ NoLexer /\ NoGrammar
       /\ part = "messages" /\ Messages!Init
    \/ /\ NoMessage /\ NoReply /\ NoCalls /\ NoLexer /\ NoGrammar
       /\ part = "texts" /\ Texts!Init
    \/ /\ NoMessage /\ NoText /\ NoCalls /\ NoLexer /\ NoGrammar
       /\ part = "replies" /\ Replies!Init
    \/ /\ NoMessage /\ NoText /\ NoReply /\ NoLexer /\ NoGrammar
       /\ \/ part = "deeply" /\ Deeply!Init
          \/ part = "repeatedly" /\ Repeatedly!Init
    \/ /\ NoMessage /\ NoText /\ NoReply /\ NoCalls /\ NoGrammar
       /\ part = "lexer" /\ Lexer!Init
    \/ /\ NoMessage /\ NoText /\ NoReply /\ NoCalls /\ NoLexer
       /\ part = "grammar" /\ Definitions!Init

Next ==
    /\ UNCHANGED part
    /\ \/ /\ UNCHANGED <<textVars, replyVars, callVars, lexerVars, grammarVars>>
          /\ part = "messages" /\ Messages!Next
       \/ /\ UNCHANGED <<messageVars, replyVars, callVars, lexerVars, grammarVars>>
          /\ part = "texts" /\ Texts!Next
       \/ /\ UNCHANGED <<messageVars, textVars, callVars, lexerVars, grammarVars>>
          /\ part = "replies" /\ Replies!Next
       \/ /\ UNCHANGED <<messageVars, textVars, replyVars, lexerVars, grammarVars>>
          /\ \/ part = "deeply" /\ Deeply!Next
             \/ part = "repeatedly" /\ Repeatedly!Next
       \/ /\ UNCHANGED <<messageVars, textVars, replyVars, callVars, grammarVars>>
          /\ part = "lexer" /\ Lexer!Next
       \/ /\ UNCHANGED <<messageVars, textVars, replyVars, callVars, lexerVars>>
          /\ part = "grammar" /\ Definitions!Next

Spec == Init /\ [][Next]_vars

-----------------------------------------------------------------------------

\* What is written is read back.  A task that deserializes a message gets the
\* value that was serialized and its capabilities, and the serializer fills
\* exactly the space it reserved (materialize).  A JSON value read as its own
\* type comes back; read as another, members that are not fields are skipped,
\* optional fields may be missing and a number must fit (json).  The options of
\* a DHCP message come back in their order (dhcp/options.rs).
RoundTrip ==
    /\ part = "messages" => Messages!RoundTrip /\ Messages!Fits /\ Messages!CapabilitiesSent
    /\ part = "texts" => Texts!RoundTrip /\ Texts!ReadsByName
    /\ part = "replies" => Replies!RoundTrip /\ Replies!SpaceAccounted

\* A parser accepts, returns and leaves what its combinators say, with its
\* tries inside tries and whatever earlier calls looked at (comb/stream.rs).  A
\* source is split into the longest tokens there are, with spans that cover
\* them, and compile() goes on with every definition that is whole, refusing
\* only a source that is cut (vidl).
ParsesAsMeant ==
    /\ part = "deeply" => Deeply!ParsesAsMatched /\ Deeply!HoldsTheRest
    /\ part = "repeatedly" => Repeatedly!ParsesAsMatched /\ Repeatedly!HoldsTheRest
    /\ part = "lexer" => Lexer!LongestTokens /\ Lexer!SpansCover
    /\ part = "grammar" => Definitions!KeepsWholeDefinitions /\ Definitions!RefusesOnlyCut
================================================================================

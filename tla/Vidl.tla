-------------------------------- MODULE Vidl --------------------------------
(***************************************************************************)
(* The grammar of the interface description language, written with the comb *)
(* library over tokens, and the loop of Compiler::compile that collects the  *)
(* definitions of a source and the paths its use declarations bring in.      *)
(*                                                                          *)
(* A token is a string; a syntax tree is a tuple that begins with its kind.  *)
(***************************************************************************)
EXTENDS Integers, Sequences, SequencesExt, FiniteSets

CONSTANTS Identifiers, Numbers,     \* those tokens
          Documents,                \* the sources: trees, and whether lists end in a comma
          MaxCut                    \* bound: tokens missing at a source's end

VARIABLES document, tokens, stream, ast, usages, phase
vars == <<document, tokens, stream, ast, usages, phase>>

-----------------------------------------------------------------------------
(* The grammar. *)

Single(token) == [k |-> "one", set |-> {token}]
Then(p, q) == [k |-> "then", p |-> p, q |-> q]
ThenTo(p, q) == [k |-> "thento", p |-> p, q |-> q]
ThenAssert(p, q) == [k |-> "thenassert", p |-> p, q |-> q]
Maybe(p) == [k |-> "maybe", p |-> p]
Mapped(p, f) == [k |-> "map", p |-> p, f |-> f]
Delimited(start, p, end) == [k |-> "delimited", start |-> Single(start), p |-> p, end |-> Single(end)]
SeparatedBy(p, token) == [k |-> "separated", p |-> p, q |-> Single(token), trailing |-> FALSE]
\* separated by commas, allow_trailing
List(p) == [k |-> "separated", p |-> p, q |-> Single(","), trailing |-> TRUE]
Hinted(hints, ps) == [k |-> "hinted", hints |-> hints, ps |-> ps]
Rule(name) == [k |-> "rule", name |-> name]

\* The closures given to map: the tree each part of the grammar makes.
Tree(f, v) ==
    CASE f = "list" -> IF v[2] = <<>> THEN <<"slice", v[1]>> ELSE <<"array", v[1], v[2][1]>>
      [] f = "path" -> <<"path", v[1], v[2]>>
      [] f = "method" -> <<"method", v[1][1], v[1][2], v[2]>>
      [] f \in {"struct", "enum"} -> <<f, v[1][1], v[1][2], v[2]>>
      [] f = "plain" -> <<"type", <<>>, v>>
      [] f = "attributed" -> <<"type", v[1], v[2]>>
      [] f \in {"service", "grouped"} -> <<f, v[1], v[2]>>
      [] f \in {"str", "full", "use", "tuple", "fields"} -> <<f, v>>

parse_ident == [k |-> "one", set |-> Identifiers]

\* A slice or an array, the string type, or a path with its generics.
parse_type_rule ==
    Hinted(<<{"["}, {"String"}, Identifiers>>,
        <<Mapped(Delimited("[", Then(Rule("type"), Maybe(ThenTo(Single(";"), [k |-> "one", set |-> Numbers]))), "]"),
                 "list"),
          Mapped(Single("String"), "str"),
          Mapped(Then(SeparatedBy(parse_ident, "::"), Maybe(Delimited("<", List(Rule("type")), ">"))), "path")>>)
parse_type == Rule("type")

parse_argument == Then(ThenAssert(parse_ident, Single(":")), parse_type)

parse_method ==
    Mapped(ThenAssert(
        Then(Then(ThenTo(Single("fn"), parse_ident), Delimited("(", List(parse_argument), ")")),
             Maybe(ThenTo(Single("->"), parse_type))),
        Single(";")), "method")

parse_service ==
    Mapped(Then(ThenTo(Single("service"), parse_ident),
                Delimited("{", [k |-> "until", set |-> {"}"}, p |-> parse_method], "}")), "service")

parse_use_full_path == Mapped(SeparatedBy(parse_ident, "::"), "full")

\* Mutant: a group inside a group is not looked for.
parse_use_grouped_rule_Flat ==
    Mapped(Then([k |-> "until", set |-> {"{"}, p |-> ThenAssert(parse_ident, Single("::"))],
                Delimited("{", List(parse_use_full_path), "}")), "grouped")

\* A base path up to a brace, and the full paths and groups inside.
parse_use_grouped_rule ==
    Mapped(Then([k |-> "until", set |-> {"{"}, p |-> ThenAssert(parse_ident, Single("::"))],
                Delimited("{", List([k |-> "or", p |-> parse_use_full_path, q |-> Rule("grouped")]), "}")),
           "grouped")
parse_use_list == [k |-> "or", p |-> parse_use_full_path, q |-> Rule("grouped")]

parse_use == Mapped(ThenAssert(ThenTo(Single("use"), parse_use_list), Single(";")), "use")

\* The generics of a struct or an enum.
Generics == Maybe(Delimited("<", List(parse_ident), ">"))
Field == Then(ThenAssert(parse_ident, Single(":")), parse_type)

parse_struct_definition ==
    Mapped(Then(Then(ThenTo(Single("struct"), parse_ident), Generics), Delimited("{", List(Field), "}")), "struct")

parse_enum_variant_data ==
    Hinted(<<{"{"}, {"("}>>,
           <<Mapped(Delimited("{", List(Field), "}"), "fields"),
             Mapped(Delimited("(", List(parse_type), ")"), "tuple")>>)

parse_enum_definition ==
    Mapped(Then(Then(ThenTo(Single("enum"), parse_ident), Generics),
                Delimited("{", List(Then(parse_ident, Maybe(parse_enum_variant_data))), "}")), "enum")

\* many1 accepts none, and so does this; it is only reached at an @.
parse_attributes_then_type_definition ==
    Mapped(Then([k |-> "many", p |-> ThenTo(Single("@"), parse_ident)],
                Hinted(<<{"struct"}, {"enum"}>>, <<parse_struct_definition, parse_enum_definition>>)),
           "attributed")

parser ==
    Hinted(<<{"service"}, {"use"}, {"struct"}, {"enum"}, {"@"}>>,
           <<parse_service, parse_use,
             Mapped(parse_struct_definition, "plain"), Mapped(parse_enum_definition, "plain"),
             parse_attributes_then_type_definition>>)

Grammar == [type |-> parse_type_rule, grouped |-> parse_use_grouped_rule]

INSTANCE Comb WITH Rules <- Grammar, Apply <- Tree

-----------------------------------------------------------------------------
(* Use::flatten *)

RECURSIVE flatten(_)

flatten(u) ==
    IF u[1] = "full" THEN <<u[2]>>
    ELSE FoldLeft(LAMBDA paths, b : paths \o [i \in DOMAIN flatten(b) |-> u[2] \o flatten(b)[i]], <<>>, u[3])

\* usages.insert: the last identifier of a path stands for the path.
InsertUsages(map, paths) ==
    FoldLeft(LAMBDA m, path : [m EXCEPT ![path[Len(path)]] = path], map, paths)

-----------------------------------------------------------------------------
(* The tokens a tree is written with, where trailing commas are written. *)

Joined(parts, separator) ==
    FoldLeft(LAMBDA a, x : IF a = <<>> THEN x ELSE a \o separator \o x, <<>>, parts)
Each(items, Written(_)) == [i \in DOMAIN items |-> Written(items[i])]
Listed(parts, trailing) == Joined(parts, <<",">>) \o IF trailing THEN <<",">> ELSE <<>>
Path(idents) == Joined(Each(idents, LAMBDA x : <<x>>), <<"::">>)
Optional(option, Written(_)) == IF option = <<>> THEN <<>> ELSE Written(option[1])

RECURSIVE WrittenType(_, _)
WrittenType(t, c) ==
    CASE t[1] = "slice" -> <<"[">> \o WrittenType(t[2], c) \o <<"]">>
      [] t[1] = "array" -> <<"[">> \o WrittenType(t[2], c) \o <<";", t[3], "]">>
      [] t[1] = "str" -> <<"String">>
      [] t[1] = "path" ->
            Path(t[2]) \o Optional(t[3], LAMBDA g : <<"<">> \o Listed(Each(g, LAMBDA x : WrittenType(x, c)), c) \o <<">">>)

RECURSIVE WrittenUse(_, _)
WrittenUse(u, c) ==
    IF u[1] = "full" THEN Path(u[2])
    ELSE FoldLeft(LAMBDA a, x : a \o <<x, "::">>, <<>>, u[2])
         \o <<"{">> \o Listed(Each(u[3], LAMBDA b : WrittenUse(b, c)), c) \o <<"}">>

Fields(fields, c) == Listed(Each(fields, LAMBDA f : <<f[1], ":">> \o WrittenType(f[2], c)), c)

WrittenMethod(m, c) ==
    <<"fn", m[2], "(">> \o Fields(m[3], c) \o <<")">>
    \o Optional(m[4], LAMBDA t : <<"->">> \o WrittenType(t, c)) \o <<";">>

WrittenVariant(v, c) ==
    <<v[1]>> \o Optional(v[2], LAMBDA d :
        IF d[1] = "fields" THEN <<"{">> \o Fields(d[2], c) \o <<"}">>
        ELSE <<"(">> \o Listed(Each(d[2], LAMBDA t : WrittenType(t, c)), c) \o <<")">>)

WrittenDefinition(d, c) ==
    <<d[1], d[2]>>
    \o Optional(d[3], LAMBDA g : <<"<">> \o Listed(Each(g, LAMBDA x : <<x>>), c) \o <<">">>)
    \o <<"{">>
    \o (IF d[1] = "struct" THEN Fields(d[4], c) ELSE Listed(Each(d[4], LAMBDA v : WrittenVariant(v, c)), c))
    \o <<"}">>

WrittenNode(n, c) ==
    CASE n[1] = "use" -> <<"use">> \o WrittenUse(n[2], c) \o <<";">>
      [] n[1] = "service" ->
            <<"service", n[2], "{">> \o Joined(Each(n[3], LAMBDA m : WrittenMethod(m, c)), <<>>) \o <<"}">>
      [] n[1] = "type" ->
            Joined(Each(n[2], LAMBDA a : <<"@", a>>), <<>>) \o WrittenDefinition(n[3], c)

Written(nodes, c) == Joined(Each(nodes, LAMBDA n : WrittenNode(n, c)), <<>>)

-----------------------------------------------------------------------------
(* Compiler::compile, up to the lowering of the definitions. *)

\* Compiler::new
NewUsages == [x \in Identifiers |-> IF x \in {"Result", "Option"} THEN <<"core", x>> ELSE <<>>]

Init ==
    /\ document \in Documents
    /\ \E cut \in 0..MaxCut :
        LET all == Written(document.nodes, document.trailing)
        IN  cut <= Len(all) /\ tokens = SubSeq(all, 1, Len(all) - cut)
    /\ stream = NewStream(tokens)
    /\ ast = <<>>
    /\ usages = NewUsages
    /\ phase = "parsing"

\* One turn of the loop.  An error is the end when nothing follows it.
ParseNode ==
    /\ phase = "parsing"
    /\ \E r \in {Parse(parser, stream)} : \E next \in {PeekItem(r.s)} :
        /\ stream' = next.s
        /\ phase' = CASE r.ok -> "parsing"
                      [] ~r.ok /\ next.found = <<>> -> "parsed"
                      [] ~r.ok /\ next.found # <<>> -> "refused"
        /\ ast' = IF r.ok /\ r.val[1] # "use" THEN Append(ast, r.val) ELSE ast
        /\ usages' = IF r.ok /\ r.val[1] = "use" THEN InsertUsages(usages, flatten(r.val[2])) ELSE usages
    /\ UNCHANGED <<document, tokens>>

Next == ParseNode

Spec == Init /\ [][Next]_vars

-----------------------------------------------------------------------------

\* The definitions that are in the source to their last token.
Whole ==
    LET fits == { n \in 0..Len(document.nodes) :
                    Len(Written(SubSeq(document.nodes, 1, n), document.trailing)) <= Len(tokens) }
    IN  SubSeq(document.nodes, 1, CHOOSE n \in fits : \A m \in fits : m <= n)

\* The paths a use declaration brings in: the base in front of every path of
\* a group, however deep.
RECURSIVE Brings(_, _)
Brings(u, path) ==
    IF u[1] = "full" THEN {path \o u[2]}
    ELSE UNION { Brings(u[3][i], path \o u[2]) : i \in DOMAIN u[3] }

\* What compile goes on with is every definition of the source, as written
\* and in order; of a source that ends in the middle of one, the definitions
\* in front of it.  A name stands for a path some use brings in for it
\* (the loop of Compiler::compile and Use::flatten).
KeepsWholeDefinitions ==
    phase = "parsed" =>
        LET uses == { n \in Range(Whole) : n[1] = "use" }
            brought == UNION { Brings(n[2], <<>>) : n \in uses }
            bringing(x) == { path \in brought : path[Len(path)] = x }
        IN  /\ ast = SelectSeq(Whole, LAMBDA n : n[1] # "use")
            /\ \A x \in Identifiers :
                IF bringing(x) = {} THEN usages[x] = NewUsages[x] ELSE usages[x] \in bringing(x)

\* Only a source that ends in the middle of a definition is refused: with and
\* without trailing commas, whatever is nested (the grammar's parsers).
RefusesOnlyCut ==
    phase = "refused" => tokens # Written(document.nodes, document.trailing)

=============================================================================

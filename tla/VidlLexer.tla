----------------------------- MODULE VidlLexer -----------------------------
(***************************************************************************)
(* The lexer of the interface description language, which Compiler::compile *)
(* runs with many1(lexer()).then_assert(end()) over the source's characters.*)
(***************************************************************************)
EXTENDS Integers, Sequences, SequencesExt, FiniteSetsExt

CONSTANTS Letters, Digits, Spaces,      \* the characters of each class
          MaxLength                     \* bound: characters in a source

\* what stands alone: every one-character token is lexed the same way
Punctuation == {"{"}

Chars == Letters \cup Digits \cup Spaces \cup Punctuation \cup {"_", ":", "-", ">"}

VARIABLES source, result
vars == <<source, result>>

-----------------------------------------------------------------------------

One(set) == [k |-> "one", set |-> set]
ToToken(p, token) == [k |-> "map", p |-> p, f |-> token]

\* The closures: a token that says nothing of its text, a number, or an
\* identifier unless it is a keyword.
LexApply(f, v) ==
    CASE f = "identifier" -> IF v = <<"f", "n">> THEN <<"fn">> ELSE <<"identifier", v>>
      [] f = "number" -> <<"number", v>>
      [] f \notin {"identifier", "number"} -> <<f>>

INSTANCE Comb WITH Rules <- <<>>, Apply <- LexApply

\* comb::text
whitespace == One(Spaces)
ascii_alphabetic == One(Letters)
ascii_digit == One(Digits)
ascii_alphanumeric == One(Letters \cup Digits)

\* Mutant: an underscore ends an identifier.
identifier_NoUnderscore == ToToken([k |-> "string", p |-> ascii_alphabetic, q |-> ascii_alphanumeric], "identifier")

identifier ==
    ToToken([k |-> "string", p |-> ascii_alphabetic,
             q |-> [k |-> "or", p |-> ascii_alphanumeric, q |-> One({"_"})]], "identifier")

number == ToToken([k |-> "string", p |-> ascii_digit, q |-> ascii_digit], "number")

\* The first character decides, and two colons win over one.
Token ==
    [k |-> "hinted",
     hints |-> <<Letters, Digits, {":"}, {"-"}, {"{"}, {">"}>>,
     ps |-> <<identifier, number,
              [k |-> "or", p |-> ToToken([k |-> "sequence", items |-> <<":", ":">>], "::"),
                           q |-> ToToken(One({":"}), ":")],
              ToToken([k |-> "then", p |-> One({"-"}), q |-> One({">"})], "->"),
              ToToken(One({"{"}), "{"), ToToken(One({">"}), ">")>>]

\* Mutant: the whitespace in front is part of the span.
lexer_PaddedInside == [k |-> "span", p |-> [k |-> "padded", q |-> whitespace, p |-> Token]]

lexer == [k |-> "padded", q |-> whitespace, p |-> [k |-> "span", p |-> Token]]

\* the first statement of Compiler::compile
Lex(chars) ==
    Parse([k |-> "thenassert", p |-> [k |-> "many", p |-> lexer], q |-> [k |-> "end"]], NewStream(chars))

Pending == [done |-> FALSE]

Init ==
    /\ source \in UNION { [1..n -> Chars] : n \in 0..MaxLength }
    /\ result = Pending

compile ==
    /\ ~result.done
    /\ \E r \in {Lex(source)} : result' = [done |-> TRUE, ok |-> r.ok, tokens |-> r.val, panic |-> r.s.panic]
    /\ UNCHANGED source

Next == compile

Spec == Init /\ [][Next]_vars

-----------------------------------------------------------------------------
(* The language of tokens, said by where each one begins and ends. *)

\* The last character of the longest token that begins at i; i - 1 if none.
Run(i, set) == Max({ j \in i..Len(source) : \A m \in i..j : source[m] \in set })
TokenEnd(i) ==
    LET two(a, b) == i < Len(source) /\ source[i] = a /\ source[i + 1] = b
    IN  CASE source[i] \in Letters ->
                IF i < Len(source) /\ source[i + 1] \in Letters \cup Digits \cup {"_"}
                THEN Run(i + 1, Letters \cup Digits \cup {"_"}) ELSE i
          [] source[i] \in Digits -> Run(i, Digits)
          [] source[i] \in {":"} -> IF two(":", ":") THEN i + 1 ELSE i
          [] source[i] \in {"-"} -> IF two("-", ">") THEN i + 1 ELSE i - 1
          [] source[i] \in {"{", ">"} -> i
          [] source[i] \in Spaces \cup {"_"} -> i - 1

\* the first character from i on that is not a space
Skip(i) == Min({ j \in i..(Len(source) + 1) : j = Len(source) + 1 \/ source[j] \notin Spaces })

\* The first and last character of each token from i on; <<>> where no token
\* begins although characters, if only spaces, are left.
RECURSIVE Extents(_)
ExtentsFrom(b, e) == IF e < b THEN << <<>> >> ELSE << <<b, e>> >> \o Extents(e + 1)
ExtentsAt(b) == IF b > Len(source) THEN << <<>> >> ELSE ExtentsFrom(b, TokenEnd(b))
Extents(i) == IF i > Len(source) THEN <<>> ELSE ExtentsAt(Skip(i))

TokenAt(extent) ==
    LET text == SubSeq(source, extent[1], extent[2])
    IN  CASE text = <<"f", "n">> -> <<"fn">>
          [] text # <<"f", "n">> /\ text[1] \in Letters -> <<"identifier", text>>
          [] text[1] \in Digits -> <<"number", text>>
          [] text = <<":", ":">> -> <<"::">>
          [] text = <<"-", ">">> -> <<"->">>
          [] Len(text) = 1 /\ text[1] \notin Letters \cup Digits -> text

\* The source is split into the longest tokens there are, however far the
\* lexer looked ahead in its tries, and it is refused just when a character
\* belongs to none, a space at the end included (lexer and compile).
LongestTokens ==
    result.done =>
        \E extents \in {Extents(1)} :
            /\ ~result.panic
            /\ result.ok <=> \A x \in Range(extents) : x # <<>>
            /\ result.ok => [i \in DOMAIN result.tokens |-> result.tokens[i][1]]
                              = [i \in DOMAIN extents |-> TokenAt(extents[i])]

\* The span of a token begins at its first character and covers it; a try
\* that looked one character further leaves that one in the span too
\* (WithSpan around the tries of string and or).
SpansCover ==
    result.done /\ result.ok =>
        \E extents \in {Extents(1)} : \A i \in DOMAIN result.tokens :
            /\ result.tokens[i][2][1] = extents[i][1] - 1
            /\ result.tokens[i][2][2] \in {extents[i][2], extents[i][2] + 1}

=============================================================================

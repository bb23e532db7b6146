-------------------------------- MODULE Comb --------------------------------
(***************************************************************************)
(* The comb library: parsers put together from smaller parsers, over a      *)
(* Stream that buffers what was read from its source so that a parser that  *)
(* is only tried can be undone.                                             *)
(*                                                                          *)
(* A parser is a record with a kind k; Parse runs it on a stream as the code *)
(* does.  Outputs are nested sequences of items until a map() changes them.  *)
(***************************************************************************)
EXTENDS Integers, Sequences, SequencesExt

CONSTANTS Rules,        \* name -> parser, for the recursive ones
          Apply(_, _)   \* what the closure of a map() makes of an output

-----------------------------------------------------------------------------
(* The stream. *)

NoSpan == <<0, 0>>

\* Stream::new: the source is the items not yet read, each with its span.
NewStream(items) ==
    [source |-> [i \in DOMAIN items |-> [item |-> items[i], span |-> <<i - 1, i>>]],
     buffer |-> <<>>, trying |-> FALSE, current |-> 0,
     recording |-> FALSE, span |-> NoSpan, panic |-> FALSE]

\* begin_record_span and end_record_span
Recording(s, on) == [s EXCEPT !.recording = on, !.span = IF on THEN @ ELSE NoSpan]

\* An item that is handed out extends the span that is recorded.
Recorded(s, it) ==
    IF ~s.recording THEN s
    ELSE [s EXCEPT !.span = IF @ = NoSpan THEN it.span ELSE <<@[1], it.span[2]>>]

Items(s) == s.buffer \o s.source

\* Mutant: outside a transaction what earlier calls buffered is passed over.
NextItem_PassesBuffer(s) ==
    LET at == IF s.trying THEN s.current ELSE Len(s.buffer)
        all == Items(s)
    IN  IF at >= Len(all) THEN [found |-> <<>>, s |-> s]
        ELSE [found |-> <<all[at + 1]>>,
              s |-> IF s.trying THEN [s EXCEPT !.current = @ + 1, !.buffer = all, !.source = <<>>]
                    ELSE [s EXCEPT !.source = Tail(@)]]

\* Stream::next.  In a transaction nothing leaves the buffer, and the position
\* moves on even when the source has ended.
NextItem(s) ==
    CASE s.trying /\ s.current < Len(s.buffer) ->
            LET it == s.buffer[s.current + 1]
            IN  [found |-> <<it>>, s |-> Recorded([s EXCEPT !.current = @ + 1], it)]
      [] s.trying /\ s.current >= Len(s.buffer) ->
            IF s.source = <<>> THEN [found |-> <<>>, s |-> [s EXCEPT !.current = @ + 1]]
            ELSE LET it == Head(s.source)
                 IN  [found |-> <<it>>,
                      s |-> Recorded([s EXCEPT !.current = @ + 1, !.source = Tail(@),
                                               !.buffer = Append(@, it)], it)]
      [] ~s.trying /\ s.buffer # <<>> ->
            [found |-> <<Head(s.buffer)>>,
             s |-> Recorded([s EXCEPT !.buffer = Tail(@)], Head(s.buffer))]
      [] ~s.trying /\ s.buffer = <<>> ->
            IF s.source = <<>> THEN [found |-> <<>>, s |-> s]
            ELSE [found |-> <<Head(s.source)>>,
                  s |-> Recorded([s EXCEPT !.source = Tail(@)], Head(s.source))]

\* Mutant: the item that is looked at stays in the source.
PeekItem_Twice(s) ==
    LET at == IF s.trying THEN s.current ELSE 0
    IN  CASE at < Len(s.buffer) -> [found |-> <<s.buffer[at + 1]>>, s |-> s]
          [] at >= Len(s.buffer) /\ s.source # <<>> ->
                [found |-> <<Head(s.source)>>, s |-> [s EXCEPT !.buffer = Append(@, Head(s.source))]]
          [] OTHER -> [found |-> <<>>, s |-> s]

\* Stream::peek: the item that is next, read into the buffer.  Outside a
\* transaction it is read with next(), so that a recorded span covers it.
PeekItem(s) ==
    LET at == IF s.trying THEN s.current ELSE 0
        it == Head(s.source)
        read == [s EXCEPT !.source = Tail(@), !.buffer = Append(@, it)]
    IN  CASE at < Len(s.buffer) -> [found |-> <<s.buffer[at + 1]>>, s |-> s]
          [] at >= Len(s.buffer) /\ s.source # <<>> ->
                [found |-> <<it>>, s |-> IF s.trying THEN read ELSE Recorded(read, it)]
          [] OTHER -> [found |-> <<>>, s |-> s]

\* A new transaction, or one inside the current one.
Begin(s) == IF s.trying THEN s ELSE [s EXCEPT !.trying = TRUE, !.current = 0]

\* Mutant: an inner transaction that fails keeps what it read.
Finish_NoRollback(s, ok, before) ==
    CASE before.trying -> s
      [] ~before.trying /\ ok -> [s EXCEPT !.trying = FALSE, !.buffer = SubSeq(@, s.current + 1, Len(@))]
      [] OTHER -> [s EXCEPT !.trying = FALSE]

\* The transaction's end: an inner one moves on or rolls back to where it
\* began; the outermost drops what was processed, or keeps everything.
Finish(s, ok, before) ==
    CASE before.trying /\ ok -> s
      [] before.trying /\ ~ok -> [s EXCEPT !.current = before.current]
      [] ~before.trying /\ ok ->
            IF s.current > Len(s.buffer) THEN [s EXCEPT !.panic = TRUE]
            ELSE [s EXCEPT !.trying = FALSE, !.current = 0,
                           !.buffer = SubSeq(@, s.current + 1, Len(@))]
      [] ~before.trying /\ ~ok -> [s EXCEPT !.trying = FALSE, !.current = 0]

-----------------------------------------------------------------------------
(* The parsers. *)

Good(v, s) == [ok |-> TRUE, val |-> v, s |-> s]
Bad(s) == [ok |-> FALSE, val |-> <<>>, s |-> s]

RECURSIVE Parse(_, _)
RECURSIVE ParseMany(_, _, _)
RECURSIVE ParseUntil(_, _, _, _)
RECURSIVE ParseSeparated(_, _, _)

\* Parser::try_parse
Tried(r, before) == [r EXCEPT !.s = Finish(r.s, r.ok, before)]
TryParse(p, s) == Tried(Parse(p, Begin(s)), s)

\* What becomes of a result: the parse goes on from a success.
Ok(r, K(_)) == IF r.ok THEN K(r) ELSE Bad(r.s)

\* Hint::is_hinted: an item, several, a range or a predicate are all sets.
IsHinted(item, hint) == item \in hint

\* The next item, if it is accepted.
Accept(n, hint) ==
    IF n.found # <<>> /\ IsHinted(n.found[1].item, hint) THEN Good(n.found[1].item, n.s) ELSE Bad(n.s)

\* Single and SingleBy: one item the parser accepts; OneOf: one of several.
ParseOne(set, s) == Accept(NextItem(s), set)
ParseOneOf(set, s) == Accept(NextItem(s), set)

\* Any
Taken(n) == IF n.found # <<>> THEN Good(n.found[1].item, n.s) ELSE Bad(n.s)
ParseAny(s) == Taken(NextItem(s))

\* Sequence: the items one after the other; the first that differs is read.
ParseSequence(items, s) ==
    FoldLeft(LAMBDA r, x : Ok(r, LAMBDA before : [ParseOne({x}, before.s) EXCEPT !.val = <<>>]),
             Good(<<>>, s), items)

\* End: there is no next item.
Ended(n) == IF n.found = <<>> THEN Good(<<>>, n.s) ELSE Bad(n.s)
ParseEnd(s) == Ended(NextItem(s))

\* Maybe
AsOption(r) == Good(IF r.ok THEN <<r.val>> ELSE <<>>, r.s)
ParseMaybe(p, s) == AsOption(TryParse(p, s))

\* Peek tries its parser, and keeps what it read when it succeeds.
ParsePeek(p, s) == TryParse(p, s)

\* Then keeps both outputs, ThenTo the second and ThenAssert the first.
BothParsed(p, q, s, Keep(_, _)) ==
    Ok(Parse(p, s), LAMBDA l : Ok(Parse(q, l.s), LAMBDA r : Good(Keep(l.val, r.val), r.s)))
ParseThen(p, q, s) == BothParsed(p, q, s, LAMBDA l, r : <<l, r>>)
ParseThenTo(p, q, s) == BothParsed(p, q, s, LAMBDA l, r : r)
ParseThenAssert(p, q, s) == BothParsed(p, q, s, LAMBDA l, r : l)

\* Map, and To, whose closure ignores the output
ParseMap(p, f, s) == Ok(Parse(p, s), LAMBDA r : Good(Apply(f, r.val), r.s))

\* Delimited
ParseDelimited(start, p, end, s) ==
    Parse([k |-> "thenassert", p |-> [k |-> "thento", p |-> start, q |-> p], q |-> end], s)

\* Or
OrElse(l, q) == IF l.ok THEN l ELSE Parse(q, l.s)
ParseOr(p, q, s) == OrElse(TryParse(p, s), q)

\* Choice: the first that succeeds; when none does, an item is read.
ParseChoice(ps, s) ==
    IF ps = <<>> THEN Bad(NextItem(s).s)
    ELSE OrElse(TryParse(Head(ps), s), [k |-> "choice", ps |-> Tail(ps)])

\* HintedChoice: the next item decides which parser runs.
Decided(n, hints, ps) ==
    LET i == SelectInSeq(hints, LAMBDA hint : IsHinted(n.found[1].item, hint))
    IN  IF n.found = <<>> THEN Bad(n.s) ELSE IF i = 0 THEN Bad(NextItem(n.s).s) ELSE Parse(ps[i], n.s)
ParseHinted(hints, ps, s) == Decided(PeekItem(s), hints, ps)

\* Many0, which is also what many1() makes: until the parser fails.
Many(r, p, values) ==
    IF r.ok THEN ParseMany(p, r.s, Append(values, r.val)) ELSE Good(values, r.s)
ParseMany(p, s, values) == Many(TryParse(p, s), p, values)

\* Consume and ConsumeMany give no output.
ParseConsume(p, s) == Ok(Parse(p, s), LAMBDA r : Good(<<>>, r.s))
ParseConsumeMany(p, s) == [ParseMany(p, s, <<>>) EXCEPT !.val = <<>>]

\* PaddedBy: the padding is consumed in front of the parser.
ParsePadded(padding, p, s) == Parse(p, ParseConsumeMany(padding, s).s)

\* text::string: a head, and as many more as there are.
ParseString(head, mid, s) == Ok(Parse(head, s), LAMBDA first : ParseMany(mid, first.s, <<first.val>>))

\* Until: parse, and not try, up to an item the hint covers.
Until(n, hint, p, values) ==
    IF n.found = <<>> THEN Bad(n.s)
    ELSE IF IsHinted(n.found[1].item, hint) THEN Good(values, n.s)
    ELSE Ok(Parse(p, n.s), LAMBDA r : ParseUntil(hint, p, r.s, Append(values, r.val)))
ParseUntil(hint, p, s, values) == Until(PeekItem(s), hint, p, values)

\* What follows a separator: when one may be trailing it is only tried.
AfterSeparator(p, s) == IF p.trailing THEN TryParse(p.p, s) ELSE Parse(p.p, s)

\* SeparatedBy, after the first value: a separator and a value at a time.
Separated(r, p, values) ==
    IF r.ok THEN ParseSeparated(p, r.s, Append(values, r.val))
    ELSE IF p.trailing THEN Good(values, r.s) ELSE Bad(r.s)
AtSeparator(sep, p, values) ==
    IF sep.ok THEN Separated(AfterSeparator(p, sep.s), p, values) ELSE Good(values, sep.s)
ParseSeparated(p, s, values) == AtSeparator(TryParse(p.q, s), p, values)

\* WithSpan
Spanned(r) ==
    IF r.ok THEN Good(<<r.val, r.s.span>>, Recording(r.s, FALSE)) ELSE Bad(Recording(r.s, FALSE))
ParseSpan(p, s) == Spanned(Parse(p, Recording(s, TRUE)))

\* Recursive: the parser that was set for the rule
ParseRule(name, s) == Parse(Rules[name], s)

\* Parser::parse
Parse(p, s) ==
    CASE s.panic -> Bad(s)
      [] ~s.panic /\ p.k = "one" -> ParseOne(p.set, s)
      [] ~s.panic /\ p.k = "oneof" -> ParseOneOf(p.set, s)
      [] ~s.panic /\ p.k = "any" -> ParseAny(s)
      [] ~s.panic /\ p.k = "sequence" -> ParseSequence(p.items, s)
      [] ~s.panic /\ p.k = "end" -> ParseEnd(s)
      [] ~s.panic /\ p.k = "maybe" -> ParseMaybe(p.p, s)
      [] ~s.panic /\ p.k = "peek" -> ParsePeek(p.p, s)
      [] ~s.panic /\ p.k = "then" -> ParseThen(p.p, p.q, s)
      [] ~s.panic /\ p.k = "thento" -> ParseThenTo(p.p, p.q, s)
      [] ~s.panic /\ p.k = "thenassert" -> ParseThenAssert(p.p, p.q, s)
      [] ~s.panic /\ p.k = "map" -> ParseMap(p.p, p.f, s)
      [] ~s.panic /\ p.k = "delimited" -> ParseDelimited(p.start, p.p, p.end, s)
      [] ~s.panic /\ p.k = "or" -> ParseOr(p.p, p.q, s)
      [] ~s.panic /\ p.k = "choice" -> ParseChoice(p.ps, s)
      [] ~s.panic /\ p.k = "hinted" -> ParseHinted(p.hints, p.ps, s)
      [] ~s.panic /\ p.k = "many" -> ParseMany(p.p, s, <<>>)
      [] ~s.panic /\ p.k = "consume" -> ParseConsume(p.p, s)
      [] ~s.panic /\ p.k = "consumemany" -> ParseConsumeMany(p.p, s)
      [] ~s.panic /\ p.k = "padded" -> ParsePadded(p.q, p.p, s)
      [] ~s.panic /\ p.k = "string" -> ParseString(p.p, p.q, s)
      [] ~s.panic /\ p.k = "until" -> ParseUntil(p.set, p.p, s, <<>>)
      [] ~s.panic /\ p.k = "separated" ->
            Ok(Parse(p.p, s), LAMBDA first : ParseSeparated(p, first.s, <<first.val>>))
      [] ~s.panic /\ p.k = "span" -> ParseSpan(p.p, s)
      [] ~s.panic /\ p.k = "rule" -> ParseRule(p.name, s)

=============================================================================

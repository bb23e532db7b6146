------------------------------ MODULE CombCalls ------------------------------
(***************************************************************************)
(* A client of the comb library: it runs parsers, one call after the other,  *)
(* on one stream.  Matches is what a parser recognises, said without a       *)
(* stream; the calls must agree with it.                                     *)
(***************************************************************************)
EXTENDS Comb

CONSTANTS Parsers,      \* the parsers the client has
          Inputs,       \* what the source can hold
          MaxCalls      \* bound: calls on one stream

VARIABLES input, stream, last, calls
vars == <<input, stream, last, calls>>

-----------------------------------------------------------------------------
(* What a parser recognises at the front of a sequence of items. *)

Found(v, rest) == [ok |-> TRUE, val |-> v, rest |-> rest]
NotFound == [ok |-> FALSE, val |-> <<>>, rest |-> <<>>]

RECURSIVE Matches(_, _)
RECURSIVE Repeated(_, _, _)
RECURSIVE FirstOf(_, _)

\* K of what was found
Matched(m, K(_)) == IF m.ok THEN K(m) ELSE NotFound

\* the first that was found
Either(m, other) == IF m.ok THEN m ELSE other

\* as often as it matches
Repeated(p, in, values) ==
    Either(Matched(Matches(p, in), LAMBDA m : Repeated(p, m.rest, Append(values, m.val))), Found(values, in))

\* one after the other, and Keep of the two outputs
Both(p, q, in, Keep(_, _)) ==
    Matched(Matches(p, in),
            LAMBDA l : Matched(Matches(q, l.rest), LAMBDA r : Found(Keep(l.val, r.val), r.rest)))

\* the first of the alternatives that matches
FirstOf(ps, in) == IF ps = <<>> THEN NotFound ELSE Either(Matches(Head(ps), in), FirstOf(Tail(ps), in))

Starts(set, in) == in # <<>> /\ in[1] \in set

\* After the first value: separators and values, and one more separator if it may trail.
Trailing(p, more, extra) ==
    IF ~extra.ok THEN more ELSE IF p.trailing THEN Found(more.val, extra.rest) ELSE NotFound
Separate(p, more) == Trailing(p, more, Matches(p.q, more.rest))

Matches(p, in) ==
    CASE p.k \in {"one", "oneof"} -> IF Starts(p.set, in) THEN Found(in[1], Tail(in)) ELSE NotFound
      [] p.k = "any" -> IF in # <<>> THEN Found(in[1], Tail(in)) ELSE NotFound
      [] p.k = "sequence" ->
            IF IsPrefix(p.items, in) THEN Found(<<>>, SubSeq(in, Len(p.items) + 1, Len(in))) ELSE NotFound
      [] p.k = "end" -> IF in = <<>> THEN Found(<<>>, <<>>) ELSE NotFound
      [] p.k = "maybe" -> Either(Matched(Matches(p.p, in), LAMBDA m : Found(<<m.val>>, m.rest)), Found(<<>>, in))
      [] p.k = "consume" -> Matched(Matches(p.p, in), LAMBDA m : Found(<<>>, m.rest))
      [] p.k = "peek" -> Matches(p.p, in)
      [] p.k = "then" -> Both(p.p, p.q, in, LAMBDA l, r : <<l, r>>)
      [] p.k = "thento" -> Both(p.p, p.q, in, LAMBDA l, r : r)
      [] p.k = "thenassert" -> Both(p.p, p.q, in, LAMBDA l, r : l)
      [] p.k = "map" -> Matched(Matches(p.p, in), LAMBDA m : Found(Apply(p.f, m.val), m.rest))
      [] p.k = "delimited" ->
            Matches([k |-> "thenassert", p |-> [k |-> "thento", p |-> p.start, q |-> p.p], q |-> p.end], in)
      [] p.k = "or" -> FirstOf(<<p.p, p.q>>, in)
      [] p.k = "choice" -> FirstOf(p.ps, in)
      [] p.k = "hinted" ->
            LET i == SelectInSeq(p.hints, LAMBDA hint : Starts(hint, in))
            IN  IF i = 0 THEN NotFound ELSE Matches(p.ps[i], in)
      [] p.k = "many" -> Repeated(p.p, in, <<>>)
      [] p.k = "consumemany" -> [Repeated(p.p, in, <<>>) EXCEPT !.val = <<>>]
      [] p.k = "padded" -> Matches(p.p, Repeated(p.q, in, <<>>).rest)
      [] p.k = "string" -> Matched(Matches(p.p, in), LAMBDA m : Repeated(p.q, m.rest, <<m.val>>))
      [] p.k = "until" ->
            IF Starts(p.set, in) THEN Found(<<>>, in)
            ELSE IF in = <<>> THEN NotFound
            ELSE Matched(Matches(p.p, in),
                         LAMBDA m : Matched(Matches(p, m.rest), LAMBDA r : Found(<<m.val>> \o r.val, r.rest)))
      [] p.k = "separated" ->
            Matched(Matches(p.p, in), LAMBDA first :
                Separate(p, Repeated([k |-> "thento", p |-> p.q, q |-> p.p], first.rest, <<first.val>>)))
      [] p.k = "rule" -> Matches(Rules[p.name], in)

-----------------------------------------------------------------------------
(* A client's calls on one stream. *)

Plain(s) == [i \in DOMAIN Items(s) |-> Items(s)[i].item]

NoCall == [called |-> FALSE]

Init ==
    /\ input \in Inputs
    /\ stream = NewStream(input)
    /\ last = NoCall
    /\ calls = 0

\* parser.parse(&mut stream)
CallParse(p) ==
    /\ calls < MaxCalls
    /\ ~stream.panic
    /\ \E r \in {Parse(p, stream)} :
        /\ stream' = r.s
        /\ last' = [called |-> TRUE, parser |-> p, before |-> Plain(stream), ok |-> r.ok, val |-> r.val]
    /\ calls' = calls + 1
    /\ UNCHANGED input

\* stream.peek()
CallPeek ==
    /\ calls < MaxCalls
    /\ ~stream.panic
    /\ stream' = PeekItem(stream).s /\ stream' # stream
    /\ last' = NoCall
    /\ calls' = calls + 1
    /\ UNCHANGED input

Next == CallPeek \/ \E p \in Parsers : CallParse(p)

Spec == Init /\ [][Next]_vars

-----------------------------------------------------------------------------

\* A parser run on the stream, with its transactions inside transactions and
\* its items buffered by earlier calls, accepts what the parser matches in
\* what is left, returns that output and leaves the rest (Stream::try_parse).
ParsesAsMatched ==
    last.called /\ ~stream.panic =>
        \E m \in {Matches(last.parser, last.before)} :
            /\ last.ok = m.ok
            /\ last.ok => last.val = m.val /\ Plain(stream) = m.rest

\* Between calls no transaction is left open, and whatever was tried, looked
\* at or given up, the stream still holds an end of the input, in order and
\* once (Stream::next, peek and try_parse).
HoldsTheRest ==
    ~stream.panic => ~stream.trying /\ IsSuffix(Plain(stream), input)

\* The commit of a transaction drains the elements that were processed and
\* no more than there are (Stream::try_parse, buffer.drain).
CommitsWhatWasRead == ~stream.panic

=============================================================================

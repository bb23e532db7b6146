-------------------------------- MODULE Lists --------------------------------
(***************************************************************************)
(* What the linked lists of shared/collections promise: a list is a        *)
(* sequence, a cursor a position in it (the position after the last        *)
(* element included), and a call that cannot allocate changes nothing,     *)
(* except that extend_from() keeps what it has appended so far.            *)
(***************************************************************************)
EXTENDS Integers, Sequences, SequencesExt

CONSTANTS Values, None, MaxExtend

VARIABLES
    seq,    \* the list
    other,  \* another list, the argument of append() or the result of split()
    cur,    \* position of the cursor, or None
    out     \* what the last call returned: values, or Ok or an error

vars == <<seq, other, cur, out>>

Ok == <<"ok">>

Init == seq = <<>> /\ other = <<>> /\ cur = None /\ out = <<>>

Batches == UNION {[1 .. n -> Values] : n \in 0 .. MaxExtend}

\* The list becomes s, the call returns r.  A cursor is not open.
Becomes(s, r) == cur = None /\ seq' = s /\ out' = r /\ UNCHANGED <<other, cur>>

Fails == out' = <<"AllocError">> /\ UNCHANGED <<seq, other, cur>>

PushFront(v) == Becomes(<<v>> \o seq, Ok)
PushBack(v) == Becomes(Append(seq, v), Ok)
PopFront == Becomes(IF seq = <<>> THEN seq ELSE Tail(seq), IF seq = <<>> THEN <<>> ELSE <<Head(seq)>>)
PopBack == Becomes(IF seq = <<>> THEN seq ELSE Front(seq), IF seq = <<>> THEN <<>> ELSE <<Last(seq)>>)
Extend(vs) ==
    \/ Becomes(seq \o vs, Ok)
    \/ \E n \in 0 .. Len(vs) - 1 : Becomes(seq \o SubSeq(vs, 1, n), <<"AllocError">>)
Insert(at, v) ==
    IF at > Len(seq) THEN Becomes(seq, <<"invalid">>) ELSE Becomes(InsertAt(seq, at + 1, v), Ok)
RemoveItem(at) ==
    IF at >= Len(seq) THEN Becomes(seq, <<>>) ELSE Becomes(RemoveAt(seq, at + 1), <<seq[at + 1]>>)
Drain(from, to) ==
    IF from > to \/ to > Len(seq) \/ from >= Len(seq) THEN Becomes(seq, <<"invalid">>)
    ELSE Becomes(SubSeq(seq, 1, from) \o SubSeq(seq, to + 1, Len(seq)), SubSeq(seq, from + 1, to))

AppendOther ==
    /\ cur = None
    /\ seq' = seq \o other
    /\ other' = <<>>
    /\ out' = Ok
    /\ UNCHANGED cur
CloneOther == cur = None /\ other' = seq /\ out' = Ok /\ UNCHANGED <<seq, cur>>
DropOther == cur = None /\ other' = <<>> /\ out' = Ok /\ UNCHANGED <<seq, cur>>

-----------------------------------------------------------------------------
(* The cursor *)

Moves(c) == cur' = c /\ out' = Ok /\ UNCHANGED <<seq, other>>
Open == cur = None /\ \E c \in {0, Len(seq) - 1} : c >= 0 /\ Moves(c)
Close == cur # None /\ Moves(None)
Advance == cur # None /\ Moves(IF cur < Len(seq) THEN cur + 1 ELSE cur)
Retreat == cur # None /\ Moves(IF cur > 0 THEN cur - 1 ELSE cur)
CursorInsert(v) ==
    /\ cur # None
    /\ seq' = InsertAt(seq, cur + 1, v)
    /\ out' = Ok
    /\ UNCHANGED <<other, cur>>
CursorRemove ==
    /\ cur # None
    /\ seq' = IF cur < Len(seq) THEN RemoveAt(seq, cur + 1) ELSE seq
    /\ out' = IF cur < Len(seq) THEN <<seq[cur + 1]>> ELSE <<>>
    /\ UNCHANGED <<other, cur>>
\* The cursor is not used after split().
Split ==
    /\ cur # None
    /\ seq' = SubSeq(seq, 1, cur)
    /\ other' = SubSeq(seq, cur + 1, Len(seq))
    /\ cur' = None
    /\ out' = Ok
InsertList ==
    /\ cur # None
    /\ seq' = SubSeq(seq, 1, cur) \o other \o SubSeq(seq, cur + 1, Len(seq))
    /\ other' = <<>>
    /\ out' = Ok
    /\ UNCHANGED cur

Next ==
    \/ \E v \in Values : PushFront(v) \/ PushBack(v) \/ CursorInsert(v)
    \/ PopFront \/ PopBack \/ AppendOther \/ CloneOther \/ DropOther \/ Fails
    \/ \E vs \in Batches : Extend(vs)
    \/ \E at \in 0 .. Len(seq) + 1, v \in Values : Insert(at, v) \/ RemoveItem(at)
    \/ \E from, to \in 0 .. Len(seq) + 1 : Drain(from, to)
    \/ Open \/ Close \/ Advance \/ Retreat \/ CursorRemove \/ Split \/ InsertList

Spec == Init /\ [][Next]_vars
===============================================================================

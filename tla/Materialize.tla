---------------------------- MODULE Materialize ----------------------------
(***************************************************************************)
(* The materialize library: messages between tasks are Rust values laid     *)
(* out in one buffer by a Serializer and read back, at the positions the    *)
(* buffer gives, by a Deserializer.  Capabilities travel beside the buffer  *)
(* and are named in it by their index.                                      *)
(*                                                                          *)
(* A Rust type is a record with a kind k; its Primitive is what is laid out *)
(* for it.  Byte number b of an integer of n bytes is the cell              *)
(* <<n, b, x>>, so an integer is read back only from exactly the bytes it   *)
(* was written to.  A buffer's base is aligned to MINIMUM_ALIGNMENT, so a   *)
(* position is aligned when its address is.                                 *)
(***************************************************************************)
EXTENDS Integers, Sequences, SequencesExt

CONSTANTS Cases,     \* the values a task sends: records [type, value]
          Width      \* usize arithmetic wraps modulo Width

VARIABLES sending,   \* the case that is sent
          phase,     \* "value", "message" or "received"
          message,   \* the serializer's buffer, capabilities and errors
          received   \* what the receiving task deserialized

vars == <<sending, phase, message, received>>

-----------------------------------------------------------------------------
(* Types. *)

Unit == [k |-> "unit"]
IntOf(n) == [k |-> "int", n |-> n]

\* The types an enum's variants carry.
Variants(T) ==
    CASE T.k = "option" -> <<T.of, Unit>>
      [] T.k = "result" -> <<T.ok, T.err>>
      [] T.k = "enum" -> T.variants

\* The number that stands for variant i: for a derived enum the explicit
\* discriminant, or one counted from the first explicit one when that comes
\* earlier (indices in the code start at 0).
Discriminant(T, i) ==
    LET explicit == { j \in DOMAIN T.variants : T.explicit[j] # -1 }
        first == CHOOSE j \in explicit : \A l \in explicit : j <= l
    IN  CASE T.k # "enum" -> i - 1
          [] T.k = "enum" /\ i \in explicit -> T.explicit[i]
          [] T.k = "enum" /\ i \notin explicit /\ explicit # {} /\ i > first ->
                T.explicit[first] + (first - 1) + (i - 1)
          [] OTHER -> i - 1

RECURSIVE Primitive(_)

\* impl Serializable: the primitive a Rust type is laid out as.
Primitive(T) ==
    CASE T.k = "vec" -> [k |-> "list", of |-> Primitive(T.of)]
      [] T.k = "array" -> [k |-> "array", of |-> Primitive(T.of), len |-> T.len]
      [] T.k = "tuple" ->
            [k |-> "struct", fields |-> [i \in DOMAIN T.fields |-> Primitive(T.fields[i])]]
      [] T.k \in {"option", "result"} -> [k |-> "oneof", disc |-> IntOf(4)]
      [] T.k = "enum" -> [k |-> "oneof", disc |-> IntOf(T.repr)]
      [] OTHER -> T

RECURSIVE ID(_)

\* The identifier of a primitive; the hash that combines the parts is taken
\* to be injective.  A struct's covers only its first field.
ID(P) ==
    CASE P.k = "int" -> <<"int", P.n>>
      [] P.k = "struct" -> <<"struct", IF P.fields = <<>> THEN <<"unit">> ELSE ID(P.fields[1])>>
      [] P.k = "array" -> <<"array", P.len, ID(P.of)>>
      [] P.k = "list" -> <<"list", ID(P.of)>>
      [] P.k = "oneof" -> <<"enum", ID(P.disc)>>
      [] OTHER -> <<P.k>>

-----------------------------------------------------------------------------
(* Layouts. *)

Layout(size, align) == [size |-> size, align |-> align]
AlignUp(n, align) == ((n + align - 1) \div align) * align
PadToAlign(l) == [l EXCEPT !.size = AlignUp(@, l.align)]
Extend(l, m) == Layout(AlignUp(l.size, m.align) + m.size,
                       IF l.align < m.align THEN m.align ELSE l.align)
Repeat(l, n) == Layout(AlignUp(l.size, l.align) * n, l.align)

\* The place of the primitive itself; what it refers to is laid out apart.
LayoutOf(P) ==
    CASE P.k = "unit" -> Layout(0, 1)
      [] P.k = "int" -> Layout(P.n, P.n)
      [] P.k = "cap" -> Layout(8, 8)
      [] P.k = "oneof" -> PadToAlign(Extend(Layout(24, 8), Layout(P.disc.n, P.disc.n)))
      [] OTHER -> Layout(16, 8)

\* Fields: the first field is the Head, those after it are the Next, and there
\* is nothing after the last.
ByField(op(_, _), fields, nothing) == FoldRight(op, fields, nothing)

\* Mutant: the fields are laid out without padding between them.
FieldsLayout_Packed(fields) ==
    ByField(LAMBDA P, next : Layout(LayoutOf(P).size + next.size, 8), fields, Layout(0, 1))

\* Fields::layout: the first field followed by the padded layout of the rest.
FieldsLayout(fields) ==
    ByField(LAMBDA P, next : PadToAlign(Extend(LayoutOf(P), next)), fields, Layout(0, 1))

-----------------------------------------------------------------------------
(* The serializer: s has the buffer, the capabilities, an error, and whether *)
(* a write fell on a byte already written or outside the buffer.             *)

Zero == <<0, 0, <<"zero">> >>
Serializer == [buf |-> <<>>, caps |-> <<>>, err |-> "", clash |-> FALSE]
Failed(s, e) == [s EXCEPT !.err = IF @ = "" THEN e ELSE @]

Put(s, pos, n, x) ==
    [s EXCEPT !.buf = [i \in DOMAIN @ |->
                          IF i > pos /\ i <= pos + n THEN <<n, i - 1 - pos, x>> ELSE @[i]],
              !.clash = \/ @
                        \/ pos + n > Len(s.buf)
                        \/ \E i \in (pos + 1)..(pos + n) :
                                i \in DOMAIN s.buf /\ s.buf[i] # Zero]

\* Aligns the buffer, grows it by the layout, and hands out the new part.
ReserveSpace(s, layout) ==
    LET start == AlignUp(Len(s.buf), layout.align)
    IN  [s |-> [s EXCEPT !.buf = @ \o [i \in 1..(start - Len(s.buf) + layout.size) |-> Zero]],
         token |-> [pos |-> start, len |-> layout.size]]

\* ReservationToken::split, after align: the size is only compared when there
\* is padding, and both subtractions wrap.
Split(t, layout) ==
    LET pad == AlignUp(t.pos, layout.align) - t.pos
        start == t.pos + pad
    IN  [ok |-> pad = 0 \/ (t.len - pad) % Width >= layout.size,
         first |-> [pos |-> start, len |-> layout.size],
         rest |-> [pos |-> start + layout.size, len |-> (t.len - pad - layout.size) % Width]]

\* Serializer::integer: the next integer of the token is x.
Integer(s, t, n, x) ==
    LET parts == Split(t, Layout(n, n))
    IN  [s |-> IF parts.ok THEN Put(s, parts.first.pos, n, x) ELSE Failed(s, "NotEnoughSpace"),
         token |-> parts.rest]

\* Consecutive integers of 8 bytes.
Integers8(s, t, xs) ==
    FoldLeft(LAMBDA a, x : Integer(a.s, a.token, 8, x), [s |-> s, token |-> t], xs)

RECURSIVE SerializeInto(_, _, _, _)

\* The parts are written one after the other into the places split off t.
SerializeParts(s, t, types, values) ==
    FoldLeft(LAMBDA a, i :
                LET parts == Split(a.token, LayoutOf(Primitive(types[i])))
                IN  [s |-> IF parts.ok THEN SerializeInto(a.s, parts.first, types[i], values[i])
                                       ELSE Failed(a.s, "NotEnoughSpace"),
                     token |-> parts.rest],
             [s |-> s, token |-> t], [i \in DOMAIN types |-> i]).s

\* StructSerializer: the fields get a place of their own, which the struct's
\* entry refers to.
SerializeStruct(s, t, T, v) ==
    LET P == Primitive(T)
        fields == ReserveSpace(s, FieldsLayout(P.fields))
        entry == Integers8(fields.s, t, << <<"id", ID(P)>>, <<"n", fields.token.pos>> >>)
    IN  SerializeParts(entry.s, fields.token, T.fields, v)

\* ListSerializer and ArraySerializer: position and length, then the items.
SerializeItems(s, t, of, items) ==
    LET data == ReserveSpace(s, PadToAlign(Repeat(LayoutOf(Primitive(of)), Len(items))))
        entry == Integers8(data.s, t, << <<"n", data.token.pos>>, <<"n", Len(items)>> >>)
    IN  SerializeParts(entry.s, data.token, [i \in DOMAIN items |-> of], items)

\* Mutant: the associated data is placed where the next reservation goes.
SerializeVariant_NoReserve(s, t, T, i, v) ==
    LET of == Primitive(Variants(T)[i])
        data == ReserveSpace(s, LayoutOf(of))
        entry == Integers8(s, t, << <<"id", ID(Primitive(T))>>, <<"id", ID(of)>>,
                                    <<"n", data.token.pos>> >>)
        disc == Integer(entry.s, entry.token, Primitive(T).disc.n, <<"n", Discriminant(T, i)>>)
    IN  SerializeInto(disc.s, data.token, Variants(T)[i], v)

\* EnumSerializer::serialize_variant: both identifiers, the position of the
\* associated data and the discriminant, then the associated data.
SerializeVariant(s, t, T, i, v) ==
    LET of == Primitive(Variants(T)[i])
        data == ReserveSpace(s, LayoutOf(of))
        entry == Integers8(data.s, t, << <<"id", ID(Primitive(T))>>, <<"id", ID(of)>>,
                                         <<"n", data.token.pos>> >>)
        disc == Integer(entry.s, entry.token, Primitive(T).disc.n, <<"n", Discriminant(T, i)>>)
    IN  SerializeInto(disc.s, data.token, Variants(T)[i], v)

\* Mutant: the capability is put before the others.
SerializeCapability_First(s, t, cap) ==
    Integer([s EXCEPT !.caps = <<cap>> \o @], t, 8, <<"n", Len(s.caps)>>).s

\* CapabilitySerializer: the index the capability gets, which is pushed.
SerializeCapability(s, t, cap) ==
    Integer([s EXCEPT !.caps = Append(@, cap)], t, 8, <<"n", Len(s.caps)>>).s

\* StringSerializer: position and length, then the bytes.
SerializeStr(s, t, str) ==
    LET data == ReserveSpace(s, Layout(Len(str), 1))
        entry == Integers8(data.s, t, << <<"n", data.token.pos>>, <<"n", Len(str)>> >>)
    IN  FoldLeft(LAMBDA a, i : Put(a, data.token.pos + i - 1, 1, <<"n", str[i]>>),
                 entry.s, [i \in DOMAIN str |-> i])

\* The integers' serializer is the place itself.
SerializeInt(s, t, n, v) == Integer(s, t, n, <<"n", v>>).s

\* impl Serialize: value v of type T is written into the place t.
SerializeInto(s, t, T, v) ==
    CASE T.k = "unit" -> s
      [] T.k = "int" -> SerializeInt(s, t, T.n, v)
      [] T.k = "str" -> SerializeStr(s, t, v)
      [] T.k = "cap" -> SerializeCapability(s, t, v)
      [] T.k = "tuple" -> SerializeStruct(s, t, T, v)
      [] T.k \in {"vec", "array"} -> SerializeItems(s, t, T.of, v)
      [] T.k \in {"option", "result", "enum"} -> SerializeVariant(s, t, T, v[1], v[2])

\* Serializer::serialize
SerializeValue(T, v) ==
    LET place == ReserveSpace(Serializer, LayoutOf(Primitive(T)))
    IN  SerializeInto(place.s, place.token, T, v)

-----------------------------------------------------------------------------
(* The deserializer.  A result has an error or the value; a number that does *)
(* not come from the bytes of one integer is NotOne.                         *)

Ok(v) == [err |-> "", val |-> v]
Err(e) == [err |-> e, val |-> <<>>]
NotOne == Width

IntegerAt(buf, pos, n) ==
    LET cells == SubSeq(buf, pos + 1, pos + n)
        whole == \A b \in 1..n : cells[b][1] = n /\ cells[b][2] = b - 1 /\ cells[b][3] = cells[1][3]
    IN  IF whole THEN cells[1][3]
        ELSE IF \A b \in 1..n : cells[b] = Zero THEN <<"n", 0>> ELSE <<"n", NotOne>>
Number(x) == IF x[1] = "n" THEN x[2] ELSE NotOne

\* Mutant: the padding is not skipped.
Read_Unaligned(buf, pos, n, count) ==
    IF pos + n * count > Len(buf) THEN Err("BufferTooSmall")
    ELSE [err |-> "", val |-> [i \in 1..count |-> IntegerAt(buf, pos + n * (i - 1), n)],
          pos |-> pos + n * count]

\* AlignedReadBuffer::read: count integers of n bytes after the padding.
Read(buf, pos, n, count) ==
    LET start == AlignUp(pos, n)
    IN  IF pos > Len(buf) \/ start + n * count > Len(buf) THEN Err("BufferTooSmall")
        ELSE [err |-> "", val |-> [i \in 1..count |-> IntegerAt(buf, start + n * (i - 1), n)],
              pos |-> start + n * count]

Holds(buf, pos, size) == pos + size <= Len(buf)

\* Struct::extract: where the fields are.
ExtractStruct(P, buf, pos) ==
    LET r == Read(buf, pos, 8, 2)
        at == Number(r.val[2])
    IN  CASE r.err # "" -> Err(r.err)
          [] r.err = "" /\ r.val[1] # <<"id", ID(P)>> -> Err("MismatchedId")
          [] r.err = "" /\ r.val[1] = <<"id", ID(P)>> ->
                IF Holds(buf, at, FieldsLayout(P.fields).size) THEN Ok(at)
                ELSE Err("MalformedOffset")

\* str::extract
ExtractStr(buf, pos) ==
    LET r == Read(buf, pos, 8, 2)
        at == Number(r.val[1])
        len == Number(r.val[2])
    IN  CASE r.err # "" -> Err(r.err)
          [] r.err = "" /\ ~Holds(buf, at, len) -> Err("MalformedOffset")
          [] r.err = "" /\ Holds(buf, at, len) ->
                IF at = 0 THEN Ok(<<>>)
                ELSE Ok([i \in 1..len |-> Number(IntegerAt(buf, at + i - 1, 1))])

\* List::extract and Array::extract: where the items are and how many.
ExtractItems(P, buf, pos) ==
    LET r == Read(buf, pos, 8, 2)
        at == Number(r.val[1])
        len == Number(r.val[2])
    IN  CASE r.err # "" -> Err(r.err)
          [] r.err = "" /\ len # NotOne
                        /\ Holds(buf, at, PadToAlign(Repeat(LayoutOf(P.of), len)).size) ->
                Ok(<<at, len>>)
          [] OTHER -> Err("MalformedOffset")

\* Enum::extract: the associated data's identifier and position, and where
\* the discriminant is.
ExtractEnum(P, buf, pos) ==
    LET r == Read(buf, pos, 8, 3)
    IN  CASE r.err # "" -> Err(r.err)
          [] r.err = "" /\ r.val[1] # <<"id", ID(P)>> -> Err("MismatchedId")
          [] r.err = "" /\ r.val[1] = <<"id", ID(P)>> ->
                Ok([id |-> r.val[2], at |-> Number(r.val[3]), disc |-> r.pos])

\* Primitive::extract at a position.
Extract(P, buf, pos) ==
    CASE P.k = "unit" -> Ok(<<>>)
      [] P.k = "struct" -> ExtractStruct(P, buf, pos)
      [] P.k = "str" -> ExtractStr(buf, pos)
      [] P.k \in {"list", "array"} -> ExtractItems(P, buf, pos)
      [] P.k = "oneof" -> ExtractEnum(P, buf, pos)
      [] P.k \in {"int", "cap"} ->
            LET r == Read(buf, pos, LayoutOf(P).size, 1)
            IN  IF r.err = "" THEN Ok(Number(r.val[1])) ELSE Err(r.err)

RECURSIVE DeserializeFrom(_, _, _, _)

\* Extract and deserialize the part of type T at a position.
Part(T, buf, pos, caps) ==
    LET p == Extract(Primitive(T), buf, pos)
    IN  IF p.err = "" THEN DeserializeFrom(T, p.val, buf, caps) ELSE p

\* The first error of several parts, or all their values.
Collect(parts) ==
    IF \A i \in DOMAIN parts : parts[i].err = ""
    THEN Ok([i \in DOMAIN parts |-> parts[i].val])
    ELSE LET bad == { i \in DOMAIN parts : parts[i].err # "" }
         IN  Err(parts[CHOOSE i \in bad : \A j \in bad : i <= j].err)

\* Where field i is read: Struct::next adds the sizes of the fields before it.
FieldPosition(at, types, i) ==
    FoldLeft(LAMBDA pos, T : pos + LayoutOf(Primitive(T)).size, at, SubSeq(types, 1, i - 1))

\* Tuples and derived structs: advance from field to field.
DeserializeTuple(T, at, buf, caps) ==
    Collect([i \in DOMAIN T.fields |->
                Part(T.fields[i], buf, FieldPosition(at, T.fields, i), caps)])

\* Where pop_front and nth find item i.
ItemPosition(at, of, i) == at + (i - 1) * LayoutOf(Primitive(of)).size

\* Vec: pop_front until the length is used up.
DeserializeVec(T, items, buf, caps) ==
    Collect([i \in 1..items[2] |->
                Part(T.of, buf, ItemPosition(items[1], T.of, i), caps)])

\* [D; LENGTH]: the type's LENGTH items; what an item holds must deserialize.
DeserializeArray(T, items, buf, caps) ==
    Collect([i \in 1..T.len |->
        LET p == Extract(Primitive(T.of), buf, ItemPosition(items[1], T.of, i))
            v == DeserializeFrom(T.of, p.val, buf, caps)
        IN  IF p.err # "" THEN p ELSE IF v.err # "" THEN Err("panic") ELSE v])

\* Enum::associated_data, then the variant's own Deserialize.
AssociatedData(of, e, buf, caps) ==
    IF e.id # <<"id", ID(Primitive(of))>> THEN Err("MismatchedId") ELSE Part(of, buf, e.at, caps)

\* Mutant: the arms are told apart by their index.
Arms_Index(T, d) == { i \in DOMAIN Variants(T) : i = d + 1 }

\* The match arms a derived or written enum has for discriminant d.
Arms(T, d) == { i \in DOMAIN Variants(T) : Discriminant(T, i) = d }

\* Option, Result and derived enums: the first arm that matches is taken; a
\* variant without data does not look at the associated data.
DeserializeEnum(T, e, buf, caps) ==
    LET d == Extract(Primitive(T).disc, buf, e.disc)
        arms == Arms(T, d.val)
        arm == CHOOSE i \in arms : \A j \in arms : i <= j
        data == AssociatedData(Variants(T)[arm], e, buf, caps)
    IN  CASE d.err # "" -> d
          [] d.err = "" /\ arms = {} -> Err("UnknownDiscriminantValue")
          [] d.err = "" /\ arms # {} ->
                IF T.k # "result" /\ Variants(T)[arm] = Unit THEN Ok(<<arm, <<>> >>)
                ELSE IF data.err = "" THEN Ok(<<arm, data.val>>) ELSE data

\* Capability: the received capability of that index.
DeserializeCapability(index, caps) ==
    IF index < Len(caps) THEN Ok(caps[index + 1]) ELSE Err("NotEnoughCapabilities")

\* impl Deserialize: the value of type T that primitive p refers to.
DeserializeFrom(T, p, buf, caps) ==
    CASE T.k \in {"unit", "int", "str"} -> Ok(p)
      [] T.k = "cap" -> DeserializeCapability(p, caps)
      [] T.k = "tuple" -> DeserializeTuple(T, p, buf, caps)
      [] T.k = "vec" -> DeserializeVec(T, p, buf, caps)
      [] T.k = "array" -> DeserializeArray(T, p, buf, caps)
      [] T.k \in {"option", "result", "enum"} -> DeserializeEnum(T, p, buf, caps)

-----------------------------------------------------------------------------
(* A value is sent from one task to another. *)

Init ==
    /\ sending \in Cases
    /\ phase = "value"
    /\ message = Serializer
    /\ received = Err("")

Send ==
    /\ phase = "value"
    /\ phase' = "message"
    /\ message' = SerializeValue(sending.type, sending.value)
    /\ UNCHANGED <<sending, received>>

\* Deserializer::deserialize reads from position 0.
Receive ==
    /\ phase = "message"
    /\ message.err = ""
    /\ phase' = "received"
    /\ received' = Part(sending.type, message.buf, 0, message.caps)
    /\ UNCHANGED <<sending, message>>

Next == Send \/ Receive
Spec == Init /\ [][Next]_vars

-----------------------------------------------------------------------------
(* Properties. *)

\* The receiving task gets the value the sending task serialized: serializer
\* and deserializer agree on every position, length, padding and discriminant.
RoundTrip ==
    phase = "received" => received = Ok(sending.value)

\* The serializer never runs out of the space it reserved, and no two of its
\* writes share a byte: the layouts it reserves are those it fills.
Fits ==
    message.err = "" /\ ~message.clash

RECURSIVE CapabilitiesIn(_, _)

CapabilitiesIn(T, v) ==
    CASE T.k = "cap" -> <<v>>
      [] T.k = "tuple" ->
            FlattenSeq([i \in DOMAIN v |-> CapabilitiesIn(T.fields[i], v[i])])
      [] T.k \in {"vec", "array"} ->
            FlattenSeq([i \in DOMAIN v |-> CapabilitiesIn(T.of, v[i])])
      [] T.k \in {"option", "result", "enum"} -> CapabilitiesIn(Variants(T)[v[1]], v[2])
      [] OTHER -> <<>>

\* The capabilities sent beside the message are those inside the value, each
\* once and in the order they occur in it.
CapabilitiesSent ==
    phase # "value" => message.caps = CapabilitiesIn(sending.type, sending.value)

=============================================================================

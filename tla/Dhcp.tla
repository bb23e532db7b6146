--------------------------------- MODULE Dhcp ---------------------------------
(***************************************************************************)
(* libs/dhcp: DhcpMessageBuilder, which writes options into a slice behind *)
(* the fixed message, and DhcpMessageParser, which iterates over them.     *)
(* An option is its number and the bytes of its value; the fixed message   *)
(* is only its size.                                                       *)
(***************************************************************************)
EXTENDS Integers, Sequences, SequencesExt

CONSTANTS
    SliceSizes,   \* lengths of the slices a builder is given
    Pushable,     \* options the caller pushes
    MaxPushes     \* bound: how many

MessageSize == 240
ROUTER == 3
DHCP_MESSAGE_TYPE == 53
DHCP_SERVER_IDENTIFIER == 54
END_OF_OPTIONS == 255

VARIABLES
    at,          \* "new", "building", "finished", "parsed", or how it ended
    room,        \* bytes left of the builder's options
    usedSpace,
    bytes,       \* the options written so far
    pushed,      \* what was pushed, in order
    data,        \* what the parser has not read yet
    options      \* what the parser returned

vars == <<at, room, usedSpace, bytes, pushed, data, options>>

Init ==
    /\ at = "new" /\ room = 0 /\ usedSpace = 0
    /\ bytes = <<>> /\ pushed = <<>> /\ data = <<>> /\ options = <<>>

\* Mutant: the space used does not count the message.
FromSlice_NoMessage(len) ==
    /\ at = "new"
    /\ at' = "building" /\ room' = len - MessageSize /\ usedSpace' = 0
    /\ UNCHANGED <<bytes, pushed, data, options>>

\* DhcpMessageBuilder::from_slice
FromSlice(len) ==
    /\ at = "new"
    /\ IF len < MessageSize
       THEN at' = "notLongEnough" /\ UNCHANGED <<room, usedSpace>>
       ELSE at' = "building" /\ room' = len - MessageSize /\ usedSpace' = MessageSize
    /\ UNCHANGED <<bytes, pushed, data, options>>

\* What try_push_option() passes to push_bytes(), call by call.
Encode(o) ==
    CASE o.id = END_OF_OPTIONS -> << <<o.id>> >>
      [] o.id = DHCP_MESSAGE_TYPE -> << <<o.id, 1>> \o o.value >>
      [] OTHER -> << <<o.id, Len(o.value)>>, o.value >>

\* push_bytes() for each: those that fit are written even if a later one does
\* not.
Fitting(chunks, left) ==
    LET fits == {n \in 0..Len(chunks) : Len(FlattenSeq(SubSeq(chunks, 1, n))) <= left}
    IN  SubSeq(chunks, 1, CHOOSE n \in fits : \A m \in fits : m <= n)

\* u8::try_from: the value's length does not fit in a byte.
TooLong(o) == Len(o.value) > 255

TryPushOption(o, ok) ==
    LET done == IF TooLong(o) THEN <<>> ELSE Fitting(Encode(o), room)
        written == FlattenSeq(done)
    IN  /\ bytes' = bytes \o [n \in 1..Len(written) |-> written[n] % 256]
        /\ room' = room - Len(written)
        /\ usedSpace' = usedSpace + Len(written)
        /\ at' = IF ~ TooLong(o) /\ done = Encode(o) THEN ok ELSE "refused"

\* push_option(); a caller stops at an option that does not fit.
Push(o) ==
    /\ at = "building" /\ Len(pushed) < MaxPushes
    /\ TryPushOption(o, "building")
    /\ pushed' = Append(pushed, o)
    /\ UNCHANGED <<data, options>>

\* finish(), and the message handed to a parser cut to the space used.
Finish ==
    /\ at = "building"
    /\ TryPushOption([id |-> END_OF_OPTIONS, value |-> <<>>], "finished")
    /\ data' = SubSeq(bytes', 1, usedSpace' - MessageSize)
    /\ UNCHANGED <<pushed, options>>

\* How far the iterator steps: a message type's length is not looked at.
OptionSize(d) ==
    IF d[1] \in {ROUTER, DHCP_SERVER_IDENTIFIER} THEN 6
    ELSE IF d[1] = DHCP_MESSAGE_TYPE THEN 3 ELSE 2 + d[2]

\* One call of the options() iterator: the end, a malformed option, an index
\* out of range, or an option.
NextOption ==
    /\ at = "finished"
    /\ CASE data = <<>> \/ data[1] = END_OF_OPTIONS ->
              at' = "parsed" /\ UNCHANGED <<data, options>>
         [] data # <<>> /\ data[1] # END_OF_OPTIONS /\ Len(data) < 2 ->
              at' = "panic" /\ UNCHANGED <<data, options>>
         [] Len(data) >= 2 /\ data[1] \in {ROUTER, DHCP_SERVER_IDENTIFIER} /\ data[2] # 4 ->
              at' = "malformed" /\ UNCHANGED <<data, options>>
         [] OTHER ->
              IF OptionSize(data) > Len(data)
              THEN at' = "panic" /\ UNCHANGED <<data, options>>
              ELSE /\ options' = Append(options, [id |-> data[1], value |-> SubSeq(data, 3, OptionSize(data))])
                   /\ data' = SubSeq(data, OptionSize(data) + 1, Len(data))
                   /\ UNCHANGED at
    /\ UNCHANGED <<room, usedSpace, bytes, pushed>>

Next ==
    \/ \E len \in SliceSizes : FromSlice(len)
    \/ \E o \in Pushable : Push(o)
    \/ Finish \/ NextOption

Spec == Init /\ [][Next]_vars

-----------------------------------------------------------------------------
(* Properties *)

\* used_space is what was written, and never more than the slice.
SpaceAccounted == at \notin {"new", "notLongEnough"} => usedSpace = MessageSize + Len(bytes) /\ room >= 0

\* A finished message reads back as the options pushed, in their order, up to
\* the first end of options, and the iterator meets no malformed option and no
\* index out of range.
RoundTrip ==
    /\ at \notin {"malformed", "panic"}
    /\ at = "parsed" =>
         LET e == SelectInSeq(pushed, LAMBDA o : o.id = END_OF_OPTIONS)
         IN  options = IF e = 0 THEN pushed ELSE SubSeq(pushed, 1, e - 1)
===============================================================================

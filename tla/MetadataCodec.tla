---------------------------- MODULE MetadataCodec ----------------------------
(***************************************************************************)
(* The metadata of a ULOL frame as bytes: encode_metadata, decode_metadata *)
(* and their helpers (src/src/frame.rs).                                   *)
(*                                                                         *)
(* A cell is a number: an integer of any width is one, a text is one for   *)
(* each of its bytes, after one for its length.  Cells carry no tag, so    *)
(* what is read at the wrong place is misread, as bytes are.  An Option is *)
(* a sequence of at most one value.                                        *)
(***************************************************************************)
EXTENDS Naturals, Sequences

CONSTANTS
    U32Max,         \* u32::MAX
    Chars,          \* the bytes that String::from_utf8 accepts
    Uuids,          \* pairs <<msb, lsb>> that UUID::from_u64_pair accepts
    Uris,           \* texts that UUri::try_from accepts, as to_uri spells them
    Formats,        \* values of UPayloadFormat
    Customs,        \* pairs <<id, content type>> that try_custom accepts
    Codes           \* values of UCode

Text == Seq(Chars)
U32 == 0..U32Max
Option(S) == {option \in Seq(S) : Len(option) <= 1}

ASSUME CodecAssumption ==
    /\ U32Max \in Nat /\ Chars \subseteq Nat
    /\ Uuids \subseteq Nat \X Nat
    /\ Uris \subseteq Text \ {<<>>}
    /\ Formats \subseteq Nat /\ Codes \subseteq Nat
    /\ Customs \subseteq Text \X Text

MessageTypes == {"Publish", "Notification", "Request", "Response"}
Priorities == {"CS0", "CS1", "CS2", "CS3", "CS4", "CS5", "CS6"}
Encoding == [kind : {"standard"}, format : Formats]
            \cup [kind : {"custom"}, custom : Customs]

\* UFrameMetadata, its attributes and its payload encoding.
Metadata == [id : Uuids, messageType : MessageTypes, priority : Priorities,
             ttl : Option(U32), source : Uris, sink : Option(Uris),
             encoding : Option(Encoding), requestId : Option(Uuids),
             traceparent : Option(Text), token : Option(Text),
             permissionLevel : Option(U32), commstatus : Option(Codes)]

-----------------------------------------------------------------------------
(* Encoding *)

MessageTypeToByte ==
    [Publish |-> 1, Notification |-> 2, Request |-> 3, Response |-> 4]
PriorityToByte ==
    [CS0 |-> 0, CS1 |-> 1, CS2 |-> 2, CS3 |-> 3, CS4 |-> 4, CS5 |-> 5, CS6 |-> 6]

WriteCell(n) == <<n>>
WriteUuid(uuid) == <<uuid[1], uuid[2]>>
AppendString(text) == <<Len(text)>> \o text

WriteOptional(option, Write(_)) ==
    IF option = <<>> THEN <<0>> ELSE <<1>> \o Write(option[1])

WriteOptionalU32(option) == WriteOptional(option, WriteCell)
WriteOptionalUuid(option) == WriteOptional(option, WriteUuid)
WriteOptionalString(option) == WriteOptional(option, AppendString)
WriteOptionalCode(option) == WriteOptional(option, WriteCell)

WriteSink(sink) == AppendString(IF sink = <<>> THEN <<>> ELSE sink[1])

EncodePayloadEncoding(encoding) ==
    IF encoding.kind = "standard" THEN <<0, encoding.format>>
    ELSE <<1>> \o AppendString(encoding.custom[1]) \o AppendString(encoding.custom[2])

\* The texts in m; append_string refuses one that is longer than u32::MAX.
Texts(m) ==
    {m.source} \cup {m.sink[i] : i \in DOMAIN m.sink}
    \cup {m.traceparent[i] : i \in DOMAIN m.traceparent}
    \cup {m.token[i] : i \in DOMAIN m.token}
    \cup UNION {{m.encoding[i].custom[1], m.encoding[i].custom[2]} :
                i \in {j \in DOMAIN m.encoding : m.encoding[j].kind = "custom"}}

IsEncodable(m) == \A text \in Texts(m) : Len(text) <= U32Max

EncodeMetadata(m) ==
    WriteUuid(m.id)
    \o WriteCell(MessageTypeToByte[m.messageType])
    \o WriteCell(PriorityToByte[m.priority])
    \o WriteOptionalU32(m.ttl)
    \o AppendString(m.source)
    \o WriteSink(m.sink)
    \o WriteOptional(m.encoding, EncodePayloadEncoding)
    \o WriteOptionalUuid(m.requestId)
    \o WriteOptionalString(m.traceparent)
    \o WriteOptionalString(m.token)
    \o WriteOptionalU32(m.permissionLevel)
    \o WriteOptionalCode(m.commstatus)

-----------------------------------------------------------------------------
(* Decoding: what is taken from the cells, and the rest of them *)

Refused == [ok |-> FALSE, value |-> <<>>, rest |-> <<>>]
Taken(value, rest) == [ok |-> TRUE, value |-> value, rest |-> rest]

\* take_u8, take_u64, and u32: the next cell.
TakeCell(src) == IF src = <<>> THEN Refused ELSE Taken(Head(src), Tail(src))

TakeBytes(src, len) ==
    IF Len(src) < len THEN Refused
    ELSE Taken(SubSeq(src, 1, len), SubSeq(src, len + 1, Len(src)))

\* What was taken, if it is one of the values in S.
Among(taken, S) == IF taken.ok /\ taken.value \in S THEN taken ELSE Refused

TakeUuid(src) == Among(TakeBytes(src, 2), Uuids)

TakeString(src) ==
    LET len == TakeCell(src) IN
    IF len.ok THEN Among(TakeBytes(len.rest, len.value), Text) ELSE Refused

TakeUri(src) == Among(TakeString(src), Uris)

\* An empty text stands for no sink.
TakeSink(src) ==
    LET text == Among(TakeString(src), Uris \cup {<<>>}) IN
    IF ~text.ok THEN Refused
    ELSE Taken(IF text.value = <<>> THEN <<>> ELSE <<text.value>>, text.rest)

TakeMessageType(src) ==
    LET byte == Among(TakeCell(src), 1..4) IN
    IF ~byte.ok THEN Refused
    ELSE Taken(<<"Publish", "Notification", "Request", "Response">>[byte.value], byte.rest)

TakePriority(src) ==
    LET byte == Among(TakeCell(src), 0..6) IN
    IF ~byte.ok THEN Refused
    ELSE Taken(<<"CS0", "CS1", "CS2", "CS3", "CS4", "CS5", "CS6">>[byte.value + 1],
               byte.rest)

TakeFormat(src) == Among(TakeCell(src), Formats)
TakeCode(src) == Among(TakeCell(src), Codes)

DecodePayloadEncoding(src) ==
    LET kind == TakeCell(src)
        format == TakeFormat(kind.rest)
        id == TakeString(kind.rest)
        contentType == TakeString(id.rest)
    IN
    IF kind.ok /\ kind.value = 0 /\ format.ok
    THEN Taken([kind |-> "standard", format |-> format.value], format.rest)
    ELSE IF /\ kind.ok /\ kind.value = 1 /\ id.ok /\ contentType.ok
            /\ <<id.value, contentType.value>> \in Customs
    THEN Taken([kind |-> "custom", custom |-> <<id.value, contentType.value>>],
               contentType.rest)
    ELSE Refused

\* The take_optional_... functions and the encoding in decode_metadata.
TakeOptional(src, Take(_)) ==
    LET flag == Among(TakeCell(src), {0, 1})
        some == Take(flag.rest)
    IN
    IF flag.ok /\ flag.value = 0 THEN Taken(<<>>, flag.rest)
    ELSE IF flag.ok /\ some.ok THEN Taken(<<some.value>>, some.rest)
    ELSE Refused

\* The values taken so far and the next one: Rust's ? operator.
Then(taken, Take(_)) ==
    LET next == Take(taken.rest) IN
    IF taken.ok /\ next.ok
    THEN Taken(Append(taken.value, next.value), next.rest)
    ELSE Refused

TakeOptionalU32(src) == TakeOptional(src, TakeCell)
TakeOptionalUuid(src) == TakeOptional(src, TakeUuid)

\* Bug: an empty text is taken for none, as that of the sink is.
TakeOptionalString_Empty(src) ==
    LET text == TakeOptional(src, TakeString) IN
    IF text.value = << <<>> >> THEN [text EXCEPT !.value = <<>>] ELSE text

TakeOptionalString(src) == TakeOptional(src, TakeString)

TakeOptionalCode(src) == TakeOptional(src, TakeCode)
TakeOptionalEncoding(src) == TakeOptional(src, DecodePayloadEncoding)

\* The fields in the order in which decode_metadata takes them: those up to the one
\* an operator is named for, and all.
ToId(src) == Then(Taken(<<>>, src), TakeUuid)
ToMessageType(src) == Then(ToId(src), TakeMessageType)
ToPriority(src) == Then(ToMessageType(src), TakePriority)
ToTtl(src) == Then(ToPriority(src), TakeOptionalU32)
ToSource(src) == Then(ToTtl(src), TakeUri)
ToSink(src) == Then(ToSource(src), TakeSink)
ToEncoding(src) == Then(ToSink(src), TakeOptionalEncoding)
ToRequestId(src) == Then(ToEncoding(src), TakeOptionalUuid)
ToTraceparent(src) == Then(ToRequestId(src), TakeOptionalString)
ToToken(src) == Then(ToTraceparent(src), TakeOptionalString)
ToPermissionLevel(src) == Then(ToToken(src), TakeOptionalU32)
TakeFields(src) == Then(ToPermissionLevel(src), TakeOptionalCode)

\* Bug: what is left is not looked at.
Decodes_Trailing(src) == TakeFields(src).ok

\* decode_metadata accepts src: all fields are there, and nothing after them.
Decodes(src) == TakeFields(src).ok /\ TakeFields(src).rest = <<>>

\* Its result.
DecodeMetadata(src) ==
    LET value == TakeFields(src).value IN
    [id |-> value[1], messageType |-> value[2], priority |-> value[3],
     ttl |-> value[4], source |-> value[5], sink |-> value[6],
     encoding |-> value[7], requestId |-> value[8], traceparent |-> value[9],
     token |-> value[10], permissionLevel |-> value[11], commstatus |-> value[12]]

=============================================================================

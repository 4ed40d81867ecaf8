---------------------------- MODULE MCFrameSlot ----------------------------
(* Model-checking definitions for FrameSlot. *)
EXTENDS FrameSlot

CONSTANT FieldValues    \* what the lengths in the header of an alien frame may be

MCUuids == {<<4, 1>>, <<5, 0>>}
MCUris == {<<2>>, <<3, 3>>}
MCCustoms == {<< <<2>>, <<3, 2>> >>}

\* Nothing optional, something optional, and everything.
Bare == [id |-> <<4, 1>>, messageType |-> "Publish", priority |-> "CS1", ttl |-> <<>>,
         source |-> <<2>>, sink |-> <<>>, encoding |-> <<>>, requestId |-> <<>>,
         traceparent |-> <<>>, token |-> <<>>, permissionLevel |-> <<>>,
         commstatus |-> <<>>]
Raw == [Bare EXCEPT !.encoding = <<[kind |-> "standard", format |-> 3]>>]
Full == [id |-> <<5, 0>>, messageType |-> "Response", priority |-> "CS6", ttl |-> <<9>>,
         source |-> <<3, 3>>, sink |-> <<<<2>>>>,
         encoding |-> <<[kind |-> "custom", custom |-> << <<2>>, <<3, 2>> >>]>>,
         requestId |-> << <<4, 1>> >>, traceparent |-> << <<2>> >>,
         token |-> << <<>> >>, permissionLevel |-> <<0>>, commstatus |-> <<5>>]

TextOf(n) == [i \in 1..n |-> 2]

\* Encodings of many lengths, among them longer than u32::MAX in one text, and
\* in two.
MCSendable ==
    {Bare, Full,
     [Bare EXCEPT !.sink = << <<3, 3>> >>, !.messageType = "Notification"],
     [Raw EXCEPT !.ttl = <<0>>, !.priority = "CS0", !.sink = << <<2>> >>,
                 !.messageType = "Request", !.permissionLevel = <<1>>],
     [Raw EXCEPT !.traceparent = <<TextOf(40)>>, !.token = <<TextOf(40)>>],
     [Raw EXCEPT !.token = <<TextOf(U32Max + 1)>>]}
    \cup {[Raw EXCEPT !.token = <<TextOf(n)>>] : n \in 0..7}

\* What may become of the cells c: cut, extended, or changed in one place.
Damaged(c) ==
    {SubSeq(c, 1, n) : n \in 0..Len(c)} \cup {Append(c, 0)}
    \cup {[c EXCEPT ![i] = n] : i \in DOMAIN c, n \in {0, 1, 2, 7}}

\* A sound encoding under any header, and a damaged one under an honest header.
MCAlienFrames ==
    [header : [magic : BOOLEAN, metadataLen : FieldValues, payloadLen : FieldValues,
               payloadOffset : FieldValues],
     cells : {EncodeMetadata(Raw)}]
    \cup {[header |-> [magic |-> TRUE, metadataLen |-> Len(c), payloadLen |-> 1,
                       payloadOffset |-> 55],
           cells |-> c] :
          c \in UNION {Damaged(EncodeMetadata(m)) : m \in {Raw, Full}}}
=============================================================================

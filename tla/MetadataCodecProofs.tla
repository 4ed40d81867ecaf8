------------------------ MODULE MetadataCodecProofs ------------------------
(***************************************************************************)
(* Proofs about MetadataCodec: what encode_metadata writes is what         *)
(* decode_metadata reads, and no encoding is the beginning of another, so  *)
(* that cells which are cut or extended are refused.                       *)
(*                                                                         *)
(* The number of fields is fixed: both facts go from one field to the next *)
(* and need no induction.  What is taken from the beginning of the cells   *)
(* does not depend on what follows, so that each field can be looked at    *)
(* with nothing behind it.                                                 *)
(***************************************************************************)
EXTENDS MetadataCodec, SequenceTheorems, TLAPS

Cells == Seq(Nat)

\* What was taken is taken with more cells behind, too, and leaves those.
Continues(taken, longer, more) ==
    taken.ok => taken.rest \in Cells /\ longer = Taken(taken.value, taken.rest \o more)

-----------------------------------------------------------------------------
(* Beginnings of sequences *)

\* The head and the tail of a sequence with more behind it.
LEMMA HeadTailOfConcat ==
    ASSUME NEW S, NEW s \in Seq(S), NEW more \in Seq(S), s # <<>>
    PROVE  s \o more # <<>> /\ Head(s \o more) = Head(s) /\ Tail(s \o more) = Tail(s) \o more
<1>1. /\ Len(s) \in Nat \ {0} /\ Len(more) \in Nat
      /\ Tail(s) \in Seq(S) /\ Len(Tail(s)) = Len(s) - 1
      /\ \A i \in 1..Len(Tail(s)) : Tail(s)[i] = s[i + 1]
  BY EmptySeq, LenProperties, HeadTailProperties
<1>2. /\ s \o more \in Seq(S) /\ Len(s \o more) = Len(s) + Len(more)
      /\ \A i \in 1..(Len(s) + Len(more)) :
            (s \o more)[i] = IF i <= Len(s) THEN s[i] ELSE more[i - Len(s)]
  BY ConcatProperties
<1>3. s \o more # <<>>
  BY <1>1, <1>2, EmptySeq
<1>4. Head(s \o more) = Head(s)
  BY <1>1, <1>2, <1>3
<1>5. /\ Tail(s \o more) \in Seq(S) /\ Len(Tail(s \o more)) = Len(s) + Len(more) - 1
      /\ \A i \in 1..Len(Tail(s \o more)) : Tail(s \o more)[i] = (s \o more)[i + 1]
  BY <1>2, <1>3, HeadTailProperties
<1>6. /\ Tail(s) \o more \in Seq(S) /\ Len(Tail(s) \o more) = Len(s) - 1 + Len(more)
      /\ \A i \in 1..(Len(s) - 1 + Len(more)) :
            (Tail(s) \o more)[i] = IF i <= Len(s) - 1 THEN Tail(s)[i]
                                                      ELSE more[i - (Len(s) - 1)]
  BY <1>1, ConcatProperties
<1>7. ASSUME NEW i \in 1..(Len(s) + Len(more) - 1)
      PROVE  Tail(s \o more)[i] = (Tail(s) \o more)[i]
  BY <1>1, <1>2, <1>5, <1>6
<1>8. Tail(s \o more) = Tail(s) \o more
  BY <1>1, <1>5, <1>6, <1>7, SeqEqual
<1> QED
  BY <1>3, <1>4, <1>8

\* The first len elements, and those after them, with more behind.
LEMMA SplitOfConcat ==
    ASSUME NEW S, NEW s \in Seq(S), NEW more \in Seq(S), NEW len \in 0..Len(s)
    PROVE  /\ SubSeq(s \o more, 1, len) = SubSeq(s, 1, len)
           /\ SubSeq(s, len + 1, Len(s)) \in Seq(S)
           /\ SubSeq(s \o more, len + 1, Len(s \o more)) = SubSeq(s, len + 1, Len(s)) \o more
<1> DEFINE whole == s \o more
           back == SubSeq(s, len + 1, Len(s))
<1>1. Len(s) \in Nat /\ Len(more) \in Nat /\ \A i \in 1..Len(s) : s[i] \in S
  BY LenProperties, ElementOfSeq
<1>2. /\ whole \in Seq(S) /\ Len(whole) = Len(s) + Len(more)
      /\ \A i \in 1..(Len(s) + Len(more)) :
            whole[i] = IF i <= Len(s) THEN s[i] ELSE more[i - Len(s)]
  BY ConcatProperties
<1>3. \A i \in 1..Len(whole) : whole[i] \in S
  BY <1>2, ElementOfSeq
<1> HIDE DEF whole
<1>4. /\ back \in Seq(S) /\ Len(back) = Len(s) - len
      /\ \A i \in 1..(Len(s) - len) : back[i] = s[len + i]
  <2>1. \A i \in (len + 1)..Len(s) : s[i] \in S
    BY <1>1
  <2>2. /\ back \in Seq(S)
        /\ Len(back) = IF len + 1 <= Len(s) THEN Len(s) - (len + 1) + 1 ELSE 0
        /\ \A i \in 1..(Len(s) - (len + 1) + 1) : back[i] = s[(len + 1) + i - 1]
    BY <1>1, <2>1, SubSeqProperties
  <2> QED
    BY <1>1, <2>2
<1>5. SubSeq(whole, 1, len) = SubSeq(s, 1, len)
  <2>1. (\A i \in 1..len : s[i] \in S) /\ \A i \in 1..len : whole[i] \in S
    BY <1>1, <1>2, <1>3
  <2>2. /\ SubSeq(s, 1, len) \in Seq(S) /\ Len(SubSeq(s, 1, len)) = len
        /\ \A i \in 1..len : SubSeq(s, 1, len)[i] = s[i]
    <3>1. /\ SubSeq(s, 1, len) \in Seq(S)
          /\ Len(SubSeq(s, 1, len)) = IF 1 <= len THEN len - 1 + 1 ELSE 0
          /\ \A i \in 1..(len - 1 + 1) : SubSeq(s, 1, len)[i] = s[1 + i - 1]
      BY <2>1, SubSeqProperties
    <3> QED
      BY <1>1, <3>1
  <2>3. /\ SubSeq(whole, 1, len) \in Seq(S) /\ Len(SubSeq(whole, 1, len)) = len
        /\ \A i \in 1..len : SubSeq(whole, 1, len)[i] = whole[i]
    <3>1. /\ SubSeq(whole, 1, len) \in Seq(S)
          /\ Len(SubSeq(whole, 1, len)) = IF 1 <= len THEN len - 1 + 1 ELSE 0
          /\ \A i \in 1..(len - 1 + 1) : SubSeq(whole, 1, len)[i] = whole[1 + i - 1]
      BY <2>1, SubSeqProperties
    <3> QED
      BY <1>1, <3>1
  <2>4. \A i \in 1..len : whole[i] = s[i]
    BY <1>1, <1>2
  <2> QED
    BY <2>2, <2>3, <2>4, SeqEqual
<1>6. /\ SubSeq(whole, len + 1, Len(whole)) \in Seq(S)
      /\ Len(SubSeq(whole, len + 1, Len(whole))) = Len(whole) - len
      /\ \A i \in 1..(Len(whole) - len) :
            SubSeq(whole, len + 1, Len(whole))[i] = whole[len + i]
  <2>1. Len(whole) \in Nat /\ len <= Len(whole) /\ \A i \in (len + 1)..Len(whole) : whole[i] \in S
    BY <1>1, <1>2, <1>3
  <2>2. /\ SubSeq(whole, len + 1, Len(whole)) \in Seq(S)
        /\ Len(SubSeq(whole, len + 1, Len(whole))) =
              IF len + 1 <= Len(whole) THEN Len(whole) - (len + 1) + 1 ELSE 0
        /\ \A i \in 1..(Len(whole) - (len + 1) + 1) :
              SubSeq(whole, len + 1, Len(whole))[i] = whole[(len + 1) + i - 1]
    BY <2>1, SubSeqProperties
  <2> QED
    BY <2>1, <2>2
<1> HIDE DEF back
<1>7. SubSeq(whole, len + 1, Len(whole)) = back \o more
  <2>1. /\ back \o more \in Seq(S) /\ Len(back \o more) = Len(s) - len + Len(more)
        /\ \A i \in 1..(Len(s) - len + Len(more)) :
              (back \o more)[i] = IF i <= Len(s) - len THEN back[i] ELSE more[i - (Len(s) - len)]
    <3>1. /\ back \o more \in Seq(S) /\ Len(back \o more) = Len(back) + Len(more)
          /\ \A i \in 1..(Len(back) + Len(more)) :
                (back \o more)[i] = IF i <= Len(back) THEN back[i] ELSE more[i - Len(back)]
      BY <1>4, ConcatProperties
    <3> QED
      BY <1>4, <3>1
  <2>2. ASSUME NEW i \in 1..(Len(s) - len + Len(more))
        PROVE  SubSeq(whole, len + 1, Len(whole))[i] = (back \o more)[i]
    <3>1. SubSeq(whole, len + 1, Len(whole))[i] = whole[len + i]
      BY <1>1, <1>2, <1>6
    <3>2. whole[len + i] = IF len + i <= Len(s) THEN s[len + i] ELSE more[len + i - Len(s)]
      BY <1>1, <1>2
    <3>3. (back \o more)[i] = IF i <= Len(s) - len THEN s[len + i] ELSE more[i - (Len(s) - len)]
      BY <1>1, <1>4, <2>1
    <3>4. (len + i <= Len(s) <=> i <= Len(s) - len) /\ len + i - Len(s) = i - (Len(s) - len)
      BY <1>1
    <3> QED
      BY <3>1, <3>2, <3>3, <3>4
  <2>3. Len(SubSeq(whole, len + 1, Len(whole))) = Len(s) - len + Len(more)
    BY <1>1, <1>2, <1>6
  <2> QED
    BY <1>6, <2>1, <2>2, <2>3, SeqEqual
<1> QED
  BY <1>4, <1>5, <1>7 DEF whole, back

-----------------------------------------------------------------------------
(* What is taken does not depend on what follows *)

LEMMA CellContinues ==
    ASSUME NEW src \in Cells, NEW more \in Cells
    PROVE  /\ Continues(TakeCell(src), TakeCell(src \o more), more)
           /\ TakeCell(src).ok => TakeCell(src).value \in Nat
<1>1. CASE src = <<>>
  BY <1>1 DEF TakeCell, Refused, Continues
<1>2. CASE src # <<>>
  <2>1. Head(src) \in Nat /\ Tail(src) \in Cells
    BY <1>2, HeadTailProperties DEF Cells
  <2>2. src \o more # <<>> /\ Head(src \o more) = Head(src) /\ Tail(src \o more) = Tail(src) \o more
    BY <1>2, HeadTailOfConcat DEF Cells
  <2> QED
    BY <1>2, <2>1, <2>2 DEF TakeCell, Taken, Continues
<1> QED
  BY <1>1, <1>2

LEMMA BytesContinue ==
    ASSUME NEW src \in Cells, NEW more \in Cells, NEW len \in Nat
    PROVE  Continues(TakeBytes(src, len), TakeBytes(src \o more, len), more)
<1>1. CASE Len(src) < len
  BY <1>1 DEF TakeBytes, Refused, Continues
<1>2. CASE ~(Len(src) < len)
  <2>1. Len(src) \in Nat /\ Len(more) \in Nat /\ Len(src \o more) = Len(src) + Len(more)
    BY LenProperties, ConcatProperties DEF Cells
  <2>2. len \in 0..Len(src) /\ ~(Len(src \o more) < len)
    BY <1>2, <2>1
  <2>3. /\ SubSeq(src \o more, 1, len) = SubSeq(src, 1, len)
        /\ SubSeq(src, len + 1, Len(src)) \in Cells
        /\ SubSeq(src \o more, len + 1, Len(src \o more)) = SubSeq(src, len + 1, Len(src)) \o more
    BY <2>2, SplitOfConcat DEF Cells
  <2> QED
    BY <1>2, <2>2, <2>3 DEF TakeBytes, Taken, Continues
<1> QED
  BY <1>1, <1>2

LEMMA AmongContinues ==
    ASSUME NEW taken, NEW longer, NEW more, NEW S, Continues(taken, longer, more)
    PROVE  Continues(Among(taken, S), Among(longer, S), more)
<1>1. CASE taken.ok /\ taken.value \in S
  <2>1. longer.ok /\ longer.value = taken.value
    BY <1>1 DEF Continues, Taken
  <2>2. Among(taken, S) = taken /\ Among(longer, S) = longer
    BY <1>1, <2>1 DEF Among
  <2> QED
    BY <2>2
<1>2. CASE ~(taken.ok /\ taken.value \in S)
  <2>1. Among(taken, S) = Refused /\ ~Refused.ok
    BY <1>2 DEF Among, Refused
  <2> QED
    BY <2>1 DEF Continues
<1> QED
  BY <1>1, <1>2

\* A function of what was taken is taken with more cells behind, too.
LEMMA MappedContinues ==
    ASSUME NEW taken, NEW longer, NEW more, Continues(taken, longer, more),
           NEW result, NEW resultLonger, NEW f,
           result = IF ~taken.ok THEN Refused ELSE Taken(f[taken.value], taken.rest),
           resultLonger = IF ~longer.ok THEN Refused ELSE Taken(f[longer.value], longer.rest)
    PROVE  Continues(result, resultLonger, more)
<1>1. CASE taken.ok
  <2>1. longer.ok /\ longer.value = taken.value /\ longer.rest = taken.rest \o more
        /\ taken.rest \in Cells
    BY <1>1 DEF Continues, Taken
  <2>2. result = Taken(f[taken.value], taken.rest)
        /\ resultLonger = Taken(f[taken.value], taken.rest \o more)
    BY <1>1, <2>1
  <2>3. result.value = f[taken.value] /\ result.rest = taken.rest
    BY <2>2 DEF Taken
  <2> QED
    BY <2>1, <2>2, <2>3 DEF Continues
<1>2. CASE ~taken.ok
  BY <1>2 DEF Continues, Refused
<1> QED
  BY <1>1, <1>2

LEMMA UuidContinues ==
    ASSUME NEW src \in Cells, NEW more \in Cells
    PROVE  Continues(TakeUuid(src), TakeUuid(src \o more), more)
BY BytesContinue, AmongContinues DEF TakeUuid

LEMMA StringContinues ==
    ASSUME NEW src \in Cells, NEW more \in Cells
    PROVE  Continues(TakeString(src), TakeString(src \o more), more)
<1> DEFINE len == TakeCell(src)
           long == TakeCell(src \o more)
<1>1. Continues(len, long, more) /\ (len.ok => len.value \in Nat)
  BY CellContinues
<1>2. CASE ~len.ok
  BY <1>2 DEF TakeString, Refused, Continues
<1>3. CASE len.ok
  <2>1. long.ok /\ long.value = len.value /\ long.rest = len.rest \o more
        /\ len.rest \in Cells /\ len.value \in Nat
    BY <1>1, <1>3 DEF Continues, Taken
  <2>2. TakeString(src) = Among(TakeBytes(len.rest, len.value), Text)
        /\ TakeString(src \o more) = Among(TakeBytes(len.rest \o more, len.value), Text)
    BY <1>3, <2>1 DEF TakeString
  <2> HIDE DEF len
  <2>3. Continues(TakeBytes(len.rest, len.value), TakeBytes(len.rest \o more, len.value), more)
    BY <2>1, BytesContinue
  <2> QED
    BY <2>2, <2>3, AmongContinues
<1> QED
  BY <1>2, <1>3

LEMMA UriContinues ==
    ASSUME NEW src \in Cells, NEW more \in Cells
    PROVE  Continues(TakeUri(src), TakeUri(src \o more), more)
BY StringContinues, AmongContinues DEF TakeUri

LEMMA SinkContinues ==
    ASSUME NEW src \in Cells, NEW more \in Cells
    PROVE  Continues(TakeSink(src), TakeSink(src \o more), more)
<1> DEFINE text == Among(TakeString(src), Uris \cup {<<>>})
           long == Among(TakeString(src \o more), Uris \cup {<<>>})
<1>1. Continues(text, long, more)
  BY StringContinues, AmongContinues
<1> HIDE DEF text, long
<1>2. /\ TakeSink(src) = IF ~text.ok THEN Refused
                         ELSE Taken(IF text.value = <<>> THEN <<>> ELSE <<text.value>>, text.rest)
      /\ TakeSink(src \o more) =
            IF ~long.ok THEN Refused
            ELSE Taken(IF long.value = <<>> THEN <<>> ELSE <<long.value>>, long.rest)
  BY DEF TakeSink, text, long
<1>3. CASE text.ok
  <2> DEFINE sink == IF text.value = <<>> THEN <<>> ELSE <<text.value>>
  <2>1. long.ok /\ long.value = text.value /\ long.rest = text.rest \o more
        /\ text.rest \in Cells
    BY <1>1, <1>3 DEF Continues, Taken
  <2>2. TakeSink(src) = Taken(sink, text.rest) /\ TakeSink(src \o more) = Taken(sink, text.rest \o more)
    BY <1>2, <1>3, <2>1
  <2> HIDE DEF sink
  <2>3. TakeSink(src).value = sink /\ TakeSink(src).rest = text.rest
    BY <2>2 DEF Taken
  <2> QED
    BY <2>1, <2>2, <2>3 DEF Continues
<1>4. CASE ~text.ok
  BY <1>2, <1>4 DEF Continues, Refused
<1> QED
  BY <1>3, <1>4

\* The enumerations, which are stored in one cell.
LEMMA EnumContinues ==
    ASSUME NEW src \in Cells, NEW more \in Cells
    PROVE  /\ Continues(TakeMessageType(src), TakeMessageType(src \o more), more)
           /\ Continues(TakePriority(src), TakePriority(src \o more), more)
           /\ Continues(TakeFormat(src), TakeFormat(src \o more), more)
           /\ Continues(TakeCode(src), TakeCode(src \o more), more)
<1>1. \A S : Continues(Among(TakeCell(src), S), Among(TakeCell(src \o more), S), more)
  BY CellContinues, AmongContinues
<1>2. Continues(TakeMessageType(src), TakeMessageType(src \o more), more)
  <2> DEFINE byte == Among(TakeCell(src), 1..4)
             long == Among(TakeCell(src \o more), 1..4)
             name == <<"Publish", "Notification", "Request", "Response">>
  <2>1. Continues(byte, long, more)
    BY <1>1
  <2>2. /\ TakeMessageType(src) = IF ~byte.ok THEN Refused ELSE Taken(name[byte.value], byte.rest)
        /\ TakeMessageType(src \o more) =
              IF ~long.ok THEN Refused ELSE Taken(name[long.value], long.rest)
    BY DEF TakeMessageType
  <2> HIDE DEF byte, long, name
  <2> QED
    BY <2>1, <2>2, MappedContinues
<1>3. Continues(TakePriority(src), TakePriority(src \o more), more)
  <2> DEFINE byte == Among(TakeCell(src), 0..6)
             long == Among(TakeCell(src \o more), 0..6)
             name == <<"CS0", "CS1", "CS2", "CS3", "CS4", "CS5", "CS6">>
             named == [n \in 0..6 |-> name[n + 1]]
  <2>1. Continues(byte, long, more)
    BY <1>1
  <2>0. (byte.ok => byte.value \in 0..6) /\ (long.ok => long.value \in 0..6)
    BY DEF Among, Refused
  <2>2. /\ TakePriority(src) =
              IF ~byte.ok THEN Refused ELSE Taken(name[byte.value + 1], byte.rest)
        /\ TakePriority(src \o more) =
              IF ~long.ok THEN Refused ELSE Taken(name[long.value + 1], long.rest)
    BY DEF TakePriority
  <2> HIDE DEF byte, long, name
  <2>3. /\ TakePriority(src) =
              IF ~byte.ok THEN Refused ELSE Taken(named[byte.value], byte.rest)
        /\ TakePriority(src \o more) =
              IF ~long.ok THEN Refused ELSE Taken(named[long.value], long.rest)
    BY <2>0, <2>2
  <2> HIDE DEF named
  <2> QED
    BY <2>1, <2>3, MappedContinues
<1> QED
  BY <1>1, <1>2, <1>3 DEF TakeFormat, TakeCode

LEMMA EncodingContinues ==
    ASSUME NEW src \in Cells, NEW more \in Cells
    PROVE  Continues(DecodePayloadEncoding(src), DecodePayloadEncoding(src \o more), more)
<1> DEFINE kind(s) == TakeCell(s)
           format(s) == TakeFormat(kind(s).rest)
           id(s) == TakeString(kind(s).rest)
           contentType(s) == TakeString(id(s).rest)
           long == src \o more
<1>1. \A s : DecodePayloadEncoding(s) =
        IF kind(s).ok /\ kind(s).value = 0 /\ format(s).ok
        THEN Taken([kind |-> "standard", format |-> format(s).value], format(s).rest)
        ELSE IF /\ kind(s).ok /\ kind(s).value = 1 /\ id(s).ok /\ contentType(s).ok
                /\ <<id(s).value, contentType(s).value>> \in Customs
        THEN Taken([kind |-> "custom", custom |-> <<id(s).value, contentType(s).value>>],
                   contentType(s).rest)
        ELSE Refused
  BY DEF DecodePayloadEncoding
<1>2. Continues(kind(src), kind(long), more)
  BY CellContinues
<1>3. kind(src).ok => /\ kind(src).rest \in Cells
                      /\ kind(long).rest = kind(src).rest \o more
  BY <1>2 DEF Continues, Taken
<1>4. kind(src).ok => Continues(format(src), format(long), more)
  <2> HIDE DEF kind
  <2> QED
    BY <1>3, EnumContinues
<1>5. kind(src).ok => Continues(id(src), id(long), more)
  <2> HIDE DEF kind
  <2> QED
    BY <1>3, StringContinues
<1>6. kind(src).ok /\ id(src).ok => /\ id(src).rest \in Cells
                                    /\ id(long).rest = id(src).rest \o more
  <2> HIDE DEF id
  <2> QED
    BY <1>5 DEF Continues, Taken
<1>7. kind(src).ok /\ id(src).ok => Continues(contentType(src), contentType(long), more)
  <2> HIDE DEF id
  <2> QED
    BY <1>6, StringContinues
<1> HIDE DEF kind, format, id, contentType
<1> DEFINE A(s) == kind(s).ok /\ kind(s).value = 0 /\ format(s).ok
           B(s) == /\ kind(s).ok /\ kind(s).value = 1 /\ id(s).ok /\ contentType(s).ok
                   /\ <<id(s).value, contentType(s).value>> \in Customs
<1>8. CASE A(src)
  <2> DEFINE value == [kind |-> "standard", format |-> format(src).value]
  <2>1. kind(long).ok /\ kind(long).value = 0
    BY <1>2, <1>8 DEF Continues, Taken
  <2>2. /\ format(long).ok /\ format(long).value = format(src).value
        /\ format(long).rest = format(src).rest \o more /\ format(src).rest \in Cells
    BY <1>4, <1>8 DEF Continues, Taken
  <2>3. DecodePayloadEncoding(src) = Taken(value, format(src).rest)
        /\ DecodePayloadEncoding(long) = Taken(value, format(src).rest \o more)
    BY <1>1, <1>8, <2>1, <2>2
  <2> HIDE DEF value
  <2> QED
    BY <2>2, <2>3 DEF Continues, Taken
<1>9. CASE B(src)
  <2> DEFINE value == [kind |-> "custom", custom |-> <<id(src).value, contentType(src).value>>]
  <2>1. kind(long).ok /\ kind(long).value = 1
    BY <1>2, <1>9 DEF Continues, Taken
  <2>2. id(long).ok /\ id(long).value = id(src).value
    BY <1>5, <1>9 DEF Continues, Taken
  <2>3. /\ contentType(long).ok /\ contentType(long).value = contentType(src).value
        /\ contentType(long).rest = contentType(src).rest \o more
        /\ contentType(src).rest \in Cells
    BY <1>7, <1>9 DEF Continues, Taken
  <2>4. B(long) /\ ~A(src) /\ ~A(long)
    BY <1>9, <2>1, <2>2, <2>3
  <2>5. DecodePayloadEncoding(src) = Taken(value, contentType(src).rest)
    BY <1>1, <1>9, <2>4
  <2>6. DecodePayloadEncoding(long) = Taken(value, contentType(long).rest)
    <3>1. value = [kind |-> "custom", custom |-> <<id(long).value, contentType(long).value>>]
      BY <2>2, <2>3
    <3> HIDE DEF value
    <3> QED
      BY <1>1, <2>4, <3>1
  <2> HIDE DEF value
  <2> QED
    BY <2>3, <2>5, <2>6 DEF Continues, Taken
<1>10. CASE ~A(src) /\ ~B(src)
  BY <1>1, <1>10 DEF Continues, Refused
<1> QED
  BY <1>8, <1>9, <1>10

\* What take_optional_... takes of src, if its value is taken by some.
OptionTaken(src, some) ==
    LET flag == Among(TakeCell(src), {0, 1}) IN
    IF flag.ok /\ flag.value = 0 THEN Taken(<<>>, flag.rest)
    ELSE IF flag.ok /\ some.ok THEN Taken(<<some.value>>, some.rest)
    ELSE Refused

\* The cells behind the flag.
BehindFlag(src) == Among(TakeCell(src), {0, 1}).rest

LEMMA OptionContinues ==
    ASSUME NEW src \in Cells, NEW more \in Cells, NEW some, NEW someLonger,
           (BehindFlag(src) \in Cells /\ BehindFlag(src \o more) = BehindFlag(src) \o more)
               => Continues(some, someLonger, more)
    PROVE  Continues(OptionTaken(src, some), OptionTaken(src \o more, someLonger), more)
<1> DEFINE flag == Among(TakeCell(src), {0, 1})
           long == Among(TakeCell(src \o more), {0, 1})
<1>1. Continues(flag, long, more)
  BY CellContinues, AmongContinues
<1>2. BehindFlag(src) = flag.rest /\ BehindFlag(src \o more) = long.rest
  BY DEF BehindFlag
<1>3. /\ OptionTaken(src, some) =
            IF flag.ok /\ flag.value = 0 THEN Taken(<<>>, flag.rest)
            ELSE IF flag.ok /\ some.ok THEN Taken(<<some.value>>, some.rest)
            ELSE Refused
      /\ OptionTaken(src \o more, someLonger) =
            IF long.ok /\ long.value = 0 THEN Taken(<<>>, long.rest)
            ELSE IF long.ok /\ someLonger.ok THEN Taken(<<someLonger.value>>, someLonger.rest)
            ELSE Refused
  BY DEF OptionTaken
<1> HIDE DEF flag, long
<1>4. CASE flag.ok
  <2>1. long.ok /\ long.value = flag.value /\ long.rest = flag.rest \o more /\ flag.rest \in Cells
    BY <1>1, <1>4 DEF Continues, Taken
  <2>2. Continues(some, someLonger, more)
    BY <1>2, <2>1
  <2>3. CASE flag.value = 0
    <3>1. OptionTaken(src, some) = Taken(<<>>, flag.rest)
          /\ OptionTaken(src \o more, someLonger) = Taken(<<>>, flag.rest \o more)
      BY <1>3, <1>4, <2>1, <2>3
    <3> QED
      BY <2>1, <3>1 DEF Continues, Taken
  <2>4. CASE flag.value # 0 /\ some.ok
    <3>1. someLonger.ok /\ someLonger.value = some.value /\ someLonger.rest = some.rest \o more
          /\ some.rest \in Cells
      BY <2>2, <2>4 DEF Continues, Taken
    <3>2. OptionTaken(src, some) = Taken(<<some.value>>, some.rest)
          /\ OptionTaken(src \o more, someLonger) = Taken(<<some.value>>, some.rest \o more)
      BY <1>3, <1>4, <2>1, <2>4, <3>1
    <3> QED
      BY <3>1, <3>2 DEF Continues, Taken
  <2>5. CASE flag.value # 0 /\ ~some.ok
    BY <1>3, <2>5 DEF Continues, Refused
  <2> QED
    BY <2>3, <2>4, <2>5
<1>5. CASE ~flag.ok
  BY <1>3, <1>5 DEF Continues, Refused
<1> QED
  BY <1>4, <1>5

\* take_optional_... for each kind of value there is.
LEMMA OptionsTaken ==
    ASSUME NEW src
    PROVE  /\ TakeOptionalU32(src) = OptionTaken(src, TakeCell(BehindFlag(src)))
           /\ TakeOptionalUuid(src) = OptionTaken(src, TakeUuid(BehindFlag(src)))
           /\ TakeOptionalString(src) = OptionTaken(src, TakeString(BehindFlag(src)))
           /\ TakeOptionalCode(src) = OptionTaken(src, TakeCode(BehindFlag(src)))
           /\ TakeOptionalEncoding(src) =
                 OptionTaken(src, DecodePayloadEncoding(BehindFlag(src)))
BY DEF TakeOptionalU32, TakeOptionalUuid, TakeOptionalString, TakeOptionalCode,
       TakeOptionalEncoding, TakeOptional, OptionTaken, BehindFlag

LEMMA OptionsContinue ==
    ASSUME NEW src \in Cells, NEW more \in Cells
    PROVE  /\ Continues(TakeOptionalU32(src), TakeOptionalU32(src \o more), more)
           /\ Continues(TakeOptionalUuid(src), TakeOptionalUuid(src \o more), more)
           /\ Continues(TakeOptionalString(src), TakeOptionalString(src \o more), more)
           /\ Continues(TakeOptionalCode(src), TakeOptionalCode(src \o more), more)
           /\ Continues(TakeOptionalEncoding(src), TakeOptionalEncoding(src \o more), more)
<1> DEFINE behind == BehindFlag(src)
           long == BehindFlag(src \o more)
<1> HIDE DEF behind, long
<1>1. behind \in Cells /\ long = behind \o more =>
        /\ Continues(TakeCell(behind), TakeCell(long), more)
        /\ Continues(TakeUuid(behind), TakeUuid(long), more)
        /\ Continues(TakeString(behind), TakeString(long), more)
        /\ Continues(TakeCode(behind), TakeCode(long), more)
        /\ Continues(DecodePayloadEncoding(behind), DecodePayloadEncoding(long), more)
  BY CellContinues, UuidContinues, StringContinues, EnumContinues, EncodingContinues
<1> USE DEF behind, long
<1>2. Continues(TakeOptionalU32(src), TakeOptionalU32(src \o more), more)
  BY <1>1, OptionsTaken, OptionContinues
<1>3. Continues(TakeOptionalUuid(src), TakeOptionalUuid(src \o more), more)
  BY <1>1, OptionsTaken, OptionContinues
<1>4. Continues(TakeOptionalString(src), TakeOptionalString(src \o more), more)
  BY <1>1, OptionsTaken, OptionContinues
<1>5. Continues(TakeOptionalCode(src), TakeOptionalCode(src \o more), more)
  BY <1>1, OptionsTaken, OptionContinues
<1>6. Continues(TakeOptionalEncoding(src), TakeOptionalEncoding(src \o more), more)
  BY <1>1, OptionsTaken, OptionContinues
<1> QED
  BY <1>2, <1>3, <1>4, <1>5, <1>6

-----------------------------------------------------------------------------
(* All fields *)

\* The fields taken so far and the next one.
Joined(taken, next) ==
    IF taken.ok /\ next.ok THEN Taken(Append(taken.value, next.value), next.rest) ELSE Refused

\* One field after the other.
LEMMA FieldsJoined ==
    ASSUME NEW src
    PROVE  /\ ToId(src) = Joined(Taken(<<>>, src), TakeUuid(src))
           /\ ToMessageType(src) = Joined(ToId(src), TakeMessageType(ToId(src).rest))
           /\ ToPriority(src) = Joined(ToMessageType(src), TakePriority(ToMessageType(src).rest))
           /\ ToTtl(src) = Joined(ToPriority(src), TakeOptionalU32(ToPriority(src).rest))
           /\ ToSource(src) = Joined(ToTtl(src), TakeUri(ToTtl(src).rest))
           /\ ToSink(src) = Joined(ToSource(src), TakeSink(ToSource(src).rest))
           /\ ToEncoding(src) = Joined(ToSink(src), TakeOptionalEncoding(ToSink(src).rest))
           /\ ToRequestId(src) = Joined(ToEncoding(src), TakeOptionalUuid(ToEncoding(src).rest))
           /\ ToTraceparent(src) = Joined(ToRequestId(src), TakeOptionalString(ToRequestId(src).rest))
           /\ ToToken(src) = Joined(ToTraceparent(src), TakeOptionalString(ToTraceparent(src).rest))
           /\ ToPermissionLevel(src) = Joined(ToToken(src), TakeOptionalU32(ToToken(src).rest))
           /\ TakeFields(src) = Joined(ToPermissionLevel(src), TakeOptionalCode(ToPermissionLevel(src).rest))
<1>1. ToId(src) = Joined(Taken(<<>>, src), TakeUuid(src))
  BY DEF ToId, Then, Joined, Taken
<1>2. ToMessageType(src) = Joined(ToId(src), TakeMessageType(ToId(src).rest))
  BY DEF ToMessageType, Then, Joined
<1>3. ToPriority(src) = Joined(ToMessageType(src), TakePriority(ToMessageType(src).rest))
  BY DEF ToPriority, Then, Joined
<1>4. ToTtl(src) = Joined(ToPriority(src), TakeOptionalU32(ToPriority(src).rest))
  BY DEF ToTtl, Then, Joined
<1>5. ToSource(src) = Joined(ToTtl(src), TakeUri(ToTtl(src).rest))
  BY DEF ToSource, Then, Joined
<1>6. ToSink(src) = Joined(ToSource(src), TakeSink(ToSource(src).rest))
  BY DEF ToSink, Then, Joined
<1>7. ToEncoding(src) = Joined(ToSink(src), TakeOptionalEncoding(ToSink(src).rest))
  BY DEF ToEncoding, Then, Joined
<1>8. ToRequestId(src) = Joined(ToEncoding(src), TakeOptionalUuid(ToEncoding(src).rest))
  BY DEF ToRequestId, Then, Joined
<1>9. ToTraceparent(src) = Joined(ToRequestId(src), TakeOptionalString(ToRequestId(src).rest))
  BY DEF ToTraceparent, Then, Joined
<1>10. ToToken(src) = Joined(ToTraceparent(src), TakeOptionalString(ToTraceparent(src).rest))
  BY DEF ToToken, Then, Joined
<1>11. ToPermissionLevel(src) = Joined(ToToken(src), TakeOptionalU32(ToToken(src).rest))
  BY DEF ToPermissionLevel, Then, Joined
<1>12. TakeFields(src) = Joined(ToPermissionLevel(src), TakeOptionalCode(ToPermissionLevel(src).rest))
  BY DEF TakeFields, Then, Joined
<1> QED
  BY <1>1, <1>2, <1>3, <1>4, <1>5, <1>6, <1>7, <1>8, <1>9, <1>10, <1>11, <1>12

LEMMA JoinedContinues ==
    ASSUME NEW taken, NEW longer, NEW more, Continues(taken, longer, more),
           NEW next, NEW nextLonger,
           taken.ok => Continues(next, nextLonger, more)
    PROVE  Continues(Joined(taken, next), Joined(longer, nextLonger), more)
<1>1. CASE taken.ok /\ next.ok
  <2> DEFINE value == Append(taken.value, next.value)
  <2>1. /\ longer.ok /\ longer.value = taken.value
        /\ nextLonger.ok /\ nextLonger.value = next.value /\ nextLonger.rest = next.rest \o more
        /\ next.rest \in Cells
    BY <1>1 DEF Continues, Taken
  <2>2. Joined(taken, next) = Taken(value, next.rest)
        /\ Joined(longer, nextLonger) = Taken(value, next.rest \o more)
    BY <1>1, <2>1 DEF Joined
  <2> HIDE DEF value
  <2> QED
    BY <2>1, <2>2 DEF Continues, Taken
<1>2. CASE ~(taken.ok /\ next.ok)
  BY <1>2 DEF Joined, Continues, Refused
<1> QED
  BY <1>1, <1>2

\* What is left behind what was taken.
LEMMA BehindTaken ==
    ASSUME NEW taken, NEW longer, NEW more, Continues(taken, longer, more), taken.ok
    PROVE  taken.rest \in Cells /\ longer.rest = taken.rest \o more
BY DEF Continues, Taken

\* What decode_metadata makes of cells does not depend on those behind them.
LEMMA FieldsContinue ==
    ASSUME NEW src \in Cells, NEW more \in Cells
    PROVE  Continues(TakeFields(src), TakeFields(src \o more), more)
<1> DEFINE long == src \o more
<1>1. Continues(ToId(src), ToId(long), more)
  <2>1. Continues(Taken(<<>>, src), Taken(<<>>, long), more)
    BY DEF Continues, Taken
  <2>2. Continues(TakeUuid(src), TakeUuid(long), more)
    BY UuidContinues
  <2> HIDE DEF long
  <2> QED
    BY <2>1, <2>2, FieldsJoined, JoinedContinues
<1> HIDE DEF long
<1>2. Continues(ToMessageType(src), ToMessageType(long), more)
  <2>1. ToId(src).ok =>
          Continues(TakeMessageType(ToId(src).rest), TakeMessageType(ToId(long).rest), more)
    BY <1>1, BehindTaken, EnumContinues
  <2> QED
    BY <1>1, <2>1, FieldsJoined, JoinedContinues
<1>3. Continues(ToPriority(src), ToPriority(long), more)
  <2>1. ToMessageType(src).ok =>
          Continues(TakePriority(ToMessageType(src).rest), TakePriority(ToMessageType(long).rest), more)
    BY <1>2, BehindTaken, EnumContinues
  <2> QED
    BY <1>2, <2>1, FieldsJoined, JoinedContinues
<1>4. Continues(ToTtl(src), ToTtl(long), more)
  <2>1. ToPriority(src).ok =>
          Continues(TakeOptionalU32(ToPriority(src).rest), TakeOptionalU32(ToPriority(long).rest), more)
    BY <1>3, BehindTaken, OptionsContinue
  <2> QED
    BY <1>3, <2>1, FieldsJoined, JoinedContinues
<1>5. Continues(ToSource(src), ToSource(long), more)
  <2>1. ToTtl(src).ok =>
          Continues(TakeUri(ToTtl(src).rest), TakeUri(ToTtl(long).rest), more)
    BY <1>4, BehindTaken, UriContinues
  <2> QED
    BY <1>4, <2>1, FieldsJoined, JoinedContinues
<1>6. Continues(ToSink(src), ToSink(long), more)
  <2>1. ToSource(src).ok =>
          Continues(TakeSink(ToSource(src).rest), TakeSink(ToSource(long).rest), more)
    BY <1>5, BehindTaken, SinkContinues
  <2> QED
    BY <1>5, <2>1, FieldsJoined, JoinedContinues
<1>7. Continues(ToEncoding(src), ToEncoding(long), more)
  <2>1. ToSink(src).ok =>
          Continues(TakeOptionalEncoding(ToSink(src).rest), TakeOptionalEncoding(ToSink(long).rest), more)
    BY <1>6, BehindTaken, OptionsContinue
  <2> QED
    BY <1>6, <2>1, FieldsJoined, JoinedContinues
<1>8. Continues(ToRequestId(src), ToRequestId(long), more)
  <2>1. ToEncoding(src).ok =>
          Continues(TakeOptionalUuid(ToEncoding(src).rest), TakeOptionalUuid(ToEncoding(long).rest), more)
    BY <1>7, BehindTaken, OptionsContinue
  <2> QED
    BY <1>7, <2>1, FieldsJoined, JoinedContinues
<1>9. Continues(ToTraceparent(src), ToTraceparent(long), more)
  <2>1. ToRequestId(src).ok =>
          Continues(TakeOptionalString(ToRequestId(src).rest), TakeOptionalString(ToRequestId(long).rest), more)
    BY <1>8, BehindTaken, OptionsContinue
  <2> QED
    BY <1>8, <2>1, FieldsJoined, JoinedContinues
<1>10. Continues(ToToken(src), ToToken(long), more)
  <2>1. ToTraceparent(src).ok =>
          Continues(TakeOptionalString(ToTraceparent(src).rest), TakeOptionalString(ToTraceparent(long).rest), more)
    BY <1>9, BehindTaken, OptionsContinue
  <2> QED
    BY <1>9, <2>1, FieldsJoined, JoinedContinues
<1>11. Continues(ToPermissionLevel(src), ToPermissionLevel(long), more)
  <2>1. ToToken(src).ok =>
          Continues(TakeOptionalU32(ToToken(src).rest), TakeOptionalU32(ToToken(long).rest), more)
    BY <1>10, BehindTaken, OptionsContinue
  <2> QED
    BY <1>10, <2>1, FieldsJoined, JoinedContinues
<1>12. Continues(TakeFields(src), TakeFields(long), more)
  <2>1. ToPermissionLevel(src).ok =>
          Continues(TakeOptionalCode(ToPermissionLevel(src).rest), TakeOptionalCode(ToPermissionLevel(long).rest), more)
    BY <1>11, BehindTaken, OptionsContinue
  <2> QED
    BY <1>11, <2>1, FieldsJoined, JoinedContinues
<1> QED
  BY <1>12 DEF long

-----------------------------------------------------------------------------
(* What was written is taken *)

\* w is written for the value x, and taken of it is x and nothing else.
Reads(w, x, taken) == w \in Cells /\ taken = Taken(x, <<>>)

\* It is then taken with more cells behind, which are left.
LEMMA ReadsContinue ==
    ASSUME NEW w, NEW x, NEW taken, Reads(w, x, taken), NEW more \in Cells, NEW longer,
           Continues(taken, longer, more)
    PROVE  longer = Taken(x, more) /\ w \o more \in Cells
<1>1. taken.ok /\ taken.value = x /\ taken.rest = <<>> /\ w \in Cells
  BY DEF Reads, Taken
<1>2. <<>> \o more = more /\ w \o more \in Cells
  BY <1>1, ConcatEmptySeq, ConcatProperties DEF Cells
<1> QED
  BY <1>1, <1>2 DEF Continues

LEMMA CellRead ==
    ASSUME NEW n \in Nat, NEW more \in Cells
    PROVE  /\ TakeCell(<<n>> \o more) = Taken(n, more)
           /\ <<n>> \o more \in Cells
           /\ Reads(<<n>>, n, TakeCell(<<n>>))
<1>1. Reads(<<n>>, n, TakeCell(<<n>>))
  BY DEF Reads, TakeCell, Taken, Cells
<1>2. Continues(TakeCell(<<n>>), TakeCell(<<n>> \o more), more)
  BY <1>1, CellContinues DEF Reads
<1> QED
  BY <1>1, <1>2, ReadsContinue

LEMMA AmongRead ==
    ASSUME NEW w, NEW x, NEW taken, Reads(w, x, taken), NEW S, x \in S
    PROVE  Reads(w, x, Among(taken, S))
BY DEF Reads, Among, Taken

LEMMA AllBytes ==
    ASSUME NEW text \in Cells
    PROVE  TakeBytes(text, Len(text)) = Taken(text, <<>>)
<1>1. Len(text) \in Nat
  BY LenProperties DEF Cells
<1>2. SubSeq(text, 1, Len(text)) = text
  BY SubSeqFull DEF Cells
<1>3. SubSeq(text, Len(text) + 1, Len(text)) = <<>>
  BY <1>1, SubSeqEmpty
<1>4. ~(Len(text) < Len(text))
  BY <1>1
<1> QED
  BY <1>2, <1>3, <1>4 DEF TakeBytes

LEMMA UuidRead ==
    ASSUME NEW uuid \in Uuids
    PROVE  Reads(WriteUuid(uuid), uuid, TakeUuid(WriteUuid(uuid)))
<1>1. uuid \in Nat \X Nat
  BY CodecAssumption
<1>2. WriteUuid(uuid) = uuid
  BY <1>1 DEF WriteUuid
<1>3. uuid \in Cells /\ Len(uuid) = 2
  <2>1. uuid = <<uuid[1], uuid[2]>> /\ uuid[1] \in Nat /\ uuid[2] \in Nat
    BY <1>1
  <2>2. \A a, b \in Nat : <<a, b>> \in Seq(Nat) /\ Len(<<a, b>>) = 2
    OBVIOUS
  <2> QED
    BY <2>1, <2>2 DEF Cells
<1>4. TakeBytes(uuid, 2) = Taken(uuid, <<>>)
  BY <1>3, AllBytes
<1> QED
  BY <1>2, <1>3, <1>4, AmongRead DEF TakeUuid, Reads

LEMMA StringRead ==
    ASSUME NEW text \in Text
    PROVE  Reads(AppendString(text), text, TakeString(AppendString(text)))
<1>1. text \in Cells
  BY CodecAssumption, SeqMonotonic DEF Text, Cells
<1>2. Len(text) \in Nat
  BY <1>1, LenProperties DEF Cells
<1>3. TakeCell(AppendString(text)) = Taken(Len(text), text) /\ AppendString(text) \in Cells
  BY <1>1, <1>2, CellRead DEF AppendString
<1>4. TakeString(AppendString(text)) = Among(TakeBytes(text, Len(text)), Text)
  BY <1>3 DEF TakeString, Taken
<1> QED
  BY <1>1, <1>3, <1>4, AllBytes, AmongRead DEF Reads

\* An Option is none, or has a value.
LEMMA OptionCases ==
    ASSUME NEW S, NEW option \in Option(S)
    PROVE  option = <<>> \/ (option = <<option[1]>> /\ option[1] \in S)
<1>1. option \in Seq(S) /\ Len(option) <= 1 /\ Len(option) \in Nat
  BY LenProperties DEF Option
<1>2. CASE option # <<>>
  <2>1. Len(option) = 1
    <3>1. Len(option) # 0
      BY <1>1, <1>2
    <3>2. \A n \in Nat : n <= 1 /\ n # 0 => n = 1
      OBVIOUS
    <3> DEFINE n == Len(option)
    <3>3. n \in Nat /\ n <= 1 /\ n # 0
      BY <1>1, <3>1
    <3> HIDE DEF n
    <3>4. n = 1
      BY <3>2, <3>3
    <3> QED
      BY <3>4 DEF n
  <2>2. option[1] \in S
    BY <1>1, <2>1, ElementOfSeq
  <2>3. <<option[1]>> \in Seq(S) /\ Len(<<option[1]>>) = 1
    BY <2>2
  <2>4. \A i \in 1..Len(option) : option[i] = <<option[1]>>[i]
    BY <2>1
  <2>5. option = <<option[1]>>
    BY <1>1, <2>1, <2>3, <2>4, SeqEqual
  <2> QED
    BY <2>2, <2>5
<1> QED
  BY <1>2

LEMMA UriRead ==
    ASSUME NEW uri \in Uris
    PROVE  Reads(AppendString(uri), uri, TakeUri(AppendString(uri)))
BY CodecAssumption, StringRead, AmongRead DEF TakeUri

\* No text is written for a sink that is empty, and none that is there is empty.
LEMMA SinkRead ==
    ASSUME NEW sink \in Option(Uris)
    PROVE  Reads(WriteSink(sink), sink, TakeSink(WriteSink(sink)))
<1> DEFINE text == IF sink = <<>> THEN <<>> ELSE sink[1]
<1>1. sink = <<>> \/ (sink = <<sink[1]>> /\ sink[1] \in Uris)
  BY OptionCases
<1>2. /\ text \in Text /\ text \in Uris \cup {<<>>}
      /\ (IF text = <<>> THEN <<>> ELSE <<text>>) = sink
  <2>1. <<>> \in Text
    BY EmptySeq DEF Text
  <2>2. CASE sink = <<>>
    BY <2>1, <2>2
  <2>3. CASE sink # <<>>
    <3>1. sink[1] \in Text /\ sink[1] # <<>>
      BY <1>1, <2>3, CodecAssumption
    <3> QED
      BY <1>1, <2>3, <3>1
  <2> QED
    BY <2>2, <2>3
<1>3. WriteSink(sink) = AppendString(text)
  BY DEF WriteSink
<1> HIDE DEF text
<1>4. Reads(AppendString(text), text, Among(TakeString(AppendString(text)), Uris \cup {<<>>}))
  BY <1>2, StringRead, AmongRead
<1>5. Among(TakeString(AppendString(text)), Uris \cup {<<>>}) = Taken(text, <<>>)
      /\ Taken(text, <<>>).ok /\ Taken(text, <<>>).value = text /\ Taken(text, <<>>).rest = <<>>
  BY <1>4 DEF Reads, Taken
<1>6. TakeSink(AppendString(text)) = Taken(IF text = <<>> THEN <<>> ELSE <<text>>, <<>>)
  BY <1>5 DEF TakeSink
<1> QED
  BY <1>2, <1>3, <1>4, <1>6 DEF Reads

LEMMA EnumRead ==
    /\ \A x \in MessageTypes : Reads(WriteCell(MessageTypeToByte[x]), x,
                                     TakeMessageType(WriteCell(MessageTypeToByte[x])))
    /\ \A x \in Priorities : Reads(WriteCell(PriorityToByte[x]), x,
                                   TakePriority(WriteCell(PriorityToByte[x])))
    /\ \A x \in Formats : Reads(WriteCell(x), x, TakeFormat(WriteCell(x)))
    /\ \A x \in Codes : Reads(WriteCell(x), x, TakeCode(WriteCell(x)))
    /\ \A x \in U32 : Reads(WriteCell(x), x, TakeCell(WriteCell(x)))
<1>0. \A n \in Nat : \A S : n \in S => Among(TakeCell(WriteCell(n)), S) = Taken(n, <<>>)
                                   /\ WriteCell(n) \in Cells
  <2> SUFFICES ASSUME NEW n \in Nat, NEW S, n \in S
               PROVE  Reads(WriteCell(n), n, Among(TakeCell(WriteCell(n)), S))
    BY DEF Reads
  <2>1. <<>> \in Cells
    BY EmptySeq DEF Cells
  <2> QED
    BY <2>1, CellRead, AmongRead DEF WriteCell
<1>1. ASSUME NEW x \in MessageTypes
      PROVE  Reads(WriteCell(MessageTypeToByte[x]), x,
                   TakeMessageType(WriteCell(MessageTypeToByte[x])))
  <2> DEFINE n == MessageTypeToByte[x]
  <2>1. n \in 1..4 /\ <<"Publish", "Notification", "Request", "Response">>[n] = x
    BY DEF MessageTypes, MessageTypeToByte
  <2> HIDE DEF n
  <2>2. Among(TakeCell(WriteCell(n)), 1..4) = Taken(n, <<>>) /\ WriteCell(n) \in Cells
    BY <1>0, <2>1
  <2>3. Taken(n, <<>>).ok /\ Taken(n, <<>>).value = n /\ Taken(n, <<>>).rest = <<>>
    BY DEF Taken
  <2>4. TakeMessageType(WriteCell(n)) = Taken(x, <<>>)
    BY <2>1, <2>2, <2>3 DEF TakeMessageType
  <2> QED
    BY <2>2, <2>4 DEF Reads, n
<1>2. ASSUME NEW x \in Priorities
      PROVE  Reads(WriteCell(PriorityToByte[x]), x, TakePriority(WriteCell(PriorityToByte[x])))
  <2> DEFINE n == PriorityToByte[x]
  <2>1. n \in 0..6 /\ <<"CS0", "CS1", "CS2", "CS3", "CS4", "CS5", "CS6">>[n + 1] = x
    BY DEF Priorities, PriorityToByte
  <2> HIDE DEF n
  <2>2. Among(TakeCell(WriteCell(n)), 0..6) = Taken(n, <<>>) /\ WriteCell(n) \in Cells
    <3>1. n \in 0..6 /\ n \in Nat
      BY <2>1
    <3> QED
      BY <1>0, <3>1, Zenon
  <2>3. Taken(n, <<>>).ok /\ Taken(n, <<>>).value = n /\ Taken(n, <<>>).rest = <<>>
    BY DEF Taken
  <2>4. TakePriority(WriteCell(n)) = Taken(x, <<>>)
    BY <2>1, <2>2, <2>3 DEF TakePriority
  <2> QED
    BY <2>2, <2>4 DEF Reads, n
<1>3. \A x \in Formats : Reads(WriteCell(x), x, TakeFormat(WriteCell(x)))
  BY <1>0, CodecAssumption DEF TakeFormat, Reads
<1>4. \A x \in Codes : Reads(WriteCell(x), x, TakeCode(WriteCell(x)))
  BY <1>0, CodecAssumption DEF TakeCode, Reads
<1>5. \A x \in U32 : Reads(WriteCell(x), x, TakeCell(WriteCell(x)))
  <2>1. <<>> \in Cells
    BY EmptySeq DEF Cells
  <2> QED
    BY <2>1, CellRead, CodecAssumption DEF WriteCell, U32
<1> QED
  BY <1>1, <1>2, <1>3, <1>4, <1>5

\* A standard encoding is one of the formats; a custom one is two texts.
LEMMA EncodingRead ==
    ASSUME NEW encoding \in Encoding
    PROVE  Reads(EncodePayloadEncoding(encoding), encoding,
                 DecodePayloadEncoding(EncodePayloadEncoding(encoding)))
<1> DEFINE w == EncodePayloadEncoding(encoding)
           kind == TakeCell(w)
           format == TakeFormat(kind.rest)
           id == TakeString(kind.rest)
           contentType == TakeString(id.rest)
<1>0. DecodePayloadEncoding(w) =
        IF kind.ok /\ kind.value = 0 /\ format.ok
        THEN Taken([kind |-> "standard", format |-> format.value], format.rest)
        ELSE IF /\ kind.ok /\ kind.value = 1 /\ id.ok /\ contentType.ok
                /\ <<id.value, contentType.value>> \in Customs
        THEN Taken([kind |-> "custom", custom |-> <<id.value, contentType.value>>],
                   contentType.rest)
        ELSE Refused
  BY DEF DecodePayloadEncoding
<1>1. CASE encoding \in [kind : {"standard"}, format : Formats]
  <2>1. /\ encoding = [kind |-> "standard", format |-> encoding.format]
        /\ encoding.kind = "standard" /\ encoding.format \in Formats
    BY <1>1
  <2>2. encoding.format \in Nat
    BY <2>1, CodecAssumption
  <2>3. w = <<0>> \o <<encoding.format>>
    BY <2>1 DEF EncodePayloadEncoding
  <2>4. Reads(<<encoding.format>>, encoding.format, TakeFormat(<<encoding.format>>))
    BY <2>1, EnumRead DEF WriteCell
  <2>5. kind = Taken(0, <<encoding.format>>) /\ w \in Cells
    BY <2>3, <2>4, CellRead DEF Reads
  <2>6. format = Taken(encoding.format, <<>>)
    BY <2>4, <2>5 DEF Reads, Taken
  <2>7. kind.ok /\ kind.value = 0 /\ format.ok /\ format.value = encoding.format /\ format.rest = <<>>
    BY <2>5, <2>6 DEF Taken
  <2> HIDE DEF w, kind, format, id, contentType
  <2> QED
    BY <1>0, <2>1, <2>5, <2>7 DEF Reads, w
<1>2. CASE encoding \in [kind : {"custom"}, custom : Customs]
  <2> DEFINE a == encoding.custom[1]
             b == encoding.custom[2]
  <2>1. /\ encoding = [kind |-> "custom", custom |-> encoding.custom]
        /\ encoding.kind = "custom" /\ encoding.custom \in Customs
    BY <1>2
  <2>2. encoding.custom = <<a, b>> /\ a \in Text /\ b \in Text
    BY <2>1, CodecAssumption
  <2>3. w = (<<1>> \o AppendString(a)) \o AppendString(b)
    BY <2>1 DEF EncodePayloadEncoding
  <2> HIDE DEF a, b
  <2>4. Reads(AppendString(a), a, TakeString(AppendString(a)))
        /\ Reads(AppendString(b), b, TakeString(AppendString(b)))
    BY <2>2, StringRead
  <2>5. AppendString(a) \in Cells /\ AppendString(b) \in Cells
    BY <2>4 DEF Reads
  <2>6. TakeString(AppendString(a) \o AppendString(b)) = Taken(a, AppendString(b))
        /\ AppendString(a) \o AppendString(b) \in Cells
    BY <2>4, <2>5, StringContinues, ReadsContinue
  <2>7. w = <<1>> \o (AppendString(a) \o AppendString(b))
    <3>1. <<1>> \in Cells
      BY DEF Cells
    <3> QED
      BY <2>3, <2>5, <3>1, ConcatAssociative DEF Cells
  <2>8. kind = Taken(1, AppendString(a) \o AppendString(b)) /\ w \in Cells
    BY <2>6, <2>7, CellRead
  <2>9. kind.ok /\ kind.value = 1 /\ kind.rest = AppendString(a) \o AppendString(b)
    BY <2>8 DEF Taken
  <2>10. id.ok /\ id.value = a /\ id.rest = AppendString(b)
    BY <2>6, <2>9 DEF Taken
  <2>11. contentType.ok /\ contentType.value = b /\ contentType.rest = <<>>
    BY <2>4, <2>10 DEF Reads, Taken
  <2> HIDE DEF w, kind, format, id, contentType
  <2>12. DecodePayloadEncoding(w) = Taken([kind |-> "custom", custom |-> <<a, b>>], <<>>)
    BY <1>0, <2>1, <2>2, <2>9, <2>10, <2>11
  <2> QED
    BY <2>1, <2>2, <2>8, <2>12 DEF Reads, w
<1> QED
  BY <1>1, <1>2 DEF Encoding

\* What write_optional_... writes, if some is written for the value.
OptionWritten(option, some) == IF option = <<>> THEN <<0>> ELSE <<1>> \o some

LEMMA OptionRead ==
    ASSUME NEW S, NEW option \in Option(S), NEW some, NEW taken,
           option # <<>> => Reads(some, option[1], taken),
           NEW w, w = OptionWritten(option, some)
    PROVE  /\ Reads(w, option, OptionTaken(w, taken))
           /\ option # <<>> => BehindFlag(w) = some
<1>1. option = <<>> \/ (option = <<option[1]>> /\ option[1] \in S)
  BY OptionCases
<1>2. CASE option = <<>>
  <2>1. w = <<0>>
    BY <1>2 DEF OptionWritten
  <2>2. Reads(w, 0, TakeCell(w))
    BY <2>1, CellRead, EmptySeq DEF Cells
  <2>3. Reads(w, 0, Among(TakeCell(w), {0, 1}))
    BY <2>2, AmongRead
  <2>4. w \in Cells /\ Among(TakeCell(w), {0, 1}) = Taken(0, <<>>)
    BY <2>3 DEF Reads
  <2>5. Taken(0, <<>>).ok /\ Taken(0, <<>>).value = 0 /\ Taken(0, <<>>).rest = <<>>
    BY DEF Taken
  <2>6. OptionTaken(w, taken) = Taken(<<>>, <<>>)
    BY <2>4, <2>5 DEF OptionTaken
  <2> QED
    BY <1>2, <2>4, <2>6 DEF Reads
<1>3. CASE option # <<>>
  <2>1. w = <<1>> \o some /\ Reads(some, option[1], taken) /\ some \in Cells
    BY <1>3 DEF OptionWritten, Reads
  <2>2. TakeCell(w) = Taken(1, some) /\ w \in Cells
    BY <2>1, CellRead
  <2>3. Among(TakeCell(w), {0, 1}) = Taken(1, some)
    BY <2>2 DEF Among, Taken
  <2>4. taken.ok /\ taken.value = option[1] /\ taken.rest = <<>>
    BY <2>1 DEF Reads, Taken
  <2>5. OptionTaken(w, taken) = Taken(<<taken.value>>, taken.rest) /\ BehindFlag(w) = some
    BY <2>3, <2>4 DEF OptionTaken, BehindFlag, Taken
  <2> QED
    BY <1>1, <1>3, <2>2, <2>4, <2>5 DEF Reads
<1> QED
  BY <1>2, <1>3

\* Nothing is taken for a value that is not there.
LEMMA NoneTaken ==
    ASSUME NEW some, NEW other
    PROVE  OptionTaken(<<0>>, some) = OptionTaken(<<0>>, other)
BY DEF OptionTaken, TakeCell, Among, Taken

LEMMA OptionsWritten ==
    ASSUME NEW option
    PROVE  /\ WriteOptionalU32(option) = OptionWritten(option, WriteCell(option[1]))
           /\ WriteOptionalUuid(option) = OptionWritten(option, WriteUuid(option[1]))
           /\ WriteOptionalString(option) = OptionWritten(option, AppendString(option[1]))
           /\ WriteOptionalCode(option) = OptionWritten(option, WriteCell(option[1]))
           /\ WriteOptional(option, EncodePayloadEncoding) =
                 OptionWritten(option, EncodePayloadEncoding(option[1]))
BY DEF WriteOptionalU32, WriteOptionalUuid, WriteOptionalString, WriteOptionalCode,
       WriteOptional, OptionWritten

LEMMA OptionsRead ==
    /\ \A x \in Option(U32) :
          Reads(WriteOptionalU32(x), x, TakeOptionalU32(WriteOptionalU32(x)))
    /\ \A x \in Option(Uuids) :
          Reads(WriteOptionalUuid(x), x, TakeOptionalUuid(WriteOptionalUuid(x)))
    /\ \A x \in Option(Text) :
          Reads(WriteOptionalString(x), x, TakeOptionalString(WriteOptionalString(x)))
    /\ \A x \in Option(Codes) :
          Reads(WriteOptionalCode(x), x, TakeOptionalCode(WriteOptionalCode(x)))
    /\ \A x \in Option(Encoding) :
          Reads(WriteOptional(x, EncodePayloadEncoding), x,
                TakeOptionalEncoding(WriteOptional(x, EncodePayloadEncoding)))
<1>1. ASSUME NEW x \in Option(U32)
      PROVE  Reads(WriteOptionalU32(x), x, TakeOptionalU32(WriteOptionalU32(x)))
  <2> DEFINE w == WriteOptionalU32(x)
             some == WriteCell(x[1])
             taken == TakeCell(some)
  <2>1. x # <<>> => Reads(some, x[1], taken)
    BY <1>1, OptionCases, EnumRead
  <2>2. w = OptionWritten(x, some)
    BY OptionsWritten
  <2> HIDE DEF w, some, taken
  <2>3. /\ Reads(w, x, OptionTaken(w, taken))
        /\ x # <<>> => BehindFlag(w) = some
    BY <1>1, <2>1, <2>2, OptionRead
  <2>4. TakeOptionalU32(w) = OptionTaken(w, TakeCell(BehindFlag(w)))
    BY OptionsTaken
  <2>5. TakeOptionalU32(w) = OptionTaken(w, taken)
    <3>1. CASE x # <<>>
      BY <2>3, <2>4, <3>1 DEF taken
    <3>2. CASE x = <<>>
      BY <2>2, <2>4, <3>2, NoneTaken DEF OptionWritten
    <3> QED
      BY <3>1, <3>2
  <2> QED
    BY <2>3, <2>5 DEF w
<1>2. ASSUME NEW x \in Option(Uuids)
      PROVE  Reads(WriteOptionalUuid(x), x, TakeOptionalUuid(WriteOptionalUuid(x)))
  <2> DEFINE w == WriteOptionalUuid(x)
             some == WriteUuid(x[1])
             taken == TakeUuid(some)
  <2>1. x # <<>> => Reads(some, x[1], taken)
    BY <1>2, OptionCases, UuidRead
  <2>2. w = OptionWritten(x, some)
    BY OptionsWritten
  <2> HIDE DEF w, some, taken
  <2>3. /\ Reads(w, x, OptionTaken(w, taken))
        /\ x # <<>> => BehindFlag(w) = some
    BY <1>2, <2>1, <2>2, OptionRead
  <2>4. TakeOptionalUuid(w) = OptionTaken(w, TakeUuid(BehindFlag(w)))
    BY OptionsTaken
  <2>5. TakeOptionalUuid(w) = OptionTaken(w, taken)
    <3>1. CASE x # <<>>
      BY <2>3, <2>4, <3>1 DEF taken
    <3>2. CASE x = <<>>
      BY <2>2, <2>4, <3>2, NoneTaken DEF OptionWritten
    <3> QED
      BY <3>1, <3>2
  <2> QED
    BY <2>3, <2>5 DEF w
<1>3. ASSUME NEW x \in Option(Text)
      PROVE  Reads(WriteOptionalString(x), x, TakeOptionalString(WriteOptionalString(x)))
  <2> DEFINE w == WriteOptionalString(x)
             some == AppendString(x[1])
             taken == TakeString(some)
  <2>1. x # <<>> => Reads(some, x[1], taken)
    BY <1>3, OptionCases, StringRead
  <2>2. w = OptionWritten(x, some)
    BY OptionsWritten
  <2> HIDE DEF w, some, taken
  <2>3. /\ Reads(w, x, OptionTaken(w, taken))
        /\ x # <<>> => BehindFlag(w) = some
    BY <1>3, <2>1, <2>2, OptionRead
  <2>4. TakeOptionalString(w) = OptionTaken(w, TakeString(BehindFlag(w)))
    BY OptionsTaken
  <2>5. TakeOptionalString(w) = OptionTaken(w, taken)
    <3>1. CASE x # <<>>
      BY <2>3, <2>4, <3>1 DEF taken
    <3>2. CASE x = <<>>
      BY <2>2, <2>4, <3>2, NoneTaken DEF OptionWritten
    <3> QED
      BY <3>1, <3>2
  <2> QED
    BY <2>3, <2>5 DEF w
<1>4. ASSUME NEW x \in Option(Codes)
      PROVE  Reads(WriteOptionalCode(x), x, TakeOptionalCode(WriteOptionalCode(x)))
  <2> DEFINE w == WriteOptionalCode(x)
             some == WriteCell(x[1])
             taken == TakeCode(some)
  <2>1. x # <<>> => Reads(some, x[1], taken)
    BY <1>4, OptionCases, EnumRead
  <2>2. w = OptionWritten(x, some)
    BY OptionsWritten
  <2> HIDE DEF w, some, taken
  <2>3. /\ Reads(w, x, OptionTaken(w, taken))
        /\ x # <<>> => BehindFlag(w) = some
    BY <1>4, <2>1, <2>2, OptionRead
  <2>4. TakeOptionalCode(w) = OptionTaken(w, TakeCode(BehindFlag(w)))
    BY OptionsTaken
  <2>5. TakeOptionalCode(w) = OptionTaken(w, taken)
    <3>1. CASE x # <<>>
      BY <2>3, <2>4, <3>1 DEF taken
    <3>2. CASE x = <<>>
      BY <2>2, <2>4, <3>2, NoneTaken DEF OptionWritten
    <3> QED
      BY <3>1, <3>2
  <2> QED
    BY <2>3, <2>5 DEF w
<1>5. ASSUME NEW x \in Option(Encoding)
      PROVE  Reads(WriteOptional(x, EncodePayloadEncoding), x, TakeOptionalEncoding(WriteOptional(x, EncodePayloadEncoding)))
  <2> DEFINE w == WriteOptional(x, EncodePayloadEncoding)
             some == EncodePayloadEncoding(x[1])
             taken == DecodePayloadEncoding(some)
  <2>1. x # <<>> => Reads(some, x[1], taken)
    BY <1>5, OptionCases, EncodingRead
  <2>2. w = OptionWritten(x, some)
    BY OptionsWritten
  <2> HIDE DEF w, some, taken
  <2>3. /\ Reads(w, x, OptionTaken(w, taken))
        /\ x # <<>> => BehindFlag(w) = some
    BY <1>5, <2>1, <2>2, OptionRead
  <2>4. TakeOptionalEncoding(w) = OptionTaken(w, DecodePayloadEncoding(BehindFlag(w)))
    BY OptionsTaken
  <2>5. TakeOptionalEncoding(w) = OptionTaken(w, taken)
    <3>1. CASE x # <<>>
      BY <2>3, <2>4, <3>1 DEF taken
    <3>2. CASE x = <<>>
      BY <2>2, <2>4, <3>2, NoneTaken DEF OptionWritten
    <3> QED
      BY <3>1, <3>2
  <2> QED
    BY <2>3, <2>5 DEF w
<1> QED
  BY <1>1, <1>2, <1>3, <1>4, <1>5

-----------------------------------------------------------------------------
(* The round trip *)

\* The cells that encode_metadata writes for one field and those before it.
ThroughId(m) == WriteUuid(m.id)
ThroughMessageType(m) == ThroughId(m) \o WriteCell(MessageTypeToByte[m.messageType])
ThroughPriority(m) == ThroughMessageType(m) \o WriteCell(PriorityToByte[m.priority])
ThroughTtl(m) == ThroughPriority(m) \o WriteOptionalU32(m.ttl)
ThroughSource(m) == ThroughTtl(m) \o AppendString(m.source)
ThroughSink(m) == ThroughSource(m) \o WriteSink(m.sink)
ThroughEncoding(m) == ThroughSink(m) \o WriteOptional(m.encoding, EncodePayloadEncoding)
ThroughRequestId(m) == ThroughEncoding(m) \o WriteOptionalUuid(m.requestId)
ThroughTraceparent(m) == ThroughRequestId(m) \o WriteOptionalString(m.traceparent)
ThroughToken(m) == ThroughTraceparent(m) \o WriteOptionalString(m.token)
ThroughPermissionLevel(m) == ThroughToken(m) \o WriteOptionalU32(m.permissionLevel)
ThroughCommstatus(m) == ThroughPermissionLevel(m) \o WriteOptionalCode(m.commstatus)

\* Those that it writes for one field and those after it.
FromCommstatus(m) == WriteOptionalCode(m.commstatus)
FromPermissionLevel(m) == WriteOptionalU32(m.permissionLevel) \o FromCommstatus(m)
FromToken(m) == WriteOptionalString(m.token) \o FromPermissionLevel(m)
FromTraceparent(m) == WriteOptionalString(m.traceparent) \o FromToken(m)
FromRequestId(m) == WriteOptionalUuid(m.requestId) \o FromTraceparent(m)
FromEncoding(m) == WriteOptional(m.encoding, EncodePayloadEncoding) \o FromRequestId(m)
FromSink(m) == WriteSink(m.sink) \o FromEncoding(m)
FromSource(m) == AppendString(m.source) \o FromSink(m)
FromTtl(m) == WriteOptionalU32(m.ttl) \o FromSource(m)
FromPriority(m) == WriteCell(PriorityToByte[m.priority]) \o FromTtl(m)
FromMessageType(m) == WriteCell(MessageTypeToByte[m.messageType]) \o FromPriority(m)
FromId(m) == WriteUuid(m.id) \o FromMessageType(m)

LEMMA Regroup ==
    ASSUME NEW a \in Cells, NEW b \in Cells, NEW c \in Cells
    PROVE  a \o b \in Cells /\ (a \o b) \o c = a \o (b \o c)
<1>1. a \o b \in Cells
  BY ConcatProperties DEF Cells
<1>2. (a \o b) \o c = a \o (b \o c)
  BY ConcatAssociative DEF Cells
<1> QED
  BY <1>1, <1>2

\* What is written for each field is read back, with nothing behind it.
LEMMA FieldRead ==
    ASSUME NEW m \in Metadata
    PROVE  /\ Reads(WriteUuid(m.id), m.id, TakeUuid(WriteUuid(m.id)))
           /\ Reads(WriteCell(MessageTypeToByte[m.messageType]), m.messageType,
                    TakeMessageType(WriteCell(MessageTypeToByte[m.messageType])))
           /\ Reads(WriteCell(PriorityToByte[m.priority]), m.priority,
                    TakePriority(WriteCell(PriorityToByte[m.priority])))
           /\ Reads(WriteOptionalU32(m.ttl), m.ttl, TakeOptionalU32(WriteOptionalU32(m.ttl)))
           /\ Reads(AppendString(m.source), m.source, TakeUri(AppendString(m.source)))
           /\ Reads(WriteSink(m.sink), m.sink, TakeSink(WriteSink(m.sink)))
           /\ Reads(WriteOptional(m.encoding, EncodePayloadEncoding), m.encoding,
                    TakeOptionalEncoding(WriteOptional(m.encoding, EncodePayloadEncoding)))
           /\ Reads(WriteOptionalUuid(m.requestId), m.requestId, TakeOptionalUuid(WriteOptionalUuid(m.requestId)))
           /\ Reads(WriteOptionalString(m.traceparent), m.traceparent, TakeOptionalString(WriteOptionalString(m.traceparent)))
           /\ Reads(WriteOptionalString(m.token), m.token, TakeOptionalString(WriteOptionalString(m.token)))
           /\ Reads(WriteOptionalU32(m.permissionLevel), m.permissionLevel,
                    TakeOptionalU32(WriteOptionalU32(m.permissionLevel)))
           /\ Reads(WriteOptionalCode(m.commstatus), m.commstatus, TakeOptionalCode(WriteOptionalCode(m.commstatus)))
<1>0. /\ m.id \in Uuids
      /\ m.messageType \in MessageTypes
      /\ m.priority \in Priorities
      /\ m.ttl \in Option(U32)
      /\ m.source \in Uris
      /\ m.sink \in Option(Uris)
      /\ m.encoding \in Option(Encoding)
      /\ m.requestId \in Option(Uuids)
      /\ m.traceparent \in Option(Text)
      /\ m.token \in Option(Text)
      /\ m.permissionLevel \in Option(U32)
      /\ m.commstatus \in Option(Codes)
  BY DEF Metadata
<1>1. /\ Reads(WriteUuid(m.id), m.id, TakeUuid(WriteUuid(m.id)))
      /\ Reads(AppendString(m.source), m.source, TakeUri(AppendString(m.source)))
      /\ Reads(WriteSink(m.sink), m.sink, TakeSink(WriteSink(m.sink)))
  BY <1>0, UuidRead, UriRead, SinkRead
<1>2. /\ Reads(WriteCell(MessageTypeToByte[m.messageType]), m.messageType,
               TakeMessageType(WriteCell(MessageTypeToByte[m.messageType])))
      /\ Reads(WriteCell(PriorityToByte[m.priority]), m.priority,
               TakePriority(WriteCell(PriorityToByte[m.priority])))
  BY <1>0, EnumRead
<1>3. /\ Reads(WriteOptionalU32(m.ttl), m.ttl,
               TakeOptionalU32(WriteOptionalU32(m.ttl)))
      /\ Reads(WriteOptional(m.encoding, EncodePayloadEncoding), m.encoding,
               TakeOptionalEncoding(WriteOptional(m.encoding, EncodePayloadEncoding)))
      /\ Reads(WriteOptionalUuid(m.requestId), m.requestId,
               TakeOptionalUuid(WriteOptionalUuid(m.requestId)))
      /\ Reads(WriteOptionalString(m.traceparent), m.traceparent,
               TakeOptionalString(WriteOptionalString(m.traceparent)))
      /\ Reads(WriteOptionalString(m.token), m.token,
               TakeOptionalString(WriteOptionalString(m.token)))
      /\ Reads(WriteOptionalU32(m.permissionLevel), m.permissionLevel,
               TakeOptionalU32(WriteOptionalU32(m.permissionLevel)))
      /\ Reads(WriteOptionalCode(m.commstatus), m.commstatus,
               TakeOptionalCode(WriteOptionalCode(m.commstatus)))
  BY <1>0, OptionsRead
<1> QED
  BY <1>1, <1>2, <1>3

LEMMA FromCells ==
    ASSUME NEW m \in Metadata
    PROVE  /\ FromId(m) \in Cells /\ FromMessageType(m) \in Cells /\ FromPriority(m) \in Cells
           /\ FromTtl(m) \in Cells /\ FromSource(m) \in Cells /\ FromSink(m) \in Cells
           /\ FromEncoding(m) \in Cells /\ FromRequestId(m) \in Cells /\ FromTraceparent(m) \in Cells
           /\ FromToken(m) \in Cells /\ FromPermissionLevel(m) \in Cells /\ FromCommstatus(m) \in Cells
<1>0. /\ WriteUuid(m.id) \in Cells
      /\ WriteCell(MessageTypeToByte[m.messageType]) \in Cells
      /\ WriteCell(PriorityToByte[m.priority]) \in Cells
      /\ WriteOptionalU32(m.ttl) \in Cells
      /\ AppendString(m.source) \in Cells
      /\ WriteSink(m.sink) \in Cells
      /\ WriteOptional(m.encoding, EncodePayloadEncoding) \in Cells
      /\ WriteOptionalUuid(m.requestId) \in Cells
      /\ WriteOptionalString(m.traceparent) \in Cells
      /\ WriteOptionalString(m.token) \in Cells
      /\ WriteOptionalU32(m.permissionLevel) \in Cells
      /\ WriteOptionalCode(m.commstatus) \in Cells
  BY FieldRead DEF Reads
<1>1. FromCommstatus(m) \in Cells
  BY <1>0 DEF FromCommstatus
<1>2. FromPermissionLevel(m) \in Cells
  BY <1>0, <1>1, Regroup DEF FromPermissionLevel
<1>3. FromToken(m) \in Cells
  BY <1>0, <1>2, Regroup DEF FromToken
<1>4. FromTraceparent(m) \in Cells
  BY <1>0, <1>3, Regroup DEF FromTraceparent
<1>5. FromRequestId(m) \in Cells
  BY <1>0, <1>4, Regroup DEF FromRequestId
<1>6. FromEncoding(m) \in Cells
  BY <1>0, <1>5, Regroup DEF FromEncoding
<1>7. FromSink(m) \in Cells
  BY <1>0, <1>6, Regroup DEF FromSink
<1>8. FromSource(m) \in Cells
  BY <1>0, <1>7, Regroup DEF FromSource
<1>9. FromTtl(m) \in Cells
  BY <1>0, <1>8, Regroup DEF FromTtl
<1>10. FromPriority(m) \in Cells
  BY <1>0, <1>9, Regroup DEF FromPriority
<1>11. FromMessageType(m) \in Cells
  BY <1>0, <1>10, Regroup DEF FromMessageType
<1>12. FromId(m) \in Cells
  BY <1>0, <1>11, Regroup DEF FromId
<1> QED
  BY <1>1, <1>2, <1>3, <1>4, <1>5, <1>6, <1>7, <1>8, <1>9, <1>10, <1>11, <1>12

LEMMA EncodedFromId ==
    ASSUME NEW m \in Metadata
    PROVE  EncodeMetadata(m) = FromId(m)
<1>0. /\ WriteUuid(m.id) \in Cells
      /\ WriteCell(MessageTypeToByte[m.messageType]) \in Cells
      /\ WriteCell(PriorityToByte[m.priority]) \in Cells
      /\ WriteOptionalU32(m.ttl) \in Cells
      /\ AppendString(m.source) \in Cells
      /\ WriteSink(m.sink) \in Cells
      /\ WriteOptional(m.encoding, EncodePayloadEncoding) \in Cells
      /\ WriteOptionalUuid(m.requestId) \in Cells
      /\ WriteOptionalString(m.traceparent) \in Cells
      /\ WriteOptionalString(m.token) \in Cells
      /\ WriteOptionalU32(m.permissionLevel) \in Cells
      /\ WriteOptionalCode(m.commstatus) \in Cells
  BY FieldRead DEF Reads
<1>regroup. \A x, y, z \in Cells : (x \o y) \o z = x \o (y \o z)
  BY Regroup
<1>1. ThroughId(m) \in Cells
  BY <1>0 DEF ThroughId
<1>2. ThroughMessageType(m) \in Cells
  BY <1>0, <1>1, Regroup DEF ThroughMessageType
<1>3. ThroughPriority(m) \in Cells
  BY <1>0, <1>2, Regroup DEF ThroughPriority
<1>4. ThroughTtl(m) \in Cells
  BY <1>0, <1>3, Regroup DEF ThroughTtl
<1>5. ThroughSource(m) \in Cells
  BY <1>0, <1>4, Regroup DEF ThroughSource
<1>6. ThroughSink(m) \in Cells
  BY <1>0, <1>5, Regroup DEF ThroughSink
<1>7. ThroughEncoding(m) \in Cells
  BY <1>0, <1>6, Regroup DEF ThroughEncoding
<1>8. ThroughRequestId(m) \in Cells
  BY <1>0, <1>7, Regroup DEF ThroughRequestId
<1>9. ThroughTraceparent(m) \in Cells
  BY <1>0, <1>8, Regroup DEF ThroughTraceparent
<1>10. ThroughToken(m) \in Cells
  BY <1>0, <1>9, Regroup DEF ThroughToken
<1>11. ThroughPermissionLevel(m) \in Cells
  BY <1>0, <1>10, Regroup DEF ThroughPermissionLevel
<1>12. EncodeMetadata(m) = ThroughPermissionLevel(m) \o FromCommstatus(m)
  BY DEF EncodeMetadata, FromCommstatus,
         ThroughId, ThroughMessageType, ThroughPriority, ThroughTtl,
         ThroughSource, ThroughSink, ThroughEncoding, ThroughRequestId,
         ThroughTraceparent, ThroughToken, ThroughPermissionLevel
<1>13. ThroughPermissionLevel(m) \o FromCommstatus(m) = ThroughToken(m) \o FromPermissionLevel(m)
  <2>1. ThroughPermissionLevel(m) = ThroughToken(m) \o WriteOptionalU32(m.permissionLevel)
    BY DEF ThroughPermissionLevel
  <2>2. FromPermissionLevel(m) = WriteOptionalU32(m.permissionLevel) \o FromCommstatus(m)
    BY DEF FromPermissionLevel
  <2>3. (ThroughToken(m) \o WriteOptionalU32(m.permissionLevel)) \o FromCommstatus(m)
        = ThroughToken(m) \o (WriteOptionalU32(m.permissionLevel) \o FromCommstatus(m))
    <3> DEFINE a == ThroughToken(m)
               b == WriteOptionalU32(m.permissionLevel)
               c == FromCommstatus(m)
    <3>1. a \in Cells /\ b \in Cells /\ c \in Cells
      BY <1>0, <1>10, FromCells
    <3> HIDE DEF a, b, c
    <3>2. (a \o b) \o c = a \o (b \o c)
      BY <3>1, <1>regroup
    <3> QED
      BY <3>2 DEF a, b, c
  <2> QED
    BY <2>1, <2>2, <2>3
<1>14. ThroughToken(m) \o FromPermissionLevel(m) = ThroughTraceparent(m) \o FromToken(m)
  <2>1. ThroughToken(m) = ThroughTraceparent(m) \o WriteOptionalString(m.token)
    BY DEF ThroughToken
  <2>2. FromToken(m) = WriteOptionalString(m.token) \o FromPermissionLevel(m)
    BY DEF FromToken
  <2>3. (ThroughTraceparent(m) \o WriteOptionalString(m.token)) \o FromPermissionLevel(m)
        = ThroughTraceparent(m) \o (WriteOptionalString(m.token) \o FromPermissionLevel(m))
    <3> DEFINE a == ThroughTraceparent(m)
               b == WriteOptionalString(m.token)
               c == FromPermissionLevel(m)
    <3>1. a \in Cells /\ b \in Cells /\ c \in Cells
      BY <1>0, <1>9, FromCells
    <3> HIDE DEF a, b, c
    <3>2. (a \o b) \o c = a \o (b \o c)
      BY <3>1, <1>regroup
    <3> QED
      BY <3>2 DEF a, b, c
  <2> QED
    BY <2>1, <2>2, <2>3
<1>15. ThroughTraceparent(m) \o FromToken(m) = ThroughRequestId(m) \o FromTraceparent(m)
  <2>1. ThroughTraceparent(m) = ThroughRequestId(m) \o WriteOptionalString(m.traceparent)
    BY DEF ThroughTraceparent
  <2>2. FromTraceparent(m) = WriteOptionalString(m.traceparent) \o FromToken(m)
    BY DEF FromTraceparent
  <2>3. (ThroughRequestId(m) \o WriteOptionalString(m.traceparent)) \o FromToken(m)
        = ThroughRequestId(m) \o (WriteOptionalString(m.traceparent) \o FromToken(m))
    <3> DEFINE a == ThroughRequestId(m)
               b == WriteOptionalString(m.traceparent)
               c == FromToken(m)
    <3>1. a \in Cells /\ b \in Cells /\ c \in Cells
      BY <1>0, <1>8, FromCells
    <3> HIDE DEF a, b, c
    <3>2. (a \o b) \o c = a \o (b \o c)
      BY <3>1, <1>regroup
    <3> QED
      BY <3>2 DEF a, b, c
  <2> QED
    BY <2>1, <2>2, <2>3
<1>16. ThroughRequestId(m) \o FromTraceparent(m) = ThroughEncoding(m) \o FromRequestId(m)
  <2>1. ThroughRequestId(m) = ThroughEncoding(m) \o WriteOptionalUuid(m.requestId)
    BY DEF ThroughRequestId
  <2>2. FromRequestId(m) = WriteOptionalUuid(m.requestId) \o FromTraceparent(m)
    BY DEF FromRequestId
  <2>3. (ThroughEncoding(m) \o WriteOptionalUuid(m.requestId)) \o FromTraceparent(m)
        = ThroughEncoding(m) \o (WriteOptionalUuid(m.requestId) \o FromTraceparent(m))
    <3> DEFINE a == ThroughEncoding(m)
               b == WriteOptionalUuid(m.requestId)
               c == FromTraceparent(m)
    <3>1. a \in Cells /\ b \in Cells /\ c \in Cells
      BY <1>0, <1>7, FromCells
    <3> HIDE DEF a, b, c
    <3>2. (a \o b) \o c = a \o (b \o c)
      BY <3>1, <1>regroup
    <3> QED
      BY <3>2 DEF a, b, c
  <2> QED
    BY <2>1, <2>2, <2>3
<1>17. ThroughEncoding(m) \o FromRequestId(m) = ThroughSink(m) \o FromEncoding(m)
  <2>1. ThroughEncoding(m) = ThroughSink(m) \o WriteOptional(m.encoding, EncodePayloadEncoding)
    BY DEF ThroughEncoding
  <2>2. FromEncoding(m) = WriteOptional(m.encoding, EncodePayloadEncoding) \o FromRequestId(m)
    BY DEF FromEncoding
  <2>3. (ThroughSink(m) \o WriteOptional(m.encoding, EncodePayloadEncoding)) \o FromRequestId(m)
        = ThroughSink(m) \o (WriteOptional(m.encoding, EncodePayloadEncoding) \o FromRequestId(m))
    <3> DEFINE a == ThroughSink(m)
               b == WriteOptional(m.encoding, EncodePayloadEncoding)
               c == FromRequestId(m)
    <3>1. a \in Cells /\ b \in Cells /\ c \in Cells
      BY <1>0, <1>6, FromCells
    <3> HIDE DEF a, b, c
    <3>2. (a \o b) \o c = a \o (b \o c)
      BY <3>1, <1>regroup
    <3> QED
      BY <3>2 DEF a, b, c
  <2> QED
    BY <2>1, <2>2, <2>3
<1>18. ThroughSink(m) \o FromEncoding(m) = ThroughSource(m) \o FromSink(m)
  <2>1. ThroughSink(m) = ThroughSource(m) \o WriteSink(m.sink)
    BY DEF ThroughSink
  <2>2. FromSink(m) = WriteSink(m.sink) \o FromEncoding(m)
    BY DEF FromSink
  <2>3. (ThroughSource(m) \o WriteSink(m.sink)) \o FromEncoding(m)
        = ThroughSource(m) \o (WriteSink(m.sink) \o FromEncoding(m))
    <3> DEFINE a == ThroughSource(m)
               b == WriteSink(m.sink)
               c == FromEncoding(m)
    <3>1. a \in Cells /\ b \in Cells /\ c \in Cells
      BY <1>0, <1>5, FromCells
    <3> HIDE DEF a, b, c
    <3>2. (a \o b) \o c = a \o (b \o c)
      BY <3>1, <1>regroup
    <3> QED
      BY <3>2 DEF a, b, c
  <2> QED
    BY <2>1, <2>2, <2>3
<1>19. ThroughSource(m) \o FromSink(m) = ThroughTtl(m) \o FromSource(m)
  <2>1. ThroughSource(m) = ThroughTtl(m) \o AppendString(m.source)
    BY DEF ThroughSource
  <2>2. FromSource(m) = AppendString(m.source) \o FromSink(m)
    BY DEF FromSource
  <2>3. (ThroughTtl(m) \o AppendString(m.source)) \o FromSink(m)
        = ThroughTtl(m) \o (AppendString(m.source) \o FromSink(m))
    <3> DEFINE a == ThroughTtl(m)
               b == AppendString(m.source)
               c == FromSink(m)
    <3>1. a \in Cells /\ b \in Cells /\ c \in Cells
      BY <1>0, <1>4, FromCells
    <3> HIDE DEF a, b, c
    <3>2. (a \o b) \o c = a \o (b \o c)
      BY <3>1, <1>regroup
    <3> QED
      BY <3>2 DEF a, b, c
  <2> QED
    BY <2>1, <2>2, <2>3
<1>20. ThroughTtl(m) \o FromSource(m) = ThroughPriority(m) \o FromTtl(m)
  <2>1. ThroughTtl(m) = ThroughPriority(m) \o WriteOptionalU32(m.ttl)
    BY DEF ThroughTtl
  <2>2. FromTtl(m) = WriteOptionalU32(m.ttl) \o FromSource(m)
    BY DEF FromTtl
  <2>3. (ThroughPriority(m) \o WriteOptionalU32(m.ttl)) \o FromSource(m)
        = ThroughPriority(m) \o (WriteOptionalU32(m.ttl) \o FromSource(m))
    <3> DEFINE a == ThroughPriority(m)
               b == WriteOptionalU32(m.ttl)
               c == FromSource(m)
    <3>1. a \in Cells /\ b \in Cells /\ c \in Cells
      BY <1>0, <1>3, FromCells
    <3> HIDE DEF a, b, c
    <3>2. (a \o b) \o c = a \o (b \o c)
      BY <3>1, <1>regroup
    <3> QED
      BY <3>2 DEF a, b, c
  <2> QED
    BY <2>1, <2>2, <2>3
<1>21. ThroughPriority(m) \o FromTtl(m) = ThroughMessageType(m) \o FromPriority(m)
  <2>1. ThroughPriority(m) = ThroughMessageType(m) \o WriteCell(PriorityToByte[m.priority])
    BY DEF ThroughPriority
  <2>2. FromPriority(m) = WriteCell(PriorityToByte[m.priority]) \o FromTtl(m)
    BY DEF FromPriority
  <2>3. (ThroughMessageType(m) \o WriteCell(PriorityToByte[m.priority])) \o FromTtl(m)
        = ThroughMessageType(m) \o (WriteCell(PriorityToByte[m.priority]) \o FromTtl(m))
    <3> DEFINE a == ThroughMessageType(m)
               b == WriteCell(PriorityToByte[m.priority])
               c == FromTtl(m)
    <3>1. a \in Cells /\ b \in Cells /\ c \in Cells
      BY <1>0, <1>2, FromCells
    <3> HIDE DEF a, b, c
    <3>2. (a \o b) \o c = a \o (b \o c)
      BY <3>1, <1>regroup
    <3> QED
      BY <3>2 DEF a, b, c
  <2> QED
    BY <2>1, <2>2, <2>3
<1>22. ThroughMessageType(m) \o FromPriority(m) = ThroughId(m) \o FromMessageType(m)
  <2>1. ThroughMessageType(m) = ThroughId(m) \o WriteCell(MessageTypeToByte[m.messageType])
    BY DEF ThroughMessageType
  <2>2. FromMessageType(m) = WriteCell(MessageTypeToByte[m.messageType]) \o FromPriority(m)
    BY DEF FromMessageType
  <2>3. (ThroughId(m) \o WriteCell(MessageTypeToByte[m.messageType])) \o FromPriority(m)
        = ThroughId(m) \o (WriteCell(MessageTypeToByte[m.messageType]) \o FromPriority(m))
    <3> DEFINE a == ThroughId(m)
               b == WriteCell(MessageTypeToByte[m.messageType])
               c == FromPriority(m)
    <3>1. a \in Cells /\ b \in Cells /\ c \in Cells
      BY <1>0, <1>1, FromCells
    <3> HIDE DEF a, b, c
    <3>2. (a \o b) \o c = a \o (b \o c)
      BY <3>1, <1>regroup
    <3> QED
      BY <3>2 DEF a, b, c
  <2> QED
    BY <2>1, <2>2, <2>3
<1>23. ThroughId(m) \o FromMessageType(m) = FromId(m)
  BY DEF ThroughId, FromId
<1> QED
  BY <1>12, <1>13, <1>14, <1>15, <1>16, <1>17, <1>18, <1>19, <1>20, <1>21, <1>22, <1>23

\* The values of the twelve fields, in order.
Values(m) ==
    <<m.id, m.messageType, m.priority, m.ttl, m.source, m.sink, m.encoding, m.requestId,
      m.traceparent, m.token, m.permissionLevel, m.commstatus>>

\* The first k of the values were taken, and rest is left.
HasRead(taken, values, k, rest) ==
    /\ taken.ok /\ taken.rest = rest
    /\ Len(taken.value) = k /\ \A j \in 1..k : taken.value[j] = values[j]

LEMMA AppendRead ==
    ASSUME NEW values, NEW k \in Nat, NEW taken, NEW src, HasRead(taken, values, k, src),
           NEW next, NEW x, NEW rest, x = values[k + 1], next = Joined(taken, Taken(x, rest))
    PROVE  HasRead(next, values, k + 1, rest)
<1>1. next = Taken(Append(taken.value, x), rest)
  BY DEF Joined, HasRead, Taken
<1>2. next.ok /\ next.rest = rest /\ next.value = Append(taken.value, x)
  <2> DEFINE value == Append(taken.value, x)
  <2>1. next = Taken(value, rest)
    BY <1>1
  <2> HIDE DEF value
  <2>2. next.ok /\ next.rest = rest /\ next.value = value
    BY <2>1 DEF Taken
  <2> QED
    BY <2>2 DEF value
<1>3. Len(taken.value) = k /\ \A j \in 1..k : taken.value[j] = values[j]
  BY DEF HasRead
<1> DEFINE v == taken.value
<1> HIDE DEF v
<1>4. Len(v) \in Nat => /\ Len(Append(v, x)) = Len(v) + 1 /\ Append(v, x)[Len(v) + 1] = x
                        /\ \A j \in 1..Len(v) : Append(v, x)[j] = v[j]
  OBVIOUS
<1>5. Len(Append(v, x)) = k + 1 /\ \A j \in 1..(k + 1) : Append(v, x)[j] = values[j]
  BY <1>3, <1>4 DEF v
<1> QED
  BY <1>2, <1>5 DEF HasRead, v

\* decode_metadata takes from what encode_metadata wrote every field, and nothing
\* is left.
LEMMA FieldsRead ==
    ASSUME NEW m \in Metadata
    PROVE  /\ EncodeMetadata(m) \in Cells
           /\ HasRead(TakeFields(EncodeMetadata(m)), Values(m), 12, <<>>)
<1> DEFINE src == FromId(m)
<1>0. EncodeMetadata(m) = src /\ src \in Cells
  BY EncodedFromId, FromCells
<1>13. /\ Values(m)[1] = m.id /\ Values(m)[2] = m.messageType /\ Values(m)[3] = m.priority
      /\ Values(m)[4] = m.ttl /\ Values(m)[5] = m.source /\ Values(m)[6] = m.sink
      /\ Values(m)[7] = m.encoding /\ Values(m)[8] = m.requestId /\ Values(m)[9] = m.traceparent
      /\ Values(m)[10] = m.token /\ Values(m)[11] = m.permissionLevel /\ Values(m)[12] = m.commstatus
  BY DEF Values
<1> HIDE DEF src
<1>1. HasRead(ToId(src), Values(m), 1, FromMessageType(m))
  <2>1. TakeUuid(FromId(m)) = Taken(m.id, FromMessageType(m))
    <3>1. Continues(TakeUuid(WriteUuid(m.id)), TakeUuid(FromId(m)), FromMessageType(m))
      BY FieldRead, FromCells, UuidContinues DEF Reads, FromId
    <3> QED
      BY <3>1, FieldRead, FromCells, ReadsContinue
  <2>2. ToId(src) = Taken(Append(<<>>, m.id), FromMessageType(m))
    BY <2>1, FieldsJoined DEF Joined, Taken, src
  <2> QED
    BY <1>13, <2>2 DEF HasRead, Taken
<1>2. HasRead(ToMessageType(src), Values(m), 2, FromPriority(m))
  <2>1. TakeMessageType(FromMessageType(m)) = Taken(m.messageType, FromPriority(m))
    <3>1. Continues(TakeMessageType(WriteCell(MessageTypeToByte[m.messageType])), TakeMessageType(FromMessageType(m)), FromPriority(m))
      BY FieldRead, FromCells, EnumContinues DEF Reads, FromMessageType
    <3> QED
      BY <3>1, FieldRead, FromCells, ReadsContinue
  <2>2. ToMessageType(src) = Joined(ToId(src), Taken(m.messageType, FromPriority(m)))
    BY <1>1, <2>1, FieldsJoined DEF HasRead
  <2>3. HasRead(ToMessageType(src), Values(m), 1 + 1, FromPriority(m))
    <3>1. Values(m)[1 + 1] = m.messageType
      BY <1>13
    <3> QED
      BY <1>1, <2>2, <3>1, AppendRead
  <2> QED
    BY <2>3
<1>3. HasRead(ToPriority(src), Values(m), 3, FromTtl(m))
  <2>1. TakePriority(FromPriority(m)) = Taken(m.priority, FromTtl(m))
    <3>1. Continues(TakePriority(WriteCell(PriorityToByte[m.priority])), TakePriority(FromPriority(m)), FromTtl(m))
      BY FieldRead, FromCells, EnumContinues DEF Reads, FromPriority
    <3> QED
      BY <3>1, FieldRead, FromCells, ReadsContinue
  <2>2. ToPriority(src) = Joined(ToMessageType(src), Taken(m.priority, FromTtl(m)))
    BY <1>2, <2>1, FieldsJoined DEF HasRead
  <2>3. HasRead(ToPriority(src), Values(m), 2 + 1, FromTtl(m))
    <3>1. Values(m)[2 + 1] = m.priority
      BY <1>13
    <3> QED
      BY <1>2, <2>2, <3>1, AppendRead
  <2> QED
    BY <2>3
<1>4. HasRead(ToTtl(src), Values(m), 4, FromSource(m))
  <2>1. TakeOptionalU32(FromTtl(m)) = Taken(m.ttl, FromSource(m))
    <3>1. Continues(TakeOptionalU32(WriteOptionalU32(m.ttl)), TakeOptionalU32(FromTtl(m)), FromSource(m))
      BY FieldRead, FromCells, OptionsContinue DEF Reads, FromTtl
    <3> QED
      BY <3>1, FieldRead, FromCells, ReadsContinue
  <2>2. ToTtl(src) = Joined(ToPriority(src), Taken(m.ttl, FromSource(m)))
    BY <1>3, <2>1, FieldsJoined DEF HasRead
  <2>3. HasRead(ToTtl(src), Values(m), 3 + 1, FromSource(m))
    <3>1. Values(m)[3 + 1] = m.ttl
      BY <1>13
    <3> QED
      BY <1>3, <2>2, <3>1, AppendRead
  <2> QED
    BY <2>3
<1>5. HasRead(ToSource(src), Values(m), 5, FromSink(m))
  <2>1. TakeUri(FromSource(m)) = Taken(m.source, FromSink(m))
    <3>1. Continues(TakeUri(AppendString(m.source)), TakeUri(FromSource(m)), FromSink(m))
      BY FieldRead, FromCells, UriContinues DEF Reads, FromSource
    <3> QED
      BY <3>1, FieldRead, FromCells, ReadsContinue
  <2>2. ToSource(src) = Joined(ToTtl(src), Taken(m.source, FromSink(m)))
    BY <1>4, <2>1, FieldsJoined DEF HasRead
  <2>3. HasRead(ToSource(src), Values(m), 4 + 1, FromSink(m))
    <3>1. Values(m)[4 + 1] = m.source
      BY <1>13
    <3> QED
      BY <1>4, <2>2, <3>1, AppendRead
  <2> QED
    BY <2>3
<1>6. HasRead(ToSink(src), Values(m), 6, FromEncoding(m))
  <2>1. TakeSink(FromSink(m)) = Taken(m.sink, FromEncoding(m))
    <3>1. Continues(TakeSink(WriteSink(m.sink)), TakeSink(FromSink(m)), FromEncoding(m))
      BY FieldRead, FromCells, SinkContinues DEF Reads, FromSink
    <3> QED
      BY <3>1, FieldRead, FromCells, ReadsContinue
  <2>2. ToSink(src) = Joined(ToSource(src), Taken(m.sink, FromEncoding(m)))
    BY <1>5, <2>1, FieldsJoined DEF HasRead
  <2>3. HasRead(ToSink(src), Values(m), 5 + 1, FromEncoding(m))
    <3>1. Values(m)[5 + 1] = m.sink
      BY <1>13
    <3> QED
      BY <1>5, <2>2, <3>1, AppendRead
  <2> QED
    BY <2>3
<1>7. HasRead(ToEncoding(src), Values(m), 7, FromRequestId(m))
  <2>1. TakeOptionalEncoding(FromEncoding(m)) = Taken(m.encoding, FromRequestId(m))
    <3>1. Continues(TakeOptionalEncoding(WriteOptional(m.encoding, EncodePayloadEncoding)), TakeOptionalEncoding(FromEncoding(m)), FromRequestId(m))
      BY FieldRead, FromCells, OptionsContinue DEF Reads, FromEncoding
    <3> QED
      BY <3>1, FieldRead, FromCells, ReadsContinue
  <2>2. ToEncoding(src) = Joined(ToSink(src), Taken(m.encoding, FromRequestId(m)))
    BY <1>6, <2>1, FieldsJoined DEF HasRead
  <2>3. HasRead(ToEncoding(src), Values(m), 6 + 1, FromRequestId(m))
    <3>1. Values(m)[6 + 1] = m.encoding
      BY <1>13
    <3> QED
      BY <1>6, <2>2, <3>1, AppendRead
  <2> QED
    BY <2>3
<1>8. HasRead(ToRequestId(src), Values(m), 8, FromTraceparent(m))
  <2>1. TakeOptionalUuid(FromRequestId(m)) = Taken(m.requestId, FromTraceparent(m))
    <3>1. Continues(TakeOptionalUuid(WriteOptionalUuid(m.requestId)), TakeOptionalUuid(FromRequestId(m)), FromTraceparent(m))
      BY FieldRead, FromCells, OptionsContinue DEF Reads, FromRequestId
    <3> QED
      BY <3>1, FieldRead, FromCells, ReadsContinue
  <2>2. ToRequestId(src) = Joined(ToEncoding(src), Taken(m.requestId, FromTraceparent(m)))
    BY <1>7, <2>1, FieldsJoined DEF HasRead
  <2>3. HasRead(ToRequestId(src), Values(m), 7 + 1, FromTraceparent(m))
    <3>1. Values(m)[7 + 1] = m.requestId
      BY <1>13
    <3> QED
      BY <1>7, <2>2, <3>1, AppendRead
  <2> QED
    BY <2>3
<1>9. HasRead(ToTraceparent(src), Values(m), 9, FromToken(m))
  <2>1. TakeOptionalString(FromTraceparent(m)) = Taken(m.traceparent, FromToken(m))
    <3>1. Continues(TakeOptionalString(WriteOptionalString(m.traceparent)), TakeOptionalString(FromTraceparent(m)), FromToken(m))
      BY FieldRead, FromCells, OptionsContinue DEF Reads, FromTraceparent
    <3> QED
      BY <3>1, FieldRead, FromCells, ReadsContinue
  <2>2. ToTraceparent(src) = Joined(ToRequestId(src), Taken(m.traceparent, FromToken(m)))
    BY <1>8, <2>1, FieldsJoined DEF HasRead
  <2>3. HasRead(ToTraceparent(src), Values(m), 8 + 1, FromToken(m))
    <3>1. Values(m)[8 + 1] = m.traceparent
      BY <1>13
    <3> QED
      BY <1>8, <2>2, <3>1, AppendRead
  <2> QED
    BY <2>3
<1>10. HasRead(ToToken(src), Values(m), 10, FromPermissionLevel(m))
  <2>1. TakeOptionalString(FromToken(m)) = Taken(m.token, FromPermissionLevel(m))
    <3>1. Continues(TakeOptionalString(WriteOptionalString(m.token)), TakeOptionalString(FromToken(m)), FromPermissionLevel(m))
      BY FieldRead, FromCells, OptionsContinue DEF Reads, FromToken
    <3> QED
      BY <3>1, FieldRead, FromCells, ReadsContinue
  <2>2. ToToken(src) = Joined(ToTraceparent(src), Taken(m.token, FromPermissionLevel(m)))
    BY <1>9, <2>1, FieldsJoined DEF HasRead
  <2>3. HasRead(ToToken(src), Values(m), 9 + 1, FromPermissionLevel(m))
    <3>1. Values(m)[9 + 1] = m.token
      BY <1>13
    <3> QED
      BY <1>9, <2>2, <3>1, AppendRead
  <2> QED
    BY <2>3
<1>11. HasRead(ToPermissionLevel(src), Values(m), 11, FromCommstatus(m))
  <2>1. TakeOptionalU32(FromPermissionLevel(m)) = Taken(m.permissionLevel, FromCommstatus(m))
    <3>1. Continues(TakeOptionalU32(WriteOptionalU32(m.permissionLevel)), TakeOptionalU32(FromPermissionLevel(m)), FromCommstatus(m))
      BY FieldRead, FromCells, OptionsContinue DEF Reads, FromPermissionLevel
    <3> QED
      BY <3>1, FieldRead, FromCells, ReadsContinue
  <2>2. ToPermissionLevel(src) = Joined(ToToken(src), Taken(m.permissionLevel, FromCommstatus(m)))
    BY <1>10, <2>1, FieldsJoined DEF HasRead
  <2>3. HasRead(ToPermissionLevel(src), Values(m), 10 + 1, FromCommstatus(m))
    <3>1. Values(m)[10 + 1] = m.permissionLevel
      BY <1>13
    <3> QED
      BY <1>10, <2>2, <3>1, AppendRead
  <2> QED
    BY <2>3
<1>12. HasRead(TakeFields(src), Values(m), 12, <<>>)
  <2>1. TakeOptionalCode(FromCommstatus(m)) = Taken(m.commstatus, <<>>)
    BY FieldRead DEF Reads, FromCommstatus
  <2>2. TakeFields(src) = Joined(ToPermissionLevel(src), Taken(m.commstatus, <<>>))
    BY <1>11, <2>1, FieldsJoined DEF HasRead
  <2>3. HasRead(TakeFields(src), Values(m), 11 + 1, <<>>)
    <3>1. Values(m)[11 + 1] = m.commstatus
      BY <1>13
    <3> QED
      BY <1>11, <2>2, <3>1, AppendRead
  <2> QED
    BY <2>3
<1> QED
  BY <1>0, <1>12

\* decode_metadata is the inverse of encode_metadata: what was encoded is accepted
\* as a whole, and every attribute and the payload encoding are read as they were.
\* (encode_metadata, decode_metadata.)
THEOREM RoundTrip ==
    ASSUME NEW m \in Metadata
    PROVE  Decodes(EncodeMetadata(m)) /\ DecodeMetadata(EncodeMetadata(m)) = m
<1>1. /\ TakeFields(EncodeMetadata(m)).ok
      /\ \A j \in 1..12 : TakeFields(EncodeMetadata(m)).value[j] = Values(m)[j]
      /\ TakeFields(EncodeMetadata(m)).rest = <<>>
  BY FieldsRead DEF HasRead
<1>2. Decodes(EncodeMetadata(m))
  BY <1>1 DEF Decodes
<1>3. DecodeMetadata(EncodeMetadata(m)) =
        [id |-> m.id, messageType |-> m.messageType, priority |-> m.priority,
         ttl |-> m.ttl, source |-> m.source, sink |-> m.sink,
         encoding |-> m.encoding, requestId |-> m.requestId, traceparent |-> m.traceparent,
         token |-> m.token, permissionLevel |-> m.permissionLevel, commstatus |-> m.commstatus]
  <2> DEFINE value == TakeFields(EncodeMetadata(m)).value
  <2>1. /\ value[1] = m.id /\ value[2] = m.messageType /\ value[3] = m.priority
        /\ value[4] = m.ttl /\ value[5] = m.source /\ value[6] = m.sink
        /\ value[7] = m.encoding /\ value[8] = m.requestId /\ value[9] = m.traceparent
        /\ value[10] = m.token /\ value[11] = m.permissionLevel /\ value[12] = m.commstatus
    BY <1>1 DEF Values
  <2>2. DecodeMetadata(EncodeMetadata(m)) =
          [id |-> value[1], messageType |-> value[2], priority |-> value[3],
           ttl |-> value[4], source |-> value[5], sink |-> value[6],
           encoding |-> value[7], requestId |-> value[8], traceparent |-> value[9],
           token |-> value[10], permissionLevel |-> value[11], commstatus |-> value[12]]
    BY DEF DecodeMetadata
  <2> HIDE DEF value
  <2> QED
    BY <2>1, <2>2
<1>4. m =
        [id |-> m.id, messageType |-> m.messageType, priority |-> m.priority,
         ttl |-> m.ttl, source |-> m.source, sink |-> m.sink,
         encoding |-> m.encoding, requestId |-> m.requestId, traceparent |-> m.traceparent,
         token |-> m.token, permissionLevel |-> m.permissionLevel, commstatus |-> m.commstatus]
  BY DEF Metadata
<1> QED
  BY <1>2, <1>3, <1>4

\* Cells that decode_metadata accepts are refused when they are cut.
THEOREM CutIsRefused ==
    ASSUME NEW src \in Cells, NEW more \in Cells, more # <<>>, Decodes(src \o more)
    PROVE  ~Decodes(src)
<1> SUFFICES ASSUME Decodes(src) PROVE FALSE
  OBVIOUS
<1>1. TakeFields(src).ok /\ TakeFields(src).rest = <<>>
  BY DEF Decodes
<1>2. TakeFields(src \o more).rest = <<>> \o more
  <2> DEFINE short == TakeFields(src)
             long == TakeFields(src \o more)
  <2>1. Continues(short, long, more) /\ short.ok /\ short.rest = <<>>
    BY <1>1, FieldsContinue
  <2> HIDE DEF short, long
  <2>2. long.rest = short.rest \o more
    BY <2>1, BehindTaken
  <2> QED
    BY <2>1, <2>2 DEF long
<1>3. <<>> \o more = more
  BY ConcatEmptySeq DEF Cells
<1> QED
  BY <1>2, <1>3 DEF Decodes

\* No encoding is the beginning of another one: a header that gives the length of
\* the metadata as less than it is is found out.
THEOREM EncodingsArePrefixFree ==
    ASSUME NEW m \in Metadata, NEW n \in Metadata, NEW more \in Cells,
           EncodeMetadata(n) = EncodeMetadata(m) \o more
    PROVE  more = <<>> /\ n = m
<1>1. EncodeMetadata(m) \in Cells /\ Decodes(EncodeMetadata(m)) /\ Decodes(EncodeMetadata(n))
  BY FieldsRead, RoundTrip
<1>2. more = <<>>
  BY <1>1, CutIsRefused
<1>3. EncodeMetadata(n) = EncodeMetadata(m)
  BY <1>1, <1>2, ConcatEmptySeq DEF Cells
<1> QED
  BY <1>2, <1>3, RoundTrip

-----------------------------------------------------------------------------
(* The length of an encoding *)

LEMMA Longer ==
    ASSUME NEW a \in Cells, NEW b \in Cells
    PROVE  /\ Len(a) \in Nat /\ Len(b) \in Nat /\ Len(a \o b) = Len(a) + Len(b)
           /\ Len(a) <= Len(a \o b) /\ Len(b) <= Len(a \o b)
<1>1. Len(a) \in Nat /\ Len(b) \in Nat /\ Len(a \o b) = Len(a) + Len(b)
  BY LenProperties, ConcatProperties DEF Cells
<1> QED
  BY <1>1

\* An encoding is as long as what it has for each field that may hold a text.
LEMMA PartsFit ==
    ASSUME NEW m \in Metadata
    PROVE  /\ Len(AppendString(m.source)) <= Len(EncodeMetadata(m))
           /\ Len(WriteSink(m.sink)) <= Len(EncodeMetadata(m))
           /\ Len(WriteOptional(m.encoding, EncodePayloadEncoding)) <= Len(EncodeMetadata(m))
           /\ Len(WriteOptionalString(m.traceparent)) <= Len(EncodeMetadata(m))
           /\ Len(WriteOptionalString(m.token)) <= Len(EncodeMetadata(m))
<1>0. /\ WriteUuid(m.id) \in Cells
      /\ WriteCell(MessageTypeToByte[m.messageType]) \in Cells
      /\ WriteCell(PriorityToByte[m.priority]) \in Cells
      /\ WriteOptionalU32(m.ttl) \in Cells
      /\ AppendString(m.source) \in Cells
      /\ WriteSink(m.sink) \in Cells
      /\ WriteOptional(m.encoding, EncodePayloadEncoding) \in Cells
      /\ WriteOptionalUuid(m.requestId) \in Cells
      /\ WriteOptionalString(m.traceparent) \in Cells
      /\ WriteOptionalString(m.token) \in Cells
      /\ WriteOptionalU32(m.permissionLevel) \in Cells
      /\ WriteOptionalCode(m.commstatus) \in Cells
  BY FieldRead DEF Reads
<1>1. EncodeMetadata(m) = FromId(m) /\ Len(FromId(m)) \in Nat
  BY EncodedFromId, FromCells, LenProperties DEF Cells
<1>2. /\ Len(WriteUuid(m.id)) \in Nat /\ Len(FromMessageType(m)) \in Nat
      /\ Len(WriteUuid(m.id)) <= Len(FromId(m))
      /\ Len(FromMessageType(m)) <= Len(FromId(m))
  <2> DEFINE a == WriteUuid(m.id)
             b == FromMessageType(m)
  <2>1. a \in Cells /\ b \in Cells /\ FromId(m) = a \o b
    BY <1>0, FromCells DEF FromId
  <2> HIDE DEF a, b
  <2>2. Len(a) \in Nat /\ Len(b) \in Nat /\ Len(a) <= Len(a \o b) /\ Len(b) <= Len(a \o b)
    BY <2>1, Longer
  <2> QED
    BY <2>1, <2>2 DEF a, b
<1>3. /\ Len(WriteCell(MessageTypeToByte[m.messageType])) \in Nat /\ Len(FromPriority(m)) \in Nat
      /\ Len(WriteCell(MessageTypeToByte[m.messageType])) <= Len(FromMessageType(m))
      /\ Len(FromPriority(m)) <= Len(FromMessageType(m))
  <2> DEFINE a == WriteCell(MessageTypeToByte[m.messageType])
             b == FromPriority(m)
  <2>1. a \in Cells /\ b \in Cells /\ FromMessageType(m) = a \o b
    BY <1>0, FromCells DEF FromMessageType
  <2> HIDE DEF a, b
  <2>2. Len(a) \in Nat /\ Len(b) \in Nat /\ Len(a) <= Len(a \o b) /\ Len(b) <= Len(a \o b)
    BY <2>1, Longer
  <2> QED
    BY <2>1, <2>2 DEF a, b
<1>4. /\ Len(WriteCell(PriorityToByte[m.priority])) \in Nat /\ Len(FromTtl(m)) \in Nat
      /\ Len(WriteCell(PriorityToByte[m.priority])) <= Len(FromPriority(m))
      /\ Len(FromTtl(m)) <= Len(FromPriority(m))
  <2> DEFINE a == WriteCell(PriorityToByte[m.priority])
             b == FromTtl(m)
  <2>1. a \in Cells /\ b \in Cells /\ FromPriority(m) = a \o b
    BY <1>0, FromCells DEF FromPriority
  <2> HIDE DEF a, b
  <2>2. Len(a) \in Nat /\ Len(b) \in Nat /\ Len(a) <= Len(a \o b) /\ Len(b) <= Len(a \o b)
    BY <2>1, Longer
  <2> QED
    BY <2>1, <2>2 DEF a, b
<1>5. /\ Len(WriteOptionalU32(m.ttl)) \in Nat /\ Len(FromSource(m)) \in Nat
      /\ Len(WriteOptionalU32(m.ttl)) <= Len(FromTtl(m))
      /\ Len(FromSource(m)) <= Len(FromTtl(m))
  <2> DEFINE a == WriteOptionalU32(m.ttl)
             b == FromSource(m)
  <2>1. a \in Cells /\ b \in Cells /\ FromTtl(m) = a \o b
    BY <1>0, FromCells DEF FromTtl
  <2> HIDE DEF a, b
  <2>2. Len(a) \in Nat /\ Len(b) \in Nat /\ Len(a) <= Len(a \o b) /\ Len(b) <= Len(a \o b)
    BY <2>1, Longer
  <2> QED
    BY <2>1, <2>2 DEF a, b
<1>6. /\ Len(AppendString(m.source)) \in Nat /\ Len(FromSink(m)) \in Nat
      /\ Len(AppendString(m.source)) <= Len(FromSource(m))
      /\ Len(FromSink(m)) <= Len(FromSource(m))
  <2> DEFINE a == AppendString(m.source)
             b == FromSink(m)
  <2>1. a \in Cells /\ b \in Cells /\ FromSource(m) = a \o b
    BY <1>0, FromCells DEF FromSource
  <2> HIDE DEF a, b
  <2>2. Len(a) \in Nat /\ Len(b) \in Nat /\ Len(a) <= Len(a \o b) /\ Len(b) <= Len(a \o b)
    BY <2>1, Longer
  <2> QED
    BY <2>1, <2>2 DEF a, b
<1>7. /\ Len(WriteSink(m.sink)) \in Nat /\ Len(FromEncoding(m)) \in Nat
      /\ Len(WriteSink(m.sink)) <= Len(FromSink(m))
      /\ Len(FromEncoding(m)) <= Len(FromSink(m))
  <2> DEFINE a == WriteSink(m.sink)
             b == FromEncoding(m)
  <2>1. a \in Cells /\ b \in Cells /\ FromSink(m) = a \o b
    BY <1>0, FromCells DEF FromSink
  <2> HIDE DEF a, b
  <2>2. Len(a) \in Nat /\ Len(b) \in Nat /\ Len(a) <= Len(a \o b) /\ Len(b) <= Len(a \o b)
    BY <2>1, Longer
  <2> QED
    BY <2>1, <2>2 DEF a, b
<1>8. /\ Len(WriteOptional(m.encoding, EncodePayloadEncoding)) \in Nat /\ Len(FromRequestId(m)) \in Nat
      /\ Len(WriteOptional(m.encoding, EncodePayloadEncoding)) <= Len(FromEncoding(m))
      /\ Len(FromRequestId(m)) <= Len(FromEncoding(m))
  <2> DEFINE a == WriteOptional(m.encoding, EncodePayloadEncoding)
             b == FromRequestId(m)
  <2>1. a \in Cells /\ b \in Cells /\ FromEncoding(m) = a \o b
    BY <1>0, FromCells DEF FromEncoding
  <2> HIDE DEF a, b
  <2>2. Len(a) \in Nat /\ Len(b) \in Nat /\ Len(a) <= Len(a \o b) /\ Len(b) <= Len(a \o b)
    BY <2>1, Longer
  <2> QED
    BY <2>1, <2>2 DEF a, b
<1>9. /\ Len(WriteOptionalUuid(m.requestId)) \in Nat /\ Len(FromTraceparent(m)) \in Nat
      /\ Len(WriteOptionalUuid(m.requestId)) <= Len(FromRequestId(m))
      /\ Len(FromTraceparent(m)) <= Len(FromRequestId(m))
  <2> DEFINE a == WriteOptionalUuid(m.requestId)
             b == FromTraceparent(m)
  <2>1. a \in Cells /\ b \in Cells /\ FromRequestId(m) = a \o b
    BY <1>0, FromCells DEF FromRequestId
  <2> HIDE DEF a, b
  <2>2. Len(a) \in Nat /\ Len(b) \in Nat /\ Len(a) <= Len(a \o b) /\ Len(b) <= Len(a \o b)
    BY <2>1, Longer
  <2> QED
    BY <2>1, <2>2 DEF a, b
<1>10. /\ Len(WriteOptionalString(m.traceparent)) \in Nat /\ Len(FromToken(m)) \in Nat
      /\ Len(WriteOptionalString(m.traceparent)) <= Len(FromTraceparent(m))
      /\ Len(FromToken(m)) <= Len(FromTraceparent(m))
  <2> DEFINE a == WriteOptionalString(m.traceparent)
             b == FromToken(m)
  <2>1. a \in Cells /\ b \in Cells /\ FromTraceparent(m) = a \o b
    BY <1>0, FromCells DEF FromTraceparent
  <2> HIDE DEF a, b
  <2>2. Len(a) \in Nat /\ Len(b) \in Nat /\ Len(a) <= Len(a \o b) /\ Len(b) <= Len(a \o b)
    BY <2>1, Longer
  <2> QED
    BY <2>1, <2>2 DEF a, b
<1>11. /\ Len(WriteOptionalString(m.token)) \in Nat /\ Len(FromPermissionLevel(m)) \in Nat
      /\ Len(WriteOptionalString(m.token)) <= Len(FromToken(m))
      /\ Len(FromPermissionLevel(m)) <= Len(FromToken(m))
  <2> DEFINE a == WriteOptionalString(m.token)
             b == FromPermissionLevel(m)
  <2>1. a \in Cells /\ b \in Cells /\ FromToken(m) = a \o b
    BY <1>0, FromCells DEF FromToken
  <2> HIDE DEF a, b
  <2>2. Len(a) \in Nat /\ Len(b) \in Nat /\ Len(a) <= Len(a \o b) /\ Len(b) <= Len(a \o b)
    BY <2>1, Longer
  <2> QED
    BY <2>1, <2>2 DEF a, b
<1>12. Len(AppendString(m.source)) <= Len(EncodeMetadata(m))
  BY <1>1, <1>2, <1>3, <1>4, <1>5, <1>6
<1>13. Len(WriteSink(m.sink)) <= Len(EncodeMetadata(m))
  BY <1>1, <1>2, <1>3, <1>4, <1>5, <1>6, <1>7
<1>14. Len(WriteOptional(m.encoding, EncodePayloadEncoding)) <= Len(EncodeMetadata(m))
  BY <1>1, <1>2, <1>3, <1>4, <1>5, <1>6, <1>7, <1>8
<1>15. Len(WriteOptionalString(m.traceparent)) <= Len(EncodeMetadata(m))
  BY <1>1, <1>2, <1>3, <1>4, <1>5, <1>6, <1>7, <1>8, <1>9, <1>10
<1>16. Len(WriteOptionalString(m.token)) <= Len(EncodeMetadata(m))
  BY <1>1, <1>2, <1>3, <1>4, <1>5, <1>6, <1>7, <1>8, <1>9, <1>10, <1>11
<1> QED
  BY <1>12, <1>13, <1>14, <1>15, <1>16

\* No text is longer than the encoding it is in.
LEMMA TextsFit ==
    ASSUME NEW m \in Metadata, NEW text \in Texts(m)
    PROVE  Len(text) \in Nat /\ Len(text) <= Len(EncodeMetadata(m))
<1> DEFINE n == Len(EncodeMetadata(m))
<1>0. /\ m.source \in Uris /\ m.sink \in Option(Uris) /\ m.encoding \in Option(Encoding)
      /\ m.traceparent \in Option(Text) /\ m.token \in Option(Text) /\ n \in Nat
  BY FieldsRead, LenProperties DEF Metadata, Cells
<1>1. ASSUME NEW t \in Text PROVE t \in Cells /\ Len(t) \in Nat /\ Len(AppendString(t)) = 1 + Len(t)
                                  /\ AppendString(t) \in Cells
  <2>1. t \in Cells
    BY CodecAssumption, SeqMonotonic DEF Text, Cells
  <2>2. Len(t) \in Nat
    BY <2>1, LenProperties DEF Cells
  <2>3. <<Len(t)>> \in Cells /\ Len(<<Len(t)>>) = 1
    BY <2>2 DEF Cells
  <2>4. AppendString(t) \in Cells
    BY StringRead DEF Reads
  <2> QED
    BY <2>1, <2>2, <2>3, <2>4, Longer DEF AppendString
<1>2. ASSUME NEW c \in Cells PROVE Len(<<1>> \o c) = 1 + Len(c) /\ Len(c) \in Nat
  <2>1. <<1>> \in Cells /\ Len(<<1>>) = 1
    BY DEF Cells
  <2> QED
    BY <2>1, Longer
<1>3. CASE text = m.source
  <2>1. text \in Text /\ Len(AppendString(text)) <= n
    BY <1>0, <1>3, PartsFit, CodecAssumption
  <2> QED
    BY <1>0, <1>1, <2>1
<1>4. ASSUME NEW i \in DOMAIN m.sink, text = m.sink[i] PROVE Len(text) \in Nat /\ Len(text) <= n
  <2>1. text \in Uris /\ m.sink = <<text>>
    BY <1>0, <1>4, OptionCases
  <2>2. text \in Text /\ WriteSink(m.sink) = AppendString(text)
    BY <2>1, CodecAssumption DEF WriteSink
  <2>3. Len(AppendString(text)) <= n
    BY <2>2, PartsFit
  <2> QED
    BY <1>0, <1>1, <2>2, <2>3
<1>5. ASSUME NEW i \in DOMAIN m.traceparent, text = m.traceparent[i] PROVE Len(text) \in Nat /\ Len(text) <= n
  <2>1. text \in Text /\ m.traceparent = <<text>>
    BY <1>0, <1>5, OptionCases
  <2>2. WriteOptionalString(m.traceparent) = <<1>> \o AppendString(text)
    <3>1. m.traceparent # <<>> /\ m.traceparent[1] = text
      BY <2>1
    <3> QED
      BY <3>1, OptionsWritten DEF OptionWritten
  <2>3. Len(<<1>> \o AppendString(text)) <= n
    BY <2>2, PartsFit
  <2> QED
    BY <1>0, <1>1, <1>2, <2>1, <2>3
<1>6. ASSUME NEW i \in DOMAIN m.token, text = m.token[i] PROVE Len(text) \in Nat /\ Len(text) <= n
  <2>1. text \in Text /\ m.token = <<text>>
    BY <1>0, <1>6, OptionCases
  <2>2. WriteOptionalString(m.token) = <<1>> \o AppendString(text)
    <3>1. m.token # <<>> /\ m.token[1] = text
      BY <2>1
    <3> QED
      BY <3>1, OptionsWritten DEF OptionWritten
  <2>3. Len(<<1>> \o AppendString(text)) <= n
    BY <2>2, PartsFit
  <2> QED
    BY <1>0, <1>1, <1>2, <2>1, <2>3
<1>7. ASSUME NEW i \in DOMAIN m.encoding, m.encoding[i].kind = "custom",
             text \in {m.encoding[i].custom[1], m.encoding[i].custom[2]}
      PROVE  Len(text) \in Nat /\ Len(text) <= n
  <2> DEFINE a == m.encoding[i].custom[1]
             b == m.encoding[i].custom[2]
             some == EncodePayloadEncoding(m.encoding[i])
  <2>1. m.encoding = <<m.encoding[i]>> /\ m.encoding[i] \in Encoding
    BY <1>0, <1>7, OptionCases
  <2>2. m.encoding[i].custom \in Customs
    BY <1>7, <2>1 DEF Encoding
  <2>3. a \in Text /\ b \in Text
    BY <2>2, CodecAssumption
  <2>4. some = (<<1>> \o AppendString(a)) \o AppendString(b)
    BY <1>7 DEF EncodePayloadEncoding
  <2>5. WriteOptional(m.encoding, EncodePayloadEncoding) = <<1>> \o some
    <3>1. m.encoding # <<>> /\ m.encoding[1] = m.encoding[i]
      BY <2>1
    <3> HIDE DEF some
    <3>2. some = EncodePayloadEncoding(m.encoding[1])
      BY <3>1 DEF some
    <3>3. WriteOptional(m.encoding, EncodePayloadEncoding)
            = OptionWritten(m.encoding, EncodePayloadEncoding(m.encoding[1]))
      BY OptionsWritten
    <3> QED
      BY <3>1, <3>2, <3>3 DEF OptionWritten
  <2>6. Len(<<1>> \o some) <= n
    BY <2>5, PartsFit
  <2> HIDE DEF a, b, some
  <2>7. Len(AppendString(a)) = 1 + Len(a) /\ Len(AppendString(b)) = 1 + Len(b)
        /\ Len(a) \in Nat /\ Len(b) \in Nat /\ AppendString(a) \in Cells /\ AppendString(b) \in Cells
    BY <1>1, <2>3
  <2>8. <<1>> \o AppendString(a) \in Cells
    BY <2>7, CellRead
  <2>9. some \in Cells /\ Len(some) = 1 + (1 + Len(a)) + (1 + Len(b))
    <3>1. Len(<<1>> \o AppendString(a)) = 1 + (1 + Len(a))
      BY <1>2, <2>7
    <3>2. Len((<<1>> \o AppendString(a)) \o AppendString(b)) =
            Len(<<1>> \o AppendString(a)) + Len(AppendString(b))
      BY <2>7, <2>8, Longer
    <3>3. (<<1>> \o AppendString(a)) \o AppendString(b) \in Cells
      BY <2>7, <2>8, ConcatProperties DEF Cells
    <3> QED
      BY <2>4, <2>7, <3>1, <3>2, <3>3
  <2>10. Len(<<1>> \o some) = 1 + Len(some)
    BY <1>2, <2>9
  <2>11. Len(a) <= n /\ Len(b) <= n
    BY <1>0, <2>6, <2>7, <2>9, <2>10
  <2> QED
    BY <1>7, <2>7, <2>11 DEF a, b
<1>8. \/ text = m.source
      \/ \E i \in DOMAIN m.sink : text = m.sink[i]
      \/ \E i \in DOMAIN m.traceparent : text = m.traceparent[i]
      \/ \E i \in DOMAIN m.token : text = m.token[i]
      \/ \E i \in DOMAIN m.encoding : /\ m.encoding[i].kind = "custom"
                                      /\ text \in {m.encoding[i].custom[1], m.encoding[i].custom[2]}
  BY DEF Texts
<1> QED
  BY <1>3, <1>4, <1>5, <1>6, <1>7, <1>8

=============================================================================

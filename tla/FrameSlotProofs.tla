-------------------------- MODULE FrameSlotProofs --------------------------
(***************************************************************************)
(* Proofs about FrameSlot, for samples of every size and every metadata:   *)
(* what a sender may loan is what fits, nothing of an earlier use of the   *)
(* slot is sent, what is sent is read back as it was, and whatever others  *)
(* publish, a lease has its payload inside the sample and all of its       *)
(* metadata.                                                               *)
(***************************************************************************)
EXTENDS FrameSlot, MetadataCodecProofs, FiniteSetTheorems

LEMMA PowersAreNat == \A n \in PowersOfTwo : n \in Nat \ {0}
BY DEF PowersOfTwo

\* align_up gives the first multiple that is not less.
LEMMA AlignUpIsLeast ==
    ASSUME NEW n \in Nat, NEW align \in PowersOfTwo
    PROVE  /\ AlignUp(n, align) \in Nat
           /\ n <= AlignUp(n, align)
           /\ AlignUp(n, align) % align = 0
           /\ \A k \in Nat : n <= k /\ k % align = 0 => AlignUp(n, align) <= k
BY DEF AlignUp, PowersOfTwo

\* What is a multiple of the sample's alignment is one of every smaller power of two.
LEMMA AlignmentsNest ==
    ASSUME NEW align \in PowersOfTwo, align <= SampleAlign, NEW n \in Nat, n % SampleAlign = 0
    PROVE  n % align = 0
BY ConstantsAssumption DEF PowersOfTwo

\* Only the offset tells how the payload is aligned.
LEMMA SumIsAligned ==
    ASSUME NEW align \in PowersOfTwo, NEW a \in Nat, NEW b \in Nat, NEW n \in Nat,
           a % align = 0, b % align = 0, (a + n) % align = 0
    PROVE  (b + n) % align = 0
BY DEF PowersOfTwo

-----------------------------------------------------------------------------
(* The layout *)

\* How a loan may be placed.
Placements(request) == {Layout(request), LayoutUninit(request)}

LEMMA Sizes ==
    /\ SampleLen \in Nat \ {0} /\ UsizeMax \in Nat /\ U32Max \in Nat /\ U32Max <= UsizeMax
    /\ \A addr \in WriterAddrs \cup ReaderAddrs :
          addr \in Nat /\ addr % SampleAlign = 0 /\ addr + SampleLen <= UsizeMax
BY ConstantsAssumption, CodecAssumption

LEMMA RequestTypes ==
    ASSUME NEW request \in Request
    PROVE  /\ request.metadata \in Metadata /\ MetadataLen(request) \in Nat
           /\ request.payloadLen \in Nat /\ request.payloadLen <= UsizeMax
           /\ request.addr \in WriterAddrs /\ request.addr \in Nat
           /\ request.align \in Nat
           /\ request.payloadLen > 0 => request.metadata.encoding # <<>>
<1>1. /\ request.metadata \in Sendable /\ request.payloadLen \in PayloadLens
      /\ request.align \in Alignments /\ request.addr \in WriterAddrs
      /\ request.payloadLen > 0 => request.metadata.encoding # <<>>
  BY DEF Request
<1>2. request.metadata \in Metadata /\ request.payloadLen \in 0..UsizeMax
      /\ request.align \in Nat /\ request.addr \in Nat
  BY <1>1, ConstantsAssumption
<1>3. EncodeMetadata(request.metadata) \in Cells
  BY <1>2, FieldsRead
<1>4. MetadataLen(request) \in Nat
  BY <1>3, LenProperties DEF Cells, MetadataLen
<1> QED
  BY <1>1, <1>2, <1>4, Sizes

\* What payload_offset_for_len comes to.
LEMMA PayloadOffsetFacts ==
    ASSUME NEW request \in Request
    PROVE  LET placed == PayloadOffsetOf(request)
               end == request.addr + HeaderLen + MetadataLen(request)
           IN  /\ placed.code \in {"OK", "INVALID_ARGUMENT"} /\ placed.offset \in Nat
               /\ placed.code = "OK" =>
                     /\ HeaderLen + MetadataLen(request) <= placed.offset
                     /\ (request.addr + placed.offset) % request.align = 0
                     /\ \A n \in Nat : /\ HeaderLen + MetadataLen(request) <= n
                                       /\ (request.addr + n) % request.align = 0
                                       => placed.offset <= n
               /\ placed.code # "OK" /\ request.align \in PowersOfTwo =>
                     \A n \in Nat : /\ HeaderLen + MetadataLen(request) <= n
                                    /\ (request.addr + n) % request.align = 0
                                    => request.addr + n > UsizeMax
<1> DEFINE placed == PayloadOffsetOf(request)
           addr == request.addr
           align == request.align
           least == HeaderLen + MetadataLen(request)
           end == addr + least
           up == AlignUp(end, align)
<1>1. addr \in Nat /\ least \in Nat /\ end \in Nat /\ align \in Nat /\ UsizeMax \in Nat
      /\ end = request.addr + HeaderLen + MetadataLen(request)
  BY RequestTypes, Sizes DEF HeaderLen
<1>2. placed = IF end > UsizeMax \/ align \notin PowersOfTwo \/ up > UsizeMax
               THEN Err("INVALID_ARGUMENT") ELSE Ok(up - addr)
  BY <1>1 DEF PayloadOffsetOf, PayloadOffset
<1>3. align \in PowersOfTwo =>
        /\ up \in Nat /\ end <= up /\ up % align = 0
        /\ \A k \in Nat : end <= k /\ k % align = 0 => up <= k
  BY <1>1, AlignUpIsLeast
<1> HIDE DEF placed, addr, align, least, up
<1>4. CASE end > UsizeMax \/ align \notin PowersOfTwo \/ up > UsizeMax
  <2>1. placed.code = "INVALID_ARGUMENT" /\ placed.offset = 0
    BY <1>2, <1>4 DEF Err
  <2>2. ASSUME align \in PowersOfTwo, NEW n \in Nat, least <= n, (addr + n) % align = 0
        PROVE  addr + n > UsizeMax
    <3>1. addr + n \in Nat /\ end <= addr + n
      BY <1>1, <2>2
    <3>2. up <= addr + n
      BY <1>3, <2>2, <3>1
    <3> QED
      BY <1>1, <1>3, <1>4, <2>2, <3>1, <3>2
  <2> QED
    BY <2>1, <2>2 DEF placed, addr, align, least
<1>5. CASE ~(end > UsizeMax \/ align \notin PowersOfTwo \/ up > UsizeMax)
  <2>1. placed.code = "OK" /\ placed.offset = up - addr
    BY <1>2, <1>5 DEF Ok
  <2>2. up \in Nat /\ end <= up /\ up % align = 0
        /\ \A k \in Nat : end <= k /\ k % align = 0 => up <= k
    BY <1>3, <1>5
  <2>3. placed.offset \in Nat /\ least <= placed.offset /\ addr + placed.offset = up
    BY <1>1, <2>1, <2>2
  <2>4. ASSUME NEW n \in Nat, least <= n, (addr + n) % align = 0
        PROVE  placed.offset <= n
    <3>1. addr + n \in Nat /\ end <= addr + n
      BY <1>1, <2>4
    <3>2. up <= addr + n
      BY <2>2, <2>4, <3>1
    <3> QED
      BY <1>1, <2>3, <3>1, <3>2
  <2> QED
    BY <2>1, <2>2, <2>3, <2>4 DEF placed, addr, align, least
<1> QED
  BY <1>4, <1>5

\* A layout that is granted has the payload behind the metadata, inside the sample
\* and aligned at the sender's address.
LEMMA LayoutFacts ==
    ASSUME NEW request \in Request, NEW placed \in Placements(request)
    PROVE  /\ placed.code \in {"OK", "INVALID_ARGUMENT", "RESOURCE_EXHAUSTED"}
           /\ placed.offset \in Nat
           /\ placed.code = "OK" =>
                 /\ HeaderLen + MetadataLen(request) <= placed.offset
                 /\ placed.offset + request.payloadLen <= SampleLen
                 /\ (request.addr + placed.offset) % request.align = 0
                 /\ MetadataLen(request) <= U32Max /\ request.payloadLen <= U32Max
                 /\ placed.offset <= U32Max
                 /\ placed.offset = PayloadOffsetOf(request).offset
                 /\ PayloadOffsetOf(request).code = "OK"
<1> DEFINE first == PayloadOffsetOf(request)
           least == HeaderLen + MetadataLen(request)
<1>0. /\ first.code \in {"OK", "INVALID_ARGUMENT"} /\ first.offset \in Nat
      /\ first.code = "OK" =>
            least <= first.offset /\ (request.addr + first.offset) % request.align = 0
  BY PayloadOffsetFacts
<1>1. /\ request.payloadLen \in Nat /\ MetadataLen(request) \in Nat
      /\ SampleLen \in Nat /\ UsizeMax \in Nat /\ U32Max \in Nat
  BY RequestTypes, Sizes
<1>2. /\ Layout(request) = IF ~LengthsFit(request) THEN Err("INVALID_ARGUMENT")
                           ELSE InSample(Narrowed(first), request.payloadLen)
      /\ LayoutUninit(request) = IF ~LengthsFit(request) THEN Err("INVALID_ARGUMENT")
                                 ELSE Narrowed(InSample(first, request.payloadLen))
  BY DEF Layout, LayoutUninit
<1> HIDE DEF first, least
<1>3. \A x : LET n == Narrowed(x) IN
        \/ n = x /\ x.offset <= U32Max
        \/ n = Err("INVALID_ARGUMENT")
        \/ n = x /\ ~(x.offset > U32Max)
  BY DEF Narrowed
<1>4. \A x : LET s == InSample(x, request.payloadLen) IN
        \/ s = x /\ x.code # "OK"
        \/ s = Err("INVALID_ARGUMENT") \/ s = Err("RESOURCE_EXHAUSTED")
        \/ s = x /\ ~(x.offset + request.payloadLen > SampleLen)
  BY DEF InSample
<1>5. \A code : Err(code).code = code /\ Err(code).offset = 0
  BY DEF Err
<1>6. \/ placed = Err("INVALID_ARGUMENT") \/ placed = Err("RESOURCE_EXHAUSTED")
      \/ placed = first /\ first.code # "OK"
      \/ /\ placed = first /\ LengthsFit(request)
         /\ ~(first.offset > U32Max) /\ ~(first.offset + request.payloadLen > SampleLen)
  <2>1. CASE placed = Layout(request)
    <3> DEFINE n == Narrowed(first)
    <3>1. n = Err("INVALID_ARGUMENT") \/ (n = first /\ ~(first.offset > U32Max))
      BY <1>0, <1>1, <1>3
    <3> HIDE DEF n
    <3>2. CASE ~LengthsFit(request)
      BY <1>2, <2>1, <3>2
    <3>3. CASE LengthsFit(request) /\ n = Err("INVALID_ARGUMENT")
      BY <1>2, <1>4, <1>5, <2>1, <3>3 DEF n
    <3>4. CASE LengthsFit(request) /\ n = first /\ ~(first.offset > U32Max)
      BY <1>2, <1>4, <2>1, <3>4 DEF n
    <3> QED
      BY <3>1, <3>2, <3>3, <3>4
  <2>2. CASE placed = LayoutUninit(request)
    <3> DEFINE s == InSample(first, request.payloadLen)
    <3>1. \/ s = first /\ first.code # "OK"
          \/ s = Err("INVALID_ARGUMENT") \/ s = Err("RESOURCE_EXHAUSTED")
          \/ s = first /\ ~(first.offset + request.payloadLen > SampleLen)
      BY <1>4
    <3> HIDE DEF s
    <3>2. CASE ~LengthsFit(request)
      BY <1>2, <2>2, <3>2
    <3>3. CASE LengthsFit(request)
      <4>1. placed = Narrowed(s)
        BY <1>2, <2>2, <3>3 DEF s
      <4>2. placed = Err("INVALID_ARGUMENT") \/ (placed = s /\ ~(s.offset > U32Max))
        BY <4>1 DEF Narrowed
      <4> QED
        BY <3>1, <3>3, <4>2
    <3> QED
      BY <3>2, <3>3
  <2> QED
    BY <2>1, <2>2 DEF Placements
<1>7. CASE placed = Err("INVALID_ARGUMENT") \/ placed = Err("RESOURCE_EXHAUSTED")
  BY <1>5, <1>7
<1>8. CASE placed = first /\ first.code # "OK"
  BY <1>0, <1>8
<1>9. CASE /\ placed = first /\ LengthsFit(request) /\ first.code = "OK"
           /\ ~(first.offset > U32Max) /\ ~(first.offset + request.payloadLen > SampleLen)
  <2>1. first.offset <= U32Max /\ first.offset + request.payloadLen <= SampleLen
    BY <1>0, <1>1, <1>9
  <2>2. MetadataLen(request) <= U32Max /\ request.payloadLen <= U32Max
    BY <1>9 DEF LengthsFit
  <2> QED
    BY <1>0, <1>9, <2>1, <2>2 DEF first, least
<1> QED
  BY <1>6, <1>7, <1>8, <1>9

\* A layout is refused only for a length, an offset or an end that does not fit.
LEMMA RefusalFacts ==
    ASSUME NEW request \in Request, NEW placed \in Placements(request), placed.code # "OK"
    PROVE  LET first == PayloadOffsetOf(request) IN
           \/ MetadataLen(request) > U32Max \/ request.payloadLen > U32Max
           \/ first.code # "OK"
           \/ first.offset > U32Max
           \/ first.offset + request.payloadLen > UsizeMax
           \/ first.offset + request.payloadLen > SampleLen
<1> DEFINE first == PayloadOffsetOf(request)
<1>1. /\ request.payloadLen \in Nat /\ MetadataLen(request) \in Nat /\ U32Max \in Nat
  BY RequestTypes, Sizes
<1>2. /\ Layout(request) = IF ~LengthsFit(request) THEN Err("INVALID_ARGUMENT")
                           ELSE InSample(Narrowed(first), request.payloadLen)
      /\ LayoutUninit(request) = IF ~LengthsFit(request) THEN Err("INVALID_ARGUMENT")
                                 ELSE Narrowed(InSample(first, request.payloadLen))
  BY DEF Layout, LayoutUninit
<1> HIDE DEF first
<1> SUFFICES ASSUME LengthsFit(request), first.code = "OK", ~(first.offset > U32Max),
                    ~(first.offset + request.payloadLen > UsizeMax),
                    ~(first.offset + request.payloadLen > SampleLen)
             PROVE  FALSE
  BY <1>1 DEF LengthsFit, first
<1>3. Narrowed(first) = first
  BY DEF Narrowed
<1>4. InSample(first, request.payloadLen) = first
  BY DEF InSample
<1>5. placed = first
  BY <1>2, <1>3, <1>4 DEF Placements
<1> QED
  BY <1>5

\* What a request that was granted, or refused, comes to.
LEMMA GrantFacts ==
    ASSUME NEW request \in Request, NEW placed \in Placements(request)
    PROVE  LET l == Grant(request, placed) IN
           /\ l.request = request /\ l.offset = placed.offset
           /\ l \in [code : {"OK", "INVALID_ARGUMENT", "RESOURCE_EXHAUSTED"},
                     offset : Nat, request : Request]
           /\ l # NoLoan
           /\ l.code = "OK" <=> /\ AlignmentAccepted(request.align)
                                /\ IsEncodable(request.metadata) /\ placed.code = "OK"
           /\ l.code = "OK" =>
                 /\ HeaderOf(l) \in Header
                 /\ Accepts(HeaderOf(l), EncodeMetadata(request.metadata))
                 /\ HeaderLen + MetadataLen(request) <= l.offset
                 /\ l.offset + request.payloadLen <= SampleLen
                 /\ (request.addr + l.offset) % request.align = 0
<1> DEFINE l == Grant(request, placed)
           code == IF AlignmentAccepted(request.align) /\ IsEncodable(request.metadata)
                   THEN placed.code ELSE "INVALID_ARGUMENT"
<1>1. l = [code |-> code, offset |-> placed.offset, request |-> request]
  BY DEF Grant
<1>2. /\ placed.code \in {"OK", "INVALID_ARGUMENT", "RESOURCE_EXHAUSTED"}
      /\ placed.offset \in Nat
      /\ placed.code = "OK" =>
            /\ HeaderLen + MetadataLen(request) <= placed.offset
            /\ placed.offset + request.payloadLen <= SampleLen
            /\ (request.addr + placed.offset) % request.align = 0
            /\ MetadataLen(request) <= U32Max /\ request.payloadLen <= U32Max
            /\ placed.offset <= U32Max
  BY LayoutFacts
<1>3. /\ MetadataLen(request) \in Nat /\ request.payloadLen \in Nat /\ U32Max \in Nat
      /\ SampleLen \in Nat /\ request.metadata \in Metadata
  BY RequestTypes, Sizes
<1>4. code \in {"OK", "INVALID_ARGUMENT", "RESOURCE_EXHAUSTED"}
      /\ (code = "OK" <=> /\ AlignmentAccepted(request.align)
                          /\ IsEncodable(request.metadata) /\ placed.code = "OK")
  BY <1>2
<1> HIDE DEF code, l
<1>5. l.code = code /\ l.offset = placed.offset /\ l.request = request
  BY <1>1
<1>6. l \in [code : {"OK", "INVALID_ARGUMENT", "RESOURCE_EXHAUSTED"},
             offset : Nat, request : Request]
  BY <1>1, <1>2, <1>4
<1>7. l # NoLoan
  BY <1>4, <1>5 DEF NoLoan
<1>8. ASSUME code = "OK"
      PROVE  /\ HeaderOf(l) \in Header
             /\ Accepts(HeaderOf(l), EncodeMetadata(request.metadata))
  <2>1. HeaderOf(l) = [magic |-> TRUE, metadataLen |-> MetadataLen(request),
                       payloadLen |-> request.payloadLen, payloadOffset |-> placed.offset]
    BY <1>5 DEF HeaderOf
  <2>2. /\ placed.offset <= U32Max /\ MetadataLen(request) <= U32Max
        /\ request.payloadLen <= U32Max
        /\ HeaderLen + MetadataLen(request) <= placed.offset
        /\ placed.offset + request.payloadLen <= SampleLen
    BY <1>2, <1>4, <1>8
  <2>3. HeaderOf(l) \in Header
    BY <1>2, <1>3, <2>1, <2>2 DEF Header
  <2>4. Decodes(EncodeMetadata(request.metadata))
    BY <1>3, RoundTrip
  <2>5. SampleLen >= HeaderLen /\ HeaderLen + MetadataLen(request) <= SampleLen
        /\ placed.offset >= HeaderLen + MetadataLen(request)
    BY <1>2, <1>3, <2>2 DEF HeaderLen
  <2>6. /\ HeaderOf(l).magic /\ HeaderOf(l).metadataLen = MetadataLen(request)
        /\ HeaderOf(l).payloadLen = request.payloadLen
        /\ HeaderOf(l).payloadOffset = placed.offset
    BY <2>1
  <2> QED
    BY <2>2, <2>3, <2>4, <2>5, <2>6 DEF Accepts
<1> QED
  BY <1>2, <1>4, <1>5, <1>6, <1>7, <1>8 DEF l

\* What is refused does not fit, and what is granted is at the first place.
LEMMA FirstPlace ==
    ASSUME NEW request \in Request, NEW placed \in Placements(request),
           AlignmentAccepted(request.align), SampleLen <= U32Max
    PROVE  IF Grant(request, placed).code = "OK"
           THEN /\ placed.offset \in Places(request)
                /\ \A n \in Places(request) : placed.offset <= n
           ELSE Places(request) = {}
<1> DEFINE first == PayloadOffsetOf(request)
           least == HeaderLen + MetadataLen(request)
           addr == request.addr
           align == request.align
           payloadLen == request.payloadLen
<1>1. /\ payloadLen \in Nat /\ MetadataLen(request) \in Nat /\ least \in Nat
      /\ SampleLen \in Nat /\ UsizeMax \in Nat /\ U32Max \in Nat /\ U32Max <= UsizeMax
      /\ addr \in Nat /\ addr + SampleLen <= UsizeMax /\ MetadataLen(request) <= least
  BY RequestTypes, Sizes DEF HeaderLen
<1>2. align \in PowersOfTwo
  BY DEF AlignmentAccepted
<1>3. ASSUME NEW n \in Places(request)
      PROVE  /\ n \in Nat /\ least <= n /\ n + payloadLen <= SampleLen
             /\ (addr + n) % align = 0 /\ n <= SampleLen /\ addr + n <= UsizeMax
  <2>1. n \in Nat /\ n >= least /\ n + payloadLen <= SampleLen /\ (addr + n) % align = 0
    BY <1>1 DEF Places, Bytes
  <2> HIDE DEF least, addr, align, payloadLen
  <2> QED
    BY <1>1, <2>1
<1>4. /\ first.code \in {"OK", "INVALID_ARGUMENT"} /\ first.offset \in Nat
      /\ first.code = "OK" =>
            \A n \in Nat : least <= n /\ (addr + n) % align = 0 => first.offset <= n
      /\ first.code # "OK" =>
            \A n \in Nat : least <= n /\ (addr + n) % align = 0 => addr + n > UsizeMax
  BY <1>2, PayloadOffsetFacts
<1>5. CASE Grant(request, placed).code = "OK"
  <2>1. /\ placed.code = "OK" /\ placed.offset \in Nat
    BY <1>5, GrantFacts, LayoutFacts
  <2>2. /\ least <= placed.offset /\ placed.offset + payloadLen <= SampleLen
        /\ (addr + placed.offset) % align = 0
        /\ placed.offset = first.offset /\ first.code = "OK"
    BY <2>1, LayoutFacts
  <2>3. placed.offset \in Bytes \cup {SampleLen}
    <3> DEFINE n == placed.offset
    <3>1. n \in Nat /\ n + payloadLen <= SampleLen /\ payloadLen \in Nat /\ SampleLen \in Nat
      BY <1>1, <2>1, <2>2
    <3> HIDE DEF n, payloadLen
    <3>2. n \in 0..(SampleLen - 1) \cup {SampleLen}
      BY <3>1
    <3> QED
      BY <3>2 DEF Bytes, n
  <2>4. placed.offset \in Places(request)
    BY <1>1, <2>1, <2>2, <2>3 DEF Places, HeaderLen
  <2>5. \A n \in Places(request) : placed.offset <= n
    BY <1>3, <1>4, <2>2
  <2> QED
    BY <1>5, <2>4, <2>5
<1>6. CASE Grant(request, placed).code # "OK"
  <2> SUFFICES ASSUME NEW n \in Places(request) PROVE FALSE
    BY <1>6
  <2>0. /\ n \in Nat /\ least <= n /\ n + payloadLen <= SampleLen
        /\ (addr + n) % align = 0 /\ n <= SampleLen /\ addr + n <= UsizeMax
    BY <1>3
  <2>1. CASE ~IsEncodable(request.metadata)
    <3>1. PICK text \in Texts(request.metadata) : ~(Len(text) <= U32Max)
      BY <2>1 DEF IsEncodable
    <3>2. Len(text) <= MetadataLen(request) /\ Len(text) \in Nat
      BY <3>1, RequestTypes, TextsFit DEF MetadataLen
    <3> HIDE DEF least
    <3> QED
      BY <1>1, <2>0, <3>1, <3>2
  <2>2. CASE placed.code # "OK"
    <3>1. \/ MetadataLen(request) > U32Max \/ payloadLen > U32Max
          \/ first.code # "OK"
          \/ first.offset > U32Max
          \/ first.offset + payloadLen > UsizeMax
          \/ first.offset + payloadLen > SampleLen
      BY <2>2, RefusalFacts
    <3>2. first.code = "OK"
      <4> SUFFICES ASSUME first.code # "OK" PROVE FALSE
        OBVIOUS
      <4>1. addr + n > UsizeMax
        BY <1>4, <2>0
      <4> HIDE DEF addr
      <4> QED
        BY <1>1, <2>0, <4>1
    <3>3. first.offset <= n
      BY <1>4, <2>0, <3>2
    <3> HIDE DEF first, least, addr, align, payloadLen
    <3> QED
      BY <1>1, <1>4, <2>0, <3>1, <3>2, <3>3
  <2>3. IsEncodable(request.metadata) /\ placed.code = "OK" => Grant(request, placed).code = "OK"
    BY GrantFacts
  <2> QED
    BY <1>6, <2>1, <2>2, <2>3
<1> QED
  BY <1>5, <1>6

-----------------------------------------------------------------------------
(* The inductive invariant *)

\* A loan is what some request and its placement came to.
LoanInv ==
    loan # NoLoan =>
        \E request \in Request : \E placed \in Placements(request) :
            loan = Grant(request, placed)

\* A loan is unsent only while the sender has it, and a lease is there only while
\* the receiver has it.
PhaseInv ==
    /\ phase \in {"free", "refused", "uninit", "init", "sent", "leased", "discarded"}
    /\ phase \in {"uninit", "init"} => Ours
    /\ phase = "free" => loan = NoLoan
    /\ lease # NoLease => phase \in {"leased", "discarded"}

\* Header and metadata are those of the loan, from the grant to the drop.
HeaderInv ==
    /\ header \in Header
    /\ cells \in Seq(Nat)
    /\ Ours => header = HeaderOf(loan) /\ cells = EncodeMetadata(loan.request.metadata)

\* What wrote the byte b of a frame that is not one of its payload's.
WriterOf(l, b) ==
    IF b \in HeaderBytes THEN "header"
    ELSE IF b \in MetadataBytes(MetadataLen(l.request)) THEN "metadata" ELSE "zero"

\* From the grant on, all but the payload is this frame's; the payload is, once it
\* was initialised.
BytesInv ==
    /\ bytes \in [Bytes -> Origins]
    /\ Ours /\ phase \in {"uninit", "init", "sent"} =>
          \A b \in Bytes :
              IF b \in PayloadBytes(loan)
              THEN phase # "uninit" => bytes[b] \in {"zero", "payload"}
              ELSE bytes[b] = WriterOf(loan, b)

\* A lease is what the slot says, as long as the receiver has it, and what this
\* transport wrote is accepted.
LeaseInv ==
    /\ \/ lease = NoLease
       \/ lease = [code |-> "INVALID_ARGUMENT"]
       \/ \E addr \in ReaderAddrs :
             /\ lease = [code |-> "OK", addr |-> addr, header |-> header,
                         metadata |-> DecodeMetadata(MetadataRead(header))]
             /\ Accepts(header, MetadataRead(header))
    /\ Ours /\ lease # NoLease => lease.code = "OK"

SlotInv == PhaseInv /\ LoanInv /\ HeaderInv /\ BytesInv /\ LeaseInv

-----------------------------------------------------------------------------
(* Initial states and steps *)

\* What a loan in the slot is known to be.
LEMMA LoanFacts ==
    ASSUME LoanInv, loan # NoLoan
    PROVE  /\ loan \in [code : {"OK", "INVALID_ARGUMENT", "RESOURCE_EXHAUSTED"},
                        offset : Nat, request : Request]
           /\ loan.code = "OK" =>
                 /\ AlignmentAccepted(loan.request.align)
                 /\ HeaderOf(loan) \in Header
                 /\ Accepts(HeaderOf(loan), EncodeMetadata(loan.request.metadata))
                 /\ HeaderLen + MetadataLen(loan.request) <= loan.offset
                 /\ loan.offset + loan.request.payloadLen <= SampleLen
                 /\ (loan.request.addr + loan.offset) % loan.request.align = 0
<1>1. PICK request \in Request : \E placed \in Placements(request) :
         loan = Grant(request, placed)
  BY DEF LoanInv
<1>2. PICK placed \in Placements(request) : loan = Grant(request, placed)
  BY <1>1
<1> QED
  BY <1>2, GrantFacts

LEMMA NoHeaderIsOne == NoHeader \in Header
BY Sizes DEF NoHeader, Header

LEMMA NoCells == <<>> \in Seq(Nat)
OBVIOUS

\* Header and metadata are written over a frame's bytes without touching its payload.
LEMMA WithHeaderFacts ==
    ASSUME NEW request \in Request, NEW placed \in Placements(request), NEW l,
           l = Grant(request, placed), l.code = "OK",
           NEW base \in [Bytes -> Origins],
           \A b \in Bytes : b \notin PayloadBytes(l) => base[b] = "zero"
    PROVE  /\ WithHeader(base, l) \in [Bytes -> Origins]
           /\ \A b \in Bytes :
                 WithHeader(base, l)[b] = IF b \in PayloadBytes(l) THEN base[b]
                                          ELSE WriterOf(l, b)
<1>1. /\ l.request = request /\ l.offset \in Nat
      /\ HeaderLen + MetadataLen(request) <= l.offset
      /\ request.payloadLen \in Nat /\ MetadataLen(request) \in Nat /\ SampleLen \in Nat
  BY GrantFacts, LayoutFacts, RequestTypes, Sizes
<1>2. WithHeader(base, l) =
        [b \in Bytes |->
            IF b \in HeaderBytes THEN "header"
            ELSE IF b \in MetadataBytes(MetadataLen(request)) THEN "metadata"
            ELSE IF b < l.offset THEN "zero" ELSE base[b]]
  BY <1>1 DEF WithHeader
<1>3. WithHeader(base, l) \in [Bytes -> Origins]
  BY <1>2 DEF Origins
<1>4. ASSUME NEW b \in Bytes
      PROVE  WithHeader(base, l)[b] = IF b \in PayloadBytes(l) THEN base[b]
                                      ELSE WriterOf(l, b)
  <2>1. /\ WithHeader(base, l)[b] =
             IF b \in HeaderBytes THEN "header"
             ELSE IF b \in MetadataBytes(MetadataLen(request)) THEN "metadata"
             ELSE IF b < l.offset THEN "zero" ELSE base[b]
        /\ WriterOf(l, b) =
             IF b \in HeaderBytes THEN "header"
             ELSE IF b \in MetadataBytes(MetadataLen(request)) THEN "metadata" ELSE "zero"
        /\ b \notin PayloadBytes(l) => base[b] = "zero"
    BY <1>1, <1>2 DEF WriterOf
  <2>2. b \in PayloadBytes(l) => /\ b \notin HeaderBytes
                                 /\ b \notin MetadataBytes(MetadataLen(request))
                                 /\ ~(b < l.offset)
    <3> DEFINE from == l.offset
               len == request.payloadLen
               n == MetadataLen(request)
    <3>1. /\ from \in Nat /\ len \in Nat /\ n \in Nat /\ 20 + n <= from /\ SampleLen \in Nat
          /\ PayloadBytes(l) = from..(from + len - 1)
      BY <1>1 DEF PayloadBytes, HeaderLen
    <3> HIDE DEF from, len, n
    <3>2. b \in Int
      BY <3>1 DEF Bytes
    <3>3. b \in PayloadBytes(l) =>
            b \notin (0..4) \cup (8..19) /\ b \notin 20..(20 + n - 1) /\ ~(b < from)
      BY <3>1, <3>2
    <3> QED
      BY <3>3 DEF HeaderBytes, MetadataBytes, HeaderLen, from, n
  <2> QED
    BY <2>1, <2>2
<1> QED
  BY <1>3, <1>4

\* The cells that the header calls metadata are those that were written.
LEMMA WhatWasWrittenIsRead ==
    ASSUME NEW h, cells \in Seq(Nat), h.metadataLen = Len(cells)
    PROVE  MetadataRead(h) = cells
<1>1. /\ Len(cells) \in Nat /\ cells \in [1..Len(cells) -> Nat]
  BY LenProperties
<1>2. MetadataRead(h) = [i \in 1..Len(cells) |-> cells[i]]
  BY <1>1 DEF MetadataRead
<1> QED
  BY <1>1, <1>2

LEMMA InitSlot == Init => SlotInv
<1> SUFFICES ASSUME Init PROVE SlotInv
  OBVIOUS
<1>1. PhaseInv
  BY DEF Init, PhaseInv
<1>2. LoanInv
  BY DEF Init, LoanInv
<1>3. ~Ours
  BY DEF Init, Ours
<1>4. HeaderInv
  BY <1>3, NoHeaderIsOne, NoCells DEF Init, HeaderInv
<1>5. BytesInv
  BY <1>3 DEF Init, BytesInv, Origins
<1>6. LeaseInv
  BY <1>3 DEF Init, LeaseInv
<1> QED
  BY <1>1, <1>2, <1>4, <1>5, <1>6 DEF SlotInv

\* A grant makes a frame of this transport, whatever the sample held.
LEMMA GrantSlot ==
    ASSUME SlotInv, phase = "free",
           NEW request \in Request, NEW placed \in Placements(request),
           loan' = Grant(request, placed), loan'.code = "OK",
           NEW base \in [Bytes -> Origins], bytes' = WithHeader(base, loan'),
           header' = HeaderOf(loan'), cells' = EncodeMetadata(request.metadata),
           phase' \in {"uninit", "init"}, lease' = lease,
           \A b \in Bytes : IF b \in PayloadBytes(loan')
                            THEN phase' # "uninit" => base[b] \in {"zero", "payload"}
                            ELSE base[b] = "zero"
    PROVE  SlotInv'
<1>1. lease = NoLease
  BY DEF SlotInv, PhaseInv
<1>2. loan' # NoLoan /\ loan'.request = request /\ HeaderOf(loan') \in Header
  BY GrantFacts
<1>3. PhaseInv'
  BY <1>1, <1>2 DEF PhaseInv, Ours
<1>4. LoanInv'
  BY DEF LoanInv
<1>5. EncodeMetadata(request.metadata) \in Seq(Nat)
  BY RequestTypes, FieldsRead DEF Cells
<1>6. HeaderInv'
  BY <1>2, <1>5 DEF HeaderInv
<1>7. /\ bytes' \in [Bytes -> Origins]
      /\ \A b \in Bytes : bytes'[b] = IF b \in PayloadBytes(loan') THEN base[b]
                                      ELSE WriterOf(loan', b)
  BY WithHeaderFacts
<1>8. BytesInv'
  BY <1>7 DEF BytesInv
<1>9. LeaseInv'
  BY <1>1 DEF LeaseInv
<1> QED
  BY <1>3, <1>4, <1>6, <1>8, <1>9 DEF SlotInv

\* A refusal leaves no frame of this transport.
LEMMA RefusalSlot ==
    ASSUME SlotInv, phase = "free",
           NEW request \in Request, NEW placed \in Placements(request),
           loan' = Grant(request, placed), loan'.code # "OK",
           bytes' \in [Bytes -> Origins], phase' = "refused",
           header' = header, cells' = cells, lease' = lease
    PROVE  SlotInv'
<1>1. lease = NoLease
  BY DEF SlotInv, PhaseInv
<1>2. ~Ours'
  BY DEF Ours
<1>3. PhaseInv'
  BY <1>1 DEF PhaseInv
<1>4. LoanInv'
  BY DEF LoanInv
<1>5. HeaderInv'
  BY <1>2 DEF HeaderInv, SlotInv
<1>6. BytesInv'
  BY <1>2 DEF BytesInv
<1>7. LeaseInv'
  BY <1>1, <1>2 DEF LeaseInv
<1> QED
  BY <1>3, <1>4, <1>5, <1>6, <1>7 DEF SlotInv

LEMMA ZeroedBytes == Zeroed \in [Bytes -> Origins] /\ \A b \in Bytes : Zeroed[b] = "zero"
BY DEF Zeroed, Origins

LEMMA LoanSlot ==
    ASSUME SlotInv, NEW request \in Request,
           Loan(request) \/ LoanUninit(request) \/ LoanRefused(request) \/ LoanUninitRefused(request)
    PROVE  SlotInv'
<1>0. Layout(request) \in Placements(request) /\ LayoutUninit(request) \in Placements(request)
  BY DEF Placements
<1>1. CASE Loan(request)
  <2>1. /\ phase = "free" /\ loan' = Grant(request, Layout(request)) /\ loan'.code = "OK"
        /\ bytes' = WithHeader(Zeroed, loan') /\ header' = HeaderOf(loan')
        /\ cells' = EncodeMetadata(request.metadata) /\ phase' = "init" /\ lease' = lease
    BY <1>1 DEF Loan
  <2> QED
    BY <1>0, <2>1, ZeroedBytes, GrantSlot
<1>2. CASE LoanUninit(request)
  <2> DEFINE base == AllButPayload(loan')
  <2>1. /\ phase = "free" /\ loan' = Grant(request, LayoutUninit(request)) /\ loan'.code = "OK"
        /\ bytes' = WithHeader(base, loan') /\ header' = HeaderOf(loan')
        /\ cells' = EncodeMetadata(request.metadata) /\ phase' = "uninit" /\ lease' = lease
    BY <1>2 DEF LoanUninit
  <2>2. /\ base \in [Bytes -> Origins]
        /\ \A b \in Bytes : b \notin PayloadBytes(loan') => base[b] = "zero"
    BY DEF SlotInv, BytesInv, AllButPayload, Origins
  <2> HIDE DEF base
  <2> QED
    BY <1>0, <2>1, <2>2, GrantSlot
<1>3. CASE LoanRefused(request)
  <2>1. /\ phase = "free" /\ loan' = Grant(request, Layout(request)) /\ loan'.code # "OK"
        /\ bytes' \in {Zeroed, bytes} /\ phase' = "refused"
        /\ header' = header /\ cells' = cells /\ lease' = lease
    BY <1>3 DEF LoanRefused
  <2>2. bytes' \in [Bytes -> Origins]
    BY <2>1, ZeroedBytes DEF SlotInv, BytesInv
  <2> QED
    BY <1>0, <2>1, <2>2, RefusalSlot
<1>4. CASE LoanUninitRefused(request)
  <2>1. /\ phase = "free" /\ loan' = Grant(request, LayoutUninit(request)) /\ loan'.code # "OK"
        /\ bytes' = bytes /\ phase' = "refused"
        /\ header' = header /\ cells' = cells /\ lease' = lease
    BY <1>4 DEF LoanUninitRefused
  <2>2. bytes' \in [Bytes -> Origins]
    BY <2>1 DEF SlotInv, BytesInv
  <2> QED
    BY <1>0, <2>1, <2>2, RefusalSlot
<1> QED
  BY <1>1, <1>2, <1>3, <1>4

\* The payload is written, and nothing else.
LEMMA WritePayloadSlot ==
    ASSUME SlotInv, WritePayload
    PROVE  SlotInv'
<1>1. /\ phase \in {"init", "uninit"} /\ phase' = phase
      /\ bytes' = [b \in Bytes |-> IF b \in PayloadBytes(loan) THEN "payload" ELSE bytes[b]]
      /\ header' = header /\ cells' = cells /\ loan' = loan /\ lease' = lease
  BY DEF WritePayload
<1>2. PhaseInv /\ LoanInv /\ HeaderInv /\ BytesInv /\ LeaseInv
  BY DEF SlotInv
<1>3. PhaseInv' /\ LoanInv' /\ HeaderInv' /\ LeaseInv'
  BY <1>1, <1>2 DEF PhaseInv, LoanInv, HeaderInv, LeaseInv, Ours, MetadataRead
<1>4. bytes' \in [Bytes -> Origins]
  BY <1>1, <1>2 DEF BytesInv, Origins
<1>5. ASSUME NEW b \in Bytes, Ours
      PROVE  IF b \in PayloadBytes(loan) THEN bytes'[b] \in {"zero", "payload"}
             ELSE bytes'[b] = WriterOf(loan, b)
  BY <1>1, <1>2, <1>5 DEF BytesInv
<1>6. BytesInv'
  BY <1>1, <1>4, <1>5 DEF BytesInv, Ours
<1> QED
  BY <1>3, <1>6 DEF SlotInv

\* The payload is initialised by then, so all bytes are this frame's.
LEMMA AssumePayloadInitSlot ==
    ASSUME SlotInv, AssumePayloadInit
    PROVE  SlotInv'
<1>1. /\ phase = "uninit" /\ phase' = "init"
      /\ \A b \in PayloadBytes(loan) : bytes[b] = "payload"
      /\ bytes' = bytes /\ header' = header /\ cells' = cells /\ loan' = loan /\ lease' = lease
  BY DEF AssumePayloadInit
<1>2. PhaseInv /\ LoanInv /\ HeaderInv /\ BytesInv /\ LeaseInv
  BY DEF SlotInv
<1>3. PhaseInv' /\ LoanInv' /\ HeaderInv' /\ LeaseInv'
  BY <1>1, <1>2 DEF PhaseInv, LoanInv, HeaderInv, LeaseInv, Ours, MetadataRead
<1>4. BytesInv'
  BY <1>1, <1>2 DEF BytesInv, Ours
<1> QED
  BY <1>3, <1>4 DEF SlotInv

LEMMA SendSlot ==
    ASSUME SlotInv, Send
    PROVE  SlotInv'
<1>1. /\ phase = "init" /\ phase' = "sent"
      /\ bytes' = bytes /\ header' = header /\ cells' = cells /\ loan' = loan /\ lease' = lease
  BY DEF Send
<1>2. PhaseInv /\ LoanInv /\ HeaderInv /\ BytesInv /\ LeaseInv
  BY DEF SlotInv
<1>3. lease = NoLease
  BY <1>1, <1>2 DEF PhaseInv
<1>4. PhaseInv' /\ LoanInv' /\ HeaderInv' /\ LeaseInv'
  BY <1>1, <1>2, <1>3 DEF PhaseInv, LoanInv, HeaderInv, LeaseInv, Ours, MetadataRead
<1>5. BytesInv'
  BY <1>1, <1>2 DEF BytesInv, Ours
<1> QED
  BY <1>4, <1>5 DEF SlotInv

\* What others publish is no frame of this transport.
LEMMA SendAlienSlot ==
    ASSUME SlotInv, NEW frame \in AlienFrames, SendAlien(frame)
    PROVE  SlotInv'
<1>1. /\ phase = "free" /\ phase' = "sent"
      /\ header' = frame.header /\ cells' = frame.cells
      /\ bytes' = [b \in Bytes |-> "alien"] /\ loan' = NoLoan /\ lease' = lease
  BY DEF SendAlien
<1>2. frame.header \in Header /\ frame.cells \in Seq(Nat)
  BY AlienFramesAssumption
<1>3. lease = NoLease /\ ~Ours'
  BY <1>1 DEF SlotInv, PhaseInv, Ours
<1>4. PhaseInv' /\ LoanInv' /\ HeaderInv' /\ LeaseInv'
  BY <1>1, <1>2, <1>3 DEF PhaseInv, LoanInv, HeaderInv, LeaseInv
<1>5. BytesInv'
  BY <1>1, <1>3 DEF BytesInv, Origins
<1> QED
  BY <1>4, <1>5 DEF SlotInv

\* A frame of this transport is read back, and what is not accepted makes no lease.
LEMMA ReceiveSlot ==
    ASSUME SlotInv, NEW addr \in ReaderAddrs, Receive(addr)
    PROVE  SlotInv'
<1>1. /\ phase = "sent"
      /\ bytes' = bytes /\ header' = header /\ cells' = cells /\ loan' = loan
  BY DEF Receive
<1>2. PICK valid \in BOOLEAN :
        /\ loan # NoLoan => valid
        /\ IF Accepts(header, MetadataRead(header)) /\ valid
           THEN /\ lease' = [code |-> "OK", addr |-> addr, header |-> header,
                             metadata |-> DecodeMetadata(MetadataRead(header))]
                /\ phase' = "leased"
           ELSE lease' = [code |-> "INVALID_ARGUMENT"] /\ phase' = "discarded"
  BY DEF Receive
<1>3. PhaseInv /\ LoanInv /\ HeaderInv /\ BytesInv /\ LeaseInv
  BY DEF SlotInv
<1>4. PhaseInv' /\ LoanInv' /\ HeaderInv'
  BY <1>1, <1>2, <1>3 DEF PhaseInv, LoanInv, HeaderInv, Ours
<1>5. BytesInv'
  BY <1>1, <1>2, <1>3 DEF BytesInv
<1>6. MetadataRead(header)' = MetadataRead(header)
  BY <1>1 DEF MetadataRead
<1>7. Ours => Accepts(header, MetadataRead(header)) /\ valid
  <2> SUFFICES ASSUME Ours PROVE Accepts(header, MetadataRead(header)) /\ valid
    OBVIOUS
  <2>1. /\ header = HeaderOf(loan) /\ cells = EncodeMetadata(loan.request.metadata)
        /\ cells \in Seq(Nat)
    BY <1>3 DEF HeaderInv
  <2>2. header.metadataLen = Len(cells)
    BY <2>1 DEF HeaderOf, MetadataLen
  <2>3. MetadataRead(header) = cells
    BY <2>1, <2>2, WhatWasWrittenIsRead
  <2>4. loan # NoLoan /\ loan.code = "OK"
    BY DEF Ours
  <2>5. Accepts(header, cells)
    BY <1>3, <2>1, <2>4, LoanFacts
  <2> QED
    BY <1>2, <2>3, <2>4, <2>5
<1>8. LeaseInv'
  <2>1. CASE Accepts(header, MetadataRead(header)) /\ valid
    <3>1. lease' = [code |-> "OK", addr |-> addr, header |-> header,
                    metadata |-> DecodeMetadata(MetadataRead(header))]
      BY <1>2, <2>1
    <3> QED
      BY <1>1, <1>6, <2>1, <3>1 DEF LeaseInv
  <2>2. CASE ~(Accepts(header, MetadataRead(header)) /\ valid)
    <3>1. lease' = [code |-> "INVALID_ARGUMENT"] /\ ~Ours
      BY <1>2, <1>7, <2>2
    <3> QED
      BY <1>1, <3>1 DEF LeaseInv, Ours
  <2> QED
    BY <2>1, <2>2
<1> QED
  BY <1>4, <1>5, <1>8 DEF SlotInv

LEMMA DropSlot ==
    ASSUME SlotInv, Drop
    PROVE  SlotInv'
<1>1. /\ phase' = "free" /\ bytes' = [b \in Bytes |-> "stale"] /\ header' = NoHeader
      /\ cells' = <<>> /\ lease' = NoLease /\ loan' = NoLoan
  BY DEF Drop
<1>2. ~Ours'
  BY <1>1 DEF Ours
<1>3. PhaseInv' /\ LoanInv' /\ HeaderInv' /\ LeaseInv'
  BY <1>1, <1>2, NoHeaderIsOne, NoCells DEF PhaseInv, LoanInv, HeaderInv, LeaseInv
<1>4. BytesInv'
  BY <1>1, <1>2 DEF BytesInv, Origins
<1> QED
  BY <1>3, <1>4 DEF SlotInv

LEMMA SlotStays ==
    ASSUME SlotInv, UNCHANGED vars
    PROVE  SlotInv'
BY DEF vars, SlotInv, PhaseInv, LoanInv, HeaderInv, BytesInv, LeaseInv, Ours, MetadataRead

LEMMA SlotAlways == Spec => []SlotInv
<1>1. SlotInv /\ [Next]_vars => SlotInv'
  <2> SUFFICES ASSUME SlotInv, [Next]_vars PROVE SlotInv'
    OBVIOUS
  <2>1. ASSUME NEW request \in Request,
               \/ Loan(request) \/ LoanRefused(request)
               \/ LoanUninit(request) \/ LoanUninitRefused(request)
        PROVE  SlotInv'
    BY <2>1, LoanSlot
  <2>2. ASSUME NEW frame \in AlienFrames, SendAlien(frame) PROVE SlotInv'
    BY <2>2, SendAlienSlot
  <2>3. ASSUME NEW addr \in ReaderAddrs, Receive(addr) PROVE SlotInv'
    BY <2>3, ReceiveSlot
  <2>4. CASE WritePayload
    BY <2>4, WritePayloadSlot
  <2>5. CASE AssumePayloadInit
    BY <2>5, AssumePayloadInitSlot
  <2>6. CASE Send
    BY <2>6, SendSlot
  <2>7. CASE Drop
    BY <2>7, DropSlot
  <2>8. CASE UNCHANGED vars
    BY <2>8, SlotStays
  <2> QED
    BY <2>1, <2>2, <2>3, <2>4, <2>5, <2>6, <2>7, <2>8 DEF Next
<1> QED
  BY <1>1, InitSlot, PTL DEF Spec

-----------------------------------------------------------------------------
(* What follows from it *)

LEMMA SlotTyped == SlotInv => TypeOK
<1> SUFFICES ASSUME SlotInv PROVE TypeOK
  OBVIOUS
<1>1. PhaseInv /\ LoanInv /\ HeaderInv /\ BytesInv /\ LeaseInv
  BY DEF SlotInv
<1>2. loan = NoLoan \/ loan \in [code : {"OK", "INVALID_ARGUMENT", "RESOURCE_EXHAUSTED"},
                                  offset : Nat, request : Request]
  BY <1>1, LoanFacts
<1>3. lease.code \in {"none", "OK", "INVALID_ARGUMENT"}
  BY <1>1 DEF LeaseInv, NoLease
<1> QED
  BY <1>1, <1>2, <1>3 DEF TypeOK, PhaseInv, HeaderInv, BytesInv

\* The slot's variables have their types, and the header fields that write_frame_header
\* narrows are u32 for every request that is granted.
THEOREM TypeCorrect == Spec => []TypeOK
BY SlotAlways, SlotTyped, PTL

\* For samples and payloads of every size: when loan_tx's or loan_uninit_tx's frame is
\* sent, no byte of it is left from an earlier use of the slot, and outside the
\* payload the bytes are the header's, the metadata's, or zero.
THEOREM NoStaleByteIsSent == Spec => []NothingStaleIsSent
<1>1. SlotInv => NothingStaleIsSent
  <2> SUFFICES ASSUME SlotInv, phase = "sent", Ours, NEW b \in Bytes
               PROVE  bytes[b] \in IF b \in PayloadBytes(loan) THEN {"zero", "payload"}
                                   ELSE IF b \in HeaderBytes THEN {"header"}
                                   ELSE IF b \in MetadataBytes(MetadataLen(loan.request))
                                   THEN {"metadata"} ELSE {"zero"}
    BY DEF NothingStaleIsSent
  <2>1. IF b \in PayloadBytes(loan) THEN bytes[b] \in {"zero", "payload"}
        ELSE bytes[b] = WriterOf(loan, b)
    BY DEF SlotInv, BytesInv
  <2> QED
    BY <2>1 DEF WriterOf
<1> QED
  BY <1>1, SlotAlways, PTL

\* A lease that a receiver has.
LEMMA LeaseFacts ==
    ASSUME SlotInv, lease.code = "OK"
    PROVE  /\ lease # NoLease /\ lease.header = header /\ header \in Header
           /\ lease.metadata = DecodeMetadata(MetadataRead(header))
           /\ Accepts(header, MetadataRead(header))
           /\ lease.addr \in ReaderAddrs
<1>1. \/ lease = NoLease
      \/ lease = [code |-> "INVALID_ARGUMENT"]
      \/ \E addr \in ReaderAddrs :
            /\ lease = [code |-> "OK", addr |-> addr, header |-> header,
                        metadata |-> DecodeMetadata(MetadataRead(header))]
            /\ Accepts(header, MetadataRead(header))
  BY DEF SlotInv, LeaseInv
<1>2. lease # NoLease /\ lease # [code |-> "INVALID_ARGUMENT"]
  BY DEF NoLease
<1>3. PICK addr \in ReaderAddrs :
         /\ lease = [code |-> "OK", addr |-> addr, header |-> header,
                     metadata |-> DecodeMetadata(MetadataRead(header))]
         /\ Accepts(header, MetadataRead(header))
  BY <1>1, <1>2
<1>4. /\ lease.header = header /\ lease.addr = addr
      /\ lease.metadata = DecodeMetadata(MetadataRead(header))
  BY <1>3
<1>5. header \in Header
  BY DEF SlotInv, HeaderInv
<1> QED
  BY <1>2, <1>3, <1>4, <1>5

\* The ranges that read_frame_header accepts in a sample that is mapped.
LEMMA AcceptedRanges ==
    ASSUME NEW h \in Header, NEW read, Accepts(h, read), NEW addr \in ReaderAddrs
    PROVE  /\ h.payloadOffset \in Nat /\ h.payloadLen \in Nat /\ h.metadataLen \in Nat
           /\ HeaderLen + h.metadataLen <= h.payloadOffset
           /\ ~(h.payloadOffset + h.payloadLen > SampleLen)
           /\ ~(h.payloadOffset + h.payloadLen > UsizeMax)
<1>1. /\ h.payloadOffset \in Nat /\ h.payloadLen \in Nat /\ h.metadataLen \in Nat
  BY Sizes DEF Header
<1>2. /\ h.payloadOffset >= HeaderLen + h.metadataLen
      /\ h.payloadOffset + h.payloadLen <= SampleLen
  BY DEF Accepts
<1>3. SampleLen \in Nat /\ UsizeMax \in Nat /\ addr \in Nat /\ addr + SampleLen <= UsizeMax
  BY Sizes
<1> QED
  BY <1>1, <1>2, <1>3 DEF HeaderLen

LEMMA RangeOfLease ==
    ASSUME SlotInv, lease.code = "OK"
    PROVE  LeasePayload(lease) =
             <<header.payloadOffset..(header.payloadOffset + header.payloadLen - 1)>>
<1>1. /\ lease.header = header
      /\ ~(header.payloadOffset + header.payloadLen > SampleLen)
      /\ ~(header.payloadOffset + header.payloadLen > UsizeMax)
  BY LeaseFacts, AcceptedRanges
<1> DEFINE end == header.payloadOffset + header.payloadLen
<1>2. LeasePayload(lease) = IF end > UsizeMax \/ end > SampleLen THEN <<>>
                            ELSE <<header.payloadOffset..(end - 1)>>
  BY <1>1 DEF LeasePayload
<1>3. ~(end > UsizeMax \/ end > SampleLen)
  BY <1>1
<1>4. end - 1 = header.payloadOffset + header.payloadLen - 1
  BY LeaseFacts, AcceptedRanges
<1> HIDE DEF end
<1>5. LeasePayload(lease) = <<header.payloadOffset..(end - 1)>>
  BY <1>2, <1>3
<1> QED
  BY <1>4, <1>5

\* Whatever is published, in samples of every size: contiguous_payload of a lease
\* gives a payload, which is inside the sample and behind the metadata.  What
\* from_native checked still holds when the payload is asked for, because the
\* slot's header does not change under a lease.
THEOREM LeasesStayInBounds == Spec => []LeaseIsInBounds
<1>1. SlotInv => LeaseIsInBounds
  <2> SUFFICES ASSUME SlotInv, lease.code = "OK"
               PROVE  /\ LeasePayload(lease) # <<>>
                      /\ HeaderLen + lease.header.metadataLen <= lease.header.payloadOffset
    BY DEF LeaseIsInBounds
  <2>1. lease.header = header /\ HeaderLen + header.metadataLen <= header.payloadOffset
    BY LeaseFacts, AcceptedRanges
  <2>2. LeasePayload(lease) # <<>>
    BY RangeOfLease
  <2> QED
    BY <2>1, <2>2
<1> QED
  BY <1>1, SlotAlways, PTL

\* However many cells a header calls metadata, they are cells.
LEMMA ReadIsCells ==
    ASSUME NEW h \in Header, cells \in Seq(Nat)
    PROVE  MetadataRead(h) \in Cells
<1>1. h.metadataLen \in Nat
  BY Sizes DEF Header
<1>2. Len(cells) \in Nat /\ cells \in [1..Len(cells) -> Nat]
  BY LenProperties
<1>3. \A i \in 1..h.metadataLen : (IF i <= Len(cells) THEN cells[i] ELSE 0) \in Nat
  BY <1>1, <1>2
<1>4. MetadataRead(h) \in [1..h.metadataLen -> Nat]
  BY <1>3 DEF MetadataRead
<1> QED
  BY <1>1, <1>4, IsASeq DEF Cells

\* Whatever is published, and for every metadata: the cells that a lease's metadata
\* was decoded from are the whole of it.  No shorter part of them is accepted by
\* decode_metadata, and nothing longer.
THEOREM TornMetadataNeverLeased == Spec => []TornMetadataIsRefused
<1>1. SlotInv => TornMetadataIsRefused
  <2> DEFINE read == MetadataRead(lease.header)
  <2> SUFFICES ASSUME SlotInv, lease.code = "OK"
               PROVE  /\ \A n \in 0..(Len(read) - 1) : ~Decodes(SubSeq(read, 1, n))
                      /\ \A n \in {0, 1} : ~Decodes(Append(read, n))
    BY DEF TornMetadataIsRefused
  <2>1. Decodes(read) /\ read \in Cells
    <3>1. lease.header = header /\ header \in Header /\ cells \in Seq(Nat)
          /\ Accepts(header, MetadataRead(header))
      BY LeaseFacts DEF SlotInv, HeaderInv
    <3> QED
      BY <3>1, ReadIsCells DEF Accepts
  <2> HIDE DEF read
  <2>2. Len(read) \in Nat
    BY <2>1, LenProperties DEF Cells
  <2>3. ASSUME NEW n \in 0..(Len(read) - 1)
        PROVE  ~Decodes(SubSeq(read, 1, n))
    <3> DEFINE src == SubSeq(read, 1, n)
               more == SubSeq(read, n + 1, Len(read))
    <3>1. \A i \in 1..Len(read) : read[i] \in Nat
      BY <2>1, ElementOfSeq DEF Cells
    <3>2. src \in Cells
      BY <2>2, <3>1, SubSeqProperties DEF Cells
    <3>3. more \in Cells /\ Len(more) = Len(read) - (n + 1) + 1
      BY <2>2, <3>1, SubSeqProperties DEF Cells
    <3>4. src \o more = read
      <4>1. 1 \in 1..(Len(read) + 1) /\ n \in (1 - 1)..Len(read) /\ Len(read) \in n..Len(read)
        BY <2>2
      <4>2. src \o more = SubSeq(read, 1, Len(read))
        BY <2>1, <4>1, ConcatAdjacentSubSeq DEF Cells
      <4> QED
        BY <2>1, <4>2, SubSeqFull DEF Cells
    <3>5. Len(more) > 0
      BY <2>2, <3>3
    <3> HIDE DEF src, more
    <3>6. more # <<>>
      BY <3>5
    <3>7. ~Decodes(src)
      BY <2>1, <3>2, <3>3, <3>4, <3>6, CutIsRefused
    <3> QED
      BY <3>7 DEF src
  <2>4. ASSUME NEW n \in {0, 1}
        PROVE  ~Decodes(Append(read, n))
    <3>1. n \in Nat /\ <<n>> \in Cells /\ <<n>> # <<>>
      BY DEF Cells
    <3>2. Append(read, n) = read \o <<n>>
      BY <2>1, <3>1, AppendIsConcat DEF Cells
    <3> SUFFICES ASSUME Decodes(read \o <<n>>) PROVE FALSE
      BY <3>2
    <3> QED
      BY <2>1, <3>1, CutIsRefused
  <2> QED
    BY <2>3, <2>4
<1> QED
  BY <1>1, SlotAlways, PTL

\* For every pair of addresses at which sender and receiver map the slot: the
\* payload is where the sender asked, modulo the alignment, because the alignments
\* that loan_validated_tx lets pass divide the sample's own.
THEOREM PayloadsAreAligned == Spec => []PayloadIsAligned
<1>1. SlotInv => PayloadIsAligned
  <2> SUFFICES ASSUME SlotInv, Ours, lease.code = "OK"
               PROVE  /\ (loan.request.addr + loan.offset) % loan.request.align = 0
                      /\ (lease.addr + lease.header.payloadOffset) % loan.request.align = 0
    BY DEF PayloadIsAligned
  <2> DEFINE align == loan.request.align
             a == loan.request.addr
             b == lease.addr
             n == loan.offset
  <2>1. /\ loan # NoLoan /\ loan.code = "OK" /\ LoanInv
        /\ header = HeaderOf(loan)
    BY DEF Ours, SlotInv, HeaderInv
  <2>2. /\ n \in Nat /\ loan.request \in Request
        /\ AlignmentAccepted(align) /\ (a + n) % align = 0
    BY <2>1, LoanFacts
  <2>3. a \in WriterAddrs /\ b \in ReaderAddrs
    BY <2>2, LeaseFacts, RequestTypes
  <2>4. /\ a \in Nat /\ a % SampleAlign = 0 /\ b \in Nat /\ b % SampleAlign = 0
    BY <2>3, Sizes
  <2>5. align \in PowersOfTwo /\ align <= SampleAlign
    BY <2>2 DEF AlignmentAccepted
  <2>6. lease.header.payloadOffset = n
    BY <2>1, LeaseFacts DEF HeaderOf
  <2> HIDE DEF align, a, b, n
  <2>7. a % align = 0 /\ b % align = 0
    BY <2>4, <2>5, AlignmentsNest
  <2>8. (b + n) % align = 0
    BY <2>2, <2>4, <2>5, <2>7, SumIsAligned
  <2> QED
    BY <2>2, <2>6, <2>8 DEF align, a, b, n
<1> QED
  BY <1>1, SlotAlways, PTL

\* For every request in a sample of less than 4 GiB, at every address: loan_tx and
\* loan_uninit_tx grant it exactly when its frame fits, and at the first offset that
\* has the alignment; none of the checks on lengths, sums and texts refuses more.
THEOREM GrantsAreExact == Spec => []GrantedIffItFits
<1>1. SlotInv => GrantedIffItFits
  <2> SUFFICES ASSUME SlotInv, loan # NoLoan, AlignmentAccepted(loan.request.align),
                      SampleLen <= U32Max
               PROVE  IF loan.code = "OK"
                      THEN /\ loan.offset \in Places(loan.request)
                           /\ \A n \in Places(loan.request) : loan.offset <= n
                      ELSE Places(loan.request) = {}
    BY DEF GrantedIffItFits
  <2>1. PICK request \in Request : \E placed \in Placements(request) :
           loan = Grant(request, placed)
    BY DEF SlotInv, LoanInv
  <2>2. PICK placed \in Placements(request) : loan = Grant(request, placed)
    BY <2>1
  <2>3. loan.request = request /\ loan.offset = placed.offset
    BY <2>2, GrantFacts
  <2> QED
    BY <2>2, <2>3, FirstPlace
<1> QED
  BY <1>1, SlotAlways, PTL

\* For every metadata and every payload: what was sent is accepted and read with the
\* metadata and the payload range it was written with, and the owned frame that
\* send_validated_owned copied into the loan is the one that lease_to_owned_frame
\* gives back.
THEOREM FramesAreReadBack == Spec => []SentIsReadBack
<1>1. SlotInv => SentIsReadBack
  <2> SUFFICES ASSUME SlotInv, Ours, lease # NoLease
               PROVE  /\ lease.code = "OK"
                      /\ lease.header = HeaderOf(loan)
                      /\ lease.metadata = loan.request.metadata
                      /\ LeasePayload(lease) = <<PayloadBytes(loan)>>
                      /\ \A frame \in OwnedFrames : LeaseToOwnedFrame(lease) = frame
    BY DEF SentIsReadBack
  <2> DEFINE m == loan.request.metadata
             len == loan.request.payloadLen
  <2>1. lease.code = "OK"
    BY DEF SlotInv, LeaseInv
  <2>2. /\ loan # NoLoan /\ loan.code = "OK" /\ LoanInv
        /\ header = HeaderOf(loan) /\ cells = EncodeMetadata(m) /\ cells \in Seq(Nat)
    BY DEF Ours, SlotInv, HeaderInv
  <2>3. loan.offset \in Nat /\ loan.request \in Request /\ m \in Metadata /\ len \in Nat
    BY <2>2, LoanFacts, RequestTypes
  <2>4. lease.header = HeaderOf(loan)
    BY <2>1, <2>2, LeaseFacts
  <2>5. header.metadataLen = Len(cells) /\ header.payloadOffset = loan.offset
        /\ header.payloadLen = len
    BY <2>2 DEF HeaderOf, MetadataLen
  <2>6. MetadataRead(header) = EncodeMetadata(m)
    BY <2>2, <2>5, WhatWasWrittenIsRead
  <2>7. lease.metadata = m
    BY <2>1, <2>3, <2>6, LeaseFacts, RoundTrip
  <2>8. LeasePayload(lease) = <<PayloadBytes(loan)>>
    BY <2>1, <2>5, RangeOfLease DEF PayloadBytes
  <2>9. Cardinality(PayloadBytes(loan)) = len
    <3> DEFINE from == loan.offset
               to == from + len - 1
    <3>1. from \in Int /\ to \in Int /\ PayloadBytes(loan) = from..to
      BY <2>3 DEF PayloadBytes
    <3>2. Cardinality(from..to) = IF from > to THEN 0 ELSE to - from + 1
      <4> HIDE DEF from, to
      <4> QED
        BY <3>1, FS_Interval
    <3> HIDE DEF len, from
    <3>3. (IF from > to THEN 0 ELSE to - from + 1) = len
      BY <2>3 DEF from
    <3> QED
      BY <3>1, <3>2, <3>3
  <2>10. ASSUME NEW frame \in OwnedFrames
         PROVE  LeaseToOwnedFrame(lease) = frame
    <3>1. /\ frame \in [metadata : {m}, payload : {<<>>, <<len>>}]
          /\ (frame.payload # <<>>) = HasPayload(frame.metadata)
      BY DEF OwnedFrames
    <3>2. frame = [metadata |-> m, payload |-> frame.payload]
          /\ frame.metadata = m /\ frame.payload \in {<<>>, <<len>>}
      BY <3>1
    <3>3. frame.payload = IF HasPayload(m) THEN <<len>> ELSE <<>>
      BY <3>1, <3>2
    <3>4. LeasePayload(lease)[1] = PayloadBytes(loan)
      BY <2>8
    <3>5. LeaseToOwnedFrame(lease) = [metadata |-> m,
             payload |-> IF HasPayload(m) THEN <<len>> ELSE <<>>]
      BY <2>7, <2>9, <3>4 DEF LeaseToOwnedFrame
    <3> QED
      BY <3>2, <3>3, <3>5
  <2> QED
    BY <2>1, <2>4, <2>7, <2>8, <2>10
<1> QED
  BY <1>1, SlotAlways, PTL

=============================================================================

------------------------------ MODULE FrameSlot ------------------------------
(***************************************************************************)
(* The ULOL frame in a LoLa event slot (src/src/frame.rs): its layout, as  *)
(* loan_tx and loan_uninit_tx compute it, its metadata, and the slot's     *)
(* bytes from loan through send and receive to the slot's next use.        *)
(*                                                                         *)
(* A slot is shared memory: sender and receiver see it at different        *)
(* addresses, and it keeps its bytes when it is used again.  A byte is     *)
(* told apart by what wrote it last; those of the metadata have a value,   *)
(* and each cell of MetadataCodec takes one byte.                          *)
(***************************************************************************)
EXTENDS MetadataCodec, FiniteSets

CONSTANTS
    SampleLen,      \* sample_size
    SampleAlign,    \* sample_alignment
    WriterAddrs,    \* where senders map the slot
    ReaderAddrs,    \* where receivers map it
    UsizeMax,       \* usize::MAX
    Sendable,       \* metadata of the loans asked for
    PayloadLens,    \* lengths of payloads asked for
    Alignments,     \* payload alignments asked for
    AlienFrames     \* headers and metadata cells that other publishers write

HeaderLen == 20

\* The header bytes that carry magic, version and the three lengths.
HeaderBytes == (0..4) \cup (8..19)

Bytes == 0..(SampleLen - 1)

\* Bound: no memory is mapped with a larger alignment than that of a page.
PowersOfTwo == {1, 2, 4, 8, 16, 32, 64, 128, 256, 512, 1024, 2048, 4096}

\* That samples are aligned is LoLa's promise; the copies that the stub backend keeps
\* may be aligned less, and nothing is claimed of those.
ASSUME ConstantsAssumption ==
    /\ SampleLen \in Nat \ {0}
    /\ SampleAlign \in PowersOfTwo
    /\ UsizeMax \in Nat /\ U32Max <= UsizeMax
    /\ \A addr \in WriterAddrs \cup ReaderAddrs :
          addr \in Nat /\ addr % SampleAlign = 0 /\ addr + SampleLen <= UsizeMax
    /\ Sendable \subseteq Metadata /\ PayloadLens \subseteq 0..UsizeMax
    /\ Alignments \subseteq Nat

-----------------------------------------------------------------------------
(* The layout *)

\* What a validated loan spec may ask for: a payload has an encoding.
Request == {request \in [metadata : Sendable, payloadLen : PayloadLens,
                         align : Alignments, addr : WriterAddrs] :
              request.payloadLen > 0 => request.metadata.encoding # <<>>}

MetadataLen(request) == Len(EncodeMetadata(request.metadata))

Ok(n) == [code |-> "OK", offset |-> n]
Err(code) == [code |-> code, offset |-> 0]

\* align_up, for an alignment that is a power of two.
AlignUp(n, align) == IF n % align = 0 THEN n ELSE n + (align - (n % align))

\* payload_offset_for_len: the first aligned address after the metadata, as an
\* offset; every sum is checked against usize.
PayloadOffset(metadataLen, align, addr) ==
    LET end == addr + HeaderLen + metadataLen IN
    IF \/ end > UsizeMax
       \/ align \notin PowersOfTwo
       \/ AlignUp(end, align) > UsizeMax
    THEN Err("INVALID_ARGUMENT")
    ELSE Ok(AlignUp(end, align) - addr)

\* Bug: a frame that ends with the sample is refused.
InSample_Strict(placed, payloadLen) ==
    IF placed.code # "OK" THEN placed
    ELSE IF placed.offset + payloadLen > UsizeMax THEN Err("INVALID_ARGUMENT")
    ELSE IF placed.offset + payloadLen >= SampleLen THEN Err("RESOURCE_EXHAUSTED")
    ELSE placed

\* The end of the payload has to be in the sample.
InSample(placed, payloadLen) ==
    IF placed.code # "OK" THEN placed
    ELSE IF placed.offset + payloadLen > UsizeMax THEN Err("INVALID_ARGUMENT")
    ELSE IF placed.offset + payloadLen > SampleLen THEN Err("RESOURCE_EXHAUSTED")
    ELSE placed

\* The payload's offset is stored as u32.
Narrowed(placed) ==
    IF placed.offset > U32Max THEN Err("INVALID_ARGUMENT") ELSE placed

LengthsFit(request) == MetadataLen(request) <= U32Max /\ request.payloadLen <= U32Max

PayloadOffsetOf(request) ==
    PayloadOffset(MetadataLen(request), request.align, request.addr)

\* The layout write_frame_header computes before it writes.
Layout(request) ==
    IF ~LengthsFit(request) THEN Err("INVALID_ARGUMENT")
    ELSE InSample(Narrowed(PayloadOffsetOf(request)), request.payloadLen)

\* That of write_frame_header_uninit, which narrows the offset last.
LayoutUninit(request) ==
    IF ~LengthsFit(request) THEN Err("INVALID_ARGUMENT")
    ELSE Narrowed(InSample(PayloadOffsetOf(request), request.payloadLen))

\* Bug: the sample's own alignment is not looked at.
AlignmentAccepted_Any(align) == align \in PowersOfTwo

\* loan_validated_tx and loan_validated_uninit_tx refuse some alignments before
\* they ask for a sample.
AlignmentAccepted(align) == align \in PowersOfTwo /\ align <= SampleAlign

\* Bug: the payload's place is not compared with the end of the metadata.
Accepts_Overlap(h, read) ==
    /\ h.magic
    /\ HeaderLen + h.metadataLen <= SampleLen
    /\ Decodes(read)
    /\ h.payloadOffset + h.payloadLen <= SampleLen

\* read_frame_header accepts the header h with the metadata cells read.
Accepts(h, read) ==
    /\ SampleLen >= HeaderLen
    /\ h.magic
    /\ HeaderLen + h.metadataLen <= SampleLen
    /\ Decodes(read)
    /\ h.payloadOffset >= HeaderLen + h.metadataLen
    /\ h.payloadOffset + h.payloadLen <= SampleLen

-----------------------------------------------------------------------------

VARIABLES
    phase,          \* "free", "refused", "uninit" or "init" while loaned, "sent",
                    \* "leased" or, by a receiver that does not accept it, "discarded"
    bytes,          \* what wrote each byte of the slot
    header,         \* what the header bytes say, once a sender wrote them
    cells,          \* the metadata cells, once a sender wrote them
    loan,           \* the loan, or the request that was refused
    lease           \* what the receiver reads

vars == <<phase, bytes, header, cells, loan, lease>>

Header == [magic : BOOLEAN, metadataLen : 0..U32Max, payloadLen : 0..U32Max,
           payloadOffset : 0..U32Max]

\* Whatever is published, the cells are bytes and the fields of the header u32.
ASSUME AlienFramesAssumption == AlienFrames \subseteq [header : Header, cells : Seq(Nat)]

Origins == {"stale", "zero", "header", "metadata", "payload", "alien"}

NoHeader == [magic |-> FALSE, metadataLen |-> 0, payloadLen |-> 0, payloadOffset |-> 0]
NoLoan == [code |-> "none"]
NoLease == [code |-> "none"]

Init ==
    /\ phase = "free"
    /\ bytes = [b \in Bytes |-> "stale"]
    /\ header = NoHeader
    /\ cells = <<>>
    /\ loan = NoLoan
    /\ lease = NoLease

\* The payload of the loan l.
PayloadBytes(l) == l.offset..(l.offset + l.request.payloadLen - 1)

\* try_contiguous_payload of the lease l: its payload, if it is in the sample.
LeasePayload(l) ==
    LET end == l.header.payloadOffset + l.header.payloadLen IN
    IF end > UsizeMax \/ end > SampleLen THEN <<>>
    ELSE <<l.header.payloadOffset..(end - 1)>>

MetadataBytes(n) == HeaderLen..(HeaderLen + n - 1)

\* The bytes once the header of the loan l is written over base: all before the
\* payload is zeroed, then header and metadata are stored.
WithHeader(base, l) ==
    [b \in Bytes |->
        IF b \in HeaderBytes THEN "header"
        ELSE IF b \in MetadataBytes(MetadataLen(l.request)) THEN "metadata"
        ELSE IF b < l.offset THEN "zero" ELSE base[b]]

\* Bug: the payload's address is stored for its offset.
HeaderOf_Absolute(l) ==
    [magic |-> TRUE, metadataLen |-> MetadataLen(l.request),
     payloadLen |-> l.request.payloadLen, payloadOffset |-> l.request.addr + l.offset]

HeaderOf(l) ==
    [magic |-> TRUE, metadataLen |-> MetadataLen(l.request),
     payloadLen |-> l.request.payloadLen, payloadOffset |-> l.offset]

\* What the loan request comes to, with its payload placed like that.
Grant(request, placed) ==
    [code |-> IF AlignmentAccepted(request.align) /\ IsEncodable(request.metadata)
              THEN placed.code ELSE "INVALID_ARGUMENT",
     offset |-> placed.offset, request |-> request]

Zeroed == [b \in Bytes |-> "zero"]

\* Bug: the bytes after the payload are left as they were.
AllButPayload_KeepsTail(l) == bytes

\* What write_frame_header_uninit zeroes.
AllButPayload(l) == [b \in Bytes |-> IF b \in PayloadBytes(l) THEN bytes[b] ELSE "zero"]

\* loan_tx and LolaTxLoan::new_native: the sample is zeroed, the header written.
Loan(request) ==
    /\ phase = "free"
    /\ loan' = Grant(request, Layout(request))
    /\ loan'.code = "OK"
    /\ bytes' = WithHeader(Zeroed, loan')
    /\ header' = HeaderOf(loan')
    /\ cells' = EncodeMetadata(request.metadata)
    /\ phase' = "init"
    /\ UNCHANGED lease

\* loan_uninit_tx and LolaUninitTxLoan::new_native: all but the payload is
\* zeroed, the header written.
LoanUninit(request) ==
    /\ phase = "free"
    /\ loan' = Grant(request, LayoutUninit(request))
    /\ loan'.code = "OK"
    /\ bytes' = WithHeader(AllButPayload(loan'), loan')
    /\ header' = HeaderOf(loan')
    /\ cells' = EncodeMetadata(request.metadata)
    /\ phase' = "uninit"
    /\ UNCHANGED lease

\* loan_validated_tx refuses.  Unless the alignment is refused, the sample was
\* loaned and zeroed before, magic and all.
LoanRefused(request) ==
    /\ phase = "free"
    /\ loan' = Grant(request, Layout(request))
    /\ loan'.code # "OK"
    /\ bytes' = IF AlignmentAccepted(request.align) THEN Zeroed ELSE bytes
    /\ phase' = "refused"
    /\ UNCHANGED <<header, cells, lease>>

\* loan_validated_uninit_tx refuses, before anything is written.
LoanUninitRefused(request) ==
    /\ phase = "free"
    /\ loan' = Grant(request, LayoutUninit(request))
    /\ loan'.code # "OK"
    /\ phase' = "refused"
    /\ UNCHANGED <<bytes, header, cells, lease>>

\* The application writes the payload: payload_mut or payload_uninit_mut.
WritePayload ==
    /\ phase \in {"init", "uninit"}
    /\ bytes' = [b \in Bytes |-> IF b \in PayloadBytes(loan) THEN "payload" ELSE bytes[b]]
    /\ UNCHANGED <<phase, header, cells, loan, lease>>

\* assume_payload_init, whose caller has initialised the whole payload.
AssumePayloadInit ==
    /\ phase = "uninit"
    /\ \A b \in PayloadBytes(loan) : bytes[b] = "payload"
    /\ phase' = "init"
    /\ UNCHANGED <<bytes, header, cells, loan, lease>>

\* into_native finds the magic, and the sample is sent.
Send ==
    /\ phase = "init"
    /\ header.magic
    /\ phase' = "sent"
    /\ UNCHANGED <<bytes, header, cells, loan, lease>>

\* Something that is no UTransportLola publishes a sample of the same event.
SendAlien(frame) ==
    /\ phase = "free"
    /\ phase' = "sent"
    /\ header' = frame.header
    /\ cells' = frame.cells
    /\ bytes' = [b \in Bytes |-> "alien"]
    /\ loan' = NoLoan
    /\ UNCHANGED lease

\* The cells that h calls metadata; zeros follow what was written.
MetadataRead(h) ==
    [i \in 1..h.metadataLen |-> IF i <= Len(cells) THEN cells[i] ELSE 0]

\* LolaRxLease::from_native of a sample mapped at addr.  What a sender was
\* allowed to loan, validate_frame_view_for_transport accepts again.
Receive(addr) ==
    /\ phase = "sent"
    /\ \E valid \in BOOLEAN :
          /\ loan # NoLoan => valid
          /\ IF Accepts(header, MetadataRead(header)) /\ valid
             THEN /\ lease' = [code |-> "OK", addr |-> addr, header |-> header,
                               metadata |-> DecodeMetadata(MetadataRead(header))]
                  /\ phase' = "leased"
             ELSE /\ lease' = [code |-> "INVALID_ARGUMENT"]
                  /\ phase' = "discarded"
    /\ UNCHANGED <<bytes, header, cells, loan>>

\* The handle on the sample is dropped: a loan unsent or refused, a lease, or a
\* sample that was not accepted.  The slot keeps its bytes, whatever they are.
Drop ==
    /\ phase \notin {"free", "sent"}
    /\ phase' = "free"
    /\ bytes' = [b \in Bytes |-> "stale"]
    /\ header' = NoHeader
    /\ cells' = <<>>
    /\ lease' = NoLease
    /\ loan' = NoLoan

Next ==
    \/ \E request \in Request :
          \/ Loan(request) \/ LoanRefused(request)
          \/ LoanUninit(request) \/ LoanUninitRefused(request)
    \/ WritePayload \/ AssumePayloadInit \/ Send
    \/ \E frame \in AlienFrames : SendAlien(frame)
    \/ \E addr \in ReaderAddrs : Receive(addr)
    \/ Drop

Spec == Init /\ [][Next]_vars

-----------------------------------------------------------------------------
(* The frames of the owned benchmark transport (src/src/owned_benchmark.rs) *)

\* UFrameView::has_payload: an empty payload is told from none by its encoding.
HasPayload(metadata) == metadata.encoding # <<>>

\* The loan send_validated_owned asks for: a frame has no payload, or one of a
\* length, and the bytes of that one are copied to the loan.
TxLoanSpec(frame, addr) ==
    [metadata |-> frame.metadata, align |-> 1, addr |-> addr,
     payloadLen |-> IF frame.payload = <<>> THEN 0 ELSE frame.payload[1]]

\* Bug: an empty payload is taken for none.
LeaseToOwnedFrame_Empty(l) ==
    [metadata |-> l.metadata,
     payload |-> IF l.header.payloadLen = 0 THEN <<>>
                 ELSE <<Cardinality(LeasePayload(l)[1])>>]

\* lease_to_owned_frame: the payload is copied out of the lease.
LeaseToOwnedFrame(l) ==
    [metadata |-> l.metadata,
     payload |-> IF HasPayload(l.metadata) THEN <<Cardinality(LeasePayload(l)[1])>>
                 ELSE <<>>]

-----------------------------------------------------------------------------
(* Properties *)

TypeOK ==
    /\ phase \in {"free", "refused", "uninit", "init", "sent", "leased", "discarded"}
    /\ bytes \in [Bytes -> Origins]
    /\ header \in Header
    /\ cells \in Seq(Nat)
    /\ loan = NoLoan \/ loan \in [code : {"OK", "INVALID_ARGUMENT", "RESOURCE_EXHAUSTED"},
                                  offset : Nat, request : Request]
    /\ lease.code \in {"none", "OK", "INVALID_ARGUMENT"}

\* The slot holds a frame that this transport wrote.
Ours == loan # NoLoan /\ loan.code = "OK"

\* No byte of an earlier use of the slot is sent, and the bytes outside the
\* payload are those of this frame.
NothingStaleIsSent ==
    phase = "sent" /\ Ours =>
        \A b \in Bytes :
            bytes[b] \in IF b \in PayloadBytes(loan) THEN {"zero", "payload"}
                         ELSE IF b \in HeaderBytes THEN {"header"}
                         ELSE IF b \in MetadataBytes(MetadataLen(loan.request))
                         THEN {"metadata"} ELSE {"zero"}

\* The owned frames that ask for the loan that was sent.
OwnedFrames ==
    {frame \in [metadata : {loan.request.metadata},
                payload : {<<>>, <<loan.request.payloadLen>>}] :
        /\ (frame.payload # <<>>) = HasPayload(frame.metadata)
        /\ TxLoanSpec(frame, loan.request.addr) = loan.request}

\* A frame that was sent is accepted, and read with the payload range and the
\* metadata with which it was written; an owned frame is read back as it was,
\* and an empty payload is not taken for none.
SentIsReadBack ==
    Ours /\ lease # NoLease =>
        /\ lease.code = "OK"
        /\ lease.header = HeaderOf(loan)
        /\ lease.metadata = loan.request.metadata
        /\ LeasePayload(lease) = <<PayloadBytes(loan)>>
        /\ \A frame \in OwnedFrames : LeaseToOwnedFrame(lease) = frame

\* Whatever publishes on the event, the metadata of a lease is the whole of it:
\* if the header gave any other length for the same cells, fewer or more, the
\* decoder would have refused them.
TornMetadataIsRefused ==
    lease.code = "OK" =>
        LET read == MetadataRead(lease.header) IN
        /\ \A n \in 0..(Len(read) - 1) : ~Decodes(SubSeq(read, 1, n))
        /\ \A n \in {0, 1} : ~Decodes(Append(read, n))

\* Whatever publishes on the event, the payload of a lease is inside the sample,
\* as contiguous_payload expects, and behind its metadata.
LeaseIsInBounds ==
    lease.code = "OK" =>
        /\ LeasePayload(lease) # <<>>
        /\ HeaderLen + lease.header.metadataLen <= lease.header.payloadOffset

\* The payload has the alignment the sender asked for where the receiver maps
\* the slot, though only the sender's address was looked at.
PayloadIsAligned ==
    Ours /\ lease.code = "OK" =>
        /\ (loan.request.addr + loan.offset) % loan.request.align = 0
        /\ (lease.addr + lease.header.payloadOffset) % loan.request.align = 0

\* The places for the payload of a request that fit.
Places(request) ==
    {n \in Bytes \cup {SampleLen} :
        /\ n >= HeaderLen + MetadataLen(request)
        /\ n + request.payloadLen <= SampleLen
        /\ (request.addr + n) % request.align = 0}

\* In samples of less than 4 GiB, a request with an alignment the sample can
\* give is granted if and only if the payload fits, and then at the first place
\* where it does: no check on the way refuses what fits.
GrantedIffItFits ==
    loan # NoLoan /\ AlignmentAccepted(loan.request.align) /\ SampleLen <= U32Max =>
        IF loan.code = "OK"
        THEN /\ loan.offset \in Places(loan.request)
             /\ \A n \in Places(loan.request) : loan.offset <= n
        ELSE Places(loan.request) = {}

=============================================================================

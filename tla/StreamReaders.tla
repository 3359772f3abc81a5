---------------------------- MODULE StreamReaders ----------------------------
(***************************************************************************)
(* Two readers that put a stream together again from whatever chunks it    *)
(* comes in: that of the pilot bridge's frames and that of the encoder's   *)
(* pages.                                                                  *)
(***************************************************************************)
EXTENDS Naturals, Sequences, SequencesExt

-----------------------------------------------------------------------------
(***************************************************************************)
(* The frames of Altitude 1.14 on the bridge's connections                 *)
(* (proxy/pilot-core.js): MessagePack values behind a length, observed     *)
(* from whatever chunks TCP delivers.  Bytes are numbers; a string is a    *)
(* sequence of bytes.  Floats, signed numbers, booleans, maps and arrays   *)
(* of more than 15 items are left out: VoxHF writes none, the model's peer *)
(* neither.                                                                *)
(***************************************************************************)
CONSTANTS
    MaxFrameBytes,  \* MAX_PILOT_CORE_FRAME_BYTES
    StreamLength    \* bound: frames of a stream

VARIABLES
    stream,         \* the frames that the peer writes, each with its bytes
    received,       \* bytes that were pushed
    buffered,       \* pending
    decoded         \* what onMessage was given

framesVars == <<stream, received, buffered, decoded>>

-----------------------------------------------------------------------------
(***************************************************************************)
(* Writing                                                                 *)
(***************************************************************************)
Num(n)  == [kind |-> "int", int |-> n]
Str(s)  == [kind |-> "str", str |-> s]
List(l) == [kind |-> "list", list |-> l]
Nil     == [kind |-> "nil"]

\* Bytes of a number, the most significant first.
BigEndian(n, count) == [i \in 1..count |-> (n \div 256 ^ (count - i)) % 256]
LittleEndian(n, count) == Reverse(BigEndian(n, count))

EncodeInt(n) ==
    IF n < 128 THEN <<n>>
    ELSE IF n <= 255 THEN <<204, n>>
    ELSE IF n <= 65535 THEN <<205>> \o BigEndian(n, 2)
    ELSE <<206>> \o BigEndian(n, 4)

EncodeString(s) ==
    (IF Len(s) < 32 THEN <<160 + Len(s)>>
     ELSE IF Len(s) <= 255 THEN <<217, Len(s)>>
     ELSE <<218>> \o BigEndian(Len(s), 2)) \o s

\* encodeMessagePack(); an array has at most 15 items.
RECURSIVE Encode(_)
Encode(v) ==
    CASE v.kind = "nil"  -> <<192>>
      [] v.kind = "int"  -> EncodeInt(v.int)
      [] v.kind = "str"  -> EncodeString(v.str)
      [] v.kind = "list" -> <<144 + Len(v.list)>> \o FlattenSeq([i \in DOMAIN v.list |-> Encode(v.list[i])])

Framed(body) == LittleEndian(Len(body), 4) \o body
\* makeMessagePackFrame()
Frame(type, payload) == Framed(Encode(List(<<Num(type), payload>>)))
CoreEvent(type, text) == Frame(12288, List(<<Num(type), Str(text)>>))

\* What VoxHF writes: COM1 or COM2 in kHz, the code with its leading zeros,
\* the two transponder buttons and the volume of a radio.
FreqPacket(com, khz) == Frame(6144, List(<<Num(com), Num(khz)>>))
SquawkPacket(digits) == CoreEvent(256, digits)
TogglePacket == Frame(5633, List(<<>>))
IdentPacket  == Frame(5634, List(<<>>))
VolumePacket(text) == CoreEvent(56806, text)

-----------------------------------------------------------------------------
(***************************************************************************)
(* Reading                                                                 *)
(***************************************************************************)
Unreadable == [kind |-> "unreadable"]
FromBig(bytes) == FoldLeft(LAMBDA n, b : n * 256 + b, 0, bytes)

\* A value with the bytes that follow it.
Got(v, rest)  == [value |-> v, rest |-> rest]
Take(b, n)    == SubSeq(b, 1, n)
Drop(b, n)    == SubSeq(b, n + 1, Len(b))
GotString(b, n) == IF Len(b) < n THEN Got(Unreadable, b) ELSE Got(Str(Take(b, n)), Drop(b, n))
\* A number of n bytes, which is a value or a length.
GotInt(b, n) == IF Len(b) < n THEN Got(Unreadable, b) ELSE Got(Num(FromBig(Take(b, n))), Drop(b, n))

RECURSIVE Read(_), ReadItems(_, _, _)
\* read()
Read(b) ==
    IF b = <<>> THEN Got(Unreadable, b)
    ELSE LET marker == Head(b)
             rest == Tail(b)
             sized(n) == GotInt(rest, n) IN
         CASE marker < 128 -> Got(Num(marker), rest)
           [] marker \in 144..159 -> ReadItems(rest, marker - 144, <<>>)
           [] marker \in 160..191 -> GotString(rest, marker - 160)
           [] marker = 192 -> Got(Nil, rest)
           [] marker = 204 -> sized(1)
           [] marker = 205 -> sized(2)
           [] marker = 206 -> sized(4)
           [] marker \in {217, 218} ->
                LET length == sized(marker - 216)
                IN  IF length.value = Unreadable THEN length ELSE GotString(length.rest, length.value.int)
           [] OTHER -> Got(Unreadable, rest)
\* readArray()
ReadItems(b, n, items) ==
    IF n = 0 THEN Got(List(items), b)
    ELSE LET item == Read(b)
         IN  IF item.value = Unreadable THEN item ELSE ReadItems(item.rest, n - 1, Append(items, item.value))

\* decodeMessagePack(): the value must fill the frame.
Decode(body) == LET r == Read(body) IN IF r.rest # <<>> THEN Unreadable ELSE r.value

LengthOf(b) == FromBig(Reverse(Take(b, 4)))

\* Fault: one frame of a chunk is read.
DrainOne(b, out) ==
    IF Len(b) < 4 THEN [rest |-> b, out |-> out]
    ELSE IF LengthOf(b) \notin 1..MaxFrameBytes THEN [rest |-> <<>>, out |-> out]
    ELSE IF Len(b) < LengthOf(b) + 4 THEN [rest |-> b, out |-> out]
    ELSE LET value == Decode(SubSeq(b, 5, LengthOf(b) + 4))
         IN  [rest |-> <<>>, out |-> IF value = Unreadable THEN out ELSE Append(out, value)]

RECURSIVE DrainFrames(_, _)
\* The loop of createMessagePackFrameReader(): a length that cannot be drops what
\* is buffered; a frame it cannot decode is skipped.
DrainFrames(b, out) ==
    IF Len(b) < 4 THEN [rest |-> b, out |-> out]
    ELSE IF LengthOf(b) \notin 1..MaxFrameBytes THEN [rest |-> <<>>, out |-> out]
    ELSE IF Len(b) < LengthOf(b) + 4 THEN [rest |-> b, out |-> out]
    ELSE LET value == Decode(SubSeq(b, 5, LengthOf(b) + 4))
         IN  DrainFrames(Drop(b, LengthOf(b) + 4), IF value = Unreadable THEN out ELSE Append(out, value))

Push(chunk) == DrainFrames(buffered \o chunk, decoded)

-----------------------------------------------------------------------------
\* Digits of a squawk code, and a text that needs a length byte.
Digits == <<48, 52, 50, 49>>
LongText == [i \in 1..32 |-> 65]

\* What the peer may write: VoxHF's own packets at their boundaries, and frames of
\* a version VoxHF does not know: an unknown marker, a value cut short, bytes left
\* over, and a length that cannot be.
Frames == {FreqPacket(1, 118000), FreqPacket(2, 136975), SquawkPacket(Digits), TogglePacket,
           VolumePacket(LongText), Framed(Encode(List(<<Num(127), Num(128), Nil>>))),
           Framed(<<199, 1>>), Framed(<<146, 1>>), Framed(<<1, 2>>)}
Broken == {Framed(<<>>), LittleEndian(MaxFrameBytes + 1, 4)}

FramesInit ==
    /\ stream \in UNION {[1..n -> Frames] : n \in 1..StreamLength}
                  \cup {<<f, b>> : f \in Frames, b \in Broken}
    /\ received = 0 /\ buffered = <<>> /\ decoded = <<>>

Bytes == FlattenSeq(stream)

\* A chunk of any length arrives.
ChunkArrives ==
    \E n \in 1..(Len(Bytes) - received) :
        LET next == Push(SubSeq(Bytes, received + 1, received + n)) IN
        /\ received' = received + n
        /\ buffered' = next.rest
        /\ decoded' = next.out
        /\ UNCHANGED stream

FramesNext == ChunkArrives
FramesSpec == FramesInit /\ [][FramesNext]_framesVars

-----------------------------------------------------------------------------
\* The frames that have arrived whole, and what each says.
Whole == CHOOSE n \in 0..Len(stream) :
            /\ Len(FlattenSeq(SubSeq(stream, 1, n))) <= received
            /\ n < Len(stream) => Len(FlattenSeq(SubSeq(stream, 1, n + 1))) > received
Written(f) == CASE f = FreqPacket(1, 118000) -> <<List(<<Num(6144), List(<<Num(1), Num(118000)>>)>>)>>
                [] f = FreqPacket(2, 136975) -> <<List(<<Num(6144), List(<<Num(2), Num(136975)>>)>>)>>
                [] f = SquawkPacket(Digits) -> <<List(<<Num(12288), List(<<Num(256), Str(Digits)>>)>>)>>
                [] f = TogglePacket -> <<List(<<Num(5633), List(<<>>)>>)>>
                [] f = VolumePacket(LongText) -> <<List(<<Num(12288), List(<<Num(56806), Str(LongText)>>)>>)>>
                [] f = Framed(Encode(List(<<Num(127), Num(128), Nil>>))) -> <<List(<<Num(127), Num(128), Nil>>)>>
                [] OTHER -> <<>>
\* However TCP cut the stream, the reader has delivered exactly the readable
\* frames that have arrived whole: every value as it was written, nothing of a
\* frame it does not understand, nothing twice.
FramesSurviveChunking == decoded = FlattenSeq([i \in 1..Whole |-> Written(stream[i])])

-----------------------------------------------------------------------------
(***************************************************************************)
(* Speex packets in Ogg pages (proxy/ogg-speex.js): OggSpeexWriter wraps   *)
(* the packets of a talker for the decoder, OggPacketReader unwraps those  *)
(* of the encoder from whatever chunks its output comes in.  Sizes are     *)
(* scaled down: a page starts with two marks, of which a chunk may hold    *)
(* the first only, and the number of its segments; checksum, serial and    *)
(* granule are left out, no reader of VoxHF looks at them.                 *)
(***************************************************************************)
CONSTANTS
    FullSegment,    \* 255: the lacing value of a segment that is continued
    PageSegments,   \* segments the encoder puts into a page
    PacketSizes,    \* bound: sizes of the packets
    PacketCount     \* bound: packets of a stream, with the two headers

VARIABLES
    packets,        \* the packets of the stream
    arrived,        \* bytes of it that were pushed
    rolling,        \* buffer
    partial,        \* pending: the segments of a packet that is not complete
    count,
    unwrapped       \* what onPacket was given

oggVars == <<packets, arrived, rolling, partial, count, unwrapped>>

PageMark == <<100, 101>>
HeaderSize == 3

\* page(): a last value below a full segment ends the packet, if only a zero.
Laced(packet) ==
    [i \in 1..(Len(packet) \div FullSegment + 1) |->
        SubSeq(packet, (i - 1) * FullSegment + 1, IF i * FullSegment < Len(packet) THEN i * FullSegment ELSE Len(packet))]

PageBytes(segments) ==
    PageMark \o <<Len(segments)>> \o [i \in DOMAIN segments |-> Len(segments[i])] \o FlattenSeq(segments)

\* The encoder fills its pages: a packet may go on in the next one.
RECURSIVE Paged(_)
Paged(segments) ==
    IF segments = <<>> THEN <<>>
    ELSE LET n == IF Len(segments) < PageSegments THEN Len(segments) ELSE PageSegments
         IN  PageBytes(SubSeq(segments, 1, n)) \o Paged(SubSeq(segments, n + 1, Len(segments)))

Stream == Paged(FlattenSeq([i \in DOMAIN packets |-> Laced(packets[i])]))

OggInit ==
    /\ packets \in {[i \in 1..PacketCount |-> [j \in 1..size[i] |-> i]] : size \in [1..PacketCount -> PacketSizes]}
    /\ arrived = 0 /\ rolling = <<>> /\ partial = <<>> /\ count = 0 /\ unwrapped = <<>>

\* The segments of a page join those that wait; the two headers and an empty
\* packet are not passed on.
Segment(s, segment) ==
    LET packet == s.partial \o segment IN
    IF Len(segment) = FullSegment THEN [s EXCEPT !.partial = packet]
    ELSE [partial |-> <<>>, count |-> s.count + 1,
          out |-> IF s.count + 1 > 2 /\ packet # <<>> THEN Append(s.out, packet) ELSE s.out]

\* Fault: what a page leaves over is forgotten at the next.
PageForgets(s, segments) == FoldLeft(Segment, [s EXCEPT !.partial = <<>>], segments)

PageRead(s, segments) == FoldLeft(Segment, s, segments)

\* indexOf('OggS')
MarkAt(b) ==
    LET hits == {i \in 1..Len(b) - 1 : SubSeq(b, i, i + 1) = PageMark}
    IN  IF hits = {} THEN 0 ELSE CHOOSE i \in hits : \A j \in hits : i <= j

\* The loop of push(): complete pages are read, the rest stays.
RECURSIVE Pages(_, _)
Pages(s, b) ==
    IF Len(b) < HeaderSize THEN [s |-> s, rest |-> b]
    ELSE IF MarkAt(b) = 0 THEN [s |-> s, rest |-> <<>>]
    ELSE LET page == SubSeq(b, MarkAt(b), Len(b))
             dataStart == HeaderSize + (IF Len(page) < HeaderSize THEN 0 ELSE page[HeaderSize])
             sizes == SubSeq(page, HeaderSize + 1, dataStart)
             offset(i) == dataStart + FoldLeft(LAMBDA n, size : n + size, 0, SubSeq(sizes, 1, i)) IN
         IF Len(page) < HeaderSize \/ Len(page) < dataStart \/ Len(page) < offset(Len(sizes))
         THEN [s |-> s, rest |-> page]
         ELSE Pages(PageRead(s, [i \in DOMAIN sizes |-> SubSeq(page, offset(i - 1) + 1, offset(i))]),
                    SubSeq(page, offset(Len(sizes)) + 1, Len(page)))

\* push()
OutputArrives ==
    \E n \in 1..(Len(Stream) - arrived) :
        LET next == Pages([partial |-> partial, count |-> count, out |-> unwrapped],
                          rolling \o SubSeq(Stream, arrived + 1, arrived + n)) IN
        /\ arrived' = arrived + n
        /\ rolling' = next.rest
        /\ partial' = next.s.partial /\ count' = next.s.count /\ unwrapped' = next.s.out
        /\ UNCHANGED packets

OggNext == OutputArrives
OggSpec == OggInit /\ [][OggNext]_oggVars

-----------------------------------------------------------------------------
\* However the encoder's output is cut into chunks and packets into pages, TS2 is
\* given the encoder's packets behind the two headers, whole and in order, and at
\* the end of the output all of them.
Audio == SelectSeq(SubSeq(packets, 3, Len(packets)), LAMBDA p : p # <<>>)
PacketsSurvivePaging ==
    /\ IsPrefix(unwrapped, Audio)
    /\ arrived = Len(Stream) => unwrapped = Audio
==============================================================================

------------------------------- MODULE Framers -------------------------------
(***************************************************************************)
(* The readers under src/tools that cut a byte stream into messages: the   *)
(* CAT and CI-V framers of radiosim/core.py, k4catwatch.py, the panadapter *)
(* stream of k4panwatch.py and the WebSocket of tciclient.py.  Each is     *)
(* given the bytes as they arrive and keeps what is not whole yet.         *)
(***************************************************************************)
EXTENDS Naturals, Sequences, SequencesExt, Bitwise, TLC

CONSTANTS HEADER_SIZE,     \* of a panadapter packet: 64 and 4096 bytes of the K4's
          PAYLOAD_SIZE

From(s, i) == SubSeq(s, i, Len(s))
FirstOf(S) == CHOOSE k \in S : \A l \in S : k <= l

\* The first place at or after i where pattern stands; 0 if none.
FindFrom(s, pattern, i) ==
    LET at == {k \in i..(Len(s) - Len(pattern) + 1) : SubSeq(s, k, k + Len(pattern) - 1) = pattern}
    IN IF at = {} THEN 0 ELSE FirstOf(at)

------------------------------------------------------------------------------
\* A framer: the bytes kept, and the messages given out.
Framer == [buf |-> <<>>, out |-> <<>>]

\* CAT: a message ends at its terminator; blanks at its ends are not its own,
\* and an empty one is none.  k4catwatch splits alike.
Blanks == {" ", "TAB", "CR", "LF"}

RECURSIVE Strip(_)
Strip(s) == IF s = <<>> THEN s
            ELSE IF Head(s) \in Blanks THEN Strip(Tail(s))
            ELSE IF Last(s) \in Blanks THEN Strip(Front(s)) ELSE s

RECURSIVE CatFrames(_, _)
CatFrames(f, terminator) ==
    LET end == FindFrom(f.buf, terminator, 1)
        frame == Strip(SubSeq(f.buf, 1, end - 1))
    IN IF end = 0 THEN f
       ELSE CatFrames([buf |-> From(f.buf, end + Len(terminator)),
                       out |-> IF frame = <<>> THEN f.out ELSE Append(f.out, frame)], terminator)

\* CI-V: from a preamble to the next end byte.  With no preamble the last byte is
\* kept: it may be the first half of one.
PREAMBLE == <<"FE", "FE">>
END == <<"FD">>
KeepLast(buf) == IF buf = <<>> THEN buf ELSE <<Last(buf)>>

RECURSIVE CivFrames(_)
CivFrames(f) ==
    LET start == FindFrom(f.buf, PREAMBLE, 1)
        end == FindFrom(f.buf, END, start)
    IN IF start = 0 THEN [f EXCEPT !.buf = KeepLast(f.buf)]
       ELSE IF end = 0 THEN [f EXCEPT !.buf = From(f.buf, start)]
       ELSE CivFrames([buf |-> From(f.buf, end + 1), out |-> Append(f.out, SubSeq(f.buf, start, end))])

------------------------------------------------------------------------------
\* The panadapter: packets of one size that begin with a marker.  What stands
\* before a marker is thrown away; three bytes are kept where none is found, as
\* a marker may be cut in two.

SYNC == <<255, 254, 1, 0>>
FOOTER_SIZE == 2
PACKET_SIZE == HEADER_SIZE + PAYLOAD_SIZE + FOOTER_SIZE

PanFramer == [buf |-> <<>>, out |-> <<>>, discarded |-> 0, resyncs |-> 0]

\* Mutant: nothing is kept while hunting.
HuntKeepsNothing(f) == [f EXCEPT !.buf = <<>>, !.discarded = @ + Len(f.buf)]
Hunt(f) == LET dropped == IF Len(f.buf) < 3 THEN 0 ELSE Len(f.buf) - 3
           IN [f EXCEPT !.buf = From(f.buf, dropped + 1), !.discarded = @ + dropped]

RECURSIVE PanFrames(_)
PanFrames(f) ==
    LET pos == FindFrom(f.buf, SYNC, 2) IN
    IF Len(f.buf) < PACKET_SIZE THEN f
    ELSE IF IsPrefix(SYNC, f.buf)
    THEN PanFrames([f EXCEPT !.buf = From(f.buf, PACKET_SIZE + 1),
                             !.out = Append(@, SubSeq(f.buf, 1, PACKET_SIZE))])
    ELSE IF pos = 0 THEN Hunt(f)
    ELSE PanFrames([f EXCEPT !.buf = From(f.buf, pos), !.discarded = @ + pos - 1, !.resyncs = @ + 1])

\* crc16: two nibbles of a byte at a time.
CRC16_TABLE == <<0, 4225, 8450, 12675, 16900, 21125, 25350, 29575,
                 33800, 38025, 42250, 46475, 50700, 54925, 59150, 63375>>
Crc16Nibble(crc, c) == (crc \div 16) ^^ CRC16_TABLE[((crc ^^ c) % 16) + 1]
crc16(data) ==
    65535 - FoldLeft(LAMBDA crc, byte : Crc16Nibble(Crc16Nibble(crc, byte), byte \div 16), 65535, data)

\* decode: the numbers of a packet and its two checks.  The fields that are only
\* shown (rate, centre, noise, the range of the samples) are left out.
Decoded(packet) ==
    [version |-> packet[5], seq |-> packet[6], pan |-> packet[7],
     header_sum |-> FoldLeft(+, 0, SubSeq(packet, 1, HEADER_SIZE)) % 256,
     crc_computed |-> crc16(SubSeq(packet, 1, PACKET_SIZE - 2)),
     crc_received |-> 256 * packet[PACKET_SIZE - 1] + packet[PACKET_SIZE]]

\* Stats.add over the packets: the sequence is counted for each pan apart.
NoStats == [packets |-> 0, header_bad |-> 0, crc_bad |-> 0, seq_gaps |-> 0, pans |-> <<>>, last_seq |-> <<>>]
Add(stats, info) ==
    LET pan == info.pan
        known == pan \in DOMAIN stats.last_seq
    IN [packets |-> stats.packets + 1,
        header_bad |-> stats.header_bad + (IF info.header_sum # 0 THEN 1 ELSE 0),
        crc_bad |-> stats.crc_bad + (IF info.crc_computed # info.crc_received THEN 1 ELSE 0),
        seq_gaps |-> stats.seq_gaps + (IF known /\ info.seq # (stats.last_seq[pan] + 1) % 256 THEN 1 ELSE 0),
        pans |-> (pan :> (IF known THEN stats.pans[pan] + 1 ELSE 1)) @@ stats.pans,
        last_seq |-> (pan :> info.seq) @@ stats.last_seq]
Stats(packets) == FoldLeft(LAMBDA s, p : Add(s, Decoded(p)), NoStats, packets)

------------------------------------------------------------------------------
\* WebSocket: opcode and length, the length in 7, 16 or 64 bits.  A server that
\* masks is given up; what was decoded before its frame in the same portion is
\* lost with it.

Number(bytes) == FoldLeft(LAMBDA n, b : n * 256 + b, 0, bytes)
Digits256(n, width) == [i \in 1..width |-> (n \div (256 ^ (width - i))) % 256]
HeaderSize(b1) == CASE b1 % 128 = 126 -> 4 [] b1 % 128 = 127 -> 10 [] OTHER -> 2
PayloadSize(buf) == IF buf[2] % 128 < 126 THEN buf[2] % 128
                    ELSE Number(SubSeq(buf, 3, HeaderSize(buf[2])))

Decoding(buf, out) == [buf |-> buf, out |-> out, masked |-> FALSE]
RECURSIVE DecodeFrames(_)
DecodeFrames(d) ==
    IF Len(d.buf) < 2 \/ Len(d.buf) < HeaderSize(d.buf[2]) THEN d
    ELSE IF d.buf[2] >= 128 THEN [d EXCEPT !.masked = TRUE]
    ELSE LET head == HeaderSize(d.buf[2])
             end == head + PayloadSize(d.buf)
         IN IF Len(d.buf) < end THEN d
            ELSE DecodeFrames(Decoding(From(d.buf, end + 1),
                                       Append(d.out, [opcode |-> d.buf[1] % 16, payload |-> SubSeq(d.buf, head + 1, end)])))

\* encode_text: the header of a masked text of n bytes, n below 2^24, before the
\* mask and the masked bytes.
Header(n) == <<129>> \o IF n <= 125 THEN <<128 + n>>
                        ELSE IF n <= 65535 THEN <<128 + 126>> \o Digits256(n, 2)
                        ELSE <<128 + 127, 0, 0, 0, 0, 0>> \o Digits256(n, 3)

\* reader: it starts with the bytes that came in behind the handshake's answer,
\* and looks at them when more has come: "heard" is whether it has.  A ping's
\* payload is sent back, in a frame of the opcode of a text; a close ends the
\* reading when the portion has been gone through.
WsReader(rest) == [buf |-> rest, out |-> <<>>, sent |-> <<>>, stopped |-> FALSE, heard |-> FALSE]
Pings(frames) == SelectSeq(frames, LAMBDA m : m.opcode = 9)
WsRead(f) ==
    LET d == DecodeFrames(Decoding(f.buf, <<>>)) IN
    IF d.masked THEN [f EXCEPT !.stopped = TRUE, !.heard = TRUE]
    ELSE [buf |-> d.buf, heard |-> TRUE, out |-> f.out \o d.out,
          sent |-> f.sent \o [i \in DOMAIN Pings(d.out) |-> [header |-> Header(Len(Pings(d.out)[i].payload)),
                                                             payload |-> Pings(d.out)[i].payload]],
          stopped |-> \E i \in DOMAIN d.out : d.out[i].opcode = 8]

------------------------------------------------------------------------------
\* k4catwatch: what the display commands of a K4 say.  A command is known by its
\* head, "#" and the letters and dollars after it, so that two values of one
\* setting are one command; the report has each in the order of its first
\* message, with its last.

HeadLetters == {"A", "D", "F", "M", "R", "$"}      \* the letters of our messages, and "$"
HeadOf(message) == LET cut == {i \in 2..Len(message) : message[i] \notin HeadLetters}
                   IN IF cut = {} THEN message ELSE SubSeq(message, 1, FirstOf(cut) - 1)
IsDisplay(message) == Head(message) = "#"

NoReport == [order |-> <<>>, seen |-> <<>>, other |-> 0]
Report(r, message) ==
    LET head == HeadOf(message) IN
    IF ~IsDisplay(message) THEN [r EXCEPT !.other = @ + 1]
    ELSE [r EXCEPT !.order = IF Contains(@, head) THEN @ ELSE Append(@, head),
                   !.seen = (head :> message) @@ @]
Watched(messages) == FoldLeft(Report, NoReport, messages)

------------------------------------------------------------------------------
\* Only the socket has bytes before its reader starts.
Opened(kind, rest) == CASE kind \in {"cat", "k4", "civ"} -> Framer
                        [] kind = "pan" -> PanFramer
                        [] kind = "ws" -> WsReader(rest)

Feed(kind, f, data) ==
    LET g == [f EXCEPT !.buf = f.buf \o data]
    IN CASE kind \in {"cat", "k4"} -> CatFrames(g, <<";">>)
         [] kind = "civ" -> CivFrames(g)
         [] kind = "pan" -> PanFrames(g)
         [] kind = "ws"  -> WsRead(g)
==============================================================================

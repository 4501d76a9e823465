----------------------------- MODULE WalFrames -----------------------------
(***************************************************************************)
(* The bytes of a row log (format/wal.rs) and what a reader makes of them. *)
(* A frame is a prefix of 16 bytes with the row's index, a packet (header  *)
(* of 16 bytes with the payload's length, payload) and padding to the next *)
(* multiple of 16.  A log is opened for append and never truncated, so     *)
(* what an append that was cut short left stays in front of the frames     *)
(* that follow.  Files are sequences of words of 8 bytes.                  *)
(***************************************************************************)
EXTENDS Integers, Sequences, SequencesExt

CONSTANTS
    ArchiveSize(_),    \* bytes of a row's archive, a multiple of 8
    Guesses     \* lengths the bytes of an archive or a status may be taken for

\* align16
Align16(n) == ((n + 15) \div 16) * 16

\* A word: what it is, the u32 it begins with, and the frame it belongs to.
Chunk(kind, n, id) == [k |-> kind, n |-> n, of |-> id]

\* The header and the payload of a row: as_raw_slice().
Packet(id, row) ==
    <<Chunk("length", ArchiveSize(row), id), Chunk("status", 0, id)>>
      \o [i \in 1 .. ArchiveSize(row) \div 8 |-> Chunk("payload", i, id)]

\* WalWriter::append writes prefix, packet and padding.
FrameWords(id, frame) ==
    LET packet == Packet(id, frame.row)
    IN <<Chunk("index", frame.index, id), Chunk("zeros", 0, id)>> \o packet
         \o [i \in 1 .. Align16(8 * Len(packet)) \div 8 - Len(packet) |-> Chunk("zeros", 0, id)]

WordsOf(frame) == Len(FrameWords(0, frame))

\* Words of the frame before its padding.
PacketEnd(frame) == 2 + Len(Packet(0, frame.row))

NewFrame(row, index) == [row |-> row, index |-> index, kept |-> 0]
Complete(frame) == [frame EXCEPT !.kept = WordsOf(frame)]

\* The file: of every frame appended, the words that reached it.
File(frames) ==
    FoldLeft(LAMBDA acc, id : acc \o SubSeq(FrameWords(id, frames[id]), 1, frames[id].kept),
             <<>>, [id \in 1 .. Len(frames) |-> id])

\* What a word may say when it is read as the length of a payload.
Lengths(word) ==
    IF word.k \in {"length", "index", "zeros"} THEN {word.n} ELSE Guesses

\* PyroRef::try_from_slice takes a packet of that length from the bytes left.
Fits(length, left) == left >= 16 + length

\* WalFrameIter::next from word `at` on: the packets it may return, and whether
\* it ends or panics.  The bytes left are an unsigned difference: behind a
\* packet without its padding it is below zero.
RECURSIVE ReadFrames(_, _)
ReadFrames(file, at) ==
    LET left == 8 * (Len(file) - at)
        nothing == [packets |-> <<>>, panics |-> left < 0]
        Packets(total) ==
            {[rest EXCEPT !.packets =
                <<SubSeq(file, at + 3, at + 2 + (total + 7) \div 8)>> \o @] :
             rest \in ReadFrames(file, at + 2 + Align16(total) \div 8)}
    IN IF left < 32 THEN {nothing}
       ELSE UNION {IF Fits(length, left - 16) THEN Packets(16 + length) ELSE {nothing} :
                   length \in Lengths(file[at + 3])}

\* PyroRow::expose_view validates the archive: of all packets that may be found
\* only those written as one are rows.
IsRow(frames, packet) == packet = Packet(packet[1].of, frames[packet[1].of].row)

\* recover: the frames whose rows it gives, or the first packet's error, or a panic.
Recover(frames) ==
    {IF read.panics THEN [result |-> "panic", ids |-> <<>>]
     ELSE IF \E i \in DOMAIN read.packets : ~IsRow(frames, read.packets[i])
     THEN [result |-> "error", ids |-> <<>>]
     ELSE [result |-> "rows", ids |-> [i \in DOMAIN read.packets |-> read.packets[i][1].of]] :
     read \in ReadFrames(File(frames), 0)}
=============================================================================

----------------------------- MODULE CaptureFile -----------------------------
(***************************************************************************)
(* The capture the engine reads and the one it writes (PcapReader and      *)
(* PcapWriter, pcap_reader.cpp).  Each has a magic number that tells in    *)
(* which byte order its integers are, then records: a header of integers   *)
(* and the data.                                                           *)
(*                                                                         *)
(* A word is a 32-bit integer as this machine reads it from the file, its  *)
(* most significant byte first.  The data of a record is an opaque packet  *)
(* and how many bytes of it the file holds.  A file cut short in a record  *)
(* header ends like one that is cut before it.                             *)
(***************************************************************************)
EXTENDS Integers, Sequences

CONSTANTS Captures,     \* the captures that occur as input
          NoFile,       \* a file that cannot be opened, or is not open
          Data          \* the packets that occur in them

Byte == 0 .. 255
Word == Byte \X Byte \X Byte \X Byte

SwapBytes32(w) == <<w[4], w[3], w[2], w[1]>>
Number(w) == ((w[1] * 256 + w[2]) * 256 + w[3]) * 256 + w[4]
NumberWord(n) == <<n \div 16777216, (n \div 65536) % 256, (n \div 256) % 256, n % 256>>

Magic == <<161, 178, 195, 212>>     \* 0xa1b2c3d4
MagicSwapped == SwapBytes32(Magic)
MAX_PACKET == 65536

Header == [ts_sec : Word, ts_usec : Word, incl_len : Word, orig_len : Word]
Record == [header : Header, packet : Data, size : 0 .. MAX_PACKET + 1]
CaptureFiles == [magic : Word, records : Seq(Record)]

\* A header as a program that honours the magic number understands it.
Meant(magic, header) ==
    IF magic = Magic THEN header ELSE [f \in DOMAIN header |-> SwapBytes32(header[f])]

\* What readNextPacket refuses: no bytes, too many, or not all there.
Whole(magic, record) == LET n == Number(Meant(magic, record.header).incl_len)
                        IN  n \in 1 .. MAX_PACKET /\ n = record.size

\* Only the last record can be cut short, and a bad length ends the file: what
\* follows it cannot be told apart.
ASSUME CapturesAssumption ==
    /\ NoFile \notin CaptureFiles
    /\ \A c \in Captures : c # NoFile =>
         /\ c \in CaptureFiles
         /\ \A i \in DOMAIN c.records :
              Whole(c.magic, c.records[i])
              \/ LET n == Number(Meant(c.magic, c.records[i].header).incl_len)
                 IN  n = 0 \/ n > MAX_PACKET \/ (n > c.records[i].size /\ i = Len(c.records))

VARIABLES
    input,       \* the file named by --pcap
    reader,      \* "closed", "open", or "done"
    swap,        \* needs_byte_swap_
    taken,       \* history: records taken from it
    output,      \* what the file named by --out holds since it was opened
    written      \* history: written[k] is the input record that is output record k

readerVars == <<input, reader, swap, taken>>
writerVars == <<output, written>>
captureVars == <<readerVars, writerVars>>

CaptureInit ==
    /\ input \in Captures /\ reader = "closed" /\ swap = FALSE /\ taken = 0
    /\ output = NoFile /\ written = <<>>

-----------------------------------------------------------------------------
(* PcapReader.                                                             *)

CanOpen == input # NoFile /\ input.magic \in {Magic, MagicSwapped}

OpenReader ==
    /\ reader = "closed" /\ CanOpen
    /\ swap' = (input.magic = MagicSwapped) /\ reader' = "open"
    /\ UNCHANGED <<input, taken, writerVars>>

MaybeSwap32(w) == IF swap THEN SwapBytes32(w) ELSE w

\* The header of record i as readNextPacket leaves it in the packet.
ReadHeader(i) ==
    [f \in DOMAIN input.records[i].header |-> MaybeSwap32(input.records[i].header[f])]

InclLen(i) == Number(ReadHeader(i).incl_len)

\* Mutant of Readable: the longest packet is refused.
ReadableExclusive(i) ==
    /\ i <= Len(input.records)
    /\ 0 < InclLen(i) /\ InclLen(i) < MAX_PACKET /\ InclLen(i) = input.records[i].size

Readable(i) ==
    /\ i <= Len(input.records)
    /\ 0 < InclLen(i) /\ InclLen(i) <= MAX_PACKET /\ InclLen(i) = input.records[i].size

TakeRecord ==
    /\ reader = "open" /\ Readable(taken + 1)
    /\ taken' = taken + 1
    /\ UNCHANGED <<input, reader, swap, writerVars>>

EndOfInput ==
    /\ reader = "open" /\ ~Readable(taken + 1)
    /\ reader' = "done"
    /\ UNCHANGED <<input, swap, taken, writerVars>>

-----------------------------------------------------------------------------
(* PcapWriter.                                                             *)

\* The file is emptied and given the global header of the input, as it is.
OpenWriter ==
    /\ output = NoFile
    /\ output' = [magic |-> input.magic, records |-> <<>>]
    /\ UNCHANGED <<readerVars, written>>

\* Mutant of OutputHeader: seconds and microseconds change places.
OutputHeaderTimes(i) ==
    LET length == NumberWord(input.records[i].size)
    IN  [ts_sec |-> ReadHeader(i).ts_usec, ts_usec |-> ReadHeader(i).ts_sec,
         incl_len |-> length, orig_len |-> length]

\* Both lengths are the length of the data: what the capture had cut off from
\* the packet is not told any more.
OutputHeader(i) ==
    LET length == NumberWord(input.records[i].size)
    IN  [ts_sec |-> ReadHeader(i).ts_sec, ts_usec |-> ReadHeader(i).ts_usec,
         incl_len |-> length, orig_len |-> length]

WritePacket(i) ==
    /\ output # NoFile
    /\ output' = [output EXCEPT !.records =
                    Append(@, [header |-> OutputHeader(i), packet |-> input.records[i].packet,
                               size |-> input.records[i].size])]
    /\ written' = Append(written, i)
    /\ UNCHANGED readerVars

-----------------------------------------------------------------------------
(* Properties.                                                             *)

CaptureTypeOK ==
    /\ input \in Captures /\ reader \in {"closed", "open", "done"} /\ swap \in BOOLEAN
    /\ reader # "closed" => CanOpen /\ swap = (input.magic = MagicSwapped)
    /\ taken \in Nat /\ (reader = "closed" => taken = 0)
    /\ output \in CaptureFiles \cup {NoFile} /\ written \in Seq(Nat)

\* The reader takes the records of a capture whole, in either byte order, and
\* stops before the last one only at a record that is not.
AllWholeRecordsTaken ==
    /\ \A i \in 1 .. taken : i <= Len(input.records) /\ Whole(input.magic, input.records[i])
    /\ reader = "done" => \/ taken = Len(input.records)
                          \/ ~Whole(input.magic, input.records[taken + 1])

\* If the input is in the byte order of this machine, a program that reads the
\* output finds whole records, with the times, the length and the data of the
\* records of the input that they were made from.
OutputReadsBack ==
    output # NoFile /\ input.magic = Magic =>
        /\ Len(output.records) = Len(written)
        /\ \A k \in DOMAIN written :
             LET was == input.records[written[k]]
                 is  == output.records[k]
             IN  /\ Whole(output.magic, is)
                 /\ is.packet = was.packet
                 /\ Meant(output.magic, is.header).ts_sec = Meant(input.magic, was.header).ts_sec
                 /\ Meant(output.magic, is.header).ts_usec = Meant(input.magic, was.header).ts_usec
                 /\ Meant(output.magic, is.header).incl_len = Meant(input.magic, was.header).incl_len

=============================================================================

-------------------------- MODULE PacketInspection --------------------------
(***************************************************************************)
(* The way of a packet's bytes: PcapReader::readNextPacket takes a record  *)
(* from the capture, PacketParser::parse walks its headers to the payload, *)
(* and FastPathWorker::classifyFlow has the extractors walk the payload.   *)
(* All of them follow lengths that the packet itself contains.             *)
(*                                                                         *)
(* A byte is whatever its reader makes of it, chosen when it is read; what *)
(* is kept is where the walk stands and how far it has read.  offset is    *)
(* the position in the packet's data, also where the code counts from the  *)
(* payload.                                                                *)
(***************************************************************************)
EXTENDS Naturals, Descent

CONSTANTS FileSize,        \* length of the capture after its global header
          RecordLengths,   \* values of incl_len
          Nibbles,         \* values of the two header length fields, in words
          Bytes,           \* values of one-byte lengths in the payload
          Words            \* values of two-byte lengths in the payload

ASSUME FileAssumption == FileSize \in Nat /\ RecordLengths \subseteq Nat
ASSUME FieldsAssumption == /\ \A n \in Nibbles : n \in Nat /\ n <= 15
                           /\ \A n \in Bytes : n \in Nat /\ n <= 255
                           /\ \A n \in Words : n \in Nat /\ n <= 65535

VARIABLES
    stage,      \* the walk, and its place in it
    fileLeft,   \* what readNextPacket has not read yet
    len,        \* data.size()
    offset,     \* the walk's position in the data
    reach,      \* one past the last byte the previous step read
    payload,    \* payload_offset
    plen,       \* payload_length
    dst, src,   \* the ports: one of those classifyFlow knows, or 0
    end,        \* ext_end, in SNIExtractor::extract; otherwise 0
    inner,      \* ext_len of the SNI extension; the place of "Host:" in HTTP
    name        \* where the name found is, or NoName

vars == <<stage, fileLeft, len, offset, reach, payload, plen, dst, src, end, inner, name>>
packet == <<fileLeft, len, payload, plen, dst, src>>

NoName == [from |-> 0, to |-> 0]
MAX_PACKET == 65536

\* The extractors are handed the payload and its length, nothing else.
Limit == payload + plen

Init ==
    /\ stage = "capture" /\ fileLeft = FileSize
    /\ len = 0 /\ offset = 0 /\ reach = 0
    /\ payload = 0 /\ plen = 0 /\ dst = 0 /\ src = 0
    /\ end = 0 /\ inner = 0 /\ name = NoName

\* A step of the walk: to stage s and position o, having read up to r.
Go(s, o, r) ==
    stage' = s /\ offset' = o /\ reach' = r

Leave(s) == Go(s, offset, reach)

-----------------------------------------------------------------------------
(* PcapReader::readNextPacket.  A short or impossible record ends the      *)
(* capture like its end does.                                              *)

Fresh == /\ payload' = 0 /\ plen' = 0 /\ dst' = 0 /\ src' = 0
         /\ end' = 0 /\ inner' = 0 /\ name' = NoName

ReadRecord ==
    /\ stage = "capture" /\ fileLeft >= 16
    /\ \E n \in RecordLengths :
         /\ 0 < n /\ n <= MAX_PACKET /\ n <= fileLeft - 16
         /\ len' = n /\ fileLeft' = fileLeft - 16 - n
    /\ Go("ethernet", 0, 0)
    /\ Fresh

EndOfCapture ==
    /\ stage = "capture"
    /\ \/ fileLeft < 16
       \/ \E n \in RecordLengths : n = 0 \/ n > MAX_PACKET \/ n > fileLeft - 16
    /\ Go("end", 0, 0) /\ len' = 0 /\ Fresh
    /\ UNCHANGED fileLeft

-----------------------------------------------------------------------------
(* PacketParser::parse.  Whatever it rejects, and whatever is neither TCP  *)
(* nor UDP over IPv4, main skips.                                          *)

HeaderSize == [ethernet |-> 14, ipv4 |-> 20, tcp |-> 20, udp |-> 8]
Fits == stage \in DOMAIN HeaderSize /\ offset + HeaderSize[stage] <= len

TooShort ==
    /\ stage \in DOMAIN HeaderSize /\ ~Fits
    /\ Leave("capture")
    /\ UNCHANGED <<packet, end, inner, name>>

ParseEthernet ==
    /\ stage = "ethernet" /\ Fits
    /\ \E s \in {"ipv4", "capture"} : Go(s, offset + 14, offset + 14)
    /\ UNCHANGED <<packet, end, inner, name>>

\* A header length field: at least five words, all of them captured.
LengthOK(words) == 4 * words >= 20 /\ offset + 4 * words <= len

ParseIPv4 ==
    /\ stage = "ipv4" /\ Fits
    /\ \E ihl \in Nibbles, s \in {"tcp", "udp", "capture"} :
         \/ LengthOK(ihl) /\ Go(s, offset + 4 * ihl, offset + 20)
         \/ ~LengthOK(ihl) /\ Go("capture", offset, offset + 20)
    /\ UNCHANGED <<packet, end, inner, name>>

ParseTCP ==
    /\ stage = "tcp" /\ Fits
    /\ \E words \in Nibbles :
         \/ LengthOK(words) /\ Go("payload", offset + 4 * words, offset + 20)
         \/ ~LengthOK(words) /\ Go("capture", offset, offset + 20)
    /\ UNCHANGED <<packet, end, inner, name>>

ParseUDP ==
    /\ stage = "udp" /\ Fits
    /\ Go("payload", offset + 8, offset + 8)
    /\ UNCHANGED <<packet, end, inner, name>>

\* Mutant of Dispatch: the payload's length is the packet's.
DispatchWholeLength ==
    /\ stage = "payload"
    /\ payload' = offset /\ plen' = len
    /\ dst' \in {0, 53, 80, 443} /\ src' \in {0, 53}
    /\ Leave("tls")
    /\ UNCHANGED <<fileLeft, len, end, inner, name>>

\* The payload is what follows the headers; the job carries it to a worker.
Dispatch ==
    /\ stage = "payload"
    /\ payload' = offset /\ plen' = IF offset < len THEN len - offset ELSE 0
    /\ dst' \in {0, 53, 80, 443} /\ src' \in {0, 53}
    /\ Leave("tls")
    /\ UNCHANGED <<fileLeft, len, end, inner, name>>

-----------------------------------------------------------------------------
(* SNIExtractor::extract; without a name, classifyFlow goes on with HTTP.  *)

TryTls ==
    /\ stage = "tls"
    /\ \/ /\ dst = 443 /\ plen > 5 /\ plen >= 9
          /\ \/ Go("hello", payload + 9, payload + 6)
             \/ Go("http", offset, payload + 6)      \* not a ClientHello
       \/ ~(dst = 443 /\ plen > 5 /\ plen >= 9) /\ Leave("http")
    /\ UNCHANGED <<packet, end, inner, name>>

\* A length field of size bytes at position o and as many bytes after it as it
\* says, leading to stage s; nothing of it when it does not fit.
Skip(o, size, Lengths, s) ==
    \/ /\ o + size <= Limit
       /\ \E n \in Lengths :
            \/ o + size + n <= Limit /\ Go(s, o + size + n, o + size)
            \/ o + size + n > Limit /\ Go("http", offset, o + size)
    \/ o + size > Limit /\ Leave("http")

\* Client version and random, then the session id.
SkipSession ==
    /\ stage = "hello" /\ Skip(offset + 34, 1, Bytes, "ciphers")
    /\ UNCHANGED <<packet, end, inner, name>>

SkipCiphers ==
    /\ stage = "ciphers" /\ Skip(offset, 2, Words, "compression")
    /\ UNCHANGED <<packet, end, inner, name>>

SkipCompression ==
    /\ stage = "compression" /\ Skip(offset, 1, Bytes, "extensions")
    /\ UNCHANGED <<packet, end, inner, name>>

EnterExtensions ==
    /\ stage = "extensions"
    /\ \/ /\ offset + 2 <= Limit
          /\ \E n \in Words : end' = IF offset + 2 + n > Limit THEN Limit ELSE offset + 2 + n
          /\ Go("extension", offset + 2, offset + 2)
       \/ offset + 2 > Limit /\ Leave("http") /\ UNCHANGED end
    /\ UNCHANGED <<packet, inner, name>>

\* Mutant of NextExtension: the extension's own header is not stepped over.
NextExtensionNoHeader ==
    /\ stage = "extension" /\ offset + 4 <= end
    /\ \E n \in Words :
         \/ offset + 4 + n > end /\ Go("http", offset, offset + 4) /\ UNCHANGED inner
         \/ offset + 4 + n <= end /\ Go("extension", offset + n, offset + 4) /\ UNCHANGED inner
         \/ offset + 4 + n <= end /\ Go("sni", offset + 4, offset + 4) /\ inner' = n
    /\ UNCHANGED <<packet, end, name>>

NextExtension ==
    /\ stage = "extension" /\ offset + 4 <= end
    /\ \E n \in Words :
         \/ offset + 4 + n > end /\ Go("http", offset, offset + 4) /\ UNCHANGED inner
         \/ offset + 4 + n <= end /\ Go("extension", offset + 4 + n, offset + 4)
            /\ UNCHANGED inner
         \/ offset + 4 + n <= end /\ Go("sni", offset + 4, offset + 4) /\ inner' = n
    /\ UNCHANGED <<packet, end, name>>

NoMoreExtensions ==
    /\ stage = "extension" /\ offset + 4 > end
    /\ Leave("http")
    /\ UNCHANGED <<packet, end, inner, name>>

\* Mutants of ReadSni: without the check of ext_len, and with the name's length
\* compared with the whole extension.
ReadSniUnchecked ==
    /\ stage = "sni"
    /\ \/ \E n \in Words :
            /\ n + 5 <= inner
            /\ name' = [from |-> offset + 5, to |-> offset + 5 + n]
            /\ Go("capture", offset, offset + 5)
       \/ Go("http", offset, offset + 5) /\ UNCHANGED name
    /\ UNCHANGED <<packet, end, inner>>

ReadSniWholeExtension ==
    /\ stage = "sni"
    /\ \/ /\ inner >= 5
          /\ \/ \E n \in Words :
                  /\ n <= inner
                  /\ name' = [from |-> offset + 5, to |-> offset + 5 + n]
                  /\ Go("capture", offset, offset + 5)
             \/ Go("http", offset, offset + 5) /\ UNCHANGED name
       \/ inner < 5 /\ Leave("http") /\ UNCHANGED name
    /\ UNCHANGED <<packet, end, inner>>

\* The server name, or a list, a type or a length that is not one's.
ReadSni ==
    /\ stage = "sni"
    /\ \/ /\ inner >= 5
          /\ \/ \E n \in Words :
                  /\ n <= inner - 5
                  /\ name' = [from |-> offset + 5, to |-> offset + 5 + n]
                  /\ Go("capture", offset, offset + 5)
             \/ Go("http", offset, offset + 5) /\ UNCHANGED name
       \/ inner < 5 /\ Leave("http") /\ UNCHANGED name
    /\ UNCHANGED <<packet, end, inner>>

-----------------------------------------------------------------------------
(* HTTPHostExtractor::extract.                                             *)

TryHttp ==
    /\ stage = "http" /\ end' = 0 /\ inner' = 0
    /\ \/ /\ dst = 80 /\ plen > 10
          /\ \/ Go("scan", payload, payload + 4)
             \/ Go("dns", offset, payload + 4)      \* no method
       \/ ~(dst = 80 /\ plen > 10) /\ Leave("dns")
    /\ UNCHANGED <<packet, name>>

Scan ==
    /\ stage = "scan" /\ offset + 6 < Limit
    /\ \/ Go("scan", offset + 1, offset + 5) /\ UNCHANGED inner
       \/ Go("blanks", offset + 5, offset + 5) /\ inner' = offset     \* "Host:"
    /\ UNCHANGED <<packet, end, name>>

NoHost ==
    /\ stage = "scan" /\ offset + 6 >= Limit
    /\ Leave("dns")
    /\ UNCHANGED <<packet, end, inner, name>>

\* Mutant of Blanks: after an empty value the scan resumes at the same "Host:".
BlanksRescan ==
    /\ stage = "blanks"
    /\ \/ /\ offset < Limit
          /\ \/ Go("blanks", offset + 1, offset + 1) /\ UNCHANGED <<inner, name>>
             \/ Go("scan", inner, offset + 1) /\ UNCHANGED <<inner, name>>
             \/ /\ Go("value", offset + 1, offset + 1) /\ inner' = 0
                /\ name' = [from |-> offset, to |-> offset + 1]
       \/ offset >= Limit /\ Go("scan", inner, reach) /\ UNCHANGED <<inner, name>>
    /\ UNCHANGED <<packet, end>>

\* Blanks before the value; an empty one sends the scan on.
Blanks ==
    /\ stage = "blanks"
    /\ \/ /\ offset < Limit
          /\ \/ Go("blanks", offset + 1, offset + 1) /\ UNCHANGED <<inner, name>>
             \/ Go("scan", inner + 1, offset + 1) /\ UNCHANGED <<inner, name>>
             \/ /\ Go("value", offset + 1, offset + 1) /\ inner' = 0
                /\ name' = [from |-> offset, to |-> offset + 1]
       \/ offset >= Limit /\ Go("scan", inner + 1, reach) /\ UNCHANGED <<inner, name>>
    /\ UNCHANGED <<packet, end>>

\* The value runs to the end of its line or of the payload; its port, if it
\* has one, is cut off.
Value ==
    /\ stage = "value"
    /\ \/ /\ offset < Limit
          /\ \/ Go("value", offset + 1, offset + 1) /\ name' = [from |-> name.from, to |-> offset + 1]
             \/ Go("capture", offset, offset + 1) /\ UNCHANGED name
       \/ offset >= Limit /\ Leave("capture") /\ UNCHANGED name
    /\ UNCHANGED <<packet, end, inner>>

-----------------------------------------------------------------------------
(* DNSExtractor::extractQuery.                                             *)

TryDns ==
    /\ stage = "dns"
    /\ \/ /\ 53 \in {dst, src} /\ plen >= 12
          /\ \/ Go("labels", payload + 12, payload + 6)
             \/ Go("capture", offset, payload + 6)      \* not a query
       \/ ~(53 \in {dst, src} /\ plen >= 12) /\ Leave("capture")
    /\ UNCHANGED <<packet, end, inner, name>>

\* A label, or what ends them; the name is the labels so far.
Labels ==
    /\ stage = "labels"
    /\ \/ /\ offset < Limit
          /\ \E n \in Bytes :
               LET more == n \in 1 .. 63 /\ offset + 1 + n <= Limit IN
               \/ /\ more /\ Go("labels", offset + 1 + n, offset + 1)
                  /\ name' = [from |-> payload + 12, to |-> offset + 1 + n]
               \/ ~more /\ Go("capture", offset + 1, offset + 1) /\ UNCHANGED name
       \/ offset >= Limit /\ Leave("capture") /\ UNCHANGED name
    /\ UNCHANGED <<packet, end, inner>>

-----------------------------------------------------------------------------
Reader == ReadRecord \/ EndOfCapture
Parser == TooShort \/ ParseEthernet \/ ParseIPv4 \/ ParseTCP \/ ParseUDP \/ Dispatch
Tls == \/ TryTls \/ SkipSession \/ SkipCiphers \/ SkipCompression \/ EnterExtensions
       \/ NextExtension \/ NoMoreExtensions \/ ReadSni
Http == TryHttp \/ Scan \/ NoHost \/ Blanks \/ Value
Dns == TryDns \/ Labels
Finished == stage = "end" /\ UNCHANGED vars

Next == Reader \/ Parser \/ Tls \/ Http \/ Dns \/ Finished

Spec == Init /\ [][Next]_vars

\* One thread after another works on the packet; none of them waits here.
FairSpec == Spec /\ WF_vars(Next)

-----------------------------------------------------------------------------
(* Properties.                                                             *)

Stages == {"capture", "ethernet", "ipv4", "tcp", "udp", "payload",
           "tls", "hello", "ciphers", "compression", "extensions", "extension", "sni",
           "http", "scan", "blanks", "value", "dns", "labels", "end"}

\* The payload the job describes is always a part of the packet.
TypeOK ==
    /\ stage \in Stages /\ fileLeft \in 0 .. FileSize
    /\ len \in Nat /\ offset \in 0 .. len /\ reach \in Nat
    /\ payload \in Nat /\ plen \in Nat /\ payload + plen <= len
    /\ dst \in {0, 53, 80, 443} /\ src \in {0, 53}
    /\ end \in Nat /\ inner \in Nat
    /\ name \in [from : Nat, to : Nat]

\* No walk reads past the end of the packet, whatever lengths its headers, the
\* handshake, its extensions and the labels claim, and however they nest.
ReadsInside == reach <= len

\* A name that is found lies in the payload, behind its fixed header; a server
\* name lies in the extensions, whose total was cut to what is there.
NameInside ==
    name # NoName => /\ payload < name.from /\ name.from <= name.to /\ name.to <= Limit
                     /\ end # 0 => name.to <= end

\* What the reader and the walks still have before them: the capture, the stages
\* of the packet, the bytes behind the search for "Host:" (after which a value
\* is looked for, maybe in vain) or behind any other walk, and those behind the
\* blanks.  Outside its loop a stage leads only to later rows of StagesLeft.
StagesLeft == [ethernet |-> 17, ipv4 |-> 16, tcp |-> 15, udp |-> 15, payload |-> 14,
               tls |-> 13, hello |-> 12, ciphers |-> 11, compression |-> 10,
               extensions |-> 9, extension |-> 8, sni |-> 7,
               http |-> 6, scan |-> 5, blanks |-> 5, value |-> 4,
               dns |-> 3, labels |-> 2, capture |-> 1, end |-> 0]

Left == << fileLeft,
           StagesLeft[stage],
           len - (IF stage = "blanks" THEN inner ELSE offset),
           IF stage = "blanks" THEN len - offset ELSE len + 1 >>

\* Every walk ends: each step of the reader, the parser and the extractors lowers
\* the measure, whatever lengths it follows.  An empty extension or label
\* does not keep a walk on the spot, and that the search for a host goes back
\* over what it has read does not make it go round in circles.
WalkAdvances == [][Left' \in Measures(4) /\ Below(4, Left', Left)]_vars

\* Every capture comes to its end: no walk is stuck either.
CaptureEnds == <>(stage = "end")

=============================================================================

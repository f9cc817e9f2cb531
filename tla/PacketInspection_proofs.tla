----------------------- MODULE PacketInspection_proofs -----------------------
(***************************************************************************)
(* PacketInspection for every capture and every value of every length      *)
(* field.  The invariant says, for each stage, where in the packet the     *)
(* walk can stand: the checks that precede a stage establish it, and the   *)
(* reads of the stage rely on it.                                          *)
(***************************************************************************)
EXTENDS PacketInspection, WellFoundedInduction, TLAPS

\* The stages that walk the payload by offset.
Walking == {"hello", "ciphers", "compression", "extensions", "extension", "sni",
            "scan", "blanks", "value", "labels"}

\* What the checks before a stage have established about its position.
StageInv ==
    /\ stage \in Walking => payload <= offset /\ offset <= Limit
    /\ stage \in {"extension", "sni"} => offset <= end
    /\ stage = "sni" => offset + inner <= end
    /\ stage = "blanks" => payload + 5 <= offset /\ payload <= inner /\ inner < offset
    /\ stage = "value" => name # NoName /\ name.to = offset
    /\ stage = "labels" => payload + 12 <= offset
    /\ end <= Limit

\* Only three stages can be reached with a name, and the first ends the walk.
NameInv ==
    /\ name # NoName => stage \in {"capture", "value", "labels"}
    /\ stage \in {"scan", "blanks", "value", "labels"} => end = 0
    /\ stage = "dns" => end = 0

IInv == TypeOK /\ ReadsInside /\ NameInside /\ StageInv /\ NameInv

-----------------------------------------------------------------------------
(* Facts the actions share.                                                *)

LEMMA FieldsNat == Nibbles \subseteq Nat /\ Bytes \subseteq Nat /\ Words \subseteq Nat
  BY FieldsAssumption

LEMMA EthernetFits == stage = "ethernet" /\ Fits => offset + 14 <= len
  BY DEF Fits, HeaderSize
LEMMA IPv4Fits == stage = "ipv4" /\ Fits => offset + 20 <= len
  BY DEF Fits, HeaderSize
LEMMA TCPFits == stage = "tcp" /\ Fits => offset + 20 <= len
  BY DEF Fits, HeaderSize
LEMMA UDPFits == stage = "udp" /\ Fits => offset + 8 <= len
  BY DEF Fits, HeaderSize

LEMMA InitIInv == Init => IInv
  BY FileAssumption
  DEF Init, IInv, TypeOK, ReadsInside, NameInside, StageInv, NameInv, NoName, Limit,
      Stages, Walking

LEMMA ReadRecordIInv == ASSUME IInv, ReadRecord PROVE IInv'
<1>0. TypeOK /\ ReadsInside /\ NameInside /\ StageInv /\ NameInv
  BY DEF IInv
<1>1. TypeOK'
  BY <1>0, FileAssumption
  DEF TypeOK, ReadsInside, StageInv, Walking, Limit, Stages, ReadRecord, Go, Fresh, MAX_PACKET, NoName
<1>2. ReadsInside'
  BY <1>0, FileAssumption
  DEF TypeOK, ReadsInside, StageInv, Walking, Limit, ReadRecord, Go, Fresh, MAX_PACKET
<1>3. StageInv'
  BY <1>0, FileAssumption
  DEF TypeOK, StageInv, Walking, Limit, ReadRecord, Go, Fresh, MAX_PACKET
<1>4. NameInv'
  BY <1>0
  DEF NameInv, Walking, ReadRecord, Go, Fresh, MAX_PACKET
<1>5. NameInside'
  BY <1>0, FileAssumption
  DEF TypeOK, StageInv, Walking, NameInside, NameInv, Limit, ReadRecord, Go, Fresh, MAX_PACKET
<1> QED BY <1>1, <1>2, <1>3, <1>4, <1>5 DEF IInv

LEMMA EndOfCaptureIInv == ASSUME IInv, EndOfCapture PROVE IInv'
<1>0. TypeOK /\ ReadsInside /\ NameInside /\ StageInv /\ NameInv
  BY DEF IInv
<1>1. TypeOK'
  BY <1>0
  DEF TypeOK, ReadsInside, StageInv, Walking, Limit, Stages, EndOfCapture, Go, Fresh, NoName
<1>2. ReadsInside'
  BY <1>0
  DEF TypeOK, ReadsInside, StageInv, Walking, Limit, EndOfCapture, Go, Fresh
<1>3. StageInv'
  BY <1>0
  DEF TypeOK, StageInv, Walking, Limit, EndOfCapture, Go, Fresh
<1>4. NameInv'
  BY <1>0
  DEF NameInv, Walking, EndOfCapture, Go, Fresh
<1>5. NameInside'
  BY <1>0
  DEF TypeOK, StageInv, Walking, NameInside, NameInv, Limit, EndOfCapture, Go, Fresh
<1> QED BY <1>1, <1>2, <1>3, <1>4, <1>5 DEF IInv

LEMMA TooShortIInv == ASSUME IInv, TooShort PROVE IInv'
<1>0. TypeOK /\ ReadsInside /\ NameInside /\ StageInv /\ NameInv
  BY DEF IInv
<1>1. TypeOK'
  BY <1>0
  DEF TypeOK, ReadsInside, StageInv, Walking, Limit, Stages, TooShort, Go, packet, Leave, HeaderSize
<1>2. ReadsInside'
  BY <1>0
  DEF TypeOK, ReadsInside, StageInv, Walking, Limit, TooShort, Go, packet, Leave, HeaderSize
<1>3. StageInv'
  BY <1>0
  DEF TypeOK, StageInv, Walking, Limit, TooShort, Go, packet, Leave, HeaderSize
<1>4. NameInv'
  BY <1>0
  DEF NameInv, Walking, TooShort, Go, packet, Leave, HeaderSize
<1>5. NameInside'
  BY <1>0
  DEF TypeOK, StageInv, Walking, NameInside, NameInv, Limit, TooShort, Go, packet, Leave, HeaderSize
<1> QED BY <1>1, <1>2, <1>3, <1>4, <1>5 DEF IInv

LEMMA ParseEthernetIInv == ASSUME IInv, ParseEthernet PROVE IInv'
<1>0. TypeOK /\ ReadsInside /\ NameInside /\ StageInv /\ NameInv
  BY DEF IInv
<1>1. TypeOK'
  BY <1>0, EthernetFits
  DEF TypeOK, ReadsInside, StageInv, Walking, Limit, Stages, ParseEthernet, Go, packet
<1>2. ReadsInside'
  BY <1>0, EthernetFits
  DEF TypeOK, ReadsInside, StageInv, Walking, Limit, ParseEthernet, Go, packet
<1>3. StageInv'
  BY <1>0, EthernetFits
  DEF TypeOK, StageInv, Walking, Limit, ParseEthernet, Go, packet
<1>4. NameInv'
  BY <1>0
  DEF NameInv, Walking, ParseEthernet, Go, packet
<1>5. NameInside'
  BY <1>0, EthernetFits
  DEF TypeOK, StageInv, Walking, NameInside, NameInv, Limit, ParseEthernet, Go, packet
<1> QED BY <1>1, <1>2, <1>3, <1>4, <1>5 DEF IInv

LEMMA ParseIPv4IInv == ASSUME IInv, ParseIPv4 PROVE IInv'
<1>0. TypeOK /\ ReadsInside /\ NameInside /\ StageInv /\ NameInv
  BY DEF IInv
<1>1. TypeOK'
  BY <1>0, FieldsNat, IPv4Fits
  DEF TypeOK, ReadsInside, StageInv, Walking, Limit, Stages, ParseIPv4, Go, packet, LengthOK
<1>2. ReadsInside'
  BY <1>0, FieldsNat, IPv4Fits
  DEF TypeOK, ReadsInside, StageInv, Walking, Limit, ParseIPv4, Go, packet, LengthOK
<1>3. StageInv'
  BY <1>0, FieldsNat, IPv4Fits
  DEF TypeOK, StageInv, Walking, Limit, ParseIPv4, Go, packet, LengthOK
<1>4. NameInv'
  BY <1>0
  DEF NameInv, Walking, ParseIPv4, Go, packet, LengthOK
<1>5. NameInside'
  BY <1>0, FieldsNat, IPv4Fits
  DEF TypeOK, StageInv, Walking, NameInside, NameInv, Limit, ParseIPv4, Go, packet, LengthOK
<1> QED BY <1>1, <1>2, <1>3, <1>4, <1>5 DEF IInv

LEMMA ParseTCPIInv == ASSUME IInv, ParseTCP PROVE IInv'
<1>0. TypeOK /\ ReadsInside /\ NameInside /\ StageInv /\ NameInv
  BY DEF IInv
<1>1. TypeOK'
  BY <1>0, FieldsNat, TCPFits
  DEF TypeOK, ReadsInside, StageInv, Walking, Limit, Stages, ParseTCP, Go, packet, LengthOK
<1>2. ReadsInside'
  BY <1>0, FieldsNat, TCPFits
  DEF TypeOK, ReadsInside, StageInv, Walking, Limit, ParseTCP, Go, packet, LengthOK
<1>3. StageInv'
  BY <1>0, FieldsNat, TCPFits
  DEF TypeOK, StageInv, Walking, Limit, ParseTCP, Go, packet, LengthOK
<1>4. NameInv'
  BY <1>0
  DEF NameInv, Walking, ParseTCP, Go, packet, LengthOK
<1>5. NameInside'
  BY <1>0, FieldsNat, TCPFits
  DEF TypeOK, StageInv, Walking, NameInside, NameInv, Limit, ParseTCP, Go, packet, LengthOK
<1> QED BY <1>1, <1>2, <1>3, <1>4, <1>5 DEF IInv

LEMMA ParseUDPIInv == ASSUME IInv, ParseUDP PROVE IInv'
<1>0. TypeOK /\ ReadsInside /\ NameInside /\ StageInv /\ NameInv
  BY DEF IInv
<1>1. TypeOK'
  BY <1>0, UDPFits
  DEF TypeOK, ReadsInside, StageInv, Walking, Limit, Stages, ParseUDP, Go, packet
<1>2. ReadsInside'
  BY <1>0, UDPFits
  DEF TypeOK, ReadsInside, StageInv, Walking, Limit, ParseUDP, Go, packet
<1>3. StageInv'
  BY <1>0, UDPFits
  DEF TypeOK, StageInv, Walking, Limit, ParseUDP, Go, packet
<1>4. NameInv'
  BY <1>0
  DEF NameInv, Walking, ParseUDP, Go, packet
<1>5. NameInside'
  BY <1>0, UDPFits
  DEF TypeOK, StageInv, Walking, NameInside, NameInv, Limit, ParseUDP, Go, packet
<1> QED BY <1>1, <1>2, <1>3, <1>4, <1>5 DEF IInv

LEMMA DispatchIInv == ASSUME IInv, Dispatch PROVE IInv'
<1>0. TypeOK /\ ReadsInside /\ NameInside /\ StageInv /\ NameInv
  BY DEF IInv
<1>1. TypeOK'
  BY <1>0
  DEF TypeOK, ReadsInside, StageInv, Walking, Limit, Stages, Dispatch, Go, packet, Leave
<1>2. ReadsInside'
  BY <1>0
  DEF TypeOK, ReadsInside, StageInv, Walking, Limit, Dispatch, Go, packet, Leave
<1>3. StageInv'
  BY <1>0
  DEF TypeOK, StageInv, Walking, Limit, Dispatch, Go, packet, Leave
<1>4. NameInv'
  BY <1>0
  DEF NameInv, Walking, Dispatch, Go, packet, Leave
<1>5. NameInside'
  BY <1>0
  DEF TypeOK, StageInv, Walking, NameInside, NameInv, Limit, Dispatch, Go, packet, Leave
<1> QED BY <1>1, <1>2, <1>3, <1>4, <1>5 DEF IInv

LEMMA TryTlsIInv == ASSUME IInv, TryTls PROVE IInv'
<1>0. TypeOK /\ ReadsInside /\ NameInside /\ StageInv /\ NameInv
  BY DEF IInv
<1>1. TypeOK'
  BY <1>0
  DEF TypeOK, ReadsInside, StageInv, Walking, Limit, Stages, TryTls, Go, packet, Leave
<1>2. ReadsInside'
  BY <1>0
  DEF TypeOK, ReadsInside, StageInv, Walking, Limit, TryTls, Go, packet, Leave
<1>3. StageInv'
  BY <1>0
  DEF TypeOK, StageInv, Walking, Limit, TryTls, Go, packet, Leave
<1>4. NameInv'
  BY <1>0
  DEF NameInv, Walking, TryTls, Go, packet, Leave
<1>5. NameInside'
  BY <1>0
  DEF TypeOK, StageInv, Walking, NameInside, NameInv, Limit, TryTls, Go, packet, Leave
<1> QED BY <1>1, <1>2, <1>3, <1>4, <1>5 DEF IInv

LEMMA SkipSessionIInv == ASSUME IInv, SkipSession PROVE IInv'
<1>0. TypeOK /\ ReadsInside /\ NameInside /\ StageInv /\ NameInv
  BY DEF IInv
<1>1. TypeOK'
  BY <1>0, FieldsNat
  DEF TypeOK, ReadsInside, StageInv, Walking, Limit, Stages, SkipSession, Go, packet, Leave, Skip
<1>2. ReadsInside'
  BY <1>0, FieldsNat
  DEF TypeOK, ReadsInside, StageInv, Walking, Limit, SkipSession, Go, packet, Leave, Skip
<1>3. StageInv'
  BY <1>0, FieldsNat
  DEF TypeOK, StageInv, Walking, Limit, SkipSession, Go, packet, Leave, Skip
<1>4. NameInv'
  BY <1>0
  DEF NameInv, Walking, SkipSession, Go, packet, Leave, Skip
<1>5. NameInside'
  BY <1>0, FieldsNat
  DEF TypeOK, StageInv, Walking, NameInside, NameInv, Limit, SkipSession, Go, packet, Leave, Skip
<1> QED BY <1>1, <1>2, <1>3, <1>4, <1>5 DEF IInv

LEMMA SkipCiphersIInv == ASSUME IInv, SkipCiphers PROVE IInv'
<1>0. TypeOK /\ ReadsInside /\ NameInside /\ StageInv /\ NameInv
  BY DEF IInv
<1>1. TypeOK'
  BY <1>0, FieldsNat
  DEF TypeOK, ReadsInside, StageInv, Walking, Limit, Stages, SkipCiphers, Go, packet, Leave, Skip
<1>2. ReadsInside'
  BY <1>0, FieldsNat
  DEF TypeOK, ReadsInside, StageInv, Walking, Limit, SkipCiphers, Go, packet, Leave, Skip
<1>3. StageInv'
  BY <1>0, FieldsNat
  DEF TypeOK, StageInv, Walking, Limit, SkipCiphers, Go, packet, Leave, Skip
<1>4. NameInv'
  BY <1>0
  DEF NameInv, Walking, SkipCiphers, Go, packet, Leave, Skip
<1>5. NameInside'
  BY <1>0, FieldsNat
  DEF TypeOK, StageInv, Walking, NameInside, NameInv, Limit, SkipCiphers, Go, packet, Leave, Skip
<1> QED BY <1>1, <1>2, <1>3, <1>4, <1>5 DEF IInv

LEMMA SkipCompressionIInv == ASSUME IInv, SkipCompression PROVE IInv'
<1>0. TypeOK /\ ReadsInside /\ NameInside /\ StageInv /\ NameInv
  BY DEF IInv
<1>1. TypeOK'
  BY <1>0, FieldsNat
  DEF TypeOK, ReadsInside, StageInv, Walking, Limit, Stages, SkipCompression, Go, packet, Leave, Skip
<1>2. ReadsInside'
  BY <1>0, FieldsNat
  DEF TypeOK, ReadsInside, StageInv, Walking, Limit, SkipCompression, Go, packet, Leave, Skip
<1>3. StageInv'
  BY <1>0, FieldsNat
  DEF TypeOK, StageInv, Walking, Limit, SkipCompression, Go, packet, Leave, Skip
<1>4. NameInv'
  BY <1>0
  DEF NameInv, Walking, SkipCompression, Go, packet, Leave, Skip
<1>5. NameInside'
  BY <1>0, FieldsNat
  DEF TypeOK, StageInv, Walking, NameInside, NameInv, Limit, SkipCompression, Go, packet, Leave, Skip
<1> QED BY <1>1, <1>2, <1>3, <1>4, <1>5 DEF IInv

LEMMA EnterExtensionsIInv == ASSUME IInv, EnterExtensions PROVE IInv'
<1>0. TypeOK /\ ReadsInside /\ NameInside /\ StageInv /\ NameInv
  BY DEF IInv
<1>1. TypeOK'
  BY <1>0, FieldsNat
  DEF TypeOK, ReadsInside, StageInv, Walking, Limit, Stages, EnterExtensions, Go, packet, Leave
<1>2. ReadsInside'
  BY <1>0, FieldsNat
  DEF TypeOK, ReadsInside, StageInv, Walking, Limit, EnterExtensions, Go, packet, Leave
<1>3. StageInv'
  BY <1>0, FieldsNat
  DEF TypeOK, StageInv, Walking, Limit, EnterExtensions, Go, packet, Leave
<1>4. NameInv'
  BY <1>0
  DEF NameInv, Walking, EnterExtensions, Go, packet, Leave
<1>5. NameInside'
  BY <1>0, FieldsNat
  DEF TypeOK, StageInv, Walking, NameInside, NameInv, Limit, EnterExtensions, Go, packet, Leave
<1> QED BY <1>1, <1>2, <1>3, <1>4, <1>5 DEF IInv

LEMMA NextExtensionIInv == ASSUME IInv, NextExtension PROVE IInv'
<1>0. TypeOK /\ ReadsInside /\ NameInside /\ StageInv /\ NameInv
  BY DEF IInv
<1>1. TypeOK'
  BY <1>0, FieldsNat
  DEF TypeOK, ReadsInside, StageInv, Walking, Limit, Stages, NextExtension, Go, packet
<1>2. ReadsInside'
  BY <1>0, FieldsNat
  DEF TypeOK, ReadsInside, StageInv, Walking, Limit, NextExtension, Go, packet
<1>3. StageInv'
  BY <1>0, FieldsNat
  DEF TypeOK, StageInv, Walking, Limit, NextExtension, Go, packet
<1>4. NameInv'
  BY <1>0
  DEF NameInv, Walking, NextExtension, Go, packet
<1>5. NameInside'
  BY <1>0, FieldsNat
  DEF TypeOK, StageInv, Walking, NameInside, NameInv, Limit, NextExtension, Go, packet
<1> QED BY <1>1, <1>2, <1>3, <1>4, <1>5 DEF IInv

LEMMA NoMoreExtensionsIInv == ASSUME IInv, NoMoreExtensions PROVE IInv'
<1>0. TypeOK /\ ReadsInside /\ NameInside /\ StageInv /\ NameInv
  BY DEF IInv
<1>1. TypeOK'
  BY <1>0
  DEF TypeOK, ReadsInside, StageInv, Walking, Limit, Stages, NoMoreExtensions, Go, packet, Leave
<1>2. ReadsInside'
  BY <1>0
  DEF TypeOK, ReadsInside, StageInv, Walking, Limit, NoMoreExtensions, Go, packet, Leave
<1>3. StageInv'
  BY <1>0
  DEF TypeOK, StageInv, Walking, Limit, NoMoreExtensions, Go, packet, Leave
<1>4. NameInv'
  BY <1>0
  DEF NameInv, Walking, NoMoreExtensions, Go, packet, Leave
<1>5. NameInside'
  BY <1>0
  DEF TypeOK, StageInv, Walking, NameInside, NameInv, Limit, NoMoreExtensions, Go, packet, Leave
<1> QED BY <1>1, <1>2, <1>3, <1>4, <1>5 DEF IInv

LEMMA ReadSniIInv == ASSUME IInv, ReadSni PROVE IInv'
<1>0. TypeOK /\ ReadsInside /\ NameInside /\ StageInv /\ NameInv
  BY DEF IInv
<1>1. TypeOK'
  BY <1>0, FieldsNat
  DEF TypeOK, ReadsInside, StageInv, Walking, Limit, Stages, ReadSni, Go, packet, Leave
<1>2. ReadsInside'
  BY <1>0, FieldsNat
  DEF TypeOK, ReadsInside, StageInv, Walking, Limit, ReadSni, Go, packet, Leave
<1>3. StageInv'
  BY <1>0, FieldsNat
  DEF TypeOK, StageInv, Walking, Limit, ReadSni, Go, packet, Leave, NoName
<1>4. NameInv'
  BY <1>0
  DEF NameInv, Walking, ReadSni, Go, packet, Leave
<1>5. NameInside'
  BY <1>0, FieldsNat
  DEF TypeOK, StageInv, Walking, NameInside, NameInv, Limit, ReadSni, Go, packet, Leave
<1> QED BY <1>1, <1>2, <1>3, <1>4, <1>5 DEF IInv

LEMMA TryHttpIInv == ASSUME IInv, TryHttp PROVE IInv'
<1>0. TypeOK /\ ReadsInside /\ NameInside /\ StageInv /\ NameInv
  BY DEF IInv
<1>1. TypeOK'
  BY <1>0
  DEF TypeOK, ReadsInside, StageInv, Walking, Limit, Stages, TryHttp, Go, packet, Leave
<1>2. ReadsInside'
  BY <1>0
  DEF TypeOK, ReadsInside, StageInv, Walking, Limit, TryHttp, Go, packet, Leave
<1>3. StageInv'
  BY <1>0
  DEF TypeOK, StageInv, Walking, Limit, TryHttp, Go, packet, Leave
<1>4. NameInv'
  BY <1>0
  DEF NameInv, Walking, TryHttp, Go, packet, Leave
<1>5. NameInside'
  BY <1>0
  DEF TypeOK, StageInv, Walking, NameInside, NameInv, Limit, TryHttp, Go, packet, Leave
<1> QED BY <1>1, <1>2, <1>3, <1>4, <1>5 DEF IInv

LEMMA ScanIInv == ASSUME IInv, Scan PROVE IInv'
<1>0. TypeOK /\ ReadsInside /\ NameInside /\ StageInv /\ NameInv
  BY DEF IInv
<1>1. TypeOK'
  BY <1>0
  DEF TypeOK, ReadsInside, StageInv, Walking, Limit, Stages, Scan, Go, packet
<1>2. ReadsInside'
  BY <1>0
  DEF TypeOK, ReadsInside, StageInv, Walking, Limit, Scan, Go, packet
<1>3. StageInv'
  BY <1>0
  DEF TypeOK, StageInv, Walking, Limit, Scan, Go, packet
<1>4. NameInv'
  BY <1>0
  DEF NameInv, Walking, Scan, Go, packet
<1>5. NameInside'
  BY <1>0
  DEF TypeOK, StageInv, Walking, NameInside, NameInv, Limit, Scan, Go, packet
<1> QED BY <1>1, <1>2, <1>3, <1>4, <1>5 DEF IInv

LEMMA NoHostIInv == ASSUME IInv, NoHost PROVE IInv'
<1>0. TypeOK /\ ReadsInside /\ NameInside /\ StageInv /\ NameInv
  BY DEF IInv
<1>1. TypeOK'
  BY <1>0
  DEF TypeOK, ReadsInside, StageInv, Walking, Limit, Stages, NoHost, Go, packet, Leave
<1>2. ReadsInside'
  BY <1>0
  DEF TypeOK, ReadsInside, StageInv, Walking, Limit, NoHost, Go, packet, Leave
<1>3. StageInv'
  BY <1>0
  DEF TypeOK, StageInv, Walking, Limit, NoHost, Go, packet, Leave
<1>4. NameInv'
  BY <1>0
  DEF NameInv, Walking, NoHost, Go, packet, Leave
<1>5. NameInside'
  BY <1>0
  DEF TypeOK, StageInv, Walking, NameInside, NameInv, Limit, NoHost, Go, packet, Leave
<1> QED BY <1>1, <1>2, <1>3, <1>4, <1>5 DEF IInv

LEMMA BlanksIInv == ASSUME IInv, Blanks PROVE IInv'
<1>0. TypeOK /\ ReadsInside /\ NameInside /\ StageInv /\ NameInv
  BY DEF IInv
<1>1. TypeOK'
  BY <1>0
  DEF TypeOK, ReadsInside, StageInv, Walking, Limit, Stages, Blanks, Go, packet
<1>2. ReadsInside'
  BY <1>0
  DEF TypeOK, ReadsInside, StageInv, Walking, Limit, Blanks, Go, packet
<1>3. StageInv'
  BY <1>0
  DEF TypeOK, StageInv, Walking, Limit, Blanks, Go, packet, NoName
<1>4. NameInv'
  BY <1>0
  DEF NameInv, Walking, Blanks, Go, packet
<1>5. NameInside'
  BY <1>0
  DEF TypeOK, StageInv, Walking, NameInside, NameInv, Limit, Blanks, Go, packet
<1> QED BY <1>1, <1>2, <1>3, <1>4, <1>5 DEF IInv

LEMMA ValueIInv == ASSUME IInv, Value PROVE IInv'
<1>0. TypeOK /\ ReadsInside /\ NameInside /\ StageInv /\ NameInv
  BY DEF IInv
<1>1. TypeOK'
  BY <1>0
  DEF TypeOK, ReadsInside, StageInv, Walking, Limit, Stages, Value, Go, packet, Leave
<1>2. ReadsInside'
  BY <1>0
  DEF TypeOK, ReadsInside, StageInv, Walking, Limit, Value, Go, packet, Leave
<1>3. StageInv'
  BY <1>0
  DEF TypeOK, StageInv, Walking, Limit, Value, Go, packet, Leave, NoName
<1>4. NameInv'
  BY <1>0
  DEF NameInv, Walking, Value, Go, packet, Leave
<1>5. NameInside'
  BY <1>0
  DEF TypeOK, StageInv, Walking, NameInside, NameInv, Limit, Value, Go, packet, Leave
<1> QED BY <1>1, <1>2, <1>3, <1>4, <1>5 DEF IInv

LEMMA TryDnsIInv == ASSUME IInv, TryDns PROVE IInv'
<1>0. TypeOK /\ ReadsInside /\ NameInside /\ StageInv /\ NameInv
  BY DEF IInv
<1>1. TypeOK'
  BY <1>0
  DEF TypeOK, ReadsInside, StageInv, Walking, Limit, Stages, TryDns, Go, packet, Leave
<1>2. ReadsInside'
  BY <1>0
  DEF TypeOK, ReadsInside, StageInv, Walking, Limit, TryDns, Go, packet, Leave
<1>3. StageInv'
  BY <1>0
  DEF TypeOK, StageInv, Walking, Limit, TryDns, Go, packet, Leave
<1>4. NameInv'
  BY <1>0
  DEF NameInv, Walking, TryDns, Go, packet, Leave
<1>5. NameInside'
  BY <1>0
  DEF TypeOK, StageInv, Walking, NameInside, NameInv, Limit, TryDns, Go, packet, Leave
<1> QED BY <1>1, <1>2, <1>3, <1>4, <1>5 DEF IInv

LEMMA LabelsIInv == ASSUME IInv, Labels PROVE IInv'
<1>0. TypeOK /\ ReadsInside /\ NameInside /\ StageInv /\ NameInv
  BY DEF IInv
<1>1. TypeOK'
  BY <1>0, FieldsNat
  DEF TypeOK, ReadsInside, StageInv, Walking, Limit, Stages, Labels, Go, packet, Leave
<1>2. ReadsInside'
  BY <1>0, FieldsNat
  DEF TypeOK, ReadsInside, StageInv, Walking, Limit, Labels, Go, packet, Leave
<1>3. StageInv'
  BY <1>0, FieldsNat
  DEF TypeOK, StageInv, Walking, Limit, Labels, Go, packet, Leave, NoName
<1>4. NameInv'
  BY <1>0
  DEF NameInv, Walking, Labels, Go, packet, Leave
<1>5. NameInside'
  BY <1>0, FieldsNat
  DEF TypeOK, StageInv, Walking, NameInside, NameInv, Limit, Labels, Go, packet, Leave
<1> QED BY <1>1, <1>2, <1>3, <1>4, <1>5 DEF IInv

-----------------------------------------------------------------------------
LEMMA NextIInv == IInv /\ [Next]_vars => IInv'
<1> SUFFICES ASSUME IInv, [Next]_vars PROVE IInv'
  OBVIOUS
<1>1. ASSUME UNCHANGED vars PROVE IInv'
  <2>1. TypeOK /\ ReadsInside /\ NameInside /\ StageInv /\ NameInv
    BY DEF IInv
  <2>2. TypeOK' /\ ReadsInside' /\ NameInside' /\ NameInv'
    BY <1>1, <2>1 DEF vars, TypeOK, ReadsInside, NameInside, NameInv, Limit
  <2>3. StageInv'
    BY <1>1, <2>1 DEF vars, StageInv, Limit
  <2> QED BY <2>2, <2>3 DEF IInv
<1>2. CASE Reader
  BY <1>2, ReadRecordIInv, EndOfCaptureIInv DEF Reader
<1>3. CASE Parser
  BY <1>3, TooShortIInv, ParseEthernetIInv, ParseIPv4IInv, ParseTCPIInv, ParseUDPIInv,
     DispatchIInv DEF Parser
<1>4. CASE Tls
  BY <1>4, TryTlsIInv, SkipSessionIInv, SkipCiphersIInv, SkipCompressionIInv,
     EnterExtensionsIInv, NextExtensionIInv, NoMoreExtensionsIInv, ReadSniIInv DEF Tls
<1>5. CASE Http
  BY <1>5, TryHttpIInv, ScanIInv, NoHostIInv, BlanksIInv, ValueIInv DEF Http
<1>6. CASE Dns
  BY <1>6, TryDnsIInv, LabelsIInv DEF Dns
<1>7. CASE Finished
  BY <1>1, <1>7 DEF Finished
<1> QED BY <1>1, <1>2, <1>3, <1>4, <1>5, <1>6, <1>7 DEF Next

LEMMA Invariance == Spec => []IInv
  BY InitIInv, NextIInv, PTL DEF Spec

-----------------------------------------------------------------------------
\* The walk's variables keep their types, and the payload is a part of the packet.
THEOREM TypeCorrect == Spec => []TypeOK
<1>1. IInv => TypeOK
  BY DEF IInv
<1> QED BY <1>1, Invariance, PTL

\* No step of the parser or of an extractor reads past the end of the packet,
\* for packets of every length and every value of the lengths inside them.
THEOREM ReadsInsideHolds == Spec => []ReadsInside
<1>1. IInv => ReadsInside
  BY DEF IInv
<1> QED BY <1>1, Invariance, PTL

\* A name is made of bytes of the payload, a server name of bytes of the
\* extensions.
THEOREM NameInsideHolds == Spec => []NameInside
<1>1. IInv => NameInside
  BY DEF IInv
<1> QED BY <1>1, Invariance, PTL

-----------------------------------------------------------------------------
(* The measure.  A step lowers its first component (the reader), its second *)
(* (every step that changes the stage, but for the two that go between      *)
(* searching for a host and looking at what may be one), its third or its   *)
(* fourth, and leaves those before it.                                      *)

LEMMA StagesLeftType == StagesLeft \in [Stages -> 0 .. 17]
  BY DEF StagesLeft, Stages

LEMMA MeasureOK == IInv => Left \in Measures(4)
<1> SUFFICES ASSUME IInv PROVE Left \in Measures(4)
  OBVIOUS
<1>1. TypeOK /\ StageInv
  BY DEF IInv
<1>2. fileLeft \in Nat
  BY <1>1, FileAssumption DEF TypeOK
<1>3. StagesLeft[stage] \in Nat
  BY <1>1, StagesLeftType DEF TypeOK
<1>4. stage = "blanks" => inner <= len
  BY <1>1 DEF TypeOK, StageInv
<1>5. len - (IF stage = "blanks" THEN inner ELSE offset) \in Nat
  BY <1>1, <1>4 DEF TypeOK
<1>6. (IF stage = "blanks" THEN len - offset ELSE len + 1) \in Nat
  BY <1>1 DEF TypeOK
<1> QED BY <1>2, <1>3, <1>5, <1>6 DEF Left, Measures

LEMMA FileRead == ASSUME fileLeft' < fileLeft PROVE Below(4, Left', Left)
<1>1. Left'[1] < Left[1]
  BY DEF Left
<1> QED BY <1>1 DEF Below

LEMMA StageLeft ==
    ASSUME fileLeft' = fileLeft, StagesLeft[stage'] < StagesLeft[stage]
    PROVE  Below(4, Left', Left)
<1>1. Left'[2] < Left[2] /\ Left'[1] = Left[1]
  BY DEF Left
<1> QED BY <1>1 DEF Below

LEMMA PlaceLeft ==
    ASSUME fileLeft' = fileLeft, StagesLeft[stage'] = StagesLeft[stage],
           len' - (IF stage' = "blanks" THEN inner' ELSE offset')
             < len - (IF stage = "blanks" THEN inner ELSE offset)
    PROVE  Below(4, Left', Left)
<1>1. Left'[3] < Left[3] /\ Left'[1] = Left[1] /\ Left'[2] = Left[2]
  BY DEF Left
<1> QED BY <1>1 DEF Below

LEMMA BlankLeft ==
    ASSUME fileLeft' = fileLeft, StagesLeft[stage'] = StagesLeft[stage],
           len' - (IF stage' = "blanks" THEN inner' ELSE offset')
             = len - (IF stage = "blanks" THEN inner ELSE offset),
           (IF stage' = "blanks" THEN len' - offset' ELSE len' + 1)
             < (IF stage = "blanks" THEN len - offset ELSE len + 1)
    PROVE  Below(4, Left', Left)
<1>1. Left'[4] < Left[4] /\ Left'[1] = Left[1] /\ Left'[2] = Left[2] /\ Left'[3] = Left[3]
  BY DEF Left
<1> QED BY <1>1 DEF Below

\* Which stages come later: a lower number of stages left.
LEMMA Later ==
    /\ StagesLeft["end"] < StagesLeft["capture"]
    /\ \A s \in {"ipv4", "capture"} : StagesLeft[s] < StagesLeft["ethernet"]
    /\ \A s \in {"tcp", "udp", "capture"} : StagesLeft[s] < StagesLeft["ipv4"]
    /\ \A s \in {"payload", "capture"} :
         StagesLeft[s] < StagesLeft["tcp"] /\ StagesLeft[s] < StagesLeft["udp"]
    /\ StagesLeft["tls"] < StagesLeft["payload"]
    /\ \A s \in {"hello", "http"} : StagesLeft[s] < StagesLeft["tls"]
    /\ \A s \in {"ciphers", "http"} : StagesLeft[s] < StagesLeft["hello"]
    /\ \A s \in {"compression", "http"} : StagesLeft[s] < StagesLeft["ciphers"]
    /\ \A s \in {"extensions", "http"} : StagesLeft[s] < StagesLeft["compression"]
    /\ \A s \in {"extension", "http"} : StagesLeft[s] < StagesLeft["extensions"]
    /\ \A s \in {"sni", "http"} : StagesLeft[s] < StagesLeft["extension"]
    /\ \A s \in {"capture", "http"} : StagesLeft[s] < StagesLeft["sni"]
    /\ \A s \in {"scan", "dns"} : StagesLeft[s] < StagesLeft["http"]
    /\ StagesLeft["dns"] < StagesLeft["scan"]
    /\ StagesLeft["value"] < StagesLeft["blanks"]
    /\ StagesLeft["capture"] < StagesLeft["value"]
    /\ \A s \in {"labels", "capture"} : StagesLeft[s] < StagesLeft["dns"]
    /\ StagesLeft["capture"] < StagesLeft["labels"]
    /\ StagesLeft["scan"] = StagesLeft["blanks"]
  BY DEF StagesLeft

LEMMA ReaderBelow == ASSUME IInv, Reader PROVE Below(4, Left', Left)
<1>1. CASE ReadRecord
  BY <1>1, FileRead, FileAssumption DEF IInv, TypeOK, ReadRecord
<1>2. CASE EndOfCapture
  BY <1>2, StageLeft, Later DEF EndOfCapture, Go
<1> QED BY <1>1, <1>2 DEF Reader

LEMMA ParserBelow == ASSUME Parser PROVE Below(4, Left', Left)
<1>1. fileLeft' = fileLeft
  BY DEF Parser, TooShort, ParseEthernet, ParseIPv4, ParseTCP, ParseUDP, Dispatch, packet
<1>2. StagesLeft[stage'] < StagesLeft[stage]
  <2>1. CASE TooShort
    <3>1. stage \in {"ethernet", "ipv4", "tcp", "udp"} /\ stage' = "capture"
      BY <2>1 DEF TooShort, HeaderSize, Leave, Go
    <3> QED BY <3>1, Later
  <2>2. CASE ParseEthernet
    BY <2>2, Later DEF ParseEthernet, Go
  <2>3. CASE ParseIPv4
    BY <2>3, Later DEF ParseIPv4, Go
  <2>4. CASE ParseTCP
    BY <2>4, Later DEF ParseTCP, Go
  <2>5. CASE ParseUDP
    BY <2>5, Later DEF ParseUDP, Go
  <2>6. CASE Dispatch
    BY <2>6, Later DEF Dispatch, Leave, Go
  <2> QED BY <2>1, <2>2, <2>3, <2>4, <2>5, <2>6 DEF Parser
<1> QED BY <1>1, <1>2, StageLeft

LEMMA TlsBelow == ASSUME IInv, Tls PROVE Below(4, Left', Left)
<1>0. UNCHANGED packet
  BY DEF Tls, TryTls, SkipSession, SkipCiphers, SkipCompression, EnterExtensions,
         NextExtension, NoMoreExtensions, ReadSni
<1>1. CASE NextExtension
  <2>1. \/ stage = "extension" /\ stage' \in {"sni", "http"}
        \/ stage = "extension" /\ stage' = "extension" /\ offset' > offset
    BY <1>1, FieldsNat DEF NextExtension, Go, IInv, TypeOK
  <2>2. CASE stage = "extension" /\ stage' \in {"sni", "http"}
    BY <1>0, <2>2, StageLeft, Later DEF packet
  <2>3. CASE stage = "extension" /\ stage' = "extension" /\ offset' > offset
    <3>1. offset \in Nat /\ offset' \in Nat /\ len \in Nat
      BY <1>1, FieldsNat DEF NextExtension, Go, IInv, TypeOK
    <3>2. fileLeft' = fileLeft /\ len' = len /\ stage' = stage
      BY <1>0, <2>3 DEF packet
    <3>3. len' - offset' < len - offset
      <4>1. \A m, a, b \in Nat : b > a => m - b < m - a
        OBVIOUS
      <4> QED BY <2>3, <3>1, <3>2, <4>1
    <3>4. stage # "blanks" /\ stage' # "blanks" /\ StagesLeft[stage'] = StagesLeft[stage]
      BY <2>3
    <3> QED BY <3>2, <3>3, <3>4, PlaceLeft
  <2> QED BY <2>1, <2>2, <2>3
<1>2. CASE ~NextExtension
  <2>1. StagesLeft[stage'] < StagesLeft[stage]
    <3>1. CASE TryTls
      BY <3>1, Later DEF TryTls, Leave, Go
    <3>2. CASE SkipSession
      BY <3>2, Later DEF SkipSession, Skip, Leave, Go
    <3>3. CASE SkipCiphers
      BY <3>3, Later DEF SkipCiphers, Skip, Leave, Go
    <3>4. CASE SkipCompression
      BY <3>4, Later DEF SkipCompression, Skip, Leave, Go
    <3>5. CASE EnterExtensions
      BY <3>5, Later DEF EnterExtensions, Leave, Go
    <3>6. CASE NoMoreExtensions
      BY <3>6, Later DEF NoMoreExtensions, Leave, Go
    <3>7. CASE ReadSni
      BY <3>7, Later DEF ReadSni, Leave, Go
    <3> QED BY <1>2, <3>1, <3>2, <3>3, <3>4, <3>5, <3>6, <3>7 DEF Tls
  <2> QED BY <1>0, <2>1, StageLeft DEF packet
<1> QED BY <1>1, <1>2

\* The search for a host goes on behind the last "Host:" it has seen, so the
\* third component falls although the walk goes back.
LEMMA HttpBelow == ASSUME IInv, Http PROVE Below(4, Left', Left)
<1>0. /\ UNCHANGED packet
      /\ offset \in Nat /\ len \in Nat /\ inner \in Nat /\ offset <= len
  BY DEF Http, TryHttp, Scan, NoHost, Blanks, Value, IInv, TypeOK
<1>1. CASE TryHttp
  BY <1>0, <1>1, StageLeft, Later DEF TryHttp, Leave, Go, packet
<1>2. CASE Scan
  <2>1. \/ stage = "scan" /\ stage' = "scan" /\ offset' = offset + 1
        \/ /\ stage = "scan" /\ stage' = "blanks"
           /\ offset' = offset + 5 /\ inner' = offset
    BY <1>2 DEF Scan, Go
  <2>2. CASE stage = "scan" /\ stage' = "scan" /\ offset' = offset + 1
    BY <1>0, <2>2, PlaceLeft DEF packet
  <2>3. CASE /\ stage = "scan" /\ stage' = "blanks"
             /\ offset' = offset + 5 /\ inner' = offset
    BY <1>0, <2>3, BlankLeft, Later DEF packet
  <2> QED BY <2>1, <2>2, <2>3
<1>3. CASE NoHost
  BY <1>0, <1>3, StageLeft, Later DEF NoHost, Leave, Go, packet
<1>4. CASE Blanks
  <2>1. \/ stage = "blanks" /\ stage' = "blanks" /\ offset' = offset + 1 /\ inner' = inner
        \/ stage = "blanks" /\ stage' = "scan" /\ offset' = inner + 1
        \/ stage = "blanks" /\ stage' = "value"
    BY <1>4 DEF Blanks, Go
  <2>2. CASE stage = "blanks" /\ stage' = "blanks" /\ offset' = offset + 1 /\ inner' = inner
    BY <1>0, <2>2, BlankLeft DEF packet
  <2>3. CASE stage = "blanks" /\ stage' = "scan" /\ offset' = inner + 1
    BY <1>0, <2>3, PlaceLeft, Later DEF packet
  <2>4. CASE stage = "blanks" /\ stage' = "value"
    BY <1>0, <2>4, StageLeft, Later DEF packet
  <2> QED BY <2>1, <2>2, <2>3, <2>4
<1>5. CASE Value
  <2>1. \/ stage = "value" /\ stage' = "value" /\ offset' = offset + 1
        \/ stage = "value" /\ stage' = "capture"
    BY <1>5 DEF Value, Leave, Go
  <2> QED BY <1>0, <2>1, PlaceLeft, StageLeft, Later DEF packet
<1> QED BY <1>1, <1>2, <1>3, <1>4, <1>5 DEF Http

LEMMA DnsBelow == ASSUME IInv, Dns PROVE Below(4, Left', Left)
<1>0. UNCHANGED packet /\ offset \in Nat /\ len \in Nat
  BY DEF Dns, TryDns, Labels, IInv, TypeOK
<1>1. CASE TryDns
  BY <1>0, <1>1, StageLeft, Later DEF TryDns, Leave, Go, packet
<1>2. CASE Labels
  <2>1. \/ stage = "labels" /\ stage' = "labels" /\ offset' \in Nat /\ offset' > offset
        \/ stage = "labels" /\ stage' = "capture"
    BY <1>0, <1>2, FieldsNat DEF Labels, Leave, Go
  <2> QED BY <1>0, <2>1, PlaceLeft, StageLeft, Later DEF packet
<1> QED BY <1>1, <1>2 DEF Dns

\* Every walk ends: each step of the reader, of the parser or of an extractor
\* lowers the measure, for every value of the lengths it follows.
THEOREM WalkAdvancesHolds == Spec => WalkAdvances
<1>1. IInv' => (Left \in Measures(4))'
  BY MeasureOK, PTL
<1>2. IInv /\ [Next]_vars => [Left' \in Measures(4) /\ Below(4, Left', Left)]_vars
  <2> SUFFICES ASSUME IInv, [Next]_vars, ~ UNCHANGED vars
               PROVE  Left' \in Measures(4) /\ Below(4, Left', Left)
    OBVIOUS
  <2>1. Left' \in Measures(4)
    BY <1>1, NextIInv DEF Measures
  <2>2. CASE Reader \/ Parser
    BY <2>1, <2>2, ReaderBelow, ParserBelow
  <2>3. CASE Tls \/ Http \/ Dns
    BY <2>1, <2>3, TlsBelow, HttpBelow, DnsBelow
  <2>4. CASE Finished
    BY <2>4 DEF Finished
  <2> QED BY <2>2, <2>3, <2>4 DEF Next
<1> QED BY <1>2, Invariance, PTL DEF Spec, WalkAdvances

\* No measure of Descent can be lowered for ever: what ends the walks.
THEOREM NoEndlessDescent ==
    \A n \in Nat : ~ \E f \in [Nat -> Measures(n)] : \A i \in Nat : Below(n, f[i + 1], f[i])
<1> TAKE n \in Nat
<1> DEFINE R == {p \in Nat \X Nat : p[1] < p[2]}
           L == LexProductOrdering(R, Nat, n)
<1>1. IsWellFoundedOn(L, [1 .. n -> Nat])
  <2>1. IsWellFoundedOn(R, Nat)
    BY NatLessThanWellFounded DEF OpToRel
  <2> HIDE DEF R
  <2> QED BY <2>1, WFLexProductOrdering
<1>2. ASSUME NEW a \in Measures(n), NEW b \in Measures(n), Below(n, a, b)
      PROVE  <<a, b>> \in L
  <2>1. PICK k \in 1 .. n : a[k] < b[k] /\ \A j \in 1 .. k - 1 : a[j] = b[j]
    BY <1>2 DEF Below
  <2>2. a[k] \in Nat /\ b[k] \in Nat
    BY DEF Measures
  <2>3. <<a[k], b[k]>> \in R
    BY <2>1, <2>2
  <2> HIDE DEF R
  <2> QED BY <2>1, <2>3 DEF LexProductOrdering, Measures
<1> HIDE DEF L
<1>3. ASSUME NEW f \in [Nat -> Measures(n)], \A i \in Nat : Below(n, f[i + 1], f[i])
      PROVE  FALSE
  <2>1. \A i \in Nat : <<f[i + 1], f[i]>> \in L
    BY <1>2, <1>3
  <2> QED BY <1>1, <2>1 DEF IsWellFoundedOn, Measures
<1> QED BY <1>3

=============================================================================

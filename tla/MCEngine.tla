------------------------------ MODULE MCEngine ------------------------------
(***************************************************************************)
(* Rules files of at most two lines, well formed and not, in any order;    *)
(* captures in both byte orders, and such as end early or cannot be read.  *)
(* Each packet is one that some line is about, or nearly.                  *)
(***************************************************************************)
EXTENDS Engine, SequencesExt

CONSTANT OtherPacket       \* one that is not TCP or UDP over IPv4

MCNames == {"", "www.youtube.com", "a.tiktok.com", "a.tiktok.community", "x.com"}
MCLower == [n \in MCNames |-> n]
MCFinds == [n \in MCNames |->
              CASE n = "" -> {}
                [] n = "www.youtube.com" -> {"youtube"}
                [] n = "a.tiktok.com" -> {"tiktok", ".tiktok.com"}
                [] n = "a.tiktok.community" -> {"tiktok", ".tiktok.com"}
                [] n = "x.com" -> {"x.com"}]
MCEndsWith == [n \in MCNames |-> IF n = "a.tiktok.com" THEN {".tiktok.com"} ELSE {}]
MCBits == [n \in 0 .. MaxOctet |-> {b \in 0 .. 15 : (n \div 2^b) % 2 = 1}]

APacket(src, port, name) ==
    [src |-> src, dst_port |-> port, app |-> SniToAppType(name), name |-> name]

Video     == APacket(<<10, 0, 0, 1>>, 443, "www.youtube.com")
Clip      == APacket(<<1, 0, 0, 10>>, 443, "a.tiktok.com")
Community == APacket(<<1, 0, 0, 10>>, 443, "a.tiktok.community")
Post      == APacket(<<9, 255, 0, 1>>, 80, "x.com")
Plain     == APacket(<<10, 0, 1, 0>>, 80, "")
MCPackets == {Video, Clip, Community, Post, Plain}
MCData == MCPackets \cup {OtherPacket}

TheLines ==
    {[block_ip |-> ip] : ip \in {<<10, 0, 0, 1>>, <<10, 0, 1>>, <<9, 256, 0, 1>>,
                                 <<10, 0, 0, 1, 5>>}}
      \cup {[block_app |-> name] : name \in {"YouTube", "Twitter", "youtube"}}
      \cup {[block_domain |-> [wild |-> TRUE, text |-> ".tiktok.com"]],
            [block_domain |-> [wild |-> FALSE, text |-> "tiktok"]]}
      \cup {[block_port |-> n] : n \in {80, 65616, -1}}
      \cup {[skipped |-> why] : why \in {"bad_port", "blank"}}
MCRuleFiles == BoundedSeq(TheLines, 2)

\* A record of the given size whose header announces length, in byte order as.
ARecord(as(_), packet, length, size) ==
    [header |-> [ts_sec |-> as(<<1, 2, 3, 4>>), ts_usec |-> as(<<0, 5, 6, 7>>),
                 incl_len |-> as(NumberWord(length)), orig_len |-> as(NumberWord(1500))],
     packet |-> packet, size |-> size]
Same(w) == w
Native(packet, size) == ARecord(Same, packet, size, size)
Swapped(packet, size) == ARecord(SwapBytes32, packet, size, size)

MCCaptures ==
    {NoFile,
     [magic |-> <<0, 0, 0, 1>>, records |-> <<>>],
     [magic |-> Magic, records |-> <<Native(Video, 60), Native(OtherPacket, 65536), Native(Clip, 90)>>],
     [magic |-> Magic, records |-> <<Native(Post, 54), Native(Plain, 42), ARecord(Same, Clip, 90, 89)>>],
     [magic |-> Magic, records |-> <<Native(Community, 70), ARecord(Same, Video, 65537, 65537),
                                     Native(Clip, 90)>>],
     [magic |-> Magic, records |-> <<ARecord(Same, Plain, 0, 0)>>],
     [magic |-> MagicSwapped, records |-> <<Swapped(Post, 54), Swapped(Video, 65536)>>]}

=============================================================================

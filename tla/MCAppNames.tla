----------------------------- MODULE MCAppNames -----------------------------
(***************************************************************************)
(* Rules by application against host names of the applications' own, as    *)
(* the repository's generated capture has them.                            *)
(***************************************************************************)
EXTENDS Engine

\* The application each host belongs to.
Owner == [n \in {"www.youtube.com", "www.netflix.com", "www.microsoft.com", "github.com"} |->
            CASE n = "www.youtube.com" -> "YOUTUBE"
              [] n = "www.netflix.com" -> "NETFLIX"
              [] n = "www.microsoft.com" -> "MICROSOFT"
              [] n = "github.com" -> "GITHUB"]

MCNames == {""} \cup DOMAIN Owner
MCLower == [n \in MCNames |-> n]
\* The texts of Aliases that occur in them: "netflix.com" ends in "x.com",
\* "microsoft.com" has a "t.co".
MCFinds == [n \in MCNames |->
              CASE n = "" -> {}
                [] n = "www.youtube.com" -> {"youtube"}
                [] n = "www.netflix.com" -> {"netflix", "x.com"}
                [] n = "www.microsoft.com" -> {"microsoft", "t.co"}
                [] n = "github.com" -> {"github"}]
MCEndsWith == [n \in MCNames |-> {}]
MCBits == [n \in 0 .. MaxOctet |-> {b \in 0 .. 7 : (n \div 2^b) % 2 = 1}]

PacketTo(name) ==
    [src |-> <<10, 0, 0, 1>>, dst_port |-> 443, app |-> SniToAppType(name), name |-> name]
MCPackets == {PacketTo(n) : n \in DOMAIN Owner}

MCRuleFiles == {<<[block_app |-> NameOf[Owner[n]]]>> : n \in DOMAIN Owner}

CaptureOf(packet) ==
    [magic |-> Magic,
     records |-> <<[header |-> [ts_sec |-> NumberWord(1), ts_usec |-> NumberWord(2),
                                incl_len |-> NumberWord(60), orig_len |-> NumberWord(60)],
                    packet |-> packet, size |-> 60]>>]
MCCaptures == {CaptureOf(p) : p \in MCPackets}

\* A rule that blocks an application keeps the packets to that application's
\* own host out of the output.
AppRulesBlockTheirApp ==
    rulesFile \in RuleFiles =>
        \A k \in DOMAIN written, i \in DOMAIN rulesFile :
            rulesFile[i].block_app # NameOf[Owner[PacketAt(written[k]).name]]

=============================================================================

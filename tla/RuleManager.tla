----------------------------- MODULE RuleManager -----------------------------
(***************************************************************************)
(* The rules (rule_manager.cpp): how loadRules turns the lines of a file   *)
(* into sets of addresses, applications, patterns and ports, and what      *)
(* shouldBlock makes of them.                                              *)
(*                                                                         *)
(* A line is what is left of it without comment and white space.  The      *)
(* number of rules that loadRules returns is left out: main ignores it.    *)
(* main loads the rules before any thread can read them.                   *)
(***************************************************************************)
EXTENDS AppNames

CONSTANTS RuleFiles,    \* rules files: sequences of lines
          NoRules,      \* a file that cannot be opened
          MaxOctet,     \* bound: the greatest number written between two dots
          Bits,         \* Bits[n]: the ones of n in binary
          Packets       \* the packets that occur, of TCP or UDP over IPv4

Octets == 0 .. 255
Address == [1 .. 4 -> Octets]          \* in the order they are written and sent

\* A uint32_t, as the set of its ones, and a port.
Uint32 == SUBSET (0 .. 31)
Port == 0 .. 65535

\* A pattern "*.<rest>" is wild and its text is what follows the star.
Pattern == [wild : BOOLEAN, text : STRING]

\* The lines that reach a setter, by their directive.  stoul takes any integer,
\* a sign included; what it refuses, and what is no directive, is skipped.
IPLines     == [block_ip : Seq(0 .. MaxOctet)]
AppLines    == [block_app : STRING]
DomainLines == [block_domain : Pattern]
PortLines   == [block_port : Int]
OtherLines  == [skipped : {"bad_port", "unknown", "blank"}]
Lines == IPLines \cup AppLines \cup DomainLines \cup PortLines \cup OtherLines

\* A packet, with the application and the name of its flow when it is decided.
Packet == [src : Address, dst_port : Port, app : Apps, name : Names]

ASSUME RuleFilesAssumption == RuleFiles \subseteq Seq(Lines) /\ NoRules \notin Seq(Lines)
ASSUME BitsAssumption ==
    /\ MaxOctet \in Nat /\ MaxOctet >= 255
    /\ Bits \in [0 .. MaxOctet -> SUBSET Nat]
    /\ \A n \in Octets : Bits[n] \subseteq 0 .. 7
    /\ \A m, n \in Octets : Bits[m] = Bits[n] => m = n
ASSUME PacketsAssumption == Packets \subseteq Packet

VARIABLES
    rulesFile,         \* the file named by --rules
    line,              \* lines read so far
    rulesPc,           \* "closed", "loading", "loaded", or "absent"
    blocked_ips,
    blocked_apps, blocked_domains, blocked_ports

ruleSets == <<blocked_ips, blocked_apps, blocked_domains, blocked_ports>>
ruleVars == <<rulesFile, line, rulesPc, ruleSets>>

RulesInit ==
    /\ rulesFile \in RuleFiles \cup {NoRules} /\ line = 0 /\ rulesPc = "closed"
    /\ blocked_ips = {} /\ blocked_apps = {} /\ blocked_domains = {} /\ blocked_ports = {}

-----------------------------------------------------------------------------
(* Conversions.                                                            *)

\* static_cast<uint32_t>(octet) << shift.  Past the fourth octet the shift is
\* negative, which C++ leaves undefined: x86 shifts modulo 32, other machines
\* shift everything out.
Shifted(octet, shift, modulo) ==
    IF shift >= 0 THEN {b \in 0 .. 31 : b - shift \in Bits[octet]}
    ELSE IF modulo THEN {b \in 0 .. 31 : b - (shift % 32) \in Bits[octet]} ELSE {}

\* Mutant of ParseIPString: shift counts up from 0 instead of down from 24.
ParseIPStringReversed(octets, modulo) ==
    UNION {Shifted(octets[i], 8 * (i - 1), modulo) : i \in DOMAIN octets}

ParseIPString(octets, modulo) ==
    UNION {Shifted(octets[i], 24 - 8 * (i - 1), modulo) : i \in DOMAIN octets}

\* netToHost32 on the source address of a packet.
NetToHost32(src) ==
    {b \in 0 .. 31 : \E i \in 1 .. 4 : b - 8 * (4 - i) \in Bits[src[i]]}

\* static_cast<uint16_t>(std::stoul(value)).
Uint16(n) == n % 65536

\* The application blockApp(name) blocks; no application has the name "Twitter".
Named(name) == {app \in Apps : NameOf[app] = name \/ (app = "TWITTER" /\ name = "Twitter")}

-----------------------------------------------------------------------------
(* loadRules.                                                              *)

OpenRules ==
    /\ rulesPc = "closed"
    /\ rulesPc' = IF rulesFile = NoRules THEN "absent" ELSE "loading"
    /\ UNCHANGED <<rulesFile, line, ruleSets>>

NextLine == rulesFile[line + 1]

\* The next line is read, and is one of the given kind.
ReadLine(kind) ==
    /\ rulesPc = "loading" /\ line < Len(rulesFile) /\ NextLine \in kind
    /\ line' = line + 1
    /\ UNCHANGED <<rulesFile, rulesPc>>

LoadIP ==
    /\ ReadLine(IPLines)
    /\ \E modulo \in BOOLEAN :
         blocked_ips' = blocked_ips \cup {ParseIPString(NextLine.block_ip, modulo)}
    /\ UNCHANGED <<blocked_apps, blocked_domains, blocked_ports>>

LoadApp ==
    /\ ReadLine(AppLines)
    /\ blocked_apps' = blocked_apps \cup Named(NextLine.block_app)
    /\ UNCHANGED <<blocked_ips, blocked_domains, blocked_ports>>

LoadDomain ==
    /\ ReadLine(DomainLines)
    /\ blocked_domains' = blocked_domains \cup {NextLine.block_domain}
    /\ UNCHANGED <<blocked_ips, blocked_apps, blocked_ports>>

LoadPort ==
    /\ ReadLine(PortLines)
    /\ blocked_ports' = blocked_ports \cup {Uint16(NextLine.block_port)}
    /\ UNCHANGED <<blocked_ips, blocked_apps, blocked_domains>>

\* Mutant of SkipLine: the exception of stoul is not caught in the loop, but
\* around it.
SkipLineAndRest ==
    /\ rulesPc = "loading" /\ line < Len(rulesFile) /\ NextLine \in OtherLines
    /\ line' = IF NextLine.skipped = "bad_port" THEN Len(rulesFile) ELSE line + 1
    /\ UNCHANGED <<rulesFile, rulesPc, ruleSets>>

SkipLine == ReadLine(OtherLines) /\ UNCHANGED ruleSets

LoadLine == LoadIP \/ LoadApp \/ LoadDomain \/ LoadPort \/ SkipLine

EndOfRules ==
    /\ rulesPc = "loading" /\ line = Len(rulesFile)
    /\ rulesPc' = "loaded"
    /\ UNCHANGED <<rulesFile, line, ruleSets>>

-----------------------------------------------------------------------------
(* shouldBlock.                                                            *)

Matches(pattern, name) ==
    IF pattern.wild THEN pattern.text \in EndsWith[name] ELSE pattern.text \in Finds[name]

IsDomainBlocked(name) == \E pattern \in blocked_domains : Matches(pattern, name)

ShouldBlock(p) ==
    IF \/ NetToHost32(p.src) \in blocked_ips \/ p.dst_port \in blocked_ports
       \/ p.app \in blocked_apps \/ (p.name # EmptyName /\ IsDomainBlocked(p.name))
    THEN "DROP" ELSE "FORWARD"

-----------------------------------------------------------------------------
(* Properties.                                                             *)

RulesTypeOK ==
    /\ rulesFile \in RuleFiles \cup {NoRules}
    /\ rulesPc \in {"closed", "loading", "loaded", "absent"}
    /\ rulesPc \in {"loading", "loaded"} => rulesFile \in RuleFiles
    /\ rulesPc \in {"closed", "absent"} => line = 0
    /\ line \in Nat /\ (rulesPc \in {"loading", "loaded"} => line <= Len(rulesFile))
    /\ blocked_ips \subseteq Uint32 /\ blocked_apps \subseteq Apps
    /\ blocked_domains \subseteq Pattern /\ blocked_ports \subseteq Port

\* What the head of rules.conf says a line asks for: packets from this source
\* address, of this application, with a name that contains this text or ends
\* like this wildcard, to this port.
AsksFor(l, p) ==
    \/ l \in IPLines /\ l.block_ip = p.src
    \/ l \in AppLines /\ l.block_app \in IF p.app = "TWITTER" THEN {"Twitter/X", "Twitter"}
                                                             ELSE {NameOf[p.app]}
    \/ l \in DomainLines /\ p.name # EmptyName
         /\ l.block_domain.text \in IF l.block_domain.wild THEN EndsWith[p.name]
                                                           ELSE Finds[p.name]
    \/ l \in PortLines /\ l.block_port = p.dst_port

\* A line whose numbers are those of an address or of a port.
WellFormed(l) == /\ l \in IPLines => l.block_ip \in Address
                 /\ l \in PortLines => l.block_port \in Port

\* Once loaded, every line has its effect, whatever lines surround it: wrong
\* ones are skipped, and neither end the loading nor undo another.
RulesInForce ==
    rulesPc = "loaded" =>
        \A i \in DOMAIN rulesFile, p \in Packets :
            AsksFor(rulesFile[i], p) => ShouldBlock(p) = "DROP"

\* In a file of well-formed lines nothing is blocked that no line asks for:
\* no conversion makes one address, port or pattern into another.
NothingElseBlocked ==
    (rulesFile \in RuleFiles /\ \A i \in DOMAIN rulesFile : WellFormed(rulesFile[i])) =>
        \A p \in Packets :
            ShouldBlock(p) = "DROP" => \E i \in DOMAIN rulesFile : AsksFor(rulesFile[i], p)

=============================================================================

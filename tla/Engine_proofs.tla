---------------------------- MODULE Engine_proofs ----------------------------
(***************************************************************************)
(* Engine for every rules file, every capture and all packets.             *)
(*                                                                         *)
(* The sets of rules hold what the lines read so far make of them, and     *)
(* nothing else; the conversions on both sides agree on addresses and on   *)
(* ports; packets are decided only when the last line has been read.  The  *)
(* output holds what its history says, header by header.                   *)
(***************************************************************************)
EXTENDS Engine, TLAPS

\* A line has had its effect on the sets.
Effect(l) ==
    /\ l \in IPLines => \E modulo \in BOOLEAN : ParseIPString(l.block_ip, modulo) \in blocked_ips
    /\ l \in AppLines => Named(l.block_app) \subseteq blocked_apps
    /\ l \in DomainLines => l.block_domain \in blocked_domains
    /\ l \in PortLines => Uint16(l.block_port) \in blocked_ports

Read == {rulesFile[i] : i \in 1 .. line}

\* Nothing is in the sets but for a line.
Caused ==
    /\ \A a \in blocked_ips :
         \E l \in Read, modulo \in BOOLEAN : l \in IPLines /\ a = ParseIPString(l.block_ip, modulo)
    /\ \A a \in blocked_apps : \E l \in Read : l \in AppLines /\ a \in Named(l.block_app)
    /\ \A a \in blocked_domains : \E l \in Read : l \in DomainLines /\ a = l.block_domain
    /\ \A a \in blocked_ports : \E l \in Read : l \in PortLines /\ a = Uint16(l.block_port)

RulesInv ==
    /\ \A i \in 1 .. line : Effect(rulesFile[i])
    /\ Caused
    /\ rulesPc = "absent" => rulesFile = NoRules
    /\ rulesPc = "loaded" => line = Len(rulesFile)

-----------------------------------------------------------------------------
(* Conversions.                                                            *)

LEMMA FilesAreLines == ASSUME rulesFile \in RuleFiles
                       PROVE  rulesFile # NoRules /\ rulesFile \in Seq(Lines)
  BY RuleFilesAssumption

LEMMA KindsApart == ASSUME NEW l
                    PROVE  /\ l \in IPLines => l \notin AppLines \cup DomainLines \cup PortLines \cup OtherLines
                           /\ l \in AppLines => l \notin DomainLines \cup PortLines \cup OtherLines
                           /\ l \in DomainLines => l \notin PortLines \cup OtherLines
                           /\ l \in PortLines => l \notin OtherLines
<1>1. l \in IPLines => DOMAIN l = {"block_ip"}
  BY DEF IPLines
<1>2. l \in AppLines => DOMAIN l = {"block_app"}
  BY DEF AppLines
<1>3. l \in DomainLines => DOMAIN l = {"block_domain"}
  BY DEF DomainLines
<1>4. l \in PortLines => DOMAIN l = {"block_port"}
  BY DEF PortLines
<1>5. l \in OtherLines => DOMAIN l = {"skipped"}
  BY DEF OtherLines
<1> QED BY <1>1, <1>2, <1>3, <1>4, <1>5

\* The address written in a line and the one read from a packet are the same
\* number if they are the same address, on every machine.
LEMMA ParseIsNetToHost ==
    ASSUME NEW a \in Address, NEW modulo \in BOOLEAN
    PROVE  ParseIPString(a, modulo) = NetToHost32(a)
<1>1. DOMAIN a = 1 .. 4
  BY DEF Address
<1>2. \A i \in 1 .. 4 : Shifted(a[i], 24 - 8 * (i - 1), modulo)
                          = {b \in 0 .. 31 : b - 8 * (4 - i) \in Bits[a[i]]}
  <2> TAKE i \in 1 .. 4
  <2>1. 24 - 8 * (i - 1) >= 0 /\ 24 - 8 * (i - 1) = 8 * (4 - i)
    OBVIOUS
  <2> QED BY <2>1 DEF Shifted
<1> QED BY <1>1, <1>2 DEF ParseIPString, NetToHost32

\* Two addresses are not the same number.
LEMMA NetToHostInjective ==
    ASSUME NEW a \in Address, NEW c \in Address, NetToHost32(a) = NetToHost32(c)
    PROVE  a = c
<1>1. ASSUME NEW e \in Address, NEW f \in Address, NetToHost32(e) = NetToHost32(f),
             NEW i \in 1 .. 4, NEW x \in Bits[e[i]]
      PROVE  x \in Bits[f[i]]
  <2>1. x \in 0 .. 7
    <3>1. e[i] \in Octets
      BY DEF Address
    <3> QED BY <3>1, BitsAssumption
  <2>2. x + 8 * (4 - i) \in 0 .. 31
    BY <2>1
  <2>3. (x + 8 * (4 - i)) - 8 * (4 - i) = x
    BY <2>1
  <2>4. x + 8 * (4 - i) \in NetToHost32(f)
    BY <1>1, <2>2, <2>3 DEF NetToHost32
  <2>5. PICK j \in 1 .. 4 : (x + 8 * (4 - i)) - 8 * (4 - j) \in Bits[f[j]]
    BY <2>4 DEF NetToHost32
  <2>6. Bits[f[j]] \subseteq 0 .. 7
    <3>1. f[j] \in Octets
      BY DEF Address
    <3> QED BY <3>1, BitsAssumption
  <2>7. j = i
    <3>1. (x + 8 * (4 - i)) - 8 * (4 - j) \in 0 .. 7
      BY <2>5, <2>6
    <3> QED BY <2>1, <3>1
  <2> QED BY <2>3, <2>5, <2>7
<1>2. \A i \in 1 .. 4 : Bits[a[i]] = Bits[c[i]]
  BY <1>1
<1>3. \A i \in 1 .. 4 : a[i] \in Octets /\ c[i] \in Octets
  BY DEF Address
<1>4. \A i \in 1 .. 4 : a[i] = c[i]
  BY <1>2, <1>3, BitsAssumption
<1> QED BY <1>4 DEF Address

LEMMA PortIsPort == ASSUME NEW n \in Port PROVE Uint16(n) = n
<1>1. n \in Int /\ 0 <= n /\ n < 65536
  BY DEF Port
<1>2. n % 65536 = n
  BY <1>1, SMTT(30)
<1> QED BY <1>2 DEF Uint16

LEMMA UintIsPort == ASSUME NEW n \in Int PROVE Uint16(n) \in Port
  BY DEF Uint16, Port

\* The names of an application that a line can use are those that select it.
LEMMA NamedIs ==
    ASSUME NEW app \in Apps, NEW name
    PROVE  app \in Named(name)
              <=> name \in IF app = "TWITTER" THEN {"Twitter/X", "Twitter"} ELSE {NameOf[app]}
<1>1. NameOf["TWITTER"] = "Twitter/X"
  BY DEF NameOf
<1> QED BY <1>1 DEF Named

-----------------------------------------------------------------------------
(* Loading.                                                                *)

LoadStep == OpenRules \/ LoadLine \/ EndOfRules

LEMMA NextIsLine ==
    ASSUME RulesTypeOK, NEW kind, ReadLine(kind)
    PROVE  /\ rulesFile \in RuleFiles
           /\ NextLine \in Lines /\ NextLine = rulesFile[line + 1]
           /\ line \in Nat /\ line + 1 \in 1 .. Len(rulesFile) /\ line' = line + 1
<1>1. rulesFile \in RuleFiles /\ line \in Nat /\ line < Len(rulesFile) /\ line' = line + 1
  BY DEF RulesTypeOK, ReadLine
<1>2. rulesFile \in Seq(Lines)
  BY <1>1, FilesAreLines
<1>3. line + 1 \in 1 .. Len(rulesFile)
  BY <1>1, <1>2
<1>4. rulesFile[line + 1] \in Lines
  BY <1>2, <1>3
<1> QED BY <1>1, <1>3, <1>4 DEF NextLine

LEMMA RulesTypeStep ==
    ASSUME RulesTypeOK, [LoadStep]_ruleVars
    PROVE  RulesTypeOK'
<1>1. CASE OpenRules
  <2>1. rulesFile # NoRules => rulesFile \in RuleFiles
    BY DEF RulesTypeOK
  <2>2. rulesFile # NoRules => line <= Len(rulesFile)
    <3>1. ASSUME rulesFile # NoRules PROVE Len(rulesFile) \in Nat
      <4>1. rulesFile \in Seq(Lines)
        BY <2>1, <3>1, FilesAreLines
      <4> QED BY <4>1
    <3> QED BY <1>1, <3>1 DEF OpenRules, RulesTypeOK
  <2> QED BY <1>1, <2>1, <2>2 DEF OpenRules, RulesTypeOK, ruleSets
<1>2. CASE LoadIP
  <2>1. NextLine \in Lines /\ line + 1 <= Len(rulesFile) /\ line \in Nat
    BY <1>2, NextIsLine DEF LoadIP
  <2>2. \A modulo \in BOOLEAN : ParseIPString(NextLine.block_ip, modulo) \in Uint32
    BY DEF ParseIPString, Shifted, Uint32
  <2> QED BY <1>2, <2>1, <2>2 DEF LoadIP, ReadLine, RulesTypeOK
<1>3. CASE LoadApp
  <2>1. NextLine \in Lines /\ line + 1 <= Len(rulesFile) /\ line \in Nat
    BY <1>3, NextIsLine DEF LoadApp
  <2> QED BY <1>3, <2>1 DEF LoadApp, ReadLine, RulesTypeOK, Named
<1>4. CASE LoadDomain
  <2>1. line + 1 <= Len(rulesFile) /\ line \in Nat
    BY <1>4, NextIsLine DEF LoadDomain
  <2>2. NextLine.block_domain \in Pattern
    BY <1>4 DEF LoadDomain, ReadLine, DomainLines
  <2> QED BY <1>4, <2>1, <2>2 DEF LoadDomain, ReadLine, RulesTypeOK
<1>5. CASE LoadPort
  <2>1. line + 1 <= Len(rulesFile) /\ line \in Nat
    BY <1>5, NextIsLine DEF LoadPort
  <2>2. NextLine.block_port \in Int
    BY <1>5 DEF LoadPort, ReadLine, PortLines
  <2>3. Uint16(NextLine.block_port) \in Port
    BY <2>2, UintIsPort
  <2> QED BY <1>5, <2>1, <2>3 DEF LoadPort, ReadLine, RulesTypeOK
<1>6. CASE SkipLine
  <2>1. line + 1 <= Len(rulesFile) /\ line \in Nat
    BY <1>6, NextIsLine DEF SkipLine
  <2> QED BY <1>6, <2>1 DEF SkipLine, ReadLine, RulesTypeOK, ruleSets
<1>7. CASE EndOfRules
  BY <1>7 DEF EndOfRules, RulesTypeOK, ruleSets
<1>8. CASE UNCHANGED ruleVars
  <2>1. /\ rulesFile' = rulesFile /\ line' = line /\ rulesPc' = rulesPc
        /\ blocked_ips' = blocked_ips /\ blocked_apps' = blocked_apps
        /\ blocked_domains' = blocked_domains /\ blocked_ports' = blocked_ports
    BY <1>8 DEF ruleVars, ruleSets
  <2> QED BY <2>1 DEF RulesTypeOK
<1> QED BY <1>1, <1>2, <1>3, <1>4, <1>5, <1>6, <1>7, <1>8 DEF LoadStep, LoadLine

LEMMA ReadGrows ==
    ASSUME RulesTypeOK, NEW kind, ReadLine(kind)
    PROVE  Read' = Read \cup {NextLine}
<1>1. line \in Nat /\ line' = line + 1 /\ rulesFile' = rulesFile
  BY NextIsLine DEF ReadLine
<1>2. 1 .. line' = (1 .. line) \cup {line + 1}
  BY <1>1
<1> QED BY <1>1, <1>2 DEF Read, NextLine

\* A line read adds to the sets: what the earlier ones did stays.
LEMMA LineStep ==
    ASSUME RulesTypeOK, RulesInv, NEW kind, ReadLine(kind), NEW l, l = NextLine,
           blocked_ips \subseteq blocked_ips', blocked_apps \subseteq blocked_apps',
           blocked_domains \subseteq blocked_domains', blocked_ports \subseteq blocked_ports',
           Effect(l)', Caused'
    PROVE  RulesInv'
<1>1. /\ line \in Nat /\ line' = line + 1 /\ rulesFile' = rulesFile
      /\ rulesFile[line + 1] = l
  BY NextIsLine DEF NextLine, ReadLine
<1>2. \A i \in 1 .. line : Effect(rulesFile[i])'
  <2> TAKE i \in 1 .. line
  <2>1. Effect(rulesFile[i])
    BY DEF RulesInv
  <2> QED BY <1>1, <2>1 DEF Effect
<1>3. (\A i \in 1 .. line : Effect(rulesFile[i]))'
  <2>2. \A i \in 1 .. line' : i \in 1 .. line \/ i = line + 1
    BY <1>1
  <2>3. ASSUME NEW i \in 1 .. line' PROVE Effect(rulesFile[i])'
    <3>1. CASE i \in 1 .. line
      BY <1>2, <3>1
    <3>2. CASE i = line + 1
      BY <1>1, <3>2 DEF Effect
    <3> QED BY <2>2, <3>1, <3>2
  <2> QED BY <2>3
<1>4. rulesPc = "loading" /\ rulesPc' = "loading"
  BY DEF ReadLine
<1> QED BY <1>3, <1>4 DEF RulesInv

LEMMA RulesInvStep ==
    ASSUME RulesTypeOK, RulesInv, [LoadStep]_ruleVars
    PROVE  RulesInv'
<1>1. CASE OpenRules
  <2>1. line = 0 /\ line' = 0 /\ rulesFile' = rulesFile
    BY <1>1 DEF OpenRules, RulesTypeOK
  <2>2. /\ blocked_ips' = blocked_ips /\ blocked_apps' = blocked_apps
        /\ blocked_domains' = blocked_domains /\ blocked_ports' = blocked_ports
    BY <1>1 DEF OpenRules, ruleSets
  <2>3. Read' = Read
    BY <2>1 DEF Read
  <2>4. Caused'
    BY <2>2, <2>3 DEF RulesInv, Caused
  <2>5. \A i \in 1 .. line' : FALSE
    BY <2>1
  <2>6. /\ rulesPc' = "absent" => rulesFile' = NoRules
        /\ rulesPc' # "loaded"
    BY <1>1 DEF OpenRules
  <2> QED BY <2>1, <2>4, <2>5, <2>6 DEF RulesInv
<1>2. CASE LoadIP
  <2>1. ReadLine(IPLines) /\ Read' = Read \cup {NextLine}
    BY <1>2, ReadGrows DEF LoadIP
  <2>l. PICK l : l = NextLine
    OBVIOUS
  <2>2. PICK modulo \in BOOLEAN :
           blocked_ips' = blocked_ips \cup {ParseIPString(l.block_ip, modulo)}
    BY <1>2, <2>l DEF LoadIP
  <2>3. /\ blocked_apps' = blocked_apps /\ blocked_domains' = blocked_domains
        /\ blocked_ports' = blocked_ports /\ l \in IPLines /\ l \in Read' /\ Read \subseteq Read'
    BY <1>2, <2>1, <2>l DEF LoadIP, ReadLine
  <2>4. l \notin AppLines \cup DomainLines \cup PortLines
    BY <2>3, KindsApart
  <2>5. Effect(l)'
    BY <2>2, <2>3, <2>4 DEF Effect
  <2>6. Caused'
    BY <2>2, <2>3 DEF RulesInv, Caused
  <2> QED BY <2>1, <2>2, <2>3, <2>5, <2>6, <2>l, LineStep
<1>3. CASE LoadApp
  <2>1. ReadLine(AppLines) /\ Read' = Read \cup {NextLine}
    BY <1>3, ReadGrows DEF LoadApp
  <2>l. PICK l : l = NextLine
    OBVIOUS
  <2>2. blocked_apps' = blocked_apps \cup Named(l.block_app)
    BY <1>3, <2>l DEF LoadApp
  <2>3. /\ blocked_ips' = blocked_ips /\ blocked_domains' = blocked_domains
        /\ blocked_ports' = blocked_ports /\ l \in AppLines /\ l \in Read' /\ Read \subseteq Read'
    BY <1>3, <2>1, <2>l DEF LoadApp, ReadLine
  <2>4. l \notin IPLines \cup DomainLines \cup PortLines
    BY <2>3, KindsApart
  <2>5. Effect(l)'
    BY <2>2, <2>3, <2>4 DEF Effect
  <2>6. Caused'
    BY <2>2, <2>3 DEF RulesInv, Caused
  <2> QED BY <2>1, <2>2, <2>3, <2>5, <2>6, <2>l, LineStep
<1>4. CASE LoadDomain
  <2>1. ReadLine(DomainLines) /\ Read' = Read \cup {NextLine}
    BY <1>4, ReadGrows DEF LoadDomain
  <2>l. PICK l : l = NextLine
    OBVIOUS
  <2>2. blocked_domains' = blocked_domains \cup {l.block_domain}
    BY <1>4, <2>l DEF LoadDomain
  <2>3. /\ blocked_ips' = blocked_ips /\ blocked_apps' = blocked_apps
        /\ blocked_ports' = blocked_ports /\ l \in DomainLines /\ l \in Read' /\ Read \subseteq Read'
    BY <1>4, <2>1, <2>l DEF LoadDomain, ReadLine
  <2>4. l \notin IPLines \cup AppLines \cup PortLines
    BY <2>3, KindsApart
  <2>5. Effect(l)'
    BY <2>2, <2>3, <2>4 DEF Effect
  <2>6. Caused'
    BY <2>2, <2>3 DEF RulesInv, Caused
  <2> QED BY <2>1, <2>2, <2>3, <2>5, <2>6, <2>l, LineStep
<1>5. CASE LoadPort
  <2>1. ReadLine(PortLines) /\ Read' = Read \cup {NextLine}
    BY <1>5, ReadGrows DEF LoadPort
  <2>l. PICK l : l = NextLine
    OBVIOUS
  <2>2. blocked_ports' = blocked_ports \cup {Uint16(l.block_port)}
    BY <1>5, <2>l DEF LoadPort
  <2>3. /\ blocked_ips' = blocked_ips /\ blocked_apps' = blocked_apps
        /\ blocked_domains' = blocked_domains /\ l \in PortLines /\ l \in Read' /\ Read \subseteq Read'
    BY <1>5, <2>1, <2>l DEF LoadPort, ReadLine
  <2>4. l \notin IPLines \cup AppLines \cup DomainLines
    BY <2>3, KindsApart
  <2>5. Effect(l)'
    BY <2>2, <2>3, <2>4 DEF Effect
  <2>6. Caused'
    BY <2>2, <2>3 DEF RulesInv, Caused
  <2> QED BY <2>1, <2>2, <2>3, <2>5, <2>6, <2>l, LineStep
<1>6. CASE SkipLine
  <2>1. ReadLine(OtherLines) /\ Read' = Read \cup {NextLine}
    BY <1>6, ReadGrows DEF SkipLine
  <2>l. PICK l : l = NextLine
    OBVIOUS
  <2>3. /\ blocked_ips' = blocked_ips /\ blocked_apps' = blocked_apps
        /\ blocked_domains' = blocked_domains /\ blocked_ports' = blocked_ports
        /\ l \in OtherLines /\ Read \subseteq Read'
    BY <1>6, <2>1, <2>l DEF SkipLine, ReadLine, ruleSets
  <2>4. l \notin IPLines \cup AppLines \cup DomainLines \cup PortLines
    BY <2>3, KindsApart
  <2>5. Effect(l)'
    BY <2>4 DEF Effect
  <2>6. Caused'
    BY <2>3 DEF RulesInv, Caused
  <2> QED BY <2>1, <2>3, <2>5, <2>6, <2>l, LineStep
<1>7. CASE EndOfRules
  <2>1. /\ rulesFile' = rulesFile /\ line' = line /\ line = Len(rulesFile) /\ rulesPc' = "loaded"
        /\ blocked_ips' = blocked_ips /\ blocked_apps' = blocked_apps
        /\ blocked_domains' = blocked_domains /\ blocked_ports' = blocked_ports
    BY <1>7 DEF EndOfRules, ruleSets
  <2>2. (\A i \in 1 .. line : Effect(rulesFile[i]))'
    BY <2>1 DEF RulesInv, Effect
  <2>3. Caused'
    BY <2>1 DEF RulesInv, Caused, Read
  <2> QED BY <2>1, <2>2, <2>3 DEF RulesInv
<1>8. CASE UNCHANGED ruleVars
  <2>1. /\ rulesFile' = rulesFile /\ line' = line /\ rulesPc' = rulesPc
        /\ blocked_ips' = blocked_ips /\ blocked_apps' = blocked_apps
        /\ blocked_domains' = blocked_domains /\ blocked_ports' = blocked_ports
    BY <1>8 DEF ruleVars, ruleSets
  <2>2. (\A i \in 1 .. line : Effect(rulesFile[i]))'
    BY <2>1 DEF RulesInv, Effect
  <2>3. Caused'
    BY <2>1 DEF RulesInv, Caused, Read
  <2> QED BY <2>1, <2>2, <2>3 DEF RulesInv
<1> QED BY <1>1, <1>2, <1>3, <1>4, <1>5, <1>6, <1>7, <1>8 DEF LoadStep, LoadLine

-----------------------------------------------------------------------------
(* What the sets are good for.                                             *)

LEMMA PacketParts ==
    ASSUME NEW p \in Packets
    PROVE  p.src \in Address /\ p.dst_port \in Port /\ p.app \in Apps
<1>1. p \in Packet
  BY PacketsAssumption
<1> QED BY <1>1 DEF Packet

LEMMA InvForces == RulesTypeOK /\ RulesInv => RulesInForce
<1>1. SUFFICES ASSUME RulesTypeOK, RulesInv, rulesPc = "loaded",
                      NEW i \in DOMAIN rulesFile, NEW p \in Packets, AsksFor(rulesFile[i], p)
               PROVE  ShouldBlock(p) = "DROP"
  BY DEF RulesInForce
<1>2. PICK l : l = rulesFile[i]
  OBVIOUS
<1>3. Effect(l)
  <2>1. rulesFile \in Seq(Lines) /\ line = Len(rulesFile)
    BY <1>1, FilesAreLines DEF RulesTypeOK, RulesInv
  <2>2. i \in 1 .. line
    BY <2>1
  <2> QED BY <1>2, <2>2, <1>1 DEF RulesInv
<1>4. p.src \in Address /\ p.dst_port \in Port /\ p.app \in Apps
  BY PacketParts
<1>5. CASE l \in IPLines /\ l.block_ip = p.src
  <2>1. PICK modulo \in BOOLEAN : ParseIPString(p.src, modulo) \in blocked_ips
    BY <1>3, <1>5 DEF Effect
  <2>2. NetToHost32(p.src) \in blocked_ips
    BY <1>4, <2>1, ParseIsNetToHost
  <2> QED BY <2>2 DEF ShouldBlock
<1>6. CASE /\ l \in AppLines
           /\ l.block_app \in IF p.app = "TWITTER" THEN {"Twitter/X", "Twitter"}
                                                   ELSE {NameOf[p.app]}
  <2>1. p.app \in Named(l.block_app)
    BY <1>4, <1>6, NamedIs
  <2>2. p.app \in blocked_apps
    BY <1>3, <1>6, <2>1 DEF Effect
  <2> QED BY <2>2 DEF ShouldBlock
<1>7. CASE /\ l \in DomainLines /\ p.name # EmptyName
           /\ l.block_domain.text \in IF l.block_domain.wild THEN EndsWith[p.name]
                                                             ELSE Finds[p.name]
  <2>1. l.block_domain \in blocked_domains
    BY <1>3, <1>7 DEF Effect
  <2>2. Matches(l.block_domain, p.name)
    BY <1>7 DEF Matches
  <2> QED BY <1>7, <2>1, <2>2 DEF ShouldBlock, IsDomainBlocked
<1>8. CASE l \in PortLines /\ l.block_port = p.dst_port
  <2>1. Uint16(p.dst_port) = p.dst_port
    BY <1>4, PortIsPort
  <2>2. p.dst_port \in blocked_ports
    BY <1>3, <1>8, <2>1 DEF Effect
  <2> QED BY <2>2 DEF ShouldBlock
<1>9. AsksFor(l, p)
  BY <1>1, <1>2
<1> QED BY <1>5, <1>6, <1>7, <1>8, <1>9 DEF AsksFor

LEMMA InvOnlyForces == RulesTypeOK /\ RulesInv => NothingElseBlocked
<1>1. SUFFICES ASSUME RulesTypeOK, RulesInv, rulesFile \in RuleFiles,
                      \A i \in DOMAIN rulesFile : WellFormed(rulesFile[i]),
                      NEW p \in Packets, ShouldBlock(p) = "DROP"
               PROVE  \E i \in DOMAIN rulesFile : AsksFor(rulesFile[i], p)
  BY DEF NothingElseBlocked
<1>2. \A l \in Read : WellFormed(l) /\ \E i \in DOMAIN rulesFile : l = rulesFile[i]
  <2>1. rulesFile \in Seq(Lines)
    BY <1>1, FilesAreLines
  <2>2. line \in Nat /\ line <= Len(rulesFile)
    BY <1>1, <2>1 DEF RulesTypeOK
  <2>3. \A i \in 1 .. line : i \in DOMAIN rulesFile
    BY <2>1, <2>2
  <2> QED BY <1>1, <2>3 DEF Read
<1>3. SUFFICES \E l \in Read : AsksFor(l, p)
  BY <1>2
<1>4. p.src \in Address /\ p.dst_port \in Port /\ p.app \in Apps
  BY PacketParts
<1>5. CASE NetToHost32(p.src) \in blocked_ips
  <2>1. PICK l \in Read, modulo \in BOOLEAN :
           l \in IPLines /\ NetToHost32(p.src) = ParseIPString(l.block_ip, modulo)
    BY <1>1, <1>5 DEF RulesInv, Caused
  <2>2. l.block_ip \in Address
    BY <1>2, <2>1 DEF WellFormed
  <2>3. NetToHost32(p.src) = NetToHost32(l.block_ip)
    BY <2>1, <2>2, ParseIsNetToHost
  <2>4. l.block_ip = p.src
    BY <1>4, <2>2, <2>3, NetToHostInjective
  <2> QED BY <2>1, <2>4 DEF AsksFor
<1>6. CASE p.dst_port \in blocked_ports
  <2>1. PICK l \in Read : l \in PortLines /\ p.dst_port = Uint16(l.block_port)
    BY <1>1, <1>6 DEF RulesInv, Caused
  <2>2. l.block_port \in Port
    BY <1>2, <2>1 DEF WellFormed
  <2>3. l.block_port = p.dst_port
    BY <2>1, <2>2, PortIsPort
  <2> QED BY <2>1, <2>3 DEF AsksFor
<1>7. CASE p.app \in blocked_apps
  <2>1. PICK l \in Read : l \in AppLines /\ p.app \in Named(l.block_app)
    BY <1>1, <1>7 DEF RulesInv, Caused
  <2>2. l.block_app \in IF p.app = "TWITTER" THEN {"Twitter/X", "Twitter"} ELSE {NameOf[p.app]}
    BY <1>4, <2>1, NamedIs
  <2> QED BY <2>1, <2>2 DEF AsksFor
<1>8. CASE p.name # EmptyName /\ IsDomainBlocked(p.name)
  <2>1. PICK pattern \in blocked_domains : Matches(pattern, p.name)
    BY <1>8 DEF IsDomainBlocked
  <2>2. PICK l \in Read : l \in DomainLines /\ pattern = l.block_domain
    BY <1>1, <2>1 DEF RulesInv, Caused
  <2>3. l.block_domain.text \in IF l.block_domain.wild THEN EndsWith[p.name] ELSE Finds[p.name]
    BY <2>1, <2>2 DEF Matches
  <2> QED BY <1>8, <2>2, <2>3 DEF AsksFor
<1> QED BY <1>1, <1>5, <1>6, <1>7, <1>8 DEF ShouldBlock

-----------------------------------------------------------------------------
(* Numbers in a capture.                                                   *)

LEMMA MagicsDiffer == Magic # MagicSwapped
<1>1. Magic[1] = 161 /\ MagicSwapped[1] = 212
  BY DEF Magic, MagicSwapped, SwapBytes32
<1> QED BY <1>1

LEMMA SwapIsWord == ASSUME NEW w \in Word PROVE SwapBytes32(w) \in Word
  BY DEF Word, SwapBytes32

LEMMA NumberIsInt == ASSUME NEW w \in Word PROVE Number(w) \in Int
<1>1. w[1] \in Int /\ w[2] \in Int /\ w[3] \in Int /\ w[4] \in Int
  BY DEF Word, Byte
<1> QED BY <1>1 DEF Number

LEMMA MeantIsHeader ==
    ASSUME NEW m, NEW h \in Header
    PROVE  /\ Meant(m, h) \in Header
           /\ Number(Meant(m, h).incl_len) \in Int
<1>1. DOMAIN h = {"ts_sec", "ts_usec", "incl_len", "orig_len"} /\ \A f \in DOMAIN h : h[f] \in Word
  BY DEF Header
<1>2. CASE m = Magic
  <2>1. Meant(m, h) = h
    BY <1>2 DEF Meant
  <2>2. h.incl_len \in Word
    BY <1>1
  <2> QED BY <2>1, <2>2, NumberIsInt
<1>3. CASE m # Magic
  <2>1. Meant(m, h) = [f \in DOMAIN h |-> SwapBytes32(h[f])]
    BY <1>3 DEF Meant
  <2>2. \A f \in DOMAIN h : SwapBytes32(h[f]) \in Word
    BY <1>1, SwapIsWord
  <2>3. Meant(m, h) = [ts_sec |-> SwapBytes32(h.ts_sec), ts_usec |-> SwapBytes32(h.ts_usec),
                       incl_len |-> SwapBytes32(h.incl_len), orig_len |-> SwapBytes32(h.orig_len)]
    BY <1>1, <2>1
  <2>4. Meant(m, h) \in Header /\ Meant(m, h).incl_len \in Word
    BY <1>1, <2>2, <2>3 DEF Header
  <2> QED BY <2>4, NumberIsInt
<1> QED BY <1>2, <1>3

LEMMA NumberOfWord ==
    ASSUME NEW n \in Nat, n <= 65537
    PROVE  NumberWord(n) \in Word /\ Number(NumberWord(n)) = n
<1>1. n \div 16777216 = 0
  BY SMTT(30)
<1>2. (n \div 65536) % 256 = n \div 65536 /\ n \div 65536 \in {0, 1}
  BY SMTT(30)
<1>3. (n \div 256) % 256 = (n \div 256) - 256 * (n \div 65536)
  BY <1>2, SMTT(30)
<1>4. n % 256 = n - 256 * (n \div 256)
  BY SMTT(30)
<1>5. (n \div 256) % 256 \in 0 .. 255 /\ n % 256 \in 0 .. 255
  BY SMTT(30)
<1>6. NumberWord(n) \in Word
  BY <1>1, <1>2, <1>5 DEF NumberWord, Word, Byte
<1>7. Number(NumberWord(n)) = ((0 * 256 + (n \div 65536)) * 256 + ((n \div 256) % 256)) * 256
                               + (n % 256)
  BY <1>1, <1>2 DEF NumberWord, Number
<1> QED BY <1>2, <1>3, <1>4, <1>6, <1>7

LEMMA DivMod ==
    ASSUME NEW q \in Int, NEW r \in Int, NEW k \in {256, 65536, 16777216}, 0 <= r, r < k
    PROVE  (k * q + r) \div k = q /\ (k * q + r) % k = r
<1>1. CASE k = 256
  BY <1>1, SMTT(30)
<1>2. CASE k = 65536
  BY <1>2, SMTT(30)
<1>3. CASE k = 16777216
  BY <1>3, SMTT(30)
<1> QED BY <1>1, <1>2, <1>3

LEMMA WordOfBytes ==
    ASSUME NEW a \in Byte, NEW b \in Byte, NEW c \in Byte, NEW d \in Byte,
           NEW n, n = ((a * 256 + b) * 256 + c) * 256 + d
    PROVE  /\ n \div 16777216 = a /\ (n \div 65536) % 256 = b
           /\ (n \div 256) % 256 = c /\ n % 256 = d
<1>1. /\ a \in Int /\ b \in Int /\ c \in Int /\ d \in Int
      /\ 0 <= a /\ a < 256 /\ 0 <= b /\ b < 256 /\ 0 <= c /\ c < 256 /\ 0 <= d /\ d < 256
  BY DEF Byte
<1>2. n = 16777216 * a + (65536 * b + 256 * c + d)
  BY <1>1
<1>3. n = 65536 * (256 * a + b) + (256 * c + d)
  BY <1>1
<1>4. n = 256 * (256 * (256 * a + b) + c) + d
  BY <1>1
<1>5. n \div 16777216 = a
  <2>1. /\ 65536 * b + 256 * c + d \in Int /\ 0 <= 65536 * b + 256 * c + d
        /\ 65536 * b + 256 * c + d < 16777216
    BY <1>1
  <2> QED BY ONLY <1>1, <1>2, <2>1, DivMod
<1>6. n \div 65536 = 256 * a + b
  <2>1. /\ 256 * c + d \in Int /\ 0 <= 256 * c + d /\ 256 * c + d < 65536 /\ 256 * a + b \in Int
    BY <1>1
  <2> QED BY ONLY <1>1, <1>3, <2>1, DivMod
<1>7. n \div 256 = 256 * (256 * a + b) + c /\ n % 256 = d
  <2>1. 256 * (256 * a + b) + c \in Int
    BY <1>1
  <2> QED BY ONLY <1>1, <1>4, <2>1, DivMod
<1>8. (256 * a + b) % 256 = b
  BY ONLY <1>1, DivMod
<1>9. (256 * (256 * a + b) + c) % 256 = c
  <2>1. 256 * a + b \in Int
    BY <1>1
  <2> QED BY ONLY <1>1, <2>1, DivMod
<1> QED BY <1>5, <1>6, <1>7, <1>8, <1>9

LEMMA WordOfNumber == ASSUME NEW w \in Word PROVE NumberWord(Number(w)) = w
<1>1. /\ w[1] \in Byte /\ w[2] \in Byte /\ w[3] \in Byte /\ w[4] \in Byte
      /\ w = <<w[1], w[2], w[3], w[4]>>
  BY DEF Word
<1>2. PICK n : n = Number(w)
  OBVIOUS
<1>3. n = ((w[1] * 256 + w[2]) * 256 + w[3]) * 256 + w[4]
  BY <1>2 DEF Number
<1>4. /\ n \div 16777216 = w[1] /\ (n \div 65536) % 256 = w[2]
      /\ (n \div 256) % 256 = w[3] /\ n % 256 = w[4]
  BY <1>1, <1>3, WordOfBytes
<1>5. NumberWord(n) = <<w[1], w[2], w[3], w[4]>>
  BY <1>4 DEF NumberWord
<1> QED BY <1>1, <1>2, <1>5

-----------------------------------------------------------------------------
(* The capture read.                                                       *)

\* What the program does with the two files.
CaptureStep ==
    \/ OpenReader \/ TakeRecord \/ EndOfInput
    \/ OpenWriter /\ reader # "closed"
    \/ \E i \in inFlight : WritePacket(i)

LEMMA RecordParts ==
    ASSUME CaptureTypeOK, CanOpen, NEW i \in DOMAIN input.records
    PROVE  /\ input \in CaptureFiles /\ input.magic \in Word /\ input.records \in Seq(Record)
           /\ input.records[i].header \in Header /\ input.records[i].packet \in Data
           /\ input.records[i].size \in 0 .. MAX_PACKET + 1
<1>1. input \in CaptureFiles
  BY CapturesAssumption DEF CaptureTypeOK, CanOpen
<1>2. input.magic \in Word /\ input.records \in Seq(Record)
  BY <1>1 DEF CaptureFiles
<1>3. input.records[i] \in Record
  BY <1>2
<1> QED BY <1>1, <1>2, <1>3 DEF Record

LEMMA RecordsAreSeq ==
    ASSUME CaptureTypeOK, CanOpen
    PROVE  /\ Len(input.records) \in Nat
           /\ \A i \in Nat \ {0} : i <= Len(input.records) => i \in DOMAIN input.records
           /\ \A i \in DOMAIN input.records : i \in Nat \ {0} /\ i <= Len(input.records)
<1>1. input \in CaptureFiles
  BY CapturesAssumption DEF CaptureTypeOK, CanOpen
<1>2. input.records \in Seq(Record)
  BY <1>1 DEF CaptureFiles
<1> QED BY <1>2

LEMMA Lengths ==
    ASSUME NEW n
    PROVE  /\ n \in Int => (n \in 1 .. MAX_PACKET <=> 0 < n /\ n <= MAX_PACKET)
           /\ n \in 0 .. MAX_PACKET + 1 => n \in Nat /\ n <= 65537
<1>1. MAX_PACKET \in Int /\ MAX_PACKET = 65536
  BY DEF MAX_PACKET
<1>2. n \in Int => (n \in 1 .. MAX_PACKET <=> 0 < n /\ n <= MAX_PACKET)
  BY <1>1
<1>3. ASSUME n \in 0 .. MAX_PACKET + 1
      PROVE  n \in Nat /\ n <= 65537
  <2>1. n \in Int /\ 0 <= n /\ n <= MAX_PACKET + 1
    BY <1>1, <1>3
  <2> QED BY <1>1, <2>1
<1> QED BY <1>2, <1>3

\* The reader turns headers the way the magic number says.
LEMMA ReadIsMeant ==
    ASSUME CaptureTypeOK, CanOpen, swap = (input.magic = MagicSwapped),
           NEW i \in DOMAIN input.records
    PROVE  ReadHeader(i) = Meant(input.magic, input.records[i].header)
<1>1. PICK h \in Header : h = input.records[i].header
  BY RecordParts
<1>2. ReadHeader(i) = [f \in DOMAIN h |-> MaybeSwap32(h[f])]
  BY <1>1 DEF ReadHeader
<1>3. CASE input.magic = Magic
  <2>1. ~swap
    BY <1>3, MagicsDiffer DEF CaptureTypeOK
  <2>2. ReadHeader(i) = [f \in DOMAIN h |-> h[f]]
    BY <1>2, <2>1 DEF MaybeSwap32
  <2>3. [f \in DOMAIN h |-> h[f]] = h
    BY DEF Header
  <2> QED BY <1>1, <1>3, <2>2, <2>3 DEF Meant
<1>4. CASE input.magic = MagicSwapped
  <2>1. swap
    BY <1>4
  <2>2. ReadHeader(i) = [f \in DOMAIN h |-> SwapBytes32(h[f])]
    BY <1>2, <2>1 DEF MaybeSwap32
  <2> QED BY <1>1, <1>4, <2>2, MagicsDiffer DEF Meant
<1> QED BY <1>3, <1>4 DEF CanOpen

LEMMA ReadableIsWhole ==
    ASSUME CaptureTypeOK, CanOpen, swap = (input.magic = MagicSwapped), NEW i \in Nat \ {0}
    PROVE  Readable(i) <=> i <= Len(input.records) /\ Whole(input.magic, input.records[i])
<1>1. CASE ~(i <= Len(input.records))
  BY <1>1 DEF Readable
<1>2. CASE i <= Len(input.records)
  <2>1. i \in DOMAIN input.records
    BY <1>2, RecordsAreSeq
  <2>2. InclLen(i) = Number(Meant(input.magic, input.records[i].header).incl_len)
    BY <2>1, ReadIsMeant DEF InclLen
  <2>3. InclLen(i) \in Int
    BY <2>1, <2>2, RecordParts, MeantIsHeader
  <2>4. InclLen(i) \in 1 .. MAX_PACKET <=> 0 < InclLen(i) /\ InclLen(i) <= MAX_PACKET
    BY <2>3, Lengths
  <2> QED BY <1>2, <2>2, <2>4 DEF Readable, Whole
<1> QED BY <1>1, <1>2

LEMMA OutputHeaderType ==
    ASSUME CaptureTypeOK, CanOpen, NEW i \in DOMAIN input.records
    PROVE  OutputHeader(i) \in Header
<1>1. PICK h \in Header : h = input.records[i].header
  BY RecordParts
<1>2. h.ts_sec \in Word /\ h.ts_usec \in Word /\ {"ts_sec", "ts_usec"} \subseteq DOMAIN h
  BY DEF Header
<1>3. MaybeSwap32(h.ts_sec) \in Word /\ MaybeSwap32(h.ts_usec) \in Word
  BY <1>2, SwapIsWord DEF MaybeSwap32
<1>4. ReadHeader(i) = [f \in DOMAIN h |-> MaybeSwap32(h[f])]
  BY <1>1 DEF ReadHeader
<1>5. ReadHeader(i).ts_sec \in Word /\ ReadHeader(i).ts_usec \in Word
  BY <1>2, <1>3, <1>4
<1>6. input.records[i].size \in Nat /\ input.records[i].size <= 65537
  <2>1. input.records[i].size \in 0 .. MAX_PACKET + 1
    BY RecordParts
  <2> QED BY <2>1, Lengths
<1>7. NumberWord(input.records[i].size) \in Word
  BY <1>6, NumberOfWord
<1> QED BY <1>5, <1>7 DEF OutputHeader, Header

LEMMA TakenAreRecords ==
    ASSUME CaptureTypeOK, AllWholeRecordsTaken
    PROVE  /\ taken \in Nat
           /\ taken # 0 => CanOpen /\ reader # "closed" /\ swap = (input.magic = MagicSwapped)
           /\ \A i \in 1 .. taken : i \in DOMAIN input.records
           /\ CanOpen => taken <= Len(input.records)
<1>1. taken \in Nat /\ (taken # 0 => CanOpen /\ reader # "closed" /\ swap = (input.magic = MagicSwapped))
  BY DEF CaptureTypeOK
<1>2. ASSUME NEW i \in 1 .. taken PROVE i \in DOMAIN input.records
  <2>1. i \in Nat \ {0} /\ taken # 0
    BY <1>1, <1>2
  <2>2. i <= Len(input.records)
    BY <1>2 DEF AllWholeRecordsTaken
  <2> QED BY <1>1, <2>1, <2>2, RecordsAreSeq
<1>3. ASSUME CanOpen PROVE taken <= Len(input.records)
  <2>1. CASE taken = 0
    BY <1>3, <2>1, RecordsAreSeq
  <2>2. CASE taken # 0
    <3>1. taken \in 1 .. taken
      BY <1>1, <2>2
    <3> QED BY <3>1 DEF AllWholeRecordsTaken
  <2> QED BY <2>1, <2>2
<1> QED BY <1>1, <1>2, <1>3

LEMMA WriteType ==
    ASSUME CaptureTypeOK, AllWholeRecordsTaken, inFlight \subseteq 1 .. taken,
           NEW i \in inFlight, WritePacket(i)
    PROVE  output' \in CaptureFiles
<1>1. taken # 0 /\ i \in 1 .. taken /\ i \in Nat
  BY DEF CaptureTypeOK
<1>2. CanOpen /\ i \in DOMAIN input.records
  BY <1>1, TakenAreRecords
<1>3. input.records[i].packet \in Data /\ input.records[i].size \in 0 .. MAX_PACKET + 1
  BY <1>2, RecordParts
<1>4. [header |-> OutputHeader(i), packet |-> input.records[i].packet,
       size |-> input.records[i].size] \in Record
  BY <1>2, <1>3, OutputHeaderType DEF Record
<1>5. output \in CaptureFiles
  BY DEF WritePacket, CaptureTypeOK
<1>6. PICK r \in Record : r = [header |-> OutputHeader(i), packet |-> input.records[i].packet,
                              size |-> input.records[i].size]
  BY <1>4
<1>7. output' = [output EXCEPT !.records = Append(output.records, r)]
  BY <1>6 DEF WritePacket
<1>8. /\ output.records \in Seq(Record) /\ output.magic \in Word
      /\ output = [magic |-> output.magic, records |-> output.records]
  BY <1>5 DEF CaptureFiles
<1>9. Append(output.records, r) \in Seq(Record)
  BY <1>8
<1>10. output' = [magic |-> output.magic, records |-> Append(output.records, r)]
  BY <1>7, <1>8
<1> QED BY <1>8, <1>9, <1>10 DEF CaptureFiles

LEMMA CaptureTypeStep ==
    ASSUME CaptureTypeOK, AllWholeRecordsTaken, inFlight \subseteq 1 .. taken,
           [CaptureStep]_captureVars
    PROVE  CaptureTypeOK'
<1>1. CASE OpenReader
  BY <1>1 DEF OpenReader, CaptureTypeOK, CanOpen, writerVars
<1>2. CASE TakeRecord
  <2>1. taken + 1 \in Nat
    BY DEF CaptureTypeOK
  <2> QED BY <1>2, <2>1 DEF TakeRecord, CaptureTypeOK, CanOpen, writerVars
<1>3. CASE EndOfInput
  BY <1>3 DEF EndOfInput, CaptureTypeOK, CanOpen, writerVars
<1>4. CASE OpenWriter /\ reader # "closed"
  <2>1. CanOpen
    BY <1>4 DEF CaptureTypeOK
  <2>2. input.magic \in Word
    <3>1. input \in CaptureFiles
      BY <2>1, CapturesAssumption DEF CaptureTypeOK, CanOpen
    <3> QED BY <3>1 DEF CaptureFiles
  <2>3. <<>> \in Seq(Record)
    OBVIOUS
  <2>4. output' \in CaptureFiles
    BY <1>4, <2>2, <2>3 DEF OpenWriter, CaptureFiles
  <2> QED BY <1>4, <2>4 DEF OpenWriter, CaptureTypeOK, CanOpen, readerVars
<1>5. ASSUME NEW i \in inFlight, WritePacket(i)
      PROVE  CaptureTypeOK'
  <2>1. i \in Nat
    BY DEF CaptureTypeOK
  <2>6. output' \in CaptureFiles
    BY <1>5, WriteType
  <2>7. written' \in Seq(Nat)
    BY <1>5, <2>1 DEF WritePacket, CaptureTypeOK
  <2> QED BY <1>5, <2>6, <2>7 DEF WritePacket, CaptureTypeOK, CanOpen, readerVars
<1>6. CASE UNCHANGED captureVars
  <2>1. /\ input' = input /\ reader' = reader /\ swap' = swap /\ taken' = taken
        /\ output' = output /\ written' = written
    BY <1>6 DEF captureVars, readerVars, writerVars
  <2> QED BY <2>1 DEF CaptureTypeOK, CanOpen
<1> QED BY <1>1, <1>2, <1>3, <1>4, <1>5, <1>6 DEF CaptureStep

LEMMA WholeStep ==
    ASSUME CaptureTypeOK, AllWholeRecordsTaken, [CaptureStep]_captureVars
    PROVE  AllWholeRecordsTaken'
<1>1. CASE OpenReader
  <2>1. /\ taken = 0 /\ taken' = 0 /\ reader' = "open"
    BY <1>1 DEF OpenReader, CaptureTypeOK
  <2>2. \A i \in 1 .. taken' : FALSE
    BY <2>1
  <2> QED BY <2>1, <2>2 DEF AllWholeRecordsTaken
<1>2. CASE TakeRecord
  <2>1. /\ taken' = taken + 1 /\ input' = input /\ reader' = "open" /\ Readable(taken + 1)
        /\ reader = "open"
    BY <1>2 DEF TakeRecord
  <2>2. taken \in Nat /\ CanOpen /\ swap = (input.magic = MagicSwapped)
    BY <2>1 DEF CaptureTypeOK
  <2>3. taken + 1 <= Len(input.records) /\ Whole(input.magic, input.records[taken + 1])
    <3>1. taken + 1 \in Nat \ {0}
      BY <2>2
    <3> QED BY <2>1, <2>2, <3>1, ReadableIsWhole
  <2>4. \A i \in 1 .. taken' : i \in 1 .. taken \/ i = taken + 1
    BY <2>1, <2>2
  <2> QED BY <2>1, <2>3, <2>4 DEF AllWholeRecordsTaken
<1>3. CASE EndOfInput
  <2>1. /\ taken' = taken /\ input' = input /\ ~Readable(taken + 1) /\ reader = "open"
    BY <1>3 DEF EndOfInput
  <2>2. /\ taken \in Nat /\ CanOpen /\ swap = (input.magic = MagicSwapped)
    BY <2>1 DEF CaptureTypeOK
  <2>3. taken <= Len(input.records) /\ Len(input.records) \in Nat
    BY <2>2, TakenAreRecords, RecordsAreSeq
  <2>4. ~(taken + 1 <= Len(input.records)) \/ ~Whole(input.magic, input.records[taken + 1])
    <3>1. taken + 1 \in Nat \ {0}
      BY <2>2
    <3> QED BY <2>1, <2>2, <3>1, ReadableIsWhole
  <2>5. taken = Len(input.records) \/ ~Whole(input.magic, input.records[taken + 1])
    BY <2>2, <2>3, <2>4
  <2> QED BY <2>1, <2>5 DEF AllWholeRecordsTaken
<1>4. CASE \/ OpenWriter \/ UNCHANGED captureVars
           \/ \E i \in inFlight : WritePacket(i)
  <2>1. input' = input /\ reader' = reader /\ taken' = taken
    BY <1>4 DEF OpenWriter, WritePacket, captureVars, readerVars
  <2> QED BY <2>1 DEF AllWholeRecordsTaken
<1> QED BY <1>1, <1>2, <1>3, <1>4 DEF CaptureStep

-----------------------------------------------------------------------------
(* The capture written.                                                    *)

OutputRecord(i) == [header |-> OutputHeader(i), packet |-> input.records[i].packet,
                    size |-> input.records[i].size]

OutInv ==
    /\ output = NoFile => written = <<>>
    /\ output # NoFile =>
         /\ output.magic = input.magic
         /\ \A k \in DOMAIN written : output.records[k] = OutputRecord(written[k])
         /\ Len(output.records) = Len(written)

LEMMA OutStep ==
    ASSUME CaptureTypeOK, AllWholeRecordsTaken, inFlight \subseteq 1 .. taken,
           OutInv, [CaptureStep]_captureVars,
           OpenReader => output = NoFile
    PROVE  OutInv'
<1>1. CASE OpenReader
  BY <1>1 DEF OpenReader, OutInv, writerVars
<1>2. ASSUME TakeRecord \/ EndOfInput \/ UNCHANGED captureVars
      PROVE  OutInv'
  <2>1. input' = input /\ swap' = swap /\ output' = output /\ written' = written
    BY <1>2 DEF TakeRecord, EndOfInput, captureVars, readerVars, writerVars
  <2>2. \A i : OutputRecord(i)' = OutputRecord(i)
    BY <2>1 DEF OutputRecord, OutputHeader, ReadHeader, MaybeSwap32
  <2> QED BY <2>1, <2>2 DEF OutInv
<1>3. CASE OpenWriter
  <2>1. written = <<>> /\ written' = <<>> /\ input' = input
        /\ output' = [magic |-> input.magic, records |-> <<>>]
    BY <1>3 DEF OpenWriter, OutInv, readerVars
  <2> QED BY <2>1 DEF OutInv
<1>4. ASSUME NEW i \in inFlight, WritePacket(i)
      PROVE  OutInv'
  <2>1. /\ input' = input /\ swap' = swap /\ output # NoFile
        /\ output' = [output EXCEPT !.records = Append(@, OutputRecord(i))]
        /\ written' = Append(written, i)
    BY <1>4 DEF WritePacket, readerVars, OutputRecord
  <2>2. \A j : OutputRecord(j)' = OutputRecord(j)
    BY <2>1 DEF OutputRecord, OutputHeader, ReadHeader, MaybeSwap32
  <2>3. output \in CaptureFiles /\ written \in Seq(Nat)
    BY <2>1 DEF CaptureTypeOK
  <2>4. output.records \in Seq(Record) /\ DOMAIN output = {"magic", "records"}
    BY <2>3 DEF CaptureFiles
  <2>5. output'.magic = input'.magic /\ output'.records = Append(output.records, OutputRecord(i))
    BY <2>1, <2>4 DEF OutInv
  <2>6. Len(output'.records) = Len(written')
    BY <2>1, <2>3, <2>4, <2>5 DEF OutInv
  <2>7. ASSUME NEW k \in DOMAIN written' PROVE output'.records[k] = OutputRecord(written'[k])
    <3>1. Len(written) \in Nat /\ DOMAIN written = 1 .. Len(written) /\ Len(output.records) = Len(written)
      BY <2>1, <2>3 DEF OutInv
    <3>2. CASE k \in DOMAIN written
      <4>1. written'[k] = written[k]
        BY <2>1, <2>3, <3>2
      <4>2. output'.records[k] = output.records[k]
        BY <2>4, <2>5, <3>1, <3>2
      <4> QED BY <2>1, <3>2, <4>1, <4>2 DEF OutInv
    <3>3. CASE k = Len(written) + 1
      <4>1. written'[k] = i
        BY <2>1, <2>3, <3>3
      <4>2. output'.records[k] = OutputRecord(i)
        BY <2>4, <2>5, <3>1, <3>3
      <4> QED BY <4>1, <4>2
    <3>4. k \in DOMAIN written \/ k = Len(written) + 1
      BY <2>1, <2>3
    <3> QED BY <3>2, <3>3, <3>4
  <2>8. output' # NoFile
    BY <1>4, WriteType, CapturesAssumption
  <2> QED BY <2>2, <2>5, <2>6, <2>7, <2>8 DEF OutInv
<1> QED BY <1>1, <1>2, <1>3, <1>4 DEF CaptureStep

-----------------------------------------------------------------------------
(* The whole run.                                                          *)

MainInv ==
    /\ reader = "closed" => output = NoFile
    /\ mainPc \in {"rules", "output", "reading", "stopping"} => reader # "closed"
    /\ mainPc \in {"output", "reading", "stopping"} => rulesPc \in {"loaded", "absent"}
    /\ mainPc \notin {"reading", "stopping"} => inFlight = {}

\* What has been written is neither listed nor on its way any more.
ListedInv ==
    /\ \A k \in DOMAIN written :
         /\ written[k] \in 1 .. taken /\ written[k] \notin inFlight
         /\ rulesFile \in RuleFiles =>
              \A n \in DOMAIN rulesFile : ~AsksFor(rulesFile[n], PacketAt(written[k]))
    /\ \A j, k \in DOMAIN written : written[j] = written[k] => j = k

IInv == TypeOK /\ RulesInv /\ AllWholeRecordsTaken /\ OutInv /\ MainInv /\ ListedInv

LEMMA StepSplits ==
    ASSUME TypeOK, MainInv, [Next]_vars
    PROVE  [LoadStep]_ruleVars /\ [CaptureStep]_captureVars
<1>1. CASE OpenInput
  BY <1>1 DEF OpenInput, CaptureStep
<1>2. CASE LoadRules
  BY <1>2 DEF LoadRules, LoadStep
<1>3. CASE OpenOutput
  BY <1>3 DEF OpenOutput, CaptureStep, Goto, MainInv
<1>4. CASE ReadPacket
  <2>1. TakeRecord /\ UNCHANGED ruleVars
    BY <1>4 DEF ReadPacket
  <2> QED BY <2>1 DEF CaptureStep
<1>5. ASSUME NEW i \in inFlight, Forward(i)
      PROVE  [LoadStep]_ruleVars /\ [CaptureStep]_captureVars
  <2>1. WritePacket(i) /\ UNCHANGED ruleVars
    BY <1>5 DEF Forward
  <2> QED BY <2>1 DEF CaptureStep
<1>6. CASE EndOfCapture
  BY <1>6 DEF EndOfCapture, CaptureStep
<1>7. ASSUME OpenInputFails \/ StartMetrics \/ OpenOutputFails \/ Stop \/ StopMetrics
             \/ Finished \/ UNCHANGED vars \/ \E i \in inFlight : Drop(i)
      PROVE  UNCHANGED ruleVars /\ UNCHANGED captureVars
  BY <1>7 DEF OpenInputFails, StartMetrics, OpenOutputFails, Stop, StopMetrics, Finished, Drop, vars
<1> QED BY <1>1, <1>2, <1>3, <1>4, <1>5, <1>6, <1>7 DEF Next, Start, Decide, End

LEMMA InFlightRead == ASSUME TypeOK PROVE inFlight \subseteq 1 .. taken
  BY DEF TypeOK

LEMMA StepKeeps ==
    ASSUME TypeOK, MainInv, [Next]_vars
    PROVE  /\ rulesFile' = rulesFile /\ input' = input
           /\ taken' \in Nat /\ (taken' = taken \/ taken' = taken + 1)
<1>1. [LoadStep]_ruleVars /\ [CaptureStep]_captureVars /\ taken \in Nat
  BY StepSplits DEF TypeOK, CaptureTypeOK
<1>2. rulesFile' = rulesFile
  <2>1. CASE LoadStep
    BY <2>1 DEF LoadStep, OpenRules, LoadLine, LoadIP, LoadApp, LoadDomain, LoadPort, SkipLine,
                EndOfRules, ReadLine
  <2>2. CASE UNCHANGED ruleVars
    BY <2>2 DEF ruleVars
  <2> QED BY <1>1, <2>1, <2>2
<1>3. input' = input /\ (taken' = taken \/ taken' = taken + 1)
  <2>1. CASE CaptureStep
    BY <2>1 DEF CaptureStep, OpenReader, TakeRecord, EndOfInput, OpenWriter, WritePacket, readerVars
  <2>2. CASE UNCHANGED captureVars
    BY <2>2 DEF captureVars, readerVars
  <2> QED BY <1>1, <2>1, <2>2
<1> QED BY <1>1, <1>2, <1>3

LEMMA TypeStep ==
    ASSUME TypeOK, MainInv, AllWholeRecordsTaken, [Next]_vars
    PROVE  TypeOK'
<1>1. RulesTypeOK'
  BY StepSplits, RulesTypeStep DEF TypeOK
<1>2. CaptureTypeOK'
  BY StepSplits, InFlightRead, CaptureTypeStep DEF TypeOK
<1>3. mainPc' \in {"start", "rules", "output", "reading", "stopping", "daemon", "stopped",
                   "failed", "finished"}
  BY DEF TypeOK, Next, vars, Start, OpenInput, OpenInputFails, LoadRules, StartMetrics, OpenOutput,
         OpenOutputFails, ReadPacket, Decide, Forward, Drop, End, EndOfCapture, Stop, StopMetrics,
         Finished, Goto
<1>4. inFlight' \subseteq inFlight \/ (ReadPacket /\ PacketAt(taken') \in Packets)
  BY DEF Next, vars, Start, OpenInput, OpenInputFails, LoadRules, StartMetrics, OpenOutput,
         OpenOutputFails, ReadPacket, Decide, Forward, Drop, End, EndOfCapture, Stop, StopMetrics,
         Finished
<1>5. ASSUME NEW i \in inFlight PROVE i \in 1 .. taken' /\ PacketAt(i)' \in Packets
  <2>1. i \in 1 .. taken /\ PacketAt(i) \in Packets /\ taken \in Nat
    BY DEF TypeOK, CaptureTypeOK
  <2> QED BY <2>1, StepKeeps DEF PacketAt
<1>6. ASSUME ReadPacket, PacketAt(taken') \in Packets, NEW i \in inFlight'
      PROVE  i \in 1 .. taken' /\ PacketAt(i)' \in Packets
  <2>1. inFlight' = inFlight \cup {taken'} /\ taken' = taken + 1 /\ taken \in Nat
    BY <1>6 DEF ReadPacket, TakeRecord, TypeOK, CaptureTypeOK
  <2>2. CASE i \in inFlight
    BY <1>5, <2>2
  <2>3. CASE i = taken'
    BY <1>6, <2>1, <2>3, StepKeeps DEF PacketAt
  <2> QED BY <2>1, <2>2, <2>3
<1>7. (inFlight \subseteq {i \in 1 .. taken : PacketAt(i) \in Packets})'
  BY <1>4, <1>5, <1>6
<1> QED BY <1>1, <1>2, <1>3, <1>7 DEF TypeOK

LEMMA MainStep ==
    ASSUME TypeOK, MainInv, [Next]_vars
    PROVE  MainInv'
<1>1. (reader = "closed" => output = NoFile)' /\ (reader # "closed" => reader' # "closed")
  <2>1. CASE CaptureStep
    BY <2>1 DEF CaptureStep, OpenReader, TakeRecord, EndOfInput, OpenWriter, WritePacket,
                readerVars, writerVars, MainInv
  <2>2. CASE UNCHANGED captureVars
    BY <2>2 DEF captureVars, readerVars, writerVars, MainInv
  <2> QED BY <2>1, <2>2, StepSplits
<1>2. CASE Start
  <2>1. CASE OpenInput
    BY <1>1, <2>1 DEF OpenInput, OpenReader, Goto, MainInv
  <2>2. CASE OpenInputFails
    BY <1>1, <2>2 DEF OpenInputFails, Goto, MainInv
  <2>3. CASE LoadRules
    BY <1>1, <2>3 DEF LoadRules, MainInv
  <2>4. CASE StartMetrics
    BY <1>1, <2>4 DEF StartMetrics, Goto, MainInv, ruleVars
  <2>5. CASE OpenOutput
    BY <1>1, <2>5 DEF OpenOutput, Goto, MainInv, ruleVars
  <2>6. CASE OpenOutputFails
    BY <1>1, <2>6 DEF OpenOutputFails, Goto, MainInv
  <2> QED BY <1>2, <2>1, <2>2, <2>3, <2>4, <2>5, <2>6 DEF Start
<1>3. CASE ReadPacket
  BY <1>1, <1>3 DEF ReadPacket, MainInv, ruleVars
<1>4. ASSUME NEW i \in inFlight, Decide(i) PROVE MainInv'
  BY <1>1, <1>4 DEF Decide, Forward, Drop, Flowing, MainInv, ruleVars
<1>5. CASE End
  <2>1. CASE EndOfCapture
    BY <1>1, <2>1 DEF EndOfCapture, Goto, MainInv, ruleVars
  <2>2. CASE Stop
    BY <1>1, <2>2 DEF Stop, Goto, MainInv
  <2>3. CASE StopMetrics
    BY <1>1, <2>3 DEF StopMetrics, Goto, MainInv
  <2> QED BY <1>5, <2>1, <2>2, <2>3 DEF End
<1>6. CASE Finished \/ UNCHANGED vars
  BY <1>1, <1>6 DEF Finished, vars, MainInv, ruleVars
<1> QED BY <1>2, <1>3, <1>4, <1>5, <1>6 DEF Next

\* What a worker lets pass, no line asks for: the last line has been read.
LEMMA ForwardedUnlisted ==
    ASSUME TypeOK, RulesInv, MainInv, NEW i \in inFlight, Forward(i), rulesFile \in RuleFiles,
           NEW n \in DOMAIN rulesFile
    PROVE  ~AsksFor(rulesFile[n], PacketAt(i))
<1>1. rulesPc \in {"loaded", "absent"} /\ ShouldBlock(PacketAt(i)) = "FORWARD"
  BY DEF Forward, Flowing, MainInv
<1>2. rulesPc = "loaded"
  <2>1. rulesFile # NoRules
    BY FilesAreLines
  <2> QED BY <1>1, <2>1 DEF RulesInv
<1>3. PacketAt(i) \in Packets
  BY DEF TypeOK
<1>4. RulesInForce
  BY InvForces DEF TypeOK
<1>5. AsksFor(rulesFile[n], PacketAt(i)) => ShouldBlock(PacketAt(i)) = "DROP"
  BY <1>2, <1>3, <1>4 DEF RulesInForce
<1> QED BY <1>1, <1>5

LEMMA ListedStep ==
    ASSUME TypeOK, RulesInv, MainInv, ListedInv, [Next]_vars
    PROVE  ListedInv'
<1>1. input' = input
  BY StepKeeps
<1>2. /\ rulesFile' = rulesFile /\ taken \in Nat /\ taken' \in Nat
      /\ (taken' = taken \/ taken' = taken + 1)
  BY StepKeeps DEF TypeOK, CaptureTypeOK
<1>3. ASSUME written' = written, inFlight' \subseteq inFlight \cup {taken + 1}
      PROVE  ListedInv'
  <2>1. ASSUME NEW k \in DOMAIN written
        PROVE  written[k] \in 1 .. taken' /\ written[k] \notin inFlight'
    <3>1. written[k] \in 1 .. taken /\ written[k] \notin inFlight
      BY DEF ListedInv
    <3> QED BY <1>2, <1>3, <3>1
  <2>2. ASSUME NEW k \in DOMAIN written, rulesFile \in RuleFiles, NEW n \in DOMAIN rulesFile
        PROVE  ~AsksFor(rulesFile'[n], input'.records[written'[k]].packet)
    <3>1. ~AsksFor(rulesFile[n], PacketAt(written[k]))
      BY <2>2 DEF ListedInv
    <3> QED BY <1>1, <1>2, <1>3, <3>1 DEF PacketAt
  <2> QED BY <1>2, <1>3, <2>1, <2>2 DEF ListedInv, PacketAt
<1>4. ASSUME NEW i \in inFlight, Forward(i)
      PROVE  ListedInv'
  <2>1. written' = Append(written, i) /\ inFlight' = inFlight \ {i} /\ written \in Seq(Nat)
    BY <1>4 DEF Forward, WritePacket, TypeOK, CaptureTypeOK
  <2>2. i \in 1 .. taken /\ i \in Nat
    BY <1>2 DEF TypeOK
  <2>3. /\ DOMAIN written' = DOMAIN written \cup {Len(written) + 1}
        /\ \A k \in DOMAIN written : written'[k] = written[k] /\ k # Len(written) + 1
        /\ written'[Len(written) + 1] = i
    BY <2>1, <2>2
  <2>4. \A k \in DOMAIN written : written[k] \in 1 .. taken /\ written[k] \notin inFlight
    BY DEF ListedInv
  <2>5. \A k \in DOMAIN written' : written'[k] \in 1 .. taken' /\ written'[k] \notin inFlight'
    BY <1>2, <2>1, <2>2, <2>3, <2>4
  <2>6. ASSUME NEW k \in DOMAIN written', rulesFile \in RuleFiles, NEW n \in DOMAIN rulesFile
        PROVE  ~AsksFor(rulesFile'[n], input'.records[written'[k]].packet)
    <3>1. CASE k \in DOMAIN written
      <4>1. ~AsksFor(rulesFile[n], PacketAt(written[k]))
        BY <2>6, <3>1 DEF ListedInv
      <4> QED BY <1>1, <1>2, <2>3, <3>1, <4>1 DEF PacketAt
    <3>2. CASE k = Len(written) + 1
      <4>1. ~AsksFor(rulesFile[n], PacketAt(i))
        BY <1>4, <2>6, ForwardedUnlisted
      <4> QED BY <1>1, <1>2, <2>3, <3>2, <4>1 DEF PacketAt
    <3> QED BY <2>3, <3>1, <3>2
  <2>7. \A j, k \in DOMAIN written' : written'[j] = written'[k] => j = k
    <3>1. \A j, k \in DOMAIN written : written[j] = written[k] => j = k
      BY DEF ListedInv
    <3>2. \A k \in DOMAIN written : written[k] # i
      BY <2>4
    <3> QED BY <2>3, <3>1, <3>2
  <2> QED BY <1>2, <2>5, <2>6, <2>7 DEF ListedInv, PacketAt
<1>5. \/ written' = written /\ inFlight' \subseteq inFlight \cup {taken + 1}
      \/ \E i \in inFlight : Forward(i)
  <2>1. CASE ReadPacket
    BY <2>1 DEF ReadPacket, TakeRecord, writerVars
  <2>2. CASE OpenInput \/ OpenOutput \/ EndOfCapture
    BY <2>2 DEF OpenInput, OpenReader, OpenOutput, OpenWriter, EndOfCapture, EndOfInput, writerVars
  <2>3. ASSUME LoadRules \/ OpenInputFails \/ StartMetrics \/ OpenOutputFails \/ Stop \/ StopMetrics
               \/ Finished \/ UNCHANGED vars \/ \E i \in inFlight : Drop(i)
        PROVE  UNCHANGED captureVars /\ inFlight' \subseteq inFlight
    BY <2>3 DEF LoadRules, OpenInputFails, StartMetrics, OpenOutputFails, Stop, StopMetrics,
                Finished, Drop, vars
  <2>4. UNCHANGED captureVars => written' = written
    BY DEF captureVars, writerVars
  <2> QED BY <2>1, <2>2, <2>3, <2>4 DEF Next, Start, Decide, End
<1> QED BY <1>3, <1>4, <1>5

LEMMA InitInv == ASSUME Init PROVE IInv
<1>1. RulesTypeOK /\ RulesInv
  <2>1. \A i \in 1 .. line : FALSE
    BY DEF Init, RulesInit
  <2> QED BY <2>1 DEF Init, RulesInit, RulesTypeOK, RulesInv, Caused
<1>2. CaptureTypeOK
  <2>1. /\ input \in Captures /\ reader = "closed" /\ ~swap /\ taken = 0
        /\ output = NoFile /\ written = <<>>
    BY DEF Init, CaptureInit
  <2>2. swap \in BOOLEAN
    BY Zenon DEF Init, CaptureInit
  <2>3. written \in Seq(Nat)
    BY <2>1
  <2> QED BY <2>1, <2>2, <2>3 DEF CaptureTypeOK
<1>3. \A i \in 1 .. taken : FALSE
  BY DEF Init, CaptureInit
<1>4. TypeOK
  BY <1>1, <1>2 DEF Init, TypeOK
<1>5. written = <<>> /\ DOMAIN written = {}
  BY DEF Init, CaptureInit
<1>6. AllWholeRecordsTaken /\ OutInv
  BY <1>3, <1>5 DEF Init, CaptureInit, AllWholeRecordsTaken, OutInv
<1>7. MainInv /\ ListedInv
  BY <1>5 DEF Init, CaptureInit, MainInv, ListedInv
<1> QED BY <1>1, <1>4, <1>6, <1>7 DEF IInv

LEMMA NextInv == ASSUME IInv, [Next]_vars PROVE IInv'
<1>1. RulesInv'
  BY StepSplits, RulesInvStep DEF IInv, TypeOK
<1>2. AllWholeRecordsTaken'
  BY StepSplits, WholeStep DEF IInv, TypeOK
<1>3. OpenReader => output = NoFile
  BY DEF IInv, MainInv, OpenReader
<1>4. OutInv'
  BY <1>3, StepSplits, InFlightRead, OutStep DEF IInv, TypeOK
<1> QED BY <1>1, <1>2, <1>4, TypeStep, MainStep, ListedStep DEF IInv

\* The strengthening that is inductive: the sets against the lines read, main
\* against the files, and the output against its history.
THEOREM EngineInvariant == Spec => []IInv
  BY InitInv, NextInv, PTL DEF Spec

-----------------------------------------------------------------------------
(* What follows.                                                           *)

LEMMA OutReadsBack == IInv => OutputReadsBack
<1>1. SUFFICES ASSUME IInv, output # NoFile, input.magic = Magic, NEW k \in DOMAIN written
               PROVE  LET was == input.records[written[k]]
                          is  == output.records[k]
                      IN  /\ Whole(output.magic, is)
                          /\ is.packet = was.packet
                          /\ Meant(output.magic, is.header).ts_sec = Meant(input.magic, was.header).ts_sec
                          /\ Meant(output.magic, is.header).ts_usec = Meant(input.magic, was.header).ts_usec
                          /\ Meant(output.magic, is.header).incl_len = Meant(input.magic, was.header).incl_len
  BY DEF OutputReadsBack, IInv, OutInv
<1>2. PICK i : i = written[k]
  OBVIOUS
<1>3. i \in 1 .. taken /\ taken \in Nat
  BY <1>1, <1>2 DEF IInv, ListedInv, TypeOK, CaptureTypeOK
<1>4. CaptureTypeOK /\ CanOpen /\ swap = (input.magic = MagicSwapped) /\ i \in DOMAIN input.records
  BY <1>1, <1>3, TakenAreRecords DEF IInv, TypeOK
<1>5. PICK h \in Header : h = input.records[i].header
  BY <1>4, RecordParts
<1>6. ReadHeader(i) = h
  BY <1>1, <1>4, <1>5, ReadIsMeant DEF Meant
<1>7. PICK n : n = input.records[i].size
  OBVIOUS
<1>8. Number(h.incl_len) \in 1 .. MAX_PACKET /\ Number(h.incl_len) = n
  <2>1. Whole(input.magic, input.records[i])
    BY <1>1, <1>3 DEF IInv, AllWholeRecordsTaken
  <2> QED BY <1>1, <1>5, <1>7, <2>1 DEF Whole, Meant
<1>9. h.incl_len \in Word
  BY DEF Header
<1>10. NumberWord(n) = h.incl_len
  BY <1>8, <1>9, WordOfNumber
<1>11. output.magic = Magic /\ output.records[k] = OutputRecord(i)
  BY <1>1, <1>2 DEF IInv, OutInv
<1>12. PICK o : o = OutputHeader(i)
  OBVIOUS
<1>13. o.ts_sec = h.ts_sec /\ o.ts_usec = h.ts_usec /\ o.incl_len = h.incl_len
  BY <1>6, <1>7, <1>10, <1>12 DEF OutputHeader
<1>14. /\ OutputRecord(i).header = o /\ OutputRecord(i).size = n
       /\ OutputRecord(i).packet = input.records[i].packet
  BY <1>7, <1>12 DEF OutputRecord
<1>15. Whole(Magic, OutputRecord(i))
  BY <1>8, <1>13, <1>14 DEF Whole, Meant
<1> QED BY <1>1, <1>2, <1>5, <1>11, <1>13, <1>14, <1>15 DEF Meant

\* The variables keep their types, and only packets that have been read are
\* on their way.
THEOREM TypeCorrect == Spec => []TypeOK
  BY EngineInvariant, PTL DEF IInv

\* Whatever the file holds, once it is loaded each of its lines is obeyed: by
\* addresses and ports that its numbers really are, on every machine.
THEOREM RulesInForceHolds == Spec => []RulesInForce
<1>1. IInv => RulesInForce
  BY InvForces DEF IInv, TypeOK
<1> QED BY <1>1, EngineInvariant, PTL

\* A file of well-formed lines blocks nothing that it does not list.
THEOREM NothingElseBlockedHolds == Spec => []NothingElseBlocked
<1>1. IInv => NothingElseBlocked
  BY InvOnlyForces DEF IInv, TypeOK
<1> QED BY <1>1, EngineInvariant, PTL

\* No listed packet reaches the output of any run, and none reaches it twice.
THEOREM ListedNeverWrittenHolds == Spec => []ListedNeverWritten
<1>1. IInv => ListedNeverWritten
  BY DEF IInv, ListedInv, ListedNeverWritten
<1> QED BY <1>1, EngineInvariant, PTL

\* The reader takes exactly the whole records up to the first that is not, in
\* either byte order.
THEOREM AllWholeRecordsTakenHolds == Spec => []AllWholeRecordsTaken
  BY EngineInvariant, PTL DEF IInv

\* What is written reads back as what was read, for a capture in the byte
\* order of the machine.
THEOREM OutputReadsBackHolds == Spec => []OutputReadsBack
<1> QED BY OutReadsBack, EngineInvariant, PTL

=============================================================================

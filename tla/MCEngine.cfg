CONSTANTS
    OtherPacket = OtherPacket
    NoFile = NoFile
    NoRules = NoRules
    EmptyName = ""
    MaxOctet = 256
    Names <- MCNames
    Lower <- MCLower
    Finds <- MCFinds
    EndsWith <- MCEndsWith
    Bits <- MCBits
    Packets <- MCPackets
    Data <- MCData
    RuleFiles <- MCRuleFiles
    Captures <- MCCaptures
SPECIFICATION Spec
INVARIANTS TypeOK RulesInForce NothingElseBlocked ListedNeverWritten
           AllWholeRecordsTaken OutputReadsBack

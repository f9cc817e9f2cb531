CONSTANTS
    NoFile = NoFile
    NoRules = NoRules
    EmptyName = ""
    MaxOctet = 255
    Names <- MCNames
    Lower <- MCLower
    Finds <- MCFinds
    EndsWith <- MCEndsWith
    Bits <- MCBits
    Packets <- MCPackets
    Data <- MCPackets
    RuleFiles <- MCRuleFiles
    Captures <- MCCaptures
SPECIFICATION Spec
INVARIANT AppRulesBlockTheirApp

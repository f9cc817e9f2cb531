------------------------------ MODULE AppNames ------------------------------
(***************************************************************************)
(* The applications and how a host name is taken for one (types.cpp).      *)
(*                                                                         *)
(* A host name is not spelled out: Finds says which of the texts that the  *)
(* code looks for occur in it (std::string::find), EndsWith which of them  *)
(* it ends with, Lower what it is in lower case.                           *)
(***************************************************************************)
EXTENDS Integers, Sequences

CONSTANTS Names,       \* the host names that occur
          EmptyName,   \* the empty string
          Lower,       \* tolower on them
          Finds,       \* Finds[n]: the aliases and patterns that occur in n
          EndsWith     \* EndsWith[n]: the patterns' suffixes that n ends with

ASSUME NamesAssumption ==
    /\ EmptyName \in Names /\ Lower \in [Names -> Names]
    /\ Finds \in [Names -> SUBSET STRING] /\ EndsWith \in [Names -> SUBSET STRING]

\* appTypeToString, on the enumeration AppType.
NameOf ==
    [UNKNOWN |-> "Unknown", HTTP |-> "HTTP", HTTPS |-> "HTTPS", DNS |-> "DNS", TLS |-> "TLS",
     GOOGLE |-> "Google", FACEBOOK |-> "Facebook", YOUTUBE |-> "YouTube",
     TWITTER |-> "Twitter/X", INSTAGRAM |-> "Instagram", NETFLIX |-> "Netflix",
     AMAZON |-> "Amazon", MICROSOFT |-> "Microsoft", APPLE |-> "Apple",
     WHATSAPP |-> "WhatsApp", TELEGRAM |-> "Telegram", TIKTOK |-> "TikTok",
     SPOTIFY |-> "Spotify", ZOOM |-> "Zoom", DISCORD |-> "Discord", GITHUB |-> "GitHub",
     CLOUDFLARE |-> "Cloudflare"]

Apps == DOMAIN NameOf

\* The texts sniToAppType looks for, in its order: the first row with a text
\* that occurs decides.
Aliases ==
    << [app |-> "YOUTUBE",    texts |-> {"youtube", "ytimg", "youtu.be"}],
       [app |-> "GOOGLE",     texts |-> {"google", "gstatic", "googleapis", "gvt1"}],
       [app |-> "FACEBOOK",   texts |-> {"facebook", "fbcdn", "fb.com", "fbsbx", "meta.com"}],
       [app |-> "INSTAGRAM",  texts |-> {"instagram", "cdninstagram"}],
       [app |-> "WHATSAPP",   texts |-> {"whatsapp", "wa.me"}],
       [app |-> "TWITTER",    texts |-> {"twitter", "twimg", "x.com", "t.co"}],
       [app |-> "NETFLIX",    texts |-> {"netflix", "nflxvideo", "nflximg"}],
       [app |-> "AMAZON",     texts |-> {"amazon", "amazonaws", "cloudfront", "aws"}],
       [app |-> "MICROSOFT",  texts |-> {"microsoft", "msn.com", "office", "azure",
                                         "live.com", "outlook", "bing"}],
       [app |-> "APPLE",      texts |-> {"apple", "icloud", "mzstatic", "itunes"}],
       [app |-> "TELEGRAM",   texts |-> {"telegram", "t.me"}],
       [app |-> "TIKTOK",     texts |-> {"tiktok", "tiktokcdn", "musical.ly", "bytedance"}],
       [app |-> "SPOTIFY",    texts |-> {"spotify", "scdn.co"}],
       [app |-> "ZOOM",       texts |-> {"zoom"}],
       [app |-> "DISCORD",    texts |-> {"discord", "discordapp"}],
       [app |-> "GITHUB",     texts |-> {"github", "githubusercontent"}],
       [app |-> "CLOUDFLARE", texts |-> {"cloudflare"}] >>

\* The rows of Aliases that a name answers to.
Rows(name) == {i \in DOMAIN Aliases : Aliases[i].texts \cap Finds[Lower[name]] # {}}

SniToAppType(name) ==
    IF name = EmptyName THEN "UNKNOWN"
    ELSE IF Rows(name) = {} THEN "HTTPS"
    ELSE Aliases[CHOOSE i \in Rows(name) : \A j \in Rows(name) : i <= j].app

=============================================================================

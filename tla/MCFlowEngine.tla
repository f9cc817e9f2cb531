---------------------------- MODULE MCFlowEngine ----------------------------
(***************************************************************************)
(* Two connections, each in both directions: one to port 443, opened from  *)
(* the higher address, whose directions hash to the same worker; one       *)
(* between ports 53 and 80, opened from the lower address, whose           *)
(* directions hash to different workers.  One address, one port, one       *)
(* application and one name are blocked.                                   *)
(***************************************************************************)
EXTENDS FlowEngine, TLC

Tls == [src_ip |-> 8, dst_ip |-> 2, src_port |-> 5000, dst_port |-> 443, protocol |-> 6]
Web == [src_ip |-> 3, dst_ip |-> 4, src_port |-> 53, dst_port |-> 80, protocol |-> 17]

MCTuples == {Tls, Reverse(Tls), Web, Reverse(Web)}
MCHash == [t \in MCTuples |-> t.src_ip]
MCNames == {"video", "news", ""}
MCAppOf == "video" :> "YOUTUBE" @@ "news" :> "UNKNOWN" @@ "" :> "UNKNOWN"

\* A payload in which one extractor, or none, finds a name.
Found(kind, name) == [[k \in {"tls", "http", "dns"} |-> NoName] EXCEPT ![kind] = name]
MCPayloads == {Found("tls", NoName), Found("tls", "video"), Found("tls", "news"),
               Found("http", "video"), Found("http", ""), Found("dns", "video")}

=============================================================================

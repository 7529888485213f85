------------------------- MODULE MCConnectionHandler -------------------------
(* A group of two members, the second one faster; a domain for each policy *)
(* that rules name, one of them the first server itself; the group's name  *)
(* in either case, or the very name of that server.                        *)
EXTENDS ConnectionHandler

CONSTANT none

MCConfigured == <<"SS-HK", "ss-jp">>
MCLatency == "SS-HK" :> 2 @@ "ss-jp" :> 1
MCPolicyOf == "rejected" :> "REJECT" @@ "direct" :> "DIRECT" @@ "proxied" :> "Group"
                @@ "named" :> "ss-hk" @@ none :> "Group"
MCUpper == "REJECT" :> "REJECT" @@ "DIRECT" :> "DIRECT" @@ "Group" :> "GROUP" @@ "ss-hk" :> "SS-HK"
=============================================================================

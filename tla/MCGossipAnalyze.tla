-------------------------- MODULE MCGossipAnalyze --------------------------
(***************************************************************************)
(* Two keys, one without an AS number and without sockets; a graph of two  *)
(* nodes and a channel.                                                    *)
(***************************************************************************)
EXTENDS GossipAnalyze

CONSTANTS k1, k2, as1

MCNodeList == <<k1, k2>>
MCAsnOf == (k1 :> as1) @@ (k2 :> NoAsn)
MCAddrsOf == (k1 :> <<"v6_special", "hostname", "invalid">>) @@ (k2 :> <<"onion_v3">>)
MCScripts == {<<"DumpNodeInfo", "FetchASNInfo">>, <<"DumpNodeInfo", "ExtractAddrsNodeInfo">>,
              <<"Dump">>}
=============================================================================

------------------------------ MODULE MCProxy ------------------------------
(***************************************************************************)
(* The pauses of both clients and the time limits of proxi.py: 5 s for the *)
(* public address, 10 s for the location, 10 s for the weather or the news.*)
(***************************************************************************)
EXTENDS Proxy, TLC

MCPause    == (info :> 30) @@ (news :> 15)
MCUpstream == (info :> 5 + 10 + 10) @@ (news :> 10)
=============================================================================

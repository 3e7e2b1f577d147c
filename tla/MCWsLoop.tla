------------------------------ MODULE MCWsLoop ------------------------------
(***************************************************************************)
(* The loop on the driver's frames: masked for a server, bare for a client.*)
(***************************************************************************)
EXTENDS MCWsDriver, WsLoop

MCBothStreams == MCStreams \union {StreamOf(Bares(s), p) : s \in Scripts, p \in Pacings}

\* The peer of a client is a server that masks nothing; the peer of a server is
\* a client that masks its frames, but for the one of Illegal.
MCPeers == stream.script \in (IF conn.role = "CLIENT" THEN {Bares(s) : s \in Scripts} ELSE Scripts)

MCInit == LoopInit /\ MCPeers

MCSpec == MCInit /\ [][LoopNext]_loopVars /\ LoopFairness
=============================================================================

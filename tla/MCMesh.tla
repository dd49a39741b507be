------------------------------- MODULE MCMesh -------------------------------
(* a and c call b, which only answers: two offers of one robot, and two   *)
(* robots that call the same one.                                          *)
EXTENDS Mesh, TLC

MCPeersOf == ("a" :> {"b"}) @@ ("b" :> {NoRobot}) @@ ("c" :> {"b"})
MCMaxRuns == ("a" :> 2) @@ ("b" :> 2) @@ ("c" :> 1)
NoHyphen == <<>>
=============================================================================

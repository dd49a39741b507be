---------------------------- MODULE MCSampleFlow ----------------------------
(* A sensor topic that a rule names in its legacy spelling, and a rule     *)
(* triggered by a zone topic.                                              *)
EXTENDS SampleFlow, TLC

MCHyphened == "robot-7" :> "7"
Bumper == <<"robot", "7", "local", "bumper">>
MCTriggers == {<<"robot-7", "local", "bumper">>, <<"zone", "dock", "entered">>}
MCKeys == {Bumper}
MCZonePath == <<"dock">>
=============================================================================

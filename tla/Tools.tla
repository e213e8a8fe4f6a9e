------------------------------- MODULE Tools -------------------------------
(***************************************************************************)
(* The command-line programs of model/ together: the trace parser with the *)
(* simulators that read its file, the studies and the scenario.  They have *)
(* only files in common, and only the trace is read back, by LoadCalls; so *)
(* a study or a scenario is followed on its own, from the start to the     *)
(* end, and the programs that share the trace in every order.              *)
(***************************************************************************)
EXTENDS TraceParser, Studies, Scenario

toolVars == <<traceVars, study, scn>>

TraceUntouched == cache = Absent /\ fetch = Fetch("idle", 0, <<>>) /\ sessions = <<>>

ToolsInit == TraceInit /\ StudyInit /\ ScenarioInit

TraceRuns == /\ study = NoStudy /\ scn = NoScenario
             /\ TraceNext
             /\ UNCHANGED <<study, scn>>

StudyRuns == /\ TraceUntouched /\ scn = NoScenario
             /\ StudyNext
             /\ UNCHANGED <<traceVars, scn>>

ScenarioRuns == /\ TraceUntouched /\ study = NoStudy
                /\ ScenarioNext
                /\ UNCHANGED <<traceVars, study>>

ToolsNext == TraceRuns \/ StudyRuns \/ ScenarioRuns

ToolsSpec == ToolsInit /\ [][ToolsNext]_toolVars
=============================================================================

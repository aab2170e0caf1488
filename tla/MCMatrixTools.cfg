SPECIFICATION MCSpec
CONSTANT Variables = {"A", "B", "C"}
CONSTANT Overrides = {"overrides", "process"}
CONSTANT Renders <- MCRenders
CONSTANT Requests <- MCRequests
INVARIANTS MergedInOrder Verbatim OnlyNamedVariables RunsWhatTheChartAsks RefusedWithAnError OverridesInEffect

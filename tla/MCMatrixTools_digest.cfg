SPECIFICATION MCSpec
CONSTANT Variables = {"A", "B", "C"}
CONSTANT Overrides = {"overrides", "process"}
CONSTANT Renders <- MCRenders
CONSTANT Requests <- MCRequests
INVARIANT DigestIsEnough

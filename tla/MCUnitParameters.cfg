SPECIFICATION Spec
CONSTANTS
    Projects <- MCProjects
    Nodes <- MCNodes
    MaxDepth = 2
INVARIANT UnitParametersSkipped

SPECIFICATION Spec
CONSTANTS
    Names <- MCNames
    NameLen <- MCNameLen
    HeadLen = 16
    MaxInodes = 3
    MaxDepth = 3
INVARIANTS
    TypeOK
    DirectoriesFormTree
PROPERTY ImplementsPathTree
VIEW Databases

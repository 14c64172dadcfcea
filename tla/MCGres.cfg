SPECIFICATION Spec
CONSTANTS
    Operators = {o1, o2}
    Passwords = {"p"}
    NoPassword = "none"
    Requests <- MCRequests
    MaxVersion = 3
    MaxKey = 3
    MaxId = 4
    MaxOperations = 1
INVARIANTS
    TypeOK
    
    PlansFit
    
 
SYMMETRY Symmetry

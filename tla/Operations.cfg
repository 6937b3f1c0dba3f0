SPECIFICATION Spec
CONSTANTS
    None = None
INVARIANTS
    ReleaseSafe
    RepositorySafe
    SandboxSafe
PROPERTIES
    OperationSteps
CHECK_DEADLOCK FALSE

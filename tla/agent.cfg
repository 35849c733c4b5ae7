\* An agent's lines, on tables that fit the definition and on others.
SPECIFICATION Spec
CONSTANTS
    a = a
    v = v
    Null = Null
    Misfit = Misfit
    Opaque = Opaque
    NoRow = NoRow
    Definition <- Article
    Databases = {"stamped", "bare", "shadowed", "owned", "mistyped", "numbered", "missing"}
    Schema <- Tables
    Messages <- AgentMessages
    Ids = {a}
    MaxLines = 2
    MaxFailures = 1
    MaxChanges = 1
INVARIANTS
    TypeOK
    AnswersInOrder
    AnswersAgreeWithAudit
PROPERTIES
    UnnamedFieldsStay
    AdequateTablesTakeChanges

\* An agent searches the audit log of a whole resource.
SPECIFICATION Spec
CONSTANTS
    a = a
    v = v
    Null = Null
    Misfit = Misfit
    Opaque = Opaque
    NoRow = NoRow
    Definition <- Article
    Databases = {"stamped"}
    Schema <- Tables
    Messages <- SearchMessages
    Ids = {a}
    MaxLines = 2
    MaxFailures = 0
    MaxChanges = 0
PROPERTY
    SearchFindsTheResource

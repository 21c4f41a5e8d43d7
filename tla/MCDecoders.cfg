SPECIFICATION Spec
CONSTANTS
    Bytes <- MCBytes
    MaxBytes = 6
    MaxBehind = 1
    Colon = 58
    Invalid = {255}
    AuthRows <- MCAuthRows
    StateRows <- MCStateRows
    SecretRows <- MCSecretRows
    MaxRows = 3
    Payloads <- MCPayloads
INVARIANTS
    HeadersExact
    FirstRowsWin
    ErrorNamesOffender

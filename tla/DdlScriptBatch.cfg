\* A script's DDL statements against the README's word on START BATCH DDL.
SPECIFICATION Spec
CONSTANTS
    MaxDdl = 1
    MaxOps = 1
PROPERTY BatchedDdlWaits

\* The prototype loader on every linux.efi of up to 4 bytes, with every
\* sequence of firmware read sizes and failures.
CONSTANTS
    x = x
    y = y
    NoFile = NoFile
    NoValue = NoValue
    Bytes <- MCBytes
    MaxFileLen <- MCMaxFileLen
    ChunkSize <- MCChunkSize
SPECIFICATION Spec
INVARIANT KernelIsFile
CHECK_DEADLOCK FALSE

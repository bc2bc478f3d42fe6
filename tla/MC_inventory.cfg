\* Every INI file of up to five lines over two names and the YAML documents
\* of MCYamlDocs; or every free-form string of up to three pieces; or
\* every manager of VM's inventory, play, task and -e lists.
CONSTANTS
    Names = {"a", "b"}
    MaxLines = 5
    Patterns <- MCPatterns
    YamlDocs <- MCYamlDocs
SPECIFICATION ParseSpec
INVARIANTS
    ParseTypeOK
    CycleDetectionExact
    AllCoversHosts
    GroupPatternsMatchSpec
    BlockFreeRoundTrip
    NoPanicAfterWord
    PrecedenceLaw
    ExtraVarsWin
    EndTermsMatchReference

CONSTANTS
    Length = 4
    Kinds = {"head", "num", "cont", "blank", "bad"}
    Inputs <- MCInputs
    Formats = {"Json", "Logfmt", "Csv", "Regex"}
    FlushLines = 2
    MaxTokens = 2
    Scenarios = {"static", "stream"}
SPECIFICATION Spec

    
PROPERTIES
    ImplementsOrderedIngest

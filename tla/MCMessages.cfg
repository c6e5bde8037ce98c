CONSTANTS
    Bytes <- MCBytes
    Utf8 <- MCUtf8
    Ascii <- MCAscii
    UuidText = {"f0"}
    Digits = {"7"}
    Others = {"x"}
    Headers <- MCHeaders
    Answers <- MCAnswers
    Options <- MCOptions
    Foreign <- MCForeign
SPECIFICATION MessagesSpec
INVARIANTS
    HeadersSurvive
    ReplyCorrelates
CHECK_DEADLOCK FALSE

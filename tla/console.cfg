\* Prints, exceptions, an NMI at any time, and the kernel.
SPECIFICATION Spec
CONSTANTS
    Rows = 3
    Cols = 3
    NL = "nl"
    CR = "cr"
    Blank = " "
    Old = "."
    TestByte = "AE"
    Texts <- MCTexts
    Exceptions <- MCExceptions
    NmiText <- MCNmiText
    Greeting <- MCGreeting
    Prompts = {TRUE, FALSE}
    MaxOut = 8
INVARIANTS ScreenShowsText SerialCarriesText FaultMessageReadable
PROPERTIES PrintsReturn
CHECK_DEADLOCK FALSE

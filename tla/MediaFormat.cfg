SPECIFICATION Spec
CONSTANTS
    Rates = {0, 1, 8000, 11025, 16000, 22050, 44100, 48000}
    ChannelCounts = {0, 1, 2, 3, 40, 40000}
    FrameLengths = {0, 1, 7, 8, 9, 11, 12, 16, 23, 24, 45, 80, 89, 160, 256, 441, 480, 882, 960, 1024, 1074, 2000}
    Stamps = {80, 99, 100, 160, 240}
    Clocks <- TestClocks
    FieldRange = 1073741824
    StampRange = 100
INVARIANTS
    TypeOK
    RefusesShortFrames
    BridgeDividesByTime
    SentFramesMatch
    TimesLag
PROPERTIES
    TimesGoForward
CHECK_DEADLOCK FALSE

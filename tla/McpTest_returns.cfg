CONSTANTS Chatter = {"log", "event"} PipeCap = 2 ChanCap = 1 MaxLines = 3
SPECIFICATION TestFairSpec
PROPERTY TestReturns
CHECK_DEADLOCK FALSE

SPECIFICATION FairSpec
CONSTANTS
    ch1 = ch1
    Clients = {c1, c2}
    Tries = {t1}
    Keys = {k, l}
    Values = {none, v}
    NoValue = none
    Channels = {ch1}
    channelOf <- MCChannelOf
    InitLoaded = {k}
    Ops = {"update", "get", "delete", "hash", "commit"}
    Exclusive = {"get", "delete", "hash", "commit"}
    MaxOps = 1
PROPERTIES
    
    CallsReturn

SPECIFICATION SecureSpec
CONSTANTS
    ch1 = ch1
    Clients = {c1, c2, c3}
    Tries = {t1}
    Keys = {k, l}
    Values = {none, v}
    NoValue = none
    Channels = {ch1}
    channelOf <- MCChannelOf
    InitLoaded = {k}
    Ops = {}
    Exclusive = {}
    MaxOps = 1
    SecureOps = {"update", "delete", "commit"}
    NoClient = NoClient
 
INVARIANT PreimagesAreExact
INVARIANT UpdatesOwnKey
PROPERTY UpdatesAreAtomic

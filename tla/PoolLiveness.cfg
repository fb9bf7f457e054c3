CONSTANTS
    w1 = w1
    w2 = w2
    t1 = t1
    t2 = t2
    t3 = t3
    t4 = t4
    s1 = s1
    s2 = s2
    d1 = d1
    alice = alice
    bob = bob
    Worker <- TwoWorkers
    Mover = mover
    Tx <- PairTx
    SysTx = {}
    Sender = {alice}
    Nonce = {1}
    SenderOf <- PairSenderOf
    NonceOf <- PairNonceOf
    Data = {}
    DataOf <- Nothing
    HashRank <- Nothing
    Copy = {c1, c2}
    Size = 2
    Limit = 1
    Resubmit = FALSE
    NoPtr = NoPtr
    NoTx = NoTx
SPECIFICATION FairSpec
PROPERTY
    CoQueueDrains

CONSTANTS
    Word = 100
    Arguments <- MCArguments
    CommandLines <- MCCommandLines
    MaxProduced = 30
    Unlimited = Unlimited
SPECIFICATION FairSpec
INVARIANTS
    EnumeratesPatterns
    PayloadKept
PROPERTY GeneratorEnds
CHECK_DEADLOCK FALSE

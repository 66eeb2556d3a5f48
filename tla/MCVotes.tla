------------------------------- MODULE MCVotes -------------------------------
EXTENDS Votes
\* The clients share an address or not; of that, of the majority and of the
\* room every pair of values occurs in one of the four.  In one of them client 1
\* may moderate, in another it may force votes.
SameAddress == [c \in Clients |-> 1]
OwnAddress == [c \in Clients |-> c]
Setting(addr, majority, moderating, forcing, calling) ==
    [addr |-> addr, majority |-> majority, moderating |-> moderating,
     forcing |-> forcing, calling |-> calling]
FourConfigs ==
    {Setting(SameAddress, TRUE, {}, {}, {1, Server}),
     Setting(SameAddress, FALSE, {1}, {}, {0}),
     Setting(OwnAddress, FALSE, {}, {}, {1, Server}),
     Setting(OwnAddress, TRUE, {}, {1}, {0, Server})}
==============================================================================

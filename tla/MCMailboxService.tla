-------------------------- MODULE MCMailboxService --------------------------
EXTENDS MailboxService

CONSTANTS d1, d2, s1, s2, t1, r1, r2

One == {d1}
Two == {d1, d2}
OneThread == {t1}
OnThread == [d \in Dispatch |-> t1]
SameRank == [d \in Dispatch |-> 0]
NoKeys == [d \in Dispatch |-> NoKey]
OneServer == {s1}
TwoServers == {s1, s2}
AtFirst == [d \in Dispatch |-> s1]
OneEach == [d \in Dispatch |-> IF d = d1 THEN s1 ELSE s2]
TwoRuns == {r1, r2}
OwnRun == [d \in Dispatch |-> IF d = d1 THEN r1 ELSE r2]
=============================================================================

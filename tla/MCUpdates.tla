----------------------------- MODULE MCUpdates ------------------------------
EXTENDS Updates, TLC
CONSTANT d1

\* 1.0, the prerelease 1.1-rc1 and the release 1.1.0
v1 == [parts |-> <<1, 0>>, pre |-> 0]
v2 == [parts |-> <<1, 1>>, pre |-> 1]
v3 == [parts |-> <<1, 1, 0>>, pre |-> 0]
MCVersions == {v1, v2, v3}
Ahead == d1 :> v3
=============================================================================

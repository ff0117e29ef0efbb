-------------------------- MODULE MCSessionCloseout --------------------------
EXTENDS SessionCloseout, TLC
CONSTANTS s1, s2, s3, d1, d2
\* s1 and s2 have no id.
MCDirOf == (s1 :> d1) @@ (s2 :> d1) @@ (s3 :> d2)
MCGroups == {{s1, s2}, {s1, s3}}
MCDefaultDir == [s \in HostSessions |-> d1]
MCAll == {HostSessions}
=============================================================================

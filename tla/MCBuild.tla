------------------------------ MODULE MCBuild ------------------------------
EXTENDS Build, MCChanges

MCBuildRamdisks ==
    {r \in MCRamdisks : r.policy /\ ~r.superuserrc
                        /\ r.extra \in {{}, {"su", "knox_system_app"}}}
=============================================================================

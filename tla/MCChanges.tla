----------------------------- MODULE MCChanges -----------------------------
EXTENDS Changes

MCRamdisks ==
    [release : Releases, policy : BOOLEAN, extra : SUBSET Extras,
     fstabs : {<<>>, <<"fstab.qcom">>, <<"fstab", "fstab.qcom">>}, superuserrc : BOOLEAN]

\* The four variants of build.sh, the config.txt of make-zip.sh, and command
\* lines with every other word.
MCArguments ==
    {<<>>, <<"eng">>, <<"eng", "noverity">>, <<"eng", "noverity", "nocrypt">>,
     <<"eng", "verity", "crypt">>, <<"power", "hidesu", "keeprecovery">>,
     <<"hidesu">>, <<"nocrypt_all", "noverity", "verity">>,
     <<"eng", "permissivesysinit", "user">>, <<"nocrypt", "crypt", "hidesu">>}
=============================================================================

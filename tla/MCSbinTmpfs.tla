----------------------------- MODULE MCSbinTmpfs -----------------------------
EXTENDS SbinTmpfs

MCEntries == {"su", "hidesu", "ueventd", "dir"}
MCKind == [e \in MCEntries |-> CASE e = "ueventd" -> "lnk" [] e = "dir" -> "other"
                                 [] OTHER -> "reg"]
MCSize == [e \in MCEntries |-> CASE e = "su" -> 2 [] e = "hidesu" -> 1 [] OTHER -> 0]
=============================================================================

------------------------------ MODULE MCTools ------------------------------
EXTENDS Tools, MCExtract, MCRepack
=============================================================================

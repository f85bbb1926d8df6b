------------------------------ MODULE MCExtract ------------------------------
EXTENDS Extract, MCImages

MCExtractImages == WholeImages \cup VendorImages \cup BrokenImages
=============================================================================

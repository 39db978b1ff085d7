---------------------------- MODULE MCDiskCache ----------------------------
EXTENDS DiskCache

TwoSegments   == <<1, 1>>
=============================================================================

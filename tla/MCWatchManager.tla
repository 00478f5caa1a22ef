--------------------------- MODULE MCWatchManager ---------------------------
\* Small instances of the watch manager for TLC: metadata directories that Git replaces,
\* one directory that comes and goes, and channels of capacity one.
EXTENDS WatchManager
=============================================================================

------------------------------ MODULE MCRunBench ------------------------------
EXTENDS RunBench

\* The engine is right about every third record; latencies differ by record.
ThirdMatches(r) == r[2] % 3 = 0
BucketOf(r) == r[2] % HistEntries
===============================================================================

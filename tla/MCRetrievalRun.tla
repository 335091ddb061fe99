---------------------------- MODULE MCRetrievalRun ----------------------------
EXTENDS RetrievalRun

CONSTANTS s1, s2, q1, q2, B2, A1, B4, t1

\* Three records: two of one question that both rewrite, one as it is.
MCSchedule == <<<<q1, B2>>, <<q1, B4>>, <<q2, A1>>>>
MCSmoke == <<<<q1, B4>>>>
=============================================================================

---------------------------- MODULE MCSafeQueue ----------------------------
EXTENDS SafeQueue

\* pop(int num) is called with a negative, a small and a large count.
MCCounts == {-1, 1, 2}
============================================================================

---------------------------- MODULE MCThreadPool ----------------------------
EXTENDS ThreadPool

\* One index with a registered function and one without.
MCStates == {"read", "unknown"}
MCRegistered == {"read"}
=============================================================================

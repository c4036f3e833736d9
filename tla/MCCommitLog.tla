----------------------------- MODULE MCCommitLog -----------------------------
EXTENDS CommitLog
=============================================================================

---- MODULE MCRaftLogStore ----
EXTENDS RaftLogStore
====

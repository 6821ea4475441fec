---------------------------- MODULE MCManagedSsh ----------------------------
\* Instance of ManagedSsh for TLC: the two subtransports of git2go, and one
\* that a user may write, which has a stream for its whole life.
EXTENDS ManagedSsh

http == [stateless |-> TRUE, reuse |-> "never"]
ssh == [stateless |-> FALSE, reuse |-> "listing"]
oneStream == [stateless |-> FALSE, reuse |-> "always"]

Git2goKinds == {http, ssh, oneStream}
=============================================================================

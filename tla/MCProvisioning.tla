--------------------------- MODULE MCProvisioning ---------------------------
EXTENDS Provisioning, TLC

\* As much on cluster 2 as the trial allows.
MCInitial == { <<{"a"}, {"b"}>> }

\* Nothing; rows with a name that no cluster has and with none: another
\* database on cluster 2, where the first one stays; and one too many there.
MCEdits ==
    { <<>>,
      <<[name |-> 3, databases |-> {"a", "b"}], [name |-> 0, databases |-> {"a"}]>>,
      <<[name |-> 0, databases |-> {"a"}], [name |-> 3, databases |-> {"a", "b"}]>> }
=============================================================================

------------------------------- MODULE MCEvoDB ------------------------------
EXTENDS EvoDB

\* Every key and every value has a size of its own.
MCKey == 1..3
MCValue == {10, 20}
MCKeySize == [k \in MCKey |-> k]
MCValueSize == [v \in MCValue |-> v]
=============================================================================

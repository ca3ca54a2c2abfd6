------------------------------ MODULE MCThreads ------------------------------
\* Instances of Threads for TLC: a tree /, /d and a file /f.
EXTENDS Threads

MCDir  == {<<"/">>, <<"/", "d">>}
MCFile == {<<"/", "f">>}
=============================================================================

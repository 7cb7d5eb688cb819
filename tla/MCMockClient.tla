---------------------------- MODULE MCMockClient ------------------------------
EXTENDS MockClient

\* k=a and k=b set key k; "=a" has an empty key and "ka" no "=": CheckTx
\* refuses both.
MCTxs == {<< "k", "=", "a" >>, << "k", "=", "b" >>, << "=", "a" >>, << "k", "a" >>}
=============================================================================

----------------------------- MODULE MCSSLSession -----------------------------
EXTENDS SSLSession

CONSTANTS t1, t2, s1

MCThreads  == {t1, t2}
MCSessions == {s1}
=============================================================================

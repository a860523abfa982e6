------------------------ MODULE MCSSLCertificateManager ------------------------
EXTENDS SSLCertificateManager

CONSTANTS t1, t2, dom1, dom2, ctx1, ctx2

MCThreads  == {t1, t2}
MCDomains  == {dom1, dom2}
MCContexts == {ctx1, ctx2}
MCInitialized == {ctx1}
=============================================================================

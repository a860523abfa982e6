------------------------------ MODULE SSLContext ------------------------------
(***************************************************************************)
(* cppnet::SSLContext (src/cppnet/ssl/ssl_context.cpp), in the build with  *)
(* USE_OPENSSL: InitServer and InitClient, through the Init they share.    *)
(*                                                                         *)
(* The class declares a _mutex and no method takes it, so callers on       *)
(* different threads interleave at every access to _initialized, _server   *)
(* and _ssl_ctx.  A step is one read or write of those members together    *)
(* with the OpenSSL call that uses what was read.  An SSL_CTX is named by  *)
(* its allocation number; what OpenSSL answers (a file loads or not, an    *)
(* allocation succeeds or not) is a nondeterministic input.                *)
(***************************************************************************)
EXTENDS Naturals, FiniteSets

CONSTANTS
    Threads,      \* threads calling into one SSLContext object
    MaxCalls,     \* bound on InitServer / InitClient calls per thread
    NoCtx         \* nullptr

VARIABLES
    initialized,  \* _initialized
    sslCtx,       \* _ssl_ctx: an allocation number or NoCtx
    allocated,    \* SSL_CTX objects SSL_CTX_new has returned so far
    freed,        \* those passed to SSL_CTX_free
    pc,           \* pc[t]: where thread t is inside its call
    withCert,     \* withCert[t]: Init was passed a cert_file and key_file
    calls         \* calls[t]: calls thread t has made

vars == <<initialized, sslCtx, allocated, freed, pc, withCert, calls>>

Live(c) == c # NoCtx /\ c \notin freed

\* Move thread t to program point p; "idle" is the return to the caller.
Goto(t, p) == pc' = [pc EXCEPT ![t] = p]

(***************************************************************************)
(* A caller starts InitServer(cert_file, key_file, ca_file) or             *)
(* InitClient(ca_file).  cert says whether Init receives a non-empty       *)
(* cert_file and key_file; InitClient passes none.  _server and the CA     *)
(* file do not bear on the SSL_CTX's lifetime and are left out.            *)
(***************************************************************************)
StartInit(t, cert) ==
    /\ pc[t] = "idle"
    /\ calls[t] < MaxCalls
    /\ withCert' = [withCert EXCEPT ![t] = cert]
    /\ calls'    = [calls EXCEPT ![t] = @ + 1]
    /\ Goto(t, "check")
    /\ UNCHANGED <<initialized, sslCtx, allocated, freed>>

\* Init, lines 29-31: an initialized context returns true at once, and
\* InitServer / InitClient go on to the CA file, which only sets _ca_file.
InitCheck(t) ==
    /\ pc[t] = "check"
    /\ Goto(t, IF initialized THEN "idle" ELSE "alloc")
    /\ UNCHANGED <<initialized, sslCtx, allocated, freed, withCert, calls>>

\* Lines 33-43: _server picks the method, and _ssl_ctx = SSL_CTX_new(method),
\* which may fail.
InitAlloc(t) ==
    /\ pc[t] = "alloc"
    /\ \E ok \in BOOLEAN :
         LET c == Cardinality(allocated) + 1
         IN  /\ sslCtx'    = IF ok THEN c ELSE NoCtx
             /\ allocated' = IF ok THEN allocated \cup {c} ELSE allocated
    /\ Goto(t, "nullcheck")
    /\ UNCHANGED <<initialized, freed, withCert, calls>>

\* Lines 44-48: the null test reads the member again, which another
\* thread may have overwritten since.
InitNullCheck(t) ==
    /\ pc[t] = "nullcheck"
    /\ Goto(t, IF sslCtx = NoCtx THEN "idle"
                ELSE IF withCert[t] THEN "loadcert" ELSE "mark")
    /\ UNCHANGED <<initialized, sslCtx, allocated, freed, withCert, calls>>

\* LoadCertificates (lines 91-111) on whatever _ssl_ctx holds now: a null
\* member fails, and so may any of the three file calls.
InitLoadCert(t) ==
    /\ pc[t] = "loadcert"
    /\ \E ok \in BOOLEAN :
         Goto(t, IF ok /\ sslCtx # NoCtx THEN "mark" ELSE "free")
    /\ UNCHANGED <<initialized, sslCtx, allocated, freed, withCert, calls>>

\* Line 50: SSL_CTX_free on the member as it reads it now.
InitFree(t) ==
    /\ pc[t] = "free"
    /\ freed' = IF sslCtx = NoCtx THEN freed ELSE freed \cup {sslCtx}
    /\ Goto(t, "null")
    /\ UNCHANGED <<initialized, sslCtx, allocated, withCert, calls>>

\* Lines 51-52: _ssl_ctx = nullptr, and Init returns false.
InitNull(t) ==
    /\ pc[t] = "null"
    /\ sslCtx' = NoCtx
    /\ Goto(t, "idle")
    /\ UNCHANGED <<initialized, allocated, freed, withCert, calls>>

\* Line 56: _initialized = true, and Init returns true.
InitMark(t) ==
    /\ pc[t] = "mark"
    /\ initialized' = TRUE
    /\ Goto(t, "idle")
    /\ UNCHANGED <<sslCtx, allocated, freed, withCert, calls>>

\* The constructor: not initialized, no SSL_CTX.
Init ==
    /\ initialized = FALSE
    /\ sslCtx      = NoCtx
    /\ allocated   = {}
    /\ freed       = {}
    /\ pc          = [t \in Threads |-> "idle"]
    /\ withCert    = [t \in Threads |-> FALSE]
    /\ calls       = [t \in Threads |-> 0]

Next ==
    \E t \in Threads :
        \/ \E cert \in BOOLEAN : StartInit(t, cert)
        \/ InitCheck(t)
        \/ InitAlloc(t)
        \/ InitNullCheck(t)
        \/ InitLoadCert(t)
        \/ InitFree(t)
        \/ InitNull(t)
        \/ InitMark(t)

Spec == Init /\ [][Next]_vars

=============================================================================

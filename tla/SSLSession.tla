------------------------------ MODULE SSLSession ------------------------------
(***************************************************************************)
(* cppnet::SSLSession (src/cppnet/ssl/ssl_context.cpp, lines 192-341) over *)
(* the SSLContext it is given: the context's InitServer / InitClient       *)
(* threads of SSLContext.tla run alongside sessions that are initialized   *)
(* from that context and then handshake, shut down and close.              *)
(*                                                                         *)
(* Each session is one object used by one connection, so each of its      *)
(* methods is one step, except Init, which reads the context twice: once   *)
(* in IsInitialized() (line 210) and again in GetNativeContext() for       *)
(* SSL_new (line 215).  An SSL object is named by its allocation number,   *)
(* 0 standing for nullptr.  What OpenSSL answers (SSL_new succeeds, a      *)
(* handshake or shutdown completes) is a nondeterministic input.  Read and *)
(* Write change no member and are left out; _sockfd, SSL_set_fd and the    *)
(* accept / connect state do not bear on the properties and are left out. *)
(***************************************************************************)
EXTENDS SSLContext

CONSTANTS
    Sessions,         \* SSLSession objects sharing the one context
    MaxSessionCalls   \* bound on the method calls made on each session

VARIABLES
    sess,             \* sess[s]: the members of session s, and where Init is
    sslMade,          \* SSL objects SSL_new has returned so far
    sessCalls         \* sessCalls[s]: method calls made on session s

sessionVars == <<sess, sslMade, sessCalls>>
allVars     == <<vars, sessionVars>>

\* The constructor: _ssl = nullptr, neither handshaked nor closing.
NewSession == [ssl |-> 0, handshaked |-> FALSE, closing |-> FALSE, pc |-> "idle"]

\* Session s, idle and under its call bound, makes one more call.
Call(s) ==
    /\ sess[s].pc = "idle"
    /\ sessCalls[s] < MaxSessionCalls
    /\ sessCalls' = [sessCalls EXCEPT ![s] = @ + 1]

\* Init, line 210: a context that is not initialized returns false.
SessionInitCheck(s) ==
    /\ Call(s)
    /\ sess' = [sess EXCEPT ![s].pc = IF initialized THEN "ssl_new" ELSE "idle"]
    /\ UNCHANGED <<sslMade>>

\* Lines 215-233: _ssl = SSL_new(GetNativeContext()), reading _ssl_ctx again.
\* SSL_new(nullptr) fails, as may the allocation; either way the member is
\* overwritten, and _handshaked and _closing are left as they were.
SessionSSLNew(s) ==
    /\ sess[s].pc = "ssl_new"
    /\ \E ok \in BOOLEAN :
         LET made == ok /\ sslCtx # NoCtx
         IN  /\ sslMade' = IF made THEN sslMade + 1 ELSE sslMade
             /\ sess' = [sess EXCEPT ![s].ssl = IF made THEN sslMade + 1 ELSE 0,
                                     ![s].pc  = "idle"]
    /\ UNCHANGED <<sessCalls>>

\* Handshake: true at once with no _ssl or when already handshaked;
\* otherwise SSL_do_handshake completes or not (want read / write, error).
SessionHandshake(s) ==
    /\ Call(s)
    /\ IF sess[s].ssl = 0 \/ sess[s].handshaked
       THEN UNCHANGED sess
       ELSE \E done \in BOOLEAN : sess' = [sess EXCEPT ![s].handshaked = done]
    /\ UNCHANGED <<sslMade>>

\* Shutdown: true at once with no _ssl or when closing; otherwise one or
\* two SSL_shutdown calls, and _closing is set when one returns 1.
SessionShutdown(s) ==
    /\ Call(s)
    /\ IF sess[s].ssl = 0 \/ sess[s].closing
       THEN UNCHANGED sess
       ELSE \E done \in BOOLEAN : sess' = [sess EXCEPT ![s].closing = done]
    /\ UNCHANGED <<sslMade>>

\* Close: with an _ssl, SSL_free it, clear _handshaked and set _closing.
SessionClose(s) ==
    /\ Call(s)
    /\ sess' = IF sess[s].ssl = 0 THEN sess
               ELSE [sess EXCEPT ![s] = [@ EXCEPT !.ssl = 0, !.handshaked = FALSE,
                                                  !.closing = TRUE]]
    /\ UNCHANGED <<sslMade>>

SessionInit ==
    /\ Init
    /\ sess      = [s \in Sessions |-> NewSession]
    /\ sslMade   = 0
    /\ sessCalls = [s \in Sessions |-> 0]

SessionNext ==
    \/ Next /\ UNCHANGED sessionVars
    \/ \E s \in Sessions :
         /\ \/ SessionInitCheck(s)
            \/ SessionSSLNew(s)
            \/ SessionHandshake(s)
            \/ SessionShutdown(s)
            \/ SessionClose(s)
         /\ UNCHANGED vars

SessionSpec == SessionInit /\ [][SessionNext]_allVars

-----------------------------------------------------------------------------
(***************************************************************************)
(* Properties.                                                              *)
(***************************************************************************)

\* SSLSession::Init tests context->IsInitialized() (line 210) so that the
\* SSL_CTX it hands to SSL_new (line 215) is usable: no SSL_new may be
\* given an SSL_CTX that SSL_CTX_free has released.  SSLContext::Init takes
\* no lock, so a second InitServer that passed the _initialized test early
\* stores its own SSL_CTX over the member and, when its certificate fails
\* to load, frees it (line 50) before it stores nullptr (line 51).
SSLNewGetsLiveContext ==
    [][\A s \in Sessions :
          SessionSSLNew(s) => sslCtx \notin freed]_allVars

=============================================================================

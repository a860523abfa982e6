------------------------ MODULE SSLCertificateManager ------------------------
(***************************************************************************)
(* cppnet::SSLCertificateManager (src/cppnet/ssl/ssl_context.cpp): a map   *)
(* from domain to SSLContext and a default context, under one std::mutex.  *)
(*                                                                         *)
(* Every method but GetCertificate does its work inside one lock scope,    *)
(* so it is one step, enabled only while no thread holds _mutex.           *)
(* GetCertificate takes two: the lookup under the lock and, on a miss, the *)
(* call to GetDefaultCertificate, which locks _mutex again while the       *)
(* lock_guard of the lookup still holds it.  Locking a std::mutex the      *)
(* thread already owns is undefined; with the default (non-recursive)      *)
(* pthread mutex of the library's builds the thread blocks on itself, and  *)
(* that is the outcome modelled.                                           *)
(*                                                                         *)
(* Contexts are model values; IsInitialized() is membership of             *)
(* InitializedCtxs.  UpdateCertificate builds its context with             *)
(* InitServer outside the lock; whether that succeeds is an input, and the *)
(* context it makes is the model value UpdatedCtx.                         *)
(***************************************************************************)
EXTENDS Naturals, FiniteSets, Functions, TLC

CONSTANTS
    Threads,          \* threads calling the manager
    Domains,          \* non-empty domain names
    Empty,            \* the empty domain string
    Contexts,         \* SSLContext objects callers pass in
    InitializedCtxs,  \* those whose IsInitialized() is true
    UpdatedCtx,       \* the context UpdateCertificate makes
    NoCtx,            \* nullptr
    NoThread          \* _mutex is free

ASSUME InitializedCtxs \subseteq Contexts

VARIABLES
    certs,        \* _certificates: a function on the registered domains
    defaultCert,  \* _default_cert
    holder,       \* the thread that owns _mutex, or NoThread
    pc            \* pc[t]: "idle", or "get_default" inside GetCertificate

vars == <<certs, defaultCert, holder, pc>>

Free == holder = NoThread

\* A call that returns without touching the manager (an early return).
Noop(t) ==
    /\ pc[t] = "idle"
    /\ UNCHANGED vars

\* AddCertificate: refuse an empty domain or a null context, then under
\* the lock refuse a registered domain, else insert.
AddCertificate(t, d, c) ==
    \/ /\ d = Empty \/ c = NoCtx
       /\ Noop(t)
    \/ /\ d # Empty /\ c # NoCtx
       /\ pc[t] = "idle" /\ Free
       /\ certs' = IF d \in DOMAIN certs THEN certs ELSE certs @@ (d :> c)
       /\ UNCHANGED <<defaultCert, holder, pc>>

\* RemoveCertificate: refuse an empty domain, then erase it under the lock.
RemoveCertificate(t, d) ==
    \/ /\ d = Empty
       /\ Noop(t)
    \/ /\ d # Empty
       /\ pc[t] = "idle" /\ Free
       /\ certs' = Restrict(certs, DOMAIN certs \ {d})
       /\ UNCHANGED <<defaultCert, holder, pc>>

\* GetCertificate, first step: lock and look up.  A hit returns and
\* unlocks; a miss goes on to GetDefaultCertificate still holding the lock.
GetCertificate(t, d) ==
    /\ pc[t] = "idle" /\ Free
    /\ IF d \in DOMAIN certs
       THEN UNCHANGED <<holder, pc>>
       ELSE /\ holder' = t
            /\ pc'     = [pc EXCEPT ![t] = "get_default"]
    /\ UNCHANGED <<certs, defaultCert>>

\* GetDefaultCertificate called from GetCertificate: its lock_guard needs
\* _mutex free; on return both guards release it.
GetDefaultFromGet(t) ==
    /\ pc[t] = "get_default" /\ Free
    /\ holder' = NoThread
    /\ pc'     = [pc EXCEPT ![t] = "idle"]
    /\ UNCHANGED <<certs, defaultCert>>

\* UpdateCertificate: InitServer on a new context; on success store it
\* under the lock, whether or not the domain was registered.
UpdateCertificate(t, d, ok) ==
    \/ /\ ~ok
       /\ Noop(t)
    \/ /\ ok
       /\ pc[t] = "idle" /\ Free
       /\ certs' = [x \in DOMAIN certs \cup {d} |-> IF x = d THEN UpdatedCtx ELSE certs[x]]
       /\ UNCHANGED <<defaultCert, holder, pc>>

\* GetDefaultCertificate called on its own: lock, read, unlock.
GetDefaultCertificate(t) ==
    /\ pc[t] = "idle" /\ Free
    /\ UNCHANGED vars

\* SetDefaultCertificate: refuse a null or uninitialized context, then
\* store it under the lock.
SetDefaultCertificate(t, c) ==
    \/ /\ c \notin InitializedCtxs
       /\ Noop(t)
    \/ /\ c \in InitializedCtxs
       /\ pc[t] = "idle" /\ Free
       /\ defaultCert' = c
       /\ UNCHANGED <<certs, holder, pc>>

\* The constructor: no certificate, no default, the mutex free.
Init ==
    /\ certs       = [d \in {} |-> NoCtx]
    /\ defaultCert = NoCtx
    /\ holder      = NoThread
    /\ pc          = [t \in Threads |-> "idle"]

Next ==
    \E t \in Threads :
        \/ \E d \in Domains \cup {Empty}, c \in Contexts \cup {NoCtx} :
               AddCertificate(t, d, c)
        \/ \E d \in Domains \cup {Empty} : RemoveCertificate(t, d)
        \/ \E d \in Domains : GetCertificate(t, d)
        \/ GetDefaultFromGet(t)
        \/ \E d \in Domains, ok \in BOOLEAN : UpdateCertificate(t, d, ok)
        \/ GetDefaultCertificate(t)
        \/ \E c \in Contexts \cup {NoCtx} : SetDefaultCertificate(t, c)

\* A thread inside a call keeps running whenever its next step is enabled.
Spec == Init /\ [][Next]_vars /\ \A t \in Threads : WF_vars(GetDefaultFromGet(t))

-----------------------------------------------------------------------------
(***************************************************************************)
(* Properties.                                                              *)
(***************************************************************************)

\* A GetCertificate for a domain with no certificate of its own returns
\* the default certificate (lines 381-388: "return GetDefaultCertificate()").
\* The lookup's lock_guard still holds _mutex when GetDefaultCertificate
\* locks it again, so the caller never returns, and every other thread
\* that calls the manager waits on _mutex behind it.
MissedLookupReturns ==
    \A t \in Threads : pc[t] = "get_default" ~> pc[t] = "idle"

=============================================================================

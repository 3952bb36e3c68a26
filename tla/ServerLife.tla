------------------------------ MODULE ServerLife ------------------------------
(***************************************************************************)
(* A server that is started, tried, and started again: ServerStart and     *)
(* LoginLimits together.  One client knows the password and keeps trying;  *)
(* the others make MaxAttempts requests between them, right or wrong, from *)
(* its address or from elsewhere.                                          *)
(***************************************************************************)
EXTENDS ServerStart, LoginLimits

CONSTANTS
  Patient,      \* the address of the client that knows the password
  MaxAttempts

ASSUME LifeAssumption == Patient \in Addresses /\ MaxAttempts \in Nat

VARIABLES
  attempts,   \* requests of the other clients
  entered     \* the patient client has been admitted

vars == <<startVars, limitVars, attempts, entered>>

Listening == listener # Nobody

\* Starting and serving share nothing but the end of a process, so that a process that
\* comes to its end beside one that listens does so before the first client comes.
Serving == Listening /\ \A p \in Processes \ {listener} : At(p, "down")

\* The others.
TryHandshake(a, valid) ==
  /\ Serving
  /\ attempts < MaxAttempts
  /\ attempts' = attempts + 1
  /\ Handshake(a, valid)
  /\ UNCHANGED <<startVars, entered>>

TryPassword(a, right) ==
  /\ Serving
  /\ attempts < MaxAttempts
  /\ attempts' = attempts + 1
  /\ \E k \in DOMAIN sessions[a] : Authenticate(a, k, right)
  /\ UNCHANGED <<startVars, entered>>

\* The patient client: a session it may use is one that no other has been admitted on.
Waiting == {k \in DOMAIN Live(Patient) : ~Live(Patient)[k].admitted}

KnockAgain ==
  /\ Serving
  /\ ~entered
  /\ Waiting = {}
  /\ Handshake(Patient, TRUE)
  /\ UNCHANGED <<startVars, attempts, entered>>

Enter ==
  /\ Serving
  /\ ~entered
  /\ \E k \in DOMAIN sessions[Patient] : Authenticate(Patient, k, TRUE)
  /\ entered' = TRUE
  /\ UNCHANGED <<startVars, attempts>>

Time == Serving /\ Tick /\ UNCHANGED <<startVars, attempts, entered>>

StartServer(p) ==
  /\ \/ /\ ~Listening
        /\ \E password \in Passwords[p] : Start(p, password)
     \/ Step(p)
  /\ UNCHANGED <<limitVars, attempts, entered>>

EndServer(p) ==
  /\ Crash(p)
  /\ IF listener = p THEN Forgotten ELSE UNCHANGED limitVars
  /\ UNCHANGED <<attempts, entered>>

Init ==
  /\ StartInit
  /\ LimitsInit
  /\ attempts = 0
  /\ entered = FALSE

Next ==
  \/ \E p \in Processes : StartServer(p) \/ EndServer(p)
  \/ \E a \in Addresses : \E b \in BOOLEAN : TryHandshake(a, b) \/ TryPassword(a, b)
  \/ KnockAgain
  \/ Enter
  \/ Time

Spec == Init /\ [][Next]_vars

\* A process goes on, one is started with the password of the first start again and again,
\* clocks run, and the client that knows the password keeps trying.
StartAgain(p) ==
  /\ Start(p, metadata.password)
  /\ metadata # NoMetadata
  /\ ~Listening
  /\ UNCHANGED <<limitVars, attempts, entered>>

FairSpec ==
  /\ Spec
  /\ \A p \in Processes :
       /\ WF_vars(Step(p) /\ UNCHANGED <<limitVars, attempts, entered>>)
       /\ SF_vars(StartAgain(p))
  /\ WF_vars(Time)
  /\ WF_vars(KnockAgain)
  /\ SF_vars(Enter)

----------------------------------------------------------------------------
\* Every variable has values of its kind, and no table, budget or store exceeds its limit
\* (rate_limit.rs:29, 47; session.rs:54).
LifeTypeOK ==
  /\ \A p \in Processes :
       processes[p].stage \in Stages /\ processes[p].file \in Files
  /\ \A f \in Files : files[f] \in {Torn} \cup 0..generated
  /\ listener \in Processes \cup {Nobody}
  /\ DOMAIN entries \subseteq Addresses
  /\ Cardinality(DOMAIN entries) <= MAX_TRACKED_ADDRESSES
  /\ \A a \in DOMAIN entries :
       /\ entries[a].handshakes <= MAX_HANDSHAKES_PER_WINDOW
       /\ entries[a].failed <= MAX_FAILURES
  /\ StoredSessions <= MAX_SESSIONS

\* The fingerprint and the vault that clients have pinned never change, however many
\* processes start at once over one directory, and wherever they end (identity.rs:34).
OneIsServed == Cardinality(served) <= 1

\* A server that has once been reachable leaves no file half written: only the very first
\* start can be cut off so that the directory is of no more use (identity.rs:109).
TornOnlyBeforeService == served # {} => \A f \in Files : files[f] \notin {Torn, Absent}

\* Who listens has been started with the password of the first start (mod.rs:119).
ListensWithItsPassword == Listening => processes[listener].password = metadata.password

\* Clients only ever meet one server: its identity and vault, started with its password, over
\* files that are whole.
ServedIsOne == OneIsServed /\ TornOnlyBeforeService /\ ListensWithItsPassword

\* One address alone never fills the session store, although nothing counts its sessions:
\* the window of the limiter and the lifetime of a session do (rate_limit.rs:47,
\* session.rs:54).
OneAddressNeverFills == \A a \in Addresses : Len(Live(a)) < MAX_SESSIONS

\* Whoever can still fail on a session is remembered, so that a failure always counts on
\* from the last one and never adds an address to a full table (rate_limit.rs:57).
EntryOutlivesSessions ==
  \A a \in Addresses :
    Live(a) # <<>> => a \in DOMAIN entries /\ entries[a].seen < RETENTION

\* No limit is exceeded, used up by one address, or forgotten while it counts.
LimitsHold == LifeTypeOK /\ OneAddressNeverFills /\ EntryOutlivesSessions

\* A block ends by the clock, by a restart or by a right password, never by one more
\* failure that comes from a session opened before it (rate_limit.rs:64).
FailuresKeepTheBlock ==
  [][\A a \in DOMAIN entries \cap DOMAIN entries' :
       entries'[a].failed >= entries[a].failed /\ entries'[a].seen <= entries[a].seen =>
         entries'[a].blocked >= entries[a].blocked]_limitVars

\* A server that has been reachable is reachable again after every crash.
StartsAgain == (served # {}) ~> Listening

\* The client that knows the password gets in once the others leave off, whatever they
\* have done from its address or with the capacity of the server.
PatientClientEnters == (served # {}) ~> entered

\* Neither a crash nor what others do keeps a client with the password out for ever.
StaysReachable == StartsAgain /\ PatientClientEnters
=============================================================================

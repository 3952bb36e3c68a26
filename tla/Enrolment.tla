------------------------------ MODULE Enrolment ------------------------------
(***************************************************************************)
(* Clients that set up a vault and stay in it, over sessions of the sync   *)
(* server (ll-client: channel.rs; plugin: transport/session.ts and         *)
(* controller.ts configure, ensureSession).  The one who finds no wrapped  *)
(* key makes one, everybody registers a device, and whoever fails begins   *)
(* again with a new channel.                                               *)
(***************************************************************************)
EXTENDS SecureSession

CONSTANT Clients

VARIABLE clients  \* what each client has: its channel, its flow and its settings

vars == <<sessionVars, clients>>

NoChannel == [handle |-> None, next_client_sequence |-> 0, next_server_sequence |-> 0,
              pending |-> {}]

\* The phases of configure, and ready for everything after it.
Phases == {"idle", "authenticating", "asking", "registering", "putting", "ready"}

\* The settings are written at the end: until then device and key are in memory only.
NewClient == [channel |-> NoChannel, phase |-> "idle", device |-> None, key |-> None,
              configured |-> FALSE, synced |-> FALSE]

\* A handle and an identity that nothing knows.
IsUnknown(h) ==
  /\ h \notin stored \cup open
  /\ handlers[h] = <<>>
  /\ \A m \in net : m.handle # h

UnknownHandle == CHOOSE h \in Handles : IsUnknown(h) /\ \A o \in Handles : IsUnknown(o) => h <= o

Mentioned ==
  {m.request.identity : m \in net}
    \cup {request.identity : request \in detached}
    \cup UNION {{handlers[h][k].message.request.identity : k \in DOMAIN handlers[h]} :
                  h \in Handles}
    \cup {clients[c].device : c \in Clients} \cup {clients[c].key : c \in Clients}
    \cup {envelope}

IsUnused(i) == devices[i] = "absent" /\ i \notin Mentioned

NewIdentity == CHOOSE i \in Identities : IsUnused(i) /\ \A o \in Identities : IsUnused(o) => i <= o

----------------------------------------------------------------------------
\* ClientChannel::request: the next message of the channel a client keeps.
NextMessage(channel, request) ==
  [handle |-> channel.handle, sequence |-> channel.next_client_sequence, request |-> request]

Send(c, client, request) ==
  LET message == NextMessage(client.channel, request)
  IN /\ clients' = [clients EXCEPT
                      ![c] = [client EXCEPT !.channel.next_client_sequence = @ + 1,
                                            !.channel.pending = @ \cup {message}]]
     /\ net' = net \cup {message}

\* AuthenticatedSession.connect up to the first message: a configured client proves its
\* device, a new one the password alone.
Connect(c) ==
  LET client == [clients[c] EXCEPT
                   !.phase = "authenticating",
                   !.channel = [NoChannel EXCEPT !.handle = UnknownHandle]]
  IN /\ clients[c].channel = NoChannel
     /\ \E h \in Handles : IsUnknown(h)
     /\ Handshake(UnknownHandle)
     /\ open' = open \cup {UnknownHandle}
     /\ Send(c, client, Request("authenticate",
                                IF client.configured THEN client.device ELSE None))
     /\ UNCHANGED <<handlers, detached, devices, envelope, answers, interrupts>>

\* The answer to the handshake is lost: nobody knows of the session.
ConnectInVain(c) ==
  /\ clients[c].channel = NoChannel
  /\ \E h \in Handles : IsUnknown(h)
  /\ Handshake(UnknownHandle)
  /\ Interrupt
  /\ UNCHANGED <<handlers, detached, devices, envelope, net, open, answers, clients>>

\* close: the channel is freed.  Settings stay, and what was not written is forgotten.
Closed(client) ==
  IF client.configured
  THEN [client EXCEPT !.channel = NoChannel, !.phase = "idle"]
  ELSE NewClient

Close(c) ==
  /\ clients' = [clients EXCEPT ![c] = Closed(@)]
  /\ open' = open \ {clients[c].channel.handle}
  /\ answers' = {a \in answers : a.handle # clients[c].channel.handle}
  /\ UNCHANGED net

----------------------------------------------------------------------------
\* tryGetVaultKeyEnvelope: without one, this client founds the vault.
Founder(response) == response.kind = "error"

\* configure, from one answer to the next request.  The device is new in every attempt,
\* and a founder's key has its number.
Proceed(c, client, response) ==
  \/ /\ client.phase = "authenticating"
     /\ response.kind = "authenticated"
     /\ ~client.configured
     /\ Send(c, [client EXCEPT !.phase = "asking"], Request("get_envelope", None))
  \/ /\ client.phase = "authenticating"
     /\ response.kind = "authenticated"
     /\ client.configured
     /\ clients' = [clients EXCEPT ![c] = [client EXCEPT !.phase = "ready"]]
     /\ UNCHANGED net
  \/ /\ client.phase = "asking"
     /\ response.kind \in {"vault_key_envelope", "error"}
     /\ \E i \in Identities : IsUnused(i)
     /\ Send(c, [client EXCEPT !.phase = "registering",
                               !.device = NewIdentity,
                               !.key = IF Founder(response) THEN NewIdentity ELSE response.identity],
             Request("register", NewIdentity))
  \/ /\ client.phase = "registering"
     /\ response.kind = "device_registered"
     /\ client.key = client.device
     /\ Send(c, [client EXCEPT !.phase = "putting"], Request("put_envelope", client.key))
  \/ /\ \/ /\ client.phase = "registering"
           /\ response.kind = "device_registered"
           /\ client.key # client.device
        \/ /\ client.phase = "putting"
           /\ response.kind = "vault_key_envelope_stored"
     /\ clients' = [clients EXCEPT ![c] = [client EXCEPT !.phase = "ready", !.configured = TRUE]]
     /\ UNCHANGED net
  \/ /\ client.phase = "ready"
     /\ response.kind = "pong"
     /\ clients' = [clients EXCEPT ![c] = [client EXCEPT !.synced = TRUE]]
     /\ UNCHANGED net

\* An error where none was expected: requireKind throws and the session is closed.
IsExpected(client, response) ==
  response.kind # "error" \/ client.phase = "asking"

\* ClientChannel::response and the rest of exchange, for the answer a.
Accept(c, a) ==
  LET client == [clients[c] EXCEPT
                   !.channel.next_server_sequence = @ + 1,
                   !.channel.pending = {m \in @ : m.sequence # a.to}]
  IN /\ a.handle = clients[c].channel.handle
     /\ IF /\ a.sequence = clients[c].channel.next_server_sequence
           /\ IsExpected(client, a.response)
        THEN Proceed(c, client, a.response) /\ answers' = answers \ {a} /\ UNCHANGED open
        ELSE Close(c)
     /\ UNCHANGED <<sessions, stored, handlers, detached, devices, envelope, interrupts>>

\* Nothing of a request is left that could be answered: the HTTP call fails.
IsGone(m) ==
  /\ m \notin net
  /\ \A k \in DOMAIN handlers[m.handle] : handlers[m.handle][k].message # m
  /\ \A a \in answers : a.handle # m.handle \/ a.to # m.sequence

\* Mutant of Fail: a synchronisation that fails keeps its session.
FailBeforeSettings(c) ==
  /\ ~clients[c].configured
  /\ \E m \in clients[c].channel.pending : IsGone(m)
  /\ Close(c)
  /\ UNCHANGED <<sessions, stored, handlers, detached, devices, envelope, interrupts>>

\* A request that fails ends its session (configure's and syncNow's catch).
Fail(c) ==
  /\ \E m \in clients[c].channel.pending : IsGone(m)
  /\ Close(c)
  /\ UNCHANGED <<sessions, stored, handlers, detached, devices, envelope, interrupts>>

\* The client does not wait any longer, or is locked or shut down in an exchange.
GiveUp(c) ==
  /\ clients[c].channel.pending # {}
  /\ Close(c)
  /\ Interrupt
  /\ UNCHANGED <<sessions, stored, handlers, detached, devices, envelope>>

----------------------------------------------------------------------------
\* runOnce: one synchronisation at a time, and one request at a time in it.
Ping(c) ==
  /\ clients[c].phase = "ready"
  /\ ~clients[c].synced
  /\ clients[c].channel.pending = {}
  /\ Send(c, clients[c], Request("ping", None))
  /\ UNCHANGED <<sessions, stored, handlers, detached, devices, envelope, open, answers,
                 interrupts>>

\* A session that no client uses any more is forgotten in time, and one in use may be.
ExpireUnused(h) == h \notin open /\ Expire(h) /\ UNCHANGED <<interrupts, clients>>
ExpireInUse(h) == h \in open /\ Expire(h) /\ Interrupt /\ UNCHANGED clients

Init ==
  /\ SessionInit
  /\ clients = [c \in Clients |-> NewClient]

ServerNext ==
  /\ \/ \E h \in Handles : Serve(h) \/ Drop(h)
     \/ \E m \in net : Arrive(m) \/ ArriveAgain(m) \/ Lose(m)
     \/ \E request \in detached : Land(request)
     \/ \E d \in Identities : Revoke(d)
     \/ Crash
  /\ UNCHANGED clients

ClientNext(c) ==
  \/ Connect(c)
  \/ ConnectInVain(c)
  \/ \E a \in answers : Accept(c, a)
  \/ Fail(c)
  \/ GiveUp(c)
  \/ Ping(c)

Next ==
  \/ ServerNext
  \/ \E c \in Clients : ClientNext(c)
  \/ \E h \in Handles : ExpireUnused(h) \/ ExpireInUse(h)

Spec == Init /\ [][Next]_vars

\* What has arrived is served, the database ends what it began, sessions expire, and
\* clients answer, notice failures, try again and synchronise (the vault's events, the user).
Unchanged == UNCHANGED clients

FairSpec ==
  /\ Spec
  /\ \A h \in Handles :
       /\ WF_vars(\E m \in net : m.handle = h /\ Arrive(m) /\ Unchanged)
       /\ WF_vars(Serve(h) /\ Unchanged)
       /\ WF_vars(ExpireUnused(h))
  /\ WF_vars(\E request \in detached : Land(request) /\ Unchanged)
  /\ \A c \in Clients :
       /\ WF_vars(Connect(c))
       /\ WF_vars(\E a \in answers : Accept(c, a))
       /\ WF_vars(Fail(c))
       /\ WF_vars(Ping(c))

----------------------------------------------------------------------------
\* Every variable has values of its kind, and the store never holds more than its limit
\* (session.rs:54).
SessionTypeOK ==
  /\ \A h \in Handles :
       /\ sessions[h].phase \in
            {"awaiting_password", "password_authenticated", "device_authenticated"}
       /\ sessions[h].device \in Identities \cup {None}
       /\ \A k \in DOMAIN handlers[h] :
            handlers[h][k].stage \in {"queued", "begun"}
  /\ Cardinality(stored) <= MAX_SESSIONS
  /\ stored \subseteq Handles /\ open \subseteq Handles
  /\ net \subseteq Messages
  /\ devices \in [Identities -> {"absent", "active", "revoked"}]
  /\ envelope \in Identities \cup {None}
  /\ \A c \in Clients : clients[c].phase \in Phases

\* A session in the store on which nothing is being done was left whole: as many answers
\* as requests have been given.  Whatever drops a handler halfway takes the session along
\* (SessionCancellationGuard, session.rs:93).
StoredIsWhole ==
  \A h \in stored :
    handlers[h] = <<>> =>
      sessions[h].next_server_sequence = sessions[h].next_client_sequence

\* Whatever is lost, repeated or dropped, an answer has the number of its request, so that
\* a client never takes one answer for another (state.rs:171, 196).  On a session that is
\* discarded a handler that already waits is served all the same, behind one that was
\* dropped, and its answer is refused.
AnswersInOrder == \A a \in answers : a.handle \in stored => a.sequence = a.to

\* On a session that the store still holds the server has answered all that it has counted
\* whenever no handler works, and an answer bears the number of the request it answers; the
\* store keeps to its limit.  So through loss, repetition, expiry and interrupted handlers.
SessionsAreInStep == SessionTypeOK /\ StoredIsWhole /\ AnswersInOrder

\* A device that is set up is registered: nothing that the settings name can be unknown to
\* the server, through whatever failures the set-up went (controller.ts configure).
ConfiguredIsRegistered ==
  \A c \in Clients :
    clients[c].configured => devices[clients[c].device] # "absent" /\ clients[c].key = envelope

\* The vault is founded once, and who joins it holds its key, and keeps it.
Promise == INSTANCE VaultPromise
  WITH Members <- Clients, Keys <- Identities, NoKey <- None,
       key <- envelope,
       holds <- [c \in Clients |-> IF clients[c].configured THEN clients[c].key ELSE None]

VaultIsFoundedOnce == Promise!Spec

\* Whoever sets a vault up gets there by trying again, whatever was lost before, and
\* synchronises in the end unless it has been revoked.
SynchronisesAtLast ==
  \A c \in Clients :
    <>(clients[c].configured /\ (clients[c].synced \/ devices[clients[c].device] = "revoked"))
=============================================================================

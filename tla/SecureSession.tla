---------------------------- MODULE SecureSession ----------------------------
(***************************************************************************)
(* Sessions of the sync server and the requests on them (ll-server:        *)
(* session.rs, state.rs process_envelope, http.rs envelope, and the parts  *)
(* of application.rs that enrol devices and keep the vault key).           *)
(*                                                                         *)
(* A request waits for the lock of its session, is decrypted and counted,  *)
(* waits for the database, and is answered.  Its handler may be dropped    *)
(* while it waits, and then the session is gone; what the database had     *)
(* begun still ends.                                                       *)
(***************************************************************************)
EXTENDS Integers, Sequences, FiniteSets, SequencesExt, FiniteSetsExt

CONSTANTS
  Handles,        \* session handles; one is used again when nothing knows it
  Identities,     \* numbers of devices; a vault key has that of its maker
  MAX_SESSIONS,
  MAX_SESSION_MESSAGES,
  MaxInterrupts   \* losses, repetitions, drops, crashes, expiries, revocations,
                  \* changes of address

ASSUME SessionAssumption ==
  /\ Handles \subseteq Nat \ {0}
  /\ Identities \subseteq Nat \ {0}
  /\ {MAX_SESSIONS, MAX_SESSION_MESSAGES, MaxInterrupts} \subseteq Nat

None == 0

VARIABLES
  sessions,    \* handle -> the session behind it, in the store or only held by handlers
  stored,      \* SessionStore: the handles that are found
  handlers,    \* handle -> the requests that wait for its lock, in their order
  detached,    \* writes of dropped handlers that the database still carries out
  devices,     \* table devices: identity -> absent, active or revoked
  envelope,    \* META_VAULT_KEY_ENVELOPE: the key that is wrapped, or None
  net,         \* messages on their way to the server
  open,        \* the handles for which a client still keeps a channel
  answers,     \* messages on their way back, to open channels
  interrupts   \* how much went wrong so far

sessionVars == <<sessions, stored, handlers, detached, devices, envelope, net, open, answers, interrupts>>

\* A request: its kind and the identity it is about (a device, or a key).
Request(kind, identity) == [kind |-> kind, identity |-> identity]

Kinds == {"authenticate", "get_envelope", "register", "put_envelope", "ping"}

Requests == [kind : Kinds, identity : Identities \cup {None}]

Messages == [handle : Handles, sequence : Nat, request : Requests]

Fresh == [phase |-> "awaiting_password", device |-> None, next_client_sequence |-> 0,
          next_server_sequence |-> 0, message_count |-> 0]

\* A session is held by the store and by the handlers that have looked it up (an Arc of
\* each), and is freed with the last of them.  After stored' and handlers'.
Held(next) ==
  [h \in Handles |-> IF h \in stored' \/ handlers'[h] # <<>> THEN next[h] ELSE Fresh]

\* Something that goes wrong, at most MaxInterrupts times.
Interrupt == interrupts < MaxInterrupts /\ interrupts' = interrupts + 1

----------------------------------------------------------------------------
\* AppState::handshake and SessionStore::insert; the handle is random and new.
Handshake(h) ==
  /\ Cardinality(stored) < MAX_SESSIONS
  /\ stored' = stored \cup {h}
  /\ sessions' = [sessions EXCEPT ![h] = Fresh]

\* http.rs envelope: the session is looked up and the handler waits for its lock.
Arrive(m) ==
  /\ net' = net \ {m}
  /\ handlers' = IF m.handle \in stored
                 THEN [handlers EXCEPT ![m.handle] =
                         Append(@, [message |-> m, stage |-> "queued"])]
                 ELSE handlers
  /\ UNCHANGED <<sessions, stored, detached, devices, envelope, open, answers, interrupts>>

\* A message that the transport delivers once more.
ArriveAgain(m) ==
  /\ m.handle \in stored
  /\ handlers' = [handlers EXCEPT ![m.handle] = Append(@, [message |-> m, stage |-> "queued"])]
  /\ Interrupt
  /\ UNCHANGED <<sessions, stored, detached, devices, envelope, net, open, answers>>

Lose(m) ==
  /\ net' = net \ {m}
  /\ Interrupt
  /\ UNCHANGED <<sessions, stored, handlers, detached, devices, envelope, open, answers>>

----------------------------------------------------------------------------
\* The handler that has the lock of a session.
Turn(h, stage) == handlers[h] # <<>> /\ Head(handlers[h]).stage = stage
Message(h) == Head(handlers[h]).message

\* encrypted_response: the answer takes the next number of the server.
Answered(session, response) == [session EXCEPT !.next_server_sequence = @ + 1]

\* The handler of h ends with an answer; the session continues as it is given, or is
\* closed.
Answer(h, session, response, close) ==
  /\ answers' = answers \cup {[handle |-> o, sequence |-> session.next_server_sequence,
                               to |-> Message(h).sequence, response |-> response] :
                                o \in {h} \cap open}
  /\ stored' = IF close THEN stored \ {h} ELSE stored
  /\ handlers' = [handlers EXCEPT ![h] = Tail(@)]
  /\ sessions' = Held([sessions EXCEPT ![h] = Answered(session, response)])

Response(kind, identity) == [kind |-> kind, identity |-> identity]
Error == Response("error", None)

\* decrypt_transport_records and the comparison of the sequence: the nonce of a message
\* is its number, and both must be the next.
InSequence(h) == Message(h).sequence = sessions[h].next_client_sequence

\* What comes from another address, does not decrypt or is out of sequence closes the
\* session.
Reject(h) ==
  /\ Turn(h, "queued")
  /\ \/ ~InSequence(h) /\ UNCHANGED interrupts
     \/ Interrupt
  /\ stored' = stored \ {h}
  /\ handlers' = [handlers EXCEPT ![h] = Tail(@)]
  /\ sessions' = Held(sessions)
  /\ UNCHANGED <<detached, devices, envelope, net, open, answers>>

\* A request that is understood uses its number and one of the messages of the session.
Counted(session) ==
  [session EXCEPT !.next_client_sequence = @ + 1, !.message_count = @ + 1]

\* Application::dispatch up to the database: the phases in which a kind is admitted.
Admitted(session, kind) ==
  CASE kind = "authenticate" -> session.phase = "awaiting_password"
    [] kind = "ping" -> session.phase = "device_authenticated"
    [] OTHER -> session.phase # "awaiting_password"

\* AppState::process_envelope up to the first await: an exhausted session is closed, a
\* device too early is told so, and a password alone needs no database.
Begin(h) ==
  LET request == Message(h).request
      session == Counted(sessions[h])
  IN /\ Turn(h, "queued")
     /\ InSequence(h)
     /\ IF session.message_count > MAX_SESSION_MESSAGES
        THEN Answer(h, session, Error, TRUE)
        ELSE IF ~Admitted(session, request.kind)
        THEN Answer(h, session, Error, request.kind # "ping")
        ELSE IF request.kind = "authenticate" /\ request.identity = None
        THEN Answer(h, [session EXCEPT !.phase = "password_authenticated"],
                    Response("authenticated", None), FALSE)
        ELSE /\ sessions' = [sessions EXCEPT ![h] = session]
             /\ handlers' = [handlers EXCEPT ![h][1].stage = "begun"]
             /\ UNCHANGED <<stored, answers>>
     /\ UNCHANGED <<detached, devices, envelope, net, open, interrupts>>

----------------------------------------------------------------------------
\* authenticate with a device: require_active_device, the signature being right.
PerformAuthenticate(h) ==
  LET request == Message(h).request
  IN /\ Turn(h, "begun")
     /\ request.kind = "authenticate"
     /\ IF devices[request.identity] = "active"
        THEN Answer(h, [sessions[h] EXCEPT !.phase = "device_authenticated",
                                           !.device = request.identity],
                    Response("authenticated", request.identity), FALSE)
        ELSE Answer(h, sessions[h], Error, TRUE)
     /\ UNCHANGED <<detached, devices, envelope, net, open, interrupts>>

\* require_device before a ping, which stands for every request of a synchronisation.
PerformPing(h) ==
  /\ Turn(h, "begun")
  /\ Message(h).request.kind = "ping"
  /\ IF devices[sessions[h].device] = "active"
     THEN Answer(h, sessions[h], Response("pong", None), FALSE)
     ELSE Answer(h, sessions[h], Error, TRUE)
  /\ UNCHANGED <<detached, devices, envelope, net, open, interrupts>>

\* Storage::register_device: a new row, or a revoked device is active again.
Registered(identity) == [devices EXCEPT ![identity] = "active"]

PerformRegister(h) ==
  LET request == Message(h).request
  IN /\ Turn(h, "begun")
     /\ request.kind = "register"
     /\ devices' = Registered(request.identity)
     /\ Answer(h, [sessions[h] EXCEPT !.phase = "device_authenticated",
                                      !.device = request.identity],
               Response("device_registered", request.identity), FALSE)
     /\ UNCHANGED <<detached, envelope, net, open, interrupts>>

PerformGetEnvelope(h) ==
  /\ Turn(h, "begun")
  /\ Message(h).request.kind = "get_envelope"
  /\ Answer(h, sessions[h],
            IF envelope = None THEN Error ELSE Response("vault_key_envelope", envelope), FALSE)
  /\ UNCHANGED <<detached, devices, envelope, net, open, interrupts>>

\* Mutant of Enveloped: the last envelope wins.
EnvelopedAgain(key) == key

\* Storage::put_vault_key_envelope: the first envelope stays.
Enveloped(key) == IF envelope = None THEN key ELSE envelope

PerformPutEnvelope(h) ==
  LET key == Message(h).request.identity
  IN /\ Turn(h, "begun")
     /\ Message(h).request.kind = "put_envelope"
     /\ envelope' = Enveloped(key)
     /\ Answer(h, sessions[h],
               IF envelope' = key THEN Response("vault_key_envelope_stored", None) ELSE Error,
               FALSE)
     /\ UNCHANGED <<detached, devices, net, open, interrupts>>

\* Storage::revoke_device, for a session that is not one of these.
Revoke(identity) ==
  /\ devices[identity] = "active"
  /\ devices' = [devices EXCEPT ![identity] = "revoked"]
  /\ Interrupt
  /\ UNCHANGED <<sessions, stored, handlers, detached, envelope, net, open, answers>>

----------------------------------------------------------------------------
\* Mutant of Dropped: the session stays as the handler leaves it.
DroppedAlone(h) == stored

\* SessionCancellationGuard: whoever is dropped takes the session along.
Dropped(h) == stored \ {h}

\* A write that a handler may have handed to the database.
Writes(handler) ==
  {request \in {handler.message.request} :
     handler.stage = "begun" /\ request.kind \in {"register", "put_envelope"}}

\* A handler is dropped: its client has gone or its time is over.
Drop(h) ==
  \E k \in DOMAIN handlers[h] :
    /\ stored' = Dropped(h)
    /\ handlers' = [handlers EXCEPT ![h] = RemoveAt(@, k)]
    /\ \E begun \in SUBSET Writes(handlers[h][k]) : detached' = detached \cup begun
    /\ sessions' = Held(sessions)
    /\ Interrupt
    /\ UNCHANGED <<devices, envelope, net, open, answers>>

\* The database ends what it had begun.
Land(request) ==
  /\ detached' = detached \ {request}
  /\ \/ /\ request.kind = "register"
        /\ devices' = Registered(request.identity)
        /\ UNCHANGED envelope
     \/ /\ request.kind = "put_envelope"
        /\ envelope' = Enveloped(request.identity)
        /\ UNCHANGED devices
  /\ UNCHANGED <<sessions, stored, handlers, net, open, answers, interrupts>>

\* The process ends and starts again: sessions are in memory only.
Crash ==
  /\ stored' = {}
  /\ handlers' = [h \in Handles |-> <<>>]
  /\ detached' = {}
  /\ answers' = {}
  /\ sessions' = Held(sessions)
  /\ Interrupt
  /\ UNCHANGED <<devices, envelope, net, open>>

\* SessionStore::insert and get: a session is found for half an hour.
Expire(h) ==
  /\ h \in stored
  /\ stored' = stored \ {h}
  /\ UNCHANGED <<handlers, detached, devices, envelope, net, open, answers>>
  /\ sessions' = Held(sessions)

SessionInit ==
  /\ sessions = [h \in Handles |-> Fresh]
  /\ stored = {}
  /\ handlers = [h \in Handles |-> <<>>]
  /\ detached = {}
  /\ devices = [i \in Identities |-> "absent"]
  /\ envelope = None
  /\ net = {}
  /\ open = {}
  /\ answers = {}
  /\ interrupts = 0

Serve(h) ==
  \/ Reject(h)
  \/ Begin(h)
  \/ PerformAuthenticate(h)
  \/ PerformRegister(h)
  \/ PerformGetEnvelope(h)
  \/ PerformPutEnvelope(h)
  \/ PerformPing(h)
=============================================================================

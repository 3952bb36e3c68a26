--------------------------- MODULE EnrolmentProofs ---------------------------
(***************************************************************************)
(* Proofs about Enrolment for every set of clients, handles and            *)
(* identities and for every limit: client and server stay in step on a     *)
(* session, whoever has set up a vault is registered in it, and a vault is *)
(* founded once.                                                           *)
(***************************************************************************)
EXTENDS Enrolment, FiniteSetTheorems, SequenceTheorems, WellFoundedInduction, TLAPS

Session == [phase : {"awaiting_password", "password_authenticated", "device_authenticated"},
            device : Identities \cup {None}, next_client_sequence : Nat,
            next_server_sequence : Nat, message_count : Nat]

Handler == [message : Messages, stage : {"queued", "begun"}]

Responses == [kind : {"error", "authenticated", "device_registered", "vault_key_envelope",
                      "vault_key_envelope_stored", "pong"},
              identity : Identities \cup {None}]

AnswerRecord == [handle : Handles, sequence : Nat, to : Nat, response : Responses]

Channel == [handle : Handles \cup {None}, next_client_sequence : Nat,
            next_server_sequence : Nat, pending : SUBSET Messages]

Client == [channel : Channel, phase : Phases, device : Identities \cup {None},
           key : Identities \cup {None}, configured : BOOLEAN, synced : BOOLEAN]

\* The types of the server's variables, of the network and of the clients.
ServerTypeOK ==
  /\ sessions \in [Handles -> Session]
  /\ stored \subseteq Handles
  /\ IsFiniteSet(stored)
  /\ Cardinality(stored) <= MAX_SESSIONS
  /\ handlers \in [Handles -> Seq(Handler)]
  /\ detached \subseteq Requests
  /\ devices \in [Identities -> {"absent", "active", "revoked"}]
  /\ envelope \in Identities \cup {None}

NetTypeOK ==
  /\ net \subseteq Messages
  /\ open \subseteq Handles
  /\ answers \subseteq AnswerRecord

ClientsTypeOK == clients \in [Clients -> Client]

\* A handler waits for the session of its message, and only the one that has the lock has
\* begun.
HandlersInPlace ==
  \A h \in Handles : \A k \in DOMAIN handlers[h] :
    /\ handlers[h][k].message.handle = h
    /\ k > 1 => handlers[h][k].stage = "queued"

\* Answers go to open channels; an open channel is the one of its client.
AnswersToOpen == \A a \in answers : a.handle \in open

ChannelsAreOpen ==
  /\ \A c \in Clients :
       /\ clients[c].channel.handle = None =>
            clients[c].channel = NoChannel /\ clients[c].phase = "idle"
       /\ clients[c].channel.handle # None => clients[c].channel.handle \in open
  /\ \A c, d \in Clients :
       clients[c].channel.handle = clients[d].channel.handle =>
         c = d \/ clients[c].channel.handle = None

\* Types and addresses: the first part of the inductive invariant.
TypeInv ==
  /\ ServerTypeOK
  /\ NetTypeOK
  /\ ClientsTypeOK
  /\ HandlersInPlace
  /\ AnswersToOpen
  /\ ChannelsAreOpen

\* On a session that is found, the server has answered whatever it has counted, but for a
\* request that it has begun.
Begun(h) == handlers[h] # <<>> /\ handlers[h][1].stage = "begun"

CountOf(h) ==
  /\ ~Begun(h) => sessions[h].next_client_sequence = sessions[h].next_server_sequence
  /\ Begun(h) =>
       /\ sessions[h].next_client_sequence = sessions[h].next_server_sequence + 1
       /\ handlers[h][1].message.sequence = sessions[h].next_server_sequence

CountsAgree == \A h \in stored : CountOf(h)

\* The second part: the counters of the sessions.
CountInv == CountsAgree /\ AnswersInOrder

----------------------------------------------------------------------------
\* The third part: what the messages and the answers of a channel say of its client.

InFlight(m) ==
  \/ m \in net
  \/ \E h \in Handles : \E k \in DOMAIN handlers[h] : handlers[h][k].message = m

\* Only a founder or a joiner names an identity: its new device, or the new key.
IsAbout(c, request) ==
  /\ request.kind = "register" =>
       /\ clients[c].phase \in {"registering", "putting", "ready"}
       /\ request.identity = clients[c].device
  /\ request.kind = "put_envelope" =>
       /\ clients[c].phase \in {"putting", "ready"}
       /\ request.identity = clients[c].key

RequestsAreMeant ==
  \A m \in Messages :
    InFlight(m) =>
      /\ m.request.kind \in {"register", "put_envelope"} => m.request.identity # None
      /\ \A c \in Clients : clients[c].channel.handle = m.handle => IsAbout(c, m.request)

WritesAreMeant == \A request \in detached : request.identity # None

AnswersAreTrue ==
  \A a \in answers :
    /\ a.response.kind = "vault_key_envelope" =>
         envelope # None /\ a.response.identity = envelope
    /\ \A c \in Clients : clients[c].channel.handle = a.handle =>
         /\ a.response.kind = "device_registered" =>
              /\ clients[c].phase \in {"registering", "putting", "ready"}
              /\ devices[clients[c].device] # "absent"
         /\ a.response.kind = "vault_key_envelope_stored" =>
              /\ clients[c].phase \in {"putting", "ready"}
              /\ clients[c].key = envelope

\* How far a client has come says what the server holds of it.
PhasesAreEarned ==
  \A c \in Clients :
    /\ clients[c].phase \in {"registering", "putting"} =>
         clients[c].device # None /\ clients[c].key # None
    /\ clients[c].phase = "registering" /\ clients[c].key # clients[c].device =>
         clients[c].key = envelope
    /\ clients[c].phase = "putting" => devices[clients[c].device] # "absent"
    /\ clients[c].phase = "ready" => clients[c].configured
    /\ clients[c].configured =>
         /\ clients[c].phase \in {"idle", "authenticating", "ready"}
         /\ clients[c].device # None
         /\ devices[clients[c].device] # "absent"
         /\ clients[c].key # None
         /\ clients[c].key = envelope

VaultInv == RequestsAreMeant /\ WritesAreMeant /\ AnswersAreTrue /\ PhasesAreEarned

----------------------------------------------------------------------------
\* Sequences of handlers.

\* Where the elements of a shorter, a longer or a changed sequence come from.
LEMMA TailElements ==
  ASSUME NEW S, NEW s \in Seq(S), s # <<>>
  PROVE  /\ Tail(s) \in Seq(S)
         /\ \A k \in DOMAIN Tail(s) : k + 1 \in DOMAIN s /\ Tail(s)[k] = s[k + 1]
         /\ \A k \in DOMAIN Tail(s) : k \in Nat \ {0}
BY HeadTailProperties, LenProperties

\* A sequence without one of its elements: no element moves to a later place.
LEMMA RemoveAtElements ==
  ASSUME NEW S, NEW s \in Seq(S), NEW k \in DOMAIN s
  PROVE  /\ RemoveAt(s, k) \in Seq(S)
         /\ \A j \in DOMAIN RemoveAt(s, k) :
              \E i \in DOMAIN s : i >= j /\ RemoveAt(s, k)[j] = s[i]
<1> DEFINE before == SubSeq(s, 1, k - 1)
           after == SubSeq(s, k + 1, Len(s))
<1>1. Len(s) \in Nat /\ DOMAIN s = 1..Len(s) /\ k \in 1..Len(s)
  BY LenProperties
<1>2. \A i \in 1..Len(s) : s[i] \in S
  BY ElementOfSeq
<1>3. /\ before \in Seq(S)
      /\ Len(before) = k - 1
      /\ \A i \in 1..(k - 1) : before[i] = s[i]
  <2>1. k - 1 \in Int /\ 1 \in Int /\ \A i \in 1..(k - 1) : s[i] \in S
    BY <1>1, <1>2
  <2>2. /\ before \in Seq(S)
        /\ Len(before) = IF 1 <= k - 1 THEN (k - 1) - 1 + 1 ELSE 0
        /\ \A i \in 1..((k - 1) - 1 + 1) : before[i] = s[1 + i - 1]
    BY <2>1, SubSeqProperties
  <2>3. QED
    BY <1>1, <2>2
<1>4. /\ after \in Seq(S)
      /\ Len(after) = Len(s) - k
      /\ \A i \in 1..(Len(s) - k) : after[i] = s[k + i]
  <2>1. k + 1 \in Int /\ Len(s) \in Int /\ \A i \in (k + 1)..Len(s) : s[i] \in S
    BY <1>1, <1>2
  <2>2. /\ after \in Seq(S)
        /\ Len(after) = IF k + 1 <= Len(s) THEN Len(s) - (k + 1) + 1 ELSE 0
        /\ \A i \in 1..(Len(s) - (k + 1) + 1) : after[i] = s[(k + 1) + i - 1]
    BY <2>1, SubSeqProperties
  <2>3. QED
    BY <1>1, <2>2
<1> HIDE DEF before, after
<1>5. /\ before \o after \in Seq(S)
      /\ Len(before \o after) = Len(before) + Len(after)
      /\ \A i \in 1..(Len(before) + Len(after)) :
           (before \o after)[i] = IF i <= Len(before) THEN before[i] ELSE after[i - Len(before)]
  BY <1>3, <1>4, ConcatProperties
<1>6. RemoveAt(s, k) = before \o after
  BY DEF RemoveAt, before, after
<1> DEFINE rest == before \o after
<1> HIDE DEF rest
<1>7. rest \in Seq(S) /\ Len(rest) = Len(s) - 1 /\ DOMAIN rest = 1..(Len(s) - 1)
  <2>1. rest \in Seq(S) /\ Len(rest) = Len(s) - 1
    BY <1>1, <1>3, <1>4, <1>5 DEF rest
  <2>2. DOMAIN rest = 1..Len(rest)
    BY <2>1, LenProperties
  <2>3. QED
    BY <2>1, <2>2
<1>8. ASSUME NEW j \in 1..(Len(s) - 1)
      PROVE  \E i \in DOMAIN s : i >= j /\ rest[j] = s[i]
  <2>1. CASE j <= k - 1
    <3>1. rest[j] = s[j]
      BY <1>1, <1>3, <1>4, <1>5, <2>1 DEF rest
    <3>2. QED
      BY <1>1, <3>1
  <2>2. CASE ~(j <= k - 1)
    <3>1. j - (k - 1) \in 1..(Len(s) - k) /\ k + (j - (k - 1)) = j + 1
      BY <1>1, <2>2
    <3>2. rest[j] = after[j - (k - 1)]
      <4>1. Len(before) = k - 1 /\ Len(after) = Len(s) - k
        BY <1>3, <1>4
      <4>2. /\ j \in 1..(Len(before) + Len(after))
            /\ ~(j <= Len(before))
            /\ j - Len(before) = j - (k - 1)
        BY <1>1, <2>2, <4>1
      <4>3. (before \o after)[j] = after[j - Len(before)]
        BY <1>5, <4>2
      <4>4. QED
        BY <4>2, <4>3 DEF rest
    <3>3. rest[j] = s[j + 1]
      BY <1>4, <3>1, <3>2
    <3>4. QED
      BY <1>1, <3>3
  <2>3. QED
    BY <2>1, <2>2
<1>9. QED
  BY <1>6, <1>7, <1>8 DEF rest

----------------------------------------------------------------------------
\* What the actions of a server have in common.

\* The fields of what the server keeps and is sent.
LEMMA HandlerFields ==
  ASSUME TypeInv, NEW h \in Handles, handlers[h] # <<>>
  PROVE  /\ handlers[h] \in Seq(Handler)
         /\ 1 \in DOMAIN handlers[h]
         /\ Head(handlers[h]) = handlers[h][1]
         /\ handlers[h][1] \in Handler
         /\ Message(h) \in Messages
         /\ Message(h) = handlers[h][1].message
         /\ Message(h).handle = h
         /\ Message(h).sequence \in Nat
         /\ Message(h).request \in Requests
         /\ Message(h).request.identity \in Identities \cup {None}
<1>1. handlers[h] \in Seq(Handler)
  BY DEF TypeInv, ServerTypeOK
<1>2. 1 \in DOMAIN handlers[h] /\ handlers[h][1] \in Handler /\ Head(handlers[h]) = handlers[h][1]
  BY <1>1, EmptySeq, LenProperties, ElementOfSeq
<1>3. Message(h) = handlers[h][1].message /\ Message(h) \in Messages
  BY <1>2 DEF Message, Handler
<1>4. Message(h).handle = h
  BY <1>2, <1>3 DEF TypeInv, HandlersInPlace
<1>5. QED
  BY <1>1, <1>2, <1>3, <1>4 DEF Messages, Requests

\* The three ways in which the turn of a handler goes: it is refused,
Refused(h) ==
  /\ stored' = stored \ {h}
  /\ handlers' = [handlers EXCEPT ![h] = Tail(@)]
  /\ sessions' = Held(sessions)
  /\ UNCHANGED <<devices, envelope, answers>>

\* it begins and waits for the database,
Waits(h) ==
  /\ Turn(h, "queued")
  /\ InSequence(h)
  /\ sessions' = [sessions EXCEPT ![h] = Counted(sessions[h])]
  /\ handlers' = [handlers EXCEPT ![h][1].stage = "begun"]
  /\ UNCHANGED <<stored, answers, devices, envelope>>

\* or it is answered, and the answer means what it says.
Replies(h, session, response, close) ==
  /\ Answer(h, session, response, close)
  /\ \/ /\ Turn(h, "queued")
        /\ InSequence(h)
        /\ session.next_client_sequence = sessions[h].next_client_sequence + 1
        /\ session.next_server_sequence = sessions[h].next_server_sequence
     \/ /\ Turn(h, "begun")
        /\ session.next_client_sequence = sessions[h].next_client_sequence
        /\ session.next_server_sequence = sessions[h].next_server_sequence
  /\ \/ devices' = devices
     \/ /\ Message(h).request.kind = "register"
        /\ devices' = Registered(Message(h).request.identity)
  /\ \/ envelope' = envelope
     \/ /\ Message(h).request.kind = "put_envelope"
        /\ envelope' = Enveloped(Message(h).request.identity)
  /\ response.kind = "device_registered" =>
       /\ Message(h).request.kind = "register"
       /\ devices' = Registered(Message(h).request.identity)
  /\ response.kind = "vault_key_envelope" =>
       envelope # None /\ response.identity = envelope /\ envelope' = envelope
  /\ response.kind = "vault_key_envelope_stored" =>
       /\ Message(h).request.kind = "put_envelope"
       /\ envelope' = Message(h).request.identity

\* What serving the first handler of a session comes to: it is refused, waits, or replies.
LEMMA ServeForms ==
  ASSUME TypeInv, NEW h \in Handles, Serve(h)
  PROVE  /\ handlers[h] # <<>>
         /\ UNCHANGED <<detached, net, open>>
         /\ \/ Refused(h)
            \/ Waits(h)
            \/ \E session \in Session, response \in Responses, close \in BOOLEAN :
                 Replies(h, session, response, close)
<1>1. handlers[h] # <<>> /\ UNCHANGED <<detached, net, open>>
  BY DEF Serve, Reject, Begin, PerformAuthenticate, PerformRegister, PerformGetEnvelope,
         PerformPutEnvelope, PerformPing, Turn
<1> DEFINE request == Message(h).request
           session == Counted(sessions[h])
           replied == \E s \in Session, r \in Responses, close \in BOOLEAN :
                        Replies(h, s, r, close)
<1>2. /\ request.identity \in Identities \cup {None}
      /\ sessions[h] \in Session
      /\ envelope \in Identities \cup {None}
  BY <1>1, HandlerFields DEF TypeInv, ServerTypeOK
<1>3. /\ session \in Session
      /\ session.next_client_sequence = sessions[h].next_client_sequence + 1
      /\ session.next_server_sequence = sessions[h].next_server_sequence
  <2>1. sessions[h].next_client_sequence + 1 \in Nat /\ sessions[h].message_count + 1 \in Nat
    BY <1>2 DEF Session
  <2>2. session = [sessions[h] EXCEPT
                     !.next_client_sequence = sessions[h].next_client_sequence + 1,
                     !.message_count = sessions[h].message_count + 1]
    BY <1>2 DEF Counted, Session
  <2>3. QED
    BY <1>2, <2>1, <2>2 DEF Session
<1>4. Error \in Responses /\ Error.kind = "error"
  BY DEF Error, Response, Responses
<1>5. CASE Reject(h)
  BY <1>1, <1>5 DEF Reject, Refused
<1>6. CASE Begin(h)
  <2>1. Turn(h, "queued") /\ InSequence(h) /\ UNCHANGED <<devices, envelope>>
    BY <1>6 DEF Begin
  <2> DEFINE exhausted == session.message_count > MAX_SESSION_MESSAGES
  <2> HIDE DEF session
  <2>2. CASE exhausted
    <3>1. Answer(h, session, Error, TRUE)
      BY <1>6, <2>2 DEF Begin, session
    <3>2. Replies(h, session, Error, TRUE)
      BY <1>3, <1>4, <2>1, <3>1 DEF Replies
    <3>3. QED
      BY <1>1, <1>3, <1>4, <3>2
  <2>3. CASE ~exhausted /\ ~Admitted(session, request.kind)
    <3> DEFINE close == request.kind # "ping"
    <3>1. Answer(h, session, Error, close)
      BY <1>6, <2>3 DEF Begin, session
    <3>2. Replies(h, session, Error, close)
      BY <1>3, <1>4, <2>1, <3>1 DEF Replies
    <3>3. QED
      BY <1>1, <1>3, <1>4, <3>2
  <2>4. CASE /\ ~exhausted
             /\ Admitted(session, request.kind)
             /\ request.kind = "authenticate" /\ request.identity = None
    <3> DEFINE next == [session EXCEPT !.phase = "password_authenticated"]
               response == Response("authenticated", None)
    <3>1. Answer(h, next, response, FALSE)
      BY <1>6, <2>4 DEF Begin, session
    <3>2. /\ next \in Session
          /\ next.next_client_sequence = session.next_client_sequence
          /\ next.next_server_sequence = session.next_server_sequence
      BY <1>3 DEF Session
    <3>3. response \in Responses /\ response.kind = "authenticated"
      BY DEF Response, Responses
    <3>4. Replies(h, next, response, FALSE)
      BY <1>3, <2>1, <3>1, <3>2, <3>3 DEF Replies
    <3>5. QED
      BY <1>1, <3>2, <3>3, <3>4
  <2>5. CASE /\ ~exhausted
             /\ Admitted(session, request.kind)
             /\ ~(request.kind = "authenticate" /\ request.identity = None)
    <3>1. Waits(h)
      BY <1>6, <2>1, <2>5 DEF Begin, Waits, session
    <3>2. QED
      BY <1>1, <3>1
  <2>6. QED
    BY <2>2, <2>3, <2>4, <2>5
<1>7. ASSUME NEW next \in Session, NEW response \in Responses, NEW close \in BOOLEAN,
             Replies(h, next, response, close)
      PROVE  replied
  BY <1>7
<1>8. /\ [sessions[h] EXCEPT !.phase = "device_authenticated", !.device = request.identity]
           \in Session
      /\ [sessions[h] EXCEPT !.phase = "device_authenticated",
                             !.device = request.identity].next_client_sequence
           = sessions[h].next_client_sequence
      /\ [sessions[h] EXCEPT !.phase = "device_authenticated",
                             !.device = request.identity].next_server_sequence
           = sessions[h].next_server_sequence
  BY <1>2 DEF Session
<1> DEFINE known == [sessions[h] EXCEPT !.phase = "device_authenticated",
                                        !.device = request.identity]
<1> HIDE DEF replied
<1>9. CASE PerformAuthenticate(h)
  <2>1. Turn(h, "begun") /\ UNCHANGED <<devices, envelope>>
    BY <1>9 DEF PerformAuthenticate
  <2>2. CASE devices[request.identity] = "active"
    <3> DEFINE response == Response("authenticated", request.identity)
    <3>1. response \in Responses /\ response.kind = "authenticated"
      BY <1>2 DEF Response, Responses
    <3>2. Answer(h, known, response, FALSE)
      BY <1>9, <2>2 DEF PerformAuthenticate
    <3>3. Replies(h, known, response, FALSE)
      BY <1>8, <2>1, <3>1, <3>2 DEF Replies
    <3>4. QED
      BY <1>1, <1>7, <1>8, <3>1, <3>3 DEF replied
  <2>3. CASE devices[request.identity] # "active"
    <3>1. Answer(h, sessions[h], Error, TRUE)
      BY <1>9, <2>3 DEF PerformAuthenticate
    <3>2. Replies(h, sessions[h], Error, TRUE)
      BY <1>4, <2>1, <3>1 DEF Replies
    <3>3. QED
      BY <1>1, <1>2, <1>4, <1>7, <3>2 DEF replied
  <2>4. QED
    BY <2>2, <2>3
<1>10. CASE PerformRegister(h)
  <2> DEFINE response == Response("device_registered", request.identity)
  <2>1. response \in Responses /\ response.kind = "device_registered"
    BY <1>2 DEF Response, Responses
  <2>2. /\ Turn(h, "begun") /\ request.kind = "register"
        /\ devices' = Registered(request.identity)
        /\ UNCHANGED envelope
        /\ Answer(h, known, response, FALSE)
    BY <1>10 DEF PerformRegister
  <2>3. Replies(h, known, response, FALSE)
    BY <1>8, <2>1, <2>2 DEF Replies
  <2>4. QED
    BY <1>1, <1>7, <1>8, <2>1, <2>3 DEF replied
<1>11. CASE PerformGetEnvelope(h)
  <2> DEFINE response == IF envelope = None THEN Error
                         ELSE Response("vault_key_envelope", envelope)
  <2>1. /\ response \in Responses
        /\ response.kind \in {"error", "vault_key_envelope"}
        /\ response.kind = "vault_key_envelope" =>
             envelope # None /\ response.identity = envelope
    BY <1>2, <1>4 DEF Response, Responses
  <2>2. /\ Turn(h, "begun") /\ UNCHANGED <<devices, envelope>>
        /\ Answer(h, sessions[h], response, FALSE)
    BY <1>11 DEF PerformGetEnvelope
  <2> HIDE DEF response
  <2>3. Replies(h, sessions[h], response, FALSE)
    BY <2>1, <2>2 DEF Replies
  <2>4. QED
    BY <1>1, <1>2, <1>7, <2>1, <2>3 DEF replied
<1>12. CASE PerformPutEnvelope(h)
  <2> DEFINE response == IF envelope' = request.identity
                         THEN Response("vault_key_envelope_stored", None) ELSE Error
  <2>1. /\ response \in Responses
        /\ response.kind \in {"error", "vault_key_envelope_stored"}
        /\ response.kind = "vault_key_envelope_stored" => envelope' = request.identity
    BY <1>4 DEF Response, Responses
  <2>2. /\ Turn(h, "begun") /\ request.kind = "put_envelope"
        /\ envelope' = Enveloped(request.identity)
        /\ UNCHANGED devices
        /\ Answer(h, sessions[h], response, FALSE)
    BY <1>12 DEF PerformPutEnvelope
  <2> HIDE DEF response
  <2>3. Replies(h, sessions[h], response, FALSE)
    BY <2>1, <2>2 DEF Replies
  <2>4. QED
    BY <1>1, <1>2, <1>7, <2>1, <2>3 DEF replied
<1>13. CASE PerformPing(h)
  <2>1. Turn(h, "begun") /\ UNCHANGED <<devices, envelope>>
    BY <1>13 DEF PerformPing
  <2>2. CASE devices[sessions[h].device] = "active"
    <3> DEFINE response == Response("pong", None)
    <3>1. response \in Responses /\ response.kind = "pong"
      BY DEF Response, Responses
    <3>2. Answer(h, sessions[h], response, FALSE)
      BY <1>13, <2>2 DEF PerformPing
    <3>3. Replies(h, sessions[h], response, FALSE)
      BY <2>1, <3>1, <3>2 DEF Replies
    <3>4. QED
      BY <1>1, <1>2, <1>7, <3>1, <3>3 DEF replied
  <2>3. CASE devices[sessions[h].device] # "active"
    <3>1. Answer(h, sessions[h], Error, TRUE)
      BY <1>13, <2>3 DEF PerformPing
    <3>2. Replies(h, sessions[h], Error, TRUE)
      BY <1>4, <2>1, <3>1 DEF Replies
    <3>3. QED
      BY <1>1, <1>2, <1>4, <1>7, <3>2 DEF replied
  <2>4. QED
    BY <2>2, <2>3
<1>14. QED
  BY <1>5, <1>6, <1>9, <1>10, <1>11, <1>12, <1>13 DEF Serve

----------------------------------------------------------------------------
\* The handlers after a step: each was there before, further back or at its place, or has
\* just arrived.
HandlersType == handlers \in [Handles -> Seq(Handler)]

HandlersCome ==
  \A h \in Handles : \A k \in DOMAIN handlers'[h] :
    \/ \E i \in DOMAIN handlers[h] :
         /\ i >= k
         /\ handlers'[h][k].message = handlers[h][i].message
         /\ k > 1 => handlers'[h][k].stage = handlers[h][i].stage
    \/ /\ handlers'[h][k].stage = "queued"
       /\ handlers'[h][k].message \in net
       /\ handlers'[h][k].message.handle = h

\* One queue changes, to one in which each has its place in the old one.
PlaceOf(h, queue, k) ==
  \/ \E i \in DOMAIN handlers[h] :
       /\ i >= k
       /\ queue[k].message = handlers[h][i].message
       /\ k > 1 => queue[k].stage = handlers[h][i].stage
  \/ /\ queue[k].stage = "queued"
     /\ queue[k].message \in net
     /\ queue[k].message.handle = h

\* One queue of handlers changes: each place comes from the same or a later one, or from
\* the network.
LEMMA QueueChanges ==
  ASSUME HandlersType, NEW h \in Handles, NEW queue \in Seq(Handler),
         handlers' = [handlers EXCEPT ![h] = queue],
         \A k \in DOMAIN queue : PlaceOf(h, queue, k)
  PROVE  HandlersType' /\ HandlersCome
<1>1. HandlersType'
  BY DEF HandlersType
<1>2. ASSUME NEW o \in Handles, o # h, NEW k \in DOMAIN handlers'[o]
      PROVE  \E i \in DOMAIN handlers[o] :
               /\ i >= k
               /\ handlers'[o][k].message = handlers[o][i].message
               /\ k > 1 => handlers'[o][k].stage = handlers[o][i].stage
  <2>1. handlers'[o] = handlers[o] /\ handlers[o] \in Seq(Handler)
    BY <1>2 DEF HandlersType
  <2>2. k \in Nat
    BY <1>2, <2>1, LenProperties
  <2>3. QED
    BY <1>2, <2>1, <2>2
<1>3. handlers'[h] = queue
  BY DEF HandlersType
<1>4. QED
  BY <1>1, <1>2, <1>3 DEF HandlersCome, PlaceOf

\* No queue changes.
LEMMA QueuesStay ==
  ASSUME HandlersType, handlers' = handlers
  PROVE  HandlersType' /\ HandlersCome
<1>1. \A h \in Handles : \A k \in DOMAIN handlers[h] : k \in Nat
  BY LenProperties DEF HandlersType
<1>2. QED
  BY <1>1 DEF HandlersType, HandlersCome

\* The first handler of a session is done.
LEMMA QueueShortens ==
  ASSUME HandlersType, NEW h \in Handles, handlers[h] # <<>>,
         handlers' = [handlers EXCEPT ![h] = Tail(@)]
  PROVE  HandlersType' /\ HandlersCome
<1> DEFINE queue == Tail(handlers[h])
<1>1. handlers[h] \in Seq(Handler)
  BY DEF HandlersType
<1>2. /\ queue \in Seq(Handler)
      /\ \A k \in DOMAIN queue :
           k + 1 \in DOMAIN handlers[h] /\ queue[k] = handlers[h][k + 1] /\ k \in Nat
  BY <1>1, TailElements
<1>3. handlers' = [handlers EXCEPT ![h] = queue]
  OBVIOUS
<1> HIDE DEF queue
<1>4. \A k \in DOMAIN queue : PlaceOf(h, queue, k)
  <2> TAKE k \in DOMAIN queue
  <2>1. k + 1 \in DOMAIN handlers[h] /\ k + 1 >= k /\ queue[k] = handlers[h][k + 1]
    BY <1>2
  <2>2. QED
    BY <2>1 DEF PlaceOf
<1>5. QED
  BY <1>2, <1>3, <1>4, QueueChanges

\* A handler that waits is dropped.
LEMMA QueueLosesOne ==
  ASSUME HandlersType, NEW h \in Handles, NEW j \in DOMAIN handlers[h],
         handlers' = [handlers EXCEPT ![h] = RemoveAt(@, j)]
  PROVE  HandlersType' /\ HandlersCome
<1> DEFINE queue == RemoveAt(handlers[h], j)
<1>1. handlers[h] \in Seq(Handler)
  BY DEF HandlersType
<1>2. /\ queue \in Seq(Handler)
      /\ \A k \in DOMAIN queue :
           \E i \in DOMAIN handlers[h] : i >= k /\ queue[k] = handlers[h][i]
  BY <1>1, RemoveAtElements
<1>3. handlers' = [handlers EXCEPT ![h] = queue]
  OBVIOUS
<1> HIDE DEF queue
<1>4. \A k \in DOMAIN queue : PlaceOf(h, queue, k)
  BY <1>2 DEF PlaceOf
<1>5. QED
  BY <1>2, <1>3, <1>4, QueueChanges

\* A message queues for its session.
LEMMA QueueGrows ==
  ASSUME HandlersType, NEW m \in net, m \in Messages, m.handle \in Handles,
         handlers' = [handlers EXCEPT ![m.handle] =
                        Append(@, [message |-> m, stage |-> "queued"])]
  PROVE  HandlersType' /\ HandlersCome
<1> DEFINE h == m.handle
           new == [message |-> m, stage |-> "queued"]
           queue == Append(handlers[h], new)
<1>1. handlers[h] \in Seq(Handler) /\ new \in Handler
  BY DEF HandlersType, Handler
<1>2. /\ queue \in Seq(Handler)
      /\ Len(queue) = Len(handlers[h]) + 1
      /\ \A k \in 1..Len(handlers[h]) : queue[k] = handlers[h][k]
      /\ queue[Len(handlers[h]) + 1] = new
  BY <1>1, AppendProperties
<1>3. DOMAIN queue = 1..Len(queue) /\ DOMAIN handlers[h] = 1..Len(handlers[h])
      /\ Len(handlers[h]) \in Nat
  BY <1>1, <1>2, LenProperties
<1>4. handlers' = [handlers EXCEPT ![h] = queue]
  OBVIOUS
<1> HIDE DEF queue
<1>5. ASSUME NEW k \in DOMAIN queue
      PROVE  PlaceOf(h, queue, k)
  <2>1. CASE k \in 1..Len(handlers[h])
    <3>1. k \in DOMAIN handlers[h] /\ k >= k /\ queue[k] = handlers[h][k]
      BY <1>2, <1>3, <2>1
    <3>2. QED
      BY <3>1 DEF PlaceOf
  <2>2. CASE k = Len(handlers[h]) + 1
    BY <1>2, <2>2 DEF PlaceOf
  <2>3. QED
    BY <1>2, <1>3, <1>5, <2>1, <2>2
<1>6. QED
  BY <1>2, <1>4, <1>5, QueueChanges

\* The first handler of a session has begun.
LEMMA QueueBegins ==
  ASSUME HandlersType, NEW h \in Handles, handlers[h] # <<>>,
         handlers' = [handlers EXCEPT ![h][1].stage = "begun"]
  PROVE  /\ HandlersType' /\ HandlersCome
         /\ handlers'[h] # <<>>
         /\ handlers'[h][1].stage = "begun"
         /\ handlers'[h][1].message = handlers[h][1].message
<1> DEFINE first == [handlers[h][1] EXCEPT !.stage = "begun"]
           queue == [handlers[h] EXCEPT ![1] = first]
<1>1. /\ handlers[h] \in Seq(Handler)
      /\ Len(handlers[h]) \in Nat \ {0}
      /\ DOMAIN handlers[h] = 1..Len(handlers[h])
  BY EmptySeq, LenProperties DEF HandlersType
<1>2. handlers[h][1] \in Handler
  BY <1>1, ElementOfSeq
<1>3. first \in Handler /\ first.stage = "begun" /\ first.message = handlers[h][1].message
  BY <1>2 DEF Handler
<1>4. /\ queue \in Seq(Handler)
      /\ Len(queue) = Len(handlers[h])
      /\ \A j \in 1..Len(handlers[h]) : queue[j] = IF j = 1 THEN first ELSE handlers[h][j]
  BY <1>1, <1>3, ExceptSeq
<1>5. DOMAIN queue = 1..Len(handlers[h])
  BY <1>4, LenProperties
<1>6. handlers' = [handlers EXCEPT ![h] = queue]
  OBVIOUS
<1> HIDE DEF queue, first
<1>7. ASSUME NEW k \in DOMAIN queue
      PROVE  PlaceOf(h, queue, k)
  <2>1. /\ k \in DOMAIN handlers[h] /\ k >= k
        /\ queue[k].message = handlers[h][k].message
        /\ k > 1 => queue[k].stage = handlers[h][k].stage
    BY <1>1, <1>3, <1>4, <1>5
  <2>2. QED
    BY <2>1 DEF PlaceOf
<1>8. HandlersType' /\ HandlersCome
  BY <1>4, <1>6, <1>7, QueueChanges
<1>9. handlers'[h] = queue
  BY <1>6 DEF HandlersType
<1>10. queue # <<>> /\ queue[1] = first
  BY <1>1, <1>4, EmptySeq
<1>11. QED
  BY <1>3, <1>8, <1>9, <1>10

----------------------------------------------------------------------------
\* What the actions of a client have in common.

\* Numbers can be taken in their order.
LEMMA LeastExists ==
  ASSUME NEW T, T \subseteq Nat, T # {}
  PROVE  \E x \in T : \A y \in T : x <= y
<1>1. PICK x \in T : \A y \in T : ~ (<<y, x>> \in OpToRel(<, Nat))
  BY WFMin, NatLessThanWellFounded, Zenon
<1>2. \A y \in T : ~ (y < x)
  BY <1>1 DEF OpToRel
<1>3. QED
  BY <1>2

\* The handle of a new session is one that nothing refers to.
LEMMA UnknownHandleIsUnknown ==
  ASSUME \E h \in Handles : IsUnknown(h)
  PROVE  UnknownHandle \in Handles /\ IsUnknown(UnknownHandle)
<1> DEFINE unknown == {h \in Handles : IsUnknown(h)}
<1>1. unknown # {} /\ unknown \subseteq Nat
  BY SessionAssumption
<1>2. PICK h \in unknown : \A o \in unknown : h <= o
  <2> HIDE DEF unknown
  <2> QED
    BY <1>1, LeastExists
<1>3. h \in Handles /\ IsUnknown(h) /\ \A o \in Handles : IsUnknown(o) => h <= o
  BY <1>2
<1>4. QED
  BY <1>3, Zenon DEF UnknownHandle

\* The identity of a new device is one.
LEMMA NewIdentityIsNew ==
  ASSUME \E i \in Identities : IsUnused(i)
  PROVE  NewIdentity \in Identities
<1> DEFINE unused == {i \in Identities : IsUnused(i)}
<1>1. unused # {} /\ unused \subseteq Nat
  BY SessionAssumption
<1>2. PICK i \in unused : \A o \in unused : i <= o
  <2> HIDE DEF unused
  <2> QED
    BY <1>1, LeastExists
<1>3. i \in Identities /\ IsUnused(i) /\ \A o \in Identities : IsUnused(o) => i <= o
  BY <1>2
<1>4. QED
  BY <1>3, Zenon DEF NewIdentity

\* A message that is sent is the next of its channel; nothing else of the client changes.
LEMMA SendEffect ==
  ASSUME TypeInv, NEW c \in Clients, NEW client \in Client, NEW request \in Requests,
         client.channel.handle \in Handles, Send(c, client, request)
  PROVE  \E new \in Client, m \in Messages :
           /\ clients' = [clients EXCEPT ![c] = new]
           /\ new.channel.handle = client.channel.handle
           /\ new.phase = client.phase
           /\ new.device = client.device
           /\ new.key = client.key
           /\ new.configured = client.configured
           /\ net' = net \cup {m}
           /\ m.handle = client.channel.handle
           /\ m.request = request
<1> DEFINE channel == client.channel
           m == NextMessage(channel, request)
           next == [channel EXCEPT !.next_client_sequence = @ + 1, !.pending = @ \cup {m}]
           new == [client EXCEPT !.channel = next]
<1>1. channel \in Channel
  BY DEF Client
<1>2. channel.next_client_sequence \in Nat /\ channel.pending \in SUBSET Messages
  BY <1>1 DEF Channel
<1>3. m \in Messages /\ m.handle = channel.handle /\ m.request = request
  BY <1>2 DEF NextMessage, Messages
<1>4. net' = net \cup {m}
  BY DEF Send
<1>5. clients' = [clients EXCEPT ![c] =
                    [client EXCEPT !.channel.next_client_sequence = @ + 1,
                                   !.channel.pending = @ \cup {m}]]
  BY DEF Send
<1> HIDE DEF m
<1>6. next \in Channel /\ next.handle = channel.handle
  <2> DEFINE count == channel.next_client_sequence + 1
             waiting == channel.pending \cup {m}
  <2>1. count \in Nat /\ waiting \in SUBSET Messages
    BY <1>2, <1>3
  <2>2. next = [channel EXCEPT !.next_client_sequence = count, !.pending = waiting]
    BY <1>1 DEF Channel
  <2> HIDE DEF count, waiting, next
  <2>3. QED
    BY <1>1, <2>1, <2>2 DEF Channel
<1>7. [client EXCEPT !.channel.next_client_sequence = @ + 1,
                     !.channel.pending = @ \cup {m}] = new
  BY <1>1 DEF Client, Channel
<1> HIDE DEF next
<1>8. /\ new \in Client
      /\ new.channel = next
      /\ new.phase = client.phase
      /\ new.device = client.device
      /\ new.key = client.key
      /\ new.configured = client.configured
  BY <1>6 DEF Client
<1>9. QED
  BY <1>3, <1>4, <1>5, <1>6, <1>7, <1>8

SameServer == UNCHANGED <<sessions, stored, handlers, detached, devices, envelope>>

\* The ways in which a client goes on: it opens a channel that nothing knows,
Opens(c) ==
  \E h \in Handles, new \in Client, m \in Messages :
    /\ clients[c].channel = NoChannel
    /\ IsUnknown(h)
    /\ Handshake(h)
    /\ open' = open \cup {h}
    /\ clients' = [clients EXCEPT ![c] = new]
    /\ new.channel.handle = h
    /\ new.phase = "authenticating"
    /\ new.device = clients[c].device
    /\ new.key = clients[c].key
    /\ new.configured = clients[c].configured
    /\ net' = net \cup {m}
    /\ m.handle = h
    /\ m.request.kind = "authenticate"
    /\ UNCHANGED <<handlers, detached, devices, envelope, answers>>

\* or does so in vain,
OpensInVain ==
  /\ \E h \in Handles : IsUnknown(h) /\ Handshake(h)
  /\ UNCHANGED <<handlers, detached, devices, envelope, net, open, answers, clients>>

\* it closes its channel,
Closes(c) == Close(c) /\ SameServer

\* or it moves on, with nothing but what it has sent and been answered on its channel: with
\* no word of an identity,
MovesOn(c, new) ==
  /\ new.device = clients[c].device
  /\ new.key = clients[c].key
  /\ new.configured = clients[c].configured
  /\ \/ new.phase = clients[c].phase
     \/ clients[c].phase = "authenticating" /\ new.phase = "asking" /\ ~clients[c].configured
     \/ clients[c].phase = "authenticating" /\ new.phase = "ready" /\ clients[c].configured

\* with a new device, and its own key or the one of the vault,
Registers(c, new) ==
  /\ clients[c].phase = "asking"
  /\ new.phase = "registering"
  /\ new.configured = clients[c].configured
  /\ new.device \in Identities
  /\ \/ new.key = new.device
     \/ \E a \in answers : a.response.kind = "vault_key_envelope" /\ new.key = a.response.identity

Has(c, kind) ==
  \E a \in answers : a.handle = clients[c].channel.handle /\ a.response.kind = kind

\* with its key as that of the vault, or at the end of the whole.
Puts(c, new) ==
  /\ clients[c].phase = "registering"
  /\ Has(c, "device_registered")
  /\ new.phase = "putting"
  /\ new.device = clients[c].device
  /\ new.key = clients[c].key
  /\ new.configured = clients[c].configured

Finishes(c, new) ==
  /\ \/ /\ clients[c].phase = "registering"
        /\ Has(c, "device_registered")
        /\ clients[c].key # clients[c].device
     \/ /\ clients[c].phase = "putting"
        /\ Has(c, "vault_key_envelope_stored")
  /\ new.phase = "ready"
  /\ new.device = clients[c].device
  /\ new.key = clients[c].key
  /\ new.configured = TRUE

\* What a client says of an identity when it has come to a phase.
Says(new, request) ==
  /\ request.kind = "register" =>
       new.phase = "registering" /\ request.identity = new.device
  /\ request.kind = "put_envelope" =>
       new.phase = "putting" /\ request.identity = new.key

Moves(c) ==
  \E new \in Client, sent \in SUBSET Messages :
    /\ clients[c].channel.handle \in Handles
    /\ clients' = [clients EXCEPT ![c] = new]
    /\ new.channel.handle = clients[c].channel.handle
    /\ net' = net \cup sent
    /\ \A m \in sent : m.handle = new.channel.handle /\ Says(new, m.request)
    /\ MovesOn(c, new) \/ Registers(c, new) \/ Puts(c, new) \/ Finishes(c, new)
    /\ answers' \subseteq answers
    /\ open' = open
    /\ SameServer

\* The channel of a client is closed or one of the handles.
LEMMA ClientFields ==
  ASSUME TypeInv, NEW c \in Clients
  PROVE  /\ clients[c] \in Client
         /\ clients[c].channel \in Channel
         /\ clients[c].channel.handle \in Handles \cup {None}
         /\ clients[c].channel.next_server_sequence \in Nat
         /\ clients[c].channel.pending \in SUBSET Messages
         /\ clients[c].channel.handle = None <=> clients[c].channel = NoChannel
         /\ None \notin Handles
         /\ NoChannel \in Channel
<1>1. clients[c] \in Client
  BY DEF TypeInv, ClientsTypeOK
<1>2. None \notin Handles
  BY SessionAssumption DEF None
<1>3. NoChannel \in Channel /\ NoChannel.handle = None
  BY DEF NoChannel, Channel
<1>4. clients[c].channel.handle = None <=> clients[c].channel = NoChannel
  BY <1>3 DEF TypeInv, ChannelsAreOpen
<1>5. QED
  BY <1>1, <1>2, <1>3, <1>4 DEF Client, Channel

\* A request of the protocol is one of the requests.
LEMMA RequestTypes ==
  ASSUME NEW kind \in Kinds, NEW i \in Identities \cup {None}
  PROVE  /\ Request(kind, i) \in Requests
         /\ Request(kind, i).kind = kind
         /\ Request(kind, i).identity = i
BY DEF Request, Requests

\* Connecting opens a session and asks for authentication.
LEMMA ConnectForm ==
  ASSUME TypeInv, NEW c \in Clients, Connect(c)
  PROVE  Opens(c)
<1> DEFINE h == UnknownHandle
           channel == [NoChannel EXCEPT !.handle = h]
           client == [clients[c] EXCEPT !.phase = "authenticating", !.channel = channel]
           who == IF client.configured THEN client.device ELSE None
           request == Request("authenticate", who)
<1>1. /\ clients[c].channel = NoChannel
      /\ \E o \in Handles : IsUnknown(o)
      /\ Handshake(h)
      /\ open' = open \cup {h}
      /\ Send(c, client, request)
      /\ UNCHANGED <<handlers, detached, devices, envelope, answers>>
  BY DEF Connect
<1>2. h \in Handles /\ IsUnknown(h)
  BY <1>1, UnknownHandleIsUnknown
<1>3. channel \in Channel /\ channel.handle = h
  BY <1>2 DEF NoChannel, Channel
<1> HIDE DEF channel, h
<1>4. /\ client \in Client /\ client.channel = channel /\ client.phase = "authenticating"
      /\ client.device = clients[c].device /\ client.key = clients[c].key
      /\ client.configured = clients[c].configured
  BY <1>3, ClientFields DEF Client, Phases
<1>5. request \in Requests /\ request.kind = "authenticate"
  <2>1. who \in Identities \cup {None}
    BY <1>4 DEF Client
  <2> HIDE DEF who
  <2>2. QED
    BY <2>1, RequestTypes DEF Kinds
<1> HIDE DEF client, request
<1>6. PICK new \in Client, m \in Messages :
           /\ clients' = [clients EXCEPT ![c] = new]
           /\ new.channel.handle = client.channel.handle
           /\ new.phase = client.phase
           /\ new.device = client.device
           /\ new.key = client.key
           /\ new.configured = client.configured
           /\ net' = net \cup {m}
           /\ m.handle = client.channel.handle
           /\ m.request = request
  BY <1>1, <1>2, <1>3, <1>4, <1>5, SendEffect
<1>7. QED
  BY <1>1, <1>2, <1>3, <1>4, <1>5, <1>6 DEF Opens

\* A ping is one more message of a client that is set up.
LEMMA PingForm ==
  ASSUME TypeInv, NEW c \in Clients, Ping(c)
  PROVE  Moves(c)
<1> DEFINE request == Request("ping", None)
<1>1. request \in Requests /\ request.kind = "ping"
  BY RequestTypes DEF Kinds
<1>2. Send(c, clients[c], request) /\ answers' = answers /\ open' = open /\ SameServer
  BY DEF Ping, SameServer
<1>3. clients[c].channel.handle \in Handles /\ clients[c] \in Client
  BY ClientFields DEF Ping, TypeInv, ChannelsAreOpen
<1> HIDE DEF request
<1>4. PICK new \in Client, m \in Messages :
           /\ clients' = [clients EXCEPT ![c] = new]
           /\ new.channel.handle = clients[c].channel.handle
           /\ new.phase = clients[c].phase
           /\ new.device = clients[c].device
           /\ new.key = clients[c].key
           /\ new.configured = clients[c].configured
           /\ net' = net \cup {m}
           /\ m.handle = clients[c].channel.handle
           /\ m.request = request
  BY <1>1, <1>2, <1>3, SendEffect
<1>5. MovesOn(c, new)
  BY <1>4 DEF MovesOn
<1>6. {m} \in SUBSET Messages /\ \A o \in {m} : o.handle = new.channel.handle /\ Says(new, o.request)
  BY <1>1, <1>4 DEF Says
<1>7. QED
  BY <1>2, <1>3, <1>4, <1>5, <1>6 DEF Moves

\* An answer that is taken changes the counters of the channel, and what Proceed says.
LEMMA AcceptForm ==
  ASSUME TypeInv, NEW c \in Clients, NEW a \in answers, Accept(c, a)
  PROVE  Moves(c) \/ Closes(c)
<1> DEFINE old == clients[c]
           channel == [old.channel EXCEPT !.next_server_sequence = @ + 1,
                                          !.pending = {m \in @ : m.sequence # a.to}]
           client == [old EXCEPT !.channel.next_server_sequence = @ + 1,
                                 !.channel.pending = {m \in @ : m.sequence # a.to}]
           response == a.response
<1>1. /\ a \in AnswerRecord
      /\ response \in Responses
      /\ response.identity \in Identities \cup {None}
  BY DEF TypeInv, NetTypeOK, AnswerRecord, Responses
<1>2. /\ old \in Client
      /\ old.channel \in Channel
      /\ old.channel.handle = a.handle
      /\ a.handle \in Handles
  BY <1>1, ClientFields DEF Accept, AnswerRecord
<1>3. channel \in Channel /\ channel.handle = old.channel.handle
  <2> DEFINE count == old.channel.next_server_sequence + 1
             waiting == {m \in old.channel.pending : m.sequence # a.to}
  <2>1. count \in Nat /\ waiting \in SUBSET Messages
    BY ClientFields
  <2>2. channel = [old.channel EXCEPT !.next_server_sequence = count, !.pending = waiting]
    BY <1>2 DEF Channel
  <2> HIDE DEF count, waiting, channel
  <2>3. QED
    BY <1>2, <2>1, <2>2 DEF Channel
<1>4. client = [old EXCEPT !.channel = channel]
  BY <1>2 DEF Client, Channel
<1>5. /\ SameServer
      /\ IF /\ a.sequence = old.channel.next_server_sequence
            /\ IsExpected(client, response)
         THEN Proceed(c, client, response) /\ answers' = answers \ {a} /\ UNCHANGED open
         ELSE Close(c)
  BY DEF Accept, SameServer
<1> HIDE DEF client, channel
<1>6. /\ client \in Client
      /\ client.channel = channel
      /\ client.channel.handle = old.channel.handle
      /\ client.channel.handle \in Handles
      /\ client.phase = old.phase
      /\ client.device = old.device
      /\ client.key = old.key
      /\ client.configured = old.configured
  BY <1>2, <1>3, <1>4 DEF Client
<1>7. CASE ~(/\ a.sequence = old.channel.next_server_sequence
             /\ IsExpected(client, response))
  BY <1>5, <1>7 DEF Closes
<1>8. CASE Proceed(c, client, response) /\ answers' = answers \ {a} /\ UNCHANGED open
  <2>1. ASSUME NEW new \in Client, NEW sent \in SUBSET Messages,
               clients' = [clients EXCEPT ![c] = new],
               new.channel.handle = client.channel.handle,
               net' = net \cup sent,
               \A m \in sent : m.handle = client.channel.handle /\ Says(new, m.request),
               MovesOn(c, new) \/ Registers(c, new) \/ Puts(c, new) \/ Finishes(c, new)
        PROVE  Moves(c)
    BY <1>2, <1>5, <1>6, <1>8, <2>1 DEF Moves
  <2>2. ASSUME NEW next \in Client, NEW request \in Requests,
               next.channel = client.channel, Send(c, next, request)
        PROVE  \E new \in Client, m \in Messages :
                 /\ clients' = [clients EXCEPT ![c] = new]
                 /\ new.channel.handle = client.channel.handle
                 /\ new.phase = next.phase
                 /\ new.device = next.device
                 /\ new.key = next.key
                 /\ new.configured = next.configured
                 /\ net' = net \cup {m}
                 /\ m.handle = client.channel.handle
                 /\ m.request = request
    BY <1>6, <2>2, SendEffect
  <2>3. CASE /\ client.phase = "authenticating"
             /\ response.kind = "authenticated"
             /\ ~client.configured
             /\ Send(c, [client EXCEPT !.phase = "asking"], Request("get_envelope", None))
    <3> DEFINE next == [client EXCEPT !.phase = "asking"]
               request == Request("get_envelope", None)
    <3>1. /\ next \in Client /\ next.channel = client.channel /\ next.phase = "asking"
          /\ next.device = old.device /\ next.key = old.key
          /\ next.configured = old.configured
      BY <1>6 DEF Client, Phases
    <3>2. request \in Requests /\ request.kind = "get_envelope"
      BY RequestTypes DEF Kinds
    <3> HIDE DEF next, request
    <3>3. PICK new \in Client, m \in Messages :
                 /\ clients' = [clients EXCEPT ![c] = new]
                 /\ new.channel.handle = client.channel.handle
                 /\ new.phase = next.phase
                 /\ new.device = next.device
                 /\ new.key = next.key
                 /\ new.configured = next.configured
                 /\ net' = net \cup {m}
                 /\ m.handle = client.channel.handle
                 /\ m.request = request
      BY <2>2, <2>3, <3>1, <3>2 DEF next, request
    <3>4. MovesOn(c, new)
      BY <1>6, <2>3, <3>1, <3>3 DEF MovesOn
    <3>5. {m} \in SUBSET Messages
          /\ \A o \in {m} : o.handle = client.channel.handle /\ Says(new, o.request)
      BY <3>2, <3>3 DEF Says
    <3>6. QED
      BY <2>1, <3>3, <3>4, <3>5
  <2>4. CASE /\ client.phase = "authenticating"
             /\ response.kind = "authenticated"
             /\ client.configured
             /\ clients' = [clients EXCEPT ![c] = [client EXCEPT !.phase = "ready"]]
             /\ UNCHANGED net
    <3> DEFINE new == [client EXCEPT !.phase = "ready"]
    <3>1. /\ new \in Client /\ new.channel = client.channel /\ new.phase = "ready"
          /\ new.device = old.device /\ new.key = old.key
          /\ new.configured = old.configured
      BY <1>6 DEF Client, Phases
    <3>2. clients' = [clients EXCEPT ![c] = new]
      BY <2>4
    <3> HIDE DEF new
    <3>3. MovesOn(c, new)
      BY <1>6, <2>4, <3>1 DEF MovesOn
    <3>4. {} \in SUBSET Messages /\ net' = net \cup {}
          /\ \A m \in {} : m.handle = client.channel.handle /\ Says(new, m.request)
      BY <2>4
    <3>5. QED
      BY <2>1, <3>1, <3>2, <3>3, <3>4
  <2>5. CASE /\ client.phase = "asking"
             /\ response.kind \in {"vault_key_envelope", "error"}
             /\ \E i \in Identities : IsUnused(i)
             /\ Send(c, [client EXCEPT !.phase = "registering",
                                       !.device = NewIdentity,
                                       !.key = IF Founder(response) THEN NewIdentity
                                               ELSE response.identity],
                     Request("register", NewIdentity))
    <3> DEFINE device == NewIdentity
               key == IF Founder(response) THEN device ELSE response.identity
               next == [client EXCEPT !.phase = "registering", !.device = device, !.key = key]
               request == Request("register", device)
    <3>0. Send(c, next, request)
      BY <2>5
    <3>1. /\ device \in Identities
          /\ key \in Identities \cup {None}
          /\ key = device \/ (response.kind = "vault_key_envelope" /\ key = response.identity)
      BY <1>1, <2>5, NewIdentityIsNew DEF Founder
    <3> HIDE DEF device, key
    <3>2. /\ next \in Client /\ next.channel = client.channel /\ next.phase = "registering"
          /\ next.device = device /\ next.key = key
          /\ next.configured = old.configured
      BY <1>6, <3>1 DEF Client, Phases
    <3>3. request \in Requests /\ request.kind = "register" /\ request.identity = device
      BY <3>1, RequestTypes DEF Kinds
    <3> HIDE DEF next, request
    <3>4. PICK new \in Client, m \in Messages :
                 /\ clients' = [clients EXCEPT ![c] = new]
                 /\ new.channel.handle = client.channel.handle
                 /\ new.phase = next.phase
                 /\ new.device = next.device
                 /\ new.key = next.key
                 /\ new.configured = next.configured
                 /\ net' = net \cup {m}
                 /\ m.handle = client.channel.handle
                 /\ m.request = request
      BY <2>2, <3>0, <3>2, <3>3
    <3>5. Registers(c, new)
      BY <1>6, <2>5, <3>1, <3>2, <3>4 DEF Registers
    <3>6. {m} \in SUBSET Messages
          /\ \A o \in {m} : o.handle = client.channel.handle /\ Says(new, o.request)
      BY <3>2, <3>3, <3>4 DEF Says
    <3>7. QED
      BY <2>1, <3>4, <3>5, <3>6
  <2>6. CASE /\ client.phase = "registering"
             /\ response.kind = "device_registered"
             /\ client.key = client.device
             /\ Send(c, [client EXCEPT !.phase = "putting"],
                     Request("put_envelope", client.key))
    <3> DEFINE next == [client EXCEPT !.phase = "putting"]
               request == Request("put_envelope", client.key)
    <3>1. /\ next \in Client /\ next.channel = client.channel /\ next.phase = "putting"
          /\ next.device = old.device /\ next.key = old.key
          /\ next.configured = old.configured
      BY <1>6 DEF Client, Phases
    <3>2. request \in Requests /\ request.kind = "put_envelope" /\ request.identity = old.key
      <4>1. client.key \in Identities \cup {None}
        BY <1>6 DEF Client
      <4>2. QED
        BY <1>6, <4>1, RequestTypes DEF Kinds
    <3> HIDE DEF next, request
    <3>3. PICK new \in Client, m \in Messages :
                 /\ clients' = [clients EXCEPT ![c] = new]
                 /\ new.channel.handle = client.channel.handle
                 /\ new.phase = next.phase
                 /\ new.device = next.device
                 /\ new.key = next.key
                 /\ new.configured = next.configured
                 /\ net' = net \cup {m}
                 /\ m.handle = client.channel.handle
                 /\ m.request = request
      BY <2>2, <2>6, <3>1, <3>2 DEF next, request
    <3>4. Puts(c, new)
      BY <1>2, <1>6, <2>6, <3>1, <3>3 DEF Puts, Has
    <3>5. {m} \in SUBSET Messages
          /\ \A o \in {m} : o.handle = client.channel.handle /\ Says(new, o.request)
      BY <3>1, <3>2, <3>3 DEF Says
    <3>6. QED
      BY <2>1, <3>3, <3>4, <3>5
  <2>7. CASE /\ \/ /\ client.phase = "registering"
                   /\ response.kind = "device_registered"
                   /\ client.key # client.device
                \/ /\ client.phase = "putting"
                   /\ response.kind = "vault_key_envelope_stored"
             /\ clients' = [clients EXCEPT
                              ![c] = [client EXCEPT !.phase = "ready", !.configured = TRUE]]
             /\ UNCHANGED net
    <3> DEFINE new == [client EXCEPT !.phase = "ready", !.configured = TRUE]
    <3>1. /\ new \in Client /\ new.channel = client.channel /\ new.phase = "ready"
          /\ new.device = old.device /\ new.key = old.key
          /\ new.configured = TRUE
      BY <1>6 DEF Client, Phases
    <3>2. clients' = [clients EXCEPT ![c] = new]
      BY <2>7
    <3> HIDE DEF new
    <3>3. Finishes(c, new)
      BY <1>2, <1>6, <2>7, <3>1 DEF Finishes, Has
    <3>4. {} \in SUBSET Messages /\ net' = net \cup {}
          /\ \A m \in {} : m.handle = client.channel.handle /\ Says(new, m.request)
      BY <2>7
    <3>5. QED
      BY <2>1, <3>1, <3>2, <3>3, <3>4
  <2>8. CASE /\ client.phase = "ready"
             /\ response.kind = "pong"
             /\ clients' = [clients EXCEPT ![c] = [client EXCEPT !.synced = TRUE]]
             /\ UNCHANGED net
    <3> DEFINE new == [client EXCEPT !.synced = TRUE]
    <3>1. /\ new \in Client /\ new.channel = client.channel /\ new.phase = old.phase
          /\ new.device = old.device /\ new.key = old.key
          /\ new.configured = old.configured
      BY <1>6 DEF Client
    <3>2. clients' = [clients EXCEPT ![c] = new]
      BY <2>8
    <3> HIDE DEF new
    <3>3. MovesOn(c, new)
      BY <1>6, <2>8, <3>1 DEF MovesOn
    <3>4. {} \in SUBSET Messages /\ net' = net \cup {}
          /\ \A m \in {} : m.handle = client.channel.handle /\ Says(new, m.request)
      BY <2>8
    <3>5. QED
      BY <2>1, <3>1, <3>2, <3>3, <3>4
  <2>9. QED
    BY <1>8, <2>3, <2>4, <2>5, <2>6, <2>7, <2>8 DEF Proceed
<1>9. QED
  BY <1>5, <1>7, <1>8

\* Every step of a client is of one of the forms.
LEMMA ClientForms ==
  ASSUME TypeInv, NEW c \in Clients, ClientNext(c)
  PROVE  Opens(c) \/ OpensInVain \/ Closes(c) \/ Moves(c)
<1>1. CASE Connect(c)
  BY <1>1, ConnectForm
<1>2. CASE ConnectInVain(c)
  <2>1. IsUnknown(UnknownHandle) /\ UnknownHandle \in Handles
    BY <1>2, UnknownHandleIsUnknown DEF ConnectInVain
  <2>2. QED
    BY <1>2, <2>1 DEF ConnectInVain, OpensInVain
<1>3. CASE \E a \in answers : Accept(c, a)
  BY <1>3, AcceptForm
<1>4. CASE Fail(c) \/ GiveUp(c)
  BY <1>4 DEF Fail, GiveUp, Closes, SameServer
<1>5. CASE Ping(c)
  BY <1>5, PingForm
<1>6. QED
  BY <1>1, <1>2, <1>3, <1>4, <1>5 DEF ClientNext

----------------------------------------------------------------------------
\* Types and addresses.

\* The steps of the whole, in the forms that they have been given.
LEMMA NextForms ==
  ASSUME TypeInv, [Next]_vars
  PROVE  \/ \E h \in Handles : Serve(h) /\ UNCHANGED clients
         \/ \E h \in Handles : Drop(h) /\ UNCHANGED clients
         \/ \E m \in net : (Arrive(m) \/ ArriveAgain(m) \/ Lose(m)) /\ UNCHANGED clients
         \/ \E request \in detached : Land(request) /\ UNCHANGED clients
         \/ \E d \in Identities : Revoke(d) /\ UNCHANGED clients
         \/ Crash /\ UNCHANGED clients
         \/ \E h \in Handles : Expire(h) /\ UNCHANGED clients
         \/ \E c \in Clients : Opens(c) \/ OpensInVain \/ Closes(c) \/ Moves(c)
         \/ UNCHANGED vars
<1>1. ASSUME NEW c \in Clients, ClientNext(c)
      PROVE  Opens(c) \/ OpensInVain \/ Closes(c) \/ Moves(c)
  BY <1>1, ClientForms
<1>2. ServerNext =>
        \/ \E h \in Handles : Serve(h) /\ UNCHANGED clients
        \/ \E h \in Handles : Drop(h) /\ UNCHANGED clients
        \/ \E m \in net : (Arrive(m) \/ ArriveAgain(m) \/ Lose(m)) /\ UNCHANGED clients
        \/ \E request \in detached : Land(request) /\ UNCHANGED clients
        \/ \E d \in Identities : Revoke(d) /\ UNCHANGED clients
        \/ Crash /\ UNCHANGED clients
  BY DEF ServerNext
<1>3. (\E h \in Handles : ExpireUnused(h) \/ ExpireInUse(h)) =>
        \E h \in Handles : Expire(h) /\ UNCHANGED clients
  BY DEF ExpireUnused, ExpireInUse
<1>4. QED
  BY <1>1, <1>2, <1>3 DEF Next

\* The sessions that are held are sessions.
LEMMA HeldType ==
  ASSUME NEW next \in [Handles -> Session]
  PROVE  Held(next) \in [Handles -> Session]
<1>1. Fresh \in Session
  BY DEF Fresh, Session
<1>2. QED
  BY <1>1 DEF Held

\* What an answer changes: one answer more for an open channel, one handler less.
LEMMA AnswerEffect ==
  ASSUME TypeInv, NEW h \in Handles, handlers[h] # <<>>, NEW session \in Session,
         NEW response \in Responses, NEW close \in BOOLEAN,
         Answer(h, session, response, close)
  PROVE  /\ sessions' \in [Handles -> Session]
         /\ stored' = IF close THEN stored \ {h} ELSE stored
         /\ handlers' = [handlers EXCEPT ![h] = Tail(@)]
         /\ \A o \in Handles \ {h} : o \in stored => sessions'[o] = sessions[o]
         /\ h \in stored' =>
              /\ sessions'[h].next_client_sequence = session.next_client_sequence
              /\ sessions'[h].next_server_sequence = session.next_server_sequence + 1
         /\ answers' \subseteq AnswerRecord
         /\ \A a \in answers' :
              \/ a \in answers
              \/ /\ a.handle = h /\ h \in open
                 /\ a.sequence = session.next_server_sequence
                 /\ a.to = Message(h).sequence
                 /\ a.response = response
<1> DEFINE next == Answered(session, response)
           all == [sessions EXCEPT ![h] = next]
           new == {[handle |-> o, sequence |-> session.next_server_sequence,
                    to |-> Message(h).sequence, response |-> response] : o \in {h} \cap open}
<1>1. /\ next \in Session
      /\ next.next_client_sequence = session.next_client_sequence
      /\ next.next_server_sequence = session.next_server_sequence + 1
  BY DEF Answered, Session
<1>2. sessions \in [Handles -> Session]
  BY DEF TypeInv, ServerTypeOK
<1>3. /\ stored' = IF close THEN stored \ {h} ELSE stored
      /\ handlers' = [handlers EXCEPT ![h] = Tail(@)]
      /\ sessions' = Held(all)
      /\ answers' = answers \cup new
  BY DEF Answer
<1> HIDE DEF next
<1>4. all \in [Handles -> Session] /\ all[h] = next /\ \A o \in Handles \ {h} : all[o] = sessions[o]
  BY <1>1, <1>2
<1>5. /\ sessions' \in [Handles -> Session]
      /\ \A o \in Handles \ {h} : o \in stored => sessions'[o] = sessions[o]
      /\ h \in stored' => sessions'[h] = next
  <2> HIDE DEF all
  <2>1. sessions' \in [Handles -> Session]
    BY <1>3, <1>4, HeldType
  <2>2. \A o \in Handles : o \in stored' => sessions'[o] = all[o]
    BY <1>3 DEF Held
  <2>3. QED
    BY <1>3, <1>4, <2>1, <2>2
<1>6. Message(h).sequence \in Nat /\ session.next_server_sequence \in Nat
  BY HandlerFields DEF Session
<1>7. new \subseteq AnswerRecord
  BY <1>6 DEF AnswerRecord
<1>8. answers' \subseteq AnswerRecord
  BY <1>3, <1>7 DEF TypeInv, NetTypeOK
<1>9. \A a \in new : /\ a.handle = h /\ h \in open
                    /\ a.sequence = session.next_server_sequence
                    /\ a.to = Message(h).sequence
                    /\ a.response = response
  OBVIOUS
<1> HIDE DEF new, all
<1>10. \A a \in answers' :
         \/ a \in answers
         \/ /\ a.handle = h /\ h \in open
            /\ a.sequence = session.next_server_sequence
            /\ a.to = Message(h).sequence
            /\ a.response = response
  BY <1>3, <1>9
<1>11. h \in stored' =>
         /\ sessions'[h].next_client_sequence = session.next_client_sequence
         /\ sessions'[h].next_server_sequence = session.next_server_sequence + 1
  BY <1>1, <1>5
<1>12. QED
  BY <1>3, <1>5, <1>8, <1>10, <1>11

\* Every step moves handlers forward, adds one that has arrived, or drops some.
LEMMA StepHandlers ==
  ASSUME TypeInv, [Next]_vars
  PROVE  /\ HandlersType' /\ HandlersCome
         /\ HandlersInPlace'
<1>0. HandlersType
  BY DEF TypeInv, ServerTypeOK, HandlersType
<1>1. HandlersType' /\ HandlersCome
  <2>1. ASSUME NEW h \in Handles, Serve(h)
        PROVE  HandlersType' /\ HandlersCome
    <3>1. handlers[h] # <<>>
      BY <2>1, ServeForms
    <3>2. CASE Refused(h)
      BY <1>0, <3>1, <3>2, QueueShortens DEF Refused
    <3>3. CASE Waits(h)
      BY <1>0, <3>1, <3>3, QueueBegins DEF Waits
    <3>4. ASSUME NEW session \in Session, NEW response \in Responses, NEW close \in BOOLEAN,
                 Replies(h, session, response, close)
          PROVE  HandlersType' /\ HandlersCome
      BY <1>0, <3>1, <3>4, QueueShortens DEF Replies, Answer
    <3>5. QED
      BY <2>1, <3>2, <3>3, <3>4, ServeForms
  <2>2. ASSUME NEW h \in Handles, Drop(h)
        PROVE  HandlersType' /\ HandlersCome
    BY <1>0, <2>2, QueueLosesOne DEF Drop
  <2>3. ASSUME NEW m \in net, Arrive(m) \/ ArriveAgain(m) \/ Lose(m)
        PROVE  HandlersType' /\ HandlersCome
    <3>1. m \in Messages /\ m.handle \in Handles
      BY DEF TypeInv, NetTypeOK, Messages
    <3>2. \/ handlers' = handlers
          \/ handlers' = [handlers EXCEPT ![m.handle] =
                            Append(@, [message |-> m, stage |-> "queued"])]
      BY <2>3 DEF Arrive, ArriveAgain, Lose
    <3>3. QED
      BY <1>0, <3>1, <3>2, QueueGrows, QueuesStay
  <2>4. CASE Crash
    <3>1. \A h \in Handles : handlers'[h] = <<>> /\ DOMAIN handlers'[h] = {}
      BY <2>4 DEF Crash
    <3>2. HandlersType'
      BY <2>4, EmptySeq DEF Crash, HandlersType
    <3>3. QED
      BY <3>1, <3>2 DEF HandlersCome
  <2>5. CASE handlers' = handlers
    BY <1>0, <2>5, QueuesStay
  <2>6. ASSUME NEW c \in Clients, Opens(c) \/ OpensInVain \/ Closes(c) \/ Moves(c)
        PROVE  handlers' = handlers
    BY <2>6 DEF Opens, OpensInVain, Closes, Moves, SameServer
  <2>7. QED
    BY <2>1, <2>2, <2>3, <2>4, <2>5, <2>6, NextForms DEF Land, Revoke, Expire, vars, sessionVars
<1>2. HandlersInPlace'
  <2> SUFFICES ASSUME NEW h \in Handles, NEW k \in DOMAIN handlers'[h]
               PROVE  /\ handlers'[h][k].message.handle = h
                      /\ k > 1 => handlers'[h][k].stage = "queued"
    BY DEF HandlersInPlace
  <2>1. CASE /\ handlers'[h][k].stage = "queued"
             /\ handlers'[h][k].message.handle = h
    BY <2>1
  <2>2. ASSUME NEW i \in DOMAIN handlers[h], i >= k,
               handlers'[h][k].message = handlers[h][i].message,
               k > 1 => handlers'[h][k].stage = handlers[h][i].stage
        PROVE  /\ handlers'[h][k].message.handle = h
               /\ k > 1 => handlers'[h][k].stage = "queued"
    <3>1. k \in Nat /\ i \in Nat
      BY <1>0, <1>1, LenProperties DEF HandlersType
    <3>2. QED
      BY <2>2, <3>1 DEF TypeInv, HandlersInPlace
  <2>3. QED
    BY <1>1, <2>1, <2>2 DEF HandlersCome
<1>3. QED
  BY <1>1, <1>2

\* Every step keeps the types of what the server has.
LEMMA StepServerType ==
  ASSUME TypeInv, [Next]_vars
  PROVE  ServerTypeOK'
<1>0. ServerTypeOK
  BY DEF TypeInv
<1>1. handlers' \in [Handles -> Seq(Handler)]
  BY StepHandlers DEF HandlersType
<1>2. ASSUME sessions' \in [Handles -> Session], stored' \subseteq stored,
             detached' \subseteq Requests,
             devices' \in [Identities -> {"absent", "active", "revoked"}],
             envelope' \in Identities \cup {None}
      PROVE  ServerTypeOK'
  <2>1. IsFiniteSet(stored') /\ Cardinality(stored') <= Cardinality(stored)
    BY <1>0, <1>2, FS_Subset DEF ServerTypeOK
  <2>2. Cardinality(stored) \in Nat /\ Cardinality(stored') \in Nat /\ MAX_SESSIONS \in Nat
    BY <1>0, <2>1, FS_CardinalityType, SessionAssumption DEF ServerTypeOK
  <2>3. Cardinality(stored') <= MAX_SESSIONS
    BY <1>0, <2>1, <2>2 DEF ServerTypeOK
  <2>4. QED
    BY <1>0, <1>1, <1>2, <2>1, <2>3 DEF ServerTypeOK
<1>3. ASSUME NEW identity \in Identities \cup {None}
      PROVE  /\ Registered(identity) \in [Identities -> {"absent", "active", "revoked"}]
             /\ Enveloped(identity) \in Identities \cup {None}
  BY <1>0 DEF Registered, Enveloped, ServerTypeOK
<1>4. Held(sessions) \in [Handles -> Session]
  BY <1>0, HeldType DEF ServerTypeOK
<1>5. ASSUME NEW h \in Handles, Serve(h)
      PROVE  ServerTypeOK'
  <2>1. /\ detached' = detached
        /\ handlers[h] # <<>>
        /\ Message(h).request.identity \in Identities \cup {None}
    BY <1>5, ServeForms, HandlerFields
  <2>2. CASE Refused(h)
    BY <1>0, <1>2, <1>4, <2>1, <2>2 DEF Refused, ServerTypeOK
  <2>3. CASE Waits(h)
    <3>1. sessions[h] \in Session
      BY <1>0 DEF ServerTypeOK
    <3>2. Counted(sessions[h]) \in Session
      <4>1. sessions[h].next_client_sequence + 1 \in Nat /\ sessions[h].message_count + 1 \in Nat
        BY <3>1 DEF Session
      <4>2. Counted(sessions[h]) =
              [sessions[h] EXCEPT
                 !.next_client_sequence = sessions[h].next_client_sequence + 1,
                 !.message_count = sessions[h].message_count + 1]
        BY <3>1 DEF Counted, Session
      <4>3. QED
        BY <3>1, <4>1, <4>2 DEF Session
    <3>3. sessions' \in [Handles -> Session]
      BY <1>0, <2>3, <3>2 DEF Waits, ServerTypeOK
    <3>4. QED
      BY <1>0, <1>2, <2>1, <2>3, <3>3 DEF Waits, ServerTypeOK
  <2>4. ASSUME NEW session \in Session, NEW response \in Responses, NEW close \in BOOLEAN,
               Replies(h, session, response, close)
        PROVE  ServerTypeOK'
    <3>1. sessions' \in [Handles -> Session] /\ stored' \subseteq stored
      BY <2>1, <2>4, AnswerEffect DEF Replies
    <3>2. /\ devices' \in [Identities -> {"absent", "active", "revoked"}]
          /\ envelope' \in Identities \cup {None}
      BY <1>0, <1>3, <2>1, <2>4 DEF Replies, ServerTypeOK
    <3>3. QED
      BY <1>0, <1>2, <2>1, <3>1, <3>2 DEF ServerTypeOK
  <2>5. QED
    BY <1>5, <2>2, <2>3, <2>4, ServeForms
<1>6. ASSUME NEW h \in Handles, Drop(h)
      PROVE  ServerTypeOK'
  <2>1. PICK k \in DOMAIN handlers[h] :
          /\ stored' = Dropped(h)
          /\ \E begun \in SUBSET Writes(handlers[h][k]) : detached' = detached \cup begun
          /\ sessions' = Held(sessions)
          /\ UNCHANGED <<devices, envelope>>
    BY <1>6 DEF Drop
  <2>2. handlers[h][k] \in Handler
    BY <1>0, LenProperties, ElementOfSeq DEF ServerTypeOK
  <2>3. detached' \subseteq Requests
    BY <1>0, <2>1, <2>2 DEF Writes, Handler, Messages, ServerTypeOK
  <2>4. QED
    BY <1>0, <1>2, <1>4, <2>1, <2>3 DEF Dropped, ServerTypeOK
<1>7. ASSUME NEW request \in detached, Land(request)
      PROVE  ServerTypeOK'
  <2>1. request.identity \in Identities \cup {None}
    BY <1>0 DEF ServerTypeOK, Requests
  <2>2. QED
    BY <1>0, <1>2, <1>3, <1>7, <2>1 DEF Land, ServerTypeOK
<1>8. ASSUME NEW d \in Identities, Revoke(d)
      PROVE  ServerTypeOK'
  BY <1>0, <1>2, <1>8 DEF Revoke, ServerTypeOK
<1>9. CASE Crash
  BY <1>0, <1>2, <1>4, <1>9 DEF Crash, ServerTypeOK
<1>10. ASSUME NEW h \in Handles, Expire(h)
       PROVE  ServerTypeOK'
  BY <1>0, <1>2, <1>4, <1>10 DEF Expire, ServerTypeOK
<1>11. ASSUME NEW h \in Handles, Handshake(h), UNCHANGED <<detached, devices, envelope>>
       PROVE  ServerTypeOK'
  <2>1. Fresh \in Session
    BY DEF Fresh, Session
  <2>2. sessions' \in [Handles -> Session]
    BY <1>0, <1>11, <2>1 DEF Handshake, ServerTypeOK
  <2>3. IsFiniteSet(stored') /\ Cardinality(stored') <= Cardinality(stored) + 1
    <3>1. IsFiniteSet(stored) /\ stored' = stored \cup {h}
      BY <1>0, <1>11 DEF Handshake, ServerTypeOK
    <3>2. /\ IsFiniteSet(stored \cup {h})
          /\ Cardinality(stored \cup {h}) =
               IF h \in stored THEN Cardinality(stored) ELSE Cardinality(stored) + 1
      BY <3>1, FS_AddElement
    <3>3. Cardinality(stored) \in Nat
      BY <3>1, FS_CardinalityType
    <3>4. QED
      BY <3>1, <3>2, <3>3
  <2>4. Cardinality(stored) \in Nat /\ Cardinality(stored') \in Nat /\ MAX_SESSIONS \in Nat
    BY <1>0, <2>3, FS_CardinalityType, SessionAssumption DEF ServerTypeOK
  <2>5. Cardinality(stored') <= MAX_SESSIONS
    BY <1>11, <2>3, <2>4 DEF Handshake
  <2>6. QED
    BY <1>0, <1>1, <1>11, <2>2, <2>3, <2>5 DEF Handshake, ServerTypeOK
<1>12. CASE UNCHANGED <<sessions, stored, detached, devices, envelope>>
  BY <1>0, <1>2, <1>12 DEF ServerTypeOK
<1>13. ASSUME NEW m \in net, Arrive(m) \/ ArriveAgain(m) \/ Lose(m)
       PROVE  UNCHANGED <<sessions, stored, detached, devices, envelope>>
  BY <1>13 DEF Arrive, ArriveAgain, Lose
<1>14. ASSUME NEW c \in Clients, Opens(c) \/ OpensInVain \/ Closes(c) \/ Moves(c)
       PROVE  ServerTypeOK'
  <2>1. CASE Opens(c) \/ OpensInVain
    BY <1>11, <2>1 DEF Opens, OpensInVain
  <2>2. CASE Closes(c) \/ Moves(c)
    BY <1>12, <2>2 DEF Closes, Moves, SameServer
  <2>3. QED
    BY <1>14, <2>1, <2>2
<1>15. QED
  BY <1>5, <1>6, <1>7, <1>8, <1>9, <1>10, <1>12, <1>13, <1>14, NextForms DEF vars, sessionVars

\* Every step keeps the types of the network, and answers go to open channels only.
LEMMA StepNetType ==
  ASSUME TypeInv, [Next]_vars
  PROVE  NetTypeOK' /\ AnswersToOpen'
<1>0. NetTypeOK /\ AnswersToOpen
  BY DEF TypeInv
<1>1. ASSUME net' \subseteq Messages, open' = open, answers' \subseteq answers
      PROVE  NetTypeOK' /\ AnswersToOpen'
  BY <1>0, <1>1 DEF NetTypeOK, AnswersToOpen
<1>2. ASSUME NEW h \in Handles, Serve(h)
      PROVE  NetTypeOK' /\ AnswersToOpen'
  <2>1. net' = net /\ open' = open /\ handlers[h] # <<>>
    BY <1>2, ServeForms
  <2>2. CASE Refused(h) \/ Waits(h)
    BY <1>0, <1>1, <2>1, <2>2 DEF Refused, Waits, NetTypeOK
  <2>3. ASSUME NEW session \in Session, NEW response \in Responses, NEW close \in BOOLEAN,
               Replies(h, session, response, close)
        PROVE  NetTypeOK' /\ AnswersToOpen'
    <3>1. /\ answers' \subseteq AnswerRecord
          /\ \A a \in answers' : a \in answers \/ (a.handle = h /\ h \in open)
      BY <2>1, <2>3, AnswerEffect DEF Replies
    <3>2. QED
      BY <1>0, <2>1, <3>1 DEF NetTypeOK, AnswersToOpen
  <2>4. QED
    BY <1>2, <2>2, <2>3, ServeForms
<1>3. CASE UNCHANGED <<net, open, answers>>
  BY <1>0, <1>1, <1>3 DEF NetTypeOK
<1>4. ASSUME NEW m \in net, Arrive(m) \/ ArriveAgain(m) \/ Lose(m)
      PROVE  NetTypeOK' /\ AnswersToOpen'
  BY <1>0, <1>1, <1>4 DEF Arrive, ArriveAgain, Lose, NetTypeOK
<1>5. CASE Crash
  BY <1>0, <1>1, <1>5 DEF Crash, NetTypeOK
<1>6. ASSUME NEW c \in Clients, Opens(c)
      PROVE  NetTypeOK' /\ AnswersToOpen'
  BY <1>0, <1>6 DEF Opens, NetTypeOK, AnswersToOpen
<1>7. ASSUME NEW c \in Clients, Closes(c)
      PROVE  NetTypeOK' /\ AnswersToOpen'
  BY <1>0, <1>7 DEF Closes, Close, NetTypeOK, AnswersToOpen
<1>8. ASSUME NEW c \in Clients, Moves(c)
      PROVE  NetTypeOK' /\ AnswersToOpen'
  BY <1>0, <1>1, <1>8 DEF Moves, NetTypeOK
<1>9. QED
  BY <1>2, <1>3, <1>4, <1>5, <1>6, <1>7, <1>8, NextForms
     DEF Drop, Land, Revoke, Expire, OpensInVain, vars, sessionVars

\* One client changes, on a channel of its own.
LEMMA ChannelChanges ==
  ASSUME TypeInv, NEW c \in Clients, NEW new \in Client,
         clients' = [clients EXCEPT ![c] = new],
         \A d \in Clients \ {c} : clients[d].channel.handle \in open =>
                                    clients[d].channel.handle \in open',
         new.channel.handle = None => new.channel = NoChannel /\ new.phase = "idle",
         new.channel.handle # None => new.channel.handle \in open',
         \A d \in Clients \ {c} : clients[d].channel.handle = new.channel.handle =>
                                    new.channel.handle = None
  PROVE  ClientsTypeOK' /\ ChannelsAreOpen'
<1>1. clients \in [Clients -> Client]
  BY DEF TypeInv, ClientsTypeOK
<1>2. clients'[c] = new /\ \A d \in Clients \ {c} : clients'[d] = clients[d]
  BY <1>1
<1>3. ClientsTypeOK'
  BY <1>1 DEF ClientsTypeOK
<1>4. ASSUME NEW d \in Clients
      PROVE  /\ clients'[d].channel.handle = None =>
                  clients'[d].channel = NoChannel /\ clients'[d].phase = "idle"
             /\ clients'[d].channel.handle # None => clients'[d].channel.handle \in open'
  BY <1>2 DEF TypeInv, ChannelsAreOpen
<1>5. ASSUME NEW d \in Clients, NEW o \in Clients,
             clients'[d].channel.handle = clients'[o].channel.handle
      PROVE  d = o \/ clients'[d].channel.handle = None
  BY <1>2, <1>5 DEF TypeInv, ChannelsAreOpen
<1>6. QED
  BY <1>3, <1>4, <1>5 DEF ChannelsAreOpen

\* A client that closes its channel has none.
LEMMA ClosedClient ==
  ASSUME TypeInv, NEW c \in Clients
  PROVE  /\ Closed(clients[c]) \in Client
         /\ Closed(clients[c]).channel = NoChannel
         /\ Closed(clients[c]).phase = "idle"
         /\ Closed(clients[c]).configured = clients[c].configured
         /\ clients[c].configured =>
              /\ Closed(clients[c]).device = clients[c].device
              /\ Closed(clients[c]).key = clients[c].key
<1>1. clients[c] \in Client /\ NoChannel \in Channel
  BY ClientFields
<1>2. CASE clients[c].configured
  BY <1>1, <1>2 DEF Closed, Client, Phases
<1>3. CASE ~clients[c].configured
  BY <1>1, <1>3 DEF Closed, NewClient, Client, Phases
<1>4. QED
  BY <1>2, <1>3

\* Every step keeps the types of the clients, and one channel for each.
LEMMA StepClients ==
  ASSUME TypeInv, [Next]_vars
  PROVE  ClientsTypeOK' /\ ChannelsAreOpen'
<1>0. /\ clients \in [Clients -> Client]
      /\ NoChannel.handle = None
      /\ None \notin Handles
      /\ \A c \in Clients : clients[c].channel.handle # None => clients[c].channel.handle \in open
      /\ \A c, d \in Clients :
           clients[c].channel.handle = clients[d].channel.handle =>
             c = d \/ clients[c].channel.handle = None
  BY SessionAssumption DEF TypeInv, ClientsTypeOK, ChannelsAreOpen, NoChannel, None
<1>1. CASE UNCHANGED <<open, clients>>
  BY <1>1 DEF TypeInv, ClientsTypeOK, ChannelsAreOpen
<1>2. ASSUME NEW c \in Clients, Opens(c)
      PROVE  ClientsTypeOK' /\ ChannelsAreOpen'
  <2>1. PICK h \in Handles, new \in Client :
          /\ IsUnknown(h)
          /\ open' = open \cup {h}
          /\ clients' = [clients EXCEPT ![c] = new]
          /\ new.channel.handle = h
    BY <1>2 DEF Opens
  <2>2. h \notin open /\ h # None
    BY <1>0, <2>1 DEF IsUnknown
  <2>3. \A d \in Clients \ {c} : clients[d].channel.handle # new.channel.handle
    BY <1>0, <2>1, <2>2
  <2>4. new.channel.handle # None /\ new.channel.handle \in open'
    BY <2>1, <2>2
  <2>5. \A d \in Clients \ {c} : clients[d].channel.handle \in open =>
                                 clients[d].channel.handle \in open'
    BY <2>1
  <2>6. clients' = [clients EXCEPT ![c] = new]
    BY <2>1
  <2>7. QED
    BY <2>3, <2>4, <2>5, <2>6, ChannelChanges
<1>3. ASSUME NEW c \in Clients, Closes(c)
      PROVE  ClientsTypeOK' /\ ChannelsAreOpen'
  <2> DEFINE new == Closed(clients[c])
  <2>1. /\ clients' = [clients EXCEPT ![c] = new]
        /\ open' = open \ {clients[c].channel.handle}
    BY <1>3 DEF Closes, Close
  <2>2. new \in Client /\ new.channel = NoChannel /\ new.phase = "idle"
    BY ClosedClient
  <2> HIDE DEF new
  <2>3. new.channel.handle = None
    BY <1>0, <2>2
  <2>4. ASSUME NEW d \in Clients \ {c}, clients[d].channel.handle \in open
        PROVE  clients[d].channel.handle \in open'
    <3>1. clients[d].channel.handle \in Handles
      BY <2>4 DEF TypeInv, NetTypeOK
    <3>2. clients[d].channel.handle # clients[c].channel.handle
      BY <1>0, <3>1
    <3>3. QED
      BY <2>1, <2>4, <3>2
  <2>5. QED
    BY <2>1, <2>2, <2>3, <2>4, ChannelChanges
<1>4. ASSUME NEW c \in Clients, Moves(c)
      PROVE  ClientsTypeOK' /\ ChannelsAreOpen'
  <2>1. PICK new \in Client :
          /\ clients[c].channel.handle \in Handles
          /\ clients' = [clients EXCEPT ![c] = new]
          /\ new.channel.handle = clients[c].channel.handle
          /\ open' = open
    BY <1>4 DEF Moves
  <2>2. new.channel.handle # None /\ new.channel.handle \in open'
    BY <1>0, <2>1
  <2>3. \A d \in Clients \ {c} : clients[d].channel.handle # new.channel.handle
    BY <1>0, <2>1
  <2>4. \A d \in Clients \ {c} : clients[d].channel.handle \in open =>
                                   clients[d].channel.handle \in open'
    BY <2>1
  <2>5. clients' = [clients EXCEPT ![c] = new]
    BY <2>1
  <2>6. QED
    BY <2>2, <2>3, <2>4, <2>5, ChannelChanges
<1>5. QED
  BY <1>1, <1>2, <1>3, <1>4, NextForms, ServeForms
     DEF Drop, Arrive, ArriveAgain, Lose, Land, Revoke, Crash, Expire, OpensInVain, vars,
         sessionVars

\* Every step keeps types and addresses.
LEMMA StepTypeInv ==
  ASSUME TypeInv, [Next]_vars
  PROVE  TypeInv'
BY StepHandlers, StepServerType, StepNetType, StepClients DEF TypeInv

----------------------------------------------------------------------------
\* The counters of client and server.

\* The turn that a handler has, as Begun sees it.
LEMMA TurnIsBegun ==
  ASSUME TypeInv, NEW h \in Handles, handlers[h] # <<>>
  PROVE  /\ Turn(h, "begun") <=> Begun(h)
         /\ Turn(h, "queued") => ~Begun(h)
BY HandlerFields DEF Turn, Begun

\* Behind the handler whose turn it is nobody has begun.
LEMMA NextIsQueued ==
  ASSUME TypeInv, NEW h \in Handles, handlers[h] # <<>>,
         handlers' = [handlers EXCEPT ![h] = Tail(@)]
  PROVE  ~Begun(h)'
<1>1. handlers[h] \in Seq(Handler) /\ handlers'[h] = Tail(handlers[h])
  BY DEF TypeInv, ServerTypeOK
<1>2. /\ Tail(handlers[h]) \in Seq(Handler)
      /\ \A k \in DOMAIN Tail(handlers[h]) :
           k + 1 \in DOMAIN handlers[h] /\ Tail(handlers[h])[k] = handlers[h][k + 1]
  BY <1>1, TailElements
<1>3. ASSUME Tail(handlers[h]) # <<>>
      PROVE  Tail(handlers[h])[1].stage = "queued"
  <2>1. 1 \in DOMAIN Tail(handlers[h])
    BY <1>2, <1>3, EmptySeq, LenProperties
  <2>2. 2 \in DOMAIN handlers[h] /\ Tail(handlers[h])[1] = handlers[h][2]
    BY <1>2, <2>1
  <2>3. QED
    BY <2>2 DEF TypeInv, HandlersInPlace
<1>4. QED
  BY <1>1, <1>3 DEF Begun

\* Nothing happens to the session of h, nor to the handler whose turn it is.
LEMMA CountStays ==
  ASSUME CountsAgree, NEW h \in stored, sessions'[h] = sessions[h],
         handlers'[h] = handlers[h] \/ (~Begun(h) /\ ~Begun(h)')
                                    \/ (/\ Begun(h) /\ Begun(h)'
                                        /\ handlers'[h][1] = handlers[h][1])
  PROVE  CountOf(h)'
BY DEF CountsAgree, CountOf, Begun

\* A message more at the end of a queue is nobody's turn.
LEMMA ArrivalIsQueued ==
  ASSUME TypeInv, NEW h \in Handles, NEW m \in Messages,
         handlers' = [handlers EXCEPT ![h] = Append(@, [message |-> m, stage |-> "queued"])]
  PROVE  \/ ~Begun(h) /\ ~Begun(h)'
         \/ Begun(h) /\ Begun(h)' /\ handlers'[h][1] = handlers[h][1]
<1> DEFINE new == [message |-> m, stage |-> "queued"]
           queue == Append(handlers[h], new)
<1>1. handlers[h] \in Seq(Handler) /\ new \in Handler /\ handlers'[h] = queue
  BY DEF TypeInv, ServerTypeOK, Handler
<1>2. /\ queue # <<>>
      /\ \A k \in 1..Len(handlers[h]) : queue[k] = handlers[h][k]
      /\ queue[Len(handlers[h]) + 1] = new
  BY <1>1, AppendProperties
<1> HIDE DEF queue
<1>3. CASE handlers[h] = <<>>
  <2>1. queue[1] = new
    BY <1>2, <1>3, EmptySeq
  <2>2. QED
    BY <1>1, <1>3, <2>1 DEF Begun
<1>4. CASE handlers[h] # <<>>
  <2>1. Len(handlers[h]) \in Nat \ {0}
    BY <1>1, <1>4, EmptySeq
  <2>2. queue[1] = handlers[h][1]
    BY <1>2, <2>1
  <2>3. QED
    BY <1>1, <1>2, <1>4, <2>2 DEF Begun
<1>5. QED
  BY <1>3, <1>4

\* Every step keeps the sequence numbers of both sides in step.
LEMMA StepCounts ==
  ASSUME TypeInv, CountInv, [Next]_vars
  PROVE  CountInv'
<1>0. /\ sessions \in [Handles -> Session]
      /\ handlers \in [Handles -> Seq(Handler)]
      /\ stored \subseteq Handles
      /\ CountsAgree
      /\ \A a \in answers : a.handle \in open /\ (a.handle \in stored => a.sequence = a.to)
  BY DEF TypeInv, ServerTypeOK, AnswersToOpen, CountInv, AnswersInOrder
<1>1. ASSUME stored' \subseteq stored, answers' \subseteq answers,
             \A h \in stored' : sessions'[h] = sessions[h] /\ handlers'[h] = handlers[h]
      PROVE  CountInv'
  <2>1. \A h \in stored' : CountOf(h)'
    BY <1>0, <1>1, CountStays
  <2>2. QED
    BY <1>0, <1>1, <2>1 DEF CountInv, CountsAgree, AnswersInOrder
<1>2. ASSUME NEW h \in Handles, Serve(h)
      PROVE  CountInv'
  <2>0. handlers[h] # <<>>
    BY <1>2, ServeForms
  <2>1. CASE Refused(h)
    BY <1>0, <1>1, <2>1 DEF Refused, Held
  <2>2. CASE Waits(h)
    <3>1. /\ stored' = stored /\ answers' = answers
          /\ \A o \in Handles \ {h} : sessions'[o] = sessions[o] /\ handlers'[o] = handlers[o]
          /\ sessions'[h] = Counted(sessions[h])
      BY <1>0, <2>2 DEF Waits
    <3>2. ASSUME h \in stored
          PROVE  CountOf(h)'
      <4>1. ~Begun(h) /\ CountOf(h)
        BY <1>0, <2>0, <2>2, <3>2, TurnIsBegun DEF Waits, CountsAgree
      <4>2. Begun(h)' /\ handlers'[h][1].message = handlers[h][1].message
        BY <1>0, <2>0, <2>2, QueueBegins DEF Waits, HandlersType, Begun
      <4>3. handlers[h][1].message.sequence = sessions[h].next_client_sequence
        BY <2>0, <2>2, HandlerFields DEF Waits, InSequence
      <4>4. sessions[h] \in Session
        BY <1>0
      <4>5. /\ sessions'[h].next_client_sequence = sessions[h].next_client_sequence + 1
            /\ sessions'[h].next_server_sequence = sessions[h].next_server_sequence
        BY <3>1, <4>4 DEF Counted, Session
      <4>6. QED
        BY <4>1, <4>2, <4>3, <4>5 DEF CountOf
    <3>3. \A o \in stored' : CountOf(o)'
      BY <1>0, <3>1, <3>2, CountStays
    <3>4. QED
      BY <1>0, <3>1, <3>3 DEF CountInv, CountsAgree, AnswersInOrder
  <2>3. ASSUME NEW session \in Session, NEW response \in Responses, NEW close \in BOOLEAN,
               Replies(h, session, response, close)
        PROVE  CountInv'
    <3>1. /\ stored' \subseteq stored
          /\ handlers' = [handlers EXCEPT ![h] = Tail(@)]
          /\ \A o \in Handles \ {h} : o \in stored => sessions'[o] = sessions[o]
          /\ h \in stored' =>
               /\ sessions'[h].next_client_sequence = session.next_client_sequence
               /\ sessions'[h].next_server_sequence = session.next_server_sequence + 1
          /\ \A a \in answers' :
               \/ a \in answers
               \/ /\ a.handle = h
                  /\ a.sequence = session.next_server_sequence
                  /\ a.to = Message(h).sequence
      BY <2>0, <2>3, AnswerEffect DEF Replies
    <3>2. ~Begun(h)'
      BY <2>0, <3>1, NextIsQueued
    <3>3. ASSUME h \in stored
          PROVE  /\ session.next_client_sequence = session.next_server_sequence + 1
                 /\ Message(h).sequence = session.next_server_sequence
      <4>1. CountOf(h)
        BY <1>0, <3>3 DEF CountsAgree
      <4>2. Message(h) = handlers[h][1].message
        BY <2>0, HandlerFields
      <4>3. CASE /\ Turn(h, "queued")
                 /\ InSequence(h)
                 /\ session.next_client_sequence = sessions[h].next_client_sequence + 1
                 /\ session.next_server_sequence = sessions[h].next_server_sequence
        BY <2>0, <4>1, <4>3, TurnIsBegun DEF CountOf, InSequence
      <4>4. CASE /\ Turn(h, "begun")
                 /\ session.next_client_sequence = sessions[h].next_client_sequence
                 /\ session.next_server_sequence = sessions[h].next_server_sequence
        BY <2>0, <4>1, <4>2, <4>4, TurnIsBegun DEF CountOf
      <4>5. QED
        BY <2>3, <4>3, <4>4 DEF Replies
    <3>4. h \in stored' => CountOf(h)'
      BY <3>1, <3>2, <3>3 DEF CountOf
    <3>5. \A o \in stored' \ {h} : CountOf(o)'
      <4> TAKE o \in stored' \ {h}
      <4>1. o \in stored /\ sessions'[o] = sessions[o] /\ handlers'[o] = handlers[o]
        BY <1>0, <3>1
      <4>2. QED
        BY <1>0, <4>1, CountStays
    <3>6. \A a \in answers' : a.handle \in stored' => a.sequence = a.to
      BY <1>0, <3>1, <3>3
    <3>7. QED
      BY <3>4, <3>5, <3>6 DEF CountInv, CountsAgree, AnswersInOrder
  <2>4. QED
    BY <1>2, <2>1, <2>2, <2>3, ServeForms
<1>3. ASSUME NEW h \in Handles, Drop(h)
      PROVE  CountInv'
  <2>1. PICK k \in DOMAIN handlers[h] :
          /\ stored' = stored \ {h}
          /\ handlers' = [handlers EXCEPT ![h] = RemoveAt(@, k)]
          /\ sessions' = Held(sessions)
          /\ answers' = answers
    BY <1>3 DEF Drop, Dropped
  <2>2. \A o \in stored' : sessions'[o] = sessions[o] /\ handlers'[o] = handlers[o]
    BY <1>0, <2>1 DEF Held
  <2>3. QED
    BY <1>1, <2>1, <2>2
<1>4. ASSUME NEW m \in net, Arrive(m) \/ ArriveAgain(m) \/ Lose(m)
      PROVE  CountInv'
  <2>1. m \in Messages /\ m.handle \in Handles
    BY DEF TypeInv, NetTypeOK, Messages
  <2>2. /\ stored' = stored /\ answers' = answers /\ sessions' = sessions
        /\ \/ handlers' = handlers
           \/ handlers' = [handlers EXCEPT ![m.handle] =
                             Append(@, [message |-> m, stage |-> "queued"])]
    BY <1>4 DEF Arrive, ArriveAgain, Lose
  <2>3. CASE handlers' = handlers
    BY <1>0, <1>1, <2>2, <2>3
  <2>4. CASE handlers' = [handlers EXCEPT ![m.handle] =
                            Append(@, [message |-> m, stage |-> "queued"])]
    <3>1. ASSUME NEW o \in stored
          PROVE  CountOf(o)'
      <4>1. CASE o = m.handle
        BY <1>0, <2>1, <2>2, <2>4, <4>1, ArrivalIsQueued, CountStays
      <4>2. CASE o # m.handle
        BY <1>0, <2>2, <2>4, <4>2, CountStays
      <4>3. QED
        BY <4>1, <4>2
    <3>2. QED
      BY <1>0, <2>2, <3>1 DEF CountInv, CountsAgree, AnswersInOrder
  <2>5. QED
    BY <2>2, <2>3, <2>4
<1>5. CASE Crash
  BY <1>0, <1>1, <1>5 DEF Crash
<1>6. ASSUME NEW h \in Handles, Expire(h)
      PROVE  CountInv'
  BY <1>0, <1>1, <1>6 DEF Expire, Held
<1>7. ASSUME NEW h \in Handles, IsUnknown(h), Handshake(h), UNCHANGED <<handlers, answers>>
      PROVE  CountInv'
  <2>1. h \notin stored /\ h \notin open /\ handlers[h] = <<>>
    BY <1>7 DEF IsUnknown
  <2>2. /\ stored' = stored \cup {h}
        /\ sessions'[h] = Fresh
        /\ \A o \in stored : sessions'[o] = sessions[o] /\ handlers'[o] = handlers[o]
    BY <1>0, <1>7, <2>1 DEF Handshake
  <2>3. CountOf(h)'
    BY <1>7, <2>1, <2>2 DEF CountOf, Begun, Fresh
  <2>4. \A o \in stored' : CountOf(o)'
    BY <1>0, <2>2, <2>3, CountStays
  <2>5. \A a \in answers' : a.handle \in stored' => a.sequence = a.to
    BY <1>0, <1>7, <2>1, <2>2
  <2>6. QED
    BY <2>4, <2>5 DEF CountInv, CountsAgree, AnswersInOrder
<1>8. CASE UNCHANGED <<stored, sessions, handlers, answers>>
  BY <1>0, <1>1, <1>8
<1>9. ASSUME NEW c \in Clients, Opens(c) \/ OpensInVain \/ Closes(c) \/ Moves(c)
      PROVE  CountInv'
  <2>1. CASE Opens(c) \/ OpensInVain
    BY <1>7, <2>1 DEF Opens, OpensInVain
  <2>2. CASE Closes(c)
    BY <1>0, <1>1, <2>2 DEF Closes, Close, SameServer
  <2>3. CASE Moves(c)
    BY <1>0, <1>1, <2>3 DEF Moves, SameServer
  <2>4. QED
    BY <1>9, <2>1, <2>2, <2>3
<1>10. QED
  BY <1>2, <1>3, <1>4, <1>5, <1>6, <1>8, <1>9, NextForms DEF Land, Revoke, vars, sessionVars

----------------------------------------------------------------------------
\* The vault: what the server holds only grows.

Grows ==
  /\ \A i \in Identities : devices[i] # "absent" => devices'[i] # "absent"
  /\ envelope # None => envelope' = envelope

\* A device that is known stays known, and the first envelope stays.
LEMMA StepGrows ==
  ASSUME TypeInv, [Next]_vars
  PROVE  Grows
<1>0. devices \in [Identities -> {"absent", "active", "revoked"}]
  BY DEF TypeInv, ServerTypeOK
<1>1. ASSUME devices' = devices \/ \E i : devices' = Registered(i),
             envelope' = envelope \/ \E key : envelope' = Enveloped(key)
      PROVE  Grows
  BY <1>0, <1>1 DEF Grows, Registered, Enveloped
<1>2. ASSUME NEW h \in Handles, Serve(h)
      PROVE  Grows
  <2>1. CASE Refused(h) \/ Waits(h)
    BY <1>1, <2>1 DEF Refused, Waits
  <2>2. ASSUME NEW session \in Session, NEW response \in Responses, NEW close \in BOOLEAN,
               Replies(h, session, response, close)
        PROVE  Grows
    BY <1>1, <2>2 DEF Replies
  <2>3. QED
    BY <1>2, <2>1, <2>2, ServeForms
<1>3. ASSUME NEW request \in detached, Land(request)
      PROVE  Grows
  BY <1>1, <1>3 DEF Land
<1>4. ASSUME NEW d \in Identities, Revoke(d)
      PROVE  Grows
  BY <1>0, <1>4 DEF Revoke, Grows
<1>5. CASE UNCHANGED <<devices, envelope>>
  BY <1>1, <1>5
<1>6. ASSUME NEW c \in Clients, Opens(c) \/ OpensInVain \/ Closes(c) \/ Moves(c)
      PROVE  Grows
  BY <1>5, <1>6 DEF Opens, OpensInVain, Closes, Moves, SameServer
<1>7. ASSUME NEW m, Arrive(m) \/ ArriveAgain(m) \/ Lose(m)
      PROVE  Grows
  BY <1>5, <1>7 DEF Arrive, ArriveAgain, Lose
<1>8. ASSUME NEW h, Drop(h) \/ Expire(h)
      PROVE  Grows
  BY <1>5, <1>8 DEF Drop, Expire
<1>9. CASE Crash \/ UNCHANGED vars
  BY <1>5, <1>9 DEF Crash, vars, sessionVars
<1>10. QED
  BY <1>2, <1>3, <1>4, <1>6, <1>7, <1>8, <1>9, NextForms

\* The forms of a step for its clients: they stay as they are while the server and the
\* network have nothing new for them, or one of them goes on.
ClientsStay ==
  /\ UNCHANGED clients
  /\ net' \subseteq net
  /\ \/ answers' \subseteq answers
     \/ \E h \in Handles : /\ handlers[h] # <<>>
                           /\ \E session \in Session, response \in Responses,
                                close \in BOOLEAN : Replies(h, session, response, close)

\* What every step does to the clients: it leaves them, or one opens, closes or goes on.
LEMMA StepForms ==
  ASSUME TypeInv, [Next]_vars
  PROVE  \/ ClientsStay
         \/ \E c \in Clients : Opens(c) \/ Closes(c) \/ Moves(c)
<1>1. ASSUME NEW h \in Handles, Serve(h), UNCHANGED clients
      PROVE  ClientsStay
  BY <1>1, ServeForms DEF ClientsStay, Refused, Waits
<1>2. ASSUME UNCHANGED clients, net' \subseteq net, answers' \subseteq answers
      PROVE  ClientsStay
  BY <1>2 DEF ClientsStay
<1>3. QED
  BY <1>1, <1>2, NextForms
     DEF Drop, Arrive, ArriveAgain, Lose, Land, Revoke, Crash, Expire, OpensInVain, vars,
         sessionVars

\* What is in flight was so before, or has just been sent.
LEMMA FlightComes ==
  ASSUME TypeInv, [Next]_vars, NEW m \in Messages, InFlight(m)'
  PROVE  InFlight(m) \/ m \in net'
<1>1. HandlersCome
  BY StepHandlers
<1>2. ASSUME NEW h \in Handles, NEW k \in DOMAIN handlers'[h], handlers'[h][k].message = m
      PROVE  InFlight(m)
  BY <1>1, <1>2 DEF HandlersCome, InFlight
<1>3. QED
  BY <1>2 DEF InFlight

\* Nothing in flight is of a handle that is unknown.
LEMMA UnknownIsSilent ==
  ASSUME TypeInv, NEW h \in Handles, IsUnknown(h), NEW m \in Messages, InFlight(m)
  PROVE  m.handle # h
<1>1. CASE m \in net
  BY <1>1 DEF IsUnknown
<1>2. ASSUME NEW o \in Handles, NEW k \in DOMAIN handlers[o], handlers[o][k].message = m
      PROVE  m.handle # h
  <2>1. m.handle = o
    BY <1>2 DEF TypeInv, HandlersInPlace
  <2>2. handlers[o] # <<>>
    BY <1>2
  <2>3. QED
    BY <2>1, <2>2 DEF IsUnknown
<1>3. QED
  BY <1>1, <1>2 DEF InFlight

\* A client that moves on says nothing else than before.
LEMMA MoveKeepsMeaning ==
  ASSUME VaultInv, NEW c \in Clients, NEW new, NEW request,
         MovesOn(c, new) \/ Registers(c, new) \/ Puts(c, new) \/ Finishes(c, new),
         IsAbout(c, request), clients'[c] = new
  PROVE  IsAbout(c, request)'
BY DEF VaultInv, PhasesAreEarned, MovesOn, Registers, Puts, Finishes, IsAbout

\* Every step keeps the meaning of the requests.
LEMMA StepRequests ==
  ASSUME TypeInv, VaultInv, [Next]_vars
  PROVE  RequestsAreMeant'
<1>0. /\ clients \in [Clients -> Client]
      /\ RequestsAreMeant /\ PhasesAreEarned
      /\ None \notin Handles /\ NoChannel.handle = None
      /\ \A m \in Messages : m.handle \in Handles
  BY SessionAssumption DEF TypeInv, ClientsTypeOK, VaultInv, None, NoChannel, Messages
<1> SUFFICES ASSUME NEW m \in Messages, InFlight(m)'
             PROVE  /\ m.request.kind \in {"register", "put_envelope"} =>
                         m.request.identity # None
                    /\ \A d \in Clients : clients'[d].channel.handle = m.handle =>
                         IsAbout(d, m.request)'
  BY DEF RequestsAreMeant
<1>1. InFlight(m) \/ m \in net'
  BY FlightComes
<1>2. InFlight(m) =>
        /\ m.request.kind \in {"register", "put_envelope"} => m.request.identity # None
        /\ \A d \in Clients : clients[d].channel.handle = m.handle => IsAbout(d, m.request)
  BY <1>0 DEF RequestsAreMeant
<1>3. \A d \in Clients : clients'[d] = clients[d] /\ IsAbout(d, m.request)
                           => IsAbout(d, m.request)'
  BY DEF IsAbout
<1>4. CASE ClientsStay
  <2>1. InFlight(m)
    BY <1>1, <1>4 DEF ClientsStay, InFlight
  <2>2. QED
    BY <1>2, <1>3, <1>4, <2>1 DEF ClientsStay
<1>5. ASSUME NEW c \in Clients, Opens(c)
      PROVE  /\ m.request.kind \in {"register", "put_envelope"} => m.request.identity # None
             /\ \A d \in Clients : clients'[d].channel.handle = m.handle =>
                  IsAbout(d, m.request)'
  <2>1. PICK h \in Handles, new \in Client, sent \in Messages :
          /\ IsUnknown(h)
          /\ clients' = [clients EXCEPT ![c] = new]
          /\ new.channel.handle = h
          /\ net' = net \cup {sent}
          /\ sent.request.kind = "authenticate"
    BY <1>5 DEF Opens
  <2>2. CASE m = sent
    BY <2>1, <2>2 DEF IsAbout
  <2>3. CASE m # sent
    <3>1. InFlight(m) /\ m.handle # h
      BY <1>1, <2>1, <2>3, UnknownIsSilent DEF InFlight
    <3>2. clients'[c].channel.handle = h /\ \A d \in Clients \ {c} : clients'[d] = clients[d]
      BY <1>0, <2>1
    <3>3. QED
      BY <1>2, <1>3, <3>1, <3>2
  <2>4. QED
    BY <2>2, <2>3
<1>6. ASSUME NEW c \in Clients, Closes(c)
      PROVE  /\ m.request.kind \in {"register", "put_envelope"} => m.request.identity # None
             /\ \A d \in Clients : clients'[d].channel.handle = m.handle =>
                  IsAbout(d, m.request)'
  <2>1. InFlight(m)
    BY <1>1, <1>6 DEF Closes, Close, InFlight
  <2>2. clients'[c].channel = NoChannel /\ \A d \in Clients \ {c} : clients'[d] = clients[d]
    BY <1>0, <1>6, ClosedClient DEF Closes, Close
  <2>3. QED
    BY <1>0, <1>2, <1>3, <2>1, <2>2
<1>7. ASSUME NEW c \in Clients, Moves(c)
      PROVE  /\ m.request.kind \in {"register", "put_envelope"} => m.request.identity # None
             /\ \A d \in Clients : clients'[d].channel.handle = m.handle =>
                  IsAbout(d, m.request)'
  <2>1. PICK new \in Client, sent \in SUBSET Messages :
          /\ clients[c].channel.handle \in Handles
          /\ clients' = [clients EXCEPT ![c] = new]
          /\ new.channel.handle = clients[c].channel.handle
          /\ net' = net \cup sent
          /\ \A o \in sent : o.handle = new.channel.handle /\ Says(new, o.request)
          /\ MovesOn(c, new) \/ Registers(c, new) \/ Puts(c, new) \/ Finishes(c, new)
    BY <1>7 DEF Moves
  <2>2. clients'[c] = new /\ \A d \in Clients \ {c} : clients'[d] = clients[d]
    BY <1>0, <2>1
  <2>3. CASE InFlight(m)
    BY <1>2, <1>3, <2>1, <2>2, <2>3, MoveKeepsMeaning
  <2>4. CASE ~InFlight(m)
    <3>1. m.handle = new.channel.handle /\ Says(new, m.request)
      BY <1>1, <2>1, <2>4 DEF InFlight
    <3>2. \A d \in Clients \ {c} : clients'[d].channel.handle # m.handle
      BY <1>0, <2>1, <2>2, <3>1 DEF TypeInv, ChannelsAreOpen
    <3>3. IsAbout(c, m.request)'
      BY <2>2, <3>1 DEF Says, IsAbout
    <3>4. new.phase \in {"registering", "putting"} => new.device # None /\ new.key # None
      <4>1. CASE MovesOn(c, new)
        BY <1>0, <4>1 DEF MovesOn, PhasesAreEarned
      <4>2. CASE Registers(c, new)
        BY <4>2, SessionAssumption DEF Registers, VaultInv, AnswersAreTrue, None
      <4>3. CASE Puts(c, new)
        BY <1>0, <4>3 DEF Puts, PhasesAreEarned
      <4>4. CASE Finishes(c, new)
        BY <4>4 DEF Finishes
      <4>5. QED
        BY <2>1, <4>1, <4>2, <4>3, <4>4
    <3>5. m.request.kind \in {"register", "put_envelope"} => m.request.identity # None
      BY <3>1, <3>4 DEF Says
    <3>6. QED
      BY <3>2, <3>3, <3>5
  <2>5. QED
    BY <2>3, <2>4
<1>8. QED
  BY <1>4, <1>5, <1>6, <1>7, StepForms

\* Every step keeps the meaning of the writes that the database still carries out.
LEMMA StepWrites ==
  ASSUME TypeInv, VaultInv, [Next]_vars
  PROVE  WritesAreMeant'
<1>0. WritesAreMeant /\ RequestsAreMeant
  BY DEF VaultInv
<1>1. CASE detached' \subseteq detached
  BY <1>0, <1>1 DEF WritesAreMeant
<1>2. ASSUME NEW h \in Handles, Drop(h)
      PROVE  WritesAreMeant'
  <2>0. PICK k \in DOMAIN handlers[h] :
          \E begun \in SUBSET Writes(handlers[h][k]) : detached' = detached \cup begun
    BY <1>2 DEF Drop
  <2>1. PICK begun \in SUBSET Writes(handlers[h][k]) : detached' = detached \cup begun
    BY <2>0
  <2> DEFINE m == handlers[h][k].message
  <2>2. m \in Messages
    <3>1. handlers[h] \in Seq(Handler)
      BY DEF TypeInv, ServerTypeOK
    <3>2. handlers[h][k] \in Handler
      BY <3>1, ElementOfSeq, LenProperties
    <3>3. QED
      BY <3>2 DEF Handler
  <2>3. m.request.kind \in {"register", "put_envelope"} => m.request.identity # None
    BY <1>0, <2>2 DEF RequestsAreMeant, InFlight
  <2>4. \A request \in begun : request.identity # None
    BY <2>1, <2>3 DEF Writes
  <2>5. QED
    BY <1>0, <2>1, <2>4 DEF WritesAreMeant
<1>3. ASSUME NEW h \in Handles, Serve(h)
      PROVE  WritesAreMeant'
  BY <1>1, <1>3, ServeForms
<1>4. ASSUME NEW c \in Clients, Opens(c) \/ OpensInVain \/ Closes(c) \/ Moves(c)
      PROVE  WritesAreMeant'
  BY <1>1, <1>4 DEF Opens, OpensInVain, Closes, Moves, SameServer
<1>5. ASSUME NEW m, Arrive(m) \/ ArriveAgain(m) \/ Lose(m)
      PROVE  WritesAreMeant'
  BY <1>1, <1>5 DEF Arrive, ArriveAgain, Lose
<1>6. ASSUME NEW h \in Handles, Expire(h)
      PROVE  WritesAreMeant'
  BY <1>1, <1>6 DEF Expire
<1>7. ASSUME NEW d, Land(d) \/ Revoke(d)
      PROVE  WritesAreMeant'
  BY <1>1, <1>7 DEF Land, Revoke
<1>8. CASE Crash \/ UNCHANGED vars
  BY <1>1, <1>8 DEF Crash, vars, sessionVars
<1>9. QED
  BY <1>2, <1>3, <1>4, <1>5, <1>6, <1>7, <1>8, NextForms

\* What an answer a says of the vault and of its client.
IsTrue(a) ==
  /\ a.response.kind = "vault_key_envelope" =>
       envelope # None /\ a.response.identity = envelope
  /\ \A c \in Clients : clients[c].channel.handle = a.handle =>
       /\ a.response.kind = "device_registered" =>
            /\ clients[c].phase \in {"registering", "putting", "ready"}
            /\ devices[clients[c].device] # "absent"
       /\ a.response.kind = "vault_key_envelope_stored" =>
            /\ clients[c].phase \in {"putting", "ready"}
            /\ clients[c].key = envelope

\* A client in these phases has a device and a key, and so has one that is set up.
LEMMA PhaseTypes ==
  ASSUME TypeInv, VaultInv, NEW c \in Clients,
         clients[c].phase \in {"registering", "putting", "ready"} \/ clients[c].configured
  PROVE  clients[c].device \in Identities /\ clients[c].key \in Identities
<1>1. clients[c].device \in Identities \cup {None} /\ clients[c].key \in Identities \cup {None}
  BY ClientFields DEF Client
<1>2. clients[c].device # None /\ clients[c].key # None
  BY DEF VaultInv, PhasesAreEarned
<1>3. QED
  BY <1>1, <1>2

\* An answer stays true while its client stays or moves on.
LEMMA TrueStays ==
  ASSUME TypeInv, VaultInv, Grows, NEW a \in answers,
         \A c \in Clients : clients'[c].channel.handle = a.handle =>
           \/ clients'[c] = clients[c]
           \/ /\ clients[c].channel.handle = a.handle
              /\ \/ MovesOn(c, clients'[c]) \/ Registers(c, clients'[c])
                 \/ Puts(c, clients'[c]) \/ Finishes(c, clients'[c])
  PROVE  IsTrue(a)'
<1>1. IsTrue(a)
  BY DEF VaultInv, AnswersAreTrue, IsTrue
<1>2. a.response.kind = "vault_key_envelope" => envelope' # None /\ a.response.identity = envelope'
  BY <1>1 DEF Grows, IsTrue
<1>3. ASSUME NEW c \in Clients, clients'[c].channel.handle = a.handle,
             a.response.kind \in {"device_registered", "vault_key_envelope_stored"}
      PROVE  /\ a.response.kind = "device_registered" =>
                  /\ clients'[c].phase \in {"registering", "putting", "ready"}
                  /\ devices'[clients'[c].device] # "absent"
             /\ a.response.kind = "vault_key_envelope_stored" =>
                  /\ clients'[c].phase \in {"putting", "ready"}
                  /\ clients'[c].key = envelope'
  <2>1. clients[c].channel.handle = a.handle
    BY <1>3
  <2>2. /\ a.response.kind = "device_registered" =>
             /\ clients[c].phase \in {"registering", "putting", "ready"}
             /\ devices[clients[c].device] # "absent"
        /\ a.response.kind = "vault_key_envelope_stored" =>
             /\ clients[c].phase \in {"putting", "ready"}
             /\ clients[c].key = envelope
    BY <1>1, <2>1 DEF IsTrue
  <2>3. clients[c].phase \in {"registering", "putting", "ready"}
    BY <1>3, <2>2
  <2>4. /\ clients[c].device \in Identities /\ clients[c].key \in Identities
        /\ None \notin Identities
    BY <2>3, PhaseTypes, SessionAssumption DEF None
  <2>5. /\ devices[clients[c].device] # "absent" => devices'[clients[c].device] # "absent"
        /\ clients[c].key = envelope => clients[c].key = envelope'
    BY <2>4 DEF Grows
  <2>6. CASE clients'[c] = clients[c]
    BY <2>2, <2>5, <2>6
  <2>7. CASE \/ MovesOn(c, clients'[c]) \/ Registers(c, clients'[c])
             \/ Puts(c, clients'[c]) \/ Finishes(c, clients'[c])
    <3>1. /\ clients'[c].device = clients[c].device
          /\ clients'[c].key = clients[c].key
          /\ clients'[c].phase \in {"registering", "putting", "ready"}
          /\ clients[c].phase \in {"putting", "ready"} =>
               clients'[c].phase \in {"putting", "ready"}
      BY <2>3, <2>7 DEF MovesOn, Registers, Puts, Finishes
    <3>2. QED
      BY <2>2, <2>5, <3>1
  <2>8. QED
    BY <1>3, <2>6, <2>7
<1>4. QED
  BY <1>2, <1>3 DEF IsTrue

\* A request that is answered is of its client, and has been meant as it is.
LEMMA ReplyIsTrue ==
  ASSUME TypeInv, VaultInv, UNCHANGED clients, NEW h \in Handles, handlers[h] # <<>>,
         NEW session \in Session, NEW response \in Responses, NEW close \in BOOLEAN,
         Replies(h, session, response, close),
         NEW a, a.handle = h, a.response = response
  PROVE  IsTrue(a)'
<1> DEFINE m == Message(h)
<1>1. m \in Messages /\ m.handle = h /\ InFlight(m)
  BY HandlerFields DEF InFlight
<1> HIDE DEF m
<1>2. /\ response.kind = "device_registered" =>
           m.request.kind = "register" /\ devices' = Registered(m.request.identity)
      /\ response.kind = "vault_key_envelope" =>
           envelope # None /\ response.identity = envelope /\ envelope' = envelope
      /\ response.kind = "vault_key_envelope_stored" =>
           m.request.kind = "put_envelope" /\ envelope' = m.request.identity
  BY DEF Replies, m
<1>3. ASSUME NEW c \in Clients, clients'[c].channel.handle = a.handle
      PROVE  /\ response.kind = "device_registered" =>
                  /\ clients'[c].phase \in {"registering", "putting", "ready"}
                  /\ devices'[clients'[c].device] # "absent"
             /\ response.kind = "vault_key_envelope_stored" =>
                  /\ clients'[c].phase \in {"putting", "ready"}
                  /\ clients'[c].key = envelope'
  <2>1. IsAbout(c, m.request) /\ clients'[c] = clients[c]
    BY <1>1, <1>3 DEF VaultInv, RequestsAreMeant
  <2>2. CASE response.kind = "device_registered"
    <3>1. /\ clients[c].phase \in {"registering", "putting", "ready"}
          /\ m.request.identity = clients[c].device
          /\ devices' = Registered(m.request.identity)
      BY <1>2, <2>1, <2>2 DEF IsAbout
    <3>2. clients[c].device \in Identities
      BY <3>1, PhaseTypes
    <3>3. devices'[clients[c].device] = "active"
      BY <3>1, <3>2 DEF Registered, TypeInv, ServerTypeOK
    <3>4. QED
      BY <2>1, <2>2, <3>1, <3>3
  <2>3. CASE response.kind = "vault_key_envelope_stored"
    BY <1>2, <2>1, <2>3 DEF IsAbout
  <2>4. QED
    BY <2>2, <2>3
<1>4. QED
  BY <1>2, <1>3 DEF IsTrue

\* Every step keeps the answers true.
LEMMA StepAnswers ==
  ASSUME TypeInv, VaultInv, [Next]_vars
  PROVE  AnswersAreTrue'
<1>0. /\ Grows
      /\ clients \in [Clients -> Client]
      /\ None \notin Handles /\ NoChannel.handle = None
      /\ \A a \in answers : a.handle \in Handles /\ a.handle \in open
  BY StepGrows, SessionAssumption
     DEF TypeInv, ClientsTypeOK, NetTypeOK, AnswersToOpen, AnswerRecord, None, NoChannel
<1> SUFFICES \A a \in answers' : IsTrue(a)'
  BY DEF AnswersAreTrue, IsTrue
<1>1. ASSUME ClientsStay, NEW a \in answers'
      PROVE  IsTrue(a)'
  <2>1. clients' = clients
    BY <1>1 DEF ClientsStay
  <2>2. CASE a \in answers
    BY <1>0, <2>1, <2>2, TrueStays
  <2>3. ASSUME a \notin answers, NEW h \in Handles, handlers[h] # <<>>,
               NEW session \in Session, NEW response \in Responses, NEW close \in BOOLEAN,
               Replies(h, session, response, close)
        PROVE  IsTrue(a)'
    <3>1. a.handle = h /\ a.response = response
      BY <1>1, <2>3, AnswerEffect DEF Replies
    <3>2. QED
      BY <2>1, <2>3, <3>1, ReplyIsTrue
  <2>4. QED
    BY <1>1, <2>2, <2>3 DEF ClientsStay
<1>2. ASSUME NEW c \in Clients, Opens(c), NEW a \in answers'
      PROVE  IsTrue(a)'
  <2>1. PICK h \in Handles, new \in Client :
          /\ IsUnknown(h)
          /\ clients' = [clients EXCEPT ![c] = new]
          /\ new.channel.handle = h
          /\ answers' = answers
    BY <1>2 DEF Opens
  <2>2. a.handle # h
    BY <1>0, <1>2, <2>1 DEF IsUnknown
  <2>3. \A d \in Clients : clients'[d].channel.handle = a.handle => clients'[d] = clients[d]
    BY <1>0, <2>1, <2>2
  <2>4. QED
    BY <1>0, <1>2, <2>1, <2>3, TrueStays
<1>3. ASSUME NEW c \in Clients, Closes(c), NEW a \in answers'
      PROVE  IsTrue(a)'
  <2>1. a \in answers /\ clients' = [clients EXCEPT ![c] = Closed(clients[c])]
    BY <1>3 DEF Closes, Close
  <2>2. clients'[c].channel.handle # a.handle
    BY <1>0, <2>1, ClosedClient
  <2>3. \A d \in Clients : clients'[d].channel.handle = a.handle => clients'[d] = clients[d]
    BY <1>0, <2>1, <2>2
  <2>4. QED
    BY <1>0, <2>1, <2>3, TrueStays
<1>4. ASSUME NEW c \in Clients, Moves(c), NEW a \in answers'
      PROVE  IsTrue(a)'
  <2>1. PICK new \in Client :
          /\ clients' = [clients EXCEPT ![c] = new]
          /\ new.channel.handle = clients[c].channel.handle
          /\ MovesOn(c, new) \/ Registers(c, new) \/ Puts(c, new) \/ Finishes(c, new)
          /\ a \in answers
    BY <1>4 DEF Moves
  <2>2. clients'[c] = new /\ \A d \in Clients \ {c} : clients'[d] = clients[d]
    BY <1>0, <2>1
  <2>3. QED
    BY <1>0, <2>1, <2>2, TrueStays
<1>5. QED
  BY <1>1, <1>2, <1>3, <1>4, StepForms

\* What the phase of a client, as a record, says of the server.
IsEarned(client) ==
  /\ client.phase \in {"registering", "putting"} => client.device # None /\ client.key # None
  /\ client.phase = "registering" /\ client.key # client.device => client.key = envelope
  /\ client.phase = "putting" => devices[client.device] # "absent"
  /\ client.phase = "ready" => client.configured
  /\ client.configured =>
       /\ client.phase \in {"idle", "authenticating", "ready"}
       /\ client.device # None
       /\ devices[client.device] # "absent"
       /\ client.key # None
       /\ client.key = envelope

\* What a phase says stays true.
LEMMA EarnedStays ==
  ASSUME TypeInv, VaultInv, Grows, NEW c \in Clients, clients'[c] = clients[c]
  PROVE  IsEarned(clients[c])'
<1>1. IsEarned(clients[c])
  BY DEF VaultInv, PhasesAreEarned, IsEarned
<1>2. ASSUME clients[c].phase \in {"registering", "putting"} \/ clients[c].configured
      PROVE  IsEarned(clients[c])'
  <2>1. clients[c].device \in Identities /\ clients[c].key \in Identities
    BY <1>2, PhaseTypes
  <2>2. None \notin Identities
    BY SessionAssumption DEF None
  <2>3. QED
    BY <1>1, <2>1, <2>2 DEF IsEarned, Grows
<1>3. CASE clients[c].phase \notin {"registering", "putting"} /\ ~clients[c].configured
  BY <1>1, <1>3 DEF IsEarned
<1>4. QED
  BY <1>2, <1>3

\* A client that moves on has earned its new phase.
LEMMA MoveIsEarned ==
  ASSUME TypeInv, VaultInv, Grows, UNCHANGED <<devices, envelope>>,
         NEW c \in Clients, NEW new \in Client,
         MovesOn(c, new) \/ Registers(c, new) \/ Puts(c, new) \/ Finishes(c, new)
  PROVE  IsEarned(new)
<1>0. None \notin Identities
  BY SessionAssumption DEF None
<1>1. IsEarned(clients[c])
  BY DEF VaultInv, PhasesAreEarned, IsEarned
<1>2. /\ Has(c, "device_registered") => devices[clients[c].device] # "absent"
      /\ Has(c, "vault_key_envelope_stored") => clients[c].key = envelope
      /\ \A a \in answers : a.response.kind = "vault_key_envelope" =>
           envelope # None /\ a.response.identity = envelope
  BY DEF VaultInv, AnswersAreTrue, Has
<1>3. CASE MovesOn(c, new)
  BY <1>1, <1>3 DEF MovesOn, IsEarned
<1>4. CASE Registers(c, new)
  BY <1>0, <1>1, <1>2, <1>4 DEF Registers, IsEarned
<1>5. CASE Puts(c, new)
  BY <1>1, <1>2, <1>5 DEF Puts, IsEarned
<1>6. CASE Finishes(c, new)
  BY <1>1, <1>2, <1>6 DEF Finishes, IsEarned
<1>7. QED
  BY <1>3, <1>4, <1>5, <1>6

\* Every step keeps the phases earned.
LEMMA StepPhases ==
  ASSUME TypeInv, VaultInv, [Next]_vars
  PROVE  PhasesAreEarned'
<1>0. Grows /\ clients \in [Clients -> Client]
  BY StepGrows DEF TypeInv, ClientsTypeOK
<1> SUFFICES \A d \in Clients : IsEarned(clients[d])'
  BY DEF PhasesAreEarned, IsEarned
<1>1. CASE ClientsStay
  BY <1>0, <1>1, EarnedStays DEF ClientsStay
<1>2. ASSUME NEW c \in Clients, NEW new, clients' = [clients EXCEPT ![c] = new],
             IsEarned(new), UNCHANGED <<devices, envelope>>, NEW d \in Clients
      PROVE  IsEarned(clients[d])'
  <2>1. CASE d = c
    BY <1>0, <1>2, <2>1 DEF IsEarned
  <2>2. CASE d # c
    BY <1>0, <1>2, <2>2, EarnedStays
  <2>3. QED
    BY <2>1, <2>2
<1>3. ASSUME NEW c \in Clients
      PROVE  IsEarned(clients[c])
  BY DEF VaultInv, PhasesAreEarned, IsEarned
<1>4. ASSUME NEW c \in Clients, Opens(c)
      PROVE  \A d \in Clients : IsEarned(clients[d])'
  <2>1. PICK new \in Client :
          /\ clients' = [clients EXCEPT ![c] = new]
          /\ new.phase = "authenticating"
          /\ new.device = clients[c].device
          /\ new.key = clients[c].key
          /\ new.configured = clients[c].configured
          /\ UNCHANGED <<devices, envelope>>
    BY <1>4 DEF Opens
  <2>2. IsEarned(new)
    BY <1>3, <2>1 DEF IsEarned
  <2>3. QED
    BY <1>2, <2>1, <2>2
<1>5. ASSUME NEW c \in Clients, Closes(c)
      PROVE  \A d \in Clients : IsEarned(clients[d])'
  <2> DEFINE new == Closed(clients[c])
  <2>1. clients' = [clients EXCEPT ![c] = new] /\ UNCHANGED <<devices, envelope>>
    BY <1>5 DEF Closes, Close, SameServer
  <2>2. IsEarned(new)
    BY <1>3, ClosedClient DEF IsEarned
  <2> HIDE DEF new
  <2>3. QED
    BY <1>2, <2>1, <2>2
<1>6. ASSUME NEW c \in Clients, Moves(c)
      PROVE  \A d \in Clients : IsEarned(clients[d])'
  <2>1. PICK new \in Client :
          /\ clients' = [clients EXCEPT ![c] = new]
          /\ MovesOn(c, new) \/ Registers(c, new) \/ Puts(c, new) \/ Finishes(c, new)
          /\ UNCHANGED <<devices, envelope>>
    BY <1>6 DEF Moves, SameServer
  <2>2. IsEarned(new)
    BY <1>0, <2>1, MoveIsEarned
  <2>3. QED
    BY <1>2, <2>1, <2>2
<1>7. QED
  BY <1>1, <1>4, <1>5, <1>6, StepForms

\* Every step keeps what messages, answers and phases say.
LEMMA StepVault ==
  ASSUME TypeInv, VaultInv, [Next]_vars
  PROVE  VaultInv'
BY StepRequests, StepWrites, StepAnswers, StepPhases DEF VaultInv

----------------------------------------------------------------------------
\* The inductive invariant, and what follows from it.
EnrolmentInv == TypeInv /\ CountInv /\ VaultInv

\* At the start nothing is kept, and nobody has said anything.
LEMMA InitEnrolmentInv == Init => EnrolmentInv
<1> SUFFICES ASSUME Init
             PROVE  EnrolmentInv
  OBVIOUS
<1> USE DEF Init, SessionInit
<1>1. None \notin Handles /\ MAX_SESSIONS \in Nat /\ NoChannel.handle = None
  BY SessionAssumption DEF None, NoChannel
<1>2. \A h \in Handles : handlers[h] = <<>> /\ DOMAIN handlers[h] = {}
  OBVIOUS
<1>3. \A c \in Clients : /\ clients[c].channel = NoChannel
                         /\ clients[c].phase = "idle"
                         /\ clients[c].configured = FALSE
  BY DEF NewClient
<1>4. ServerTypeOK
  <2>1. Fresh \in Session
    BY DEF Fresh, Session
  <2>2. <<>> \in Seq(Handler)
    OBVIOUS
  <2>3. IsFiniteSet(stored) /\ Cardinality(stored) = 0
    BY FS_EmptySet
  <2>4. QED
    BY <1>1, <2>1, <2>2, <2>3 DEF ServerTypeOK
<1>5. NetTypeOK /\ HandlersInPlace /\ AnswersToOpen
  BY <1>2 DEF NetTypeOK, HandlersInPlace, AnswersToOpen
<1>6. ClientsTypeOK
  <2>1. NoChannel \in Channel
    BY DEF NoChannel, Channel
  <2>2. NewClient \in Client
    BY <2>1 DEF NewClient, Client, Phases
  <2>3. QED
    BY <2>2 DEF ClientsTypeOK
<1>7. ChannelsAreOpen
  BY <1>1, <1>3 DEF ChannelsAreOpen
<1>8. CountInv
  BY DEF CountInv, CountsAgree, AnswersInOrder
<1>9. RequestsAreMeant
  BY <1>2 DEF RequestsAreMeant, InFlight
<1>10. WritesAreMeant /\ AnswersAreTrue /\ PhasesAreEarned
  BY <1>3 DEF WritesAreMeant, AnswersAreTrue, PhasesAreEarned
<1>11. QED
  BY <1>4, <1>5, <1>6, <1>7, <1>8, <1>9, <1>10 DEF EnrolmentInv, TypeInv, VaultInv

\* Addresses, counters and meanings hold of every state that sessions and clients reach.
THEOREM EnrolmentInvariance == Spec => []EnrolmentInv
<1>1. EnrolmentInv /\ [Next]_vars => EnrolmentInv'
  BY StepTypeInv, StepCounts, StepVault DEF EnrolmentInv
<1>2. QED
  BY InitEnrolmentInv, <1>1, PTL DEF Spec

\* A stored session on which no handler works has counted as many answers as requests, an
\* answer on a stored session has the number of its request, and the store keeps to its limit
\* (state.rs process_envelope, session.rs SessionCancellationGuard).
THEOREM ClientAndServerInStep == Spec => []SessionsAreInStep
<1>1. EnrolmentInv => SessionsAreInStep
  <2> SUFFICES ASSUME EnrolmentInv
               PROVE  SessionsAreInStep
    OBVIOUS
  <2>1. TypeInv /\ CountsAgree /\ AnswersInOrder
    BY DEF EnrolmentInv, CountInv
  <2>2. ASSUME NEW h \in Handles
        PROVE  /\ sessions[h].phase \in
                    {"awaiting_password", "password_authenticated", "device_authenticated"}
               /\ sessions[h].device \in Identities \cup {None}
               /\ \A k \in DOMAIN handlers[h] : handlers[h][k].stage \in {"queued", "begun"}
    <3>1. sessions[h] \in Session /\ handlers[h] \in Seq(Handler)
      BY <2>1 DEF TypeInv, ServerTypeOK
    <3>2. \A k \in DOMAIN handlers[h] : handlers[h][k] \in Handler
      BY <3>1, ElementOfSeq, LenProperties
    <3>3. QED
      BY <3>1, <3>2 DEF Session, Handler
  <2>3. \A c \in Clients : clients[c].phase \in Phases
    BY <2>1, ClientFields DEF Client
  <2>4. SessionTypeOK
    BY <2>1, <2>2, <2>3 DEF SessionTypeOK, TypeInv, ServerTypeOK, NetTypeOK
  <2>5. StoredIsWhole
    BY <2>1 DEF StoredIsWhole, CountsAgree, CountOf, Begun
  <2>6. QED
    BY <2>1, <2>4, <2>5 DEF SessionsAreInStep
<1>2. QED
  BY EnrolmentInvariance, <1>1, PTL

\* Whoever has set the vault up is registered in it and has its key, through whatever loss,
\* repetition, restart or second attempt (controller.ts configure).
THEOREM ConfiguredStaysRegistered == Spec => []ConfiguredIsRegistered
<1>1. EnrolmentInv => ConfiguredIsRegistered
  BY DEF EnrolmentInv, VaultInv, PhasesAreEarned, ConfiguredIsRegistered
<1>2. QED
  BY EnrolmentInvariance, <1>1, PTL

----------------------------------------------------------------------------
\* Setting up implements the promise of a vault.

\* The key that a client holds for good: the one of its settings.
HeldBy(c) == IF clients[c].configured THEN clients[c].key ELSE None

\* Only who finishes holds a key that it did not hold before.
LEMMA HoldsChange ==
  ASSUME TypeInv, VaultInv, NEW c \in Clients, Opens(c) \/ Closes(c) \/ Moves(c)
  PROVE  /\ envelope' = envelope
         /\ \A d \in Clients \ {c} : HeldBy(d)' = HeldBy(d)
         /\ \/ HeldBy(c)' = HeldBy(c)
            \/ HeldBy(c) = None /\ envelope # None /\ HeldBy(c)' = envelope
<1>0. clients \in [Clients -> Client]
  BY DEF TypeInv, ClientsTypeOK
<1>1. ASSUME NEW new, clients' = [clients EXCEPT ![c] = new]
      PROVE  clients'[c] = new /\ \A d \in Clients \ {c} : HeldBy(d)' = HeldBy(d)
  BY <1>0, <1>1 DEF HeldBy
<1>2. CASE Opens(c)
  <2>1. PICK new \in Client :
          /\ clients' = [clients EXCEPT ![c] = new]
          /\ new.key = clients[c].key
          /\ new.configured = clients[c].configured
          /\ envelope' = envelope
    BY <1>2 DEF Opens
  <2>2. QED
    BY <1>1, <2>1 DEF HeldBy
<1>3. CASE Closes(c)
  <2> DEFINE new == Closed(clients[c])
  <2>1. clients' = [clients EXCEPT ![c] = new] /\ envelope' = envelope
    BY <1>3 DEF Closes, Close, SameServer
  <2>2. /\ new.configured = clients[c].configured
        /\ clients[c].configured => new.key = clients[c].key
    BY ClosedClient
  <2> HIDE DEF new
  <2>3. QED
    BY <1>1, <2>1, <2>2 DEF HeldBy
<1>4. CASE Moves(c)
  <2>1. PICK new \in Client :
          /\ clients' = [clients EXCEPT ![c] = new]
          /\ MovesOn(c, new) \/ Registers(c, new) \/ Puts(c, new) \/ Finishes(c, new)
          /\ UNCHANGED <<devices, envelope>>
    BY <1>4 DEF Moves, SameServer
  <2>2. clients'[c] = new /\ \A d \in Clients \ {c} : HeldBy(d)' = HeldBy(d)
    BY <1>1, <2>1
  <2>3. clients[c].phase \in {"asking", "registering", "putting"} => ~clients[c].configured
    BY DEF VaultInv, PhasesAreEarned
  <2>4. CASE MovesOn(c, new) \/ Puts(c, new)
    BY <2>1, <2>2, <2>4 DEF MovesOn, Puts, HeldBy
  <2>5. CASE Registers(c, new)
    BY <2>1, <2>2, <2>3, <2>5 DEF Registers, HeldBy
  <2>6. CASE Finishes(c, new)
    <3>1. Grows
      BY <2>1 DEF Grows
    <3>2. IsEarned(new) /\ new.configured = TRUE
      BY <2>1, <2>6, <3>1, MoveIsEarned DEF Finishes
    <3>3. new.key # None /\ new.key = envelope
      BY <3>2 DEF IsEarned
    <3>4. ~clients[c].configured
      BY <2>3, <2>6 DEF Finishes
    <3>5. QED
      BY <2>1, <2>2, <3>2, <3>3, <3>4 DEF HeldBy
  <2>7. QED
    BY <2>1, <2>4, <2>5, <2>6
<1>5. QED
  BY <1>2, <1>3, <1>4

\* A vault is founded once, and who joins it holds its key and keeps it: every step of
\* sessions and clients founds the vault, lets a client join it, or does neither.
THEOREM SettingUpKeepsPromise == Spec => VaultIsFoundedOnce
<1> DEFINE holds == [c \in Clients |-> HeldBy(c)]
<1>1. Init => Promise!Init
  BY DEF Init, SessionInit, Promise!Init, NewClient
<1>2. EnrolmentInv /\ EnrolmentInv' /\ [Next]_vars => [Promise!Next]_(Promise!vars)
  <2> SUFFICES ASSUME EnrolmentInv, EnrolmentInv', [Next]_vars
               PROVE  \/ envelope' = envelope /\ holds' = holds
                      \/ \E k \in Identities :
                           envelope = None /\ envelope' = k /\ holds' = holds
                      \/ \E c \in Clients :
                           /\ envelope # None /\ holds[c] = None
                           /\ holds' = [holds EXCEPT ![c] = envelope]
                           /\ envelope' = envelope
    BY DEF Promise!Next, Promise!Found, Promise!Join, Promise!vars, HeldBy
  <2>1. TypeInv /\ VaultInv
    BY DEF EnrolmentInv
  <2>2. CASE ClientsStay
    <3>1. envelope' \in Identities \cup {None} /\ Grows
      BY <2>1, StepGrows DEF EnrolmentInv, TypeInv, ServerTypeOK
    <3>2. holds' = holds
      BY <2>2 DEF ClientsStay, HeldBy
    <3>3. QED
      BY <3>1, <3>2 DEF Grows
  <2>3. ASSUME NEW c \in Clients, Opens(c) \/ Closes(c) \/ Moves(c)
        PROVE  \/ envelope' = envelope /\ holds' = holds
               \/ /\ envelope # None /\ holds[c] = None
                  /\ holds' = [holds EXCEPT ![c] = envelope]
                  /\ envelope' = envelope
    <3>1. /\ envelope' = envelope
          /\ \A d \in Clients \ {c} : HeldBy(d)' = HeldBy(d)
          /\ \/ HeldBy(c)' = HeldBy(c)
             \/ HeldBy(c) = None /\ envelope # None /\ HeldBy(c)' = envelope
      BY <2>1, <2>3, HoldsChange
    <3>2. CASE HeldBy(c)' = HeldBy(c)
      BY <3>1, <3>2
    <3>3. CASE HeldBy(c) = None /\ envelope # None /\ HeldBy(c)' = envelope
      <4>1. holds' = [d \in Clients |-> HeldBy(d)']
        OBVIOUS
      <4>2. [d \in Clients |-> HeldBy(d)'] = [holds EXCEPT ![c] = envelope]
        <5>1. \A d \in Clients : HeldBy(d)' = IF d = c THEN envelope ELSE HeldBy(d)
          BY <3>1, <3>3
        <5>2. QED
          BY <5>1
      <4>3. QED
        BY <3>1, <3>3, <4>1, <4>2
    <3>4. QED
      BY <3>1, <3>2, <3>3
  <2>4. QED
    BY <2>1, <2>2, <2>3, StepForms
<1>3. QED
  BY EnrolmentInvariance, <1>1, <1>2, PTL DEF Spec, VaultIsFoundedOnce, Promise!Spec
=============================================================================

----------------------------- MODULE LoginLimits -----------------------------
(***************************************************************************)
(* How often one may try to log in (ll-server: rate_limit.rs, session.rs   *)
(* SessionStore, state.rs handshake, application.rs authenticate).  Times  *)
(* are kept as the ticks since something happened or until it will, each   *)
(* no further than the code tells apart.                                   *)
(***************************************************************************)
EXTENDS Integers, Sequences, FiniteSets, FiniteSetsExt, SequencesExt

CONSTANTS
  Addresses,
  WINDOW,
  MAX_HANDSHAKES_PER_WINDOW,
  MAX_TRACKED_ADDRESSES,
  MAX_FAILURES,          \* the cap of failed_authentications (8)
  MAX_BACKOFF,
  RETENTION,             \* how long an address is remembered (an hour)
  SESSION_LIFETIME,
  MAX_SESSIONS

\* What the constants of the code satisfy: 30 handshakes a minute over half an hour, and a
\* partial window, are 930 sessions of 1024, and no block or session outlives its entry.
ASSUME LimitsAssumption ==
  /\ {WINDOW, MAX_HANDSHAKES_PER_WINDOW, MAX_FAILURES, SESSION_LIFETIME} \subseteq Nat \ {0}
  /\ {MAX_TRACKED_ADDRESSES, MAX_BACKOFF, RETENTION, MAX_SESSIONS} \subseteq Nat
  /\ SESSION_LIFETIME % WINDOW = 0
  /\ (SESSION_LIFETIME \div WINDOW + 1) * MAX_HANDSHAKES_PER_WINDOW <= MAX_SESSIONS
  /\ SESSION_LIFETIME < RETENTION
  /\ 2^(MAX_FAILURES - 1) < MAX_BACKOFF /\ MAX_BACKOFF < RETENTION

\* Arithmetic that the proofs need and the provers do not know.
ASSUME PowersAssumption == \A n \in 0..MAX_FAILURES : 2^n \in Nat /\ 2^n <= 2^(n + 1)

VARIABLES
  entries,   \* RateLimiter: the addresses that are remembered, and what of them
  sessions   \* address -> its sessions in the store, the oldest first

limitVars == <<entries, sessions>>

FirstSeen == [window |-> 0, handshakes |-> 0, failed |-> 0, blocked |-> 0, seen |-> 0]

IsLive(session) == session.left > 0

\* Sessions end in the order in which they were opened, so that those that live are the last.
Unexpired(s) == SubSeq(s, Min({k \in DOMAIN s : IsLive(s[k])} \cup {Len(s) + 1}), Len(s))

Live(a) == Unexpired(sessions[a])

StoredSessions == Cardinality(UNION {{a} \X DOMAIN Live(a) : a \in Addresses})

\* Functions of addresses as maps from the addresses that have something.
With(map, a, value) == [o \in DOMAIN map \cup {a} |-> IF o = a THEN value ELSE map[o]]

----------------------------------------------------------------------------
\* entries.retain: the addresses that were seen within the hour.
Retained ==
  [a \in {o \in DOMAIN entries : entries[o].seen < RETENTION} |-> entries[a]]

\* Mutant of Seen: only what is let through counts as seen.
SeenOnce(entry) == entry

Seen(entry) == [entry EXCEPT !.seen = 0]

\* Mutant of InWindow: a refusal, too, begins the window again.
InWindowSliding(entry) ==
  IF entry.window >= WINDOW
  THEN [entry EXCEPT !.window = 0, !.handshakes = 0]
  ELSE [entry EXCEPT !.window = 0]

\* A window that is over begins again with this handshake.
InWindow(entry) ==
  IF entry.window >= WINDOW THEN [entry EXCEPT !.window = 0, !.handshakes = 0] ELSE entry

IsWithinBudget(entry) == entry.handshakes < MAX_HANDSHAKES_PER_WINDOW

\* allow_handshake, as the answer and the entries after it.
AllowHandshake(a) ==
  LET kept == Retained
      found == Seen(IF a \in DOMAIN kept THEN kept[a] ELSE FirstSeen)
      entry == InWindow(found)
  IN IF a \notin DOMAIN kept /\ Cardinality(DOMAIN kept) >= MAX_TRACKED_ADDRESSES
     THEN [allowed |-> FALSE, entries |-> kept]
     ELSE IF found.blocked > 0
     THEN [allowed |-> FALSE, entries |-> With(kept, a, found)]
     ELSE IF IsWithinBudget(entry)
     THEN [allowed |-> TRUE,
           entries |-> With(kept, a, [entry EXCEPT !.handshakes = @ + 1])]
     ELSE [allowed |-> FALSE, entries |-> With(kept, a, entry)]

HasRoom == StoredSessions < MAX_SESSIONS

\* AppState::handshake: an invalid message has been counted all the same, and the store
\* takes no more than it holds.
Handshake(a, valid) ==
  LET answer == AllowHandshake(a)
  IN /\ entries' = answer.entries
     /\ sessions' =
          IF answer.allowed /\ valid
          THEN LET live == [o \in Addresses |-> Live(o)]
               IN IF HasRoom
                  THEN [live EXCEPT ![a] = Append(@, [left |-> SESSION_LIFETIME,
                                                      admitted |-> FALSE])]
                  ELSE live
          ELSE sessions

\* Mutant of Delay: the power is computed in too few bits, and the largest is 0.
WrappedDelay(failed) == 2^(failed - 1) % 2^(MAX_FAILURES - 1)

\* The delay doubles with every failure, up to the cap of the counter.
Delay(failed) == Min({2^(failed - 1), MAX_BACKOFF})

\* record_authentication_failure.
Failure(a) ==
  LET entry == IF a \in DOMAIN entries THEN entries[a] ELSE FirstSeen
      failed == Min({entry.failed + 1, MAX_FAILURES})
  IN With(entries, a, [entry EXCEPT !.failed = failed, !.blocked = Delay(failed), !.seen = 0])

\* record_authentication_success.
Cleared(entry) == [entry EXCEPT !.failed = 0, !.blocked = 0, !.seen = 0]

Success(a) ==
  IF a \in DOMAIN entries THEN With(entries, a, Cleared(entries[a])) ELSE entries

\* Application::authenticate on the k-th session of a; a wrong password, a revoked device
\* or a wrong signature closes it.
Authenticate(a, k, right) ==
  /\ IsLive(sessions[a][k])
  /\ ~sessions[a][k].admitted
  /\ entries' = IF right THEN Success(a) ELSE Failure(a)
  /\ sessions' = IF right
                 THEN [sessions EXCEPT ![a][k].admitted = TRUE]
                 ELSE [sessions EXCEPT ![a] = RemoveAt(@, k)]

\* Time goes on.
Tick ==
  /\ entries' = [a \in DOMAIN entries |->
                   [entries[a] EXCEPT !.window = Min({@ + 1, WINDOW}),
                                      !.blocked = IF @ = 0 THEN 0 ELSE @ - 1,
                                      !.seen = Min({@ + 1, RETENTION})]]
  /\ sessions' = [a \in Addresses |->
                    [k \in DOMAIN sessions[a] |->
                       [sessions[a][k] EXCEPT !.left = IF @ = 0 THEN 0 ELSE @ - 1]]]

\* A process begins with nothing.
Forgotten ==
  /\ entries' = [a \in {} |-> FirstSeen]
  /\ sessions' = [a \in Addresses |-> <<>>]

LimitsInit ==
  /\ entries = [a \in {} |-> FirstSeen]
  /\ sessions = [a \in Addresses |-> <<>>]
=============================================================================

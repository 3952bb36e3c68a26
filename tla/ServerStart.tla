----------------------------- MODULE ServerStart -----------------------------
(***************************************************************************)
(* Starting the sync server (ll-server: server.rs initialize, storage      *)
(* initialize; ll-crypto: identity.rs): two key files of its identity and  *)
(* one of the storage are created by whoever finds none, and the database  *)
(* is set up in one transaction.  Several processes may start over one     *)
(* data directory, and each may end between any two steps.                 *)
(***************************************************************************)
EXTENDS Integers, FiniteSets

CONSTANTS
  Processes,
  Passwords,   \* process -> the passwords that its configuration may hold
  Nobody,
  MaxCrashes

ASSUME StartAssumption == Nobody \notin Processes /\ MaxCrashes \in Nat

VARIABLES
  files,      \* file -> Absent, Torn (created, not yet written), or the number of a key
  metadata,   \* table metadata: vault and verifier, once there are any
  processes,  \* process -> how far it has come, the key it holds, its password
  listener,   \* the process that has bound the address
  served,     \* every identity and vault that clients have been shown
  generated,  \* random keys and numbers so far
  crashes

startVars == <<files, metadata, processes, listener, served, generated, crashes>>

Absent == 0
Torn == -1
NoMetadata == [vault |-> Absent, password |-> Nobody]

\* The files in the order in which a start comes to them.
Files == {"private", "public", "storage"}
After(file) == CASE file = "private" -> "public" [] file = "public" -> "storage"
                 [] OTHER -> "done"

Down == [stage |-> "down", file |-> "private", key |-> Absent, password |-> Nobody,
         vault |-> Absent]

Stages == {"down", "look", "read", "create", "fill", "database", "ready"}

Fail(p) == processes' = [processes EXCEPT ![p] = Down]

\* A file is done with: the next one, or the database.
Proceed(p, key) ==
  LET next == After(processes[p].file)
  IN processes' = [processes EXCEPT
       ![p] = IF next = "done"
              THEN [@ EXCEPT !.stage = "database"]
              ELSE [@ EXCEPT !.stage = "look", !.file = next, !.key = key]]

At(p, stage) == processes[p].stage = stage
Content(p) == files[processes[p].file]

----------------------------------------------------------------------------
Start(p, password) ==
  /\ At(p, "down")
  /\ password \in Passwords[p]
  /\ processes' = [processes EXCEPT ![p] = [Down EXCEPT !.stage = "look", !.password = password]]
  /\ UNCHANGED <<files, metadata, listener, served, generated, crashes>>

\* path.exists(), which also holds for a file that somebody is writing.
Look(p) ==
  /\ At(p, "look")
  /\ processes' = [processes EXCEPT ![p].stage = IF Content(p) = Absent THEN "create" ELSE "read"]
  /\ UNCHANGED <<files, metadata, listener, served, generated, crashes>>

\* read_exact_file: a torn file has the wrong length, and the public key must be that of
\* the private one.
Acceptable(p) ==
  /\ Content(p) # Torn
  /\ processes[p].file = "public" => Content(p) = processes[p].key

ReadFile(p) ==
  /\ At(p, "read")
  /\ IF Acceptable(p)
     THEN Proceed(p, IF processes[p].file = "private" THEN Content(p) ELSE processes[p].key)
     ELSE Fail(p)
  /\ UNCHANGED <<files, metadata, listener, served, generated, crashes>>

\* Mutant of MayCreate: File::create, which truncates what is there.
MayTruncate(file) == TRUE

\* OpenOptions::create_new.
MayCreate(file) == files[file] = Absent

\* write_new_file up to the open; a private key is generated just before.
CreateFile(p) ==
  /\ At(p, "create")
  /\ IF MayCreate(processes[p].file)
     THEN /\ files' = [files EXCEPT ![processes[p].file] = Torn]
          /\ generated' = IF processes[p].file = "private" THEN generated + 1 ELSE generated
          /\ processes' = [processes EXCEPT
                             ![p].stage = "fill",
                             ![p].key = IF processes[p].file = "private" THEN generated' ELSE @]
     ELSE Fail(p) /\ UNCHANGED <<files, generated>>
  /\ UNCHANGED <<metadata, listener, served, crashes>>

\* write_all and sync_all.  The storage key belongs to nobody.
FillFile(p) ==
  /\ At(p, "fill")
  /\ files' = [files EXCEPT ![processes[p].file] =
                 IF processes[p].file = "storage" THEN 1 ELSE processes[p].key]
  /\ Proceed(p, processes[p].key)
  /\ UNCHANGED <<metadata, listener, served, generated, crashes>>

\* verify_server_auth_verifier.
Verified(password) == metadata.password = password

\* Storage::initialize, one transaction: what is absent is created, and the password must
\* be that of the first start.
OpenDatabase(p) ==
  LET password == processes[p].password
  IN /\ At(p, "database")
     /\ IF metadata = NoMetadata
        THEN /\ generated' = generated + 1
             /\ metadata' = [vault |-> generated', password |-> password]
        ELSE UNCHANGED <<metadata, generated>>
     /\ IF metadata = NoMetadata \/ Verified(password)
        THEN processes' = [processes EXCEPT ![p].stage = "ready", ![p].vault = metadata'.vault]
        ELSE Fail(p)
     /\ UNCHANGED <<files, listener, served, crashes>>

\* TcpListener::bind fails while another process listens; the startup lines show the
\* fingerprint that clients compare.
Listen(p) ==
  /\ At(p, "ready")
  /\ listener # p
  /\ IF listener = Nobody
     THEN /\ listener' = p
          /\ served' = served \cup {[key |-> processes[p].key, vault |-> processes[p].vault]}
          /\ UNCHANGED processes
     ELSE Fail(p) /\ UNCHANGED <<listener, served>>
  /\ UNCHANGED <<files, metadata, generated, crashes>>

\* The process ends wherever it is.
Crash(p) ==
  /\ ~At(p, "down")
  /\ crashes < MaxCrashes
  /\ crashes' = crashes + 1
  /\ Fail(p)
  /\ listener' = IF listener = p THEN Nobody ELSE listener
  /\ UNCHANGED <<files, metadata, served, generated>>

StartInit ==
  /\ files = [f \in Files |-> Absent]
  /\ metadata = NoMetadata
  /\ processes = [p \in Processes |-> Down]
  /\ listener = Nobody
  /\ served = {}
  /\ generated = 0
  /\ crashes = 0

Step(p) ==
  \/ Look(p)
  \/ ReadFile(p)
  \/ CreateFile(p)
  \/ FillFile(p)
  \/ OpenDatabase(p)
  \/ Listen(p)
=============================================================================

--------------------------- MODULE ServerLifeProofs ---------------------------
(***************************************************************************)
(* Proofs about ServerLife for every set of processes, passwords and       *)
(* addresses.  However many processes start over one directory and         *)
(* wherever they end, clients meet one server; blocks outlast failures;    *)
(* and no table exceeds its limit, nor does one address fill the store.    *)
(* Starts and limits share no variable, and each has its own invariant.    *)
(***************************************************************************)
EXTENDS ServerLife, FiniteSetTheorems, SequenceTheorems, WellFoundedInduction, TLAPS

\* What a process may take for a password.
Secrets == {Nobody} \cup UNION {Passwords[p] : p \in Processes}

Process == [stage : Stages, file : Files, key : Nat, password : Secrets, vault : Nat]

StartTypeOK ==
  /\ files \in [Files -> {Torn} \cup Nat]
  /\ metadata \in [vault : Nat, password : Secrets]
  /\ processes \in [Processes -> Process]
  /\ listener \in Processes \cup {Nobody}
  /\ generated \in Nat

\* A file that has been written to its end.
Whole(f) == files[f] \notin {Torn, Absent}

\* What a process has found, or made, of the files by the time it reaches a step: it holds
\* the private key of the directory as soon as it is done with that file, and it writes only
\* a file that it has itself created.
FilesFound ==
  \A p \in Processes :
    /\ processes[p].file # "private" =>
         Whole("private") /\ processes[p].key = files["private"]
    /\ processes[p].file = "storage" => Whole("public")
    /\ processes[p].stage \in {"database", "ready"} =>
         processes[p].file = "storage" /\ Whole("storage")
    /\ At(p, "read") => Content(p) # Absent
    /\ At(p, "fill") => Content(p) = Torn /\ processes[p].key # Absent

\* A file that was created and not yet written has one process that writes it.
OneWriter ==
  \A p, o \in Processes :
    At(p, "fill") /\ At(o, "fill") /\ processes[p].file = processes[o].file => p = o

\* Whoever is ready has the vault of the directory and the password of the first start.
ReadyAgrees ==
  \A p \in Processes :
    At(p, "ready") =>
      /\ metadata # NoMetadata
      /\ processes[p].vault = metadata.vault
      /\ processes[p].password = metadata.password

ListenerIsReady == Listening => At(listener, "ready")

\* Clients have only been shown what the directory still says.
ServedIsStored ==
  /\ served \subseteq {[key |-> files["private"], vault |-> metadata.vault]}
  /\ served # {} => metadata # NoMetadata /\ \A f \in Files : Whole(f)

\* The inductive invariant.
StartInv ==
  /\ StartTypeOK
  /\ FilesFound
  /\ OneWriter
  /\ ReadyAgrees
  /\ ListenerIsReady
  /\ ServedIsStored

----------------------------------------------------------------------------
\* Before the first start the directory is empty and no process runs.
LEMMA InitStartInv == Init => StartInv
<1> SUFFICES ASSUME Init PROVE StartInv
  OBVIOUS
<1> USE DEF Init, StartInit, Absent, Torn
<1>1. StartTypeOK
  BY DEF StartTypeOK, Process, Secrets, NoMetadata, Down, Stages, Files
<1>2. FilesFound /\ OneWriter /\ ReadyAgrees
  BY DEF FilesFound, OneWriter, ReadyAgrees, At, Down
<1>3. ListenerIsReady /\ ServedIsStored
  BY DEF ListenerIsReady, Listening, ServedIsStored
<1>4. QED
  BY <1>1, <1>2, <1>3 DEF StartInv

\* The steps of a process between its start and its end.
ProcessStep(p) ==
  \/ \E password \in Passwords[p] : Start(p, password)
  \/ Step(p)
  \/ Crash(p)

\* Every step of the whole is one of a process or leaves the directory and the processes
\* alone.
LEMMA StepsOfProcesses ==
  ASSUME [Next]_vars
  PROVE  (\E p \in Processes : ProcessStep(p)) \/ UNCHANGED startVars
<1>1. CASE UNCHANGED vars
  BY <1>1 DEF vars
<1>2. ASSUME NEW p \in Processes, StartServer(p) \/ EndServer(p)
      PROVE  ProcessStep(p)
  BY <1>2 DEF StartServer, EndServer, ProcessStep
<1>3. CASE \E a \in Addresses : \E b \in BOOLEAN : TryHandshake(a, b) \/ TryPassword(a, b)
  BY <1>3 DEF TryHandshake, TryPassword
<1>4. CASE KnockAgain \/ Enter \/ Time
  BY <1>4 DEF KnockAgain, Enter, Time
<1>5. QED
  BY <1>1, <1>2, <1>3, <1>4 DEF Next

\* The record that a process becomes when it goes on, or fails, is of its type.
LEMMA ProceedType ==
  ASSUME StartTypeOK, NEW p \in Processes, NEW key \in Nat, Proceed(p, key)
  PROVE  processes' \in [Processes -> Process]
<1>1. processes[p] \in Process
  BY DEF StartTypeOK
<1>2. After(processes[p].file) \in Files \cup {"done"}
  BY DEF After, Files
<1>3. QED
  BY <1>1, <1>2 DEF Proceed, StartTypeOK, Process, Stages

\* A start that fails leaves a process.
LEMMA FailType ==
  ASSUME StartTypeOK, NEW p \in Processes, Fail(p)
  PROVE  processes' \in [Processes -> Process]
BY DEF Fail, Down, StartTypeOK, Process, Stages, Files, Secrets, Absent

\* What is written stays: no step of a process changes a file that is whole, or what the
\* database holds once it holds anything.
LEMMA WrittenForGood ==
  ASSUME StartInv, NEW p \in Processes, ProcessStep(p)
  PROVE  /\ \A f \in Files : Whole(f) => files'[f] = files[f] /\ Whole(f)'
         /\ metadata # NoMetadata => metadata' = metadata
<1>1. processes[p].file \in Files
  BY DEF StartInv, StartTypeOK, Process
<1>2. CASE FillFile(p)
  <2>1. files[processes[p].file] = Torn
    BY <1>2 DEF StartInv, FilesFound, FillFile, Content
  <2>2. QED
    BY <1>1, <1>2, <2>1 DEF StartInv, StartTypeOK, FillFile, Whole
<1>3. CASE CreateFile(p)
  BY <1>1, <1>3 DEF StartInv, StartTypeOK, CreateFile, MayCreate, Whole
<1>4. CASE OpenDatabase(p)
  BY <1>4 DEF OpenDatabase, Whole
<1>5. CASE \/ \E password \in Passwords[p] : Start(p, password)
           \/ Look(p) \/ ReadFile(p) \/ Listen(p) \/ Crash(p)
  BY <1>5 DEF Start, Look, ReadFile, Listen, Crash, Whole
<1>6. QED
  BY <1>2, <1>3, <1>4, <1>5 DEF ProcessStep, Step

\* Every step of a process keeps the types.
LEMMA StepStartType ==
  ASSUME StartInv, NEW p \in Processes, ProcessStep(p)
  PROVE  StartTypeOK'
<1> USE DEF StartInv
<1>0. processes[p] \in Process /\ processes[p].key \in Nat /\ processes[p].file \in Files
  BY DEF StartTypeOK, Process
<1>1. ASSUME NEW password \in Passwords[p], Start(p, password)
      PROVE  StartTypeOK'
  <2>1. [Down EXCEPT !.stage = "look", !.password = password] \in Process
    BY DEF Down, Process, Stages, Files, Absent, Secrets
  <2>2. QED
    BY <1>1, <2>1 DEF Start, StartTypeOK
<1>2. CASE Look(p)
  BY <1>0, <1>2 DEF Look, StartTypeOK, Process, Stages
<1>3. CASE ReadFile(p)
  <2>1. CASE Acceptable(p)
    <3>1. Content(p) \in Nat
      BY <1>0, <2>1 DEF Acceptable, Content, StartTypeOK
    <3>2. processes' \in [Processes -> Process]
      BY <1>0, <1>3, <2>1, <3>1, ProceedType DEF ReadFile
    <3>3. QED
      BY <1>3, <3>2 DEF ReadFile, StartTypeOK
  <2>2. CASE ~Acceptable(p)
    BY <1>3, <2>2, FailType DEF ReadFile, StartTypeOK
  <2>3. QED
    BY <2>1, <2>2
<1>4. CASE CreateFile(p)
  <2>1. CASE MayCreate(processes[p].file)
    <3>1. generated' \in Nat
      BY <1>4, <2>1 DEF CreateFile, StartTypeOK
    <3>2. processes' \in [Processes -> Process]
      BY <1>0, <1>4, <2>1, <3>1 DEF CreateFile, StartTypeOK, Process, Stages
    <3>3. files' \in [Files -> {Torn} \cup Nat]
      BY <1>0, <1>4, <2>1 DEF CreateFile, StartTypeOK
    <3>4. QED
      BY <1>4, <3>1, <3>2, <3>3 DEF CreateFile, StartTypeOK
  <2>2. CASE ~MayCreate(processes[p].file)
    BY <1>4, <2>2, FailType DEF CreateFile, StartTypeOK
  <2>3. QED
    BY <2>1, <2>2
<1>5. CASE FillFile(p)
  <2>1. processes' \in [Processes -> Process]
    BY <1>0, <1>5, ProceedType DEF FillFile
  <2>2. files' \in [Files -> {Torn} \cup Nat]
    BY <1>0, <1>5 DEF FillFile, StartTypeOK
  <2>3. QED
    BY <1>5, <2>1, <2>2 DEF FillFile, StartTypeOK
<1>6. CASE OpenDatabase(p)
  <2>1. generated' \in Nat /\ metadata' \in [vault : Nat, password : Secrets]
    BY <1>0, <1>6 DEF OpenDatabase, StartTypeOK, Process
  <2>2. metadata'.vault \in Nat
    BY <2>1
  <2>3. processes' \in [Processes -> Process]
    BY <1>0, <1>6, <2>2, FailType DEF OpenDatabase, StartTypeOK, Process, Stages
  <2>4. QED
    BY <1>6, <2>1, <2>3 DEF OpenDatabase, StartTypeOK
<1>7. CASE Listen(p)
  BY <1>7, FailType DEF Listen, StartTypeOK
<1>8. CASE Crash(p)
  BY <1>8, FailType DEF Crash, StartTypeOK
<1>9. QED
  BY <1>1, <1>2, <1>3, <1>4, <1>5, <1>6, <1>7, <1>8 DEF ProcessStep, Step

\* What one process does to the others: nothing.
LEMMA OthersStay ==
  ASSUME StartInv, NEW p \in Processes, ProcessStep(p), NEW o \in Processes, o # p
  PROVE  processes'[o] = processes[o]
<1>1. processes \in [Processes -> Process]
  BY DEF StartInv, StartTypeOK
<1>2. QED
  BY <1>1 DEF ProcessStep, Step, Start, Look, ReadFile, CreateFile, FillFile, OpenDatabase,
              Listen, Crash, Proceed, Fail

\* The file that a process comes to next, and the key with which it does.
LEMMA ProceedFields ==
  ASSUME StartTypeOK, NEW p \in Processes, NEW key \in Nat, Proceed(p, key)
  PROVE  LET now == processes[p]
             then == processes'[p]
         IN /\ now.file = "private" => then.file = "public" /\ then.key = key
            /\ now.file = "public" => then.file = "storage" /\ then.key = key
            /\ now.file \in {"private", "public"} => then.stage = "look"
            /\ now.file = "storage" =>
                 then.file = "storage" /\ then.key = now.key /\ then.stage = "database"
<1>1. processes[p] \in Process /\ processes \in [Processes -> Process]
  BY DEF StartTypeOK
<1>2. CASE processes[p].file = "private"
  BY <1>1, <1>2 DEF Proceed, After, Process
<1>3. CASE processes[p].file = "public"
  BY <1>1, <1>3 DEF Proceed, After, Process
<1>4. CASE processes[p].file = "storage"
  BY <1>1, <1>4 DEF Proceed, After, Process
<1>5. QED
  BY <1>2, <1>3, <1>4

\* What FilesFound says of one process.
Found(p) ==
  /\ processes[p].file # "private" => Whole("private") /\ processes[p].key = files["private"]
  /\ processes[p].file = "storage" => Whole("public")
  /\ processes[p].stage \in {"database", "ready"} =>
       processes[p].file = "storage" /\ Whole("storage")
  /\ At(p, "read") => Content(p) # Absent
  /\ At(p, "fill") => Content(p) = Torn /\ processes[p].key # Absent

\* A process that has finished with its file in the state to come goes on as FilesFound says.
LEMMA ProceedFound ==
  ASSUME StartInv, NEW p \in Processes, NEW key \in Nat, Proceed(p, key),
         \A f \in Files : Whole(f) => files'[f] = files[f] /\ Whole(f)',
         files'[processes[p].file] \notin {Torn, Absent},
         processes[p].file = "private" => key = files'["private"],
         processes[p].file # "private" => key = processes[p].key
  PROVE  Found(p)'
<1>1. processes[p].file \in Files /\ Found(p)
  BY DEF StartInv, StartTypeOK, Process, FilesFound, Found
<1>2. CASE processes[p].file = "private"
  <2>1. processes'[p].file = "public" /\ processes'[p].key = key /\ processes'[p].stage = "look"
    BY <1>2, ProceedFields DEF StartInv
  <2>2. Whole("private")' /\ processes'[p].key = files'["private"]
    BY <1>2, <2>1 DEF Whole
  <2>3. QED
    BY <2>1, <2>2 DEF Found, At
<1>3. CASE processes[p].file = "public"
  <2>1. processes'[p].file = "storage" /\ processes'[p].key = key /\ processes'[p].stage = "look"
    BY <1>3, ProceedFields DEF StartInv
  <2>2. Whole("private")' /\ processes'[p].key = files'["private"] /\ Whole("public")'
    BY <1>1, <1>3, <2>1 DEF Found, Whole, Files
  <2>3. QED
    BY <2>1, <2>2 DEF Found, At
<1>4. CASE processes[p].file = "storage"
  <2>1. /\ processes'[p].file = "storage"
        /\ processes'[p].key = processes[p].key
        /\ processes'[p].stage = "database"
    BY <1>4, ProceedFields DEF StartInv
  <2>2. /\ Whole("private")' /\ processes'[p].key = files'["private"]
        /\ Whole("public")' /\ Whole("storage")'
    BY <1>1, <1>4, <2>1 DEF Found, Whole, Files
  <2>3. QED
    BY <2>1, <2>2 DEF Found, At
<1>5. QED
  BY <1>1, <1>2, <1>3, <1>4 DEF Files

\* Every step of a process keeps what the processes have found of the files.
LEMMA StepFilesFound ==
  ASSUME StartInv, NEW p \in Processes, ProcessStep(p)
  PROVE  FilesFound' /\ OneWriter'
<1> USE DEF StartInv
<1>0. /\ processes[p] \in Process /\ processes[p].file \in Files
      /\ processes \in [Processes -> Process]
      /\ Found(p)
  BY DEF StartTypeOK, Process, FilesFound, Found
<1>1. \A f \in Files : Whole(f) => files'[f] = files[f] /\ Whole(f)'
  BY WrittenForGood
<1>2. Found(p)' /\ (At(p, "fill")' => CreateFile(p) /\ MayCreate(processes[p].file))
  <2>0. Fail(p) => Found(p)' /\ ~At(p, "fill")'
    <3> SUFFICES ASSUME Fail(p) PROVE Found(p)' /\ ~At(p, "fill")'
      OBVIOUS
    <3>1. processes'[p].file = "private" /\ processes'[p].stage = "down"
      BY <1>0 DEF Fail, Down
    <3>2. QED
      BY <3>1 DEF Found, At
  <2>1. ASSUME NEW password \in Passwords[p], Start(p, password)
        PROVE  Found(p)' /\ ~At(p, "fill")'
    <3>1. processes'[p].file = "private" /\ processes'[p].stage = "look"
      BY <1>0, <2>1 DEF Start, Down
    <3>2. QED
      BY <3>1 DEF Found, At
  <2>2. CASE Look(p)
    BY <1>0, <2>2 DEF Look, Found, At, Content, Whole
  <2>3. CASE ReadFile(p)
    <3>1. CASE Acceptable(p)
      <4>1. Whole(processes[p].file) /\ Content(p) \in Nat /\ files' = files
        BY <1>0, <2>3, <3>1 DEF ReadFile, Acceptable, Found, Content, Whole, StartTypeOK
      <4>2. Found(p)'
        BY <1>0, <1>1, <2>3, <3>1, <4>1, ProceedFound
           DEF ReadFile, Content, Process, Whole
      <4>3. ~At(p, "fill")'
        BY <1>0, <2>3, <3>1, <4>1, ProceedFields DEF ReadFile, At, Files, Process
      <4>4. QED
        BY <4>2, <4>3
    <3>2. CASE ~Acceptable(p)
      BY <2>0, <2>3, <3>2 DEF ReadFile
    <3>3. QED
      BY <3>1, <3>2
  <2>4. CASE CreateFile(p)
    <3>1. CASE MayCreate(processes[p].file)
      <4>1. /\ processes'[p].stage = "fill"
            /\ processes'[p].file = processes[p].file
            /\ files'[processes[p].file] = Torn
            /\ processes'[p].key = IF processes[p].file = "private" THEN generated + 1
                                   ELSE processes[p].key
        BY <1>0, <2>4, <3>1 DEF CreateFile, StartTypeOK, Process
      <4>2. processes'[p].key # Absent
        BY <1>0, <4>1 DEF Found, StartTypeOK, Whole, Absent, Process
      <4>3. QED
        BY <1>0, <1>1, <2>4, <3>1, <4>1, <4>2 DEF Found, At, Content, Files
    <3>2. CASE ~MayCreate(processes[p].file)
      BY <2>0, <2>4, <3>2 DEF CreateFile
    <3>3. QED
      BY <3>1, <3>2
  <2>5. CASE FillFile(p)
    <3>1. /\ processes[p].key \in Nat /\ processes[p].key # Absent
          /\ files' = [files EXCEPT ![processes[p].file] =
                         IF processes[p].file = "storage" THEN 1 ELSE processes[p].key]
      BY <1>0, <2>5 DEF FillFile, Found, Process
    <3>2. files'[processes[p].file] \notin {Torn, Absent}
      BY <1>0, <3>1 DEF Absent, Torn, StartTypeOK
    <3>3. processes[p].file = "private" => processes[p].key = files'["private"]
      BY <1>0, <3>1 DEF StartTypeOK
    <3>4. Found(p)'
      BY <1>0, <1>1, <2>5, <3>1, <3>2, <3>3, ProceedFound DEF FillFile
    <3>5. ~At(p, "fill")'
      BY <1>0, <2>5, <3>1, ProceedFields DEF FillFile, At, Files
    <3>6. QED
      BY <3>4, <3>5
  <2>6. CASE OpenDatabase(p)
    <3>1. CASE metadata = NoMetadata \/ Verified(processes[p].password)
      <4>1. /\ processes'[p].file = processes[p].file
            /\ processes'[p].key = processes[p].key
            /\ processes'[p].stage = "ready"
            /\ processes[p].stage = "database"
            /\ files' = files
        BY <1>0, <2>6, <3>1 DEF OpenDatabase, At, Process
      <4>2. QED
        BY <1>0, <4>1 DEF Found, At, Whole
    <3>2. CASE ~(metadata = NoMetadata \/ Verified(processes[p].password))
      BY <2>0, <2>6, <3>2 DEF OpenDatabase
    <3>3. QED
      BY <3>1, <3>2
  <2>7. CASE Listen(p)
    <3>1. CASE listener = Nobody
      BY <1>0, <2>7, <3>1 DEF Listen, Found, At, Whole
    <3>2. CASE listener # Nobody
      BY <2>0, <2>7, <3>2 DEF Listen
    <3>3. QED
      BY <3>1, <3>2
  <2>8. CASE Crash(p)
    BY <2>0, <2>8 DEF Crash
  <2>9. QED
    BY <2>1, <2>2, <2>3, <2>4, <2>5, <2>6, <2>7, <2>8 DEF ProcessStep, Step
<1>3. ASSUME NEW o \in Processes, o # p
      PROVE  /\ Found(o)'
             /\ At(o, "fill") /\ processes[o].file = processes[p].file =>
                  ~MayCreate(processes[p].file)
  <2>1. processes'[o] = processes[o] /\ processes[o].file \in Files /\ Found(o)
    BY <1>3, OthersStay DEF FilesFound, Found, StartTypeOK, Process
  <2>2. At(o, "read") => files'[processes[o].file] # Absent
    <3>1. \A f \in Files : files[f] # Absent => files'[f] # Absent
      <4>1. CASE CreateFile(p)
        BY <1>0, <4>1 DEF CreateFile, StartTypeOK, Torn, Absent
      <4>2. CASE FillFile(p)
        BY <1>0, <4>2 DEF FillFile, StartTypeOK, Absent, Found
      <4>3. CASE files' = files
        BY <4>3
      <4>4. QED
        BY <4>1, <4>2, <4>3 DEF ProcessStep, Step, Start, Look, ReadFile, OpenDatabase,
                                Listen, Crash
    <3>2. QED
      BY <2>1, <3>1 DEF Found, Content
  <2>3. At(o, "fill") => files'[processes[o].file] = Torn
    <3> SUFFICES ASSUME At(o, "fill") PROVE files'[processes[o].file] = Torn
      OBVIOUS
    <3>1. files[processes[o].file] = Torn
      BY <2>1 DEF Found, Content
    <3>2. CASE CreateFile(p)
      BY <1>0, <2>1, <3>1, <3>2 DEF CreateFile, StartTypeOK
    <3>3. CASE FillFile(p)
      <4>1. processes[o].file # processes[p].file
        BY <1>3, <3>3 DEF OneWriter, FillFile
      <4>2. QED
        BY <1>0, <2>1, <3>1, <3>3, <4>1 DEF FillFile, StartTypeOK
    <3>4. CASE files' = files
      BY <3>1, <3>4
    <3>5. QED
      BY <3>2, <3>3, <3>4 DEF ProcessStep, Step, Start, Look, ReadFile, OpenDatabase, Listen,
                              Crash
  <2>4. Found(o)'
    BY <1>1, <2>1, <2>2, <2>3 DEF Found, At, Content, Files
  <2>5. QED
    BY <2>1, <2>4 DEF Found, Content, MayCreate, Torn, Absent
<1>4. FilesFound'
  BY <1>2, <1>3 DEF FilesFound, Found
<1>5. OneWriter'
  <2>1. \A o \in Processes : o # p => processes'[o] = processes[o]
    BY OthersStay
  <2>2. CreateFile(p) /\ MayCreate(processes[p].file) =>
          processes'[p].file = processes[p].file
    BY <1>0 DEF CreateFile, Process
  <2>3. QED
    BY <1>2, <1>3, <2>1, <2>2 DEF OneWriter, At
<1>6. QED
  BY <1>4, <1>5

\* Who is ready after a step of p was ready before, or is p with what the database says.
LEMMA StepReady ==
  ASSUME StartInv, NEW p \in Processes, ProcessStep(p)
  PROVE  ReadyAgrees' /\ ListenerIsReady'
<1> USE DEF StartInv
<1>0. processes[p] \in Process /\ processes \in [Processes -> Process]
  BY DEF StartTypeOK
<1>1. ASSUME NEW o \in Processes, At(o, "ready")', ~OpenDatabase(p)
      PROVE  processes'[o] = processes[o]
  <2>1. CASE o # p
    BY <2>1, OthersStay
  <2>2. CASE o = p
    <3> DEFINE stage == processes'[p].stage
    <3>1. Fail(p) => stage = "down"
      BY <1>0 DEF Fail, Down
    <3>2. ASSUME NEW password \in Passwords[p], Start(p, password)
          PROVE  stage = "look"
      BY <1>0, <3>2 DEF Start, Down
    <3>3. Look(p) => stage \in {"create", "read"}
      BY <1>0 DEF Look, Process
    <3>4. ReadFile(p) => stage # "ready"
      <4> SUFFICES ASSUME ReadFile(p) PROVE stage # "ready"
        OBVIOUS
      <4>1. CASE Acceptable(p)
        <5>1. Content(p) \in Nat /\ processes[p].file \in Files /\ processes[p].key \in Nat
          BY <1>0, <4>1 DEF Acceptable, Content, StartTypeOK, Process
        <5>2. QED
          BY <4>1, <5>1, ProceedFields DEF ReadFile, Files
      <4>2. CASE ~Acceptable(p)
        BY <3>1, <4>2 DEF ReadFile
      <4>3. QED
        BY <4>1, <4>2
    <3>5. CreateFile(p) => stage \in {"down", "fill"}
      BY <1>0, <3>1 DEF CreateFile, Process
    <3>6. FillFile(p) => stage # "ready"
      BY <1>0, ProceedFields DEF FillFile, Process, Files
    <3>7. Listen(p) => stage = "down" \/ processes' = processes
      BY <3>1 DEF Listen
    <3>8. Crash(p) => stage = "down"
      BY <3>1 DEF Crash
    <3>9. QED
      BY <1>1, <2>2, <3>2, <3>3, <3>4, <3>5, <3>6, <3>7, <3>8 DEF ProcessStep, Step, At
  <2>3. QED
    BY <2>1, <2>2
<1>2. ReadyAgrees'
  <2>1. CASE OpenDatabase(p)
    <3>1. At(p, "ready")' =>
            /\ metadata' # NoMetadata
            /\ processes'[p].vault = metadata'.vault
            /\ processes'[p].password = metadata'.password
      <4>1. Fail(p) => ~At(p, "ready")'
        BY <1>0 DEF Fail, Down, At
      <4>2. CASE metadata = NoMetadata
        BY <1>0, <2>1, <4>2
           DEF OpenDatabase, StartTypeOK, Process, NoMetadata, Absent
      <4>3. CASE metadata # NoMetadata /\ Verified(processes[p].password)
        BY <1>0, <2>1, <4>3 DEF OpenDatabase, Process, Verified
      <4>4. CASE metadata # NoMetadata /\ ~Verified(processes[p].password)
        BY <2>1, <4>1, <4>4 DEF OpenDatabase
      <4>5. QED
        BY <4>2, <4>3, <4>4
    <3>2. ASSUME NEW o \in Processes, o # p, At(o, "ready")'
          PROVE  /\ metadata' # NoMetadata
                 /\ processes'[o].vault = metadata'.vault
                 /\ processes'[o].password = metadata'.password
      <4>1. processes'[o] = processes[o] /\ At(o, "ready")
        BY <3>2, OthersStay DEF At
      <4>2. metadata # NoMetadata /\ metadata' = metadata
        BY <4>1, WrittenForGood DEF ReadyAgrees
      <4>3. QED
        BY <4>1, <4>2 DEF ReadyAgrees
    <3>3. QED
      BY <3>1, <3>2 DEF ReadyAgrees
  <2>2. CASE ~OpenDatabase(p)
    <3>1. ASSUME NEW o \in Processes, At(o, "ready")'
          PROVE  /\ metadata' # NoMetadata
                 /\ processes'[o].vault = metadata'.vault
                 /\ processes'[o].password = metadata'.password
      <4>1. processes'[o] = processes[o] /\ At(o, "ready")
        BY <1>1, <2>2, <3>1 DEF At
      <4>2. metadata # NoMetadata /\ metadata' = metadata
        BY <4>1, WrittenForGood DEF ReadyAgrees
      <4>3. QED
        BY <4>1, <4>2 DEF ReadyAgrees
    <3>2. QED
      BY <3>1 DEF ReadyAgrees
  <2>3. QED
    BY <2>1, <2>2
<1>3. ListenerIsReady'
  <2>1. CASE Listen(p)
    <3>1. CASE listener = Nobody
      BY <2>1, <3>1 DEF Listen, ListenerIsReady, Listening, At
    <3>2. CASE listener # Nobody
      <4>1. listener' = listener /\ listener \in Processes /\ listener # p
        BY <2>1, <3>2 DEF Listen, StartTypeOK
      <4>2. QED
        BY <3>2, <4>1, OthersStay DEF ListenerIsReady, Listening, At
    <3>3. QED
      BY <3>1, <3>2
  <2>2. CASE Crash(p)
    <3>1. CASE listener = p
      BY <2>2, <3>1 DEF Crash, ListenerIsReady, Listening
    <3>2. CASE listener # p
      BY <2>2, <3>2, OthersStay DEF Crash, ListenerIsReady, Listening, At, StartTypeOK
    <3>3. QED
      BY <3>1, <3>2
  <2>3. CASE ~Listen(p) /\ ~Crash(p)
    <3>1. listener' = listener /\ ~At(p, "ready")
      BY <2>3 DEF ProcessStep, Step, Start, Look, ReadFile, CreateFile, FillFile,
                  OpenDatabase, At
    <3>2. QED
      BY <3>1, OthersStay DEF ListenerIsReady, Listening, At, StartTypeOK
  <2>4. QED
    BY <2>1, <2>2, <2>3
<1>4. QED
  BY <1>2, <1>3

\* What clients are shown is what the directory says and goes on saying.
LEMMA StepServed ==
  ASSUME StartInv, NEW p \in Processes, ProcessStep(p)
  PROVE  ServedIsStored'
<1> USE DEF StartInv
<1> DEFINE shown == [key |-> files["private"], vault |-> metadata.vault]
<1>1. /\ \A f \in Files : Whole(f) => files'[f] = files[f] /\ Whole(f)'
      /\ metadata # NoMetadata => metadata' = metadata
  BY WrittenForGood
<1>2. served' \subseteq {shown} /\ (served' # {} => metadata # NoMetadata /\ \A f \in Files : Whole(f))
  <2>1. CASE Listen(p) /\ listener = Nobody
    <3>1. served' = served \cup {[key |-> processes[p].key, vault |-> processes[p].vault]}
      BY <2>1 DEF Listen
    <3>2. /\ Whole("private") /\ Whole("public") /\ Whole("storage")
          /\ processes[p].key = files["private"]
      BY <2>1 DEF Listen, At, FilesFound
    <3>3. metadata # NoMetadata /\ processes[p].vault = metadata.vault
      BY <2>1 DEF Listen, ReadyAgrees
    <3>4. QED
      BY <3>1, <3>2, <3>3 DEF ServedIsStored, Files
  <2>2. CASE ~(Listen(p) /\ listener = Nobody)
    <3>1. served' = served
      BY <2>2 DEF ProcessStep, Step, Start, Look, ReadFile, CreateFile, FillFile,
                  OpenDatabase, Listen, Crash
    <3>2. QED
      BY <3>1 DEF ServedIsStored
  <2>3. QED
    BY <2>1, <2>2
<1>3. CASE served' = {}
  BY <1>3 DEF ServedIsStored
<1>4. CASE served' # {}
  <2>1. /\ metadata' = metadata /\ metadata # NoMetadata
        /\ files'["private"] = files["private"]
        /\ \A f \in Files : Whole(f)'
    BY <1>1, <1>2, <1>4 DEF Files
  <2>2. QED
    BY <1>2, <2>1 DEF ServedIsStored
<1>5. QED
  BY <1>3, <1>4

\* Every step keeps the inductive invariant.
LEMMA StepStartInv ==
  ASSUME StartInv, [Next]_vars
  PROVE  StartInv'
<1>1. CASE UNCHANGED startVars
  BY <1>1 DEF startVars, StartInv, StartTypeOK, FilesFound, OneWriter, ReadyAgrees,
              ListenerIsReady, ServedIsStored, Listening, At, Content, Whole
<1>2. ASSUME NEW p \in Processes, ProcessStep(p)
      PROVE  StartInv'
  BY <1>2, StepStartType, StepFilesFound, StepReady, StepServed DEF StartInv
<1>3. QED
  BY <1>1, <1>2, StepsOfProcesses

----------------------------------------------------------------------------
\* The inductive invariant holds in every reachable state.
THEOREM StartInvariance == Spec => []StartInv
BY InitStartInv, StepStartInv, PTL DEF Spec

\* Clients only ever meet one server: its identity and its vault, started with its
\* password, over files that are whole, however many processes start at once over one
\* directory and wherever they end (identity.rs load_or_create, storage initialize).
THEOREM OneServerIsServed == Spec => []ServedIsOne
<1>1. StartInv => ServedIsOne
  <2> SUFFICES ASSUME StartInv PROVE ServedIsOne
    OBVIOUS
  <2> DEFINE shown == [key |-> files["private"], vault |-> metadata.vault]
  <2>1. OneIsServed
    <3>1. served = {} \/ served = {shown}
      BY DEF StartInv, ServedIsStored
    <3>2. Cardinality({}) = 0 /\ Cardinality({shown}) = 1
      BY FS_EmptySet, FS_Singleton
    <3>3. QED
      BY <3>1, <3>2 DEF OneIsServed
  <2>2. TornOnlyBeforeService
    BY DEF StartInv, ServedIsStored, TornOnlyBeforeService, Whole
  <2>3. ListensWithItsPassword
    BY DEF StartInv, StartTypeOK, ListenerIsReady, ReadyAgrees, ListensWithItsPassword,
           Listening
  <2>4. QED
    BY <2>1, <2>2, <2>3 DEF ServedIsOne
<1>2. QED
  BY <1>1, StartInvariance, PTL

\* Who holds an identity holds the one of the directory for good: a file that was once
\* written to its end, and the vault and the password once set, are never changed by any
\* start (create_new; the transaction of storage initialize).
DirectoryIsForGood ==
  [][/\ \A f \in Files : Whole(f) => files'[f] = files[f]
     /\ metadata # NoMetadata => metadata' = metadata]_vars

\* No step of any start rewrites what the directory holds (identity.rs, initialize).
THEOREM DirectoryLasts == Spec => DirectoryIsForGood
<1> DEFINE lasts == /\ \A f \in Files : Whole(f) => files'[f] = files[f]
                    /\ metadata # NoMetadata => metadata' = metadata
<1>1. StartInv /\ [Next]_vars => [lasts]_vars
  <2> SUFFICES ASSUME StartInv, [Next]_vars PROVE lasts
    OBVIOUS
  <2>1. CASE UNCHANGED startVars
    BY <2>1 DEF startVars
  <2>2. ASSUME NEW p \in Processes, ProcessStep(p)
        PROVE  lasts
    BY <2>2, WrittenForGood
  <2>3. QED
    BY <2>1, <2>2, StepsOfProcesses
<1>2. QED
  BY <1>1, StartInvariance, PTL DEF Spec, DirectoryIsForGood

----------------------------------------------------------------------------
\* The limits of the logins.

Entry == [window : Nat, handshakes : Nat, failed : Nat, blocked : Nat, seen : Nat]

\* What is remembered of an address: a block is never longer than its failures make it, and
\* is over long before the address may be forgotten.
EntryIsSound(entry) ==
  /\ entry \in Entry
  /\ entry.failed <= MAX_FAILURES
  /\ entry.blocked > 0 =>
       /\ entry.failed > 0
       /\ entry.blocked <= Delay(entry.failed)
       /\ entry.seen + entry.blocked <= MAX_BACKOFF

\* The inductive invariant of the limiter.
LimiterInv ==
  /\ entries \in [DOMAIN entries -> Entry]
  /\ \A a \in DOMAIN entries : EntryIsSound(entries[a])

\* What a step may do to an entry without lifting its block: the block ends by the clock or
\* with the failures that it is for, or else does not become shorter.
KeepsBlock(before, after) ==
  after.failed >= before.failed /\ after.seen <= before.seen => after.blocked >= before.blocked

\* The smaller of two numbers.
LEMMA MinOfTwo ==
  ASSUME NEW n \in Nat, NEW m \in Nat
  PROVE  /\ Min({n, m}) \in {n, m}
         /\ Min({n, m}) <= n
         /\ Min({n, m}) <= m
BY DEF Min

\* The largest values of the counters are numbers, and no block is as long as an address is
\* remembered.
LEMMA LimitsTypes ==
  /\ MAX_FAILURES \in Nat /\ MAX_FAILURES > 0
  /\ MAX_BACKOFF \in Nat
  /\ RETENTION \in Nat
  /\ WINDOW \in Nat
  /\ MAX_BACKOFF < RETENTION
BY LimitsAssumption

\* One failure more never makes the delay shorter.
LEMMA DelayGrows ==
  ASSUME NEW failed \in Nat, failed <= MAX_FAILURES
  PROVE  LET next == Min({failed + 1, MAX_FAILURES})
         IN /\ next \in 1..MAX_FAILURES
            /\ failed <= next
            /\ Delay(next) \in Nat
            /\ Delay(next) <= MAX_BACKOFF
            /\ failed > 0 => Delay(failed) <= Delay(next)
<1> DEFINE next == Min({failed + 1, MAX_FAILURES})
<1>1. next \in 1..MAX_FAILURES /\ failed <= next /\ next <= failed + 1
  BY MinOfTwo, LimitsTypes
<1>2. 2^(next - 1) \in Nat
  BY <1>1, PowersAssumption, LimitsTypes
<1>3. Delay(next) \in Nat /\ Delay(next) <= MAX_BACKOFF /\ Delay(next) \in {2^(next - 1), MAX_BACKOFF}
  BY <1>2, MinOfTwo, LimitsTypes DEF Delay
<1>4. ASSUME failed > 0
      PROVE  Delay(failed) <= Delay(next)
  <2>1. 2^(failed - 1) \in Nat /\ 2^(failed - 1) <= 2^((failed - 1) + 1)
    BY <1>4, PowersAssumption, LimitsTypes
  <2>2. 2^(failed - 1) <= 2^(next - 1)
    <3>1. CASE next = failed
      BY <2>1, <3>1
    <3>2. CASE next = failed + 1
      <4>1. (failed - 1) + 1 = next - 1
        BY <3>2
      <4>2. QED
        BY <2>1, <4>1
    <3>3. QED
      BY <1>1, <3>1, <3>2
  <2>3. Delay(failed) <= 2^(failed - 1) /\ Delay(failed) <= MAX_BACKOFF
    BY <2>1, MinOfTwo, LimitsTypes DEF Delay
  <2>4. Delay(failed) \in Nat
    BY <2>1, MinOfTwo, LimitsTypes DEF Delay
  <2>5. QED
    BY <1>2, <1>3, <2>1, <2>2, <2>3, <2>4, LimitsTypes
<1>5. QED
  BY <1>1, <1>3, <1>4

\* Every step of the whole is one of the limiter or leaves it alone.
LEMMA StepsOfLimiter ==
  ASSUME [Next]_vars
  PROVE  \/ \E a \in Addresses : \E b \in BOOLEAN : Handshake(a, b)
         \/ \E a \in Addresses : \E b \in BOOLEAN : \E k \in DOMAIN sessions[a] :
              Authenticate(a, k, b)
         \/ Tick
         \/ Forgotten
         \/ UNCHANGED limitVars
<1>1. CASE UNCHANGED vars
  BY <1>1 DEF vars
<1>2. CASE \E p \in Processes : StartServer(p) \/ EndServer(p)
  BY <1>2 DEF StartServer, EndServer
<1>3. CASE \E a \in Addresses : \E b \in BOOLEAN : TryHandshake(a, b) \/ TryPassword(a, b)
  BY <1>3 DEF TryHandshake, TryPassword
<1>4. CASE KnockAgain \/ Enter \/ Time
  BY <1>4, LifeAssumption DEF KnockAgain, Enter, Time
<1>5. QED
  BY <1>1, <1>2, <1>3, <1>4 DEF Next

\* A handshake, refused or not, leaves its address with the failures and the block that it
\* had, or with none if it was not remembered any more.
LEMMA HandshakeEntries ==
  ASSUME LimiterInv, NEW a \in Addresses, NEW b \in BOOLEAN, Handshake(a, b)
  PROVE  /\ entries' \in [DOMAIN entries' -> Entry]
         /\ \A o \in DOMAIN entries' :
              \/ o \in DOMAIN entries /\ entries'[o] = entries[o]
              \/ /\ o \in DOMAIN entries
                 /\ entries'[o].failed = entries[o].failed
                 /\ entries'[o].blocked = entries[o].blocked
                 /\ entries'[o].seen = 0
              \/ /\ o \in DOMAIN entries => entries[o].seen >= RETENTION
                 /\ entries'[o].failed = 0
                 /\ entries'[o].blocked = 0
                 /\ entries'[o].seen = 0
<1> DEFINE kept == Retained
           last == IF a \in DOMAIN kept THEN kept[a] ELSE FirstSeen
           found == Seen(last)
           entry == InWindow(found)
<1>1. /\ DOMAIN kept \subseteq DOMAIN entries
      /\ \A o \in DOMAIN kept : kept[o] = entries[o] /\ entries[o] \in Entry
      /\ kept \in [DOMAIN kept -> Entry]
      /\ \A o \in DOMAIN entries \ DOMAIN kept : entries[o].seen >= RETENTION
  BY LimitsTypes DEF LimiterInv, Retained, Entry
<1>2. last \in Entry
  BY <1>1 DEF FirstSeen, Entry
<1>3. /\ found \in Entry /\ found.seen = 0
      /\ found.failed = last.failed /\ found.blocked = last.blocked
  BY <1>2 DEF Seen, Entry
<1>4. /\ entry \in Entry /\ entry.seen = 0
      /\ entry.failed = last.failed /\ entry.blocked = last.blocked
  BY <1>3 DEF InWindow, Entry
<1>5. \/ entries' = kept
      \/ \E new \in Entry :
           /\ entries' = With(kept, a, new)
           /\ new.seen = 0
           /\ new.failed = last.failed
           /\ new.blocked = last.blocked
  <2>1. /\ [entry EXCEPT !.handshakes = @ + 1] \in Entry
        /\ [entry EXCEPT !.handshakes = @ + 1].seen = 0
        /\ [entry EXCEPT !.handshakes = @ + 1].failed = last.failed
        /\ [entry EXCEPT !.handshakes = @ + 1].blocked = last.blocked
    BY <1>4 DEF Entry
  <2>2. \/ entries' = kept
        \/ entries' = With(kept, a, found)
        \/ entries' = With(kept, a, [entry EXCEPT !.handshakes = @ + 1])
        \/ entries' = With(kept, a, entry)
    BY DEF Handshake, AllowHandshake
  <2>3. QED
    BY <1>3, <1>4, <2>1, <2>2
<1>6. CASE entries' = kept
  BY <1>1, <1>6
<1>7. ASSUME NEW new \in Entry, entries' = With(kept, a, new), new.seen = 0,
             new.failed = last.failed, new.blocked = last.blocked
      PROVE  /\ entries' \in [DOMAIN entries' -> Entry]
             /\ \A o \in DOMAIN entries' :
                  \/ o \in DOMAIN entries /\ entries'[o] = entries[o]
                  \/ /\ o \in DOMAIN entries
                     /\ entries'[o].failed = entries[o].failed
                     /\ entries'[o].blocked = entries[o].blocked
                     /\ entries'[o].seen = 0
                  \/ /\ o \in DOMAIN entries => entries[o].seen >= RETENTION
                     /\ entries'[o].failed = 0
                     /\ entries'[o].blocked = 0
                     /\ entries'[o].seen = 0
  <2>1. /\ DOMAIN entries' = DOMAIN kept \cup {a}
        /\ \A o \in DOMAIN kept \cup {a} :
             entries'[o] = IF o = a THEN new ELSE kept[o]
    BY <1>7 DEF With
  <2>2. entries' \in [DOMAIN entries' -> Entry]
    BY <1>1, <1>7 DEF With
  <2>3. a \notin DOMAIN kept => last.failed = 0 /\ last.blocked = 0
    BY DEF FirstSeen
  <2>4. QED
    BY <1>1, <1>7, <2>1, <2>2, <2>3
<1>8. QED
  BY <1>5, <1>6, <1>7

\* A failed attempt counts one failure more and begins the block for it.
LEMMA FailureEntries ==
  ASSUME LimiterInv, NEW a \in Addresses, entries' = Failure(a)
  PROVE  /\ LimiterInv'
         /\ \A o \in DOMAIN entries : KeepsBlock(entries[o], entries'[o])
<1> DEFINE entry == IF a \in DOMAIN entries THEN entries[a] ELSE FirstSeen
           failed == Min({entry.failed + 1, MAX_FAILURES})
           new == [entry EXCEPT !.failed = failed, !.blocked = Delay(failed), !.seen = 0]
<1>1. EntryIsSound(entry)
  BY LimitsTypes DEF LimiterInv, EntryIsSound, FirstSeen, Entry
<1>2. entry \in Entry /\ entry.failed \in Nat /\ entry.failed <= MAX_FAILURES
  BY <1>1 DEF EntryIsSound, Entry
<1>3. /\ failed \in 1..MAX_FAILURES
      /\ entry.failed <= failed
      /\ Delay(failed) \in Nat
      /\ Delay(failed) <= MAX_BACKOFF
      /\ entry.failed > 0 => Delay(entry.failed) <= Delay(failed)
  BY <1>2, DelayGrows
<1>4. Delay(entry.failed) \in Nat \/ entry.failed = 0
  <2>1. CASE entry.failed > 0
    <3>1. 2^(entry.failed - 1) \in Nat
      BY <1>2, <2>1, PowersAssumption, LimitsTypes
    <3>2. QED
      BY <3>1, MinOfTwo, LimitsTypes DEF Delay
  <2>2. QED
    BY <1>2, <2>1
<1> HIDE DEF failed, entry
<1>5. /\ new \in Entry /\ new.failed = failed /\ new.blocked = Delay(failed) /\ new.seen = 0
  <2> DEFINE delay == Delay(failed)
  <2>1. delay \in Nat /\ failed \in Nat
    BY <1>3, LimitsTypes
  <2> HIDE DEF delay
  <2>2. LET changed == [entry EXCEPT !.failed = failed, !.blocked = delay, !.seen = 0]
        IN /\ changed \in Entry /\ changed.failed = failed
           /\ changed.blocked = delay /\ changed.seen = 0
    BY <1>2, <2>1 DEF Entry
  <2>3. QED
    BY <2>2 DEF delay
<1>6. EntryIsSound(new)
  BY <1>3, <1>5, LimitsTypes DEF EntryIsSound
<1>7. KeepsBlock(entry, new)
  <2>1. entry.blocked \in Nat
    BY <1>2 DEF Entry
  <2>2. entry.blocked > 0 => entry.failed > 0 /\ entry.blocked <= Delay(entry.failed)
    BY <1>1 DEF EntryIsSound
  <2>3. entry.blocked <= Delay(failed)
    BY <1>2, <1>3, <1>4, <2>1, <2>2
  <2>4. QED
    BY <1>5, <2>3 DEF KeepsBlock
<1>8. entries' = With(entries, a, new)
  BY DEF Failure, failed, entry
<1> HIDE DEF new
<1>9. /\ entries' \in [DOMAIN entries' -> Entry]
      /\ DOMAIN entries' = DOMAIN entries \cup {a}
      /\ \A o \in DOMAIN entries' : entries'[o] = IF o = a THEN new ELSE entries[o]
  BY <1>5, <1>8 DEF With, LimiterInv
<1>10. ASSUME NEW o \in DOMAIN entries
       PROVE  KeepsBlock(entries[o], entries'[o])
  <2>1. entries[o].blocked \in Nat
    BY DEF LimiterInv, Entry
  <2>2. CASE o = a
    BY <1>7, <1>9, <2>2 DEF entry
  <2>3. CASE o # a
    BY <1>9, <2>1, <2>3 DEF KeepsBlock
  <2>4. QED
    BY <2>2, <2>3
<1>11. QED
  BY <1>6, <1>9, <1>10 DEF LimiterInv

\* Every step keeps the invariant of the limiter, and every entry that outlives the step
\* keeps its block against failures.
LEMMA StepLimiter ==
  ASSUME LimiterInv, [Next]_vars
  PROVE  /\ LimiterInv'
         /\ \A o \in DOMAIN entries \cap DOMAIN entries' : KeepsBlock(entries[o], entries'[o])
<1>1. ASSUME NEW a \in Addresses, NEW b \in BOOLEAN, Handshake(a, b)
      PROVE  /\ LimiterInv'
             /\ \A o \in DOMAIN entries \cap DOMAIN entries' :
                  KeepsBlock(entries[o], entries'[o])
  <2>1. entries' \in [DOMAIN entries' -> Entry]
    BY <1>1, HandshakeEntries
  <2>2. ASSUME NEW o \in DOMAIN entries'
        PROVE  /\ EntryIsSound(entries'[o])
               /\ o \in DOMAIN entries => KeepsBlock(entries[o], entries'[o])
    <3>1. entries'[o] \in Entry /\ (o \in DOMAIN entries => EntryIsSound(entries[o]))
      BY <2>1 DEF LimiterInv
    <3>2. CASE o \in DOMAIN entries /\ entries'[o] = entries[o]
      BY <3>1, <3>2 DEF KeepsBlock, EntryIsSound, Entry
    <3>3. CASE /\ o \in DOMAIN entries
               /\ entries'[o].failed = entries[o].failed
               /\ entries'[o].blocked = entries[o].blocked
               /\ entries'[o].seen = 0
      BY <3>1, <3>3, LimitsTypes DEF KeepsBlock, EntryIsSound, Entry
    <3>4. CASE /\ o \in DOMAIN entries => entries[o].seen >= RETENTION
               /\ entries'[o].failed = 0
               /\ entries'[o].blocked = 0
               /\ entries'[o].seen = 0
      BY <3>1, <3>4, LimitsTypes DEF KeepsBlock, EntryIsSound, Entry
    <3>5. QED
      BY <1>1, <3>2, <3>3, <3>4, HandshakeEntries
  <2>3. QED
    BY <2>1, <2>2 DEF LimiterInv
<1>2. ASSUME NEW a \in Addresses, NEW b \in BOOLEAN, NEW k \in DOMAIN sessions[a],
             Authenticate(a, k, b)
      PROVE  /\ LimiterInv'
             /\ \A o \in DOMAIN entries \cap DOMAIN entries' :
                  KeepsBlock(entries[o], entries'[o])
  <2>1. CASE b
    <3>1. entries' = Success(a)
      BY <1>2, <2>1 DEF Authenticate
    <3>2. CASE a \notin DOMAIN entries
      BY <3>1, <3>2 DEF Success, LimiterInv, KeepsBlock, Entry
    <3>3. CASE a \in DOMAIN entries
      <4> DEFINE new == Cleared(entries[a])
      <4>1. /\ entries[a] \in Entry /\ EntryIsSound(entries[a])
            /\ new \in Entry /\ new.failed = 0 /\ new.blocked = 0 /\ new.seen = 0
        BY <3>3 DEF LimiterInv, Cleared, Entry
      <4>2. EntryIsSound(new) /\ KeepsBlock(entries[a], new)
        BY <4>1, LimitsTypes DEF EntryIsSound, KeepsBlock, Entry
      <4>3. entries' = With(entries, a, new)
        BY <3>1, <3>3 DEF Success
      <4> HIDE DEF new
      <4>4. /\ entries' \in [DOMAIN entries' -> Entry]
            /\ DOMAIN entries' = DOMAIN entries
            /\ \A o \in DOMAIN entries' : entries'[o] = IF o = a THEN new ELSE entries[o]
        BY <3>3, <4>1, <4>3 DEF With, LimiterInv
      <4>5. \A o \in DOMAIN entries : entries[o].blocked \in Nat
        BY DEF LimiterInv, Entry
      <4>6. QED
        BY <4>2, <4>4, <4>5 DEF LimiterInv, KeepsBlock
    <3>4. QED
      BY <3>2, <3>3
  <2>2. CASE ~b
    <3>1. entries' = Failure(a)
      BY <1>2, <2>2 DEF Authenticate
    <3>2. QED
      BY <3>1, FailureEntries
  <2>3. QED
    BY <2>1, <2>2
<1>3. CASE Tick
  <2>1. /\ DOMAIN entries' = DOMAIN entries
        /\ \A o \in DOMAIN entries :
             entries'[o] = [entries[o] EXCEPT !.window = Min({@ + 1, WINDOW}),
                                              !.blocked = IF @ = 0 THEN 0 ELSE @ - 1,
                                              !.seen = Min({@ + 1, RETENTION})]
        /\ entries' = [o \in DOMAIN entries |-> entries'[o]]
    BY <1>3 DEF Tick
  <2>2. ASSUME NEW o \in DOMAIN entries
        PROVE  /\ entries'[o] \in Entry
               /\ EntryIsSound(entries'[o])
               /\ KeepsBlock(entries[o], entries'[o])
    <3> DEFINE old == entries[o]
               new == entries'[o]
    <3>1. /\ EntryIsSound(old)
          /\ old \in Entry
          /\ old.window \in Nat /\ old.blocked \in Nat /\ old.seen \in Nat
          /\ old.failed \in Nat /\ old.handshakes \in Nat
      BY DEF LimiterInv, Entry
    <3> DEFINE window == Min({old.window + 1, WINDOW})
               seen == Min({old.seen + 1, RETENTION})
               blocked == IF old.blocked = 0 THEN 0 ELSE old.blocked - 1
    <3>2. /\ window \in Nat /\ blocked \in Nat
          /\ seen \in Nat /\ seen <= old.seen + 1 /\ seen \in {old.seen + 1, RETENTION}
      BY <3>1, MinOfTwo, LimitsTypes
    <3>3. new = [old EXCEPT !.window = window, !.blocked = blocked, !.seen = seen]
      BY <2>1
    <3> HIDE DEF window, seen
    <3>4. /\ new \in Entry
          /\ new.failed = old.failed
          /\ new.blocked = IF old.blocked = 0 THEN 0 ELSE old.blocked - 1
          /\ new.seen = seen
      BY <3>1, <3>2, <3>3 DEF Entry
    <3>5. old.failed > 0 => Delay(old.failed) \in Nat
      <4> SUFFICES ASSUME old.failed > 0 PROVE Delay(old.failed) \in Nat
        OBVIOUS
      <4>1. 2^(old.failed - 1) \in Nat
        BY <3>1, PowersAssumption, LimitsTypes DEF EntryIsSound
      <4>2. QED
        BY <4>1, MinOfTwo, LimitsTypes DEF Delay
    <3> HIDE DEF old, new
    <3>6. EntryIsSound(new)
      BY <3>1, <3>2, <3>4, <3>5, LimitsTypes DEF EntryIsSound
    <3>7. KeepsBlock(old, new)
      BY <3>1, <3>2, <3>4, LimitsTypes DEF EntryIsSound, KeepsBlock
    <3>8. QED
      BY <3>4, <3>6, <3>7 DEF old, new
  <2>3. QED
    BY <2>1, <2>2 DEF LimiterInv
<1>4. CASE Forgotten
  BY <1>4 DEF Forgotten, LimiterInv
<1>5. CASE UNCHANGED limitVars
  BY <1>5 DEF limitVars, LimiterInv, KeepsBlock, Entry
<1>6. QED
  BY <1>1, <1>2, <1>3, <1>4, <1>5, StepsOfLimiter

\* A block ends by the clock, by a restart or by a right password, never by one more failure
\* that comes from a session opened before it (rate_limit.rs:64).
THEOREM BlocksOutlastFailures == Spec => FailuresKeepTheBlock
<1> DEFINE keeps == \A o \in DOMAIN entries \cap DOMAIN entries' :
                      KeepsBlock(entries[o], entries'[o])
<1>1. Init => LimiterInv
  BY DEF Init, LimitsInit, LimiterInv
<1>2. LimiterInv /\ [Next]_vars => LimiterInv' /\ [keeps]_limitVars
  BY StepLimiter
<1>3. keeps => \A a \in DOMAIN entries \cap DOMAIN entries' :
                 entries'[a].failed >= entries[a].failed /\ entries'[a].seen <= entries[a].seen =>
                   entries'[a].blocked >= entries[a].blocked
  BY DEF KeepsBlock
<1>4. QED
  BY <1>1, <1>2, <1>3, PTL DEF Spec, FailuresKeepTheBlock

----------------------------------------------------------------------------
\* The limits of the tables, and what they do to the sessions.

Session == [left : Nat, admitted : BOOLEAN]

\* How long ago a session was opened.
Age(session) == SESSION_LIFETIME - session.left

\* The sessions of an address, the oldest first.
Line(s) ==
  /\ s \in Seq(Session)
  /\ \A k \in DOMAIN s : s[k].left <= SESSION_LIFETIME
  /\ \A i, j \in DOMAIN s : i <= j => s[i].left <= s[j].left

SessionsOK ==
  /\ sessions = [a \in Addresses |-> sessions[a]]
  /\ \A a \in Addresses : Line(sessions[a])

\* What is remembered of an address with regard to its handshakes.
Budgeted(entry) ==
  /\ entry.window <= WINDOW
  /\ entry.handshakes \in 1..MAX_HANDSHAKES_PER_WINDOW

\* Sessions s are as many as the limiter has let an address open: beside those that it has
\* counted in this window there are no more than the windows before it allowed, and the first
\* of a window is as old as the window.
Counted(s, entry) ==
  \A k \in DOMAIN s : IsLive(s[k]) =>
    /\ entry.seen <= Age(s[k])
    /\ \A n \in Nat :
         (Len(s) - k + 1) - entry.handshakes >= n * MAX_HANDSHAKES_PER_WINDOW =>
           Age(s[k]) >= entry.window + n * WINDOW

\* Nobody has a session who is not remembered.
AllCounted ==
  \A a \in Addresses :
    IF a \in DOMAIN entries
    THEN Counted(sessions[a], entries[a])
    ELSE \A k \in DOMAIN sessions[a] : ~IsLive(sessions[a][k])

Slots == UNION {{a} \X DOMAIN Live(a) : a \in Addresses}

TablesOK ==
  /\ DOMAIN entries \subseteq Addresses
  /\ IsFiniteSet(DOMAIN entries)
  /\ Cardinality(DOMAIN entries) <= MAX_TRACKED_ADDRESSES
  /\ \A a \in DOMAIN entries : Budgeted(entries[a])
  /\ IsFiniteSet(Slots)
  /\ Cardinality(Slots) <= MAX_SESSIONS

\* The numbers of the keys that there are have been given out.
Numbered ==
  /\ \A f \in Files : files[f] <= generated
  /\ \A p \in Processes : processes[p].key <= generated

\* The inductive invariant of the limits.
LimitsInv == LimiterInv /\ SessionsOK /\ AllCounted /\ TablesOK

\* A set of numbers has a least one.
LEMMA LeastNumber ==
  ASSUME NEW T, T \subseteq Nat, T # {}
  PROVE  \E n \in T : \A m \in T : n <= m
<1> DEFINE R == {p \in Nat \X Nat : p[1] < p[2]}
<1>1. R = OpToRel(<, Nat)
  BY DEF OpToRel
<1>2. IsWellFoundedOn(R, Nat)
  BY <1>1, NatLessThanWellFounded
<1>3. \A m, n \in Nat : m < n => <<m, n>> \in R
  OBVIOUS
<1> HIDE DEF R
<1>4. PICK n \in T : \A m \in T : ~(<<m, n>> \in R)
  BY <1>2, WFMin
<1>5. ASSUME NEW m \in T
      PROVE  n <= m
  <2>1. m \in Nat /\ n \in Nat /\ ~(m < n)
    BY <1>3, <1>4
  <2>2. QED
    BY <2>1
<1>6. QED
  BY <1>5

\* The minimum of a set of numbers is the least of them.
LEMMA MinOfNumbers ==
  ASSUME NEW T, T \subseteq Nat, T # {}
  PROVE  Min(T) \in T /\ \A m \in T : Min(T) <= m
BY LeastNumber DEF Min

\* The limits are numbers.
LEMMA LimitsNumbers ==
  /\ SESSION_LIFETIME \in Nat /\ SESSION_LIFETIME > 0
  /\ MAX_HANDSHAKES_PER_WINDOW \in Nat /\ MAX_HANDSHAKES_PER_WINDOW > 0
  /\ WINDOW \in Nat /\ WINDOW > 0
  /\ MAX_SESSIONS \in Nat /\ MAX_TRACKED_ADDRESSES \in Nat
BY LimitsAssumption

\* So many windows, and the handshakes of so many windows, are numbers.
LEMMA Products ==
  ASSUME NEW n \in Nat
  PROVE  n * MAX_HANDSHAKES_PER_WINDOW \in Nat /\ n * WINDOW \in Nat
BY LimitsNumbers

\* The parts of a sequence of sessions.
LEMMA SequenceFacts ==
  ASSUME NEW s, Line(s)
  PROVE  /\ s \in Seq(Session)
         /\ Len(s) \in Nat
         /\ DOMAIN s = 1..Len(s)
         /\ \A k \in DOMAIN s : s[k] \in Session /\ s[k].left \in 0..SESSION_LIFETIME
<1>1. s \in [1..Len(s) -> Session] /\ Len(s) \in Nat /\ DOMAIN s = 1..Len(s)
  BY LenProperties DEF Line
<1>2. QED
  BY <1>1, LimitsNumbers DEF Session, Line

\* The sessions that live are the last of a sequence.
LEMMA UnexpiredFacts ==
  ASSUME NEW s, Line(s)
  PROVE  LET u == Unexpired(s)
         IN /\ u \in Seq(Session)
            /\ Len(s) \in Nat /\ Len(u) \in Nat /\ Len(u) <= Len(s)
            /\ DOMAIN s = 1..Len(s) /\ DOMAIN u = 1..Len(u)
            /\ \A k \in DOMAIN s : s[k].left \in Nat
            /\ \A k \in DOMAIN s : IsLive(s[k]) <=> k > Len(s) - Len(u)
            /\ \A k \in DOMAIN u : u[k] = s[Len(s) - Len(u) + k]
<1> DEFINE T == {k \in DOMAIN s : IsLive(s[k])} \cup {Len(s) + 1}
           u == Unexpired(s)
<1>1. /\ Len(s) \in Nat /\ DOMAIN s = 1..Len(s)
      /\ \A k \in DOMAIN s : s[k] \in Session /\ s[k].left \in Nat
  BY SequenceFacts
<1>2. T \subseteq Nat /\ T # {}
  BY <1>1
<1> HIDE DEF T
<1>3. PICK n : n = Min(T)
  OBVIOUS
<1>4. n \in T /\ \A m \in T : n <= m
  BY <1>2, <1>3, MinOfNumbers
<1>5. n \in 1..(Len(s) + 1)
  BY <1>1, <1>4 DEF T
<1>6. u = SubSeq(s, n, Len(s))
  BY <1>3 DEF Unexpired, T
<1>7. /\ u \in Seq(Session)
      /\ Len(u) = IF n <= Len(s) THEN Len(s) - n + 1 ELSE 0
      /\ \A i \in 1..(Len(s) - n + 1) : u[i] = s[n + i - 1]
  <2>1. n \in Int /\ Len(s) \in Int /\ \A i \in n..Len(s) : s[i] \in Session
    BY <1>1, <1>5
  <2>2. QED
    BY <1>6, <2>1, SubSeqProperties
<1> HIDE DEF u
<1>8. Len(u) = Len(s) - n + 1 /\ Len(s) - Len(u) = n - 1
  BY <1>1, <1>5, <1>7
<1>9. DOMAIN u = 1..Len(u) /\ Len(u) \in Nat /\ Len(u) <= Len(s)
  BY <1>1, <1>5, <1>7, <1>8, LenProperties
<1>10. ASSUME NEW k \in DOMAIN s
       PROVE  IsLive(s[k]) <=> k >= n
  <2>1. IsLive(s[k]) => k >= n
    BY <1>4 DEF T
  <2>2. ASSUME k >= n
        PROVE  IsLive(s[k])
    <3>1. n \in DOMAIN s /\ IsLive(s[n])
      BY <1>1, <1>4, <1>5, <2>2 DEF T
    <3>2. s[n].left <= s[k].left
      BY <2>2, <3>1 DEF Line
    <3>3. QED
      BY <1>1, <3>1, <3>2 DEF IsLive
  <2>3. QED
    BY <2>1, <2>2
<1>11. ASSUME NEW k \in DOMAIN u
       PROVE  u[k] = s[Len(s) - Len(u) + k]
  <2>1. k \in 1..(Len(s) - n + 1)
    BY <1>8, <1>9
  <2>2. n + k - 1 = Len(s) - Len(u) + k
    BY <1>1, <1>5, <1>8, <2>1
  <2>3. QED
    BY <1>7, <2>1, <2>2
<1>12. QED
  BY <1>1, <1>5, <1>7, <1>8, <1>9, <1>10, <1>11 DEF u

\* Sequence t has the sessions of s, or fewer of them, after a time.
Remains(s, t, time) ==
  \A k \in DOMAIN t : IsLive(t[k]) =>
    \E j \in DOMAIN s : s[j].left = t[k].left + time /\ Len(s) - j >= Len(t) - k

\* Of fewer sessions fewer live.
LEMMA RemainsLive ==
  ASSUME NEW s, NEW t, Line(s), Line(t), NEW time \in Nat, Remains(s, t, time)
  PROVE  DOMAIN Unexpired(t) \subseteq DOMAIN Unexpired(s)
<1> DEFINE u == Unexpired(s)
           v == Unexpired(t)
<1>1. /\ Len(s) \in Nat /\ Len(u) \in Nat /\ Len(u) <= Len(s)
      /\ DOMAIN s = 1..Len(s) /\ DOMAIN u = 1..Len(u)
      /\ \A k \in DOMAIN s : s[k].left \in Nat
      /\ \A k \in DOMAIN s : IsLive(s[k]) <=> k > Len(s) - Len(u)
  BY UnexpiredFacts
<1>2. /\ Len(t) \in Nat /\ Len(v) \in Nat /\ Len(v) <= Len(t)
      /\ DOMAIN t = 1..Len(t) /\ DOMAIN v = 1..Len(v)
      /\ \A k \in DOMAIN t : t[k].left \in Nat
      /\ \A k \in DOMAIN t : IsLive(t[k]) <=> k > Len(t) - Len(v)
  BY UnexpiredFacts
<1> HIDE DEF u, v
<1>3. ASSUME Len(v) > 0
      PROVE  Len(v) <= Len(u)
  <2> DEFINE k == Len(t) - Len(v) + 1
  <2>1. k \in DOMAIN t /\ IsLive(t[k])
    BY <1>2, <1>3
  <2>2. PICK j \in DOMAIN s : s[j].left = t[k].left + time /\ Len(s) - j >= Len(t) - k
    BY <2>1 DEF Remains
  <2>3. IsLive(s[j])
    <3>1. s[j].left \in Nat /\ t[k].left \in Nat /\ t[k].left > 0
      BY <1>1, <1>2, <2>1, <2>2 DEF IsLive
    <3>2. s[j].left > 0
      BY <2>2, <3>1
    <3>3. QED
      BY <3>2 DEF IsLive
  <2>4. QED
    BY <1>1, <1>2, <2>2, <2>3
<1>4. QED
  BY <1>1, <1>2, <1>3 DEF u, v

\* What was counted when there were more sessions suffices for fewer.
LEMMA RemainsCounted ==
  ASSUME NEW s, NEW t, Line(s), Line(t), NEW time \in Nat, Remains(s, t, time),
         NEW old \in Entry, NEW new \in Entry, Counted(s, old),
         new.seen <= old.seen + time,
         new.window <= old.window + time,
         new.handshakes >= old.handshakes
  PROVE  Counted(t, new)
<1>1. ASSUME NEW k \in DOMAIN t, IsLive(t[k])
      PROVE  /\ new.seen <= Age(t[k])
             /\ \A n \in Nat :
                  (Len(t) - k + 1) - new.handshakes >= n * MAX_HANDSHAKES_PER_WINDOW =>
                    Age(t[k]) >= new.window + n * WINDOW
  <2>1. PICK j \in DOMAIN s : s[j].left = t[k].left + time /\ Len(s) - j >= Len(t) - k
    BY <1>1 DEF Remains
  <2>2. /\ s[j].left \in Nat /\ t[k].left \in Nat
        /\ j \in Nat /\ k \in Nat /\ Len(s) \in Nat /\ Len(t) \in Nat
    BY SequenceFacts
  <2>3. /\ old.seen \in Nat /\ old.window \in Nat /\ old.handshakes \in Nat
        /\ new.seen \in Nat /\ new.window \in Nat /\ new.handshakes \in Nat
    BY DEF Entry
  <2>4. IsLive(s[j])
    BY <1>1, <2>1, <2>2 DEF IsLive
  <2>5. /\ old.seen <= Age(s[j])
        /\ \A n \in Nat :
             (Len(s) - j + 1) - old.handshakes >= n * MAX_HANDSHAKES_PER_WINDOW =>
               Age(s[j]) >= old.window + n * WINDOW
    BY <2>4 DEF Counted
  <2> DEFINE p == Len(s) - j
             q == Len(t) - k
             age == Age(s[j])
  <2>6. /\ p \in Int /\ q \in Int /\ p >= q
        /\ age \in Int /\ Age(t[k]) = age + time
    <3>1. age = SESSION_LIFETIME - s[j].left /\ Age(t[k]) = SESSION_LIFETIME - t[k].left
      BY DEF Age
    <3>2. p \in Int /\ q \in Int /\ p >= q
      BY <2>1, <2>2
    <3> HIDE DEF age, p, q
    <3> DEFINE x == s[j].left
               y == t[k].left
    <3>3. x \in Nat /\ y \in Nat /\ x = y + time
      BY <2>1, <2>2
    <3>4. age = SESSION_LIFETIME - x /\ Age(t[k]) = SESSION_LIFETIME - y
      BY <3>1
    <3> HIDE DEF x, y
    <3>5. age \in Int /\ Age(t[k]) = age + time
      BY <3>3, <3>4, LimitsNumbers
    <3>6. QED
      BY <3>2, <3>5
  <2> HIDE DEF age
  <2>7. ASSUME NEW n \in Nat,
               (Len(t) - k + 1) - new.handshakes >= n * MAX_HANDSHAKES_PER_WINDOW
        PROVE  age + time >= new.window + n * WINDOW
    <3> DEFINE a == n * MAX_HANDSHAKES_PER_WINDOW
               b == n * WINDOW
    <3>1. a \in Nat /\ b \in Nat
      BY Products
    <3>2. (q + 1) - new.handshakes >= a
      BY <2>7
    <3>3. (p + 1) - old.handshakes >= a => age >= old.window + b
      BY <2>5 DEF age
    <3> HIDE DEF a, b, p, q
    <3>4. (p + 1) - old.handshakes >= a
      BY <2>3, <2>6, <3>1, <3>2
    <3>5. age + time >= new.window + b
      BY <2>3, <2>6, <3>1, <3>3, <3>4
    <3>6. QED
      BY <3>5 DEF b
  <2>8. new.seen <= age + time
    <3>1. old.seen <= age
      BY <2>5 DEF age
    <3>2. new.seen <= old.seen + time
      OBVIOUS
    <3> DEFINE m == old.seen
               n == new.seen
    <3>3. m \in Nat /\ n \in Nat /\ m <= age /\ n <= m + time
      BY <2>3, <3>1, <3>2
    <3> HIDE DEF m, n
    <3>4. n <= age + time
      BY <2>6, <3>3
    <3>5. QED
      BY <3>4 DEF n
  <2>9. QED
    BY <2>6, <2>7, <2>8
<1>2. QED
  BY <1>1 DEF Counted

\* When the sessions that are over are dropped, those that live remain.
LEMMA UnexpiredLine ==
  ASSUME NEW s, Line(s)
  PROVE  LET u == Unexpired(s)
         IN /\ Line(u)
            /\ Remains(s, u, 0)
            /\ DOMAIN Unexpired(u) = DOMAIN u
<1> DEFINE u == Unexpired(s)
<1>1. /\ u \in Seq(Session)
      /\ Len(s) \in Nat /\ Len(u) \in Nat /\ Len(u) <= Len(s)
      /\ DOMAIN s = 1..Len(s) /\ DOMAIN u = 1..Len(u)
      /\ \A k \in DOMAIN s : s[k].left \in Nat
      /\ \A k \in DOMAIN s : IsLive(s[k]) <=> k > Len(s) - Len(u)
      /\ \A k \in DOMAIN u : u[k] = s[Len(s) - Len(u) + k]
  BY UnexpiredFacts
<1> HIDE DEF u
<1>2. ASSUME NEW k \in DOMAIN u
      PROVE  /\ Len(s) - Len(u) + k \in DOMAIN s
             /\ Len(s) - (Len(s) - Len(u) + k) = Len(u) - k
             /\ IsLive(s[Len(s) - Len(u) + k])
  BY <1>1
<1>3. Line(u)
  <2>1. ASSUME NEW k \in DOMAIN u
        PROVE  u[k].left <= SESSION_LIFETIME
    <3> DEFINE j == Len(s) - Len(u) + k
    <3>1. j \in DOMAIN s /\ u[k] = s[j]
      BY <1>1, <1>2
    <3>2. QED
      BY <3>1, SequenceFacts, LimitsNumbers
  <2>2. ASSUME NEW i \in DOMAIN u, NEW k \in DOMAIN u, i <= k
        PROVE  u[i].left <= u[k].left
    <3> DEFINE g == Len(s) - Len(u) + i
               j == Len(s) - Len(u) + k
    <3>1. /\ g \in DOMAIN s /\ u[i] = s[g]
          /\ j \in DOMAIN s /\ u[k] = s[j]
      BY <1>1, <1>2
    <3>2. g <= j
      BY <1>1, <2>2
    <3> HIDE DEF g, j
    <3>3. QED
      BY <3>1, <3>2 DEF Line
  <2>3. QED
    BY <1>1, <2>1, <2>2 DEF Line
<1>4. Remains(s, u, 0)
  <2>1. ASSUME NEW k \in DOMAIN u
        PROVE  \E j \in DOMAIN s : s[j].left = u[k].left + 0 /\ Len(s) - j >= Len(u) - k
    <3> DEFINE j == Len(s) - Len(u) + k
    <3>1. /\ j \in DOMAIN s /\ u[k] = s[j] /\ s[j].left \in Nat
          /\ Len(s) - j = Len(u) - k /\ Len(u) - k \in Int
      BY <1>1, <1>2
    <3> HIDE DEF j
    <3>2. s[j].left = u[k].left + 0 /\ Len(s) - j >= Len(u) - k
      BY <3>1
    <3>3. QED
      BY <3>1, <3>2
  <2>2. QED
    BY <2>1 DEF Remains
<1>5. DOMAIN Unexpired(u) = DOMAIN u
  <2> DEFINE v == Unexpired(u)
  <2>1. /\ Len(v) \in Nat /\ Len(v) <= Len(u) /\ DOMAIN v = 1..Len(v)
        /\ \A k \in DOMAIN u : IsLive(u[k]) <=> k > Len(u) - Len(v)
    BY <1>3, UnexpiredFacts
  <2> HIDE DEF v
  <2> DEFINE m == Len(u)
             n == Len(v)
  <2>2. m \in Nat /\ n \in Nat /\ n <= m
    BY <1>1, <2>1
  <2>3. ASSUME m > 0
        PROVE  1 > m - n
    <3>1. 1 \in DOMAIN u /\ IsLive(u[1])
      BY <1>1, <1>2, <2>3
    <3>2. QED
      BY <2>1, <3>1
  <2> HIDE DEF m, n
  <2>4. n = m
    BY <2>2, <2>3
  <2>5. QED
    BY <1>1, <2>1, <2>4 DEF v, m, n
<1>6. QED
  BY <1>3, <1>4, <1>5 DEF u

\* The sessions of an address that opens one more.
Opened(s) == Append(Unexpired(s), [left |-> SESSION_LIFETIME, admitted |-> FALSE])

\* The session that is opened is the last, the others live still.
LEMMA OpenedLine ==
  ASSUME NEW s, Line(s)
  PROVE  LET u == Unexpired(s)
             t == Opened(s)
         IN /\ Line(t)
            /\ Len(t) = Len(u) + 1
            /\ DOMAIN Unexpired(t) = DOMAIN u \cup {Len(u) + 1}
            /\ t[Len(t)].left = SESSION_LIFETIME
            /\ \A k \in DOMAIN t : k # Len(t) => k \in DOMAIN u /\ t[k] = u[k]
<1> DEFINE u == Unexpired(s)
           new == [left |-> SESSION_LIFETIME, admitted |-> FALSE]
           t == Append(u, new)
<1>1. Line(u) /\ DOMAIN Unexpired(u) = DOMAIN u
  BY UnexpiredLine
<1> HIDE DEF u
<1>2. /\ u \in Seq(Session) /\ Len(u) \in Nat /\ DOMAIN u = 1..Len(u)
      /\ \A k \in DOMAIN u : u[k] \in Session /\ u[k].left \in 0..SESSION_LIFETIME
  BY <1>1, SequenceFacts
<1>3. new \in Session /\ new.left = SESSION_LIFETIME
  BY LimitsNumbers DEF Session
<1> HIDE DEF new
<1>4. /\ t \in Seq(Session) /\ Len(t) = Len(u) + 1
      /\ \A k \in 1..Len(u) : t[k] = u[k]
      /\ t[Len(u) + 1] = new
  BY <1>2, <1>3, AppendProperties
<1> HIDE DEF t
<1>5. DOMAIN t = 1..(Len(u) + 1)
  BY <1>4, LenProperties
<1>6. ASSUME NEW k \in DOMAIN t
      PROVE  IF k = Len(t) THEN t[k] = new ELSE k \in DOMAIN u /\ t[k] = u[k]
  BY <1>2, <1>4, <1>5
<1>7. Line(t)
  <2>1. \A k \in DOMAIN t : t[k].left \in 0..SESSION_LIFETIME
    BY <1>2, <1>3, <1>6, LimitsNumbers
  <2>2. ASSUME NEW i \in DOMAIN t, NEW k \in DOMAIN t, i <= k
        PROVE  t[i].left <= t[k].left
    <3>1. CASE k = Len(t)
      BY <1>3, <1>6, <2>1, <3>1, LimitsNumbers
    <3>2. CASE k # Len(t)
      <4>1. i # Len(t)
        BY <1>2, <1>4, <1>5, <2>2, <3>2
      <4>2. i \in DOMAIN u /\ k \in DOMAIN u /\ t[i] = u[i] /\ t[k] = u[k]
        BY <1>6, <3>2, <4>1
      <4>3. QED
        BY <1>1, <2>2, <4>2 DEF Line
    <3>3. QED
      BY <3>1, <3>2
  <2>3. QED
    BY <1>4, <2>1, <2>2, LimitsNumbers DEF Line
<1>8. DOMAIN Unexpired(t) = DOMAIN u \cup {Len(u) + 1}
  <2> DEFINE v == Unexpired(t)
  <2>1. /\ Len(v) \in Nat /\ Len(v) <= Len(t) /\ DOMAIN v = 1..Len(v)
        /\ \A k \in DOMAIN t : IsLive(t[k]) <=> k > Len(t) - Len(v)
    BY <1>7, UnexpiredFacts
  <2>2. /\ Len(Unexpired(u)) \in Nat /\ Len(Unexpired(u)) <= Len(u)
        /\ DOMAIN Unexpired(u) = 1..Len(Unexpired(u))
        /\ \A k \in DOMAIN u : IsLive(u[k]) <=> k > Len(u) - Len(Unexpired(u))
    BY <1>1, UnexpiredFacts
  <2> HIDE DEF v
  <2>3. ASSUME NEW k \in DOMAIN u
        PROVE  IsLive(u[k])
    <3> DEFINE m == Len(u)
               n == Len(Unexpired(u))
    <3>1. m \in Nat /\ n \in Nat /\ k \in 1..m /\ 1..n = 1..m
      BY <1>1, <1>2, <2>2
    <3>2. IsLive(u[k]) <=> k > m - n
      BY <2>2
    <3> HIDE DEF m, n
    <3>3. k > m - n
      BY <3>1
    <3>4. QED
      BY <3>2, <3>3
  <2>4. 1 \in DOMAIN t /\ IsLive(t[1])
    <3>1. 1 \in DOMAIN t
      BY <1>2, <1>5
    <3>2. IsLive(new)
      BY <1>3, LimitsNumbers DEF IsLive
    <3>3. QED
      BY <1>6, <2>3, <3>1, <3>2
  <2>5. 1 > Len(t) - Len(v)
    BY <2>1, <2>4
  <2>6. Len(v) = Len(u) + 1
    <3> DEFINE m == Len(u)
               n == Len(v)
    <3>1. m \in Nat /\ n \in Nat /\ n <= m + 1 /\ 1 > (m + 1) - n
      BY <1>2, <1>4, <2>1, <2>5
    <3> HIDE DEF m, n
    <3>2. n = m + 1
      BY <3>1
    <3>3. QED
      BY <3>2 DEF m, n
  <2>7. QED
    BY <1>2, <2>1, <2>6 DEF v
<1>9. QED
  BY <1>3, <1>4, <1>6, <1>7, <1>8 DEF Opened, t, u, new

\* A sequence without one of its elements.
LEMMA RemoveAtElements ==
  ASSUME NEW S, NEW s \in Seq(S), NEW k \in DOMAIN s
  PROVE  LET t == RemoveAt(s, k)
         IN /\ t \in Seq(S)
            /\ Len(s) \in Nat /\ Len(t) = Len(s) - 1
            /\ DOMAIN s = 1..Len(s) /\ DOMAIN t = 1..(Len(s) - 1)
            /\ \A i \in DOMAIN t : t[i] = s[IF i < k THEN i ELSE i + 1]
<1> DEFINE before == SubSeq(s, 1, k - 1)
           after == SubSeq(s, k + 1, Len(s))
           t == before \o after
<1>1. Len(s) \in Nat /\ DOMAIN s = 1..Len(s) /\ k \in 1..Len(s)
  BY LenProperties
<1>2. \A i \in 1..Len(s) : s[i] \in S
  BY ElementOfSeq
<1>3. /\ before \in Seq(S)
      /\ Len(before) = k - 1
      /\ \A i \in 1..(k - 1) : before[i] = s[i]
  <2>1. k - 1 \in Int /\ 1 \in Int /\ \A i \in 1..(k - 1) : s[i] \in S
    BY <1>1, <1>2
  <2>2. /\ before \in Seq(S)
        /\ Len(before) = IF 1 <= k - 1 THEN (k - 1) - 1 + 1 ELSE 0
        /\ \A i \in 1..((k - 1) - 1 + 1) : before[i] = s[1 + i - 1]
    BY <2>1, SubSeqProperties
  <2>3. QED
    BY <1>1, <2>2
<1>4. /\ after \in Seq(S)
      /\ Len(after) = Len(s) - k
      /\ \A i \in 1..(Len(s) - k) : after[i] = s[k + i]
  <2>1. k + 1 \in Int /\ Len(s) \in Int /\ \A i \in (k + 1)..Len(s) : s[i] \in S
    BY <1>1, <1>2
  <2>2. /\ after \in Seq(S)
        /\ Len(after) = IF k + 1 <= Len(s) THEN Len(s) - (k + 1) + 1 ELSE 0
        /\ \A i \in 1..(Len(s) - (k + 1) + 1) : after[i] = s[(k + 1) + i - 1]
    BY <2>1, SubSeqProperties
  <2>3. QED
    BY <1>1, <2>2
<1> HIDE DEF before, after
<1>5. /\ t \in Seq(S)
      /\ Len(t) = Len(before) + Len(after)
      /\ \A i \in 1..(Len(before) + Len(after)) :
           t[i] = IF i <= Len(before) THEN before[i] ELSE after[i - Len(before)]
  BY <1>3, <1>4, ConcatProperties
<1>6. RemoveAt(s, k) = t
  BY DEF RemoveAt, before, after
<1> HIDE DEF t
<1>7. Len(t) = Len(s) - 1 /\ DOMAIN t = 1..(Len(s) - 1)
  <2>1. Len(t) = Len(s) - 1
    BY <1>1, <1>3, <1>4, <1>5
  <2>2. DOMAIN t = 1..Len(t)
    BY <1>5, LenProperties
  <2>3. QED
    BY <2>1, <2>2
<1>8. ASSUME NEW i \in DOMAIN t
      PROVE  t[i] = s[IF i < k THEN i ELSE i + 1]
  <2>1. /\ i \in 1..(Len(s) - 1)
        /\ t[i] = IF i <= k - 1 THEN before[i] ELSE after[i - (k - 1)]
    BY <1>1, <1>3, <1>4, <1>5, <1>7
  <2>2. CASE i <= k - 1
    <3>1. i < k /\ i \in 1..(k - 1)
      BY <1>1, <2>1, <2>2
    <3>2. QED
      BY <1>3, <2>1, <2>2, <3>1
  <2>3. CASE ~(i <= k - 1)
    <3>1. i - (k - 1) \in 1..(Len(s) - k) /\ k + (i - (k - 1)) = i + 1 /\ ~(i < k)
      BY <1>1, <2>1, <2>3
    <3>2. QED
      BY <1>4, <2>1, <2>3, <3>1
  <2>4. QED
    BY <2>2, <2>3
<1>9. QED
  BY <1>1, <1>5, <1>6, <1>7, <1>8

\* A session that is closed.
LEMMA RemovedLine ==
  ASSUME NEW s, Line(s), NEW k \in DOMAIN s
  PROVE  LET t == RemoveAt(s, k) IN Line(t) /\ Remains(s, t, 0)
<1> DEFINE t == RemoveAt(s, k)
           From(i) == IF i < k THEN i ELSE i + 1
<1>1. /\ s \in Seq(Session)
      /\ \A i \in DOMAIN s : s[i] \in Session /\ s[i].left \in 0..SESSION_LIFETIME
  BY SequenceFacts
<1>2. /\ t \in Seq(Session)
      /\ Len(s) \in Nat /\ Len(t) = Len(s) - 1
      /\ DOMAIN s = 1..Len(s) /\ DOMAIN t = 1..(Len(s) - 1)
      /\ \A i \in DOMAIN t : t[i] = s[From(i)]
  BY <1>1, RemoveAtElements
<1> HIDE DEF t
<1>3. ASSUME NEW i \in DOMAIN t
      PROVE  /\ From(i) \in DOMAIN s
             /\ Len(s) - From(i) >= Len(t) - i
             /\ \A j \in DOMAIN t : i <= j => From(i) <= From(j)
  BY <1>2
<1> HIDE DEF From
<1>4. Line(t)
  <2>1. \A i \in DOMAIN t : t[i].left <= SESSION_LIFETIME
    BY <1>1, <1>2, <1>3, LimitsNumbers
  <2>2. \A i, j \in DOMAIN t : i <= j => t[i].left <= t[j].left
    BY <1>2, <1>3 DEF Line
  <2>3. QED
    BY <1>2, <2>1, <2>2 DEF Line
<1>5. Remains(s, t, 0)
  <2>1. \A i \in DOMAIN t : s[From(i)].left = t[i].left + 0
    BY <1>1, <1>2, <1>3
  <2>2. QED
    BY <1>3, <2>1 DEF Remains
<1>6. QED
  BY <1>4, <1>5 DEF t

\* A session that is admitted.
LEMMA AdmittedLine ==
  ASSUME NEW s, Line(s), NEW k \in DOMAIN s
  PROVE  LET t == [s EXCEPT ![k].admitted = TRUE] IN Line(t) /\ Remains(s, t, 0)
<1> DEFINE t == [s EXCEPT ![k].admitted = TRUE]
           new == [s[k] EXCEPT !.admitted = TRUE]
<1>1. /\ s \in Seq(Session) /\ Len(s) \in Nat /\ DOMAIN s = 1..Len(s)
      /\ \A i \in DOMAIN s : s[i] \in Session /\ s[i].left \in 0..SESSION_LIFETIME
  BY SequenceFacts
<1>2. new \in Session /\ new.left = s[k].left
  BY <1>1 DEF Session
<1>3. t = [s EXCEPT ![k] = new]
  OBVIOUS
<1> HIDE DEF new, t
<1>4. /\ t \in Seq(Session) /\ Len(t) = Len(s)
      /\ \A i \in 1..Len(s) : t[i] = IF i = k THEN new ELSE s[i]
  BY <1>1, <1>2, <1>3, ExceptSeq
<1>5. DOMAIN t = 1..Len(s)
  BY <1>4, LenProperties
<1>6. \A i \in DOMAIN t : i \in DOMAIN s /\ t[i].left = s[i].left
  BY <1>1, <1>2, <1>4, <1>5
<1>7. Line(t)
  BY <1>4, <1>6 DEF Line
<1>8. Remains(s, t, 0)
  <2>1. ASSUME NEW i \in DOMAIN t
        PROVE  \E j \in DOMAIN s : s[j].left = t[i].left + 0 /\ Len(s) - j >= Len(t) - i
    <3>1. i \in DOMAIN s /\ s[i].left \in Nat /\ t[i].left = s[i].left
      BY <1>1, <1>6, LimitsNumbers
    <3>2. Len(s) - i >= Len(t) - i
      BY <1>1, <1>4, <3>1
    <3>3. QED
      BY <3>1, <3>2
  <2>2. QED
    BY <2>1 DEF Remains
<1>9. QED
  BY <1>7, <1>8 DEF t

\* The sessions of an address after a tick.
Older(s) == [k \in DOMAIN s |-> [s[k] EXCEPT !.left = IF @ = 0 THEN 0 ELSE @ - 1]]

\* A tick makes sessions older and opens none.
LEMMA OlderLine ==
  ASSUME NEW s, Line(s)
  PROVE  Line(Older(s)) /\ Remains(s, Older(s), 1)
<1> DEFINE t == Older(s)
<1>1. /\ s \in Seq(Session) /\ Len(s) \in Nat /\ DOMAIN s = 1..Len(s)
      /\ \A i \in DOMAIN s : s[i] \in Session /\ s[i].left \in 0..SESSION_LIFETIME
  BY SequenceFacts
<1>2. ASSUME NEW i \in DOMAIN s
      PROVE  /\ t[i] \in Session
             /\ t[i].left = IF s[i].left = 0 THEN 0 ELSE s[i].left - 1
  <2> DEFINE left == IF s[i].left = 0 THEN 0 ELSE s[i].left - 1
  <2>1. left \in Nat /\ s[i] \in Session
    BY <1>1, LimitsNumbers
  <2>2. t[i] = [s[i] EXCEPT !.left = left]
    BY DEF Older
  <2> HIDE DEF left, t
  <2>3. t[i] \in Session /\ t[i].left = left
    BY <2>1, <2>2 DEF Session
  <2>4. QED
    BY <2>3 DEF left
<1>3. DOMAIN t = 1..Len(s) /\ t = [i \in 1..Len(s) |-> t[i]]
  BY <1>1 DEF Older
<1> HIDE DEF t
<1>4. t \in Seq(Session) /\ Len(t) = Len(s)
  <2>1. t \in [1..Len(s) -> Session]
    BY <1>1, <1>2, <1>3
  <2>2. t \in Seq(Session)
    BY <1>1, <2>1, SeqDef
  <2>3. QED
    BY <1>1, <1>3, <2>2, LenProperties
<1>5. ASSUME NEW i \in DOMAIN t
      PROVE  /\ i \in DOMAIN s
             /\ t[i].left <= SESSION_LIFETIME
             /\ \A j \in DOMAIN t : i <= j => t[i].left <= t[j].left
             /\ IsLive(t[i]) => s[i].left = t[i].left + 1
  <2>1. i \in DOMAIN s
    BY <1>1, <1>3
  <2>2. s[i].left \in Nat /\ s[i].left <= SESSION_LIFETIME
    BY <1>1, <2>1, LimitsNumbers
  <2>3. t[i].left = IF s[i].left = 0 THEN 0 ELSE s[i].left - 1
    BY <1>2, <2>1
  <2>4. ASSUME NEW j \in DOMAIN t, i <= j
        PROVE  t[i].left <= t[j].left
    <3>1. j \in DOMAIN s
      BY <1>1, <1>3
    <3>2. s[j].left \in Nat /\ t[j].left = IF s[j].left = 0 THEN 0 ELSE s[j].left - 1
      BY <1>1, <1>2, <3>1, LimitsNumbers
    <3>3. s[i].left <= s[j].left
      BY <2>1, <2>4, <3>1 DEF Line
    <3>4. QED
      BY <2>2, <2>3, <3>2, <3>3
  <2>5. t[i].left <= SESSION_LIFETIME /\ (IsLive(t[i]) => s[i].left = t[i].left + 1)
    BY <2>2, <2>3, LimitsNumbers DEF IsLive
  <2>6. QED
    BY <2>1, <2>4, <2>5
<1>6. Line(t)
  BY <1>4, <1>5 DEF Line
<1>7. Remains(s, t, 1)
  <2>1. \A i \in DOMAIN t : Len(s) - i >= Len(t) - i
    BY <1>1, <1>3, <1>4
  <2>2. QED
    BY <1>5, <2>1 DEF Remains
<1>8. QED
  BY <1>6, <1>7 DEF t

\* Whoever has not been seen for so long has no session that lives.
LEMMA ForgottenHaveNone ==
  ASSUME NEW s, Line(s), NEW entry \in Entry, Counted(s, entry), entry.seen >= RETENTION
  PROVE  \A k \in DOMAIN s : ~IsLive(s[k])
<1> SUFFICES ASSUME NEW k \in DOMAIN s, IsLive(s[k])
             PROVE  FALSE
  OBVIOUS
<1> DEFINE left == s[k].left
<1>1. left \in Nat /\ left > 0
  BY SequenceFacts, LimitsNumbers DEF IsLive
<1>2. entry.seen <= SESSION_LIFETIME - left /\ entry.seen \in Nat
  BY DEF Counted, Age, Entry
<1> HIDE DEF left
<1>3. SESSION_LIFETIME < RETENTION /\ RETENTION \in Nat /\ SESSION_LIFETIME \in Nat
  BY LimitsAssumption
<1>4. QED
  BY <1>1, <1>2, <1>3

\* An address whose sessions become fewer or older stays counted.
LEMMA AddressCounted ==
  ASSUME LimitsInv, LimiterInv', NEW o \in Addresses, NEW t, Line(t), NEW time \in Nat,
         Remains(sessions[o], t, time),
         o \in DOMAIN entries' =>
           /\ o \in DOMAIN entries
           /\ entries'[o].seen <= entries[o].seen + time
           /\ entries'[o].window <= entries[o].window + time
           /\ entries'[o].handshakes >= entries[o].handshakes,
         o \in DOMAIN entries /\ o \notin DOMAIN entries' => entries[o].seen >= RETENTION
  PROVE  IF o \in DOMAIN entries'
         THEN Counted(t, entries'[o])
         ELSE \A k \in DOMAIN t : ~IsLive(t[k])
<1>1. /\ Line(sessions[o])
      /\ o \in DOMAIN entries => entries[o] \in Entry /\ Counted(sessions[o], entries[o])
      /\ o \notin DOMAIN entries =>
           \A k \in DOMAIN sessions[o] : ~IsLive(sessions[o][k])
      /\ o \in DOMAIN entries' => entries'[o] \in Entry
  BY DEF LimitsInv, LimiterInv, SessionsOK, AllCounted
<1>2. CASE o \in DOMAIN entries'
  BY <1>1, <1>2, RemainsCounted
<1>3. CASE o \notin DOMAIN entries'
  <2>1. \A k \in DOMAIN sessions[o] : ~IsLive(sessions[o][k])
    BY <1>1, <1>3, ForgottenHaveNone
  <2>2. ASSUME NEW k \in DOMAIN t, IsLive(t[k])
        PROVE  FALSE
    <3>1. PICK j \in DOMAIN sessions[o] : sessions[o][j].left = t[k].left + time
      BY <2>2 DEF Remains
    <3> DEFINE before == sessions[o][j].left
               after == t[k].left
    <3>2. after \in Nat /\ after > 0 /\ before = after + time
      BY <2>2, <3>1, SequenceFacts, LimitsNumbers DEF IsLive
    <3> HIDE DEF before, after
    <3>3. before > 0
      BY <3>2
    <3>4. QED
      BY <2>1, <3>3 DEF before, IsLive
  <2>3. QED
    BY <1>3, <2>2
<1>4. QED
  BY <1>2, <1>3

\* Sessions that become fewer or older take no more room.
LEMMA SlotsShrink ==
  ASSUME LimitsInv,
         \A o \in Addresses :
           Line(sessions'[o]) /\ \E time \in Nat : Remains(sessions[o], sessions'[o], time)
  PROVE  IsFiniteSet(Slots') /\ Cardinality(Slots') <= MAX_SESSIONS
<1>1. ASSUME NEW o \in Addresses
      PROVE  DOMAIN Live(o)' \subseteq DOMAIN Live(o)
  <2>1. Line(sessions[o])
    BY DEF LimitsInv, SessionsOK
  <2>2. DOMAIN Unexpired(sessions'[o]) \subseteq DOMAIN Unexpired(sessions[o])
    BY <2>1, RemainsLive
  <2>3. QED
    BY <2>2 DEF Live
<1>2. Slots' \subseteq Slots
  BY <1>1 DEF Slots
<1>3. IsFiniteSet(Slots) /\ Cardinality(Slots) <= MAX_SESSIONS
  BY DEF LimitsInv, TablesOK
<1>4. IsFiniteSet(Slots') /\ Cardinality(Slots') <= Cardinality(Slots)
  BY <1>2, <1>3, FS_Subset
<1>5. QED
  BY <1>3, <1>4, FS_CardinalityType, LimitsNumbers

\* When a window is over, the sessions that were opened in it count as one more window.
LEMMA WindowOver ==
  ASSUME NEW s, Line(s), NEW entry \in Entry, Counted(s, entry), Budgeted(entry),
         entry.window = WINDOW,
         NEW k \in DOMAIN s, IsLive(s[k]), NEW n \in Nat,
         Len(s) - k + 1 >= n * MAX_HANDSHAKES_PER_WINDOW
  PROVE  Age(s[k]) >= n * WINDOW
<1> DEFINE q == Len(s) - k + 1
           age == Age(s[k])
           left == s[k].left
<1>1. left \in 0..SESSION_LIFETIME /\ q \in Nat
  BY SequenceFacts
<1>2. age = SESSION_LIFETIME - left
  BY DEF Age
<1> HIDE DEF left
<1>3. age \in Nat
  BY <1>1, <1>2, LimitsNumbers
<1>4. CASE n = 0
  BY <1>3, <1>4, LimitsNumbers DEF age
<1>5. CASE n # 0
  <2> DEFINE m == n - 1
             a == m * MAX_HANDSHAKES_PER_WINDOW
             b == m * WINDOW
             h == entry.handshakes
  <2>1. m \in Nat /\ n = m + 1
    BY <1>5
  <2> HIDE DEF m
  <2>2. n * MAX_HANDSHAKES_PER_WINDOW = a + MAX_HANDSHAKES_PER_WINDOW /\ n * WINDOW = b + WINDOW
    BY <2>1, LimitsNumbers
  <2>3. a \in Nat /\ b \in Nat
    BY <2>1, Products
  <2>4. h \in 1..MAX_HANDSHAKES_PER_WINDOW
    BY DEF Budgeted
  <2>5. q >= a + MAX_HANDSHAKES_PER_WINDOW
    BY <2>2
  <2> HIDE DEF a, b, h, q, age
  <2>6. q - h >= a
    BY <1>1, <2>3, <2>4, <2>5, LimitsNumbers
  <2>7. (Len(s) - k + 1) - entry.handshakes >= m * MAX_HANDSHAKES_PER_WINDOW
    BY <2>6 DEF q, h, a
  <2>8. Age(s[k]) >= entry.window + m * WINDOW
    BY <2>1, <2>7 DEF Counted
  <2>9. age >= WINDOW + b
    BY <2>8 DEF age, b
  <2>10. age >= n * WINDOW
    BY <1>3, <2>2, <2>3, <2>9, LimitsNumbers
  <2>11. QED
    BY <2>10 DEF age
<1>6. QED
  BY <1>4, <1>5

\* What a handshake makes of the entry of its address: it is the first of a new entry, the
\* first of a window, one more, or refused.
BeginsEntry(a) ==
  /\ a \in DOMAIN entries => entries[a].seen >= RETENTION
  /\ entries'[a].window = 0
  /\ entries'[a].handshakes = 1

BeginsWindow(a) ==
  /\ a \in DOMAIN entries
  /\ entries[a].window = WINDOW
  /\ entries'[a].window = 0
  /\ entries'[a].handshakes = 1

IsOneMore(a) ==
  /\ a \in DOMAIN entries
  /\ entries'[a].window = entries[a].window
  /\ entries[a].handshakes < MAX_HANDSHAKES_PER_WINDOW
  /\ entries'[a].handshakes = entries[a].handshakes + 1

IsRefused(a) ==
  /\ ~AllowHandshake(a).allowed
  /\ a \in DOMAIN entries
  /\ entries'[a].window = entries[a].window
  /\ entries'[a].handshakes = entries[a].handshakes

\* A handshake keeps the table of addresses within its limit and forgets nobody whose entry
\* still counts.
LEMMA HandshakeBudget ==
  ASSUME LimitsInv, NEW a \in Addresses, NEW b \in BOOLEAN, Handshake(a, b)
  PROVE  /\ DOMAIN entries' \subseteq DOMAIN entries \cup {a}
         /\ \A o \in DOMAIN entries \ DOMAIN entries' : entries[o].seen >= RETENTION
         /\ \A o \in DOMAIN entries' \ {a} : o \in DOMAIN entries /\ entries'[o] = entries[o]
         /\ IsFiniteSet(DOMAIN entries')
         /\ Cardinality(DOMAIN entries') <= MAX_TRACKED_ADDRESSES
         /\ AllowHandshake(a).allowed => a \in DOMAIN entries'
         /\ a \in DOMAIN entries' =>
              /\ entries'[a].seen = 0
              /\ BeginsEntry(a) \/ BeginsWindow(a) \/ IsOneMore(a) \/ IsRefused(a)
<1> DEFINE kept == Retained
           known == a \in DOMAIN kept
           last == IF known THEN kept[a] ELSE FirstSeen
           found == Seen(last)
           entry == InWindow(found)
           more == [entry EXCEPT !.handshakes = @ + 1]
           full == ~known /\ Cardinality(DOMAIN kept) >= MAX_TRACKED_ADDRESSES
<1>1. /\ DOMAIN kept \subseteq DOMAIN entries
      /\ \A o \in DOMAIN kept : kept[o] = entries[o] /\ entries[o] \in Entry
      /\ \A o \in DOMAIN entries \ DOMAIN kept : entries[o].seen >= RETENTION
  BY LimitsTypes DEF LimitsInv, LimiterInv, Retained, Entry
<1>2. /\ IsFiniteSet(DOMAIN entries)
      /\ Cardinality(DOMAIN entries) <= MAX_TRACKED_ADDRESSES
      /\ \A o \in DOMAIN entries : Budgeted(entries[o])
  BY DEF LimitsInv, TablesOK
<1>3. /\ IsFiniteSet(DOMAIN kept)
      /\ Cardinality(DOMAIN kept) \in Nat
      /\ Cardinality(DOMAIN kept) <= MAX_TRACKED_ADDRESSES
  <2>1. IsFiniteSet(DOMAIN kept) /\ Cardinality(DOMAIN kept) <= Cardinality(DOMAIN entries)
    BY <1>1, <1>2, FS_Subset
  <2>2. Cardinality(DOMAIN kept) \in Nat /\ Cardinality(DOMAIN entries) \in Nat
    BY <1>2, <2>1, FS_CardinalityType
  <2>3. QED
    BY <1>2, <2>1, <2>2, LimitsNumbers
<1> HIDE DEF kept
<1>4. /\ last \in Entry
      /\ known => last = entries[a] /\ a \in DOMAIN entries /\ Budgeted(last)
      /\ ~known => last.window = 0 /\ last.handshakes = 0 /\ last.blocked = 0
      /\ ~known /\ a \in DOMAIN entries => entries[a].seen >= RETENTION
  BY <1>1, <1>2 DEF FirstSeen, Entry
<1> HIDE DEF last
<1>5. /\ found \in Entry /\ found.seen = 0 /\ found.window = last.window
      /\ found.handshakes = last.handshakes /\ found.blocked = last.blocked
  BY <1>4 DEF Seen, Entry
<1> HIDE DEF found
<1>6. /\ entry \in Entry /\ entry.seen = 0
      /\ \/ /\ found.window >= WINDOW
            /\ entry.window = 0 /\ entry.handshakes = 0
         \/ /\ entry.window = last.window
            /\ entry.handshakes = last.handshakes
  BY <1>5 DEF InWindow, Entry
<1> HIDE DEF entry
<1>7. /\ more \in Entry /\ more.seen = 0 /\ more.window = entry.window
      /\ more.handshakes = entry.handshakes + 1
  BY <1>6 DEF Entry
<1> HIDE DEF more
<1>8. \/ full /\ ~AllowHandshake(a).allowed /\ entries' = kept
      \/ ~full /\ found.blocked > 0 /\ ~AllowHandshake(a).allowed /\ entries' = With(kept, a, found)
      \/ ~full /\ IsWithinBudget(entry) /\ entries' = With(kept, a, more)
      \/ ~full /\ ~IsWithinBudget(entry) /\ ~AllowHandshake(a).allowed
         /\ entries' = With(kept, a, entry)
  <2>1. AllowHandshake(a) =
          IF full
          THEN [allowed |-> FALSE, entries |-> kept]
          ELSE IF found.blocked > 0
          THEN [allowed |-> FALSE, entries |-> With(kept, a, found)]
          ELSE IF IsWithinBudget(entry)
          THEN [allowed |-> TRUE, entries |-> With(kept, a, more)]
          ELSE [allowed |-> FALSE, entries |-> With(kept, a, entry)]
    BY DEF AllowHandshake, kept, last, found, entry, more
  <2>2. entries' = AllowHandshake(a).entries
    BY DEF Handshake
  <2> HIDE DEF full
  <2>3. QED
    BY <2>1, <2>2
<1>9. CASE full /\ ~AllowHandshake(a).allowed /\ entries' = kept
  BY <1>1, <1>3, <1>9
<1>10. ASSUME NEW new, entries' = With(kept, a, new), ~full, new.seen = 0,
              \/ ~known /\ new.window = 0 /\ new.handshakes = 1
              \/ /\ known /\ entries[a].window = WINDOW
                 /\ new.window = 0 /\ new.handshakes = 1
              \/ /\ known /\ new.window = entries[a].window
                 /\ entries[a].handshakes < MAX_HANDSHAKES_PER_WINDOW
                 /\ new.handshakes = entries[a].handshakes + 1
              \/ /\ ~AllowHandshake(a).allowed
                 /\ known /\ new.window = entries[a].window
                 /\ new.handshakes = entries[a].handshakes
       PROVE  /\ DOMAIN entries' \subseteq DOMAIN entries \cup {a}
              /\ \A o \in DOMAIN entries \ DOMAIN entries' : entries[o].seen >= RETENTION
              /\ \A o \in DOMAIN entries' \ {a} : o \in DOMAIN entries /\ entries'[o] = entries[o]
              /\ IsFiniteSet(DOMAIN entries')
              /\ Cardinality(DOMAIN entries') <= MAX_TRACKED_ADDRESSES
              /\ AllowHandshake(a).allowed => a \in DOMAIN entries'
              /\ a \in DOMAIN entries' =>
                   /\ entries'[a].seen = 0
                   /\ BeginsEntry(a) \/ BeginsWindow(a) \/ IsOneMore(a) \/ IsRefused(a)
  <2>1. /\ DOMAIN entries' = DOMAIN kept \cup {a}
        /\ \A o \in DOMAIN kept \cup {a} : entries'[o] = IF o = a THEN new ELSE kept[o]
    BY <1>10 DEF With
  <2>2. /\ IsFiniteSet(DOMAIN entries')
        /\ Cardinality(DOMAIN entries') <= MAX_TRACKED_ADDRESSES
    <3>1. /\ IsFiniteSet(DOMAIN kept \cup {a})
          /\ Cardinality(DOMAIN kept \cup {a}) =
               IF known THEN Cardinality(DOMAIN kept) ELSE Cardinality(DOMAIN kept) + 1
      BY <1>3, FS_AddElement
    <3>2. QED
      BY <1>3, <1>10, <2>1, <3>1, LimitsNumbers
  <2>3. BeginsEntry(a) \/ BeginsWindow(a) \/ IsOneMore(a) \/ IsRefused(a)
    <3>1. entries'[a] = new
      BY <2>1
    <3>2. QED
      BY <1>4, <1>10, <3>1 DEF BeginsEntry, BeginsWindow, IsOneMore, IsRefused
  <2>4. entries'[a].seen = 0
    BY <1>10, <2>1
  <2>5. QED
    BY <1>1, <2>1, <2>2, <2>3, <2>4
<1>11. CASE ~full /\ found.blocked > 0 /\ ~AllowHandshake(a).allowed
            /\ entries' = With(kept, a, found)
  <2>1. known
    BY <1>4, <1>5, <1>11
  <2>2. found.window = entries[a].window /\ found.handshakes = entries[a].handshakes
    BY <1>4, <1>5, <2>1
  <2>3. QED
    BY <1>5, <1>10, <1>11, <2>1, <2>2
<1>12. CASE ~full /\ IsWithinBudget(entry) /\ entries' = With(kept, a, more)
  <2>1. CASE known
    <3>1. /\ last = entries[a] /\ last.window \in Nat /\ last.window <= WINDOW
          /\ last.handshakes \in Nat
      BY <1>4, <2>1 DEF Budgeted, Entry
    <3>2. CASE found.window >= WINDOW /\ entry.window = 0 /\ entry.handshakes = 0
      <4>1. entries[a].window = WINDOW
        BY <1>5, <3>1, <3>2, LimitsNumbers
      <4>2. more.window = 0 /\ more.handshakes = 1
        BY <1>7, <3>2
      <4>3. QED
        BY <1>7, <1>10, <1>12, <2>1, <4>1, <4>2
    <3>3. CASE entry.window = last.window /\ entry.handshakes = last.handshakes
      <4>1. /\ more.window = entries[a].window
            /\ entries[a].handshakes < MAX_HANDSHAKES_PER_WINDOW
            /\ more.handshakes = entries[a].handshakes + 1
        BY <1>7, <1>12, <3>1, <3>3 DEF IsWithinBudget
      <4>2. QED
        BY <1>7, <1>10, <1>12, <2>1, <4>1
    <3>4. QED
      BY <1>6, <3>2, <3>3
  <2>2. CASE ~known
    <3>1. more.window = 0 /\ more.handshakes = 1
      BY <1>4, <1>6, <1>7, <2>2
    <3>2. QED
      BY <1>7, <1>10, <1>12, <2>2, <3>1
  <2>3. QED
    BY <2>1, <2>2
<1>13. CASE ~full /\ ~IsWithinBudget(entry) /\ ~AllowHandshake(a).allowed
            /\ entries' = With(kept, a, entry)
  <2>1. entry.handshakes # 0
    BY <1>13, LimitsNumbers DEF IsWithinBudget
  <2>2. entry.window = last.window /\ entry.handshakes = last.handshakes /\ known
    BY <1>4, <1>6, <2>1
  <2>3. entry.window = entries[a].window /\ entry.handshakes = entries[a].handshakes
    BY <1>4, <2>2
  <2>4. QED
    BY <1>6, <1>10, <1>13, <2>2, <2>3
<1>14. QED
  BY <1>8, <1>9, <1>11, <1>12, <1>13

\* In a line that is opened anew the last session is as old as a handshake that has just been
\* counted, and the others are as they were.
LEMMA OpenedCounted ==
  ASSUME NEW s, Line(s), NEW entry, entry.seen = 0, entry.window \in Nat,
         entry.handshakes \in Nat \ {0},
         entry.handshakes = 1 => entry.window = 0,
         \A k \in DOMAIN Unexpired(s) : \A n \in Nat :
           (Len(Unexpired(s)) - k + 2) - entry.handshakes >= n * MAX_HANDSHAKES_PER_WINDOW =>
             Age(Unexpired(s)[k]) >= entry.window + n * WINDOW
  PROVE  Counted(Opened(s), entry)
<1> DEFINE u == Unexpired(s)
           t == Opened(s)
<1>1. /\ Line(t)
      /\ Len(t) = Len(u) + 1
      /\ t[Len(t)].left = SESSION_LIFETIME
      /\ \A k \in DOMAIN t : k # Len(t) => k \in DOMAIN u /\ t[k] = u[k]
  BY OpenedLine
<1>2. Len(u) \in Nat /\ DOMAIN u = 1..Len(u)
  BY UnexpiredFacts
<1> HIDE DEF t
<1>3. ASSUME NEW k \in DOMAIN t
      PROVE  /\ entry.seen <= Age(t[k])
             /\ \A n \in Nat :
                  (Len(t) - k + 1) - entry.handshakes >= n * MAX_HANDSHAKES_PER_WINDOW =>
                    Age(t[k]) >= entry.window + n * WINDOW
  <2>1. Age(t[k]) = SESSION_LIFETIME - t[k].left /\ t[k].left \in 0..SESSION_LIFETIME
    BY <1>1, SequenceFacts DEF Age
  <2>2. Age(t[k]) >= 0
    BY <2>1, LimitsNumbers
  <2>3. CASE k = Len(t)
    <3>1. Age(t[k]) = 0 /\ Len(t) \in Nat
      BY <1>1, <1>2, <2>1, <2>3, LimitsNumbers
    <3>2. ASSUME NEW n \in Nat,
                 (Len(t) - k + 1) - entry.handshakes >= n * MAX_HANDSHAKES_PER_WINDOW
          PROVE  Age(t[k]) >= entry.window + n * WINDOW
      <4> DEFINE a == n * MAX_HANDSHAKES_PER_WINDOW
                 h == entry.handshakes
      <4>1. 1 - h >= a
        <5>1. Len(t) - k + 1 = 1
          BY <2>3, <3>1
        <5>2. QED
          BY <3>2, <5>1
      <4>2. a \in Nat /\ h \in Nat \ {0}
        BY Products
      <4> HIDE DEF a, h
      <4>3. h = 1 /\ a = 0
        BY <4>1, <4>2
      <4>4. n = 0
        <5>1. n * MAX_HANDSHAKES_PER_WINDOW = 0
          BY <4>3 DEF a
        <5>2. QED
          BY <5>1, LimitsNumbers
      <4>5. entry.window + n * WINDOW = 0
        BY <4>3, <4>4, LimitsNumbers DEF h
      <4>6. QED
        BY <3>1, <4>5
    <3>3. QED
      BY <2>2, <3>2
  <2>4. CASE k # Len(t)
    <3>1. k \in DOMAIN u /\ t[k] = u[k] /\ k \in Nat
      BY <1>1, <1>2, <2>4
    <3>2. Len(t) - k + 1 = Len(u) - k + 2
      BY <1>1, <1>2, <3>1
    <3>3. QED
      BY <2>2, <3>1, <3>2
  <2>5. QED
    BY <2>3, <2>4
<1>4. QED
  BY <1>3 DEF Counted, t

\* A handshake, refused or not, leaves the sessions of its address counted.
LEMMA HandshakeCounted ==
  ASSUME LimitsInv, LimiterInv', NEW a \in Addresses, NEW b \in BOOLEAN, Handshake(a, b),
         NEW t,
         \/ Line(t) /\ Remains(sessions[a], t, 0)
         \/ AllowHandshake(a).allowed /\ t = Opened(sessions[a])
  PROVE  IF a \in DOMAIN entries'
         THEN Counted(t, entries'[a])
         ELSE \A k \in DOMAIN t : ~IsLive(t[k])
<1> DEFINE s == sessions[a]
           u == Unexpired(s)
           new == entries'[a]
           old == entries[a]
           M == MAX_HANDSHAKES_PER_WINDOW
<1>1. /\ Line(s)
      /\ a \in DOMAIN entries => old \in Entry /\ Counted(s, old) /\ Budgeted(old)
      /\ a \notin DOMAIN entries => \A k \in DOMAIN s : ~IsLive(s[k])
  BY DEF LimitsInv, LimiterInv, SessionsOK, AllCounted, TablesOK
<1>2. /\ \A o \in DOMAIN entries \ DOMAIN entries' : entries[o].seen >= RETENTION
      /\ AllowHandshake(a).allowed => a \in DOMAIN entries'
      /\ a \in DOMAIN entries' =>
           /\ new.seen = 0
           /\ BeginsEntry(a) \/ BeginsWindow(a) \/ IsOneMore(a) \/ IsRefused(a)
  BY HandshakeBudget
<1>3. /\ Line(u) /\ Remains(s, u, 0) /\ DOMAIN Unexpired(u) = DOMAIN u
      /\ Len(u) \in Nat /\ DOMAIN u = 1..Len(u)
      /\ \A k \in DOMAIN u : IsLive(u[k])
  <2>1. Line(u) /\ Remains(s, u, 0) /\ DOMAIN Unexpired(u) = DOMAIN u
    BY <1>1, UnexpiredLine
  <2>2. /\ Len(s) \in Nat /\ Len(u) \in Nat /\ Len(u) <= Len(s)
        /\ DOMAIN s = 1..Len(s) /\ DOMAIN u = 1..Len(u)
        /\ \A k \in DOMAIN s : IsLive(s[k]) <=> k > Len(s) - Len(u)
        /\ \A k \in DOMAIN u : u[k] = s[Len(s) - Len(u) + k]
    BY <1>1, UnexpiredFacts
  <2> HIDE DEF u, s
  <2>3. ASSUME NEW k \in DOMAIN u
        PROVE  IsLive(u[k])
    <3> DEFINE j == Len(s) - Len(u) + k
    <3>1. j \in DOMAIN s /\ j > Len(s) - Len(u)
      BY <2>2
    <3>2. QED
      BY <2>2, <3>1
  <2>4. QED
    BY <2>1, <2>2, <2>3
<1> HIDE DEF u
<1>4. CASE a \notin DOMAIN entries'
  <2>1. Line(t) /\ Remains(s, t, 0)
    BY <1>2, <1>4
  <2>2. a \in DOMAIN entries => old.seen >= RETENTION
    BY <1>2, <1>4
  <2>3. 0 \in Nat
    OBVIOUS
  <2>4. QED
    BY <1>4, <2>1, <2>2, <2>3, AddressCounted
<1>5. CASE a \in DOMAIN entries' /\ BeginsEntry(a)
  <2>1. \A k \in DOMAIN s : ~IsLive(s[k])
    BY <1>1, <1>5, ForgottenHaveNone DEF BeginsEntry
  <2>2. ASSUME NEW v, Line(v), Remains(s, v, 0)
        PROVE  \A k \in DOMAIN v : ~IsLive(v[k])
    <3> SUFFICES ASSUME NEW k \in DOMAIN v, IsLive(v[k]) PROVE FALSE
      OBVIOUS
    <3>1. PICK j \in DOMAIN s : s[j].left = v[k].left + 0
      BY <2>2 DEF Remains
    <3>2. v[k].left \in Nat
      BY <2>2, SequenceFacts, LimitsNumbers
    <3>3. s[j].left = v[k].left
      BY <3>1, <3>2
    <3>4. QED
      BY <2>1, <3>3 DEF IsLive
  <2>3. CASE Line(t) /\ Remains(s, t, 0)
    BY <1>5, <2>2, <2>3 DEF Counted
  <2>4. CASE t = Opened(s)
    <3>1. DOMAIN u = {}
      BY <1>3, <2>2
    <3>2. Counted(Opened(s), new)
      <4>1. new.seen = 0 /\ new.window = 0 /\ new.handshakes = 1
        BY <1>2, <1>5 DEF BeginsEntry
      <4>2. QED
        BY <1>1, <3>1, <4>1, OpenedCounted DEF u
    <3>3. QED
      BY <1>5, <2>4, <3>2
  <2>5. QED
    BY <2>3, <2>4
<1>6. CASE a \in DOMAIN entries' /\ BeginsWindow(a)
  <2>1. /\ new.seen = 0 /\ new.window = 0 /\ new.handshakes = 1
        /\ old \in Entry /\ Counted(s, old) /\ Budgeted(old) /\ old.window = WINDOW
        /\ old.seen \in Nat /\ old.handshakes \in Nat
    BY <1>1, <1>2, <1>6 DEF BeginsWindow, Entry
  <2>2. ASSUME NEW v, Line(v), Remains(s, v, 0)
        PROVE  Counted(v, old)
    <3>1. 0 \in Nat /\ old.seen <= old.seen + 0 /\ old.window <= old.window + 0
          /\ old.handshakes >= old.handshakes
      BY <2>1, LimitsNumbers
    <3>2. QED
      BY <1>1, <2>1, <2>2, <3>1, RemainsCounted
  <2>3. CASE Line(t) /\ Remains(s, t, 0)
    <3>1. ASSUME NEW k \in DOMAIN t, IsLive(t[k])
          PROVE  /\ new.seen <= Age(t[k])
                 /\ \A n \in Nat : (Len(t) - k + 1) - new.handshakes >= n * M =>
                                     Age(t[k]) >= new.window + n * WINDOW
      <4>1. /\ Len(t) \in Nat /\ k \in Nat /\ t[k].left \in 0..SESSION_LIFETIME
            /\ Age(t[k]) = SESSION_LIFETIME - t[k].left
        BY <2>3, <3>1, SequenceFacts DEF Age
      <4>2. Age(t[k]) \in Nat
        BY <4>1, LimitsNumbers
      <4>3. ASSUME NEW n \in Nat, (Len(t) - k + 1) - new.handshakes >= n * M
            PROVE  Age(t[k]) >= new.window + n * WINDOW
        <5> DEFINE q == Len(t) - k + 1
                   c == n * M
                   e == n * WINDOW
        <5>1. q \in Int /\ c \in Nat /\ e \in Nat /\ q - 1 >= c
          BY <2>1, <4>1, <4>3, Products
        <5> HIDE DEF q, c
        <5>2. q >= c
          BY <5>1
        <5>3. Age(t[k]) >= n * WINDOW
          BY <2>1, <2>2, <2>3, <3>1, <5>2, WindowOver DEF q, c
        <5> HIDE DEF e
        <5>4. Age(t[k]) >= new.window + e
          BY <2>1, <5>1, <5>3 DEF e
        <5>5. QED
          BY <5>4 DEF e
      <4>4. QED
        BY <2>1, <4>2, <4>3
    <3>2. QED
      BY <1>6, <3>1 DEF Counted
  <2>4. CASE t = Opened(s)
    <3>1. Counted(u, old)
      BY <1>3, <2>2
    <3>2. ASSUME NEW k \in DOMAIN u, NEW n \in Nat, (Len(u) - k + 2) - new.handshakes >= n * M
          PROVE  Age(u[k]) >= new.window + n * WINDOW
      <4> DEFINE c == n * M
      <4>1. Len(u) \in Nat /\ k \in Nat /\ c \in Nat /\ (Len(u) - k + 2) - 1 >= c
        BY <1>3, <2>1, <3>2, Products
      <4> HIDE DEF c
      <4>2. Len(u) - k + 1 >= c
        BY <4>1
      <4>3. Age(u[k]) >= n * WINDOW
        BY <1>3, <2>1, <3>1, <4>2, WindowOver DEF c
      <4>4. n * WINDOW \in Nat
        BY Products
      <4>5. QED
        BY <2>1, <4>3, <4>4
    <3>3. Counted(Opened(s), new)
      <4>1. /\ new.seen = 0 /\ new.window \in Nat /\ new.handshakes \in Nat \ {0}
            /\ new.handshakes = 1 => new.window = 0
        BY <2>1
      <4> HIDE DEF new, s
      <4>2. QED
        BY <1>1, <3>2, <4>1, OpenedCounted DEF u
    <3>4. QED
      BY <1>6, <2>4, <3>3
  <2>5. QED
    BY <2>3, <2>4
<1>7. CASE a \in DOMAIN entries' /\ (IsOneMore(a) \/ IsRefused(a)) /\ Line(t) /\ Remains(s, t, 0)
  <2>1. /\ a \in DOMAIN entries
        /\ new.seen <= old.seen + 0
        /\ new.window <= old.window + 0
        /\ new.handshakes >= old.handshakes
    BY <1>1, <1>2, <1>7 DEF IsOneMore, IsRefused, Entry
  <2>2. 0 \in Nat
    OBVIOUS
  <2>3. QED
    BY <1>7, <2>1, <2>2, AddressCounted
<1>8. CASE a \in DOMAIN entries' /\ IsOneMore(a) /\ t = Opened(s)
  <2>1. /\ new.seen = 0 /\ new.window = old.window /\ new.handshakes = old.handshakes + 1
        /\ old \in Entry /\ Counted(s, old) /\ Budgeted(old)
        /\ old.seen \in Nat /\ old.handshakes \in Nat \ {0} /\ old.window \in Nat
    BY <1>1, <1>2, <1>8 DEF IsOneMore, Entry, Budgeted
  <2>2. Counted(u, old)
    <3>1. 0 \in Nat /\ old.seen <= old.seen + 0 /\ old.window <= old.window + 0
          /\ old.handshakes >= old.handshakes
      BY <2>1
    <3>2. QED
      BY <1>1, <1>3, <2>1, <3>1, RemainsCounted
  <2>3. ASSUME NEW k \in DOMAIN u, NEW n \in Nat, (Len(u) - k + 2) - new.handshakes >= n * M
        PROVE  Age(u[k]) >= new.window + n * WINDOW
    <3> DEFINE c == n * M
               h == old.handshakes
    <3>1. /\ Len(u) \in Nat /\ k \in Nat /\ h \in Nat /\ c \in Nat
          /\ new.handshakes = h + 1
          /\ (Len(u) - k + 2) - new.handshakes >= c
      <4>1. Len(u) \in Nat /\ k \in Nat
        BY <1>3
      <4>2. h \in Nat /\ c \in Nat /\ new.handshakes = h + 1
        BY <2>1, Products
      <4>3. QED
        BY <2>3, <4>1, <4>2
    <3> HIDE DEF c, h
    <3>2. (Len(u) - k + 1) - h >= c
      BY <3>1
    <3>3. (Len(u) - k + 1) - old.handshakes >= n * M
      BY <3>2 DEF c, h
    <3>4. Age(u[k]) >= old.window + n * WINDOW
      BY <1>3, <2>2, <3>3 DEF Counted
    <3>5. QED
      BY <2>1, <3>4
  <2>4. Counted(Opened(s), new)
    <3>1. /\ new.seen = 0 /\ new.window \in Nat /\ new.handshakes \in Nat \ {0}
          /\ new.handshakes = 1 => new.window = 0
      BY <2>1
    <3> HIDE DEF new, s
    <3>2. QED
      BY <1>1, <2>3, <3>1, OpenedCounted DEF u
  <2>5. QED
    BY <1>8, <2>4
<1>9. QED
  BY <1>2, <1>4, <1>5, <1>6, <1>7, <1>8 DEF IsRefused

\* What a handshake does to the sessions.
LEMMA HandshakeSessions ==
  ASSUME LimitsInv, NEW a \in Addresses, NEW b \in BOOLEAN, Handshake(a, b)
  PROVE  /\ sessions' = [o \in Addresses |-> sessions'[o]]
         /\ \A o \in Addresses :
              \/ sessions'[o] = sessions[o]
              \/ sessions'[o] = Unexpired(sessions[o])
              \/ o = a /\ AllowHandshake(a).allowed /\ HasRoom /\ sessions'[o] = Opened(sessions[o])
<1> DEFINE live == [o \in Addresses |-> Live(o)]
           new == [left |-> SESSION_LIFETIME, admitted |-> FALSE]
<1>1. CASE AllowHandshake(a).allowed /\ b /\ HasRoom
  <2>1. sessions' = [live EXCEPT ![a] = Append(@, new)]
    BY <1>1 DEF Handshake
  <2>2. live[a] = Unexpired(sessions[a])
    BY DEF Live
  <2>3. sessions' = [live EXCEPT ![a] = Opened(sessions[a])]
    BY <2>1, <2>2 DEF Opened
  <2>4. \A o \in Addresses : live[o] = Unexpired(sessions[o])
    BY DEF Live
  <2>5. DOMAIN live = Addresses
    OBVIOUS
  <2> HIDE DEF live
  <2>6. QED
    BY <1>1, <2>3, <2>4, <2>5
<1>2. CASE AllowHandshake(a).allowed /\ b /\ ~HasRoom
  <2>1. sessions' = live
    BY <1>2 DEF Handshake
  <2>2. QED
    BY <2>1 DEF Live
<1>3. CASE ~(AllowHandshake(a).allowed /\ b)
  <2>1. sessions' = sessions
    BY <1>3 DEF Handshake
  <2>2. QED
    BY <2>1 DEF LimitsInv, SessionsOK
<1>4. QED
  BY <1>1, <1>2, <1>3

\* Sessions are their own remains.
LEMMA RemainsItself ==
  ASSUME NEW s, Line(s)
  PROVE  Remains(s, s, 0)
<1>1. ASSUME NEW k \in DOMAIN s
      PROVE  s[k].left = s[k].left + 0 /\ Len(s) - k >= Len(s) - k
  BY SequenceFacts, LimitsNumbers
<1>2. QED
  BY <1>1 DEF Remains

\* A handshake keeps the limits.
LEMMA HandshakeLimits ==
  ASSUME LimitsInv, LimiterInv', NEW a \in Addresses, NEW b \in BOOLEAN, Handshake(a, b)
  PROVE  LimitsInv'
<1> DEFINE Fewer(o) == Line(sessions'[o]) /\ Remains(sessions[o], sessions'[o], 0)
           Opens(o) == /\ o = a /\ AllowHandshake(a).allowed /\ HasRoom
                       /\ sessions'[o] = Opened(sessions[o])
<1>1. \A o \in Addresses : Line(sessions[o])
  BY DEF LimitsInv, SessionsOK
<1>2. \A o \in Addresses : Fewer(o) \/ Opens(o)
  BY <1>1, HandshakeSessions, UnexpiredLine, RemainsItself
<1>3. SessionsOK'
  <2>1. \A o \in Addresses : Line(sessions'[o])
    BY <1>1, <1>2, OpenedLine
  <2>2. QED
    BY <2>1, HandshakeSessions DEF SessionsOK
<1>4. AllCounted'
  <2>1. ASSUME NEW o \in Addresses
        PROVE  IF o \in DOMAIN entries'
               THEN Counted(sessions'[o], entries'[o])
               ELSE \A k \in DOMAIN sessions'[o] : ~IsLive(sessions'[o][k])
    <3>1. CASE o = a
      BY <1>2, <3>1, HandshakeCounted
    <3>2. CASE o # a
      <4>1. Fewer(o)
        BY <1>2, <3>2
      <4>2. o \in DOMAIN entries' => o \in DOMAIN entries /\ entries'[o] = entries[o]
        BY <3>2, HandshakeBudget
      <4>3. o \in DOMAIN entries /\ o \notin DOMAIN entries' => entries[o].seen >= RETENTION
        BY HandshakeBudget
      <4>4. o \in DOMAIN entries' =>
              /\ o \in DOMAIN entries
              /\ entries'[o].seen <= entries[o].seen + 0
              /\ entries'[o].window <= entries[o].window + 0
              /\ entries'[o].handshakes >= entries[o].handshakes
        BY <4>2 DEF LimitsInv, LimiterInv, Entry
      <4>5. 0 \in Nat
        OBVIOUS
      <4> HIDE DEF Opens
      <4>6. QED
        BY <4>1, <4>3, <4>4, <4>5, AddressCounted
    <3>3. QED
      BY <3>1, <3>2
  <2>2. QED
    BY <2>1 DEF AllCounted
<1>5. TablesOK'
  <2>1. /\ DOMAIN entries' \subseteq Addresses
        /\ IsFiniteSet(DOMAIN entries')
        /\ Cardinality(DOMAIN entries') <= MAX_TRACKED_ADDRESSES
    BY HandshakeBudget DEF LimitsInv, TablesOK
  <2>2. ASSUME NEW o \in DOMAIN entries'
        PROVE  Budgeted(entries'[o])
    <3>1. o \in DOMAIN entries => Budgeted(entries[o]) /\ entries[o] \in Entry
      BY DEF LimitsInv, TablesOK, LimiterInv
    <3>2. CASE o # a
      <4>1. o \in DOMAIN entries /\ entries'[o] = entries[o]
        BY <2>2, <3>2, HandshakeBudget
      <4>2. QED
        BY <3>1, <4>1
    <3>3. CASE o = a
      <4>1. BeginsEntry(a) \/ BeginsWindow(a) \/ IsOneMore(a) \/ IsRefused(a)
        BY <2>2, <3>3, HandshakeBudget
      <4>2. QED
        BY <3>1, <3>3, <4>1, LimitsNumbers
           DEF Budgeted, BeginsEntry, BeginsWindow, IsOneMore, IsRefused
    <3>4. QED
      BY <3>2, <3>3
  <2>3. IsFiniteSet(Slots') /\ Cardinality(Slots') <= MAX_SESSIONS
    <3>1. CASE \A o \in Addresses : Fewer(o)
      <4>1. \A o \in Addresses :
              Line(sessions'[o]) /\ \E time \in Nat : Remains(sessions[o], sessions'[o], time)
        BY <3>1
      <4>2. QED
        BY <4>1, SlotsShrink
    <3>2. CASE Opens(a)
      <4> DEFINE last == <<a, Len(Live(a)) + 1>>
      <4>1. DOMAIN Live(a)' = DOMAIN Live(a) \cup {Len(Live(a)) + 1}
        BY <1>1, <3>2, OpenedLine DEF Live
      <4>2. ASSUME NEW o \in Addresses, o # a
            PROVE  DOMAIN Live(o)' \subseteq DOMAIN Live(o)
        <5>1. Line(sessions'[o]) /\ Remains(sessions[o], sessions'[o], 0) /\ Line(sessions[o])
          BY <1>1, <1>2, <4>2
        <5>2. DOMAIN Unexpired(sessions'[o]) \subseteq DOMAIN Unexpired(sessions[o])
          BY <5>1, RemainsLive
        <5>3. QED
          BY <5>2 DEF Live
      <4>3. Slots' \subseteq Slots \cup {last}
        BY <4>1, <4>2 DEF Slots
      <4>4. IsFiniteSet(Slots) /\ Cardinality(Slots) < MAX_SESSIONS
        BY <3>2 DEF HasRoom, StoredSessions, Slots, LimitsInv, TablesOK
      <4> HIDE DEF last
      <4>5. /\ IsFiniteSet(Slots \cup {last})
            /\ Cardinality(Slots \cup {last}) \in {Cardinality(Slots), Cardinality(Slots) + 1}
        BY <4>4, FS_AddElement
      <4>6. IsFiniteSet(Slots') /\ Cardinality(Slots') <= Cardinality(Slots \cup {last})
        BY <4>3, <4>5, FS_Subset
      <4>7. Cardinality(Slots) \in Nat /\ Cardinality(Slots') \in Nat
        BY <4>4, <4>6, FS_CardinalityType
      <4>8. QED
        BY <4>4, <4>5, <4>6, <4>7, LimitsNumbers
    <3>3. QED
      BY <1>2, <3>1, <3>2
  <2>4. QED
    BY <2>1, <2>2, <2>3 DEF TablesOK
<1>6. QED
  BY <1>3, <1>4, <1>5 DEF LimitsInv

\* An attempt to log in keeps the limits.
LEMMA AuthenticateLimits ==
  ASSUME LimitsInv, LimiterInv', NEW a \in Addresses, NEW b \in BOOLEAN,
         NEW k \in DOMAIN sessions[a], Authenticate(a, k, b)
  PROVE  LimitsInv'
<1> DEFINE admitted == [sessions[a] EXCEPT ![k].admitted = TRUE]
           closed == RemoveAt(sessions[a], k)
           t == IF b THEN admitted ELSE closed
<1>1. /\ \A o \in Addresses : Line(sessions[o])
      /\ sessions = [o \in Addresses |-> sessions[o]]
  BY DEF LimitsInv, SessionsOK
<1>2. Line(t) /\ Remains(sessions[a], t, 0)
  BY <1>1, AdmittedLine, RemovedLine
<1>3. sessions' = [sessions EXCEPT ![a] = t]
  BY DEF Authenticate
<1> HIDE DEF t
<1>4. /\ sessions' = [o \in Addresses |-> sessions'[o]]
      /\ \A o \in Addresses : sessions'[o] = IF o = a THEN t ELSE sessions[o]
  BY <1>1, <1>3
<1>5. \A o \in Addresses : Line(sessions'[o]) /\ Remains(sessions[o], sessions'[o], 0)
  BY <1>1, <1>2, <1>4, RemainsItself
<1>6. a \in DOMAIN entries
  BY DEF Authenticate, LimitsInv, AllCounted
<1>7. /\ DOMAIN entries' = DOMAIN entries
      /\ \A o \in DOMAIN entries :
           /\ entries'[o].window = entries[o].window
           /\ entries'[o].handshakes = entries[o].handshakes
           /\ entries'[o].seen <= entries[o].seen
  <2>1. \A o \in DOMAIN entries : entries[o] \in Entry /\ entries[o].seen \in Nat
    BY DEF LimitsInv, LimiterInv, Entry
  <2>2. PICK new : /\ entries' = With(entries, a, new)
                   /\ new.window = entries[a].window
                   /\ new.handshakes = entries[a].handshakes
                   /\ new.seen = 0
    <3>1. CASE b
      <4>1. entries' = With(entries, a, Cleared(entries[a]))
        BY <1>6, <3>1 DEF Authenticate, Success
      <4> DEFINE new == Cleared(entries[a])
      <4>2. /\ new.window = entries[a].window
            /\ new.handshakes = entries[a].handshakes
            /\ new.seen = 0
        BY <1>6, <2>1 DEF Cleared, Entry
      <4> HIDE DEF new
      <4>3. QED
        BY <4>1, <4>2 DEF new
    <3>2. CASE ~b
      <4> DEFINE failed == Min({entries[a].failed + 1, MAX_FAILURES})
                 delay == Delay(failed)
      <4> DEFINE new == [entries[a] EXCEPT !.failed = failed, !.blocked = delay, !.seen = 0]
      <4>1. entries' = With(entries, a, new)
        BY <1>6, <3>2 DEF Authenticate, Failure
      <4> HIDE DEF failed, delay
      <4>2. /\ new.window = entries[a].window
            /\ new.handshakes = entries[a].handshakes
            /\ new.seen = 0
        BY <1>6, <2>1 DEF Entry
      <4> HIDE DEF new
      <4>3. QED
        BY <4>1, <4>2
    <3>3. QED
      BY <3>1, <3>2
  <2>3. /\ DOMAIN entries' = DOMAIN entries
        /\ \A o \in DOMAIN entries : entries'[o] = IF o = a THEN new ELSE entries[o]
    BY <1>6, <2>2 DEF With
  <2>4. QED
    BY <2>1, <2>2, <2>3
<1>8. AllCounted'
  <2>1. ASSUME NEW o \in Addresses
        PROVE  IF o \in DOMAIN entries'
               THEN Counted(sessions'[o], entries'[o])
               ELSE \A j \in DOMAIN sessions'[o] : ~IsLive(sessions'[o][j])
    <3>1. o \in DOMAIN entries' =>
            /\ o \in DOMAIN entries
            /\ entries'[o].seen <= entries[o].seen + 0
            /\ entries'[o].window <= entries[o].window + 0
            /\ entries'[o].handshakes >= entries[o].handshakes
      BY <1>7 DEF LimitsInv, LimiterInv, Entry
    <3>2. 0 \in Nat
      OBVIOUS
    <3>3. QED
      BY <1>5, <1>7, <3>1, <3>2, AddressCounted
  <2>2. QED
    BY <2>1 DEF AllCounted
<1>9. TablesOK'
  <2>1. IsFiniteSet(Slots') /\ Cardinality(Slots') <= MAX_SESSIONS
    BY <1>5, SlotsShrink
  <2>2. QED
    BY <1>7, <2>1 DEF LimitsInv, TablesOK, Budgeted
<1>10. QED
  BY <1>4, <1>5, <1>8, <1>9 DEF LimitsInv, SessionsOK

\* Time keeps the limits.
LEMMA TickLimits ==
  ASSUME LimitsInv, LimiterInv', Tick
  PROVE  LimitsInv'
<1>1. \A o \in Addresses : Line(sessions[o])
  BY DEF LimitsInv, SessionsOK
<1>2. /\ sessions' = [o \in Addresses |-> sessions'[o]]
      /\ \A o \in Addresses : sessions'[o] = Older(sessions[o])
  BY DEF Tick, Older
<1>3. \A o \in Addresses : Line(sessions'[o]) /\ Remains(sessions[o], sessions'[o], 1)
  BY <1>1, <1>2, OlderLine
<1>4. /\ DOMAIN entries' = DOMAIN entries
      /\ \A o \in DOMAIN entries :
           /\ entries'[o].window <= entries[o].window + 1
           /\ entries'[o].window <= WINDOW
           /\ entries'[o].handshakes = entries[o].handshakes
           /\ entries'[o].seen <= entries[o].seen + 1
  <2>1. ASSUME NEW o \in DOMAIN entries
        PROVE  /\ entries'[o].window <= entries[o].window + 1
               /\ entries'[o].window <= WINDOW
               /\ entries'[o].handshakes = entries[o].handshakes
               /\ entries'[o].seen <= entries[o].seen + 1
    <3> DEFINE old == entries[o]
               window == Min({old.window + 1, WINDOW})
               seen == Min({old.seen + 1, RETENTION})
               blocked == IF old.blocked = 0 THEN 0 ELSE old.blocked - 1
    <3>1. old \in Entry /\ old.window \in Nat /\ old.seen \in Nat
      BY DEF LimitsInv, LimiterInv, Entry
    <3>2. window <= old.window + 1 /\ window <= WINDOW /\ seen <= old.seen + 1
      BY <3>1, MinOfTwo, LimitsTypes
    <3>3. entries'[o] = [old EXCEPT !.window = window, !.blocked = blocked, !.seen = seen]
      BY DEF Tick
    <3> HIDE DEF window, seen, blocked
    <3>4. QED
      BY <3>1, <3>2, <3>3 DEF Entry
  <2>2. QED
    BY <2>1 DEF Tick
<1>5. AllCounted'
  <2>1. ASSUME NEW o \in Addresses
        PROVE  IF o \in DOMAIN entries'
               THEN Counted(sessions'[o], entries'[o])
               ELSE \A j \in DOMAIN sessions'[o] : ~IsLive(sessions'[o][j])
    <3>1. o \in DOMAIN entries' =>
            /\ o \in DOMAIN entries
            /\ entries'[o].seen <= entries[o].seen + 1
            /\ entries'[o].window <= entries[o].window + 1
            /\ entries'[o].handshakes >= entries[o].handshakes
      BY <1>4 DEF LimitsInv, LimiterInv, Entry
    <3>2. 1 \in Nat
      OBVIOUS
    <3>3. QED
      BY <1>3, <1>4, <3>1, <3>2, AddressCounted
  <2>2. QED
    BY <2>1 DEF AllCounted
<1>6. TablesOK'
  <2>1. IsFiniteSet(Slots') /\ Cardinality(Slots') <= MAX_SESSIONS
    BY <1>3, SlotsShrink
  <2>2. QED
    BY <1>4, <2>1 DEF LimitsInv, TablesOK, Budgeted
<1>7. QED
  BY <1>2, <1>3, <1>5, <1>6 DEF LimitsInv, SessionsOK

\* Where nothing is remembered and no session is open, the limits hold.
LEMMA InitLimitsInv == LimitsInit => LimitsInv
<1> SUFFICES ASSUME LimitsInit PROVE LimitsInv
  OBVIOUS
<1> USE DEF LimitsInit
<1>1. LimiterInv
  BY DEF LimiterInv
<1>2. Line(<<>>) /\ DOMAIN Unexpired(<<>>) = {}
  <2>1. Line(<<>>)
    BY DEF Line
  <2>2. LET u == Unexpired(<<>>) IN Len(u) \in Nat /\ Len(u) <= 0 /\ DOMAIN u = 1..Len(u)
    BY <2>1, UnexpiredFacts
  <2>3. QED
    BY <2>1, <2>2
<1>3. SessionsOK /\ AllCounted
  BY <1>2 DEF SessionsOK, AllCounted
<1>4. TablesOK
  <2>1. Slots = {}
    BY <1>2 DEF Slots, Live
  <2>2. DOMAIN entries = {}
    OBVIOUS
  <2>3. IsFiniteSet({}) /\ Cardinality({}) = 0
    BY FS_EmptySet
  <2>4. QED
    BY <2>1, <2>2, <2>3, LimitsNumbers DEF TablesOK
<1>5. QED
  BY <1>1, <1>3, <1>4 DEF LimitsInv

\* Every step keeps the limits.
LEMMA StepLimits ==
  ASSUME LimitsInv, [Next]_vars
  PROVE  LimitsInv'
<1>1. LimiterInv'
  BY StepLimiter DEF LimitsInv
<1>2. CASE Forgotten
  <2>1. LimitsInit'
    BY <1>2 DEF Forgotten, LimitsInit
  <2>2. LimitsInit' => LimitsInv'
    BY InitLimitsInv, PTL
  <2>3. QED
    BY <2>1, <2>2
<1>3. CASE UNCHANGED limitVars
  BY <1>3 DEF limitVars, LimitsInv, LimiterInv, SessionsOK, AllCounted, TablesOK, Slots, Live
<1>4. QED
  BY <1>1, <1>2, <1>3, StepsOfLimiter, HandshakeLimits, AuthenticateLimits, TickLimits

\* Every step of a process gives out the numbers of keys in order.
LEMMA StepNumbered ==
  ASSUME StartInv, Numbered, NEW p \in Processes, ProcessStep(p)
  PROVE  Numbered'
<1>1. /\ processes[p] \in Process /\ processes[p].key \in Nat /\ processes[p].file \in Files
      /\ processes \in [Processes -> Process]
      /\ files \in [Files -> {Torn} \cup Nat]
      /\ generated \in Nat
      /\ processes[p].key <= generated
  BY DEF StartInv, StartTypeOK, Process, Numbered
<1>2. generated' \in Nat /\ generated <= generated'
  <2>1. generated' = generated \/ generated' = generated + 1
    <3>1. CreateFile(p) => generated' = generated \/ generated' = generated + 1
      BY DEF CreateFile
    <3>2. OpenDatabase(p) => generated' = generated \/ generated' = generated + 1
      BY DEF OpenDatabase
    <3>3. QED
      BY <3>1, <3>2 DEF ProcessStep, Step, Start, Look, ReadFile, FillFile, Listen, Crash
  <2>2. QED
    BY <1>1, <2>1
<1>3. \A f \in Files : files[f] <= generated /\ (files[f] \in Nat \/ files[f] = Torn)
  BY <1>1 DEF Numbered
<1>4. \A f \in Files : files'[f] <= generated'
  <2>1. CASE UNCHANGED files
    BY <1>1, <1>2, <1>3, <2>1 DEF Torn
  <2>2. CASE CreateFile(p)
    <3>1. \A f \in Files : files'[f] = files[f] \/ files'[f] = Torn
      BY <1>1, <2>2 DEF CreateFile
    <3>2. QED
      BY <1>1, <1>2, <1>3, <3>1 DEF Torn
  <2>3. CASE FillFile(p)
    <3>1. /\ \A f \in Files :
               \/ files'[f] = files[f]
               \/ files'[f] = processes[p].key
               \/ processes[p].file = "storage" /\ files'[f] = 1
          /\ generated' = generated
      BY <1>1, <2>3 DEF FillFile
    <3>2. processes[p].file = "storage" => generated >= 1
      <4> SUFFICES ASSUME processes[p].file = "storage" PROVE generated >= 1
        OBVIOUS
      <4>1. processes[p].key = files["private"] /\ files["private"] \notin {Torn, Absent}
        BY DEF StartInv, FilesFound, Whole
      <4>2. QED
        BY <1>1, <4>1 DEF Absent
    <3>3. QED
      BY <1>1, <1>3, <3>1, <3>2 DEF Torn
  <2>4. QED
    BY <2>1, <2>2, <2>3 DEF ProcessStep, Step, Start, Look, ReadFile, OpenDatabase, Listen, Crash
<1>5. processes'[p].key <= generated'
  <2> USE DEF Absent
  <2>1. CASE \E password \in Passwords[p] : Start(p, password)
    BY <1>1, <1>2, <2>1 DEF Start, Down
  <2>2. CASE Look(p)
    BY <1>1, <1>2, <2>2 DEF Look, Process
  <2>3. Fail(p) => processes'[p].key <= generated'
    BY <1>1, <1>2 DEF Fail, Down
  <2>4. ASSUME NEW key \in Nat, Proceed(p, key), key <= generated
        PROVE  processes'[p].key <= generated'
    <3>1. processes'[p].key \in {key, processes[p].key}
      BY <2>4, ProceedFields, <1>1 DEF StartInv, Files
    <3>2. QED
      BY <1>1, <1>2, <2>4, <3>1
  <2>5. CASE ReadFile(p)
    <3>1. CASE Acceptable(p)
      <4>1. Content(p) \in Nat /\ Content(p) <= generated
        BY <1>1, <1>3, <3>1 DEF Acceptable, Content
      <4>2. \E key \in {Content(p), processes[p].key} : Proceed(p, key)
        BY <2>5, <3>1 DEF ReadFile
      <4>3. QED
        BY <1>1, <2>4, <4>1, <4>2
    <3>2. CASE ~Acceptable(p)
      BY <2>3, <2>5, <3>2 DEF ReadFile
    <3>3. QED
      BY <3>1, <3>2
  <2>6. CASE CreateFile(p)
    <3>1. CASE MayCreate(processes[p].file)
      BY <1>1, <1>2, <2>6, <3>1 DEF CreateFile, Process
    <3>2. CASE ~MayCreate(processes[p].file)
      BY <2>3, <2>6, <3>2 DEF CreateFile
    <3>3. QED
      BY <3>1, <3>2
  <2>7. CASE FillFile(p)
    BY <1>1, <2>4, <2>7 DEF FillFile
  <2>8. CASE OpenDatabase(p)
    BY <1>1, <1>2, <2>3, <2>8 DEF OpenDatabase, Process
  <2>9. CASE Listen(p)
    BY <1>1, <1>2, <2>3, <2>9 DEF Listen, Process
  <2>10. CASE Crash(p)
    BY <2>3, <2>10 DEF Crash
  <2>11. QED
    BY <2>1, <2>2, <2>5, <2>6, <2>7, <2>8, <2>9, <2>10 DEF ProcessStep, Step
<1>6. ASSUME NEW o \in Processes, o # p
      PROVE  processes'[o].key <= generated'
  <2>1. processes'[o] = processes[o] /\ processes[o].key \in Nat /\ processes[o].key <= generated
    BY <1>1, <1>6, OthersStay DEF Numbered, Process
  <2>2. QED
    BY <1>1, <1>2, <2>1
<1>7. QED
  BY <1>4, <1>5, <1>6 DEF Numbered

\* A session is live no longer than its lifetime, and an address that is let open no more
\* than so many sessions in a window never has as many as the store takes.
LEMMA CountedIsFew ==
  ASSUME NEW s, Line(s), NEW entry \in Entry, Counted(s, entry), Budgeted(entry)
  PROVE  Len(Unexpired(s)) < MAX_SESSIONS
<1> DEFINE u == Unexpired(s)
           N == SESSION_LIFETIME \div WINDOW
           M == MAX_HANDSHAKES_PER_WINDOW
<1>1. /\ Len(s) \in Nat /\ Len(u) \in Nat /\ Len(u) <= Len(s)
      /\ DOMAIN s = 1..Len(s)
      /\ \A k \in DOMAIN s : IsLive(s[k]) <=> k > Len(s) - Len(u)
  BY UnexpiredFacts
<1>2. N \in Nat /\ N * WINDOW = SESSION_LIFETIME /\ (N + 1) * M <= MAX_SESSIONS
  <2>1. SESSION_LIFETIME % WINDOW = 0 /\ (N + 1) * M <= MAX_SESSIONS
    BY LimitsAssumption
  <2>2. QED
    BY <2>1, LimitsNumbers
<1> HIDE DEF u, N
<1>3. SUFFICES ASSUME Len(u) >= MAX_SESSIONS PROVE FALSE
  BY <1>1, LimitsNumbers DEF u
<1>4. (N + 1) * M = N * M + M /\ N * M \in Nat
  BY <1>2, LimitsNumbers
<1> DEFINE k == Len(s) - Len(u) + 1
           h == entry.handshakes
           c == N * M
<1>5. Len(u) >= c + M /\ c \in Nat
  BY <1>1, <1>2, <1>3, <1>4, LimitsNumbers
<1> HIDE DEF c
<1>6. k \in DOMAIN s /\ IsLive(s[k]) /\ Len(s) - k + 1 = Len(u)
  BY <1>1, <1>5, LimitsNumbers
<1> HIDE DEF k
<1>7. h \in 1..M
  BY DEF Budgeted
<1>8. (Len(s) - k + 1) - entry.handshakes >= N * M
  <2> HIDE DEF h
  <2>1. Len(u) - h >= c
    BY <1>1, <1>5, <1>7, LimitsNumbers
  <2>2. QED
    BY <1>6, <2>1 DEF c, h
<1>9. Age(s[k]) >= entry.window + N * WINDOW
  BY <1>2, <1>6, <1>8 DEF Counted
<1>10. entry.window \in Nat
  BY DEF Entry
<1>11. Age(s[k]) = SESSION_LIFETIME - s[k].left /\ s[k].left \in 0..SESSION_LIFETIME /\ s[k].left > 0
  BY <1>6, SequenceFacts DEF Age, IsLive
<1>12. Age(s[k]) >= SESSION_LIFETIME
  BY <1>2, <1>9, <1>10, <1>11, LimitsNumbers
<1>13. QED
  BY <1>11, <1>12, LimitsNumbers

\* The limits hold where the invariants do.
LEMMA LimitsFollow == StartInv /\ Numbered /\ LimitsInv => LimitsHold
<1> SUFFICES ASSUME StartInv, Numbered, LimitsInv PROVE LimitsHold
  OBVIOUS
<1>1. LifeTypeOK
  <2>1. \A p \in Processes : processes[p].stage \in Stages /\ processes[p].file \in Files
    BY DEF StartInv, StartTypeOK, Process
  <2>2. \A f \in Files : files[f] \in {Torn} \cup 0..generated
    BY DEF StartInv, StartTypeOK, Numbered
  <2>3. listener \in Processes \cup {Nobody}
    BY DEF StartInv, StartTypeOK
  <2>4. /\ DOMAIN entries \subseteq Addresses
        /\ Cardinality(DOMAIN entries) <= MAX_TRACKED_ADDRESSES
        /\ \A a \in DOMAIN entries :
             /\ entries[a].handshakes <= MAX_HANDSHAKES_PER_WINDOW
             /\ entries[a].failed <= MAX_FAILURES
    BY DEF LimitsInv, TablesOK, LimiterInv, Budgeted, EntryIsSound
  <2>5. StoredSessions <= MAX_SESSIONS
    BY DEF LimitsInv, TablesOK, StoredSessions, Slots
  <2>6. QED
    BY <2>1, <2>2, <2>3, <2>4, <2>5 DEF LifeTypeOK
<1>2. ASSUME NEW a \in Addresses, Live(a) # <<>>
      PROVE  /\ a \in DOMAIN entries
             /\ entries[a].seen < RETENTION
  <2> DEFINE s == sessions[a]
             u == Unexpired(s)
  <2>1. Line(s)
    BY DEF LimitsInv, SessionsOK
  <2>2. /\ Len(s) \in Nat /\ Len(u) \in Nat /\ Len(u) <= Len(s) /\ u \in Seq(Session)
        /\ DOMAIN s = 1..Len(s)
        /\ \A k \in DOMAIN s : IsLive(s[k]) <=> k > Len(s) - Len(u)
    BY <2>1, UnexpiredFacts
  <2>3. u # <<>>
    BY <1>2 DEF Live
  <2> HIDE DEF u
  <2>4. Len(u) > 0
    BY <2>2, <2>3, EmptySeq
  <2>5. Len(s) \in DOMAIN s /\ IsLive(s[Len(s)])
    BY <2>2, <2>4
  <2>6. a \in DOMAIN entries
    BY <2>5 DEF LimitsInv, AllCounted
  <2>7. entries[a] \in Entry /\ Counted(s, entries[a])
    BY <2>6 DEF LimitsInv, AllCounted, LimiterInv
  <2>8. ~(entries[a].seen >= RETENTION)
    BY <2>1, <2>5, <2>7, ForgottenHaveNone
  <2>9. entries[a].seen \in Nat /\ RETENTION \in Nat
    BY <2>7, LimitsTypes DEF Entry
  <2>10. QED
    BY <2>6, <2>8, <2>9
<1>3. ASSUME NEW a \in Addresses
      PROVE  Len(Live(a)) < MAX_SESSIONS
  <2>1. Line(sessions[a])
    BY DEF LimitsInv, SessionsOK
  <2>2. CASE a \in DOMAIN entries
    BY <2>1, <2>2, CountedIsFew DEF LimitsInv, LimiterInv, AllCounted, TablesOK, Live
  <2>3. CASE a \notin DOMAIN entries
    <3>1. Live(a) = <<>>
      BY <1>2, <2>3
    <3>2. MAX_SESSIONS > 0
      <4> DEFINE N == SESSION_LIFETIME \div WINDOW
                 M == MAX_HANDSHAKES_PER_WINDOW
      <4>1. N \in Nat /\ (N + 1) * M <= MAX_SESSIONS
        BY LimitsNumbers, LimitsAssumption
      <4> HIDE DEF N
      <4>2. (N + 1) * M = N * M + M /\ N * M \in Nat
        BY <4>1, LimitsNumbers
      <4>3. QED
        BY <4>1, <4>2, LimitsNumbers
    <3>3. QED
      BY <3>1, <3>2
  <2>4. QED
    BY <2>2, <2>3
<1>4. QED
  BY <1>1, <1>2, <1>3 DEF LimitsHold, OneAddressNeverFills, EntryOutlivesSessions

\* No table, budget or store exceeds its limit, one address alone never fills the session
\* store, and whoever can still fail on a session is remembered (rate_limit.rs:29, 47, 57;
\* session.rs:54).
THEOREM LimitsAreKept == Spec => []LimitsHold
<1>1. Init => StartInv /\ Numbered /\ LimitsInv
  <2>1. Init => Numbered
    BY DEF Init, StartInit, Numbered, Absent, Down
  <2>2. QED
    BY <2>1, InitStartInv, InitLimitsInv DEF Init
<1>2. StartInv /\ Numbered /\ LimitsInv /\ [Next]_vars => (StartInv /\ Numbered /\ LimitsInv)'
  <2> SUFFICES ASSUME StartInv, Numbered, LimitsInv, [Next]_vars
               PROVE  (StartInv /\ Numbered /\ LimitsInv)'
    OBVIOUS
  <2>1. StartInv'
    BY StepStartInv
  <2>2. Numbered'
    <3>1. CASE UNCHANGED startVars
      BY <3>1 DEF startVars, Numbered
    <3>2. QED
      BY <3>1, StepsOfProcesses, StepNumbered
  <2>3. LimitsInv'
    BY StepLimits
  <2>4. QED
    BY <2>1, <2>2, <2>3
<1>3. StartInv /\ Numbered /\ LimitsInv => LimitsHold
  BY LimitsFollow
<1>4. QED
  BY <1>1, <1>2, <1>3, PTL DEF Spec
=============================================================================

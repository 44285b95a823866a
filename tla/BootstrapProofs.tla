-------------------------- MODULE BootstrapProofs --------------------------
(* Theorems about Bootstrap, for every value of its constants. *)
EXTENDS Bootstrap, FiniteSetTheorems, TLAPS

-----------------------------------------------------------------------------
(* The script: where each step is, and what going on to the next one does. *)

(* The run is at a step of its mode. *)
Located ==
  /\ mode \in {"bootstrap", "prod", "local", "idle"}
  /\ mode = "bootstrap" => pc \in 1 .. 14
  /\ mode = "prod" => pc \in 1 .. 3
  /\ mode = "local" => pc \in 1 .. 5

LEMMA Lengths ==
  /\ DOMAIN Script = {"bootstrap", "prod", "local"}
  /\ DOMAIN Script["bootstrap"] = 1 .. 14 /\ Len(Script["bootstrap"]) = 14
  /\ DOMAIN Script["prod"] = 1 .. 3 /\ Len(Script["prod"]) = 3
  /\ DOMAIN Script["local"] = 1 .. 5 /\ Len(Script["local"]) = 5
  BY DEF Script

(* Which step is where. *)
LEMMA Places ==
  ASSUME Located, NEW step, At(step)
  PROVE  /\ mode \in {"bootstrap", "prod", "local"}
         /\ step = "discover" => mode = "bootstrap" /\ pc = 1
         /\ step = "ask" => mode = "bootstrap" /\ pc = 2
         /\ step = "backendCopy" => mode = "bootstrap" /\ pc = 3
         /\ step = "backendSet" => mode = "bootstrap" /\ pc = 4
         /\ step = "frontendCopy" => mode = "bootstrap" /\ pc = 5
         /\ step = "frontendSet" => mode = "bootstrap" /\ pc = 6
         /\ step = "admin" => mode = "bootstrap" /\ pc = 8
         /\ step = "orphans" => mode = "bootstrap" /\ pc = 9
         /\ step = "verify" => mode = "bootstrap" /\ pc = 11
         /\ step = "login" => mode = "bootstrap" /\ pc = 12
         /\ step = "submit" => mode = "bootstrap" /\ pc = 13
         /\ step = "poll" => mode = "bootstrap" /\ pc = 14
         /\ step = "envs" => mode \in {"prod", "local"} /\ pc = 1
         /\ step = "build" => \/ mode = "bootstrap" /\ pc = 7
                              \/ mode = "prod" /\ pc = 2
                              \/ mode = "local" /\ pc = 3
         /\ step = "pm2" => \/ mode = "bootstrap" /\ pc = 10
                            \/ mode = "prod" /\ pc = 3
         /\ step = "stopPm2" => mode = "local" /\ pc = 2
         /\ step = "dev" => mode = "local" /\ pc = 4
         /\ step = "wait" => mode = "local" /\ pc = 5
<1>1. CASE mode = "bootstrap"
  BY <1>1 DEF Located, At, Script
<1>2. CASE mode = "prod"
  BY <1>2 DEF Located, At, Script
<1>3. CASE mode = "local"
  BY <1>3 DEF Located, At, Script
<1>. QED
  BY <1>1, <1>2, <1>3 DEF Located, At

(* Going on to the next step, or to the end of the run. *)
Onward(n) ==
  \/ mode' = mode /\ pc' = pc + n /\ ready' = ready
  \/ /\ mode' = "idle" /\ pc' = 0 /\ (ready' <=> mode = "bootstrap")
     /\ mode = "bootstrap" => pc + n > 14

LEMMA SkipTo ==
  ASSUME Located, mode # "idle", NEW n \in 1 .. 4, Skip(n)
  PROVE  Located' /\ Onward(n)
<1>. DEFINE last == Len(Script[mode])
<1>1. mode \in {"bootstrap", "prod", "local"} /\ pc \in Nat \ {0}
  BY DEF Located
<1>2. /\ mode = "bootstrap" => last = 14
      /\ mode = "prod" => last = 3
      /\ mode = "local" => last = 5
  BY Lengths
<1>. HIDE DEF last
<1>3. CASE pc + n <= last
  <2>1. mode' = mode /\ pc' = pc + n /\ ready' = ready
    BY <1>3 DEF Skip, last
  <2>2. Located'
    BY <1>1, <1>2, <1>3, <2>1 DEF Located
  <2>. QED
    BY <2>1, <2>2 DEF Onward
<1>4. CASE ~(pc + n <= last)
  <2>1. mode' = "idle" /\ pc' = 0
    BY <1>4 DEF Skip, last
  <2>2. ready' <=> mode = "bootstrap"
    <3>1. ready' = (mode = "bootstrap")
      BY <1>4 DEF Skip, last
    <3>. QED
      BY ONLY <3>1
  <2>3. mode = "bootstrap" => pc + n > 14
    BY <1>1, <1>2, <1>4
  <2>4. Located'
    BY <2>1 DEF Located
  <2>. QED
    BY <2>1, <2>2, <2>3, <2>4 DEF Onward
<1>. QED
  BY <1>3, <1>4

-----------------------------------------------------------------------------
(* The keys of an env file are set one after the other. *)

Prefix(keys, n) == {keys[i] : i \in 1 .. n}

(* The first n keys are n, and setting the next one gives the first n + 1. *)
LEMMA PrefixKeys ==
  ASSUME NEW S, NEW keys \in Seq(S), NEW n \in 0 .. Len(keys),
         \A i, k \in 1 .. Len(keys) : keys[i] = keys[k] => i = k
  PROVE  /\ Cardinality(Prefix(keys, n)) = n
         /\ Prefix(keys, n) \subseteq {keys[i] : i \in DOMAIN keys}
         /\ Prefix(keys, n) \cup {keys[n + 1]} = Prefix(keys, n + 1)
<1>. DEFINE f == [i \in 1 .. n |-> keys[i]]
<1>0. \A i \in 1 .. n : i \in 1 .. Len(keys) /\ f[i] = keys[i]
  OBVIOUS
<1>1. f \in Bijection(1 .. n, Prefix(keys, n))
  <2>1. f \in [1 .. n -> Prefix(keys, n)]
    BY DEF Prefix
  <2>2. \A a, b \in 1 .. n : f[a] = f[b] => a = b
    BY <1>0
  <2>3. \A t \in Prefix(keys, n) : \E a \in 1 .. n : f[a] = t
    BY <1>0 DEF Prefix
  <2>. QED
    BY <2>1, <2>2, <2>3 DEF Bijection, Injection, Surjection, IsInjective
<1>2. ExistsBijection(1 .. n, Prefix(keys, n))
  BY <1>1 DEF ExistsBijection
<1>3. Cardinality(Prefix(keys, n)) = n
  BY <1>2, FS_CountingElements
<1>4. 1 .. n + 1 = 1 .. n \cup {n + 1}
  OBVIOUS
<1>5. Prefix(keys, n + 1) = Prefix(keys, n) \cup {keys[n + 1]}
  BY <1>4 DEF Prefix
<1>. QED
  BY <1>3, <1>5 DEF Prefix

(* The names of the keys. *)
BackendNames == {"JWT_SECRET", "WORK_DIR", "CLAUDE_BIN", "DB_PATH"}
FrontendNames == {"AUTH_SECRET", "NEXTAUTH_SECRET", "NEXTAUTH_URL",
                  "BACKEND_URL", "NEXT_PUBLIC_BACKEND_URL"}

LEMMA KeysDistinct ==
  /\ BackendKeys \in Seq(BackendNames) /\ Len(BackendKeys) = 4
  /\ \A i, k \in 1 .. 4 : BackendKeys[i] = BackendKeys[k] => i = k
  /\ FrontendKeys \in Seq(FrontendNames) /\ Len(FrontendKeys) = 5
  /\ \A i, k \in 1 .. 5 : FrontendKeys[i] = FrontendKeys[k] => i = k
<1>1. BackendKeys \in Seq(BackendNames) /\ Len(BackendKeys) = 4
  <2>1. BackendKeys \in Seq(BackendNames)
    BY DEF BackendKeys, BackendNames
  <2>2. Len(BackendKeys) = 4
    BY DEF BackendKeys
  <2>. QED
    BY <2>1, <2>2
<1>2. FrontendKeys \in Seq(FrontendNames) /\ Len(FrontendKeys) = 5
  <2>1. FrontendKeys \in Seq(FrontendNames)
    BY DEF FrontendKeys, FrontendNames
  <2>2. Len(FrontendKeys) = 5
    BY DEF FrontendKeys
  <2>. QED
    BY <2>1, <2>2
<1>3. /\ BackendKeys[1] = "JWT_SECRET" /\ BackendKeys[2] = "WORK_DIR"
      /\ BackendKeys[3] = "CLAUDE_BIN" /\ BackendKeys[4] = "DB_PATH"
  BY DEF BackendKeys
<1>4. /\ FrontendKeys[1] = "AUTH_SECRET" /\ FrontendKeys[2] = "NEXTAUTH_SECRET"
      /\ FrontendKeys[3] = "NEXTAUTH_URL" /\ FrontendKeys[4] = "BACKEND_URL"
      /\ FrontendKeys[5] = "NEXT_PUBLIC_BACKEND_URL"
  BY DEF FrontendKeys
<1>5. \A i \in 1 .. 5 : i \in {1, 2, 3, 4, 5} /\ (i \in 1 .. 4 <=> i # 5)
  OBVIOUS
<1>6. \A i, k \in 1 .. 4 : BackendKeys[i] = BackendKeys[k] => i = k
  BY <1>3, <1>5
<1>7. \A i, k \in 1 .. 5 : FrontendKeys[i] = FrontendKeys[k] => i = k
  BY <1>4, <1>5
<1>. QED
  BY <1>1, <1>2, <1>6, <1>7

(* What there is of a file is its first keys. *)
Incomplete(file, keys) ==
  \E n \in 0 .. Len(keys) : n # Len(keys) /\ file.set = Prefix(keys, n)
Whole(file, keys) == file.set = Prefix(keys, Len(keys))

(* The properties' notion of a complete file is this one. *)
LEMMA WholeIsComplete ==
  ASSUME NEW S, NEW keys \in Seq(S),
         \A i, k \in 1 .. Len(keys) : keys[i] = keys[k] => i = k,
         NEW file, file # None
  PROVE  /\ Whole(file, keys) => Complete(file, keys)
         /\ Incomplete(file, keys) => ~Complete(file, keys)
<1>1. Len(keys) \in 0 .. Len(keys)
  OBVIOUS
<1>. QED
  BY <1>1, PrefixKeys DEF Whole, Incomplete, Complete

LEMMA OrderBegun ==
  ASSUME NEW S, NEW keys \in Seq(S), Len(keys) # 0, NEW file, file.set = {}
  PROVE  Incomplete(file, keys)
<1>. Prefix(keys, 0) = {} /\ 0 \in 0 .. Len(keys)
  BY DEF Prefix
<1>. QED
  BY DEF Incomplete

(* Setting one more key of an incomplete file. *)
LEMMA OrderContinued ==
  ASSUME NEW S, NEW keys \in Seq(S),
         \A i, k \in 1 .. Len(keys) : keys[i] = keys[k] => i = k,
         NEW file \in EnvFiles(keys), Incomplete(file, keys)
  PROVE  /\ SetNext(file, keys) \in EnvFiles(keys)
         /\ SetNext(file, keys).by = file.by
         /\ IF Cardinality(SetNext(file, keys).set) = Len(keys)
              THEN Whole(SetNext(file, keys), keys)
              ELSE Incomplete(SetNext(file, keys), keys)
<1>. DEFINE next == SetNext(file, keys)
<1>1. PICK n \in 0 .. Len(keys) : file.set = Prefix(keys, n) /\ n # Len(keys)
  BY DEF Incomplete
<1>2. n + 1 \in 0 .. Len(keys) /\ Len(keys) \in Nat
  BY <1>1
<1>3. /\ next = [by |-> file.by, set |-> Prefix(keys, n + 1)]
      /\ next.set = Prefix(keys, n + 1) /\ next.by = file.by
  <2>1. /\ Cardinality(Prefix(keys, n)) = n
        /\ Prefix(keys, n) \cup {keys[n + 1]} = Prefix(keys, n + 1)
    BY PrefixKeys
  <2>2. next = [file EXCEPT !.set = Prefix(keys, n + 1)]
    BY <1>1, <2>1 DEF SetNext
  <2>3. file = [by |-> file.by, set |-> file.set]
    BY DEF EnvFiles
  <2>. QED
    BY <2>2, <2>3
<1>4. Cardinality(next.set) = n + 1
  BY <1>2, <1>3, PrefixKeys
<1>5. next \in EnvFiles(keys)
  BY <1>2, <1>3, PrefixKeys DEF EnvFiles
<1>6. CASE n + 1 = Len(keys)
  BY <1>3, <1>4, <1>5, <1>6 DEF Whole
<1>7. CASE n + 1 # Len(keys)
  <2>1. Incomplete(next, keys)
    BY <1>2, <1>3, <1>7 DEF Incomplete
  <2>. QED
    BY <1>3, <1>4, <1>5, <1>7, <2>1
<1>. QED
  BY <1>6, <1>7

-----------------------------------------------------------------------------
(* Types. *)

(* What the run, the operator's answers and the services are. *)
ControlTyped ==
  /\ Located
  /\ run \in 0 .. MaxRuns /\ (mode # "idle" => run # 0)
  /\ dir \in Dirs /\ pass \in Passwords \cup {None}
  /\ admin \in [Databases -> Passwords \cup {None}]
  /\ polls \in 0 .. MaxPolls - 1
FlagsTyped == /\ force \in BOOLEAN /\ undeleted \in BOOLEAN
              /\ port \in {"free", "legacy", "pm2", "local", "left"}
ApiTyped == api # None => api \in Apis /\ api.secret <= run /\ api.by <= run

(* A file is written key by key. It exists, and lacks a key, while its keys
   are being set. *)
Setting(n) == mode = "bootstrap" /\ pc = n
FileKept(file, keys) ==
  file # None => /\ file \in EnvFiles(keys) /\ file.by <= run
                 /\ Incomplete(file, keys) \/ Whole(file, keys)
FilesTyped ==
  /\ FileKept(benv, BackendKeys) /\ FileKept(fenv, FrontendKeys)
  /\ Setting(4) => benv # None /\ Incomplete(benv, BackendKeys)
  /\ Setting(6) => fenv # None /\ Incomplete(fenv, FrontendKeys)

TypeInv == ControlTyped /\ FlagsTyped /\ ApiTyped /\ FilesTyped

LEMMA TypeInit == Init => TypeInv
<1>. SUFFICES ASSUME Init PROVE TypeInv
  OBVIOUS
<1>1. ControlTyped
  BY DirAssumption, BoundsAssumption DEF Init, ControlTyped, Located
<1>2. FlagsTyped
  BY DEF Init, FlagsTyped
<1>3. ApiTyped /\ FilesTyped
  BY DEF Init, ApiTyped, FilesTyped, FileKept, Setting
<1>. QED
  BY <1>1, <1>2, <1>3 DEF TypeInv

LEMMA BeginPlace ==
  ASSUME NEW m, NEW f, Begin(m, f), m \in DOMAIN Script
  PROVE  Located' /\ mode' \in {"bootstrap", "prod", "local"} /\ pc' = 1
  BY Lengths DEF Begin, Located

LEMMA ControlStep == ASSUME TypeInv, Next PROVE ControlTyped'
<1>. USE BoundsAssumption, DirAssumption DEF ControlTyped, Onward
<1>t. ControlTyped
  BY DEF TypeInv
<1>1. ASSUME NEW m \in DOMAIN Script, NEW f \in BOOLEAN, Begin(m, f)
      PROVE  ControlTyped'
  <2>1. Located' /\ mode' # "idle"
    BY <1>1, BeginPlace
  <2>2. run' \in 0 .. MaxRuns /\ run' # 0
    BY <1>t, <1>1 DEF Begin
  <2>3. UNCHANGED <<dir, pass, admin>> /\ polls' = 0
    BY <1>1 DEF Begin
  <2>. QED
    BY <1>t, <2>1, <2>2, <2>3
<1>2. CASE Stop
  BY <1>t, <1>2 DEF Stop, files, answers, services, smokeVars, Located
<1>3. CASE JobMoves \/ DevDies \/ Restart
  BY <1>t, <1>3 DEF JobMoves, DevDies, Restart, files, answers, services,
                    smokeVars, Located
<1>4. ASSUME NEW n \in 1 .. 4, Skip(n), mode # "idle"
      PROVE  Located' /\ (mode' # "idle" => mode # "idle")
  BY <1>t, <1>4, SkipTo
<1>5. Advance => Skip(1)
  BY DEF Advance
<1>6. CASE Discover \/ Build \/ Envs \/ Orphans \/ StopPm2 \/ StartDev \/ StopDev
           \/ Pm2
  <2>1. Skip(1) /\ mode # "idle"
    BY <1>6, <1>5 DEF Discover, Build, Envs, Orphans, StopPm2, StartDev,
                      StopDev, Pm2, At
  <2>2. UNCHANGED <<run, dir, pass, admin, polls>>
    BY <1>6 DEF Discover, Build, Envs, Orphans, StopPm2, StartDev, StopDev, Pm2,
                answers, smokeVars
  <2>. QED
    BY <1>t, <1>4, <2>1, <2>2
<1>7. CASE Ask
  <2>1. Skip(1) /\ mode # "idle"
    BY <1>7, <1>5 DEF Ask, At
  <2>. QED
    BY <1>t, <1>4, <1>7, <2>1 DEF Ask, smokeVars
<1>8. CASE BackendCopy \/ FrontendCopy
  <2>1. (Skip(1) \/ Skip(2)) /\ mode # "idle"
    BY <1>8, <1>5 DEF BackendCopy, FrontendCopy, At
  <2>. QED
    BY <1>t, <1>4, <1>8, <2>1 DEF BackendCopy, FrontendCopy, smokeVars, answers
<1>9. CASE BackendSet \/ FrontendSet
  <2>1. (Skip(1) \/ UNCHANGED <<mode, pc>>) /\ mode # "idle"
    BY <1>9, <1>5 DEF BackendSet, FrontendSet, At
  <2>2. Located'
    BY <1>t, <1>4, <2>1 DEF Located
  <2>. QED
    BY <1>t, <1>9, <2>1, <2>2 DEF BackendSet, FrontendSet, smokeVars, answers
<1>10. CASE Admin
  <2>1. Skip(1) /\ mode # "idle"
    BY <1>10, <1>5 DEF Admin, At
  <2>. QED
    BY <1>t, <1>4, <1>10, <2>1
       DEF Admin, EnvDatabase, Databases, smokeVars, answers
<1>11. CASE Verify \/ Login \/ Submit
  <2>1. (Skip(1) \/ Skip(2) \/ Skip(3) \/ Skip(4)) /\ mode # "idle"
    BY <1>11, <1>5 DEF Verify, Login, Submit, At
  <2>2. UNCHANGED <<run, dir, pass, admin, polls>>
    BY <1>11 DEF Verify, Login, Submit, smokeVars, answers
  <2>. QED
    BY <1>t, <1>4, <2>1, <2>2
<1>12. CASE Poll
  <2>1. (Skip(1) \/ UNCHANGED <<mode, pc>>) /\ mode # "idle"
    BY <1>12, <1>5 DEF Poll, At
  <2>2. Located'
    BY <1>t, <1>4, <2>1 DEF Located
  <2>3. polls' \in 0 .. MaxPolls - 1
    <3>1. \/ polls' = polls
          \/ polls < MaxPolls - 1 /\ polls' = polls + 1
      BY ONLY <1>12 DEF Poll
    <3>. QED
      BY <1>t, <3>1
  <2>. QED
    BY <1>t, <1>12, <2>1, <2>2, <2>3 DEF Poll, answers
<1>. QED
  BY <1>1, <1>2, <1>3, <1>6, <1>7, <1>8, <1>9, <1>10, <1>11, <1>12
     DEF Next, Step

LEMMA FlagsStep == ASSUME TypeInv, Next PROVE FlagsTyped'
<1>1. FlagsTyped
  BY DEF TypeInv
<1>2. ASSUME NEW m \in DOMAIN Script, NEW f \in BOOLEAN, Begin(m, f)
      PROVE  FlagsTyped'
  BY <1>1, <1>2 DEF Begin, FlagsTyped, services
<1>3. CASE Stop \/ JobMoves \/ DevDies
  BY <1>1, <1>3 DEF Stop, JobMoves, DevDies, FlagsTyped, services, answers, marks
<1>4. CASE Restart
  BY <1>1, <1>4 DEF Restart, Pm2Listens, FlagsTyped, answers, marks
<1>5. CASE Orphans \/ StopPm2
  BY <1>1, <1>5 DEF Orphans, StopPm2, Deleted, FlagsTyped, answers
<1>6. CASE Pm2 \/ StartDev \/ StopDev
  BY <1>1, <1>6 DEF Pm2, Pm2Listens, StartDev, StopDev, FlagsTyped, answers, marks
<1>7. CASE Step /\ ~(Orphans \/ StopPm2 \/ Pm2 \/ StartDev \/ StopDev)
  BY <1>1, <1>7
     DEF Step, Discover, Ask, BackendCopy, BackendSet, FrontendCopy,
         FrontendSet, Envs, Build, Admin, Verify, Login, Submit, Poll,
         FlagsTyped, services, answers, marks
<1>. QED
  BY <1>2, <1>3, <1>4, <1>5, <1>6, <1>7 DEF Next

(* The server's secret is that of the file's run, or the template's. *)
LEMMA SecretTyped == TypeInv => EnvSecret \in 0 .. run
  BY DEF TypeInv, ControlTyped, FilesTyped, FileKept, EnvFiles, EnvSecret, InEnv

LEMMA ApiStep == ASSUME TypeInv, Next PROVE ApiTyped'
<1>1. ApiTyped /\ run \in 0 .. MaxRuns
  BY DEF TypeInv, ControlTyped
<1>2. CASE Pm2
  <2>1. run # 0
    BY <1>2 DEF TypeInv, ControlTyped, Pm2, At
  <2>2. api' = [secret |-> EnvSecret, dir |-> CfgDir, by |-> run] /\ run' = run
    BY <1>2 DEF Pm2, Started
  <2>3. EnvSecret \in 0 .. MaxRuns /\ EnvSecret <= run
    BY <1>1, SecretTyped, BoundsAssumption
  <2>. QED
    BY <1>1, <2>1, <2>2, <2>3, DirAssumption, BoundsAssumption
       DEF ApiTyped, Apis
<1>3. CASE Restart
  <2>1. EnvSecret \in 0 .. MaxRuns /\ EnvSecret <= run
    BY <1>1, SecretTyped, BoundsAssumption
  <2>2. run' = run /\ api # None
    BY <1>3 DEF Restart
  <2>3. api' = None \/ api' = [api EXCEPT !.secret = EnvSecret]
    BY <1>3 DEF Restart
  <2>. QED
    BY <1>1, <2>1, <2>2, <2>3 DEF ApiTyped, Apis
<1>4. ASSUME (api' = None \/ api' = api), run' \in {run, run + 1} PROVE ApiTyped'
  BY <1>1, <1>4, BoundsAssumption DEF ApiTyped, Apis
<1>5. ASSUME NEW m, NEW f, Begin(m, f) PROVE ApiTyped'
  BY <1>4, <1>5 DEF Begin, services
<1>6. CASE Stop \/ JobMoves \/ DevDies
  BY <1>4, <1>6 DEF Stop, JobMoves, DevDies, services
<1>7. CASE Step /\ ~Pm2
  <2>1. UNCHANGED run
    BY <1>7 DEF Step, Discover, Ask, BackendCopy, BackendSet, FrontendCopy,
         FrontendSet, Envs, Build, Admin, Orphans, Verify, Login, Submit,
         Poll, StopPm2, StartDev, StopDev
  <2>2. api' = None \/ api' = api
    BY <1>7 DEF Step, Discover, Ask, BackendCopy, BackendSet, FrontendCopy,
         FrontendSet, Envs, Build, Admin, Orphans, Verify, Login, Submit,
         Poll, StopPm2, StartDev, StopDev, services
  <2>. QED
    BY <1>4, <2>1, <2>2
<1>. QED
  BY <1>2, <1>3, <1>5, <1>6, <1>7 DEF Next

(* A run is at one of the steps that write the env files, at a later step, or
   no bootstrap at all. *)
Later == mode = "bootstrap" => pc \in 7 .. 14

(* Every step but those that write the env files leaves them alone and does
   not lead to one that sets keys. *)
LEMMA FilesApart ==
  ASSUME TypeInv, Next,
         ~(Discover \/ BackendCopy \/ BackendSet \/ FrontendCopy \/ FrontendSet)
  PROVE  /\ UNCHANGED <<benv, fenv>> /\ run' \in {run, run + 1}
         /\ Setting(4)' => Setting(4)
         /\ Setting(6)' => Setting(6)
<1>. DEFINE Goal == /\ UNCHANGED <<benv, fenv>> /\ run' \in {run, run + 1}
                    /\ Setting(4)' => Setting(4)
                    /\ Setting(6)' => Setting(6)
<1>t. Located
  BY DEF TypeInv, ControlTyped
<1>1. ASSUME NEW m \in DOMAIN Script, NEW f \in BOOLEAN, Begin(m, f) PROVE Goal
  BY <1>1, BeginPlace DEF Begin, Setting, files
<1>2. CASE Stop \/ JobMoves \/ DevDies \/ Restart
  BY <1>2 DEF Stop, JobMoves, DevDies, Restart, Setting, files
<1>3. CASE Ask
  <2>1. pc = 2 /\ Onward(1)
    BY <1>t, <1>3, Places, SkipTo DEF Ask, Advance, At
  <2>. QED
    BY <1>3, <2>1 DEF Ask, Onward, Setting, files
<1>4. CASE Envs \/ Build \/ Admin \/ Orphans \/ Pm2 \/ Verify \/ Login
           \/ Submit \/ StopPm2 \/ StartDev \/ StopDev
  <2>1. Later
    <3>1. \/ At("envs") \/ At("build") \/ At("admin") \/ At("orphans")
          \/ At("pm2") \/ At("verify") \/ At("login") \/ At("submit")
          \/ At("stopPm2") \/ At("dev") \/ At("wait")
      BY <1>4 DEF Envs, Build, Admin, Orphans, Pm2, Verify, Login, Submit,
                  StopPm2, StartDev, StopDev
    <3>2. CASE At("envs") \/ At("stopPm2") \/ At("dev") \/ At("wait")
      BY <1>t, <3>2, Places DEF Later
    <3>3. CASE At("build") \/ At("pm2")
      BY <1>t, <3>3, Places DEF Later
    <3>4. CASE At("admin") \/ At("orphans") \/ At("verify")
      BY <1>t, <3>4, Places DEF Later
    <3>5. CASE At("login") \/ At("submit")
      BY <1>t, <3>5, Places DEF Later
    <3>. QED
      BY <3>1, <3>2, <3>3, <3>4, <3>5
  <2>2. Skip(1) \/ Skip(2) \/ Skip(3) \/ Skip(4)
    BY <1>4 DEF Advance, Envs, Build, Admin, Orphans, Pm2, Verify, Login,
       Submit, StopPm2, StartDev, StopDev
  <2>3. mode # "idle"
    BY <1>4 DEF At, Envs, Build, Admin, Orphans, Pm2, Verify, Login, Submit,
       StopPm2, StartDev, StopDev
  <2>4. Onward(1) \/ Onward(2) \/ Onward(3) \/ Onward(4)
    BY <1>t, <2>2, <2>3, SkipTo
  <2>5. UNCHANGED <<benv, fenv, run>>
    BY <1>4 DEF files, Envs, Build, Admin, Orphans, Pm2, Verify, Login, Submit,
       StopPm2, StartDev, StopDev
  <2>. QED
    BY <2>1, <2>3, <2>4, <2>5 DEF Onward, Later, Setting
<1>5. CASE Poll
  <2>1. mode = "bootstrap" /\ pc = 14
    BY <1>t, <1>5, Places DEF Poll
  <2>2. Skip(1) \/ UNCHANGED <<mode, pc>>
    BY <1>5 DEF Poll, Advance
  <2>3. Onward(1) \/ UNCHANGED <<mode, pc>>
    BY <1>t, <2>1, <2>2, SkipTo
  <2>4. UNCHANGED <<benv, fenv, run>>
    BY <1>5 DEF Poll, files
  <2>. QED
    BY <2>1, <2>3, <2>4 DEF Onward, Setting
<1>. QED
  BY <1>1, <1>2, <1>3, <1>4, <1>5 DEF Next, Step

(* The copy of a template. *)
LEMMA TemplateTyped ==
  ASSUME TypeInv, mode # "idle"
  PROVE  /\ FileKept(Template, BackendKeys) /\ FileKept(Template, FrontendKeys)
         /\ Template # None
         /\ Incomplete(Template, BackendKeys)
         /\ Incomplete(Template, FrontendKeys)
<1>1. run \in 1 .. MaxRuns
  BY BoundsAssumption DEF TypeInv, ControlTyped
<1>2. Template \in EnvFiles(BackendKeys) /\ Template \in EnvFiles(FrontendKeys)
  BY <1>1 DEF Template, EnvFiles
<1>3. Template.set = {} /\ Template.by = run
  BY DEF Template
<1>4. Incomplete(Template, BackendKeys) /\ Incomplete(Template, FrontendKeys)
  <2>1. Incomplete(Template, BackendKeys)
    <3>1. BackendKeys \in Seq(BackendNames) /\ Len(BackendKeys) # 0
      BY KeysDistinct
    <3>. HIDE DEF Template
    <3>. QED
      BY <1>3, <3>1, OrderBegun
  <2>2. Incomplete(Template, FrontendKeys)
    <3>1. FrontendKeys \in Seq(FrontendNames) /\ Len(FrontendKeys) # 0
      BY KeysDistinct
    <3>. HIDE DEF Template
    <3>. QED
      BY <1>3, <3>1, OrderBegun
  <2>. QED
    BY <2>1, <2>2
<1>. QED
  BY <1>1, <1>2, <1>3, <1>4, NoneAssumption DEF FileKept

(* One more key of a file whose keys are being set. *)
LEMMA BackendKeySet ==
  ASSUME FilesTyped, Setting(4)
  PROVE  /\ FileKept(SetNext(benv, BackendKeys), BackendKeys)
         /\ IF Cardinality(SetNext(benv, BackendKeys).set) = Len(BackendKeys)
              THEN Whole(SetNext(benv, BackendKeys), BackendKeys)
              ELSE Incomplete(SetNext(benv, BackendKeys), BackendKeys)
         /\ SetNext(benv, BackendKeys) # None
<1>1. /\ benv \in EnvFiles(BackendKeys) /\ benv.by <= run
      /\ Incomplete(benv, BackendKeys)
  BY DEF FilesTyped, FileKept
<1>2. /\ SetNext(benv, BackendKeys) \in EnvFiles(BackendKeys)
      /\ SetNext(benv, BackendKeys).by = benv.by
      /\ IF Cardinality(SetNext(benv, BackendKeys).set) = Len(BackendKeys)
           THEN Whole(SetNext(benv, BackendKeys), BackendKeys)
           ELSE Incomplete(SetNext(benv, BackendKeys), BackendKeys)
  <2>1. /\ BackendKeys \in Seq(BackendNames)
        /\ \A i, k \in 1 .. Len(BackendKeys) :
             BackendKeys[i] = BackendKeys[k] => i = k
    BY KeysDistinct
  <2>. QED
    BY ONLY <1>1, <2>1, OrderContinued
<1>. QED
  BY <1>1, <1>2, NoneAssumption DEF FileKept

LEMMA FrontendKeySet ==
  ASSUME FilesTyped, Setting(6)
  PROVE  /\ FileKept(SetNext(fenv, FrontendKeys), FrontendKeys)
         /\ IF Cardinality(SetNext(fenv, FrontendKeys).set) = Len(FrontendKeys)
              THEN Whole(SetNext(fenv, FrontendKeys), FrontendKeys)
              ELSE Incomplete(SetNext(fenv, FrontendKeys), FrontendKeys)
         /\ SetNext(fenv, FrontendKeys) # None
<1>1. /\ fenv \in EnvFiles(FrontendKeys) /\ fenv.by <= run
      /\ Incomplete(fenv, FrontendKeys)
  BY DEF FilesTyped, FileKept
<1>2. /\ SetNext(fenv, FrontendKeys) \in EnvFiles(FrontendKeys)
      /\ SetNext(fenv, FrontendKeys).by = fenv.by
      /\ IF Cardinality(SetNext(fenv, FrontendKeys).set) = Len(FrontendKeys)
           THEN Whole(SetNext(fenv, FrontendKeys), FrontendKeys)
           ELSE Incomplete(SetNext(fenv, FrontendKeys), FrontendKeys)
  <2>1. /\ FrontendKeys \in Seq(FrontendNames)
        /\ \A i, k \in 1 .. Len(FrontendKeys) :
             FrontendKeys[i] = FrontendKeys[k] => i = k
    BY KeysDistinct
  <2>. QED
    BY ONLY <1>1, <2>1, OrderContinued
<1>. QED
  BY <1>1, <1>2, NoneAssumption DEF FileKept

(* What the steps that write the env files do. *)
LEMMA FileSteps ==
  ASSUME TypeInv
  PROVE  /\ Discover => /\ pc = 1 /\ Onward(1)
                        /\ \/ force /\ benv' = None /\ fenv' = None
                           \/ UNCHANGED <<benv, fenv>>
         /\ BackendCopy => /\ pc = 3 /\ UNCHANGED fenv
                           /\ \/ Onward(2) /\ benv # None /\ UNCHANGED benv
                              \/ Onward(1) /\ benv = None /\ benv' = Template
         /\ BackendSet =>
              /\ pc = 4 /\ UNCHANGED fenv /\ benv' = SetNext(benv, BackendKeys)
              /\ \/ Whole(benv', BackendKeys) /\ Onward(1)
                 \/ /\ Incomplete(benv', BackendKeys)
                    /\ UNCHANGED <<mode, pc, ready>>
         /\ FrontendCopy => /\ pc = 5 /\ UNCHANGED benv
                            /\ \/ Onward(2) /\ fenv # None /\ UNCHANGED fenv
                               \/ Onward(1) /\ fenv = None /\ fenv' = Template
         /\ FrontendSet =>
              /\ pc = 6 /\ UNCHANGED benv /\ fenv' = SetNext(fenv, FrontendKeys)
              /\ \/ Whole(fenv', FrontendKeys) /\ Onward(1)
                 \/ /\ Incomplete(fenv', FrontendKeys)
                    /\ UNCHANGED <<mode, pc, ready>>
         /\ Discover \/ BackendCopy \/ BackendSet \/ FrontendCopy \/ FrontendSet
              => /\ mode = "bootstrap"
                 /\ UNCHANGED <<run, pass, admin, api, port, undeleted, torn>>
<1>t. Located /\ FilesTyped
  BY DEF TypeInv, ControlTyped
<1>1. ASSUME NEW n \in 1 .. 4, Skip(n), mode = "bootstrap" PROVE Onward(n)
  BY <1>t, <1>1, SkipTo
<1>2. Advance => Skip(1)
  BY DEF Advance
<1>3. /\ Discover => mode = "bootstrap" /\ pc = 1
      /\ BackendCopy => mode = "bootstrap" /\ pc = 3
  BY <1>t, Places DEF Discover, BackendCopy
<1>4. /\ BackendSet => mode = "bootstrap" /\ pc = 4
      /\ FrontendCopy => mode = "bootstrap" /\ pc = 5
  BY <1>t, Places DEF BackendSet, FrontendCopy
<1>5. FrontendSet => mode = "bootstrap" /\ pc = 6
  BY <1>t, Places DEF FrontendSet
<1>6. Discover => /\ pc = 1 /\ Onward(1)
                  /\ \/ force /\ benv' = None /\ fenv' = None
                     \/ UNCHANGED <<benv, fenv>>
  BY <1>1, <1>2, <1>3 DEF Discover, files
<1>7. BackendCopy => /\ pc = 3 /\ UNCHANGED fenv
                     /\ \/ Onward(2) /\ benv # None /\ UNCHANGED benv
                        \/ Onward(1) /\ benv = None /\ benv' = Template
  BY <1>1, <1>2, <1>3 DEF BackendCopy
<1>8. ASSUME BackendSet
      PROVE  /\ pc = 4 /\ UNCHANGED fenv /\ benv' = SetNext(benv, BackendKeys)
             /\ \/ Whole(benv', BackendKeys) /\ Onward(1)
                \/ /\ Incomplete(benv', BackendKeys)
                   /\ UNCHANGED <<mode, pc, ready>>
  <2>1. Setting(4)
    BY <1>4, <1>8 DEF Setting
  <2>2. /\ benv' = SetNext(benv, BackendKeys) /\ UNCHANGED fenv
        /\ IF Cardinality(benv'.set) = Len(BackendKeys)
             THEN Advance ELSE UNCHANGED <<mode, pc, ready>>
    BY <1>8 DEF BackendSet
  <2>. QED
    BY <1>t, <1>1, <1>2, <1>4, <1>8, <2>1, <2>2, BackendKeySet
<1>9. FrontendCopy => /\ pc = 5 /\ UNCHANGED benv
                      /\ \/ Onward(2) /\ fenv # None /\ UNCHANGED fenv
                         \/ Onward(1) /\ fenv = None /\ fenv' = Template
  BY <1>1, <1>2, <1>4 DEF FrontendCopy
<1>10. ASSUME FrontendSet
       PROVE  /\ pc = 6 /\ UNCHANGED benv /\ fenv' = SetNext(fenv, FrontendKeys)
              /\ \/ Whole(fenv', FrontendKeys) /\ Onward(1)
                 \/ /\ Incomplete(fenv', FrontendKeys)
                    /\ UNCHANGED <<mode, pc, ready>>
  <2>1. Setting(6)
    BY <1>5, <1>10 DEF Setting
  <2>2. /\ fenv' = SetNext(fenv, FrontendKeys) /\ UNCHANGED benv
        /\ IF Cardinality(fenv'.set) = Len(FrontendKeys)
             THEN Advance ELSE UNCHANGED <<mode, pc, ready>>
    BY <1>10 DEF FrontendSet
  <2>. QED
    BY <1>t, <1>1, <1>2, <1>5, <1>10, <2>1, <2>2, FrontendKeySet
<1>11. Discover \/ BackendCopy \/ BackendSet \/ FrontendCopy \/ FrontendSet
         => UNCHANGED <<run, pass, admin, api, port, undeleted, torn>>
  BY DEF Discover, BackendCopy, BackendSet, FrontendCopy, FrontendSet,
         answers, services, marks
<1>. QED
  BY <1>3, <1>4, <1>5, <1>6, <1>7, <1>8, <1>9, <1>10, <1>11

LEMMA FilesStep == ASSUME TypeInv, Next PROVE FilesTyped'
<1>t. Located /\ FilesTyped /\ run \in 0 .. MaxRuns
  BY DEF TypeInv, ControlTyped
<1>. USE DEF Setting, Onward
<1>1. CASE ~(Discover \/ BackendCopy \/ BackendSet \/ FrontendCopy \/ FrontendSet)
  <2>1. /\ UNCHANGED <<benv, fenv>> /\ run' \in {run, run + 1}
        /\ Setting(4)' => Setting(4)
        /\ Setting(6)' => Setting(6)
    BY <1>1, FilesApart
  <2>2. ASSUME NEW file, NEW keys, file # None, file \in EnvFiles(keys),
               file.by <= run
        PROVE  file.by <= run'
    BY <1>t, <2>1, <2>2, BoundsAssumption DEF EnvFiles
  <2>. HIDE DEF Setting
  <2>. QED
    BY <1>t, <2>1, <2>2 DEF FilesTyped, FileKept
<1>2. CASE Discover
  <2>1. /\ pc = 1 /\ Onward(1) /\ run' = run
        /\ \/ benv' = None /\ fenv' = None
           \/ UNCHANGED <<benv, fenv>>
    BY <1>2, FileSteps
  <2>. QED
    BY <1>t, <2>1 DEF FilesTyped, FileKept
<1>3. CASE BackendCopy
  <2>1. /\ pc = 3 /\ fenv' = fenv /\ run' = run /\ mode # "idle"
        /\ \/ Onward(2) /\ benv' = benv
           \/ Onward(1) /\ benv' = Template
    BY <1>3, FileSteps
  <2>2. CASE Onward(2) /\ benv' = benv
    BY <1>t, <2>1, <2>2 DEF FilesTyped, FileKept
  <2>3. CASE Onward(1) /\ benv' = Template
    <3>1. /\ FileKept(benv', BackendKeys) /\ benv' # None
          /\ Incomplete(benv', BackendKeys)
      BY <2>1, <2>3, TemplateTyped
    <3>. QED
      BY <1>t, <2>1, <2>3, <3>1 DEF FilesTyped, FileKept
  <2>. QED
    BY <2>1, <2>2, <2>3
<1>4. CASE BackendSet
  <2>1. /\ mode = "bootstrap" /\ pc = 4 /\ fenv' = fenv /\ run' = run
        /\ benv' = SetNext(benv, BackendKeys)
        /\ \/ Onward(1)
           \/ Incomplete(benv', BackendKeys) /\ UNCHANGED <<mode, pc>>
    BY <1>4, FileSteps
  <2>2. FileKept(benv', BackendKeys) /\ benv' # None
    BY <1>t, <2>1, BackendKeySet
  <2>. QED
    BY <1>t, <2>1, <2>2 DEF FilesTyped, FileKept
<1>5. CASE FrontendCopy
  <2>1. /\ pc = 5 /\ benv' = benv /\ run' = run /\ mode # "idle"
        /\ \/ Onward(2) /\ fenv' = fenv
           \/ Onward(1) /\ fenv' = Template
    BY <1>5, FileSteps
  <2>2. CASE Onward(2) /\ fenv' = fenv
    BY <1>t, <2>1, <2>2 DEF FilesTyped, FileKept
  <2>3. CASE Onward(1) /\ fenv' = Template
    <3>1. /\ FileKept(fenv', FrontendKeys) /\ fenv' # None
          /\ Incomplete(fenv', FrontendKeys)
      BY <2>1, <2>3, TemplateTyped
    <3>. QED
      BY <1>t, <2>1, <2>3, <3>1 DEF FilesTyped, FileKept
  <2>. QED
    BY <2>1, <2>2, <2>3
<1>6. CASE FrontendSet
  <2>1. /\ mode = "bootstrap" /\ pc = 6 /\ benv' = benv /\ run' = run
        /\ fenv' = SetNext(fenv, FrontendKeys)
        /\ \/ Onward(1)
           \/ Incomplete(fenv', FrontendKeys) /\ UNCHANGED <<mode, pc>>
    BY <1>6, FileSteps
  <2>2. FileKept(fenv', FrontendKeys) /\ fenv' # None
    BY <1>t, <2>1, FrontendKeySet
  <2>. QED
    BY <1>t, <2>1, <2>2 DEF FilesTyped, FileKept
<1>. QED
  BY <1>1, <1>2, <1>3, <1>4, <1>5, <1>6

LEMMA TypeNext == TypeInv /\ [Next]_vars => TypeInv'
<1>1. ASSUME TypeInv, Next PROVE TypeInv'
  <2>1. ControlTyped' /\ FlagsTyped' /\ ApiTyped' /\ FilesTyped'
    BY <1>1, ControlStep, FlagsStep, ApiStep, FilesStep
  <2>. QED
    BY <2>1 DEF TypeInv
<1>2. ASSUME TypeInv, UNCHANGED vars PROVE TypeInv'
  <2>1. UNCHANGED <<mode, pc, run, force, dir, pass, benv, fenv, admin, api,
                    port, undeleted, polls>>
    BY <1>2 DEF vars, answers, files, services, smokeVars, marks
  <2>2. ControlTyped' /\ FlagsTyped'
    BY <1>2, <2>1 DEF TypeInv, ControlTyped, FlagsTyped, Located
  <2>3. ApiTyped' /\ FilesTyped'
    BY <1>2, <2>1 DEF TypeInv, ApiTyped, FilesTyped, FileKept, Setting
  <2>. QED
    BY <2>2, <2>3 DEF TypeInv
<1>. QED
  BY <1>1, <1>2

(* The type invariant: whatever is run and wherever it is stopped, an env file
   is a file of one of the runs with keys of its template. *)
THEOREM TypeCorrect == Spec => []TypeOK
<1>1. Spec => []TypeInv
  BY TypeInit, TypeNext, PTL DEF Spec
<1>2. TypeInv => TypeOK
  <2>. SUFFICES ASSUME TypeInv PROVE TypeOK
    OBVIOUS
  <2>1. /\ mode \in DOMAIN Script \cup {"idle"}
        /\ mode # "idle" => pc \in DOMAIN Script[mode]
    BY Lengths DEF TypeInv, ControlTyped, Located
  <2>2. ApiTyped /\ run \in 0 .. MaxRuns
    BY DEF TypeInv, ControlTyped
  <2>3. api # None => api \in Apis /\ api.secret <= run /\ api.by <= run
    BY <2>2 DEF ApiTyped
  <2>. QED
    BY <2>1, <2>3
       DEF TypeInv, TypeOK, ControlTyped, FlagsTyped, FilesTyped, FileKept
<1>. QED
  BY <1>1, <1>2, PTL

LEMMA Typed == Spec => []TypeInv
  BY TypeInit, TypeNext, PTL DEF Spec

-----------------------------------------------------------------------------
(* Secrets *)

LEMMA CompleteFiles ==
  /\ benv # None /\ Incomplete(benv, BackendKeys) => ~Complete(benv, BackendKeys)
  /\ fenv # None /\ Incomplete(fenv, FrontendKeys)
       => ~Complete(fenv, FrontendKeys)
<1>1. /\ BackendKeys \in Seq(BackendNames)
      /\ \A i, k \in 1 .. Len(BackendKeys) :
           BackendKeys[i] = BackendKeys[k] => i = k
  BY KeysDistinct
<1>2. /\ FrontendKeys \in Seq(FrontendNames)
      /\ \A i, k \in 1 .. Len(FrontendKeys) :
           FrontendKeys[i] = FrontendKeys[k] => i = k
  BY KeysDistinct
<1>3. benv # None /\ Incomplete(benv, BackendKeys) => ~Complete(benv, BackendKeys)
  BY <1>1, WholeIsComplete
<1>4. fenv # None /\ Incomplete(fenv, FrontendKeys)
        => ~Complete(fenv, FrontendKeys)
  BY <1>2, WholeIsComplete
<1>. QED
  BY <1>3, <1>4

LEMMA SecretsStep ==
  ASSUME TypeInv, [Next]_vars
  PROVE  /\ Complete(benv, BackendKeys) => benv' \in {benv, None}
         /\ Complete(fenv, FrontendKeys) => fenv' \in {fenv, None}
         /\ (benv # None /\ benv' = None) \/ (fenv # None /\ fenv' = None)
              => force
<1>t. FilesTyped
  BY DEF TypeInv
<1>. USE DEF Complete
<1>1. CASE UNCHANGED <<benv, fenv>>
  BY <1>1
<1>2. CASE Discover
  BY <1>2, FileSteps
<1>3. CASE BackendCopy
  <2>1. mode # "idle"
    BY <1>3 DEF BackendCopy, At
  <2>. QED
    BY <1>3, <2>1, FileSteps, TemplateTyped
<1>4. CASE BackendSet
  <2>1. Setting(4) /\ fenv' = fenv /\ benv' = SetNext(benv, BackendKeys)
    BY <1>4, FileSteps DEF Setting
  <2>2. ~Complete(benv, BackendKeys) /\ benv' # None
    BY <1>t, <2>1, CompleteFiles, BackendKeySet DEF FilesTyped
  <2>. QED
    BY <2>1, <2>2
<1>5. CASE FrontendCopy
  <2>1. mode # "idle"
    BY <1>5 DEF FrontendCopy, At
  <2>. QED
    BY <1>5, <2>1, FileSteps, TemplateTyped
<1>6. CASE FrontendSet
  <2>1. Setting(6) /\ benv' = benv /\ fenv' = SetNext(fenv, FrontendKeys)
    BY <1>6, FileSteps DEF Setting
  <2>2. ~Complete(fenv, FrontendKeys) /\ fenv' # None
    BY <1>t, <2>1, CompleteFiles, FrontendKeySet DEF FilesTyped
  <2>. QED
    BY <2>1, <2>2
<1>7. CASE UNCHANGED vars
  BY <1>7 DEF vars, files
<1>. QED
  BY <1>1, <1>2, <1>3, <1>4, <1>5, <1>6, <1>7, FilesApart

(* Once all its keys are set an env file is never changed or replaced, by any
   later run: only a forced bootstrap removes it, before it writes another. *)
THEOREM SecretsSurvive == Spec => SecretsPreserved
<1>1. TypeInv /\ [Next]_vars =>
        [/\ Complete(benv, BackendKeys) => benv' \in {benv, None}
         /\ Complete(fenv, FrontendKeys) => fenv' \in {fenv, None}
         /\ (benv # None /\ benv' = None) \/ (fenv # None /\ fenv' = None)
              => force]_vars
  BY SecretsStep
<1>. QED
  BY <1>1, Typed, PTL DEF Spec, SecretsPreserved

-----------------------------------------------------------------------------
(* What the steps that do not write the env files do. *)

Reached(m, n) == mode = m /\ pc >= n

(* The steps of the smoke test, and the check before them. *)
SmokeTest == Verify \/ Login \/ Submit \/ Poll

LEMMA HostSteps ==
  ASSUME TypeInv
  PROVE  /\ Ask => mode = "bootstrap" /\ pc = 2 /\ Onward(1)
                   /\ UNCHANGED <<admin, api, port, undeleted, torn>>
         /\ Envs => /\ mode \in {"prod", "local"} /\ pc = 1 /\ Onward(1)
                    /\ benv # None /\ fenv # None
                    /\ UNCHANGED <<pass, admin, api, port, undeleted, torn>>
         /\ Build => /\ \/ mode = "bootstrap" /\ pc = 7
                        \/ mode = "prod" /\ pc = 2
                        \/ mode = "local" /\ pc = 3
                     /\ Onward(1)
                     /\ UNCHANGED <<pass, admin, api, port, undeleted, torn>>
         /\ Admin => /\ mode = "bootstrap" /\ pc = 8 /\ Onward(1)
                     /\ admin' = [admin EXCEPT ![EnvDatabase] = pass]
                     /\ UNCHANGED <<pass, api, port, undeleted, torn>>
         /\ Orphans => /\ mode = "bootstrap" /\ pc = 9 /\ Onward(1)
                       /\ port' # "legacy" \/ undeleted'
                       /\ port' \in {port, "free"}
                       /\ UNCHANGED <<pass, admin, api, torn>>
         /\ Pm2 => /\ \/ mode = "bootstrap" /\ pc = 10
                      \/ mode = "prod" /\ pc = 3
                   /\ Onward(1) /\ api' = Started /\ Pm2Listens
                   /\ UNCHANGED <<pass, admin, undeleted, torn>>
         /\ SmokeTest =>
              /\ mode = "bootstrap" /\ pc >= 11
              /\ UNCHANGED <<pass, admin, api, port, undeleted, torn>>
              /\ \/ UNCHANGED <<mode, pc, ready>>
                 \/ \E n \in 1 .. 4 : Onward(n)
<1>t. Located
  BY DEF TypeInv, ControlTyped
<1>1. ASSUME NEW n \in 1 .. 4, Skip(n), mode # "idle" PROVE Onward(n)
  BY <1>t, <1>1, SkipTo
<1>2. Advance => Skip(1)
  BY DEF Advance
<1>3. ASSUME Ask
      PROVE  /\ mode = "bootstrap" /\ pc = 2 /\ Onward(1)
             /\ UNCHANGED <<admin, api, port, undeleted, torn>>
  BY <1>t, <1>1, <1>2, <1>3, Places DEF Ask, services, marks
<1>4. ASSUME Envs
      PROVE  /\ mode \in {"prod", "local"} /\ pc = 1 /\ Onward(1)
             /\ benv # None /\ fenv # None
             /\ UNCHANGED <<pass, admin, api, port, undeleted, torn>>
  BY <1>t, <1>1, <1>2, <1>4, Places DEF Envs, services, marks, answers
<1>5. ASSUME Build
      PROVE  /\ \/ mode = "bootstrap" /\ pc = 7
                \/ mode = "prod" /\ pc = 2
                \/ mode = "local" /\ pc = 3
             /\ Onward(1)
             /\ UNCHANGED <<pass, admin, api, port, undeleted, torn>>
  <2>1. At("build") /\ Skip(1) /\ mode # "idle"
    BY <1>2, <1>5 DEF Build, At
  <2>. QED
    BY <1>t, <1>1, <1>5, <2>1, Places DEF Build, services, marks, answers
<1>6. ASSUME Admin
      PROVE  /\ mode = "bootstrap" /\ pc = 8 /\ Onward(1)
             /\ admin' = [admin EXCEPT ![EnvDatabase] = pass]
             /\ UNCHANGED <<pass, api, port, undeleted, torn>>
  BY <1>t, <1>1, <1>2, <1>6, Places DEF Admin, services, marks, answers
<1>7. ASSUME Orphans
      PROVE  /\ mode = "bootstrap" /\ pc = 9 /\ Onward(1)
             /\ port' # "legacy" \/ undeleted'
             /\ port' \in {port, "free"}
             /\ UNCHANGED <<pass, admin, api, torn>>
  BY <1>t, <1>1, <1>2, <1>7, Places DEF Orphans, Deleted, answers
<1>8. ASSUME Pm2
      PROVE  /\ \/ mode = "bootstrap" /\ pc = 10
                \/ mode = "prod" /\ pc = 3
             /\ Onward(1) /\ api' = Started /\ Pm2Listens
             /\ UNCHANGED <<pass, admin, undeleted, torn>>
  <2>1. At("pm2") /\ Skip(1) /\ mode # "idle"
    BY <1>2, <1>8 DEF Pm2, At
  <2>2. (mode = "bootstrap" /\ pc = 10) \/ (mode = "prod" /\ pc = 3)
    BY <1>t, <2>1, Places
  <2>3. api' = Started /\ Pm2Listens
    BY <1>8 DEF Pm2
  <2>4. UNCHANGED <<pass, admin, undeleted, torn>>
    BY <1>8 DEF Pm2, answers, marks
  <2>. QED
    BY <1>1, <2>1, <2>2, <2>3, <2>4
<1>9. ASSUME SmokeTest
      PROVE  /\ mode = "bootstrap" /\ pc >= 11
             /\ UNCHANGED <<pass, admin, api, port, undeleted, torn>>
             /\ \/ UNCHANGED <<mode, pc, ready>>
                \/ \E n \in 1 .. 4 : Onward(n)
  <2>1. mode = "bootstrap" /\ pc \in {11, 12, 13, 14}
    <3>1. At("verify") \/ At("login") \/ At("submit") \/ At("poll")
      BY <1>9 DEF SmokeTest, Verify, Login, Submit, Poll
    <3>. QED
      BY <1>t, <3>1, Places
  <2>2. \/ UNCHANGED <<mode, pc, ready>>
        \/ Skip(1) \/ Skip(2) \/ Skip(3) \/ Skip(4)
    BY <1>2, <1>9 DEF SmokeTest, Verify, Login, Submit, Poll
  <2>3. \/ UNCHANGED <<mode, pc, ready>>
        \/ Onward(1) \/ Onward(2) \/ Onward(3) \/ Onward(4)
    BY <1>1, <2>1, <2>2
  <2>4. UNCHANGED <<pass, admin, api, port, undeleted, torn>>
    BY <1>9 DEF SmokeTest, Verify, Login, Submit, Poll, services, answers, marks
  <2>. QED
    BY <2>1, <2>3, <2>4
<1>. QED
  BY <1>3, <1>4, <1>5, <1>6, <1>7, <1>8, <1>9

LEMMA LocalSteps ==
  ASSUME TypeInv
  PROVE  /\ StopPm2 => /\ mode = "local" /\ pc = 2 /\ Onward(1)
                       /\ Deleted("pm2")
                       /\ api' = IF undeleted' THEN api ELSE None
                       /\ UNCHANGED <<pass, admin, torn>>
         /\ StartDev => /\ mode = "local" /\ pc = 4 /\ Onward(1)
                        /\ port' = IF port = "free" THEN "local" ELSE port
                        /\ UNCHANGED <<pass, admin, api, undeleted, torn>>
         /\ StopDev => /\ mode = "local" /\ pc = 5 /\ Onward(1)
                       /\ port' = IF port = "local" THEN "left" ELSE port
                       /\ UNCHANGED <<pass, admin, api, undeleted, torn>>
<1>t. Located
  BY DEF TypeInv, ControlTyped
<1>1. ASSUME NEW n \in 1 .. 4, Skip(n), mode # "idle" PROVE Onward(n)
  BY <1>t, <1>1, SkipTo
<1>2. Advance => Skip(1)
  BY DEF Advance
<1>3. ASSUME StopPm2
      PROVE  /\ mode = "local" /\ pc = 2 /\ Onward(1)
             /\ Deleted("pm2")
             /\ api' = IF undeleted' THEN api ELSE None
             /\ UNCHANGED <<pass, admin, torn>>
  BY <1>t, <1>1, <1>2, <1>3, Places DEF StopPm2, answers
<1>4. ASSUME StartDev
      PROVE  /\ mode = "local" /\ pc = 4 /\ Onward(1)
             /\ port' = IF port = "free" THEN "local" ELSE port
             /\ UNCHANGED <<pass, admin, api, undeleted, torn>>
  BY <1>t, <1>1, <1>2, <1>4, Places DEF StartDev, answers, marks
<1>5. ASSUME StopDev
      PROVE  /\ mode = "local" /\ pc = 5 /\ Onward(1)
             /\ port' = IF port = "local" THEN "left" ELSE port
             /\ UNCHANGED <<pass, admin, api, undeleted, torn>>
  BY <1>t, <1>1, <1>2, <1>5, Places DEF StopDev, answers, marks
<1>. QED
  BY <1>3, <1>4, <1>5

(* What happens while a run does nothing, or between two of them. *)
LEMMA HostEvents ==
  /\ JobMoves => UNCHANGED <<mode, pc, ready, pass, admin, api, port, undeleted,
                             torn>>
  /\ DevDies => /\ port \in {"local", "left"} /\ port' = "free"
                /\ UNCHANGED <<mode, pc, ready, pass, admin, api, undeleted,
                               torn>>
  /\ Restart => /\ api # None
                /\ \/ /\ benv # None /\ api' = [api EXCEPT !.secret = EnvSecret]
                      /\ Pm2Listens
                   \/ /\ api' = None
                      /\ port' = IF port = "pm2" THEN "free" ELSE port
                /\ UNCHANGED <<mode, pc, ready, pass, admin, undeleted, torn>>
<1>1. JobMoves => UNCHANGED <<mode, pc, ready, pass, admin, api, port, undeleted,
                              torn>>
  BY DEF JobMoves, answers, services, marks
<1>2. DevDies => /\ port \in {"local", "left"} /\ port' = "free"
                 /\ UNCHANGED <<mode, pc, ready, pass, admin, api, undeleted,
                                torn>>
  BY DEF DevDies, answers, marks
<1>3. Restart => /\ api # None
                 /\ \/ /\ benv # None
                       /\ api' = [api EXCEPT !.secret = EnvSecret]
                       /\ Pm2Listens
                    \/ /\ api' = None
                       /\ port' = IF port = "pm2" THEN "free" ELSE port
                 /\ UNCHANGED <<mode, pc, ready, pass, admin, undeleted, torn>>
  BY DEF Restart, answers, marks
<1>. QED
  BY <1>1, <1>2, <1>3

(* The beginning and the end of a run, whatever it is. *)
LEMMA RunEnds ==
  ASSUME Stop
  PROVE  /\ mode # "idle" /\ mode' = "idle" /\ ~At("wait")
         /\ UNCHANGED <<ready, pass, benv, fenv, admin, api, port, undeleted>>
         /\ ~torn' => ~torn /\ ~Setting(4)
<1>1. /\ mode # "idle" /\ mode' = "idle" /\ ~At("wait")
      /\ UNCHANGED <<ready, pass, benv, fenv, admin, api, port, undeleted>>
  BY DEF Stop, answers, files, services
<1>2. Setting(4) => At("backendSet")
  BY DEF Setting, At, Script
<1>3. ~torn' => ~torn /\ ~At("backendSet")
  <2>1. torn' = (torn \/ At("backendSet") \/ At("frontendSet"))
    BY DEF Stop
  <2>. HIDE DEF At
  <2>. QED
    BY <2>1
<1>. QED
  BY <1>1, <1>2, <1>3

LEMMA RunBegins ==
  ASSUME NEW m \in DOMAIN Script, NEW f, Begin(m, f)
  PROVE  /\ mode = "idle" /\ mode' \in {"bootstrap", "prod", "local"}
         /\ pc' = 1 /\ ~ready'
         /\ UNCHANGED <<pass, benv, fenv, admin, api, port, torn>>
<1>1. mode' \in {"bootstrap", "prod", "local"} /\ pc' = 1
  BY BeginPlace
<1>2. /\ mode = "idle" /\ ready' = FALSE
      /\ UNCHANGED <<pass, benv, fenv, admin, api, port, torn>>
  BY DEF Begin, files, services
<1>. QED
  BY <1>1, <1>2

-----------------------------------------------------------------------------
(* No start without the env files *)

(* A run that has come this far has found or written the files. *)
Configured ==
  /\ Reached("bootstrap", 4) \/ Reached("prod", 2) \/ Reached("local", 2)
       => benv # None
  /\ Reached("bootstrap", 6) \/ Reached("prod", 2) \/ Reached("local", 2)
       => fenv # None

LEMMA ConfiguredStep == ASSUME TypeInv, Configured, Next PROVE Configured'
<1>t. Located /\ FilesTyped
  BY DEF TypeInv, ControlTyped
<1>. USE DEF Configured, Reached, Onward, Located
<1>1. ASSUME NEW m \in DOMAIN Script, NEW f \in BOOLEAN, Begin(m, f)
      PROVE  Configured'
  BY <1>1, RunBegins
<1>2. CASE Stop
  BY <1>2, RunEnds
<1>3. CASE Discover
  BY <1>3, FileSteps
<1>4. CASE BackendCopy
  BY <1>t, <1>4, FileSteps, TemplateTyped
<1>5. CASE BackendSet
  <2>1. Setting(4)
    BY <1>5, FileSteps DEF Setting
  <2>. QED
    BY <1>t, <1>5, <2>1, FileSteps, BackendKeySet
<1>6. CASE FrontendCopy
  BY <1>t, <1>6, FileSteps, TemplateTyped
<1>7. CASE FrontendSet
  <2>1. Setting(6)
    BY <1>7, FileSteps DEF Setting
  <2>. QED
    BY <1>t, <1>7, <2>1, FileSteps, FrontendKeySet
<1>8. CASE ~(Discover \/ BackendCopy \/ BackendSet \/ FrontendCopy \/ FrontendSet)
  <2>1. UNCHANGED <<benv, fenv>>
    BY <1>8, FilesApart
  <2>2. CASE Ask \/ Envs \/ Build \/ Admin \/ Orphans \/ Pm2
    BY <1>t, <2>1, <2>2, HostSteps
  <2>3. CASE SmokeTest
    BY <1>t, <2>1, <2>3, HostSteps
  <2>4. CASE StopPm2 \/ StartDev \/ StopDev
    BY <1>t, <2>1, <2>4, LocalSteps
  <2>5. CASE JobMoves \/ DevDies \/ Restart
    BY <1>t, <2>1, <2>5, HostEvents
  <2>. QED
    BY <1>1, <1>2, <1>8, <2>2, <2>3, <2>4, <2>5 DEF Next, Step, SmokeTest
<1>. QED
  BY <1>3, <1>4, <1>5, <1>6, <1>7, <1>8

LEMMA ConfiguredAlways == Spec => []Configured
<1>1. Init => Configured
  BY DEF Init, Configured, Reached
<1>2. ASSUME TypeInv, Configured, UNCHANGED vars PROVE Configured'
  BY <1>2 DEF vars, files, Configured, Reached
<1>3. TypeInv /\ Configured /\ [Next]_vars => Configured'
  BY <1>2, ConfiguredStep
<1>. QED
  BY <1>1, <1>3, Typed, PTL DEF Spec

(* Only pm2_reload starts pm2's API, and only the local mode its own. *)
LEMMA OnlyStarts ==
  ASSUME TypeInv, [Next]_vars
  PROVE  /\ StartsPm2 => Pm2
         /\ StartsLocal => StartDev
<1>t. Located
  BY DEF TypeInv, ControlTyped
<1>1. StartsPm2 => Pm2
  <2>1. (api' = api \/ api' = None) => ~StartsPm2
    BY DEF StartsPm2
  <2>2. ASSUME NEW m \in DOMAIN Script, NEW f \in BOOLEAN, Begin(m, f)
        PROVE  ~StartsPm2
    BY <2>1, <2>2, RunBegins
  <2>3. CASE Stop
    BY <2>1, <2>3, RunEnds
  <2>4. CASE Discover \/ BackendCopy \/ BackendSet \/ FrontendCopy \/ FrontendSet
    BY <2>1, <2>4, FileSteps
  <2>5. CASE Ask \/ Envs \/ Build \/ Admin \/ Orphans \/ SmokeTest
    BY <2>1, <2>5, HostSteps
  <2>6. CASE StopPm2 \/ StartDev \/ StopDev
    BY <2>1, <2>6, LocalSteps
  <2>7. CASE JobMoves \/ DevDies
    BY <2>1, <2>7, HostEvents
  <2>8. CASE Restart
    <3>1. api # None /\ (api' = None \/ api' = [api EXCEPT !.secret = EnvSecret])
      BY <2>8, HostEvents
    <3>2. api' # None => api'.by = api.by
      BY <3>1 DEF TypeInv, ApiTyped, Apis
    <3>. QED
      BY <3>1, <3>2 DEF StartsPm2
  <2>9. CASE UNCHANGED vars
    BY <2>1, <2>9 DEF vars, services
  <2>. QED
    BY <2>2, <2>3, <2>4, <2>5, <2>6, <2>7, <2>8, <2>9
       DEF Next, Step, SmokeTest
<1>2. ASSUME StartsLocal PROVE StartDev
  <2>1. mode = "local" /\ pc = 4 /\ mode' = "local" /\ pc' # 4
    <3>1. At("dev") /\ At("wait")'
      BY <1>2 DEF StartsLocal
    <3>2. mode = "local" /\ pc = 4
      BY <1>t, <3>1, Places
    <3>3. Located'
      BY TypeNext DEF TypeInv, ControlTyped
    <3>4. mode' = "local" /\ pc' = 5
      BY <3>1, <3>3 DEF At, Located, Script
    <3>. QED
      BY <3>2, <3>4
  <2>2. ~UNCHANGED <<mode, pc>> /\ mode # "idle" /\ mode' # "idle"
    BY <2>1
  <2>3. ASSUME NEW m \in DOMAIN Script, NEW f \in BOOLEAN, Begin(m, f)
        PROVE  FALSE
    BY <2>2, <2>3, RunBegins
  <2>4. ~Stop
    BY <2>2, RunEnds
  <2>5. ~(Discover \/ BackendCopy \/ BackendSet \/ FrontendCopy \/ FrontendSet)
    BY <2>1, FileSteps
  <2>6. ~(Ask \/ Envs \/ Build \/ Admin \/ Orphans \/ Pm2 \/ SmokeTest)
    BY <2>1, HostSteps
  <2>7. ~(StopPm2 \/ StopDev)
    BY <2>1, LocalSteps
  <2>8. ~(JobMoves \/ DevDies \/ Restart)
    BY <2>1, HostEvents
  <2>9. vars' # vars
    BY <2>2 DEF vars
  <2>. QED
    BY <2>3, <2>4, <2>5, <2>6, <2>7, <2>8, <2>9 DEF Next, Step, SmokeTest
<1>. QED
  BY <1>1, <1>2

LEMMA StartsConfigured ==
  ASSUME TypeInv, Configured, [Next]_vars, StartsPm2 \/ StartsLocal
  PROVE  benv # None /\ fenv # None
<1>t. Located
  BY DEF TypeInv, ControlTyped
<1>1. CASE Pm2
  BY <1>t, <1>1, HostSteps DEF Configured, Reached
<1>2. CASE StartDev
  BY <1>t, <1>2, LocalSteps DEF Configured, Reached
<1>. QED
  BY <1>1, <1>2, OnlyStarts

(* Nothing starts the API, under pm2 or in the foreground, unless both env
   files are there, whatever was removed or aborted before. *)
THEOREM StartsOnlyConfigured == Spec => NeverStartedUnconfigured
<1>1. TypeInv /\ Configured /\ [Next]_vars
        => [StartsPm2 \/ StartsLocal => benv # None /\ fenv # None]_vars
  BY StartsConfigured
<1>. QED
  BY <1>1, Typed, ConfiguredAlways, PTL DEF Spec, NeverStartedUnconfigured

-----------------------------------------------------------------------------
(* The API port *)

(* The API of the local mode has the port while its run waits for it, before
   which pm2's was deleted; a bootstrap that has come to pm2 has deleted what
   an older deploy left under another name. A delete that failed is marked. *)
Owned ==
  /\ ready => mode = "idle"
  /\ port = "pm2" => api # None
  /\ port = "local" => mode = "local" /\ pc = 5
  /\ Reached("local", 3) /\ ~undeleted => api = None
  /\ Reached("bootstrap", 10) /\ ~undeleted => port # "legacy"

LEMMA OwnedStep == ASSUME TypeInv, Owned, Next PROVE Owned'
<1>t. Located
  BY DEF TypeInv, ControlTyped
<1>. USE DEF Owned, Reached, Onward, Located
<1>1. ASSUME NEW m \in DOMAIN Script, NEW f \in BOOLEAN, Begin(m, f)
      PROVE  Owned'
  BY <1>1, RunBegins
<1>2. CASE Stop
  <2>1. port = "local" => At("wait")
    BY DEF At, Script
  <2>. QED
    BY <1>2, <2>1, RunEnds
<1>3. CASE Discover \/ BackendCopy \/ BackendSet \/ FrontendCopy \/ FrontendSet
  <2>1. /\ mode = "bootstrap" /\ pc <= 6
        /\ UNCHANGED <<port, api, undeleted>>
        /\ UNCHANGED <<mode, pc, ready>> \/ Onward(1) \/ Onward(2)
    BY <1>3, FileSteps
  <2>. QED
    BY <1>t, <2>1
<1>4. CASE Ask \/ Envs \/ Build \/ Admin
  BY <1>t, <1>4, HostSteps
<1>5. CASE Orphans
  BY <1>t, <1>5, HostSteps
<1>6. CASE Pm2
  <2>1. api' # None
    <3>1. EnvSecret \in 0 .. MaxRuns /\ run \in 1 .. MaxRuns
      BY <1>6, SecretTyped, BoundsAssumption DEF TypeInv, ControlTyped, Pm2, At
    <3>2. Started \in Apis
      BY <3>1, DirAssumption DEF Started, Apis
    <3>. QED
      BY <1>6, <3>2, NoneAssumption DEF Pm2
  <2>. QED
    BY <1>t, <1>6, <2>1, HostSteps DEF Pm2Listens
<1>7. CASE SmokeTest
  BY <1>t, <1>7, HostSteps
<1>8. CASE StopPm2
  <2>1. /\ mode = "local" /\ pc = 2 /\ Onward(1) /\ port # "local"
        /\ Deleted("pm2") /\ api' = IF undeleted' THEN api ELSE None
    BY <1>8, LocalSteps
  <2>2. CASE undeleted'
    <3>1. port' \in {port, "free"} /\ api' = api
      BY <2>1, <2>2 DEF Deleted
    <3>. QED
      BY <1>t, <2>1, <2>2, <3>1
  <2>3. CASE ~undeleted'
    <3>1. port' # "pm2" /\ port' \in {port, "free"} /\ api' = None
      BY <2>1, <2>3 DEF Deleted
    <3>. QED
      BY <1>t, <2>1, <3>1
  <2>. QED
    BY <2>2, <2>3
<1>9. CASE StartDev
  <2>1. /\ mode = "local" /\ pc = 4 /\ Onward(1) /\ UNCHANGED <<api, undeleted>>
        /\ port' = IF port = "free" THEN "local" ELSE port
    BY <1>9, LocalSteps
  <2>2. (port' = port) \/ (port' = "local" /\ mode' = "local" /\ pc' = 5)
    <3>1. Skip(1)
      BY <1>9 DEF StartDev, Advance
    <3>2. mode' = mode /\ pc' = pc + 1
      BY <2>1, <3>1, Lengths DEF Skip
    <3>. QED
      BY <2>1, <3>2
  <2>. QED
    BY <1>t, <2>1, <2>2
<1>10. CASE StopDev
  <2>1. /\ mode = "local" /\ pc = 5 /\ Onward(1) /\ UNCHANGED <<api, undeleted>>
        /\ port' # "local" /\ port' \in {port, "left"}
    BY <1>10, LocalSteps
  <2>. QED
    BY <1>t, <2>1
<1>11. CASE JobMoves \/ DevDies
  BY <1>t, <1>11, HostEvents
<1>12. CASE Restart
  <2>1. /\ UNCHANGED <<mode, pc, ready, undeleted>> /\ api # None
        /\ \/ api' # None /\ port' \in {port, "pm2"}
           \/ api' = None /\ port' # "pm2" /\ port' \in {port, "free"}
    <3>1. api' # None \/ api' = None
      OBVIOUS
    <3>2. Pm2Listens => port' \in {port, "pm2"}
      BY DEF Pm2Listens
    <3>3. [api EXCEPT !.secret = EnvSecret] # None
      <4>1. EnvSecret \in 0 .. MaxRuns /\ api \in Apis
        BY <1>12, SecretTyped, BoundsAssumption, HostEvents
           DEF TypeInv, ControlTyped, ApiTyped
      <4>2. [api EXCEPT !.secret = EnvSecret] \in Apis
        BY <4>1 DEF Apis
      <4>. QED
        BY <4>2, NoneAssumption
    <3>. QED
      BY <1>12, <3>2, <3>3, HostEvents
  <2>. QED
    BY <1>t, <2>1
<1>. QED
  BY <1>1, <1>2, <1>3, <1>4, <1>5, <1>6, <1>7, <1>8, <1>9, <1>10, <1>11,
     <1>12
     DEF Next, Step, SmokeTest

LEMMA OwnedAlways == Spec => []Owned
<1>1. Init => Owned
  BY DEF Init, Owned, Reached
<1>2. ASSUME TypeInv, Owned, UNCHANGED vars PROVE Owned'
  BY <1>2 DEF vars, services, marks, Owned, Reached
<1>3. TypeInv /\ Owned /\ [Next]_vars => Owned'
  BY <1>2, OwnedStep
<1>. QED
  BY <1>1, <1>3, Typed, PTL DEF Spec

(* The port goes to the API that was started last, unless a local API that
   outlived its run has it, pm2 failed to delete the process before, or the
   mode does not look for processes under a legacy name. *)
THEOREM StartedApiListens == Spec => StartedGetsPort
<1>1. ASSUME TypeInv, Owned, [Next]_vars, StartsPm2
      PROVE  \/ port' = "pm2" \/ port = "left"
             \/ port = "legacy" /\ (mode = "prod" \/ undeleted)
  <2>1. /\ \/ mode = "bootstrap" /\ pc = 10
           \/ mode = "prod" /\ pc = 3
        /\ Pm2Listens
    BY <1>1, OnlyStarts, HostSteps
  <2>2. port \in {"free", "legacy", "pm2", "local", "left"} /\ port # "local"
    BY <1>1, <2>1 DEF Owned, TypeInv, FlagsTyped
  <2>3. port = "legacy" => mode = "prod" \/ undeleted
    BY <1>1, <2>1 DEF Owned, Reached
  <2>. QED
    BY <2>1, <2>2, <2>3 DEF Pm2Listens
<1>2. ASSUME TypeInv, Owned, [Next]_vars, StartsLocal
      PROVE  port' = "local" \/ port = "left" \/ port = "legacy" \/ undeleted
  <2>1. /\ mode = "local" /\ pc = 4
        /\ port' = IF port = "free" THEN "local" ELSE port
    BY <1>2, OnlyStarts, LocalSteps
  <2>2. port \in {"free", "legacy", "pm2", "local", "left"} /\ port # "local"
    BY <1>2, <2>1 DEF Owned, TypeInv, FlagsTyped
  <2>3. port = "pm2" => undeleted
    BY <1>2, <2>1 DEF Owned, Reached
  <2>. QED
    BY <2>1, <2>2, <2>3
<1>3. TypeInv /\ Owned /\ [Next]_vars =>
        [/\ StartsPm2 => \/ port' = "pm2" \/ port = "left"
                         \/ port = "legacy" /\ (mode = "prod" \/ undeleted)
         /\ StartsLocal => \/ port' = "local" \/ port = "left"
                           \/ port = "legacy" \/ undeleted]_vars
  BY <1>1, <1>2
<1>. QED
  BY <1>3, Typed, OwnedAlways, PTL DEF Spec, StartedGetsPort

-----------------------------------------------------------------------------
(* A completed bootstrap *)

(* Unless a run was stopped while it set the keys of a file: backend/.env has
   all of its keys; from its step on, the admin of the production database has
   the password of this run; and the API that was started has a secret of its
   own. *)
Usable ==
  ~torn =>
    /\ benv # None /\ ~Setting(4) => Whole(benv, BackendKeys)
    /\ ready \/ Reached("bootstrap", 9) => admin["prod"] = pass
    /\ ready \/ Reached("bootstrap", 11) => api = None \/ api.secret # 0

(* What the server and create-admin read from a file with all its keys. *)
LEMMA WholeFile ==
  ASSUME TypeInv, benv # None, Whole(benv, BackendKeys)
  PROVE  EnvDatabase = "prod" /\ EnvSecret # 0
<1>1. BackendKeys[1] = "JWT_SECRET" /\ BackendKeys[4] = "DB_PATH"
  BY DEF BackendKeys
<1>2. "JWT_SECRET" \in benv.set /\ "DB_PATH" \in benv.set
  BY <1>1, KeysDistinct DEF Whole, Prefix
<1>3. benv.by # 0
  BY DEF TypeInv, FilesTyped, FileKept, EnvFiles
<1>. QED
  BY <1>2, <1>3 DEF EnvDatabase, EnvSecret, InEnv

LEMMA UsableStep ==
  ASSUME TypeInv, Configured, Owned, Usable, Next
  PROVE  Usable'
<1>t. Located /\ FilesTyped /\ admin \in [Databases -> Passwords \cup {None}]
  BY DEF TypeInv, ControlTyped
<1>r. (ready => mode = "idle") /\ (Reached("bootstrap", 4) => benv # None)
  BY DEF Owned, Configured
<1>. USE DEF Usable, Reached, Onward, Located, Setting
<1>1. ASSUME NEW m \in DOMAIN Script, NEW f \in BOOLEAN, Begin(m, f)
      PROVE  Usable'
  BY <1>r, <1>1, RunBegins
<1>2. CASE Stop
  BY <1>r, <1>2, RunEnds
<1>3. CASE Discover \/ FrontendCopy \/ FrontendSet
  <2>1. /\ mode = "bootstrap" /\ pc \in {1, 5, 6}
        /\ UNCHANGED <<torn, pass, admin, api>>
        /\ UNCHANGED <<mode, pc, ready>> \/ Onward(1) \/ Onward(2)
        /\ benv' = benv \/ benv' = None
    BY <1>3, FileSteps
  <2>. QED
    BY <1>t, <1>r, <2>1
<1>4. CASE BackendCopy
  <2>1. /\ mode = "bootstrap" /\ pc = 3 /\ UNCHANGED torn
        /\ \/ Onward(2) /\ UNCHANGED benv
           \/ Onward(1) /\ benv = None
    BY <1>4, FileSteps
  <2>. QED
    BY <1>t, <1>r, <2>1
<1>5. CASE BackendSet
  <2>1. /\ mode = "bootstrap" /\ pc = 4 /\ UNCHANGED torn
        /\ \/ Whole(benv', BackendKeys) /\ Onward(1)
           \/ UNCHANGED <<mode, pc, ready>>
    BY <1>5, FileSteps
  <2>. QED
    BY <1>t, <1>r, <2>1
<1>6. CASE ~(Discover \/ BackendCopy \/ BackendSet \/ FrontendCopy \/ FrontendSet)
  <2>1. benv' = benv /\ (Setting(4)' => Setting(4))
    BY <1>6, FilesApart
  <2>2. CASE Ask \/ Envs \/ Build \/ Orphans
    BY <1>t, <1>r, <2>1, <2>2, HostSteps
  <2>3. CASE Admin
    <3>1. /\ mode = "bootstrap" /\ pc = 8 /\ Onward(1)
          /\ admin' = [admin EXCEPT ![EnvDatabase] = pass]
          /\ UNCHANGED <<pass, api, torn>>
      BY <2>3, HostSteps
    <3>2. ~torn => EnvDatabase = "prod"
      BY <1>r, <3>1, WholeFile
    <3>3. ~torn => admin'["prod"] = pass
      BY <1>t, <3>1, <3>2 DEF Databases
    <3>. QED
      BY <1>t, <1>r, <2>1, <3>1, <3>3
  <2>4. CASE Pm2
    <3>1. /\ \/ mode = "bootstrap" /\ pc = 10
             \/ mode = "prod" /\ pc = 3
          /\ Onward(1) /\ api'.secret = EnvSecret
          /\ UNCHANGED <<pass, admin, torn>>
      BY <2>4, HostSteps DEF Started
    <3>2. benv # None
      BY <3>1 DEF Configured
    <3>3. ~torn => EnvSecret # 0
      BY <3>1, <3>2, WholeFile
    <3>. QED
      BY <1>t, <1>r, <2>1, <3>1, <3>3
  <2>5. CASE SmokeTest
    BY <1>t, <1>r, <2>1, <2>5, HostSteps
  <2>6. CASE StopPm2 \/ StartDev \/ StopDev
    BY <1>t, <1>r, <2>1, <2>6, LocalSteps
  <2>8. CASE JobMoves \/ DevDies
    BY <1>t, <1>r, <2>1, <2>8, HostEvents
  <2>7. CASE Restart
    <3>1. /\ UNCHANGED <<mode, pc, ready, pass, admin, torn>>
          /\ \/ api' = None
             \/ /\ benv # None /\ api # None
                /\ api' = [api EXCEPT !.secret = EnvSecret]
      BY <2>7, HostEvents
    <3>2. CASE api' = None
      BY <2>1, <3>1, <3>2
    <3>3. CASE /\ benv # None /\ api # None
               /\ api' = [api EXCEPT !.secret = EnvSecret]
      <4>1. api'.secret = EnvSecret
        BY <3>3 DEF TypeInv, ApiTyped, Apis
      <4>2. ~torn /\ ~Setting(4) => EnvSecret # 0
        BY <3>3, WholeFile
      <4>. QED
        BY <1>r, <2>1, <3>1, <4>1, <4>2
    <3>. QED
      BY <3>1, <3>2, <3>3
  <2>. QED
    BY <1>1, <1>2, <1>6, <2>2, <2>3, <2>4, <2>5, <2>6, <2>7, <2>8
       DEF Next, Step, SmokeTest
<1>. QED
  BY <1>3, <1>4, <1>5, <1>6

(* The API a completed bootstrap leaves has a generated secret and the admin
   can log in with the password just given, whichever run wrote the env file,
   unless one of the runs was stopped halfway through a file. *)
THEOREM CompletedIsUsable == Spec => []ReadyMeansUsable
<1>1. Init => Usable
  BY DEF Init, Usable, Reached
<1>2. ASSUME TypeInv, Usable, UNCHANGED vars PROVE Usable'
  BY <1>2 DEF vars, files, answers, services, marks, Usable, Reached, Setting
<1>3. TypeInv /\ Configured /\ Owned /\ Usable /\ [Next]_vars => Usable'
  BY <1>2, UsableStep
<1>4. Spec => []Usable
  BY <1>1, <1>3, Typed, ConfiguredAlways, OwnedAlways, PTL DEF Spec
<1>5. Usable /\ Owned => ReadyMeansUsable
  BY DEF Usable, Owned, ReadyMeansUsable, Reached
<1>. QED
  BY <1>4, <1>5, OwnedAlways, PTL
=============================================================================

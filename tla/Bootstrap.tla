----------------------------- MODULE Bootstrap -----------------------------
(***************************************************************************)
(* start.sh: the three-phase bootstrap, the recurring deploy and the local *)
(* mode, run one after the other by one operator on one host, each of them *)
(* possibly stopped between any two of its steps (set -e, fail_phase, an   *)
(* abort at the prompt, Ctrl+C).  What outlives a run are the two env      *)
(* files, the users of the databases, the processes of pm2, and the API of *)
(* the local mode, which catches the signal of a Ctrl+C and goes on.       *)
(*                                                                         *)
(* An env file begins as a copy of its template and gets its values one    *)
(* sed at a time.  All of its values come from one run, so a file is the   *)
(* number of that run and the keys that are set by now.                    *)
(***************************************************************************)
EXTENDS Naturals, Sequences, FiniteSets

CONSTANTS
  None,        \* "no file", "no password"
  Dirs,        \* answers to the WORK_DIR prompt
  CfgDir,      \* work_dir of system.cfg.json
  Passwords,   \* answers to the password prompt
  MaxRuns,     \* bound: runs of start.sh
  MaxPolls     \* tries of the smoke test, 30

ASSUME DirAssumption == CfgDir \in Dirs
ASSUME BoundsAssumption == MaxRuns \in Nat /\ MaxPolls \in Nat \ {0}

BackendKeys == <<"JWT_SECRET", "WORK_DIR", "CLAUDE_BIN", "DB_PATH">>
FrontendKeys == <<"AUTH_SECRET", "NEXTAUTH_SECRET", "NEXTAUTH_URL",
                  "BACKEND_URL", "NEXT_PUBLIC_BACKEND_URL">>
Databases == {"local", "prod"}

(* What an env file with these keys can be, when there is one. *)
EnvFiles(keys) ==
  [by : 1 .. MaxRuns, set : SUBSET {keys[i] : i \in DOMAIN keys}]

(* What pm2 can have as the API. *)
Apis == [secret : 0 .. MaxRuns, dir : Dirs, by : 1 .. MaxRuns]

ASSUME NoneAssumption ==
  /\ None \notin Passwords \cup EnvFiles(BackendKeys) \cup EnvFiles(FrontendKeys)
  /\ None \notin Apis

VARIABLES
  mode,     \* what start.sh was called for, "idle" between two runs
  pc,       \* the next step of that mode
  run,      \* how many runs were begun
  force,    \* BS_FORCE
  dir,      \* BS_WORK_DIR
  pass,     \* BS_ADMIN_PASS
  benv,     \* backend/.env
  fenv,     \* frontend/.env.local
  admin,    \* the admin's password in each database
  api,      \* the API under pm2: the run that gave it its JWT secret, its
            \* working directory and the run that started it
  port,     \* who listens on the API port: "free", pm2's "legacy" process or
            \* "pm2" for the one of now, the "local" API of the run in the
            \* foreground, or one that was "left" by an earlier run
  job,      \* status of the smoke test's job
  polls,    \* tries
  smoke,    \* what the smoke test reported
  \* History, read by properties only
  undeleted, \* a pm2 delete of this run failed
  torn,     \* a run was stopped between the first and the last sed of a file
  ready     \* the last run was a bootstrap and it was completed

files == <<benv, fenv>>
answers == <<force, dir, pass>>
services == <<api, port>>
smokeVars == <<job, polls, smoke>>
marks == <<undeleted, torn>>
vars == <<mode, pc, run, answers, files, admin, services, smokeVars,
          marks, ready>>

-----------------------------------------------------------------------------
Script ==
  [bootstrap |-> <<"discover", "ask",
                   "backendCopy", "backendSet", "frontendCopy", "frontendSet",
                   "build", "admin", "orphans", "pm2", "verify", "login",
                   "submit", "poll">>,
   prod      |-> <<"envs", "build", "pm2">>,
   local     |-> <<"envs", "stopPm2", "build", "dev", "wait">>]

At(step) == mode # "idle" /\ Script[mode][pc] = step

(* To the next step, the next but n - 1, or the end of the run. *)
Skip(n) ==
  IF pc + n <= Len(Script[mode])
    THEN pc' = pc + n /\ UNCHANGED <<mode, ready>>
    ELSE mode' = "idle" /\ pc' = 0 /\ ready' = (mode = "bootstrap")
Advance == Skip(1)

Init ==
  /\ mode = "idle" /\ pc = 0 /\ run = 0
  /\ force = FALSE /\ dir = CfgDir /\ pass = None
  /\ benv = None /\ fenv = None
  /\ admin = [d \in Databases |-> None]
  /\ api = None /\ port \in {"free", "legacy"}
  /\ job = "none" /\ polls = 0 /\ smoke = "none"
  /\ undeleted = FALSE /\ torn = FALSE /\ ready = FALSE

(* The dispatch. --force goes with --bootstrap only. *)
Begin(m, f) ==
  /\ mode = "idle" /\ run < MaxRuns
  /\ f => m = "bootstrap"
  /\ mode' = m /\ pc' = 1 /\ run' = run + 1 /\ force' = f
  /\ job' = "none" /\ polls' = 0 /\ smoke' = "none"
  /\ ready' = FALSE /\ undeleted' = FALSE
  /\ UNCHANGED <<dir, pass, files, admin, services, torn>>

(* The run ends before its next step. A server in the foreground is more than
   that, see StopDev. *)
Stop ==
  /\ mode # "idle" /\ ~At("wait")
  /\ mode' = "idle" /\ pc' = 0
  /\ torn' = (torn \/ At("backendSet") \/ At("frontendSet"))
  /\ UNCHANGED <<run, answers, files, admin, services, smokeVars, undeleted,
                 ready>>

-----------------------------------------------------------------------------
(* Phase 1 *)

(* discover_phase up to the prompts: --force removes the env files first. *)
Discover ==
  /\ At("discover")
  /\ IF force THEN benv' = None /\ fenv' = None ELSE UNCHANGED files
  /\ Advance
  /\ UNCHANGED <<run, answers, admin, services, smokeVars, marks>>

(* bs_collect_inputs and bs_verify_inputs. *)
Ask ==
  /\ At("ask")
  /\ dir' \in Dirs /\ pass' \in Passwords
  /\ Advance
  /\ UNCHANGED <<run, force, files, admin, services, smokeVars, marks>>

-----------------------------------------------------------------------------
(* Phase 2 *)

Template == [by |-> run, set |-> {}]

(* A mutant: an env file that is there is written again. *)
BackendCopyAlways ==
  /\ At("backendCopy")
  /\ benv' = Template /\ Advance
  /\ UNCHANGED <<run, answers, fenv, admin, services, smokeVars, marks>>

(* bs_write_backend_env up to cp: a file that is there is kept as it is. *)
BackendCopy ==
  /\ At("backendCopy")
  /\ \/ benv # None /\ Skip(2) /\ UNCHANGED benv
     \/ benv = None /\ benv' = Template /\ Advance
  /\ UNCHANGED <<run, answers, fenv, admin, services, smokeVars, marks>>

(* One sed: the first of the keys that is not set yet. *)
SetNext(file, keys) ==
  [file EXCEPT !.set = @ \cup {keys[Cardinality(@) + 1]}]

(* A mutant: the last sed is missing. *)
BackendSetShort ==
  /\ At("backendSet")
  /\ benv' = SetNext(benv, BackendKeys)
  /\ IF Cardinality(benv'.set) = Len(BackendKeys) - 1
       THEN Advance ELSE UNCHANGED <<mode, pc, ready>>
  /\ UNCHANGED <<run, answers, fenv, admin, services, smokeVars, marks>>

BackendSet ==
  /\ At("backendSet")
  /\ benv' = SetNext(benv, BackendKeys)
  /\ IF Cardinality(benv'.set) = Len(BackendKeys)
       THEN Advance ELSE UNCHANGED <<mode, pc, ready>>
  /\ UNCHANGED <<run, answers, fenv, admin, services, smokeVars, marks>>

(* bs_write_frontend_env, likewise. *)
FrontendCopy ==
  /\ At("frontendCopy")
  /\ \/ fenv # None /\ Skip(2) /\ UNCHANGED fenv
     \/ fenv = None /\ fenv' = Template /\ Advance
  /\ UNCHANGED <<run, answers, benv, admin, services, smokeVars, marks>>

FrontendSet ==
  /\ At("frontendSet")
  /\ fenv' = SetNext(fenv, FrontendKeys)
  /\ IF Cardinality(fenv'.set) = Len(FrontendKeys)
       THEN Advance ELSE UNCHANGED <<mode, pc, ready>>
  /\ UNCHANGED <<run, answers, benv, admin, services, smokeVars, marks>>

-----------------------------------------------------------------------------
(* Phase 3, and the steps it shares with the other modes *)

(* A mutant: the deploy takes the env files for granted. *)
EnvsUnchecked ==
  /\ At("envs")
  /\ Advance
  /\ UNCHANGED <<run, answers, files, admin, services, smokeVars, marks>>

(* check_envs: exits when a file is missing, see Stop. *)
Envs ==
  /\ At("envs")
  /\ benv # None /\ fenv # None
  /\ Advance
  /\ UNCHANGED <<run, answers, files, admin, services, smokeVars, marks>>

(* build_backend and build_frontend. *)
Build ==
  /\ At("build")
  /\ Advance
  /\ UNCHANGED <<run, answers, files, admin, services, smokeVars, marks>>

InEnv(key) == benv # None /\ key \in benv.set

(* The database backend/.env names: its template names a local one. *)
EnvDatabase == IF InEnv("DB_PATH") THEN "prod" ELSE "local"

(* bs_create_admin_user: the admin is created, or gets the new password. *)
Admin ==
  /\ At("admin")
  /\ admin' = [admin EXCEPT ![EnvDatabase] = pass]
  /\ Advance
  /\ UNCHANGED <<run, answers, files, services, smokeVars, marks>>

(* pm2 delete, whose failure the script goes on after. *)
Deleted(holder) ==
  \/ /\ port' = IF port = holder THEN "free" ELSE port
     /\ UNCHANGED undeleted
  \/ UNCHANGED port /\ undeleted' = TRUE

(* bs_cleanup_pm2_orphans. *)
Orphans ==
  /\ At("orphans")
  /\ Deleted("legacy")
  /\ Advance
  /\ UNCHANGED <<run, answers, files, admin, api, smokeVars, torn>>

(* The secret the server reads from backend/.env, 0 for the template's. *)
EnvSecret == IF InEnv("JWT_SECRET") THEN benv.by ELSE 0

(* godotenv does not override what pm2 sets, so WORK_DIR and DB_PATH are those
   of system.cfg.json and the rest comes from the file. *)
Started == [secret |-> EnvSecret, dir |-> CfgDir, by |-> run]

(* The server under pm2 comes up: it exits when the port is not to be had. *)
Pm2Listens == port' = IF port \in {"free", "pm2"} THEN "pm2" ELSE port

(* pm2_reload *)
Pm2 ==
  /\ At("pm2")
  /\ api' = Started /\ Pm2Listens
  /\ Advance
  /\ UNCHANGED <<run, answers, files, admin, smokeVars, marks>>

(* bs_reload_caddy and bs_verify_runtime: whoever listens answers the health
   check. The smoke test is optional. *)
Verify ==
  /\ At("verify") /\ port # "free"
  /\ Advance \/ Skip(4)
  /\ UNCHANGED <<run, answers, files, admin, services, smokeVars, marks>>

(* bs_verify_end_to_end: only a login that works goes on; it fails with a wrong
   password, and when nobody answers. *)
Login ==
  /\ At("login")
  /\ \/ /\ port # "free" /\ (port = "pm2" => admin["prod"] = pass)
        /\ Advance /\ UNCHANGED smoke
     \/ Skip(3) /\ smoke' = "login failed"
  /\ UNCHANGED <<run, answers, files, admin, services, job, polls, marks>>

Submit ==
  /\ At("submit")
  /\ \/ job' = "pending" /\ Advance /\ UNCHANGED smoke
     \/ Skip(2) /\ smoke' = "no job" /\ UNCHANGED job
  /\ UNCHANGED <<run, answers, files, admin, services, polls, marks>>

(* The backend works on the job, or somebody cancels it. *)
JobMoves ==
  /\ job \in {"pending", "running"}
  /\ job' \in IF job = "pending" THEN {"running", "cancelled"}
                                 ELSE {"done", "failed", "cancelled"}
  /\ UNCHANGED <<mode, pc, run, answers, files, admin, services, polls, smoke,
                 marks, ready>>

(* The statuses the case statement of the smoke test knows. *)
KnownEnds == {"done", "failed", "canceled"}

(* A mutant: the poll after the last try is made as well. *)
PollOnceMore ==
  /\ At("poll")
  /\ \/ /\ job \in KnownEnds
        /\ smoke' = "ended" /\ Advance /\ UNCHANGED polls
     \/ /\ job \notin KnownEnds /\ polls < MaxPolls
        /\ polls' = polls + 1 /\ UNCHANGED <<smoke, mode, pc, ready>>
     \/ /\ job \notin KnownEnds /\ polls = MaxPolls
        /\ smoke' = "did not complete" /\ Advance /\ UNCHANGED polls
  /\ UNCHANGED <<run, answers, files, admin, services, job, marks>>

(* The polling loop: at most MaxPolls tries. *)
Poll ==
  /\ At("poll")
  /\ \/ /\ job \in KnownEnds
        /\ smoke' = "ended" /\ Advance /\ UNCHANGED polls
     \/ /\ job \notin KnownEnds /\ polls < MaxPolls - 1
        /\ polls' = polls + 1 /\ UNCHANGED <<smoke, mode, pc, ready>>
     \/ /\ job \notin KnownEnds /\ polls = MaxPolls - 1
        /\ smoke' = "did not complete" /\ Advance /\ UNCHANGED polls
  /\ UNCHANGED <<run, answers, files, admin, services, job, marks>>

-----------------------------------------------------------------------------
(* The local mode, and the ends of an API *)

(* A mutant: the API of an earlier deploy is left running. *)
StopPm2Skipped ==
  /\ At("stopPm2")
  /\ Advance
  /\ UNCHANGED <<run, answers, files, admin, services, smokeVars, marks>>

(* stop_pm2_if_running. *)
StopPm2 ==
  /\ At("stopPm2")
  /\ Deleted("pm2")
  /\ api' = IF undeleted' THEN api ELSE None
  /\ Advance
  /\ UNCHANGED <<run, answers, files, admin, smokeVars, torn>>

(* The API and the dev server in the background: the API exits when the port
   is taken, the script waits for the other one. *)
StartDev ==
  /\ At("dev")
  /\ port' = IF port = "free" THEN "local" ELSE port
  /\ Advance
  /\ UNCHANGED <<run, answers, files, admin, api, smokeVars, marks>>

(* cleanup on Ctrl+C sends SIGTERM and waits. The server catches it and goes
   on, so the operator needs the second Ctrl+C, which ends the script only. *)
StopDev ==
  /\ At("wait")
  /\ port' = IF port = "local" THEN "left" ELSE port
  /\ Advance
  /\ UNCHANGED <<run, answers, files, admin, api, smokeVars, marks>>

(* The local API crashes or is killed by hand. *)
DevDies ==
  /\ port \in {"local", "left"}
  /\ port' = "free"
  /\ UNCHANGED <<mode, pc, run, answers, files, admin, api, smokeVars, marks,
                 ready>>

(* The API dies and pm2 starts it again: it reads backend/.env anew, and does
   not come up without one (config.validate). *)
Restart ==
  /\ api # None
  /\ \/ benv # None /\ api' = [api EXCEPT !.secret = EnvSecret] /\ Pm2Listens
     \/ /\ benv = None /\ api' = None
        /\ port' = IF port = "pm2" THEN "free" ELSE port
  /\ UNCHANGED <<mode, pc, run, answers, files, admin, smokeVars, marks, ready>>

-----------------------------------------------------------------------------
Step == \/ Discover \/ Ask \/ BackendCopy \/ BackendSet \/ FrontendCopy
        \/ FrontendSet \/ Envs \/ Build \/ Admin \/ Orphans \/ Pm2 \/ Verify
        \/ Login \/ Submit \/ Poll \/ StopPm2 \/ StartDev \/ StopDev

Next == \/ \E m \in DOMAIN Script, f \in BOOLEAN : Begin(m, f)
        \/ Stop
        \/ Step \/ JobMoves \/ DevDies \/ Restart

Spec == Init /\ [][Next]_vars

-----------------------------------------------------------------------------
(* Properties *)

Complete(file, keys) == file # None /\ Cardinality(file.set) = Len(keys)

TypeOK ==
  /\ mode \in DOMAIN Script \cup {"idle"}
  /\ mode # "idle" => pc \in DOMAIN Script[mode]
  /\ run \in 0 .. MaxRuns /\ force \in BOOLEAN
  /\ dir \in Dirs /\ pass \in Passwords \cup {None}
  /\ benv \in EnvFiles(BackendKeys) \cup {None}
  /\ fenv \in EnvFiles(FrontendKeys) \cup {None}
  /\ benv # None => benv.by <= run
  /\ fenv # None => fenv.by <= run
  /\ admin \in [Databases -> Passwords \cup {None}]
  /\ api # None => api \in Apis /\ api.secret <= run /\ api.by <= run
  /\ port \in {"free", "legacy", "pm2", "local", "left"}
  /\ undeleted \in BOOLEAN
  /\ polls \in 0 .. MaxPolls - 1

(* A completed bootstrap leaves an API that can be used: if pm2's has the port,
   it has a generated secret and the admin can log in with the password just
   given, whichever earlier run wrote the env file. It holds unless a run was
   stopped halfway through an env file. *)
ReadyMeansUsable ==
  ready /\ ~torn /\ port = "pm2" =>
    api # None /\ api.secret # 0 /\ admin["prod"] = pass

(* Secrets survive every later run: a complete env file is only ever removed,
   by --force, and never changed or replaced in place (sessions would end). *)
SecretsPreserved ==
  [][/\ Complete(benv, BackendKeys) => benv' \in {benv, None}
     /\ Complete(fenv, FrontendKeys) => fenv' \in {fenv, None}
     /\ (benv # None /\ benv' = None) \/ (fenv # None /\ fenv' = None) =>
          force]_vars

(* A run starts the API under pm2 (pm2's own restarts keep "by"), or its own. *)
StartsPm2 == api' # None /\ (api = None \/ api'.by # api.by)
StartsLocal == At("dev") /\ At("wait")'

(* The API is never started without both env files, also not by a deploy
   that follows a forced bootstrap which was aborted. *)
NeverStartedUnconfigured ==
  [][StartsPm2 \/ StartsLocal => benv # None /\ fenv # None]_vars

(* The API port goes to the API that was started last: the local mode stops
   what an earlier deploy left, and a bootstrap what older deploys left under
   other names. In the way can only be a local API that outlived its run, a
   process pm2 failed to delete, or, for the modes that do not look for it,
   one under a legacy name. *)
StartedGetsPort ==
  [][/\ StartsPm2 => \/ port' = "pm2" \/ port = "left"
                     \/ port = "legacy" /\ (mode = "prod" \/ undeleted)
     /\ StartsLocal => \/ port' = "local" \/ port = "left"
                       \/ port = "legacy" \/ undeleted]_vars
=============================================================================

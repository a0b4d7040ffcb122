------------------------------- MODULE RenderDb -------------------------------
(***************************************************************************)
(* scripts/render-db: the command that replaces the expiring development   *)
(* database.  `rotate` deletes the old instance, creates one, points the   *)
(* local .env and the deployed service at it, redeploys, seeds and waits   *)
(* for the health check; `pull-env` only rewrites a local .env.  Nothing   *)
(* but the cloud remembers how far a rotation came: one that dies at any   *)
(* of its calls is repaired by running the next one.                       *)
(***************************************************************************)
EXTENDS Naturals, Sequences, FiniteSets, SequencesExt

CONSTANTS
  Ids,           \* instance ids
  Machines,      \* where the command runs, each with its own .env
  EnvKeys,       \* the keys always written, in the order of buildEnvUpdates
  Url,           \* DATABASE_URL, written only where it is in use already
  AllowedPlans,  \* config.allowedPlans
  InitialFiles,  \* the .env files the machines may start with
  CommandLines,  \* bound: the options that are given
  MaxFaults,     \* bound: crashes, errors and lost answers in a behaviour
  None

VARIABLES
  db,       \* the instances Render holds
  service,  \* env: its variables; building: those of the deploy being built; running
  files,    \* the lines of each machine's .env
  cli,      \* the command each machine runs or last ran
  deleted,  \* history: instances a command deleted
  faults

vars == <<db, service, files, cli, deleted, faults>>

\* createClient gives up after this many attempts
MAX_ATTEMPTS == 4

Keys == Range(EnvKeys) \cup {Url}

Instance == [status : {"none", "creating", "available", "unknown", "deleting", "gone"},
             name : {"dev", "other"}, plan : {"free", "starter"},
             allow : BOOLEAN, seeded : BOOLEAN]
NoInstance == [status |-> "none", name |-> "dev", plan |-> "free",
               allow |-> FALSE, seeded |-> FALSE]
Existing == [status |-> "available", name |-> "dev", plan |-> "free",
             allow |-> TRUE, seeded |-> TRUE]

Env == [Keys -> Ids \cup {None}]

\* A line of a .env file; a commented-out assignment is kept and not read.
EnvLine == [key : Keys \cup {"OTHER"}, commented : BOOLEAN, value : Ids \cup {None}]

\* The options a command line may give.
Options == [yes : BOOLEAN, noSeed : BOOLEAN, noService : BOOLEAN,
            noEnvFile : BOOLEAN, noHealthCheck : BOOLEAN]

\* Steps at which the command calls the cloud, the disk or a child process.
Busy == {"find", "delete", "gone", "create", "provision", "allow", "connect",
         "file", "list", "env", "deploy", "probe", "seed", "health"}

Command == [cmd : {"rotate", "pull-env"}, opts : Options,
            step : Busy \cup {"confirm", "ok", "failed"},
            target : Ids \cup {None}, keys : Seq(Keys), tries : 0..MAX_ATTEMPTS]

\* No option but --yes; pull-env takes none that changes what it writes.
Defaults == [yes |-> TRUE, noSeed |-> FALSE, noService |-> FALSE,
             noEnvFile |-> FALSE, noHealthCheck |-> FALSE]

\* No file of InitialFiles assigns a key twice: upsertEnvVars replaces the first
\* assignment and dotenv reads the last.
AssignsOnce(file) ==
  \A i, j \in DOMAIN file :
    /\ file[i].key = file[j].key /\ file[i].key \in Keys
    /\ ~file[i].commented /\ ~file[j].commented
    => i = j

ASSUME RenderDbAssumption ==
  /\ Ids # {} /\ None \notin Ids /\ MaxFaults \in Nat
  /\ EnvKeys \in Seq(Range(EnvKeys)) /\ EnvKeys # <<>>
  /\ Url \notin Range(EnvKeys) /\ "OTHER" \notin Keys
  /\ CommandLines \subseteq Options
  /\ \A init \in InitialFiles :
       init \in [Machines -> Seq(EnvLine)] /\ \A m \in Machines : AssignsOnce(init[m])

TypeOK ==
  /\ db \in [Ids -> Instance]
  /\ service \in [env : Env, building : Env, running : Env]
  /\ files \in [Machines -> Seq(EnvLine)]
  /\ cli \in [Machines -> Command]
  /\ deleted \subseteq Ids
  /\ faults \in 0..MaxFaults
  /\ \A m \in Machines : cli[m].step \in Busy \ {"find", "create"} => cli[m].target # None

Live(d) == db[d].status \notin {"none", "gone"}

Init ==
  /\ \E world \in {"fresh", "reclaimed", "ambiguous", "paid"} :
     LET old == CHOOSE d \in Ids : TRUE IN
       /\ db = [d \in Ids |->
                  IF d = old
                  THEN [Existing EXCEPT
                          !.status = IF world = "reclaimed" THEN "gone" ELSE "available",
                          !.plan = IF world = "paid" THEN "starter" ELSE "free"]
                  ELSE IF d = CHOOSE e \in Ids \ {old} : TRUE
                  THEN [Existing EXCEPT !.plan = "starter",
                          !.name = IF world = "ambiguous" THEN "dev" ELSE "other"]
                  ELSE NoInstance]
       /\ LET env == [k \in Keys |-> IF k = Url /\ world # "fresh" THEN None ELSE old]
          IN service = [env |-> env, building |-> env, running |-> env]
  /\ files \in InitialFiles
  /\ cli = [m \in Machines |->
              [cmd |-> "pull-env", step |-> "failed", target |-> None, keys |-> <<>>, tries |-> 0,
               opts |-> Defaults]]
  /\ deleted = {}
  /\ faults = 0

(***************************************************************************)
(* The .env file, as a sequence of assignments, some commented out.  Lines *)
(* of other variables are all "OTHER".                                     *)
(***************************************************************************)
activeKeys(file) == {file[i].key : i \in {j \in DOMAIN file : ~file[j].commented}}

IsAssignment(line, key) == line.key = key /\ ~line.commented

\* The first assignment of each key is replaced, missing keys are appended
\* (each once, so that no reader of the file can tell in which order).
upsertEnvVars(file, keys, d) ==
  LET Rewrite(i) ==
        IF /\ file[i].key \in Range(keys) /\ ~file[i].commented
           /\ \A j \in 1..(i - 1) : ~IsAssignment(file[j], file[i].key)
        THEN [file[i] EXCEPT !.value = d] ELSE file[i]
      missing == SetToSeq(Range(keys) \ activeKeys(file))
  IN [i \in DOMAIN file |-> Rewrite(i)]
       \o [i \in DOMAIN missing |-> [key |-> missing[i], commented |-> FALSE, value |-> d]]

\* buildEnvUpdates, with DATABASE_URL only where it is assigned already.
buildEnvUpdates(includeUrl) == IF includeUrl THEN Append(EnvKeys, Url) ELSE EnvKeys

\* What dotenv reads: the last assignment of the key.
Reads(file, key) ==
  LET at == {i \in DOMAIN file : IsAssignment(file[i], key)}
  IN IF at = {} THEN None ELSE file[CHOOSE i \in at : \A j \in at : j <= i].value

(***************************************************************************)
(* Running a command.                                                      *)
(***************************************************************************)
Goto(m, step) == cli' = [cli EXCEPT ![m].step = step, ![m].tries = 0]
Target(m, step, d) == cli' = [cli EXCEPT ![m].step = step, ![m].target = d, ![m].tries = 0]

\* Bound: faults are counted.
Fault == faults < MaxFaults /\ faults' = faults + 1

\* Where a command goes after a step, by its options.
AfterSeed(c) == IF ~c.opts.noService /\ ~c.opts.noHealthCheck THEN "health" ELSE "ok"
AfterDeploy(c) == IF ~c.opts.noSeed THEN "probe" ELSE AfterSeed(c)
AfterFile(c) == IF c.cmd = "pull-env" THEN "ok"
                ELSE IF ~c.opts.noService THEN "list" ELSE AfterDeploy(c)
AfterConnect(c) == IF c.cmd = "pull-env" \/ ~c.opts.noEnvFile THEN "file" ELSE AfterFile(c)

Rotating(m) == cli[m].cmd = "rotate" /\ cli[m].step \in Busy \cup {"confirm"}

\* The workflow's concurrency group: one rotation at a time.
SingleFlight == \A m \in Machines : ~Rotating(m)

Start(m, cmd, opts) ==
  /\ cli[m].step \in {"ok", "failed"}
  /\ IF cmd = "rotate" THEN SingleFlight ELSE opts = Defaults
  /\ cli' = [cli EXCEPT ![m] = [cmd |-> cmd, opts |-> opts, step |-> "find",
                                target |-> None, keys |-> <<>>, tries |-> 0]]
  /\ UNCHANGED <<db, service, files, deleted, faults>>

\* Faulty variant: the plan is not looked at.
assertAnyPlan(d) == db[d].name = "dev"

assertSafeToDelete(d) == db[d].plan \in AllowedPlans /\ db[d].name = "dev"

\* The name filter of the API is fuzzy: findDatabase compares names itself.
findDatabase == {d \in Ids : Live(d) /\ db[d].name = "dev"}

FindForRotate(m) ==
  /\ cli[m].step = "find" /\ cli[m].cmd = "rotate"
  /\ \/ /\ Cardinality(findDatabase) > 1
        /\ Goto(m, "failed")
     \/ /\ findDatabase = {}
        /\ Target(m, IF cli[m].opts.yes THEN "create" ELSE "confirm", None)
     \/ \E d \in Ids :
          /\ findDatabase = {d}
          /\ IF ~assertSafeToDelete(d) THEN Goto(m, "failed")
             ELSE Target(m, IF cli[m].opts.yes THEN "delete" ELSE "confirm", d)
  /\ UNCHANGED <<db, service, files, deleted, faults>>

\* Faulty variant: a database that is gone goes unnoticed.
FindForPullUnchecked(m) ==
  /\ cli[m].step = "find" /\ cli[m].cmd = "pull-env"
  /\ IF Cardinality(findDatabase) > 1 THEN Goto(m, "failed")
     ELSE Target(m, "connect",
                 IF findDatabase = {} THEN None ELSE CHOOSE d \in findDatabase : TRUE)
  /\ UNCHANGED <<db, service, files, deleted, faults>>

FindForPull(m) ==
  /\ cli[m].step = "find" /\ cli[m].cmd = "pull-env"
  /\ IF Cardinality(findDatabase) # 1 THEN Goto(m, "failed")
     ELSE \E d \in findDatabase : Target(m, "connect", d)
  /\ UNCHANGED <<db, service, files, deleted, faults>>

\* The prompt: somebody types "rotate", or something else, or nothing.
Confirm(m, answer) ==
  /\ cli[m].step = "confirm"
  /\ Goto(m, IF ~answer THEN "failed"
             ELSE IF cli[m].target = None THEN "create" ELSE "delete")
  /\ UNCHANGED <<db, service, files, deleted, faults>>

(***************************************************************************)
(* Replacing the instance.  A request whose answer is lost was carried out *)
(* and is sent again: the second DELETE may find nothing, the second POST  *)
(* is refused because the free plan has one instance.                      *)
(***************************************************************************)
Answered(m, step) == Goto(m, step) /\ UNCHANGED faults
Lost(m) ==
  /\ Fault
  /\ cli' = [cli EXCEPT ![m].tries = @ + 1,
                        ![m].step = IF cli[m].tries + 1 = MAX_ATTEMPTS THEN "failed" ELSE @]

Delete(m) ==
  LET d == cli[m].target IN
  /\ cli[m].step = "delete"
  /\ IF ~Live(d)
     THEN Goto(m, "failed") /\ UNCHANGED <<db, deleted, faults>>
     ELSE /\ db' = [db EXCEPT ![d].status = "deleting"]
          /\ deleted' = deleted \cup {d}
          /\ Answered(m, "gone") \/ Lost(m)
  /\ UNCHANGED <<service, files>>

WaitForDeletion(m) ==
  /\ cli[m].step = "gone"
  /\ ~Live(cli[m].target)
  /\ Goto(m, "create")
  /\ UNCHANGED <<db, service, files, deleted, faults>>

FreeTaken == \E d \in Ids : Live(d) /\ db[d].plan = "free"

\* Whether the allow list that was sent is applied is up to the cloud.
\* Bound: an id is used once, and a cloud out of ids refuses.
Create(m) ==
  /\ cli[m].step = "create"
  /\ IF FreeTaken \/ \A d \in Ids : db[d].status # "none"
     THEN Goto(m, "failed") /\ UNCHANGED <<db, faults>>
     ELSE \E d \in Ids, applied \in BOOLEAN :
            /\ db[d].status = "none"
            /\ db' = [db EXCEPT ![d] = [NoInstance EXCEPT !.status = "creating",
                                                          !.allow = applied]]
            /\ \/ Target(m, "provision", d) /\ UNCHANGED faults
               \/ Lost(m)
  /\ UNCHANGED <<service, files, deleted>>

\* Faulty variant: an instance that never becomes available is used all the same.
WaitForAnyStatus(m) ==
  LET d == cli[m].target IN
  /\ cli[m].step = "provision"
  /\ db[d].status # "creating"
  /\ Goto(m, IF db[d].allow THEN "connect" ELSE "allow")
  /\ UNCHANGED <<db, service, files, deleted, faults>>

\* Faulty variant: an instance that never becomes available is given up too,
\* and the rotation begins again.
WaitOrStartOver(m) ==
  LET d == cli[m].target IN
  /\ cli[m].step = "provision"
  /\ db[d].status # "creating"
  /\ IF db[d].status # "available" THEN Target(m, "find", None)
     ELSE Goto(m, IF db[d].allow THEN "connect" ELSE "allow")
  /\ UNCHANGED <<db, service, files, deleted, faults>>

WaitForStatus(m) ==
  LET d == cli[m].target IN
  /\ cli[m].step = "provision"
  /\ db[d].status # "creating"
  /\ Goto(m, IF db[d].status # "available" THEN "failed"
             ELSE IF db[d].allow THEN "connect" ELSE "allow")
  /\ UNCHANGED <<db, service, files, deleted, faults>>

ApplyAllowList(m) ==
  /\ cli[m].step = "allow"
  /\ db' = [db EXCEPT ![cli[m].target].allow = TRUE]
  /\ Goto(m, "connect")
  /\ UNCHANGED <<service, files, deleted, faults>>

GetConnectionInfo(m) ==
  /\ cli[m].step = "connect"
  /\ IF ~Live(cli[m].target) THEN Goto(m, "failed")
     ELSE Goto(m, AfterConnect(cli[m]))
  /\ UNCHANGED <<db, service, files, deleted, faults>>

WriteEnvFile(m) ==
  /\ cli[m].step = "file"
  /\ files' = [files EXCEPT ![m] =
       upsertEnvVars(@, buildEnvUpdates(Url \in activeKeys(@)), cli[m].target)]
  /\ Goto(m, AfterFile(cli[m]))
  /\ UNCHANGED <<db, service, deleted, faults>>

(***************************************************************************)
(* The service: its variables are put one request at a time, then one      *)
(* deploy is asked for and not waited for.                                 *)
(***************************************************************************)
\* DATABASE_URL is touched only where the service relies on it already.
ListEnvVars(m) ==
  /\ cli[m].step = "list"
  /\ cli' = [cli EXCEPT ![m].step = "env",
                        ![m].keys = buildEnvUpdates(service.env[Url] # None)]
  /\ UNCHANGED <<db, service, files, deleted, faults>>

PutEnvVar(m) ==
  /\ cli[m].step = "env"
  /\ service' = [service EXCEPT !.env[Head(cli[m].keys)] = cli[m].target]
  /\ cli' = [cli EXCEPT ![m].keys = Tail(@),
                        ![m].step = IF Len(cli[m].keys) = 1 THEN "deploy" ELSE @]
  /\ UNCHANGED <<db, files, deleted, faults>>

CreateDeploy(m) ==
  /\ cli[m].step = "deploy"
  /\ service' = [service EXCEPT !.building = service.env]
  /\ Goto(m, AfterDeploy(cli[m]))
  /\ UNCHANGED <<db, files, deleted, faults>>

Reachable(d) == d # None /\ db[d].status = "available" /\ db[d].allow

WaitForConnectivity(m) ==
  /\ cli[m].step = "probe"
  /\ Reachable(cli[m].target)
  /\ Goto(m, "seed")
  /\ UNCHANGED <<db, service, files, deleted, faults>>

Seed(m) ==
  /\ cli[m].step = "seed"
  /\ Reachable(cli[m].target)
  /\ db' = [db EXCEPT ![cli[m].target].seeded = TRUE]
  /\ Goto(m, AfterSeed(cli[m]))
  /\ UNCHANGED <<service, files, deleted, faults>>

\* The service answers "up" when every variable it runs with names one
\* instance it can reach.
Up == \E d \in Ids : Reachable(d) /\ \A k \in Range(EnvKeys) : service.running[k] = d

PollHealth(m) ==
  /\ cli[m].step = "health"
  /\ Up
  /\ Goto(m, "ok")
  /\ UNCHANGED <<db, service, files, deleted, faults>>

\* Faulty variant: the wait for the deletion has no deadline.
GiveUpButOnDeletion(m) ==
  /\ cli[m].step \in {"provision", "probe", "health"}
  /\ Goto(m, "failed")
  /\ UNCHANGED <<db, service, files, deleted, faults>>

\* Every wait has a deadline.
GiveUp(m) ==
  /\ cli[m].step \in {"gone", "provision", "probe", "health"}
  /\ Goto(m, "failed")
  /\ UNCHANGED <<db, service, files, deleted, faults>>

\* An error of a request, of a build or of the seeder, or a process killed.
Die(m) ==
  /\ cli[m].step \in Busy \ {"find"}
  /\ Fault
  /\ Goto(m, "failed")
  /\ UNCHANGED <<db, service, files, deleted>>

(***************************************************************************)
(* Render, and the people who use its dashboard.                           *)
(***************************************************************************)
FinishDelete(d) ==
  /\ db[d].status = "deleting"
  /\ db' = [db EXCEPT ![d].status = "gone"]
  /\ UNCHANGED <<service, files, cli, deleted, faults>>

Provision(d, status) ==
  /\ db[d].status = "creating"
  /\ db' = [db EXCEPT ![d].status = status]
  /\ UNCHANGED <<service, files, cli, deleted, faults>>

FinishDeploy ==
  /\ service.building # service.running
  /\ service' = [service EXCEPT !.running = service.building]
  /\ UNCHANGED <<db, files, cli, deleted, faults>>

Watched(d) == \E m \in Machines : Rotating(m) /\ cli[m].target = d

\* A free instance is reclaimed at the end of its days, which is not while
\* the rotation that made it, or is about to replace it, runs.  Nor does anyone
\* upgrade it then: the plan is checked before the prompt and not after it, so
\* an instance upgraded while the prompt waits would be deleted all the same.
Expire(d) ==
  /\ db[d].status = "available" /\ db[d].plan = "free"
  /\ ~Watched(d)
  /\ db' = [db EXCEPT ![d].status = "gone"]
  /\ UNCHANGED <<service, files, cli, deleted, faults>>

Upgrade(d) ==
  /\ db[d].status = "available" /\ db[d].plan = "free"
  /\ ~Watched(d)
  /\ db' = [db EXCEPT ![d].plan = "starter"]
  /\ UNCHANGED <<service, files, cli, deleted, faults>>

Call(m) ==
  \/ FindForRotate(m) \/ FindForPull(m) \/ Delete(m) \/ WaitForDeletion(m)
  \/ Create(m) \/ WaitForStatus(m) \/ ApplyAllowList(m) \/ GetConnectionInfo(m)
  \/ WriteEnvFile(m) \/ ListEnvVars(m) \/ PutEnvVar(m) \/ CreateDeploy(m)
  \/ WaitForConnectivity(m) \/ Seed(m) \/ PollHealth(m) \/ GiveUp(m)

Next ==
  \/ \E m \in Machines :
       \/ \E cmd \in {"rotate", "pull-env"}, opts \in CommandLines : Start(m, cmd, opts)
       \/ \E answer \in BOOLEAN : Confirm(m, answer)
       \/ Call(m)
       \/ Die(m)
  \/ \E d \in Ids :
       \/ FinishDelete(d) \/ Expire(d) \/ Upgrade(d)
       \/ \E status \in {"available", "unknown"} : Provision(d, status)
  \/ FinishDeploy

\* Node runs a command on to its next call; Render and people promise nothing.
Spec == Init /\ [][Next]_vars /\ \A m \in Machines : WF_vars(Call(m))

(***************************************************************************)
(* Properties.                                                             *)
(***************************************************************************)
\* A rotation that reports success left everything it was asked to set up on
\* the one new instance: reachable, seeded, in the .env and in the service's
\* variables, and the service that answered runs with it, whichever deploy of
\* whichever earlier, broken rotation was still under way.
Wired(m, c) ==
  LET d == c.target IN
  /\ Reachable(d)
  /\ ~c.opts.noSeed => db[d].seeded
  /\ ~c.opts.noEnvFile => \A k \in Range(EnvKeys) : Reads(files[m], k) = d
  /\ ~c.opts.noService => \A k \in Keys : service.env[k] \in {d, None}
  /\ ~c.opts.noService /\ ~c.opts.noHealthCheck =>
       \A k \in Range(EnvKeys) : service.running[k] = d

SuccessMeansWired ==
  [][\A m \in Machines :
       cli[m].cmd = "rotate" /\ cli[m].step # "ok" /\ cli[m].step' = "ok" => Wired(m, cli[m])']_vars

\* No rotation ever deletes an instance that is not the development database
\* or is on a plan that config.allowedPlans does not list, whatever earlier
\* runs left behind and whatever became of the instance between two runs.
OnlyDisposableDeleted ==
  \A d \in deleted : db[d].name = "dev" /\ db[d].plan \in AllowedPlans

\* A rotation is choosing until its DELETE, or its POST, is sent: seen like
\* this it implements DatabaseRotation, so that it gives up one instance at
\* most, lost answers and repeated requests included, and never goes back to
\* look for another after it has begun to replace one.
Phase(m) ==
  IF ~Rotating(m) THEN "idle"
  ELSE IF cli[m].step \in {"find", "confirm", "delete"} /\ cli[m].target \notin deleted
  THEN "choosing" ELSE "replacing"

Rotation == INSTANCE DatabaseRotation
              WITH phase <- [m \in Machines |-> Phase(m)], retired <- deleted

RotatesOnce == Rotation!Spec

\* Every command comes to an end, unless it waits for somebody to answer the
\* prompt: each wait has its deadline even when Render never reports progress.
EveryRunEnds ==
  \A m \in Machines : cli[m].step \in Busy ~> cli[m].step \in {"ok", "failed", "confirm"}
================================================================================

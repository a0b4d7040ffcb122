---------------------------- MODULE RenderDbProofs ----------------------------
(***************************************************************************)
(* The rotation of the development database keeps its promises for any     *)
(* instances, machines, variables, .env files and numbers of faults.       *)
(***************************************************************************)
EXTENDS RenderDb, FiniteSetTheorems, SequenceTheorems, TLAPS

(***************************************************************************)
(* The inductive invariant.                                                *)
(***************************************************************************)
\* What a command holds, at each step.
CommandOK(c) ==
  /\ c.step \in (Busy \cup {"confirm"}) \ {"find", "connect", "file"} => c.cmd = "rotate"
  /\ c.step = "find" => c.target = None
  /\ c.step \in Busy \ {"find", "create"} => c.target # None
  /\ c.step \in {"delete", "create"} => c.tries < MAX_ATTEMPTS
  /\ c.step = "delete" /\ c.target \notin deleted => c.tries = 0
  /\ c.step = "env" => c.keys # <<>>

CommandInv == \A m \in Machines : CommandOK(cli[m])

\* The workflow's concurrency group holds.
Alone == \A m, n \in Machines : Rotating(m) /\ Rotating(n) => m = n

\* What is about to be deleted was found safe to delete; what was deleted still
\* is, because nothing brings it back.
Disposable(d) == db[d].name = "dev" /\ db[d].plan \in AllowedPlans

VettedBy(c) ==
  c.cmd = "rotate" /\ c.step \in {"confirm", "delete"} /\ c.target # None =>
    Disposable(c.target) /\ db[c.target].status # "none"

Vetted == \A m \in Machines : VettedBy(cli[m])

Doomed == \A d \in deleted : Disposable(d) /\ db[d].status \in {"deleting", "gone"}

SafeInv == TypeOK /\ CommandInv /\ Alone /\ Vetted /\ Doomed

\* What a rotation has established of its new instance, step by step; "ok" is
\* the step at which it reports all of it.
Made == {"provision", "allow", "connect", "file", "list", "env", "deploy", "probe", "seed",
         "health", "ok"}
Provisioned == Made \ {"provision"}
Allowed == Provisioned \ {"allow"}
PastFile == Allowed \ {"connect", "file"}
PastPuts == PastFile \ {"list", "env"}

Assigned(file, key, d) ==
  \E i \in DOMAIN file : /\ IsAssignment(file[i], key) /\ file[i].value = d
                         /\ \A j \in DOMAIN file : IsAssignment(file[j], key) => j = i

Established(c, file) ==
  LET d == c.target IN
  /\ c.step \in Made => d \in Ids /\ db[d].status \in {"creating", "available", "unknown"}
  /\ c.step \in Provisioned => db[d].status = "available"
  /\ c.step \in Allowed => db[d].allow
  /\ c.step \in PastFile /\ ~c.opts.noEnvFile => \A k \in Range(EnvKeys) : Assigned(file, k, d)
  /\ c.step \in {"list", "env", "deploy"} => ~c.opts.noService
  /\ c.step = "env" => \A k \in Keys \ Range(c.keys) : service.env[k] \in {d, None}
  /\ c.step \in PastPuts /\ ~c.opts.noService => \A k \in Keys : service.env[k] \in {d, None}
  /\ c.step \in {"health", "ok"} /\ ~c.opts.noSeed => db[d].seeded
  /\ c.step = "ok" /\ ~c.opts.noService /\ ~c.opts.noHealthCheck =>
       \A k \in Range(EnvKeys) : service.running[k] = d

\* The instances the service's variables name: each is a development database,
\* and while a rotation replaces the instance, none but its own is alive.
Named ==
  {d \in Ids : \E k \in Keys : d \in {service.env[k], service.building[k], service.running[k]}}

NamedInv == \A d \in Named : db[d].name = "dev" /\ db[d].status # "none"

NamedFor(c) ==
  /\ c.step # "find" => \A d \in Named : Live(d) => d = c.target
  /\ c.step = "create" => \A d \in Named : ~Live(d)
  /\ c.step # "find" /\ c.target # None => db[c.target].name = "dev" /\ db[c.target].status # "none"

FilesInv == \A m \in Machines : AssignsOnce(files[m])

WiredInv == /\ NamedInv /\ FilesInv
            /\ \A m \in Machines : Rotating(m) => NamedFor(cli[m]) /\ Established(cli[m], files[m])

RInv == SafeInv /\ WiredInv

(***************************************************************************)
(* How a command moves.                                                    *)
(***************************************************************************)
AllSteps == Busy \cup {"confirm", "ok", "failed"}

\* The command of machine m is now c, and no other machine's changed.
Moves(m, c) == c \in Command /\ cli' = [cli EXCEPT ![m] = c]

\* c is the same run of the same command as b.
SameRun(c, b) == c.cmd = b.cmd /\ c.opts = b.opts

LEMMA MovesEffect ==
  ASSUME TypeOK, NEW m \in Machines, NEW c, Moves(m, c)
  PROVE  /\ cli' \in [Machines -> Command] /\ cli'[m] = c
         /\ \A n \in Machines \ {m} : cli'[n] = cli[n]
  BY DEF TypeOK, Moves

LEMMA GotoMoves ==
  ASSUME TypeOK, NEW m \in Machines, NEW step \in AllSteps, Goto(m, step)
  PROVE  \E c : /\ Moves(m, c) /\ SameRun(c, cli[m])
                /\ c.step = step /\ c.target = cli[m].target /\ c.keys = cli[m].keys
                /\ c.tries = 0
<1> DEFINE c == [cli[m] EXCEPT !.step = step, !.tries = 0]
<1>1. cli[m] \in Command /\ 0 \in 0..MAX_ATTEMPTS
  BY DEF TypeOK, MAX_ATTEMPTS
<1>2. /\ c \in Command /\ SameRun(c, cli[m]) /\ c.step = step /\ c.target = cli[m].target
      /\ c.keys = cli[m].keys /\ c.tries = 0
  BY <1>1 DEF Command, SameRun, AllSteps
<1>3. cli' = [cli EXCEPT ![m] = c]
  BY DEF Goto
<1> QED BY <1>2, <1>3 DEF Moves

LEMMA TargetMoves ==
  ASSUME TypeOK, NEW m \in Machines, NEW step \in AllSteps, NEW d \in Ids \cup {None},
         Target(m, step, d)
  PROVE  \E c : /\ Moves(m, c) /\ SameRun(c, cli[m])
                /\ c.step = step /\ c.target = d /\ c.tries = 0
<1> DEFINE c == [cli[m] EXCEPT !.step = step, !.target = d, !.tries = 0]
<1>1. cli[m] \in Command /\ 0 \in 0..MAX_ATTEMPTS
  BY DEF TypeOK, MAX_ATTEMPTS
<1>2. /\ c \in Command /\ SameRun(c, cli[m]) /\ c.step = step /\ c.target = d /\ c.tries = 0
  BY <1>1 DEF Command, SameRun, AllSteps
<1>3. cli' = [cli EXCEPT ![m] = c]
  BY DEF Target
<1> QED BY <1>2, <1>3 DEF Moves

\* A request whose answer is lost is tried again, or was tried often enough.
LEMMA LostMoves ==
  ASSUME TypeOK, NEW m \in Machines, cli[m].tries < MAX_ATTEMPTS, Lost(m)
  PROVE  \E c : /\ Moves(m, c) /\ SameRun(c, cli[m])
                /\ c.target = cli[m].target /\ c.tries = cli[m].tries + 1
                /\ \/ c.step = "failed" /\ c.tries = MAX_ATTEMPTS
                   \/ c.step = cli[m].step /\ c.tries < MAX_ATTEMPTS
<1> DEFINE n == cli[m].tries + 1
           c == [cli[m] EXCEPT !.tries = n,
                               !.step = IF n = MAX_ATTEMPTS THEN "failed" ELSE @]
<1>1. cli[m] \in Command /\ cli[m].tries \in 0..MAX_ATTEMPTS
  BY DEF TypeOK, Command
<1>2. n \in 0..MAX_ATTEMPTS
  BY <1>1 DEF MAX_ATTEMPTS
<1>3. cli' = [cli EXCEPT ![m] = c]
  BY DEF Lost
<1> HIDE DEF n
<1>4. c \in Command /\ SameRun(c, cli[m]) /\ c.target = cli[m].target /\ c.tries = n
  BY <1>1, <1>2 DEF Command, SameRun
<1>5. c.step = IF n = MAX_ATTEMPTS THEN "failed" ELSE cli[m].step
  BY <1>1 DEF Command
<1>6. n = MAX_ATTEMPTS \/ n < MAX_ATTEMPTS
  BY <1>2 DEF MAX_ATTEMPTS
<1> QED BY <1>3, <1>4, <1>5, <1>6 DEF Moves, n

(***************************************************************************)
(* Types, and what may be deleted.                                         *)
(***************************************************************************)
Running(c) == c.cmd = "rotate" /\ c.step \in Busy \cup {"confirm"}

\* An instance that exists keeps its name, and its plan unless it is upgraded.
Endures(d) ==
  db[d].status # "none" =>
    /\ db'[d].status # "none" /\ db'[d].name = db[d].name /\ db'[d].plan = db[d].plan
    /\ db[d].status \in {"deleting", "gone"} => db'[d].status \in {"deleting", "gone"}

\* The step of one command: it needs to look at its own record only.
LEMMA SafeMove ==
  ASSUME SafeInv, NEW m \in Machines, NEW c, Moves(m, c),
         db' \in [Ids -> Instance], service' = service \/ service' \in [env : Env, building : Env, running : Env],
         files' \in [Machines -> Seq(EnvLine)], faults' \in 0..MaxFaults,
         deleted \subseteq deleted', deleted' \subseteq Ids,
         \A d \in Ids : Endures(d),
         \A d \in deleted' \ deleted : Disposable(d) /\ db'[d].status = "deleting"
                                       /\ db[d].status # "none",
         CommandOK(c)', VettedBy(c)',
         Running(c) => Rotating(m) \/ SingleFlight
  PROVE  SafeInv'
<1>1. /\ cli' \in [Machines -> Command] /\ cli'[m] = c
      /\ \A n \in Machines \ {m} : cli'[n] = cli[n]
  BY MovesEffect DEF SafeInv
<1>2. CommandInv'
  BY <1>1 DEF SafeInv, CommandInv, CommandOK
<1>3. TypeOK'
  BY <1>1, <1>2 DEF SafeInv, TypeOK, CommandInv, CommandOK
<1>4. Alone'
  BY <1>1 DEF SafeInv, Alone, Rotating, Running, SingleFlight
<1>5. \A d \in Ids : Disposable(d) /\ db[d].status # "none" => Disposable(d)' /\ db'[d].status # "none"
  BY DEF Endures, Disposable
<1>6. ASSUME NEW n \in Machines PROVE VettedBy(cli[n])'
  <2>1. CASE n = m
    BY <1>1, <2>1
  <2>2. CASE n # m
    <3>1. cli'[n] = cli[n] /\ cli[n].target \in Ids \cup {None} /\ VettedBy(cli[n])
      BY <1>1, <2>2 DEF SafeInv, TypeOK, Command, Vetted
    <3> QED BY <1>5, <3>1 DEF VettedBy
  <2> QED BY <2>1, <2>2
<1>7. Doomed'
  BY <1>5 DEF SafeInv, Doomed, Endures, TypeOK
<1> QED BY <1>2, <1>3, <1>4, <1>6, <1>7 DEF SafeInv, Vetted

\* A command that goes on and changes no instance.
LEMMA SafeCall ==
  ASSUME SafeInv, NEW m \in Machines, NEW c, Moves(m, c), UNCHANGED <<db, deleted>>,
         service' = service \/ service' \in [env : Env, building : Env, running : Env],
         files' \in [Machines -> Seq(EnvLine)], faults' \in 0..MaxFaults,
         CommandOK(c), VettedBy(c), Running(c) => Rotating(m) \/ SingleFlight
  PROVE  SafeInv'
<1>1. CommandOK(c)' /\ VettedBy(c)'
  BY DEF CommandOK, VettedBy, Disposable
<1>2. db' \in [Ids -> Instance] /\ deleted' \subseteq Ids /\ \A d \in Ids : Endures(d)
  BY DEF SafeInv, TypeOK, Endures
<1> QED BY <1>1, <1>2, SafeMove

\* A command that only moves on.
LEMMA SafeGoto ==
  ASSUME SafeInv, NEW m \in Machines, NEW step \in AllSteps, Goto(m, step),
         UNCHANGED <<db, service, deleted>>, files' \in [Machines -> Seq(EnvLine)],
         faults' \in 0..MaxFaults,
         \/ step \in {"ok", "failed"}
         \/ /\ cli[m].step \in Busy \cup {"confirm"} /\ cli[m].target # None
            /\ step \in Busy \ {"find", "delete", "env"}
            /\ cli[m].cmd = "rotate" \/ step \in {"connect", "file"}
  PROVE  SafeInv'
<1>1. PICK c : /\ Moves(m, c) /\ SameRun(c, cli[m])
               /\ c.step = step /\ c.target = cli[m].target /\ c.keys = cli[m].keys
               /\ c.tries = 0
  BY GotoMoves DEF SafeInv
<1>2. CommandOK(c)
  BY <1>1 DEF CommandOK, SameRun, MAX_ATTEMPTS, Busy
<1>3. VettedBy(c)
  BY <1>1 DEF VettedBy, Busy
<1>4. Running(c) => Rotating(m)
  BY <1>1 DEF Running, Rotating, SameRun, Busy
<1> QED BY <1>1, <1>2, <1>3, <1>4, SafeCall

\* Where the options may lead.
LEMMA AfterSteps ==
  ASSUME NEW c
  PROVE  /\ AfterSeed(c) \in {"health", "ok"}
         /\ AfterDeploy(c) \in {"probe", "health", "ok"}
         /\ AfterFile(c) \in {"list", "probe", "health", "ok"}
         /\ AfterConnect(c) \in {"file", "list", "probe", "health", "ok"}
         /\ c.cmd = "pull-env" => AfterConnect(c) = "file" /\ AfterFile(c) = "ok"
  BY DEF AfterSeed, AfterDeploy, AfterFile, AfterConnect

LEMMA EnvKeysType ==
  ASSUME NEW b
  PROVE  /\ buildEnvUpdates(b) \in Seq(Keys) /\ buildEnvUpdates(b) # <<>>
         /\ Range(EnvKeys) \subseteq Keys
<1>1. Range(EnvKeys) \subseteq Keys /\ Url \in Keys
  BY DEF Keys
<1>2. EnvKeys \in Seq(Keys) /\ EnvKeys # <<>>
  BY <1>1, RenderDbAssumption
<1>3. Append(EnvKeys, Url) \in Seq(Keys) /\ Append(EnvKeys, Url) # <<>>
  BY <1>1, <1>2
<1> QED BY <1>1, <1>2, <1>3 DEF buildEnvUpdates

(***************************************************************************)
(* The lines of a .env file.                                               *)
(***************************************************************************)
\* SetToSeq enumerates a finite set without repetition.
LEMMA SetToSeqEnumerates ==
  ASSUME NEW S, IsFiniteSet(S)
  PROVE  /\ SetToSeq(S) \in Seq(S)
         /\ \A i, j \in DOMAIN SetToSeq(S) : SetToSeq(S)[i] = SetToSeq(S)[j] => i = j
         /\ \A x \in S : \E i \in DOMAIN SetToSeq(S) : SetToSeq(S)[i] = x
<1> DEFINE n == Cardinality(S)
           f == SetToSeq(S)
<1>1. n \in Nat /\ \E g \in [1..n -> S] : IsInjective(g)
  BY FS_CardinalityType DEF ExistsBijection, Bijection, Injection
<1>2. f \in [1..n -> S] /\ IsInjective(f)
  BY <1>1 DEF SetToSeq
<1>3. f \in Seq(S) /\ DOMAIN f = 1..n
  BY <1>1, <1>2
<1>4. f \in Injection(1..n, S)
  BY <1>2 DEF Injection
<1>5. Cardinality(1..n) = n
  BY <1>1, FS_Interval
<1>6. f \in Surjection(1..n, S)
  BY <1>4, <1>5, FS_Injection
<1>7. \A x \in S : \E i \in 1..n : f[i] = x
  BY <1>6 DEF Surjection
<1> HIDE DEF f, n
<1>8. /\ f \in Seq(S) /\ \A i, j \in DOMAIN f : f[i] = f[j] => i = j
      /\ \A x \in S : \E i \in DOMAIN f : f[i] = x
  BY <1>2, <1>3, <1>7 DEF IsInjective
<1> QED BY <1>8 DEF f

\* The variables that are written are finitely many.
LEMMA RangeIsFinite ==
  ASSUME NEW S, NEW s \in Seq(S)
  PROVE  IsFiniteSet(Range(s)) /\ Range(s) \subseteq S
<1>1. s \in [1..Len(s) -> S] /\ Len(s) \in Nat
  OBVIOUS
<1>2. s \in Surjection(1..Len(s), Range(s))
  BY <1>1 DEF Surjection, Range
<1>3. IsFiniteSet(1..Len(s))
  BY <1>1, FS_Interval
<1> QED BY <1>1, <1>2, <1>3, FS_Surjection DEF Range

\* The two parts of an updated file, line by line.
LEMMA UpsertLines ==
  ASSUME NEW file \in Seq(EnvLine), NEW keys \in Seq(Keys), NEW d \in Ids,
         NEW new, new = upsertEnvVars(file, keys, d)
  PROVE  /\ new \in Seq(EnvLine)
         /\ DOMAIN file \subseteq DOMAIN new
         /\ \A i \in DOMAIN file :
              /\ new[i].key = file[i].key /\ new[i].commented = file[i].commented
              /\ /\ file[i].key \in Range(keys) /\ ~file[i].commented
                 /\ \A j \in 1..(i - 1) : ~IsAssignment(file[j], file[i].key)
                 => new[i].value = d
         /\ \A i \in DOMAIN new \ DOMAIN file :
              /\ new[i].key \in Range(keys) \ activeKeys(file)
              /\ ~new[i].commented /\ new[i].value = d
         /\ \A i, j \in DOMAIN new \ DOMAIN file : new[i].key = new[j].key => i = j
         /\ \A k \in Range(keys) \ activeKeys(file) :
              \E i \in DOMAIN new \ DOMAIN file : new[i].key = k
<1> DEFINE missing == SetToSeq(Range(keys) \ activeKeys(file))
           Rewrite(i) ==
             IF /\ file[i].key \in Range(keys) /\ ~file[i].commented
                /\ \A j \in 1..(i - 1) : ~IsAssignment(file[j], file[i].key)
             THEN [file[i] EXCEPT !.value = d] ELSE file[i]
           front == [i \in DOMAIN file |-> Rewrite(i)]
           back == [i \in DOMAIN missing |-> [key |-> missing[i], commented |-> FALSE, value |-> d]]
<1>1. new = front \o back
  BY DEF upsertEnvVars
<1>2. /\ missing \in Seq(Range(keys) \ activeKeys(file))
      /\ \A i, j \in DOMAIN missing : missing[i] = missing[j] => i = j
      /\ \A k \in Range(keys) \ activeKeys(file) : \E i \in DOMAIN missing : missing[i] = k
  BY RangeIsFinite, FS_Subset, SetToSeqEnumerates
<1>3. Range(keys) \subseteq Keys
  BY RangeIsFinite
<1> HIDE DEF missing
<1>4. back \in Seq(EnvLine) /\ Len(back) = Len(missing)
  <2>1. missing \in [1..Len(missing) -> Range(keys) \ activeKeys(file)] /\ Len(missing) \in Nat
    BY <1>2
  <2>2. \A i \in 1..Len(missing) : back[i] \in EnvLine
    BY <1>3, <2>1 DEF EnvLine
  <2>3. back \in [1..Len(missing) -> EnvLine]
    BY <2>1, <2>2
  <2> HIDE DEF back
  <2> QED BY <2>1, <2>3
<1>5. front \in Seq(EnvLine) /\ Len(front) = Len(file)
  <2>1. file \in [1..Len(file) -> EnvLine] /\ Len(file) \in Nat
    OBVIOUS
  <2>2. \A i \in 1..Len(file) : Rewrite(i) \in EnvLine
    BY <2>1 DEF EnvLine
  <2> HIDE DEF Rewrite
  <2>3. front \in [1..Len(file) -> EnvLine]
    BY <2>1, <2>2
  <2> HIDE DEF front
  <2> QED BY <2>1, <2>3
<1>6. \A i \in DOMAIN file :
        /\ front[i].key = file[i].key /\ front[i].commented = file[i].commented
        /\ /\ file[i].key \in Range(keys) /\ ~file[i].commented
           /\ \A j \in 1..(i - 1) : ~IsAssignment(file[j], file[i].key)
           => front[i].value = d
  BY DEF EnvLine
<1>7. \A i \in DOMAIN missing :
        back[i].key = missing[i] /\ ~back[i].commented /\ back[i].value = d
  OBVIOUS
<1> HIDE DEF front, back
<1> DEFINE n == Len(file)
<1>8. /\ new \in Seq(EnvLine) /\ n \in Nat /\ Len(missing) \in Nat
      /\ DOMAIN file = 1..n /\ DOMAIN missing = 1..Len(missing)
      /\ DOMAIN new = 1..(n + Len(missing))
      /\ \A i \in 1..n : new[i] = front[i]
      /\ \A i \in 1..Len(missing) : new[n + i] = back[i]
  <2>1. n \in Nat /\ Len(missing) \in Nat /\ DOMAIN file = 1..n /\ DOMAIN missing = 1..Len(missing)
    BY <1>2
  <2>2. new \in Seq(EnvLine) /\ Len(new) = n + Len(missing)
    <3>1. front \o back \in Seq(EnvLine) /\ Len(front \o back) = Len(front) + Len(back)
      BY <1>4, <1>5, ConcatProperties
    <3> QED BY <1>1, <1>4, <1>5, <3>1
  <2>3. \A i \in 1..n : new[i] = front[i]
    BY <1>1, <1>4, <1>5
  <2>4. ASSUME NEW i \in 1..Len(missing) PROVE new[n + i] = back[i]
    BY <1>1, <1>4, <1>5, <2>1
  <2>5. DOMAIN new = 1..(n + Len(missing))
    BY <2>2
  <2> QED BY <2>1, <2>2, <2>3, <2>4, <2>5
<1> HIDE DEF n
<1>9. \A i \in DOMAIN new \ DOMAIN file :
        i - n \in 1..Len(missing) /\ new[i] = back[i - n]
  BY <1>8
<1>10. \A i \in DOMAIN new \ DOMAIN file :
         /\ i - n \in DOMAIN missing /\ new[i].key = missing[i - n]
         /\ ~new[i].commented /\ new[i].value = d
  BY <1>7, <1>8, <1>9
<1>11. \A i, j \in DOMAIN new \ DOMAIN file : new[i].key = new[j].key => i = j
  <2> TAKE i, j \in DOMAIN new \ DOMAIN file
  <2>1. i \in Int /\ j \in Int /\ n \in Nat
    BY <1>8
  <2>2. new[i].key = new[j].key => i - n = j - n
    BY <1>2, <1>10
  <2> QED BY <2>1, <2>2
<1>12. \A k \in Range(keys) \ activeKeys(file) : \E i \in DOMAIN new \ DOMAIN file : new[i].key = k
  <2> TAKE k \in Range(keys) \ activeKeys(file)
  <2>1. PICK i \in DOMAIN missing : missing[i] = k
    BY <1>2
  <2>2. n + i \in DOMAIN new \ DOMAIN file /\ new[n + i] = back[i]
    BY <1>8, <2>1
  <2> QED BY <1>7, <2>1, <2>2
<1>13. \A i \in DOMAIN new \ DOMAIN file : new[i].key \in Range(keys) \ activeKeys(file)
  BY <1>2, <1>10
<1>14. DOMAIN file \subseteq DOMAIN new /\ \A i \in DOMAIN file : new[i] = front[i]
  BY <1>8
<1> QED BY <1>6, <1>8, <1>10, <1>11, <1>12, <1>13, <1>14

\* Where each key is assigned once before, it is after, and to the new instance.
LEMMA UpsertAssigns ==
  ASSUME NEW file \in Seq(EnvLine), AssignsOnce(file), NEW keys \in Seq(Keys), NEW d \in Ids
  PROVE  /\ AssignsOnce(upsertEnvVars(file, keys, d))
         /\ \A k \in Range(keys) : Assigned(upsertEnvVars(file, keys, d), k, d)
<1> DEFINE new == upsertEnvVars(file, keys, d)
<1>1. /\ DOMAIN file \subseteq DOMAIN new
      /\ \A i \in DOMAIN file :
           /\ new[i].key = file[i].key /\ new[i].commented = file[i].commented
           /\ /\ file[i].key \in Range(keys) /\ ~file[i].commented
              /\ \A j \in 1..(i - 1) : ~IsAssignment(file[j], file[i].key)
              => new[i].value = d
      /\ \A i \in DOMAIN new \ DOMAIN file :
           /\ new[i].key \in Range(keys) \ activeKeys(file)
           /\ ~new[i].commented /\ new[i].value = d
      /\ \A i, j \in DOMAIN new \ DOMAIN file : new[i].key = new[j].key => i = j
      /\ \A k \in Range(keys) \ activeKeys(file) :
           \E i \in DOMAIN new \ DOMAIN file : new[i].key = k
  BY UpsertLines
<1> HIDE DEF new
<1>2. \A i \in DOMAIN file : ~file[i].commented => file[i].key \in activeKeys(file)
  BY DEF activeKeys
<1>3. Range(keys) \subseteq Keys
  BY RangeIsFinite
<1>4. AssignsOnce(new)
  <2> SUFFICES ASSUME NEW i \in DOMAIN new, NEW j \in DOMAIN new, new[i].key = new[j].key,
                      new[i].key \in Keys, ~new[i].commented, ~new[j].commented
               PROVE  i = j
    BY DEF AssignsOnce
  <2>1. CASE i \in DOMAIN file /\ j \in DOMAIN file
    BY <1>1, <2>1 DEF AssignsOnce
  <2>2. CASE i \in DOMAIN file /\ j \notin DOMAIN file
    BY <1>1, <1>2, <2>2
  <2>3. CASE i \notin DOMAIN file /\ j \in DOMAIN file
    BY <1>1, <1>2, <2>3
  <2>4. CASE i \notin DOMAIN file /\ j \notin DOMAIN file
    BY <1>1, <2>4
  <2> QED BY <2>1, <2>2, <2>3, <2>4
<1>5. ASSUME NEW k \in Range(keys) PROVE Assigned(new, k, d)
  <2>1. \E i \in DOMAIN new : new[i].key = k /\ ~new[i].commented /\ new[i].value = d
    <3>1. CASE k \in activeKeys(file)
      <4>1. PICK i \in DOMAIN file : ~file[i].commented /\ file[i].key = k
        BY <3>1 DEF activeKeys
      <4>2. DOMAIN file = 1..Len(file) /\ Len(file) \in Nat
        OBVIOUS
      <4>3. \A j \in 1..(i - 1) : ~IsAssignment(file[j], k)
        BY <1>3, <4>1, <4>2 DEF AssignsOnce, IsAssignment
      <4> QED BY <1>1, <4>1, <4>3
    <3>2. CASE k \notin activeKeys(file)
      BY <1>1, <3>2
    <3> QED BY <3>1, <3>2
  <2> QED BY <1>3, <1>4, <2>1 DEF Assigned, IsAssignment, AssignsOnce
<1> QED BY <1>4, <1>5 DEF new

\* A key that is assigned once reads as it was assigned.
LEMMA AssignedReads ==
  ASSUME NEW file \in Seq(EnvLine), NEW key, NEW d, Assigned(file, key, d)
  PROVE  Reads(file, key) = d
<1> DEFINE at == {i \in DOMAIN file : IsAssignment(file[i], key)}
<1>1. PICK i \in DOMAIN file : at = {i} /\ file[i].value = d
  BY DEF Assigned
<1>2. (CHOOSE h \in at : \A j \in at : j <= h) = i
  <2>1. i \in Nat
    OBVIOUS
  <2> QED BY <1>1, <2>1
<1> QED BY <1>1, <1>2 DEF Reads

(***************************************************************************)
(* The steps of a command preserve SafeInv.                                *)
(***************************************************************************)
LEMMA StartSafe ==
  ASSUME SafeInv, NEW m \in Machines, NEW cmd \in {"rotate", "pull-env"},
         NEW opts \in CommandLines, Start(m, cmd, opts)
  PROVE  SafeInv'
<1> DEFINE c == [cmd |-> cmd, opts |-> opts, step |-> "find", target |-> None,
                 keys |-> <<>>, tries |-> 0]
<1>1. Moves(m, c)
  <2>1. opts \in Options /\ <<>> \in Seq(Keys) /\ 0 \in 0..MAX_ATTEMPTS
    BY RenderDbAssumption DEF MAX_ATTEMPTS
  <2> QED BY <2>1 DEF Start, Moves, Command, Busy
<1>2. CommandOK(c) /\ VettedBy(c)
  BY DEF CommandOK, VettedBy, Busy
<1>3. Running(c) => SingleFlight
  BY DEF Start, Running
<1> HIDE DEF c
<1> QED BY <1>1, <1>2, <1>3, SafeCall DEF Start, SafeInv, TypeOK

LEMMA FindSafe ==
  ASSUME SafeInv, NEW m \in Machines, FindForRotate(m) \/ FindForPull(m)
  PROVE  SafeInv'
<1>1. /\ UNCHANGED <<db, service, deleted, files, faults>> /\ files \in [Machines -> Seq(EnvLine)]
      /\ faults \in 0..MaxFaults
  BY DEF FindForRotate, FindForPull, SafeInv, TypeOK
<1>2. CASE Goto(m, "failed")
  BY <1>1, <1>2, SafeGoto DEF AllSteps
<1>3. ASSUME NEW step \in {"create", "confirm"}, Target(m, step, None), cli[m].step = "find",
             cli[m].cmd = "rotate"
      PROVE  SafeInv'
  <2>1. PICK c : /\ Moves(m, c) /\ SameRun(c, cli[m])
                 /\ c.step = step /\ c.target = None /\ c.tries = 0
    BY <1>3, TargetMoves DEF SafeInv, AllSteps, Busy
  <2>2. CommandOK(c) /\ VettedBy(c) /\ Rotating(m)
    BY <1>3, <2>1 DEF CommandOK, VettedBy, SameRun, MAX_ATTEMPTS, Busy, Rotating
  <2> QED BY <1>1, <2>1, <2>2, SafeCall
<1>4. ASSUME NEW d \in Ids, NEW step \in {"delete", "confirm"}, Target(m, step, d),
             findDatabase = {d}, assertSafeToDelete(d), cli[m].step = "find", cli[m].cmd = "rotate"
      PROVE  SafeInv'
  <2>1. PICK c : /\ Moves(m, c) /\ SameRun(c, cli[m])
                 /\ c.step = step /\ c.target = d /\ c.tries = 0
    BY <1>4, TargetMoves DEF SafeInv, AllSteps, Busy
  <2>2. db[d].status # "none" /\ Disposable(d)
    BY <1>4 DEF findDatabase, Live, assertSafeToDelete, Disposable
  <2>3. CommandOK(c) /\ VettedBy(c) /\ Rotating(m)
    BY <1>4, <2>1, <2>2, RenderDbAssumption
       DEF CommandOK, VettedBy, SameRun, MAX_ATTEMPTS, Busy, Rotating
  <2> QED BY <1>1, <2>1, <2>3, SafeCall
<1>5. ASSUME NEW d \in Ids, Target(m, "connect", d), cli[m].cmd = "pull-env" PROVE SafeInv'
  <2>1. PICK c : /\ Moves(m, c) /\ SameRun(c, cli[m])
                 /\ c.step = "connect" /\ c.target = d /\ c.tries = 0
    BY <1>5, TargetMoves DEF SafeInv, AllSteps, Busy
  <2>2. CommandOK(c) /\ VettedBy(c) /\ ~Running(c)
    BY <1>5, <2>1, RenderDbAssumption
       DEF CommandOK, VettedBy, SameRun, MAX_ATTEMPTS, Busy, Running
  <2> QED BY <1>1, <2>1, <2>2, SafeCall
<1>6. CASE FindForRotate(m)
  <2>1. ASSUME NEW d \in Ids, findDatabase = {d},
               IF ~assertSafeToDelete(d) THEN Goto(m, "failed")
               ELSE Target(m, IF cli[m].opts.yes THEN "delete" ELSE "confirm", d)
        PROVE  SafeInv'
    BY <1>2, <1>4, <1>6, <2>1 DEF FindForRotate
  <2> QED BY <1>2, <1>3, <1>6, <2>1 DEF FindForRotate
<1>7. CASE FindForPull(m)
  BY <1>2, <1>5, <1>7 DEF FindForPull, findDatabase
<1> QED BY <1>6, <1>7

LEMMA ConfirmSafe ==
  ASSUME SafeInv, NEW m \in Machines, NEW answer \in BOOLEAN, Confirm(m, answer)
  PROVE  SafeInv'
<1> DEFINE step == IF ~answer THEN "failed"
                   ELSE IF cli[m].target = None THEN "create" ELSE "delete"
<1>1. step \in AllSteps /\ Goto(m, step)
  BY DEF Confirm, AllSteps, Busy
<1>2. PICK c : /\ Moves(m, c) /\ SameRun(c, cli[m])
               /\ c.step = step /\ c.target = cli[m].target /\ c.tries = 0
  BY <1>1, GotoMoves DEF SafeInv
<1>3. cli[m].step = "confirm" /\ cli[m].cmd = "rotate" /\ VettedBy(cli[m])
  BY DEF Confirm, SafeInv, CommandInv, CommandOK, Vetted
<1>4. CommandOK(c)
  BY <1>2, <1>3 DEF CommandOK, SameRun, MAX_ATTEMPTS, Busy
<1>5. VettedBy(c) /\ Rotating(m)
  BY <1>2, <1>3 DEF VettedBy, SameRun, Rotating
<1> QED BY <1>2, <1>4, <1>5, SafeCall DEF Confirm, SafeInv, TypeOK

LEMMA DeleteSafe ==
  ASSUME SafeInv, NEW m \in Machines, Delete(m)
  PROVE  SafeInv'
<1> DEFINE d == cli[m].target
<1>1. /\ cli[m].step = "delete" /\ cli[m].cmd = "rotate" /\ d \in Ids
      /\ cli[m].tries < MAX_ATTEMPTS /\ Disposable(d) /\ Rotating(m)
  BY DEF Delete, SafeInv, TypeOK, Command, CommandInv, CommandOK, Vetted, VettedBy, Busy, Rotating
<1>2. CASE ~Live(d)
  BY <1>2, SafeGoto DEF Delete, AllSteps, SafeInv, TypeOK
<1>3. CASE Live(d)
  <2>1. /\ db' = [db EXCEPT ![d].status = "deleting"] /\ deleted' = deleted \cup {d}
        /\ UNCHANGED <<service, files>> /\ (Answered(m, "gone") \/ Lost(m))
    BY <1>3 DEF Delete
  <2>2. PICK c : /\ Moves(m, c) /\ SameRun(c, cli[m]) /\ c.target = d
                 /\ \/ c.step \in {"gone", "failed"}
                    \/ c.step = "delete" /\ c.tries < MAX_ATTEMPTS
    <3>1. TypeOK /\ "gone" \in AllSteps
      BY DEF SafeInv, AllSteps, Busy
    <3>2. CASE Goto(m, "gone")
      BY <3>1, <3>2, GotoMoves
    <3>3. CASE Lost(m)
      BY <1>1, <3>1, <3>3, LostMoves
    <3> QED BY <2>1, <3>2, <3>3 DEF Answered
  <2>3. db' \in [Ids -> Instance] /\ db'[d].status = "deleting"
        /\ \A e \in Ids : Endures(e)
    BY <1>1, <2>1 DEF SafeInv, TypeOK, Instance, Endures
  <2>4. CommandOK(c)' /\ VettedBy(c)'
    BY <1>1, <2>1, <2>2, <2>3, RenderDbAssumption
       DEF CommandOK, VettedBy, SameRun, Busy, Disposable, Endures, Live
  <2>5. faults' \in 0..MaxFaults
    BY <2>1, RenderDbAssumption DEF Answered, Lost, Fault, SafeInv, TypeOK
  <2>6. \A e \in deleted' \ deleted : Disposable(e) /\ db'[e].status = "deleting"
                                       /\ db[e].status # "none"
    BY <1>1, <1>3, <2>1, <2>3 DEF Live
  <2>7. deleted \subseteq deleted' /\ deleted' \subseteq Ids
    BY <1>1, <2>1 DEF SafeInv, TypeOK
  <2>8. files' \in [Machines -> Seq(EnvLine)]
    BY <2>1 DEF SafeInv, TypeOK
  <2> QED BY <1>1, <2>1, <2>2, <2>3, <2>4, <2>5, <2>6, <2>7, <2>8, SafeMove
<1> QED BY <1>2, <1>3

\* A command that creates or changes its instance.
LEMMA InstanceSafe ==
  ASSUME SafeInv, NEW m \in Machines, Create(m) \/ ApplyAllowList(m) \/ Seed(m)
  PROVE  SafeInv'
<1>1. CASE Create(m)
  <2>1. cli[m].step = "create" /\ cli[m].cmd = "rotate" /\ cli[m].tries < MAX_ATTEMPTS /\ Rotating(m)
    BY <1>1 DEF Create, SafeInv, CommandInv, CommandOK, Busy, Rotating
  <2>2. CASE Goto(m, "failed") /\ UNCHANGED <<db, faults>>
    BY <1>1, <2>2, SafeGoto DEF Create, AllSteps, SafeInv, TypeOK
  <2>3. ASSUME NEW d \in Ids, NEW applied \in BOOLEAN, db[d].status = "none",
               db' = [db EXCEPT ![d] = [NoInstance EXCEPT !.status = "creating",
                                                          !.allow = applied]],
               \/ Target(m, "provision", d) /\ UNCHANGED faults
               \/ Lost(m)
        PROVE  SafeInv'
    <3>1. PICK c : /\ Moves(m, c) /\ SameRun(c, cli[m])
                   /\ \/ c.step = "failed"
                      \/ c.step = "provision" /\ c.target = d
                      \/ c.step = "create" /\ c.tries < MAX_ATTEMPTS
      BY <2>1, <2>3, TargetMoves, LostMoves DEF AllSteps, Busy, SafeInv
    <3>2. [NoInstance EXCEPT !.status = "creating", !.allow = applied] \in Instance
      BY DEF NoInstance, Instance
    <3>3. db' \in [Ids -> Instance] /\ \A e \in Ids \ {d} : db'[e] = db[e]
      BY <2>3, <3>2 DEF SafeInv, TypeOK
    <3>4. \A e \in Ids : Endures(e)
      BY <2>3, <3>3 DEF Endures
    <3>5. CommandOK(c)' /\ VettedBy(c)'
      BY <2>1, <3>1, RenderDbAssumption DEF CommandOK, VettedBy, SameRun, Busy
    <3>6. faults' \in 0..MaxFaults
      BY <2>3, RenderDbAssumption DEF Lost, Fault, SafeInv, TypeOK
    <3> QED BY <1>1, <2>1, <3>1, <3>3, <3>4, <3>5, <3>6, SafeMove DEF Create, SafeInv, TypeOK
  <2> QED BY <1>1, <2>2, <2>3 DEF Create
<1>2. CASE ApplyAllowList(m) \/ Seed(m)
  <2> DEFINE d == cli[m].target
  <2>1. /\ d \in Ids /\ cli[m].cmd = "rotate" /\ Rotating(m) /\ d # None
    BY <1>2 DEF ApplyAllowList, Seed, SafeInv, TypeOK, Command, CommandInv, CommandOK, Busy, Rotating
  <2>2. db' \in [Ids -> Instance] /\ \A e \in Ids : Endures(e)
    <3>1. PICK i \in Instance : /\ db' = [db EXCEPT ![d] = i] /\ i.status = db[d].status
                                /\ i.name = db[d].name /\ i.plan = db[d].plan
      <4>1. db[d] \in Instance
        BY <2>1 DEF SafeInv, TypeOK
      <4>2. CASE ApplyAllowList(m)
        <5> DEFINE i == [db[d] EXCEPT !.allow = TRUE]
        <5>1. /\ i \in Instance /\ i.status = db[d].status /\ i.name = db[d].name
              /\ i.plan = db[d].plan
          BY <4>1 DEF Instance
        <5>2. db' = [db EXCEPT ![d] = i]
          BY <4>2 DEF ApplyAllowList
        <5> HIDE DEF i
        <5> QED BY <5>1, <5>2
      <4>3. CASE Seed(m)
        <5> DEFINE i == [db[d] EXCEPT !.seeded = TRUE]
        <5>1. /\ i \in Instance /\ i.status = db[d].status /\ i.name = db[d].name
              /\ i.plan = db[d].plan
          BY <4>1 DEF Instance
        <5>2. db' = [db EXCEPT ![d] = i]
          BY <4>3 DEF Seed
        <5> HIDE DEF i
        <5> QED BY <5>1, <5>2
      <4> QED BY <1>2, <4>2, <4>3
    <3> QED BY <2>1, <3>1 DEF SafeInv, TypeOK, Endures
  <2>3. \E step \in {"connect", "health", "ok"} : Goto(m, step)
    BY <1>2, AfterSteps DEF ApplyAllowList, Seed
  <2>4. PICK c : /\ Moves(m, c) /\ SameRun(c, cli[m]) /\ c.target = d
                 /\ c.step \in {"connect", "health", "ok"}
    BY <2>3, GotoMoves DEF AllSteps, Busy, SafeInv
  <2>5. CommandOK(c)' /\ VettedBy(c)'
    BY <2>1, <2>4 DEF CommandOK, VettedBy, SameRun, Busy
  <2>6. UNCHANGED <<service, files, deleted, faults>>
    BY <1>2 DEF ApplyAllowList, Seed
  <2> QED BY <2>1, <2>2, <2>4, <2>5, <2>6, SafeMove DEF SafeInv, TypeOK
<1> QED BY <1>1, <1>2

\* A command that only waits, reads or writes elsewhere.
LEMMA GoOnSafe ==
  ASSUME SafeInv, NEW m \in Machines,
         \/ WaitForDeletion(m) \/ WaitForStatus(m) \/ GetConnectionInfo(m) \/ WriteEnvFile(m)
         \/ WaitForConnectivity(m) \/ PollHealth(m) \/ GiveUp(m) \/ Die(m)
  PROVE  SafeInv'
<1>1. UNCHANGED <<db, service, deleted>>
  BY DEF WaitForDeletion, WaitForStatus, GetConnectionInfo, WriteEnvFile, WaitForConnectivity,
         PollHealth, GiveUp, Die
<1>2. faults' \in 0..MaxFaults
  BY RenderDbAssumption
     DEF WaitForDeletion, WaitForStatus, GetConnectionInfo, WriteEnvFile, WaitForConnectivity,
         PollHealth, GiveUp, Die, Fault, SafeInv, TypeOK
<1>3. files' \in [Machines -> Seq(EnvLine)]
  <2>1. CASE WriteEnvFile(m)
    <3>1. cli[m].target \in Ids /\ files[m] \in Seq(EnvLine)
      BY <2>1 DEF WriteEnvFile, SafeInv, TypeOK, Command, CommandInv, CommandOK, Busy
    <3>2. buildEnvUpdates(Url \in activeKeys(files[m])) \in Seq(Keys)
      BY EnvKeysType
    <3>3. upsertEnvVars(files[m], buildEnvUpdates(Url \in activeKeys(files[m])), cli[m].target)
            \in Seq(EnvLine)
      BY <3>1, <3>2, UpsertLines
    <3> QED BY <2>1, <3>3 DEF WriteEnvFile, SafeInv, TypeOK
  <2>2. CASE UNCHANGED files
    BY <2>2 DEF SafeInv, TypeOK
  <2> QED BY <2>1, <2>2 DEF WaitForDeletion, WaitForStatus, GetConnectionInfo,
                            WaitForConnectivity, PollHealth, GiveUp, Die
<1>4. cli[m].step \in Busy \ {"find", "create"} => cli[m].target # None
  BY DEF SafeInv, CommandInv, CommandOK
<1>5. cli[m].step \in {"gone", "provision", "probe"} => cli[m].cmd = "rotate"
  BY DEF SafeInv, CommandInv, CommandOK, Busy
<1>6. cli[m].cmd \in {"rotate", "pull-env"}
  BY DEF SafeInv, TypeOK, Command
<1>7. \E step \in AllSteps :
        /\ Goto(m, step)
        /\ \/ step \in {"ok", "failed"}
           \/ /\ cli[m].step \in Busy \cup {"confirm"} /\ cli[m].target # None
              /\ step \in Busy \ {"find", "delete", "env"}
              /\ cli[m].cmd = "rotate" \/ step \in {"connect", "file"}
  <2>1. CASE GiveUp(m) \/ Die(m) \/ PollHealth(m)
    BY <2>1 DEF GiveUp, Die, PollHealth, AllSteps
  <2>2. CASE WaitForDeletion(m) \/ WaitForStatus(m) \/ WaitForConnectivity(m)
    BY <2>2, <1>4, <1>5 DEF WaitForDeletion, WaitForStatus, WaitForConnectivity, AllSteps, Busy
  <2>3. CASE GetConnectionInfo(m) \/ WriteEnvFile(m)
    BY <2>3, <1>4, <1>6, AfterSteps DEF GetConnectionInfo, WriteEnvFile, AllSteps, Busy
  <2> QED BY <2>1, <2>2, <2>3
<1> QED BY <1>1, <1>2, <1>3, <1>7, SafeGoto

\* A command that writes the service's variables.
LEMMA ServiceSafe ==
  ASSUME SafeInv, NEW m \in Machines, ListEnvVars(m) \/ PutEnvVar(m) \/ CreateDeploy(m)
  PROVE  SafeInv'
<1> DEFINE T == [env : Env, building : Env, running : Env]
<1>1. /\ cli[m] \in Command /\ cli[m].cmd = "rotate" /\ cli[m].target \in Ids
      /\ Rotating(m) /\ service \in T /\ CommandOK(cli[m]) /\ cli[m].target # None
  BY DEF ListEnvVars, PutEnvVar, CreateDeploy, SafeInv, TypeOK, Command, CommandInv, CommandOK,
         Busy, Rotating
<1>2. /\ UNCHANGED <<db, files, deleted, faults>>
      /\ files \in [Machines -> Seq(EnvLine)] /\ faults \in 0..MaxFaults
  BY DEF ListEnvVars, PutEnvVar, CreateDeploy, SafeInv, TypeOK
<1>3. CASE ListEnvVars(m)
  <2> DEFINE keys == buildEnvUpdates(service.env[Url] # None)
             c == [cli[m] EXCEPT !.step = "env", !.keys = keys]
  <2>1. keys \in Seq(Keys) /\ keys # <<>>
    BY EnvKeysType
  <2>2. cli' = [cli EXCEPT ![m] = c] /\ UNCHANGED service
    BY <1>3 DEF ListEnvVars
  <2> HIDE DEF keys
  <2>3. c \in Command /\ c.step = "env" /\ c.cmd = "rotate" /\ c.target = cli[m].target /\ c.keys = keys
    BY <1>1, <2>1 DEF Command, Busy
  <2> HIDE DEF c
  <2>4. CommandOK(c) /\ VettedBy(c)
    BY <1>1, <2>1, <2>3 DEF CommandOK, VettedBy, Busy
  <2> QED BY <1>1, <1>2, <2>2, <2>3, <2>4, SafeCall DEF Moves
<1>4. CASE PutEnvVar(m)
  <2>1. cli[m].keys \in Seq(Keys) /\ cli[m].keys # <<>> /\ cli[m].step = "env"
    BY <1>1, <1>4 DEF PutEnvVar, CommandOK, Command
  <2> DEFINE keys == Tail(cli[m].keys)
             step == IF Len(cli[m].keys) = 1 THEN "deploy" ELSE "env"
             c == [cli[m] EXCEPT !.keys = keys, !.step = step]
  <2>2. keys \in Seq(Keys) /\ (step = "env" => keys # <<>>) /\ Head(cli[m].keys) \in Keys
    <3>1. PICK s \in Seq(Keys) : s = cli[m].keys /\ s # <<>>
      BY <2>1
    <3>2. Head(s) \in Keys /\ Tail(s) \in Seq(Keys) /\ Len(Tail(s)) = Len(s) - 1 /\ Len(s) \in Nat
      BY <3>1, HeadTailProperties
    <3>3. Len(<<>>) = 0
      OBVIOUS
    <3>4. Len(s) # 1 => Tail(s) # <<>>
      BY <3>2, <3>3
    <3> QED BY <3>1, <3>2, <3>4
  <2>3. cli' = [cli EXCEPT ![m] = c] /\ service' = [service EXCEPT !.env[Head(cli[m].keys)] = cli[m].target]
    BY <1>4, <2>1 DEF PutEnvVar
  <2>4. service' \in T
    BY <1>1, <2>2, <2>3 DEF Env
  <2>5. step \in {"env", "deploy"}
    OBVIOUS
  <2> HIDE DEF keys, step
  <2>6. c \in Command /\ c.step = step /\ c.cmd = "rotate" /\ c.target = cli[m].target /\ c.keys = keys
    BY <1>1, <2>2, <2>5 DEF Command, Busy
  <2> HIDE DEF c
  <2>7. CommandOK(c) /\ VettedBy(c)
    BY <1>1, <2>2, <2>5, <2>6 DEF CommandOK, VettedBy, Busy
  <2> QED BY <1>1, <1>2, <2>3, <2>4, <2>6, <2>7, SafeCall DEF Moves
<1>5. CASE CreateDeploy(m)
  <2>1. service' \in T
    BY <1>1, <1>5 DEF CreateDeploy
  <2>2. PICK c : /\ Moves(m, c) /\ SameRun(c, cli[m]) /\ c.target = cli[m].target
                 /\ c.step \in {"probe", "health", "ok"}
    BY <1>5, AfterSteps, GotoMoves DEF CreateDeploy, AllSteps, Busy, SafeInv
  <2>3. CommandOK(c) /\ VettedBy(c)
    BY <1>1, <2>2 DEF CommandOK, VettedBy, SameRun, Busy
  <2> QED BY <1>1, <1>2, <2>1, <2>2, <2>3, SafeCall
<1> QED BY <1>3, <1>4, <1>5

(***************************************************************************)
(* Render and the people at its dashboard.                                 *)
(***************************************************************************)
\* What becomes of an instance by itself, or by somebody's hand.
Becomes(d, i) == i \in Instance /\ db' = [db EXCEPT ![d] = i] /\ i.name = db[d].name

LEMMA WorldSafe ==
  ASSUME SafeInv,
         \/ FinishDeploy
         \/ \E d \in Ids : \/ FinishDelete(d) \/ Expire(d) \/ Upgrade(d)
                           \/ \E status \in {"available", "unknown"} : Provision(d, status)
  PROVE  SafeInv'
<1>1. CASE FinishDeploy
  <2>1. service' \in [env : Env, building : Env, running : Env]
    BY <1>1 DEF FinishDeploy, SafeInv, TypeOK
  <2> QED BY <1>1, <2>1 DEF FinishDeploy, SafeInv, TypeOK, CommandInv, CommandOK, Alone, Rotating,
                            Vetted, VettedBy, Doomed, Disposable
<1>2. ASSUME NEW d \in Ids, NEW i, Becomes(d, i), db[d].status \notin {"none"}, i.status # "none",
             UNCHANGED <<service, files, cli, deleted, faults>>,
             d \in deleted => i.status = "gone",
             i.plan = db[d].plan \/ (~Watched(d) /\ d \notin deleted)
      PROVE  SafeInv'
  <2>1. db' \in [Ids -> Instance] /\ db'[d] = i /\ \A e \in Ids \ {d} : db'[e] = db[e]
    BY <1>2 DEF Becomes, SafeInv, TypeOK
  <2>2. TypeOK' /\ CommandInv' /\ Alone'
    BY <1>2, <2>1 DEF SafeInv, TypeOK, CommandInv, CommandOK, Alone, Rotating
  <2>3. Doomed'
    BY <1>2, <2>1 DEF SafeInv, TypeOK, Doomed, Disposable, Becomes
  <2>4. ASSUME NEW m \in Machines PROVE VettedBy(cli[m])'
    <3>1. VettedBy(cli[m]) /\ cli[m].target \in Ids \cup {None}
      BY DEF SafeInv, Vetted, TypeOK, Command
    <3>2. cli[m].target = d /\ cli[m].cmd = "rotate" /\ cli[m].step \in {"confirm", "delete"} =>
            i.plan = db[d].plan
      BY <1>2 DEF Watched, Rotating, Busy
    <3> QED BY <1>2, <2>1, <3>1, <3>2 DEF VettedBy, Disposable, Becomes
  <2> QED BY <1>2, <2>2, <2>3, <2>4 DEF SafeInv, Vetted
<1>3. ASSUME NEW d \in Ids,
             \/ FinishDelete(d) \/ Expire(d) \/ Upgrade(d)
             \/ \E status \in {"available", "unknown"} : Provision(d, status)
      PROVE  SafeInv'
  <2>1. db[d] \in Instance /\ (d \in deleted => db[d].status \in {"deleting", "gone"})
    BY DEF SafeInv, TypeOK, Doomed
  <2>2. CASE Upgrade(d)
    <3> DEFINE i == [db[d] EXCEPT !.plan = "starter"]
    <3>1. i \in Instance /\ i.name = db[d].name /\ i.status = db[d].status
      BY <2>1 DEF Instance
    <3>2. db' = [db EXCEPT ![d] = i]
      BY <2>2 DEF Upgrade
    <3> HIDE DEF i
    <3> QED BY <1>2, <2>1, <2>2, <3>1, <3>2 DEF Upgrade, Becomes
  <2>3. ASSUME NEW status \in {"available", "unknown", "gone"},
               db' = [db EXCEPT ![d].status = status], db[d].status # "none",
               UNCHANGED <<service, files, cli, deleted, faults>>,
               d \in deleted => status = "gone"
        PROVE  SafeInv'
    <3> DEFINE i == [db[d] EXCEPT !.status = status]
    <3>1. /\ i \in Instance /\ i.name = db[d].name /\ i.status = status /\ i.plan = db[d].plan
      BY <2>1 DEF Instance
    <3>2. db' = [db EXCEPT ![d] = i]
      BY <2>3
    <3> HIDE DEF i
    <3> QED BY <1>2, <2>1, <2>3, <3>1, <3>2 DEF Becomes
  <2> QED BY <1>3, <2>1, <2>2, <2>3 DEF FinishDelete, Expire, Provision
<1> QED BY <1>1, <1>3

(***************************************************************************)
(* Every behaviour.                                                        *)
(***************************************************************************)
LEMMA InitSafe ==
  ASSUME Init
  PROVE  SafeInv
<1> DEFINE old == CHOOSE d \in Ids : TRUE
           other == CHOOSE e \in Ids \ {old} : TRUE
<1>0. PICK world \in {"fresh", "reclaimed", "ambiguous", "paid"} :
        /\ db = [d \in Ids |->
                   IF d = old
                   THEN [Existing EXCEPT
                           !.status = IF world = "reclaimed" THEN "gone" ELSE "available",
                           !.plan = IF world = "paid" THEN "starter" ELSE "free"]
                   ELSE IF d = other
                   THEN [Existing EXCEPT !.plan = "starter",
                           !.name = IF world = "ambiguous" THEN "dev" ELSE "other"]
                   ELSE NoInstance]
        /\ LET env == [k \in Keys |-> IF k = Url /\ world # "fresh" THEN None ELSE old]
           IN service = [env |-> env, building |-> env, running |-> env]
  BY DEF Init
<1>1. db \in [Ids -> Instance]
  <2> HIDE DEF old, other
  <2> QED BY <1>0 DEF Existing, NoInstance, Instance
<1>2. service \in [env : Env, building : Env, running : Env]
  <2>1. old \in Ids
    BY RenderDbAssumption
  <2> HIDE DEF old
  <2> QED BY <1>0, <2>1 DEF Env
<1>3. files \in [Machines -> Seq(EnvLine)] /\ faults \in 0..MaxFaults /\ deleted = {}
  BY RenderDbAssumption DEF Init
<1>4. \A m \in Machines : cli[m].step = "failed"
  BY DEF Init
<1>5. cli \in [Machines -> Command]
  <2>1. Defaults \in Options /\ <<>> \in Seq(Keys) /\ 0 \in 0..MAX_ATTEMPTS
    BY DEF Defaults, Options, MAX_ATTEMPTS
  <2>2. [cmd |-> "pull-env", step |-> "failed", target |-> None, keys |-> <<>>, tries |-> 0,
         opts |-> Defaults] \in Command
    BY <2>1 DEF Command
  <2> QED BY <2>2 DEF Init
<1>6. TypeOK
  BY <1>1, <1>2, <1>3, <1>4, <1>5 DEF TypeOK, Busy
<1> QED BY <1>3, <1>4, <1>6
        DEF SafeInv, CommandInv, CommandOK, Alone, Rotating, Vetted, VettedBy, Doomed, Busy

LEMMA NextSafe ==
  ASSUME SafeInv, [Next]_vars
  PROVE  SafeInv'
<1>1. CASE UNCHANGED vars
  BY <1>1 DEF vars, SafeInv, TypeOK, CommandInv, CommandOK, Alone, Rotating, Vetted, VettedBy,
              Doomed, Disposable
<1>2. ASSUME NEW m \in Machines, Call(m) PROVE SafeInv'
  BY <1>2, FindSafe, DeleteSafe, InstanceSafe, GoOnSafe, ServiceSafe DEF Call
<1> QED BY <1>1, <1>2, StartSafe, ConfirmSafe, GoOnSafe, WorldSafe DEF Next

THEOREM SafetyInvariant == Spec => []SafeInv
<1> QED BY InitSafe, NextSafe, PTL DEF Spec

\* The state always has its types: a command past its search has an instance to
\* work on, whatever errors, lost answers and deaths came before.
THEOREM RenderDbTypeCorrect == Spec => []TypeOK
<1>1. SafeInv => TypeOK
  BY DEF SafeInv
<1> QED BY <1>1, SafetyInvariant, PTL

\* No rotation ever deletes an instance that is not the development database or
\* is on a plan that config.allowedPlans does not list.
THEOREM DisposableOnly == Spec => []OnlyDisposableDeleted
<1>1. SafeInv => OnlyDisposableDeleted
  BY DEF SafeInv, Doomed, Disposable, OnlyDisposableDeleted
<1> QED BY <1>1, SafetyInvariant, PTL

(***************************************************************************)
(* The rotation implements DatabaseRotation.                               *)
(***************************************************************************)
\* The phase a machine is in once its command is c.
PhaseOf(c) ==
  IF ~Running(c) THEN "idle"
  ELSE IF c.step \in {"find", "confirm", "delete"} /\ c.target \notin deleted
  THEN "choosing" ELSE "replacing"

\* Only one machine rotates, so that a deletion is seen in the phase of none other.
LEMMA PhaseMoves ==
  ASSUME SafeInv, NEW m \in Machines, NEW c, Moves(m, c), deleted' = deleted \/ Rotating(m)
  PROVE  [n \in Machines |-> Phase(n)]' = [[n \in Machines |-> Phase(n)] EXCEPT ![m] = PhaseOf(c)']
<1>1. cli'[m] = c /\ \A n \in Machines \ {m} : cli'[n] = cli[n]
  BY MovesEffect DEF SafeInv
<1>2. Phase(m)' = PhaseOf(c)'
  BY <1>1 DEF Phase, PhaseOf, Rotating, Running
<1>3. ASSUME NEW n \in Machines \ {m} PROVE Phase(n)' = Phase(n)
  BY <1>1, <1>3 DEF Phase, Rotating, SafeInv, Alone
<1> QED BY <1>2, <1>3

\* A step that deletes nothing ends the rotation, goes on with it, or begins to replace.
LEMMA PhaseStep ==
  ASSUME SafeInv, NEW m \in Machines, NEW c, Moves(m, c), UNCHANGED deleted,
         PhaseOf(c) \in {"idle", Phase(m)} \/ (Phase(m) = "choosing" /\ PhaseOf(c) = "replacing")
  PROVE  [Rotation!Next]_Rotation!vars
<1> DEFINE phase == [n \in Machines |-> Phase(n)]
<1>1. PhaseOf(c)' = PhaseOf(c)
  BY DEF PhaseOf
<1>2. phase' = [phase EXCEPT ![m] = PhaseOf(c)]
  BY <1>1, PhaseMoves
<1>3. CASE PhaseOf(c) = Phase(m)
  BY <1>2, <1>3 DEF Rotation!vars
<1>4. CASE Phase(m) # "idle" /\ PhaseOf(c) = "idle"
  BY <1>2, <1>4 DEF Rotation!Next, Rotation!End
<1>5. CASE Phase(m) = "choosing" /\ PhaseOf(c) = "replacing"
  BY <1>2, <1>5 DEF Rotation!Next, Rotation!Replace
<1> QED BY <1>3, <1>4, <1>5

\* A step past the choice.
LEMMA PastChoice ==
  ASSUME SafeInv, NEW m \in Machines, NEW c, Moves(m, c), UNCHANGED deleted, SameRun(c, cli[m]),
         cli[m].step \in Busy \cup {"confirm"}, c.step \notin {"find", "confirm", "delete"}
  PROVE  [Rotation!Next]_Rotation!vars
<1>1. PhaseOf(c) \in {"idle", Phase(m)} \/ (Phase(m) = "choosing" /\ PhaseOf(c) = "replacing")
  BY DEF PhaseOf, Phase, Running, Rotating, SameRun
<1> QED BY <1>1, PhaseStep

LEMMA PastChoiceGoto ==
  ASSUME SafeInv, NEW m \in Machines, NEW step \in AllSteps \ {"find", "confirm", "delete"},
         Goto(m, step), UNCHANGED deleted, cli[m].step \in Busy \cup {"confirm"}
  PROVE  [Rotation!Next]_Rotation!vars
BY GotoMoves, PastChoice DEF SafeInv

LEMMA StartRotation ==
  ASSUME SafeInv, NEW m \in Machines, NEW cmd \in {"rotate", "pull-env"},
         NEW opts \in CommandLines, Start(m, cmd, opts)
  PROVE  [Rotation!Next]_Rotation!vars
<1> DEFINE c == [cmd |-> cmd, opts |-> opts, step |-> "find", target |-> None,
                 keys |-> <<>>, tries |-> 0]
           phase == [n \in Machines |-> Phase(n)]
<1>1. Moves(m, c) /\ UNCHANGED deleted
  <2>1. opts \in Options /\ <<>> \in Seq(Keys) /\ 0 \in 0..MAX_ATTEMPTS
    BY RenderDbAssumption DEF MAX_ATTEMPTS
  <2> QED BY <2>1 DEF Start, Moves, Command, Busy
<1>2. None \notin deleted
  BY RenderDbAssumption DEF SafeInv, TypeOK
<1>3. Phase(m) = "idle"
  BY DEF Start, Phase, Rotating, Busy
<1>4. CASE cmd = "rotate"
  <2>1. PhaseOf(c)' = "choosing"
    BY <1>1, <1>2, <1>4 DEF PhaseOf, Running, Busy
  <2> HIDE DEF c
  <2>2. \A n \in Machines : phase[n] = "idle"
    BY <1>4 DEF Start, SingleFlight, Phase
  <2>3. phase' = [phase EXCEPT ![m] = "choosing"]
    BY <1>1, <2>1, PhaseMoves
  <2> QED BY <1>1, <2>2, <2>3 DEF Rotation!Next, Rotation!Begin
<1>5. CASE cmd # "rotate"
  <2>1. PhaseOf(c) = "idle"
    BY <1>5 DEF PhaseOf, Running
  <2> HIDE DEF c
  <2> QED BY <1>1, <2>1, PhaseStep
<1> QED BY <1>4, <1>5

LEMMA FindRotation ==
  ASSUME SafeInv, NEW m \in Machines, FindForRotate(m) \/ FindForPull(m)
  PROVE  [Rotation!Next]_Rotation!vars
<1>1. UNCHANGED deleted /\ cli[m].step = "find"
  BY DEF FindForRotate, FindForPull
<1>2. PICK c : Moves(m, c) /\ SameRun(c, cli[m])
  BY GotoMoves, TargetMoves DEF FindForRotate, FindForPull, findDatabase, AllSteps, Busy, SafeInv
<1>3. CASE cli[m].cmd = "rotate"
  <2>1. Phase(m) = "choosing"
    BY <1>1, <1>3, RenderDbAssumption
       DEF Phase, Rotating, Busy, SafeInv, TypeOK, CommandInv, CommandOK
  <2>2. PhaseOf(c) \in {"idle", "choosing", "replacing"}
    BY DEF PhaseOf
  <2> QED BY <1>1, <1>2, <2>1, <2>2, PhaseStep
<1>4. CASE cli[m].cmd # "rotate"
  BY <1>1, <1>2, <1>4, PhaseStep DEF PhaseOf, Running, SameRun
<1> QED BY <1>3, <1>4

LEMMA ConfirmRotation ==
  ASSUME SafeInv, NEW m \in Machines, NEW answer \in BOOLEAN, Confirm(m, answer)
  PROVE  [Rotation!Next]_Rotation!vars
<1> DEFINE step == IF ~answer THEN "failed"
                   ELSE IF cli[m].target = None THEN "create" ELSE "delete"
<1>1. Goto(m, step) /\ UNCHANGED deleted /\ cli[m].step = "confirm"
  BY DEF Confirm
<1>2. CASE step = "delete"
  <2>1. PICK c : /\ Moves(m, c) /\ SameRun(c, cli[m])
                 /\ c.step = "delete" /\ c.target = cli[m].target
    BY <1>1, <1>2, GotoMoves DEF SafeInv, AllSteps, Busy
  <2>2. PhaseOf(c) = Phase(m)
    BY <1>1, <2>1 DEF PhaseOf, Phase, Running, Rotating, SameRun, Busy
  <2> QED BY <1>1, <2>1, <2>2, PhaseStep
<1>3. CASE step # "delete"
  BY <1>1, <1>3, PastChoiceGoto DEF AllSteps, Busy
<1> QED BY <1>2, <1>3

\* The first DELETE that is sent retires the instance, whether or not its answer
\* comes; those that follow retire nothing.
LEMMA DeleteRotation ==
  ASSUME SafeInv, NEW m \in Machines, Delete(m)
  PROVE  [Rotation!Next]_Rotation!vars
<1> DEFINE d == cli[m].target
           phase == [n \in Machines |-> Phase(n)]
<1>1. /\ cli[m].step = "delete" /\ cli[m].cmd = "rotate" /\ d \in Ids
      /\ cli[m].tries < MAX_ATTEMPTS /\ Rotating(m) /\ (d \notin deleted => cli[m].tries = 0)
  BY DEF Delete, SafeInv, TypeOK, Command, CommandInv, CommandOK, Busy, Rotating
<1>2. CASE ~Live(d)
  BY <1>1, <1>2, PastChoiceGoto DEF Delete, AllSteps, Busy
<1>3. CASE Live(d)
  <2>1. deleted' = deleted \cup {d} /\ (Goto(m, "gone") \/ Lost(m))
    BY <1>3 DEF Delete, Answered
  <2>2. PICK c : /\ Moves(m, c) /\ SameRun(c, cli[m]) /\ c.target = d
                 /\ \/ c.step = "gone" \/ c.step = "delete"
                    \/ c.step = "failed" /\ cli[m].tries + 1 = MAX_ATTEMPTS
    <3>1. TypeOK /\ "gone" \in AllSteps
      BY DEF SafeInv, AllSteps, Busy
    <3>2. CASE Goto(m, "gone")
      BY <3>1, <3>2, GotoMoves
    <3>3. CASE Lost(m)
      BY <1>1, <3>1, <3>3, LostMoves
    <3> QED BY <2>1, <3>2, <3>3
  <2>3. CASE d \in deleted
    <3>1. UNCHANGED deleted /\ Phase(m) = "replacing"
      BY <1>1, <2>1, <2>3 DEF Phase
    <3>2. PhaseOf(c) \in {"idle", "replacing"}
      BY <2>2, <2>3 DEF PhaseOf
    <3> QED BY <2>2, <3>1, <3>2, PhaseStep
  <2>4. CASE d \notin deleted
    <3>1. c.step \in {"gone", "delete"} /\ Phase(m) = "choosing"
      BY <1>1, <2>2, <2>4 DEF MAX_ATTEMPTS, Phase
    <3>2. PhaseOf(c)' = "replacing"
      BY <1>1, <2>1, <2>2, <3>1 DEF PhaseOf, Running, SameRun, Busy
    <3>3. phase' = [phase EXCEPT ![m] = "replacing"]
      BY <1>1, <2>2, <3>2, PhaseMoves
    <3> QED BY <1>1, <2>1, <2>4, <3>1, <3>3 DEF Rotation!Next, Rotation!Retire
  <2> QED BY <2>3, <2>4
<1> QED BY <1>2, <1>3

LEMMA CallRotation ==
  ASSUME SafeInv, NEW m \in Machines, Call(m) \/ Die(m)
  PROVE  [Rotation!Next]_Rotation!vars
<1>1. CASE \/ WaitForDeletion(m) \/ WaitForStatus(m) \/ ApplyAllowList(m) \/ Seed(m)
           \/ WaitForConnectivity(m) \/ PollHealth(m) \/ GiveUp(m) \/ Die(m)
  <2>1. \E step \in AllSteps \ {"find", "confirm", "delete"} : Goto(m, step)
    BY <1>1, AfterSteps DEF WaitForDeletion, WaitForStatus, ApplyAllowList, Seed,
       WaitForConnectivity, PollHealth, GiveUp, Die, AllSteps, Busy
  <2>2. UNCHANGED deleted /\ cli[m].step \in Busy
    BY <1>1 DEF WaitForDeletion, WaitForStatus, ApplyAllowList, Seed, WaitForConnectivity,
       PollHealth, GiveUp, Die, Busy
  <2> QED BY <2>1, <2>2, PastChoiceGoto
<1>2. CASE GetConnectionInfo(m) \/ WriteEnvFile(m) \/ CreateDeploy(m)
  <2>1. \E step \in AllSteps \ {"find", "confirm", "delete"} : Goto(m, step)
    BY <1>2, AfterSteps DEF GetConnectionInfo, WriteEnvFile, CreateDeploy, AllSteps, Busy
  <2>2. UNCHANGED deleted /\ cli[m].step \in Busy
    BY <1>2 DEF GetConnectionInfo, WriteEnvFile, CreateDeploy, Busy
  <2> QED BY <2>1, <2>2, PastChoiceGoto
<1>3. CASE Create(m)
  <2>1. /\ cli[m].step = "create" /\ cli[m].tries < MAX_ATTEMPTS /\ UNCHANGED deleted
        /\ "create" \in Busy
    BY <1>3 DEF Create, SafeInv, CommandInv, CommandOK, Busy
  <2>2. PICK c : /\ Moves(m, c) /\ SameRun(c, cli[m])
                 /\ c.step \in {"failed", "provision", "create"}
    <3>1. TypeOK /\ {"failed", "provision"} \subseteq AllSteps
      BY DEF AllSteps, Busy, SafeInv
    <3>2. \/ Goto(m, "failed") \/ Lost(m)
          \/ \E d \in Ids : Target(m, "provision", d)
      BY <1>3 DEF Create
    <3>3. CASE Goto(m, "failed")
      BY <3>1, <3>3, GotoMoves
    <3>4. CASE Lost(m)
      BY <2>1, <3>1, <3>4, LostMoves
    <3>5. CASE \E d \in Ids : Target(m, "provision", d)
      BY <3>1, <3>5, TargetMoves
    <3> QED BY <3>2, <3>3, <3>4, <3>5
  <2> QED BY <2>1, <2>2, PastChoice
<1>4. CASE ListEnvVars(m) \/ PutEnvVar(m)
  <2>1. cli[m] \in Command /\ cli[m].step \in Busy /\ UNCHANGED deleted
        /\ (cli[m].step = "env" => cli[m].keys # <<>>)
    BY <1>4 DEF ListEnvVars, PutEnvVar, SafeInv, TypeOK, CommandInv, CommandOK, Busy
  <2>2. PICK keys \in Seq(Keys), step \in {"env", "deploy"} :
          cli' = [cli EXCEPT ![m].step = step, ![m].keys = keys]
    <3>1. CASE ListEnvVars(m)
      BY <3>1, EnvKeysType DEF ListEnvVars
    <3>2. CASE PutEnvVar(m)
      <4> DEFINE step == IF Len(cli[m].keys) = 1 THEN "deploy" ELSE "env"
      <4>1. cli[m].keys \in Seq(Keys) /\ cli[m].keys # <<>> /\ cli[m].step = "env"
        BY <2>1, <3>2 DEF PutEnvVar, Command
      <4>2. Tail(cli[m].keys) \in Seq(Keys) /\ step \in {"env", "deploy"}
        BY <4>1, HeadTailProperties
      <4>3. cli' = [cli EXCEPT ![m].step = step, ![m].keys = Tail(cli[m].keys)]
        BY <3>2, <4>1 DEF PutEnvVar, SafeInv, TypeOK
      <4> QED BY <4>2, <4>3
    <3> QED BY <1>4, <3>1, <3>2
  <2> DEFINE c == [cli[m] EXCEPT !.step = step, !.keys = keys]
  <2>3. c \in Command /\ c.step = step /\ SameRun(c, cli[m])
    BY <2>1 DEF Command, Busy, SameRun
  <2>4. cli' = [cli EXCEPT ![m] = c]
    BY <2>2
  <2> HIDE DEF c
  <2> QED BY <2>1, <2>3, <2>4, PastChoice DEF Moves
<1> QED BY <1>1, <1>2, <1>3, <1>4, FindRotation, DeleteRotation DEF Call

LEMMA RotationStep ==
  ASSUME SafeInv, [Next]_vars
  PROVE  [Rotation!Next]_Rotation!vars
<1>1. CASE UNCHANGED <<cli, deleted>>
  BY <1>1 DEF Rotation!vars, Phase, Rotating
<1>2. CASE \E d \in Ids : \/ FinishDelete(d) \/ Expire(d) \/ Upgrade(d)
                         \/ \E status \in {"available", "unknown"} : Provision(d, status)
  BY <1>1, <1>2 DEF FinishDelete, Expire, Upgrade, Provision
<1> QED BY <1>1, <1>2, StartRotation, ConfirmRotation, CallRotation DEF Next, vars, FinishDeploy

\* However answers are lost and rotations die, a rotation chooses before it
\* replaces, gives up one instance at most, and never chooses again.
THEOREM RotationImplemented == Spec => RotatesOnce
<1>1. Init => Rotation!Init
  BY DEF Init, Rotation!Init, Phase, Rotating, Busy
<1> QED BY <1>1, RotationStep, SafetyInvariant, PTL DEF Spec, RotatesOnce, Rotation!Spec

(***************************************************************************)
(* A rotation that reports success wired everything to one new instance.   *)
(***************************************************************************)
Holds(c, file) ==
  c.cmd = "rotate" /\ c.step # "failed" => NamedFor(c) /\ Established(c, file)

LEMMA EstablishedWires ==
  ASSUME RInv', NEW m \in Machines, cli'[m].step = "ok", Established(cli[m], files[m])'
  PROVE  Wired(m, cli[m])'
<1> DEFINE c == cli'[m]
<1>1. /\ c.step \in Made /\ c.step \in Provisioned /\ c.step \in Allowed
      /\ c.step \in PastFile /\ c.step \in PastPuts
  BY DEF Made, Provisioned, Allowed, PastFile, PastPuts
<1>2. Reachable(cli[m].target)'
  BY <1>1, RenderDbAssumption DEF Established, Reachable
<1>3. ~c.opts.noEnvFile => \A k \in Range(EnvKeys) : Reads(files'[m], k) = c.target
  <2>1. files'[m] \in Seq(EnvLine)
    BY DEF RInv, SafeInv, TypeOK
  <2>2. ~c.opts.noEnvFile => \A k \in Range(EnvKeys) : Assigned(files'[m], k, c.target)
    BY <1>1 DEF Established
  <2> QED BY <2>1, <2>2, AssignedReads
<1> QED BY <1>1, <1>2, <1>3 DEF Wired, Established

\* One command's step: what the rotation that takes it holds is enough, because
\* no other rotates while it does.
LEMMA WiredMove ==
  ASSUME RInv, NEW m \in Machines, NEW c, Moves(m, c),
         \A n \in Machines \ {m} : files'[n] = files[n], AssignsOnce(files'[m]),
         NamedInv', UNCHANGED <<db, service>> \/ Rotating(m), Holds(c, files[m])'
  PROVE  WiredInv' /\ Holds(cli[m], files[m])'
<1>1. cli'[m] = c /\ \A n \in Machines \ {m} : cli'[n] = cli[n]
  BY MovesEffect DEF RInv, SafeInv
<1>2. FilesInv'
  BY DEF RInv, WiredInv, FilesInv
<1>3. Holds(cli[m], files[m])'
  BY <1>1 DEF Holds, NamedFor, Established, Named, Live
<1>4. Rotating(m)' => NamedFor(cli[m])' /\ Established(cli[m], files[m])'
  BY <1>3 DEF Holds, Rotating, Busy
<1>5. ASSUME NEW n \in Machines, n # m, Rotating(n)'
      PROVE  NamedFor(cli[n])' /\ Established(cli[n], files[n])'
  <2>1. cli'[n] = cli[n] /\ files'[n] = files[n] /\ Rotating(n)
    BY <1>1, <1>5 DEF Rotating
  <2>2. UNCHANGED <<db, service>> /\ NamedFor(cli[n]) /\ Established(cli[n], files[n])
    BY <1>5, <2>1 DEF RInv, SafeInv, Alone, WiredInv
  <2> QED BY <2>1, <2>2 DEF NamedFor, Established, Named, Live
<1> QED BY <1>2, <1>3, <1>4, <1>5 DEF WiredInv

\* A step that changes neither instances nor service.
LEMMA WiredCall ==
  ASSUME RInv, NEW m \in Machines, NEW c, Moves(m, c), UNCHANGED <<db, service>>,
         \A n \in Machines \ {m} : files'[n] = files[n], AssignsOnce(files'[m]),
         c.cmd = "rotate" /\ c.step # "failed" => NamedFor(c) /\ Established(c, files'[m])
  PROVE  WiredInv' /\ Holds(cli[m], files[m])'
<1>1. NamedInv'
  BY DEF RInv, WiredInv, NamedInv, Named
<1>2. Holds(c, files[m])'
  BY DEF Holds, NamedFor, Established, Named, Live
<1> QED BY <1>1, <1>2, WiredMove

\* A rotation that fails, and a step of pull-env.
LEMMA WiredIdle ==
  ASSUME RInv, NEW m \in Machines, NEW c, Moves(m, c), UNCHANGED <<db, service, files>>,
         c.cmd # "rotate" \/ c.step = "failed"
  PROVE  WiredInv' /\ Holds(cli[m], files[m])'
<1>1. AssignsOnce(files'[m])
  BY DEF RInv, WiredInv, FilesInv
<1> QED BY <1>1, WiredCall

\* What a rotation holds before its step.
LEMMA WiredBefore ==
  ASSUME RInv, NEW m \in Machines, cli[m].cmd = "rotate", cli[m].step \in Busy \cup {"confirm"}
  PROVE  /\ Rotating(m) /\ NamedFor(cli[m]) /\ Established(cli[m], files[m])
         /\ cli[m] \in Command /\ CommandOK(cli[m]) /\ NamedInv /\ AssignsOnce(files[m])
         /\ db \in [Ids -> Instance] /\ service \in [env : Env, building : Env, running : Env]
BY DEF RInv, WiredInv, SafeInv, TypeOK, CommandInv, FilesInv, Rotating

LEMMA FailWired ==
  ASSUME RInv, NEW m \in Machines, Goto(m, "failed"), UNCHANGED <<db, service, files>>
  PROVE  WiredInv' /\ Holds(cli[m], files[m])'
BY GotoMoves, WiredIdle DEF AllSteps, RInv, SafeInv

LEMMA ChooseWired ==
  ASSUME RInv, NEW m \in Machines,
         \/ \E cmd \in {"rotate", "pull-env"}, opts \in CommandLines : Start(m, cmd, opts)
         \/ FindForRotate(m) \/ FindForPull(m)
         \/ \E answer \in BOOLEAN : Confirm(m, answer)
         \/ WaitForDeletion(m)
  PROVE  WiredInv' /\ Holds(cli[m], files[m])'
<1>1. UNCHANGED <<db, service, files>> /\ AssignsOnce(files'[m])
  BY DEF Start, FindForRotate, FindForPull, Confirm, WaitForDeletion, RInv, WiredInv, FilesInv
<1>2. ASSUME NEW c, Moves(m, c), c.cmd = "rotate" /\ c.step # "failed" => NamedFor(c),
             c.step \in {"find", "confirm", "create", "delete", "failed", "connect"},
             c.step = "connect" => c.cmd # "rotate"
      PROVE  WiredInv' /\ Holds(cli[m], files[m])'
  <2>1. c.cmd = "rotate" => Established(c, files[m])
    BY <1>2 DEF Established, Made, Provisioned, Allowed, PastFile, PastPuts
  <2> QED BY <1>1, <1>2, <2>1, WiredCall
<1>3. ASSUME NEW cmd \in {"rotate", "pull-env"}, NEW opts \in CommandLines, Start(m, cmd, opts)
      PROVE  WiredInv' /\ Holds(cli[m], files[m])'
  <2> DEFINE c == [cmd |-> cmd, opts |-> opts, step |-> "find", target |-> None,
                   keys |-> <<>>, tries |-> 0]
  <2>1. Moves(m, c)
    <3>1. opts \in Options /\ <<>> \in Seq(Keys) /\ 0 \in 0..MAX_ATTEMPTS
      BY RenderDbAssumption DEF MAX_ATTEMPTS
    <3> QED BY <1>3, <3>1 DEF Start, Moves, Command, Busy
  <2>2. c.step = "find"
    OBVIOUS
  <2> HIDE DEF c
  <2> QED BY <1>2, <2>1, <2>2 DEF NamedFor
<1>4. CASE FindForPull(m)
  <2>1. cli[m].cmd # "rotate" /\ TypeOK
    BY <1>4 DEF FindForPull, RInv, SafeInv
  <2>2. PICK c : Moves(m, c) /\ SameRun(c, cli[m])
    BY <1>4, <2>1, GotoMoves, TargetMoves DEF FindForPull, findDatabase, AllSteps, Busy
  <2> QED BY <1>1, <2>1, <2>2, WiredIdle DEF SameRun
<1>5. CASE FindForRotate(m)
  <2>1. NamedInv /\ TypeOK
    BY DEF RInv, SafeInv, WiredInv
  <2>2. \A e \in Named : Live(e) => e \in findDatabase
    BY <2>1 DEF NamedInv, Named, findDatabase
  <2>3. CASE Goto(m, "failed")
    BY <1>1, <2>3, FailWired
  <2>4. ASSUME findDatabase = {}, NEW step \in {"create", "confirm"}, Target(m, step, None)
        PROVE  WiredInv' /\ Holds(cli[m], files[m])'
    <3>1. PICK c : Moves(m, c) /\ c.step = step /\ c.target = None
      BY <2>1, <2>4, TargetMoves DEF AllSteps, Busy
    <3> QED BY <1>2, <2>2, <2>4, <3>1 DEF NamedFor
  <2>5. ASSUME NEW d \in Ids, findDatabase = {d}, NEW step \in {"delete", "confirm"},
               Target(m, step, d)
        PROVE  WiredInv' /\ Holds(cli[m], files[m])'
    <3>1. PICK c : Moves(m, c) /\ c.step = step /\ c.target = d
      BY <2>1, <2>5, TargetMoves DEF AllSteps, Busy
    <3>2. NamedFor(c)
      BY <2>2, <2>5, <3>1 DEF NamedFor, findDatabase, Live
    <3> QED BY <1>2, <2>5, <3>1, <3>2
  <2>6. ASSUME NEW d \in Ids, findDatabase = {d},
               IF ~assertSafeToDelete(d) THEN Goto(m, "failed")
               ELSE Target(m, IF cli[m].opts.yes THEN "delete" ELSE "confirm", d)
        PROVE  WiredInv' /\ Holds(cli[m], files[m])'
    BY <2>3, <2>5, <2>6
  <2> QED BY <1>5, <2>3, <2>4, <2>6 DEF FindForRotate
<1>6. ASSUME NEW answer \in BOOLEAN, Confirm(m, answer)
      PROVE  WiredInv' /\ Holds(cli[m], files[m])'
  <2> DEFINE step == IF ~answer THEN "failed"
                     ELSE IF cli[m].target = None THEN "create" ELSE "delete"
  <2>1. Goto(m, step) /\ cli[m].step = "confirm" /\ cli[m].cmd = "rotate" /\ TypeOK
    BY <1>6 DEF Confirm, RInv, SafeInv, CommandInv, CommandOK
  <2>2. NamedFor(cli[m])
    BY <2>1, WiredBefore
  <2>3. PICK c : Moves(m, c) /\ c.step = step /\ c.target = cli[m].target
    BY <2>1, GotoMoves DEF AllSteps, Busy
  <2>4. step \in {"create", "delete", "failed"} /\ (step = "create" => cli[m].target = None)
    OBVIOUS
  <2> HIDE DEF step
  <2>5. c.step = "create" => \A d \in Named : ~Live(d)
    BY <2>1, <2>2, <2>3, <2>4, RenderDbAssumption DEF NamedFor, Named
  <2>6. NamedFor(c)
    BY <2>1, <2>2, <2>3, <2>5 DEF NamedFor
  <2> QED BY <1>2, <2>3, <2>4, <2>6
<1>7. CASE WaitForDeletion(m)
  <2>1. /\ Goto(m, "create") /\ cli[m].step = "gone" /\ cli[m].cmd = "rotate" /\ TypeOK
        /\ ~Live(cli[m].target)
    BY <1>7 DEF WaitForDeletion, RInv, SafeInv, CommandInv, CommandOK, Busy
  <2>2. NamedFor(cli[m])
    BY <2>1, WiredBefore DEF Busy
  <2>3. PICK c : Moves(m, c) /\ c.step = "create" /\ c.target = cli[m].target
    BY <2>1, GotoMoves DEF AllSteps, Busy
  <2>4. NamedFor(c)
    BY <2>1, <2>2, <2>3 DEF NamedFor
  <2> QED BY <1>2, <2>3, <2>4
<1> QED BY <1>3, <1>4, <1>5, <1>6, <1>7

LEMMA DeleteWired ==
  ASSUME RInv, NEW m \in Machines, Delete(m)
  PROVE  WiredInv' /\ Holds(cli[m], files[m])'
<1> DEFINE d == cli[m].target
<1>1. /\ cli[m].step = "delete" /\ cli[m].cmd = "rotate" /\ d \in Ids /\ TypeOK
      /\ cli[m].tries < MAX_ATTEMPTS /\ UNCHANGED <<service, files>>
  BY DEF Delete, RInv, SafeInv, TypeOK, Command, CommandInv, CommandOK, Busy
<1>2. Rotating(m) /\ NamedFor(cli[m]) /\ NamedInv /\ AssignsOnce(files[m]) /\ d # None
  BY <1>1, WiredBefore, RenderDbAssumption DEF Busy
<1>3. CASE ~Live(d)
  BY <1>1, <1>3, FailWired DEF Delete
<1>4. CASE Live(d)
  <2>1. db' = [db EXCEPT ![d].status = "deleting"] /\ (Goto(m, "gone") \/ Lost(m))
    BY <1>4 DEF Delete, Answered
  <2>2. PICK c : Moves(m, c) /\ c.step \in {"gone", "delete", "failed"} /\ c.target = d
    <3>1. "gone" \in AllSteps
      BY DEF AllSteps, Busy
    <3>2. CASE Goto(m, "gone")
      BY <1>1, <3>1, <3>2, GotoMoves
    <3>3. CASE Lost(m)
      BY <1>1, <3>3, LostMoves
    <3> QED BY <2>1, <3>2, <3>3
  <2>3. /\ \A e \in Ids : db'[e].name = db[e].name /\ (db'[e].status # "none" <=> db[e].status # "none")
        /\ \A e \in Ids : Live(e)' <=> Live(e)
    BY <1>1, <1>4, <2>1 DEF TypeOK, Live, Instance
  <2>4. Named' = Named /\ Named \subseteq Ids
    BY <1>1 DEF Named
  <2>5. NamedInv' /\ NamedFor(c)'
    BY <1>1, <1>2, <2>2, <2>3, <2>4 DEF NamedInv, NamedFor
  <2>6. Established(c, files[m])'
    BY <2>2 DEF Established, Made, Provisioned, Allowed, PastFile, PastPuts
  <2> QED BY <1>1, <1>2, <2>2, <2>5, <2>6, WiredMove DEF Holds
<1> QED BY <1>3, <1>4

LEMMA CreateWired ==
  ASSUME RInv, NEW m \in Machines, Create(m)
  PROVE  WiredInv' /\ Holds(cli[m], files[m])'
<1>1. /\ cli[m].step = "create" /\ cli[m].cmd = "rotate" /\ TypeOK
      /\ cli[m].tries < MAX_ATTEMPTS /\ UNCHANGED <<service, files>>
  BY DEF Create, RInv, SafeInv, CommandInv, CommandOK, Busy
<1>2. Rotating(m) /\ NamedFor(cli[m]) /\ NamedInv /\ AssignsOnce(files[m])
  BY <1>1, WiredBefore DEF Busy
<1>3. CASE Goto(m, "failed") /\ UNCHANGED db
  BY <1>1, <1>3, FailWired
<1>4. ASSUME NEW d \in Ids, NEW applied \in BOOLEAN, db[d].status = "none",
             db' = [db EXCEPT ![d] = [NoInstance EXCEPT !.status = "creating", !.allow = applied]],
             Target(m, "provision", d) \/ Lost(m)
      PROVE  WiredInv' /\ Holds(cli[m], files[m])'
  <2>1. db'[d].status = "creating" /\ db'[d].name = "dev" /\ \A e \in Ids \ {d} : db'[e] = db[e]
    BY <1>1, <1>4 DEF TypeOK, NoInstance
  <2>2. Named' = Named /\ Named \subseteq Ids \ {d}
    BY <1>1, <1>2, <1>4 DEF Named, NamedInv
  <2>3. NamedInv' /\ \A e \in Named' : ~Live(e)'
    BY <1>1, <1>2, <2>1, <2>2 DEF NamedInv, NamedFor, Live
  <2>4. PICK c : /\ Moves(m, c)
                 /\ \/ c.step = "provision" /\ c.target = d
                    \/ c.step \in {"create", "failed"} /\ c.target = cli[m].target
    BY <1>1, <1>4, TargetMoves, LostMoves DEF AllSteps, Busy
  <2>5. cli[m].target \in Ids \cup {None}
    BY <1>1 DEF TypeOK, Command
  <2>6. NamedFor(c)'
    BY <1>1, <1>2, <1>4, <2>1, <2>3, <2>4, <2>5 DEF NamedFor
  <2>7. Established(c, files[m])' \/ c.step = "failed"
    BY <2>1, <2>4 DEF Established, Made, Provisioned, Allowed, PastFile, PastPuts
  <2> QED BY <1>1, <1>2, <2>3, <2>4, <2>6, <2>7, WiredMove DEF Holds
<1> QED BY <1>3, <1>4 DEF Create

\* A rotation goes on with the instance it has made: what it holds there depends
\* on the step alone.
LEMMA GoOnWired ==
  ASSUME RInv, NEW m \in Machines, cli[m].cmd = "rotate", cli[m].step \in Made \cap Busy,
         NEW step \in Made, Goto(m, step), NamedInv', UNCHANGED service,
         \A n \in Machines \ {m} : files'[n] = files[n], AssignsOnce(files'[m]),
         \A d \in Ids : Live(d)' <=> Live(d),
         \A d \in Ids : db'[d].name = db[d].name /\ db'[d].status = db[d].status,
         \A c : /\ SameRun(c, cli[m]) /\ c.step = step /\ c.target = cli[m].target
                /\ Established(cli[m], files[m])
                => Established(c, files[m])'
  PROVE  WiredInv' /\ Holds(cli[m], files[m])'
<1>1. Rotating(m) /\ NamedFor(cli[m]) /\ Established(cli[m], files[m]) /\ cli[m].target \in Ids
  BY WiredBefore DEF Made, Busy, Command, CommandOK
<1>2. PICK c : Moves(m, c) /\ SameRun(c, cli[m]) /\ c.step = step /\ c.target = cli[m].target
  BY GotoMoves DEF RInv, SafeInv, AllSteps, Made, Busy
<1>3. Named' = Named /\ Named \subseteq Ids
  BY DEF Named
<1>4. NamedFor(c)'
  BY <1>1, <1>2, <1>3 DEF NamedFor, Made
<1>5. Established(c, files[m])'
  BY <1>1, <1>2
<1> QED BY <1>1, <1>2, <1>4, <1>5, WiredMove DEF Holds

\* A step that changes no instance keeps the databases' names and lives.
LEMMA SameWorld ==
  ASSUME RInv, UNCHANGED db, Named' \subseteq Named
  PROVE  /\ NamedInv' /\ \A d \in Ids : Live(d)' <=> Live(d)
         /\ \A d \in Ids : db'[d].name = db[d].name /\ db'[d].status = db[d].status
BY DEF RInv, WiredInv, NamedInv, Live

LEMMA WaitWired ==
  ASSUME RInv, NEW m \in Machines, WaitForStatus(m) \/ WaitForConnectivity(m) \/ PollHealth(m)
  PROVE  WiredInv' /\ Holds(cli[m], files[m])'
<1>1. /\ UNCHANGED <<db, service, files>> /\ AssignsOnce(files'[m]) /\ Named' = Named
      /\ cli[m].cmd = "rotate" /\ cli[m].step \in Made \cap Busy
  BY DEF WaitForStatus, WaitForConnectivity, PollHealth, RInv, WiredInv, FilesInv, Named,
         SafeInv, CommandInv, CommandOK, Made, Busy
<1>2. NamedInv' /\ (\A d \in Ids : Live(d)' <=> Live(d))
      /\ \A d \in Ids : db'[d].name = db[d].name /\ db'[d].status = db[d].status
  BY <1>1, SameWorld
<1>3. /\ NamedFor(cli[m]) /\ Established(cli[m], files[m]) /\ cli[m].target \in Ids
      /\ cli[m].target # None /\ db \in [Ids -> Instance]
  BY <1>1, WiredBefore, RenderDbAssumption DEF Made, Busy, Command, CommandOK
<1>4. CASE WaitForStatus(m)
  <2>1. CASE db[cli[m].target].status # "available"
    BY <1>1, <1>4, <2>1, FailWired DEF WaitForStatus
  <2>2. CASE db[cli[m].target].status = "available"
    <3> DEFINE step == IF db[cli[m].target].allow THEN "connect" ELSE "allow"
    <3>1. Goto(m, step) /\ step \in Made /\ (step = "connect" => db[cli[m].target].allow)
          /\ step \in {"connect", "allow"}
      BY <1>4, <2>2 DEF WaitForStatus, Made
    <3> HIDE DEF step
    <3>2. ASSUME NEW c, SameRun(c, cli[m]), c.step = step, c.target = cli[m].target
          PROVE  Established(c, files[m])'
      BY <1>1, <1>3, <2>2, <3>1, <3>2 DEF Established, Made, Provisioned, Allowed, PastFile, PastPuts
    <3> QED BY <1>1, <1>2, <3>1, <3>2, GoOnWired
  <2> QED BY <2>1, <2>2
<1>5. CASE WaitForConnectivity(m)
  <2>1. Goto(m, "seed") /\ "seed" \in Made /\ cli[m].step = "probe"
    BY <1>5 DEF WaitForConnectivity, Made
  <2>2. ASSUME NEW c, SameRun(c, cli[m]), c.step = "seed", c.target = cli[m].target
        PROVE  Established(c, files[m])'
    BY <1>1, <1>3, <2>1, <2>2
       DEF Established, Made, Provisioned, Allowed, PastFile, PastPuts, SameRun
  <2> QED BY <1>1, <1>2, <2>1, <2>2, GoOnWired
<1>6. CASE PollHealth(m)
  <2>1. Goto(m, "ok") /\ "ok" \in Made /\ cli[m].step = "health" /\ Up
    BY <1>6 DEF PollHealth, Made
  <2>2. \A k \in Range(EnvKeys) : service.running[k] = cli[m].target
    <3>1. PICK d \in Ids : Reachable(d) /\ \A k \in Range(EnvKeys) : service.running[k] = d
      BY <2>1 DEF Up
    <3>2. \E k \in Range(EnvKeys) : k \in Keys
      <4>1. Range(EnvKeys) # {}
        BY RenderDbAssumption DEF Range
      <4> QED BY <4>1 DEF Keys
    <3>3. d \in Named /\ Live(d)
      BY <3>1, <3>2 DEF Named, Reachable, Live
    <3> QED BY <1>3, <2>1, <3>1, <3>3 DEF NamedFor
  <2>3. ASSUME NEW c, SameRun(c, cli[m]), c.step = "ok", c.target = cli[m].target
        PROVE  Established(c, files[m])'
    BY <1>1, <1>3, <2>1, <2>2, <2>3
       DEF Established, Made, Provisioned, Allowed, PastFile, PastPuts, SameRun
  <2> QED BY <1>1, <1>2, <2>1, <2>3, GoOnWired
<1> QED BY <1>4, <1>5, <1>6

LEMMA InstanceWired ==
  ASSUME RInv, NEW m \in Machines, ApplyAllowList(m) \/ Seed(m)
  PROVE  WiredInv' /\ Holds(cli[m], files[m])'
<1> DEFINE d == cli[m].target
<1>1. /\ UNCHANGED <<service, files>> /\ AssignsOnce(files'[m])
      /\ cli[m].cmd = "rotate" /\ cli[m].step \in Made \cap Busy
  BY DEF ApplyAllowList, Seed, RInv, WiredInv, FilesInv, SafeInv, CommandInv, CommandOK, Made, Busy
<1>2. /\ Established(cli[m], files[m]) /\ d \in Ids /\ NamedInv
      /\ db \in [Ids -> Instance]
  BY <1>1, WiredBefore DEF Made, Busy, Command, CommandOK
<1>3. /\ \A e \in Ids : db'[e].name = db[e].name /\ db'[e].status = db[e].status
      /\ db'[d].allow = TRUE \/ db'[d].allow = db[d].allow
      /\ ApplyAllowList(m) => db'[d].allow
      /\ Seed(m) => db'[d].seeded /\ db'[d].allow = db[d].allow
  BY <1>2 DEF ApplyAllowList, Seed, Instance
<1>4. (\A e \in Ids : Live(e)' <=> Live(e)) /\ Named' = Named /\ NamedInv'
  BY <1>1, <1>2, <1>3 DEF Live, Named, NamedInv
<1>5. CASE ApplyAllowList(m)
  <2>1. Goto(m, "connect") /\ "connect" \in Made /\ cli[m].step = "allow"
    BY <1>5 DEF ApplyAllowList, Made
  <2>2. ASSUME NEW c, SameRun(c, cli[m]), c.step = "connect", c.target = d
        PROVE  Established(c, files[m])'
    BY <1>1, <1>2, <1>3, <1>5, <2>1, <2>2
       DEF Established, Made, Provisioned, Allowed, PastFile, PastPuts, SameRun
  <2> QED BY <1>1, <1>3, <1>4, <2>1, <2>2, GoOnWired
<1>6. CASE Seed(m)
  <2> DEFINE step == AfterSeed(cli[m])
  <2>1. Goto(m, step) /\ cli[m].step = "seed" /\ step \in {"health", "ok"}
        /\ (step = "ok" => cli[m].opts.noService \/ cli[m].opts.noHealthCheck)
    BY <1>6 DEF Seed, AfterSeed
  <2> HIDE DEF step
  <2>2. ASSUME NEW c, SameRun(c, cli[m]), c.step = step, c.target = d
        PROVE  Established(c, files[m])'
    BY <1>1, <1>2, <1>3, <1>6, <2>1, <2>2
       DEF Established, Made, Provisioned, Allowed, PastFile, PastPuts, SameRun
  <2> QED BY <1>1, <1>3, <1>4, <2>1, <2>2, GoOnWired DEF Made
<1> QED BY <1>5, <1>6

\* A rotation that skips a part goes where it leaves that part out.
LEMMA SkipsLead ==
  ASSUME NEW c, c.cmd = "rotate"
  PROVE  /\ AfterDeploy(c) # "probe" => c.opts.noSeed
         /\ AfterDeploy(c) = "ok" => c.opts.noService \/ c.opts.noHealthCheck
         /\ AfterFile(c) = "list" \/ (c.opts.noService /\ AfterFile(c) \in {"probe", "ok"})
         /\ AfterFile(c) = "list" => ~c.opts.noService
         /\ AfterFile(c) = "ok" => c.opts.noSeed
         /\ AfterConnect(c) = "file" \/ (c.opts.noEnvFile /\ AfterConnect(c) = AfterFile(c))
BY DEF AfterDeploy, AfterFile, AfterConnect, AfterSeed

LEMMA ConnectWired ==
  ASSUME RInv, NEW m \in Machines, GetConnectionInfo(m)
  PROVE  WiredInv' /\ Holds(cli[m], files[m])'
<1>1. /\ UNCHANGED <<db, service, files>> /\ AssignsOnce(files'[m]) /\ Named' = Named
      /\ cli[m].step = "connect" /\ cli[m].cmd \in {"rotate", "pull-env"}
  BY DEF GetConnectionInfo, RInv, WiredInv, FilesInv, Named, SafeInv, TypeOK, Command
<1>2. CASE ~Live(cli[m].target)
  BY <1>1, <1>2, FailWired DEF GetConnectionInfo
<1> DEFINE step == AfterConnect(cli[m])
<1>3. CASE Live(cli[m].target) /\ cli[m].cmd # "rotate"
  <2>1. Goto(m, step) /\ step \in AllSteps
    BY <1>3, AfterSteps DEF GetConnectionInfo, AllSteps, Busy
  <2> HIDE DEF step
  <2> QED BY <1>1, <1>3, <2>1, GotoMoves, WiredIdle DEF SameRun, RInv, SafeInv
<1>4. CASE Live(cli[m].target) /\ cli[m].cmd = "rotate"
  <2>1. Goto(m, step) /\ step \in {"file", "list", "probe", "ok"}
    BY <1>4, SkipsLead DEF GetConnectionInfo
  <2>2. /\ step # "file" => cli[m].opts.noEnvFile
        /\ step = "list" => ~cli[m].opts.noService
        /\ step \in {"probe", "ok"} => cli[m].opts.noService
        /\ step = "ok" => cli[m].opts.noSeed
    BY <1>4, SkipsLead
  <2> HIDE DEF step
  <2>3. ASSUME NEW c, SameRun(c, cli[m]), c.step = step, c.target = cli[m].target,
               Established(cli[m], files[m])
        PROVE  Established(c, files[m])'
    BY <1>1, <2>1, <2>2, <2>3
       DEF Established, Made, Provisioned, Allowed, PastFile, PastPuts, SameRun
  <2>4. step \in Made /\ cli[m].step \in Made \cap Busy
    BY <1>1, <2>1 DEF Made, Busy
  <2>5. NamedInv' /\ (\A d \in Ids : Live(d)' <=> Live(d))
        /\ \A d \in Ids : db'[d].name = db[d].name /\ db'[d].status = db[d].status
    BY <1>1, SameWorld
  <2> QED BY <1>1, <1>4, <2>1, <2>3, <2>4, <2>5, GoOnWired
<1> QED BY <1>1, <1>2, <1>3, <1>4

\* What is written to the service or the file always includes the keys of the new instance.
LEMMA UpdatedKeys ==
  ASSUME NEW b
  PROVE  /\ Range(EnvKeys) \subseteq Range(buildEnvUpdates(b))
         /\ b => Range(buildEnvUpdates(b)) = Keys
<1>1. EnvKeys \in Seq(Keys) /\ Url \in Keys
  <2>1. Range(EnvKeys) \subseteq Keys
    BY EnvKeysType
  <2> QED BY <2>1, RenderDbAssumption DEF Keys
<1>2. Append(EnvKeys, Url) \in [1..(Len(EnvKeys) + 1) -> Keys] /\ Len(EnvKeys) \in Nat
      /\ DOMAIN EnvKeys = 1..Len(EnvKeys)
      /\ \A i \in DOMAIN EnvKeys : Append(EnvKeys, Url)[i] = EnvKeys[i]
      /\ Append(EnvKeys, Url)[Len(EnvKeys) + 1] = Url
  <2>1. PICK s \in Seq(Keys) : s = EnvKeys
    BY <1>1
  <2>2. /\ Append(s, Url) \in [1..(Len(s) + 1) -> Keys] /\ Len(s) \in Nat /\ DOMAIN s = 1..Len(s)
        /\ Append(s, Url)[Len(s) + 1] = Url
        /\ \A i \in 1..Len(s) : Append(s, Url)[i] = s[i]
    <3>1. /\ Append(s, Url) \in Seq(Keys) /\ Len(Append(s, Url)) = Len(s) + 1
          /\ Append(s, Url)[Len(s) + 1] = Url
          /\ \A i \in 1..Len(s) : Append(s, Url)[i] = s[i]
      BY <1>1, AppendProperties
    <3>2. \A t \in Seq(Keys) : t \in [1..Len(t) -> Keys] /\ Len(t) \in Nat /\ DOMAIN t = 1..Len(t)
      OBVIOUS
    <3>3. Append(s, Url) \in [1..Len(Append(s, Url)) -> Keys]
      BY <3>1, <3>2
    <3> QED BY <3>1, <3>2, <3>3
  <2> QED BY <2>1, <2>2
<1>3. \A k \in Range(EnvKeys) : k \in Range(Append(EnvKeys, Url))
  BY <1>2 DEF Range
<1>4. Url \in Range(Append(EnvKeys, Url))
  <2>1. Len(EnvKeys) + 1 \in DOMAIN Append(EnvKeys, Url)
    BY <1>2
  <2> QED BY <1>2, <2>1 DEF Range
<1>5. Range(Append(EnvKeys, Url)) \subseteq Keys
  BY <1>2 DEF Range
<1> QED BY <1>3, <1>4, <1>5 DEF buildEnvUpdates, Keys

LEMMA WriteWired ==
  ASSUME RInv, NEW m \in Machines, WriteEnvFile(m)
  PROVE  WiredInv' /\ Holds(cli[m], files[m])'
<1> DEFINE d == cli[m].target
           keys == buildEnvUpdates(Url \in activeKeys(files[m]))
           new == upsertEnvVars(files[m], keys, d)
           step == AfterFile(cli[m])
<1>1. /\ UNCHANGED <<db, service>> /\ Named' = Named /\ cli[m].step = "file" /\ Goto(m, step)
      /\ cli[m].cmd \in {"rotate", "pull-env"} /\ d \in Ids /\ files[m] \in Seq(EnvLine)
      /\ AssignsOnce(files[m])
  BY DEF WriteEnvFile, Named, RInv, WiredInv, FilesInv, SafeInv, TypeOK, Command, CommandInv,
         CommandOK, Busy
<1>2. files'[m] = new /\ \A n \in Machines \ {m} : files'[n] = files[n]
  BY DEF WriteEnvFile, RInv, SafeInv, TypeOK
<1>3. keys \in Seq(Keys) /\ Range(EnvKeys) \subseteq Range(keys)
  BY EnvKeysType, UpdatedKeys
<1> HIDE DEF keys
<1>4. AssignsOnce(new) /\ \A k \in Range(keys) : Assigned(new, k, d)
  BY <1>1, <1>3, UpsertAssigns
<1> HIDE DEF new, d
<1>5. CASE cli[m].cmd # "rotate"
  <2>1. step \in AllSteps
    BY AfterSteps DEF AllSteps, Busy
  <2> HIDE DEF step
  <2>2. PICK c : Moves(m, c) /\ c.cmd # "rotate"
    BY <1>1, <1>5, <2>1, GotoMoves DEF SameRun, RInv, SafeInv
  <2> QED BY <1>1, <1>2, <1>4, <2>2, WiredCall
<1>6. CASE cli[m].cmd = "rotate"
  <2>1. /\ step \in {"list", "probe", "ok"}
        /\ step = "list" => ~cli[m].opts.noService
        /\ step \in {"probe", "ok"} => cli[m].opts.noService
        /\ step = "ok" => cli[m].opts.noSeed
    BY <1>6, SkipsLead
  <2> HIDE DEF step
  <2>2. ASSUME NEW c, SameRun(c, cli[m]), c.step = step, c.target = cli[m].target,
               Established(cli[m], files[m])
        PROVE  Established(c, files[m])'
    <3>1. \A k \in Range(EnvKeys) : Assigned(files'[m], k, cli[m].target)
      BY <1>2, <1>3, <1>4 DEF d
    <3> QED BY <1>1, <2>1, <2>2, <3>1
            DEF Established, Made, Provisioned, Allowed, PastFile, PastPuts, SameRun
  <2>3. step \in Made /\ cli[m].step \in Made \cap Busy
    BY <1>1, <2>1 DEF Made, Busy
  <2>4. NamedInv' /\ (\A e \in Ids : Live(e)' <=> Live(e))
        /\ \A e \in Ids : db'[e].name = db[e].name /\ db'[e].status = db[e].status
    BY <1>1, SameWorld
  <2> QED BY <1>1, <1>2, <1>4, <1>6, <2>2, <2>3, <2>4, GoOnWired
<1> QED BY <1>1, <1>5, <1>6

LEMMA ListWired ==
  ASSUME RInv, NEW m \in Machines, ListEnvVars(m)
  PROVE  WiredInv' /\ Holds(cli[m], files[m])'
<1> DEFINE keys == buildEnvUpdates(service.env[Url] # None)
           c == [cli[m] EXCEPT !.step = "env", !.keys = keys]
<1>1. /\ UNCHANGED <<db, service, files>> /\ AssignsOnce(files'[m]) /\ cli[m].step = "list"
      /\ cli[m].cmd = "rotate" /\ cli[m] \in Command
  BY DEF ListEnvVars, RInv, WiredInv, FilesInv, SafeInv, TypeOK, CommandInv, CommandOK, Busy
<1>2. NamedFor(cli[m]) /\ Established(cli[m], files[m])
  BY <1>1, WiredBefore DEF Busy
<1>3. keys \in Seq(Keys) /\ Range(EnvKeys) \subseteq Range(keys)
      /\ \A k \in Keys \ Range(keys) : service.env[k] = None
  BY EnvKeysType, UpdatedKeys DEF Keys
<1>4. cli' = [cli EXCEPT ![m] = c]
  BY DEF ListEnvVars
<1> HIDE DEF keys
<1>5. c \in Command /\ c.step = "env" /\ c.target = cli[m].target /\ c.keys = keys /\ c.opts = cli[m].opts
  BY <1>1, <1>3 DEF Command, Busy
<1> HIDE DEF c
<1>6. NamedFor(c)
  BY <1>1, <1>2, <1>5 DEF NamedFor
<1>7. Established(c, files[m])
  BY <1>1, <1>2, <1>3, <1>5 DEF Established, Made, Provisioned, Allowed, PastFile, PastPuts
<1> QED BY <1>1, <1>4, <1>5, <1>6, <1>7, WiredCall DEF Moves

LEMMA PutWired ==
  ASSUME RInv, NEW m \in Machines, PutEnvVar(m)
  PROVE  WiredInv' /\ Holds(cli[m], files[m])'
<1>0. PICK d \in Ids : d = cli[m].target /\ d # None
  BY RenderDbAssumption
     DEF PutEnvVar, RInv, SafeInv, TypeOK, Command, CommandInv, CommandOK, Busy
<1> DEFINE key == Head(cli[m].keys)
           keys == Tail(cli[m].keys)
           step == IF Len(cli[m].keys) = 1 THEN "deploy" ELSE "env"
           moved == [cli[m] EXCEPT !.keys = keys, !.step = step]
<1>1. /\ UNCHANGED <<db, files>> /\ AssignsOnce(files'[m]) /\ cli[m].step = "env"
      /\ cli[m].cmd = "rotate" /\ cli[m] \in Command
      /\ service' = [service EXCEPT !.env[key] = d] /\ cli' = [cli EXCEPT ![m] = moved]
  BY <1>0 DEF PutEnvVar, RInv, WiredInv, FilesInv, SafeInv, TypeOK, CommandInv, CommandOK, Busy
<1>2. /\ Rotating(m) /\ NamedFor(cli[m]) /\ Established(cli[m], files[m]) /\ NamedInv
      /\ service \in [env : Env, building : Env, running : Env] /\ CommandOK(cli[m])
  BY <1>1, WiredBefore DEF Busy
<1>3. cli[m].keys \in Seq(Keys) /\ cli[m].keys # <<>>
  BY <1>1, <1>2 DEF CommandOK, Command, Busy
<1>4. /\ key \in Keys /\ keys \in Seq(Keys)
      /\ Range(cli[m].keys) \subseteq Range(keys) \cup {key}
      /\ step = "deploy" => Range(keys) = {}
  <2>1. PICK s \in Seq(Keys) : s = cli[m].keys /\ s # <<>>
    BY <1>3
  <2>2. /\ Head(s) \in Keys /\ Tail(s) \in Seq(Keys) /\ Len(Tail(s)) = Len(s) - 1
        /\ Len(s) \in Nat /\ Head(s) = s[1] /\ DOMAIN s = 1..Len(s)
        /\ \A i \in 1..Len(Tail(s)) : Tail(s)[i] = s[i + 1]
    BY <2>1, HeadTailProperties
  <2>3. DOMAIN Tail(s) = 1..Len(Tail(s))
    BY <2>2
  <2>4. ASSUME NEW i \in DOMAIN s PROVE s[i] \in Range(Tail(s)) \cup {Head(s)}
    <3>1. CASE i = 1
      BY <2>2, <3>1
    <3>2. CASE i # 1
      <4>1. i - 1 \in DOMAIN Tail(s) /\ Tail(s)[i - 1] = s[i]
        BY <2>2, <2>3, <3>2
      <4> QED BY <4>1 DEF Range
    <3> QED BY <3>1, <3>2
  <2>5. Len(s) = 1 => Range(Tail(s)) = {}
    <3>1. Len(s) = 1 => Len(Tail(s)) = 0
      BY <2>2
    <3>2. 1..0 = {}
      OBVIOUS
    <3>3. Len(s) = 1 => DOMAIN Tail(s) = {}
      BY <2>3, <3>1, <3>2
    <3> QED BY <3>3 DEF Range
  <2>6. Range(s) \subseteq Range(Tail(s)) \cup {Head(s)}
    BY <2>4 DEF Range
  <2> QED BY <2>1, <2>2, <2>5, <2>6
<1>5. step \in {"env", "deploy"}
  OBVIOUS
<1> HIDE DEF key, keys, step
<1>6. PICK c : /\ c \in Command /\ c = moved /\ c.step = step /\ c.target = d
               /\ c.keys = keys /\ c.opts = cli[m].opts /\ c.step \in {"env", "deploy"}
               /\ c.step = "deploy" => Range(c.keys) = {}
  <2>1. /\ moved \in Command /\ moved.step = step /\ moved.target = d
        /\ moved.keys = keys /\ moved.opts = cli[m].opts
    BY <1>0, <1>1, <1>4, <1>5 DEF Command, Busy
  <2> HIDE DEF moved
  <2> QED BY <1>4, <1>5, <2>1
<1>7. /\ service'.env[key] = d /\ \A k \in Keys \ {key} : service'.env[k] = service.env[k]
      /\ service'.building = service.building /\ service'.running = service.running
  BY <1>1, <1>2, <1>4 DEF Env
<1>8. Named' \subseteq Named \cup {d} /\ Named \subseteq Ids
  BY <1>4, <1>7 DEF Named
<1>9. db[d].name = "dev" /\ db[d].status # "none" /\ \A e \in Named : Live(e) => e = d
  BY <1>0, <1>1, <1>2 DEF NamedFor
<1>10. NamedInv'
  BY <1>1, <1>2, <1>8, <1>9 DEF NamedInv
<1>11. NamedFor(c)'
  BY <1>1, <1>6, <1>8, <1>9 DEF NamedFor, Live
<1>12. \A k \in Keys \ Range(c.keys) : service'.env[k] \in {d, None}
  BY <1>0, <1>1, <1>2, <1>4, <1>6, <1>7 DEF Established
<1>13. /\ db[d].status = "available" /\ db[d].allow /\ ~c.opts.noService
       /\ ~c.opts.noEnvFile => \A k \in Range(EnvKeys) : Assigned(files[m], k, d)
  BY <1>0, <1>1, <1>2, <1>6 DEF Established, Made, Provisioned, Allowed, PastFile
<1>14. Established(c, files[m])'
  BY <1>1, <1>6, <1>12, <1>13
     DEF Established, Made, Provisioned, Allowed, PastFile, PastPuts
<1>15. Moves(m, c)
  BY <1>1, <1>6 DEF Moves
<1>16. Holds(c, files[m])' /\ \A n \in Machines \ {m} : files'[n] = files[n]
  BY <1>1, <1>11, <1>14 DEF Holds
<1> QED BY <1>1, <1>2, <1>10, <1>15, <1>16, WiredMove

LEMMA DeployWired ==
  ASSUME RInv, NEW m \in Machines, CreateDeploy(m)
  PROVE  WiredInv' /\ Holds(cli[m], files[m])'
<1> DEFINE step == AfterDeploy(cli[m])
<1>1. /\ UNCHANGED <<db, files>> /\ AssignsOnce(files'[m]) /\ cli[m].step = "deploy"
      /\ cli[m].cmd = "rotate" /\ Goto(m, step) /\ service' = [service EXCEPT !.building = service.env]
  BY DEF CreateDeploy, RInv, WiredInv, FilesInv, SafeInv, CommandInv, CommandOK, Busy
<1>2. /\ Rotating(m) /\ NamedFor(cli[m]) /\ Established(cli[m], files[m])
      /\ service \in [env : Env, building : Env, running : Env]
  BY <1>1, WiredBefore DEF Busy
<1>3. /\ step \in {"probe", "health", "ok"} /\ (step # "probe" => cli[m].opts.noSeed)
      /\ step = "ok" => cli[m].opts.noService \/ cli[m].opts.noHealthCheck
  BY <1>1, AfterSteps, SkipsLead
<1> HIDE DEF step
<1>4. /\ service'.building = service.env /\ service'.env = service.env
      /\ service'.running = service.running
  BY <1>1, <1>2
<1>5. Named' \subseteq Named /\ Named \subseteq Ids
  BY <1>4 DEF Named
<1>6. NamedInv'
  BY <1>1, <1>5, SameWorld
<1>7. PICK c : Moves(m, c) /\ SameRun(c, cli[m]) /\ c.step = step /\ c.target = cli[m].target
  BY <1>1, <1>3, GotoMoves DEF RInv, SafeInv, AllSteps, Busy
<1>8. NamedFor(c)'
  BY <1>1, <1>2, <1>3, <1>5, <1>7 DEF NamedFor, Live
<1>9. Established(c, files[m])'
  BY <1>1, <1>2, <1>3, <1>4, <1>7
     DEF Established, Made, Provisioned, Allowed, PastFile, PastPuts, SameRun
<1> QED BY <1>1, <1>2, <1>6, <1>7, <1>8, <1>9, WiredMove DEF Holds

LEMMA CallWired ==
  ASSUME RInv, NEW m \in Machines, Call(m) \/ Die(m)
  PROVE  WiredInv' /\ Holds(cli[m], files[m])'
<1>1. CASE GiveUp(m) \/ Die(m)
  BY <1>1, FailWired DEF GiveUp, Die
<1> QED BY <1>1, ChooseWired, DeleteWired, CreateWired, WaitWired, InstanceWired, ConnectWired,
           WriteWired, ListWired, PutWired, DeployWired DEF Call

\* Render and the people at its dashboard: an instance that a rotation has made
\* is left to it, and no other comes back to life.
LEMMA WorldWired ==
  ASSUME RInv,
         \/ FinishDeploy
         \/ \E d \in Ids : \/ FinishDelete(d) \/ Expire(d) \/ Upgrade(d)
                           \/ \E status \in {"available", "unknown"} : Provision(d, status)
  PROVE  WiredInv'
<1>1. /\ UNCHANGED <<cli, files>> /\ NamedInv /\ FilesInv /\ FilesInv'
      /\ db \in [Ids -> Instance] /\ service \in [env : Env, building : Env, running : Env]
  BY DEF FinishDeploy, FinishDelete, Expire, Upgrade, Provision, RInv, WiredInv, FilesInv,
         SafeInv, TypeOK
<1>2. ASSUME NEW m \in Machines, Rotating(m)
      PROVE  /\ NamedFor(cli[m]) /\ Established(cli[m], files[m]) /\ cli[m].step # "ok"
             /\ cli[m].target \in Ids \cup {None}
             /\ cli[m].step \in Made => cli[m].target \in Ids
  BY <1>2 DEF RInv, WiredInv, SafeInv, TypeOK, Command, CommandInv, CommandOK, Rotating, Busy, Made
<1>3. CASE FinishDeploy
  <2>1. /\ UNCHANGED db /\ service'.env = service.env /\ service'.building = service.building
        /\ service'.running = service.building
    BY <1>1, <1>3 DEF FinishDeploy
  <2>2. Named' \subseteq Named
    BY <2>1 DEF Named
  <2>3. NamedInv'
    BY <2>1, <2>2, SameWorld
  <2>4. ASSUME NEW m \in Machines, Rotating(m)
        PROVE  NamedFor(cli[m])' /\ Established(cli[m], files[m])'
    BY <1>1, <1>2, <2>1, <2>2, <2>4 DEF NamedFor, Established, Live
  <2> QED BY <1>1, <2>3, <2>4 DEF WiredInv, Rotating
<1>4. ASSUME NEW d \in Ids, NEW i, i \in Instance, db' = [db EXCEPT ![d] = i], UNCHANGED service,
             i.name = db[d].name, i.allow = db[d].allow, i.seeded = db[d].seeded,
             \/ db[d].status = "deleting" /\ i.status = "gone"
             \/ db[d].status = "available" /\ i.status = "gone" /\ ~Watched(d)
             \/ db[d].status = "available" /\ i.status = "available"
             \/ db[d].status = "creating" /\ i.status \in {"available", "unknown"}
      PROVE  WiredInv'
  <2>1. db'[d] = i /\ \A e \in Ids \ {d} : db'[e] = db[e]
    BY <1>1, <1>4
  <2>2. Named' = Named /\ Named \subseteq Ids
    BY <1>4 DEF Named
  <2>3. /\ \A e \in Ids : db'[e].name = db[e].name
        /\ \A e \in Ids : db[e].status # "none" => db'[e].status # "none"
        /\ \A e \in Ids : Live(e)' => Live(e)
    BY <1>4, <2>1 DEF Live
  <2>4. NamedInv'
    BY <1>1, <2>2, <2>3 DEF NamedInv
  <2>5. ASSUME NEW m \in Machines, Rotating(m)
        PROVE  NamedFor(cli[m])' /\ Established(cli[m], files[m])'
    <3>1. NamedFor(cli[m])'
      BY <1>1, <1>2, <2>2, <2>3, <2>5 DEF NamedFor
    <3> DEFINE t == cli[m].target
               step == cli[m].step
    <3>2. /\ Provisioned \subseteq Made /\ Allowed \subseteq Provisioned
          /\ "health" \in Made /\ "ok" \in Made
      BY DEF Made, Provisioned, Allowed
    <3>3. /\ step \in Made => t \in Ids /\ db[t].status \in {"creating", "available", "unknown"}
          /\ step \in Provisioned => db[t].status = "available"
          /\ step \in Allowed => db[t].allow
          /\ step \in {"health", "ok"} /\ ~cli[m].opts.noSeed => db[t].seeded
      BY <1>2, <2>5 DEF Established
    <3>4. step \in Made => db'[t].allow = db[t].allow /\ db'[t].seeded = db[t].seeded
      BY <1>4, <2>1, <3>3
    <3>5. step \in Made => /\ db'[t].status \in {"creating", "available", "unknown"}
                           /\ db[t].status = "available" => db'[t].status = "available"
      <4>1. t = d => ~(db[d].status = "available" /\ i.status = "gone" /\ ~Watched(d))
        BY <2>5 DEF Watched
      <4> QED BY <1>4, <2>1, <3>3, <4>1
    <3>6. Established(cli[m], files[m])'
      <4>1. /\ step \in Made => db'[t].status \in {"creating", "available", "unknown"}
            /\ step \in Provisioned => db'[t].status = "available"
            /\ step \in Allowed => db'[t].allow
            /\ step \in {"health", "ok"} /\ ~cli[m].opts.noSeed => db'[t].seeded
        BY <3>2, <3>3, <3>4, <3>5
      <4> QED BY <1>1, <1>2, <1>4, <2>5, <4>1 DEF Established
    <3> QED BY <3>1, <3>6
  <2> QED BY <1>1, <2>4, <2>5 DEF WiredInv, Rotating
<1>5. ASSUME NEW d \in Ids, \/ FinishDelete(d) \/ Expire(d) \/ Upgrade(d)
                            \/ \E status \in {"available", "unknown"} : Provision(d, status)
      PROVE  WiredInv'
  <2>1. db[d] \in Instance /\ UNCHANGED service
    BY <1>1, <1>5 DEF FinishDelete, Expire, Upgrade, Provision
  <2>2. CASE Upgrade(d)
    <3> DEFINE i == [db[d] EXCEPT !.plan = "starter"]
    <3>1. /\ i \in Instance /\ i.name = db[d].name /\ i.status = db[d].status
          /\ i.allow = db[d].allow /\ i.seeded = db[d].seeded
      BY <2>1 DEF Instance
    <3>2. db' = [db EXCEPT ![d] = i] /\ db[d].status = "available"
      BY <2>2 DEF Upgrade
    <3> HIDE DEF i
    <3> QED BY <1>4, <2>1, <3>1, <3>2
  <2>3. ASSUME NEW status \in {"available", "unknown", "gone"},
               db' = [db EXCEPT ![d].status = status],
               \/ db[d].status = "deleting" /\ status = "gone"
               \/ db[d].status = "available" /\ status = "gone" /\ ~Watched(d)
               \/ db[d].status = "creating" /\ status \in {"available", "unknown"}
        PROVE  WiredInv'
    <3> DEFINE i == [db[d] EXCEPT !.status = status]
    <3>1. /\ i \in Instance /\ i.name = db[d].name /\ i.status = status
          /\ i.allow = db[d].allow /\ i.seeded = db[d].seeded
      BY <2>1 DEF Instance
    <3>2. db' = [db EXCEPT ![d] = i]
      BY <2>3
    <3> HIDE DEF i
    <3> QED BY <1>4, <2>1, <2>3, <3>1, <3>2
  <2> QED BY <1>5, <2>2, <2>3 DEF FinishDelete, Expire, Provision
<1> QED BY <1>3, <1>5

LEMMA InitWired ==
  ASSUME Init
  PROVE  WiredInv
<1> DEFINE old == CHOOSE d \in Ids : TRUE
           other == CHOOSE e \in Ids \ {old} : TRUE
<1>1. old \in Ids
  BY RenderDbAssumption
<1>2. db[old].name = "dev" /\ db[old].status # "none"
  <2>1. PICK world \in {"fresh", "reclaimed", "ambiguous", "paid"} :
          db = [d \in Ids |->
                  IF d = old
                  THEN [Existing EXCEPT
                          !.status = IF world = "reclaimed" THEN "gone" ELSE "available",
                          !.plan = IF world = "paid" THEN "starter" ELSE "free"]
                  ELSE IF d = other
                  THEN [Existing EXCEPT !.plan = "starter",
                          !.name = IF world = "ambiguous" THEN "dev" ELSE "other"]
                  ELSE NoInstance]
    BY DEF Init
  <2> HIDE DEF old, other
  <2> QED BY <1>1, <2>1 DEF Existing
<1>3. Named \subseteq {old}
  <2>1. PICK world \in {"fresh", "reclaimed", "ambiguous", "paid"} :
          LET env == [k \in Keys |-> IF k = Url /\ world # "fresh" THEN None ELSE old]
          IN service = [env |-> env, building |-> env, running |-> env]
    BY DEF Init
  <2> HIDE DEF old
  <2> QED BY <2>1, RenderDbAssumption DEF Named
<1>4. FilesInv
  BY RenderDbAssumption DEF Init, FilesInv
<1>5. \A m \in Machines : ~Rotating(m)
  BY DEF Init, Rotating
<1> QED BY <1>2, <1>3, <1>4, <1>5 DEF WiredInv, NamedInv

LEMMA RNext ==
  ASSUME RInv, [Next]_vars
  PROVE  RInv'
<1>1. SafeInv'
  BY NextSafe DEF RInv
<1>2. CASE UNCHANGED vars
  <2>1. UNCHANGED <<db, service, files, cli>>
    BY <1>2 DEF vars
  <2> QED BY <1>1, <2>1 DEF RInv, WiredInv, NamedInv, NamedFor, Named, FilesInv, Rotating,
                            Established, Live
<1>3. CASE Next
  BY <1>1, <1>3, ChooseWired, CallWired, WorldWired DEF Next, RInv
<1> QED BY <1>2, <1>3

THEOREM WiringInvariant == Spec => []RInv
<1>1. Init => RInv
  BY InitSafe, InitWired DEF RInv
<1> QED BY <1>1, RNext, PTL DEF Spec

LEMMA OthersStay ==
  ASSUME TypeOK, NEW m \in Machines,
         \/ \E cmd \in {"rotate", "pull-env"}, opts \in CommandLines : Start(m, cmd, opts)
         \/ \E answer \in BOOLEAN : Confirm(m, answer)
         \/ Call(m) \/ Die(m)
  PROVE  /\ \A n \in Machines \ {m} : cli'[n] = cli[n]
         /\ cli'[m].step # "find" => cli'[m].cmd = cli[m].cmd
<1>1. \E c : cli' = [cli EXCEPT ![m] = c] /\ (c.step = "find" \/ c.cmd = cli[m].cmd)
  <2>1. cli[m] \in Command
    BY DEF TypeOK
  <2>2. \A step : Goto(m, step) => \E c : cli' = [cli EXCEPT ![m] = c] /\ c.cmd = cli[m].cmd
    <3> TAKE step
    <3> DEFINE c == [cli[m] EXCEPT !.step = step, !.tries = 0]
    <3>1. c.cmd = cli[m].cmd
      BY <2>1 DEF Command
    <3>2. Goto(m, step) => cli' = [cli EXCEPT ![m] = c]
      BY DEF Goto
    <3> HIDE DEF c
    <3> QED BY <3>1, <3>2
  <2>3. \A step, d : Target(m, step, d) =>
                       \E c : cli' = [cli EXCEPT ![m] = c] /\ c.cmd = cli[m].cmd
    <3> TAKE step, d
    <3> DEFINE c == [cli[m] EXCEPT !.step = step, !.target = d, !.tries = 0]
    <3>1. c.cmd = cli[m].cmd
      BY <2>1 DEF Command
    <3>2. Target(m, step, d) => cli' = [cli EXCEPT ![m] = c]
      BY DEF Target
    <3> HIDE DEF c
    <3> QED BY <3>1, <3>2
  <2>4. Lost(m) => \E c : cli' = [cli EXCEPT ![m] = c] /\ c.cmd = cli[m].cmd
    <3> DEFINE c == [cli[m] EXCEPT !.tries = @ + 1,
                       !.step = IF cli[m].tries + 1 = MAX_ATTEMPTS THEN "failed" ELSE @]
    <3>1. c.cmd = cli[m].cmd
      BY <2>1 DEF Command
    <3>2. Lost(m) => cli' = [cli EXCEPT ![m] = c]
      BY DEF Lost
    <3> HIDE DEF c
    <3> QED BY <3>1, <3>2
  <2>5. CASE \E cmd \in {"rotate", "pull-env"}, opts \in CommandLines : Start(m, cmd, opts)
    BY <2>5 DEF Start
  <2>6. CASE ListEnvVars(m) \/ PutEnvVar(m)
    BY <2>1, <2>6 DEF ListEnvVars, PutEnvVar, Command
  <2>7. CASE Delete(m) \/ Create(m)
    BY <2>2, <2>3, <2>4, <2>7 DEF Delete, Create, Answered
  <2>8. CASE FindForRotate(m) \/ FindForPull(m)
    BY <2>2, <2>3, <2>8 DEF FindForRotate, FindForPull
  <2>9. CASE \/ \E answer \in BOOLEAN : Confirm(m, answer)
             \/ WaitForDeletion(m) \/ WaitForStatus(m) \/ ApplyAllowList(m)
             \/ GetConnectionInfo(m) \/ WriteEnvFile(m) \/ CreateDeploy(m)
             \/ WaitForConnectivity(m) \/ Seed(m) \/ PollHealth(m) \/ GiveUp(m) \/ Die(m)
    BY <2>2, <2>9 DEF Confirm, WaitForDeletion, WaitForStatus, ApplyAllowList, GetConnectionInfo,
       WriteEnvFile, CreateDeploy, WaitForConnectivity, Seed, PollHealth, GiveUp, Die
  <2> QED BY <2>5, <2>6, <2>7, <2>8, <2>9 DEF Call
<1> QED BY <1>1 DEF TypeOK

\* The machine whose command reports success is the one that took the step.
LEMMA SuccessStep ==
  ASSUME RInv, RInv', [Next]_vars, NEW n \in Machines,
         cli[n].cmd = "rotate", cli[n].step # "ok", cli'[n].step = "ok"
  PROVE  Wired(n, cli[n])'
<1>1. PICK m \in Machines :
        \/ \E cmd \in {"rotate", "pull-env"}, opts \in CommandLines : Start(m, cmd, opts)
        \/ \E answer \in BOOLEAN : Confirm(m, answer)
        \/ Call(m) \/ Die(m)
  BY DEF Next, vars, FinishDelete, Expire, Upgrade, Provision, FinishDeploy
<1>2. m = n /\ cli'[n].cmd = "rotate"
  BY <1>1, OthersStay DEF RInv, SafeInv, TypeOK
<1>3. Holds(cli[n], files[n])'
  BY <1>1, <1>2, ChooseWired, CallWired
<1>4. Established(cli[n], files[n])'
  BY <1>2, <1>3 DEF Holds
<1> QED BY <1>2, <1>4, EstablishedWires

\* A rotation that reports success left everything it was asked to set up on the
\* one new instance, whichever deploy of whichever earlier, broken rotation was
\* still under way.
THEOREM SuccessWired == Spec => SuccessMeansWired
<1>1. ASSUME RInv, RInv', [Next]_vars
      PROVE  [\A m \in Machines :
                cli[m].cmd = "rotate" /\ cli[m].step # "ok" /\ cli[m].step' = "ok" =>
                  Wired(m, cli[m])']_vars
  BY <1>1, SuccessStep
<1> QED BY <1>1, WiringInvariant, PTL DEF Spec, SuccessMeansWired
===============================================================================

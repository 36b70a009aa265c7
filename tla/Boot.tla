-------------------------------- MODULE Boot --------------------------------
(***************************************************************************)
(* How processes of the program come up (cmd/arbcn run and startPipeline): *)
(* the pool, the ping, the versioned migrations under an advisory lock,    *)
(* the source list, the seeding of the simulated account with its retries, *)
(* the HTTP server, the rules, and what /healthz answers on the way.       *)
(* Several processes may share one database; systemd starts one that       *)
(* failed again.                                                           *)
(*                                                                         *)
(* Abstractions: a migration file is its rank in the directory; a statement*)
(* succeeds if the database is up and its table is there; the steps of the *)
(* pipeline whose failure is only logged (knowledge, backfill, exporter,   *)
(* feeds, alerter) change no state kept here.                              *)
(***************************************************************************)
EXTENDS Naturals, Sequences, FiniteSets

CONSTANTS
  Processes,
  NumFiles,     \* migration files
  RulesFile,    \* the file that creates the table of the rules
  AccountFile,  \* the file that creates the table of the account
  MaxTries,     \* attempts to seed the account
  MaxOutages    \* bound: failures of the database and crashes of processes

Files == 1..NumFiles
Nobody == "nobody"

ASSUME BootAssumption ==
  /\ NumFiles \in Nat /\ MaxOutages \in Nat /\ MaxTries \in Nat \ {0}
  /\ RulesFile \in Files /\ AccountFile \in Files
  /\ Nobody \notin Processes

VARIABLES
  dsn,      \* the DSN is valid
  simOK,    \* the configuration of the simulation is valid
  pg,       \* the database answers
  applied,  \* schema_migrations, in the order of the commits
  lock,     \* holder of the advisory lock
  at,       \* where each process is
  todo,     \* the files it has still to apply
  tries,    \* attempts to seed the account
  err,      \* the variable err of run
  bootErr,  \* Healthz.BootErr
  outages   \* failures and crashes so far

wvars == <<dsn, simOK, pg, applied, lock, at, todo, tries, err, bootErr, outages>>

Working == {"pool", "ping", "lock", "list", "apply", "sources", "wire", "seed", "rules", "engine"}

BootTypeOK ==
  /\ dsn \in BOOLEAN /\ simOK \in BOOLEAN /\ pg \in BOOLEAN
  /\ applied \in Seq(Files) /\ lock \in Processes \cup {Nobody}
  /\ at \in [Processes -> Working \cup {"off", "running", "idle", "clash", "failed"}]
  /\ todo \in [Processes -> SUBSET Files]
  /\ tries \in [Processes -> 0..MaxTries]
  /\ err \in [Processes -> {"nil", "dsn"}] /\ bootErr \in [Processes -> {"nil", "dsn"}]
  /\ outages \in Nat

UpTo(n) == [f \in 1..n |-> f]
Recorded == {applied[i] : i \in 1..Len(applied)}

\* The database may have been migrated by an earlier release.
BootInit ==
  /\ dsn \in BOOLEAN /\ simOK \in BOOLEAN /\ pg \in BOOLEAN
  /\ applied \in {UpTo(n) : n \in 0..NumFiles}
  /\ lock = Nobody /\ outages = 0
  /\ at = [p \in Processes |-> "off"] /\ todo = [p \in Processes |-> {}]
  /\ tries = [p \in Processes |-> 0]
  /\ err = [p \in Processes |-> "nil"] /\ bootErr = [p \in Processes |-> "nil"]

-----------------------------------------------------------------------------
Goes(p, from, to) == at[p] = from /\ at' = [at EXCEPT ![p] = to]
Fails(p, from) == Goes(p, from, "failed")
Freed(p) == IF lock = p THEN Nobody ELSE lock
Same == UNCHANGED <<dsn, simOK, pg>>

\* The process is started, by hand or by systemd after a failure.
Launch(p) ==
  /\ at[p] \in {"off", "failed"}
  /\ at' = [at EXCEPT ![p] = "pool"]
  /\ todo' = [todo EXCEPT ![p] = {}] /\ tries' = [tries EXCEPT ![p] = 0]
  /\ err' = [err EXCEPT ![p] = "nil"] /\ bootErr' = [bootErr EXCEPT ![p] = "nil"]
  /\ Same /\ UNCHANGED <<applied, lock, outages>>

\* pgxpool.New: a DSN that does not parse leaves an error and no pool.
Pool(p) ==
  /\ Goes(p, "pool", IF dsn THEN "ping" ELSE "sources")
  /\ err' = [err EXCEPT ![p] = IF dsn THEN "nil" ELSE "dsn"]
  /\ Same /\ UNCHANGED <<applied, lock, todo, tries, bootErr, outages>>

\* Ping: an unreachable database is no reason to stop, the migrations are skipped.
Ping(p) ==
  /\ Goes(p, "ping", IF pg THEN "lock" ELSE "sources")
  /\ Same /\ UNCHANGED <<applied, lock, todo, tries, err, bootErr, outages>>

\* Bug: the migrations of two processes overlap.
LockShared(p) ==
  /\ pg /\ lock' = p
  /\ Goes(p, "lock", "list")
  /\ Same /\ UNCHANGED <<applied, todo, tries, err, bootErr, outages>>

\* pg_advisory_lock on a connection of its own.
Lock(p) ==
  /\ pg /\ lock = Nobody /\ lock' = p
  /\ Goes(p, "lock", "list")
  /\ Same /\ UNCHANGED <<applied, todo, tries, err, bootErr, outages>>

\* listPending: the files of the directory that are not recorded.
ListPending(p) ==
  /\ pg /\ Goes(p, "list", "apply")
  /\ todo' = [todo EXCEPT ![p] = Files \ Recorded]
  /\ Same /\ UNCHANGED <<applied, lock, tries, err, bootErr, outages>>

\* They are applied in the order of their names.
Foremost(p) == CHOOSE f \in todo[p] : \A g \in todo[p] : f <= g

\* A file and its record, in one transaction; the primary key refuses a second record.
Apply(p) ==
  /\ pg /\ at[p] = "apply" /\ todo[p] # {}
  /\ IF Foremost(p) \in Recorded
       THEN Goes(p, "apply", "clash") /\ lock' = Freed(p) /\ UNCHANGED applied
       ELSE applied' = Append(applied, Foremost(p)) /\ UNCHANGED <<at, lock>>
  /\ todo' = [todo EXCEPT ![p] = @ \ {Foremost(p)}]
  /\ Same /\ UNCHANGED <<tries, err, bootErr, outages>>

\* Bug: the lock goes back to the pool with its connection.
UnlockForgotten(p) ==
  /\ todo[p] = {} /\ Goes(p, "apply", "sources")
  /\ Same /\ UNCHANGED <<applied, lock, todo, tries, err, bootErr, outages>>

\* Migrate returns: its deferred call unlocks.
Unlock(p) ==
  /\ todo[p] = {} /\ Goes(p, "apply", "sources") /\ lock' = Freed(p)
  /\ Same /\ UNCHANGED <<applied, todo, tries, err, bootErr, outages>>

\* LoadSources, which assigns err once more.
LoadSources(p) ==
  /\ Goes(p, "sources", "wire")
  /\ err' = [err EXCEPT ![p] = "nil"]
  /\ Same /\ UNCHANGED <<applied, lock, todo, tries, bootErr, outages>>

\* The handlers: an error left by now is the boot error.  Without a pool nothing else is started.
Wire(p) ==
  /\ Goes(p, "wire", IF ~dsn THEN "idle" ELSE IF simOK THEN "seed" ELSE "rules")
  /\ bootErr' = [bootErr EXCEPT ![p] = err[p]]
  /\ Same /\ UNCHANGED <<applied, lock, todo, tries, err, outages>>

\* A statement on the table that file f creates.
Reaches(f) == pg /\ f \in Recorded

\* Bug: the attempts are counted from zero, so that there is one too many.
SeedOnceMore(p) ==
  /\ at[p] = "seed"
  /\ IF Reaches(AccountFile)
       THEN Goes(p, "seed", "rules") /\ UNCHANGED tries
       ELSE /\ tries' = [tries EXCEPT ![p] = @ + 1]
            /\ at' = [at EXCEPT ![p] = IF tries[p] = MaxTries THEN "failed" ELSE "seed"]
  /\ Same /\ UNCHANGED <<applied, lock, todo, err, bootErr, outages>>

\* seedSimAccountRetry: one attempt, and the last one ends the process.
Seed(p) ==
  /\ at[p] = "seed"
  /\ IF Reaches(AccountFile)
       THEN Goes(p, "seed", "rules") /\ UNCHANGED tries
       ELSE /\ tries' = [tries EXCEPT ![p] = @ + 1]
            /\ at' = [at EXCEPT ![p] = IF tries'[p] = MaxTries THEN "failed" ELSE "seed"]
  /\ Same /\ UNCHANGED <<applied, lock, todo, err, bootErr, outages>>

\* The server listens; then rule.Seed, which must succeed.
SeedRules(p) ==
  /\ Goes(p, "rules", IF Reaches(RulesFile) THEN "engine" ELSE "failed")
  /\ Same /\ UNCHANGED <<applied, lock, todo, tries, err, bootErr, outages>>

\* rule.New loads the rules and must succeed; the rest of the pipeline starts.
NewEngine(p) ==
  /\ Goes(p, "engine", IF Reaches(RulesFile) THEN "running" ELSE "failed")
  /\ Same /\ UNCHANGED <<applied, lock, todo, tries, err, bootErr, outages>>

\* A process is killed.
Crash(p) ==
  /\ outages < MaxOutages /\ outages' = outages + 1
  /\ at[p] \in Working \cup {"running", "idle"} /\ Fails(p, at[p]) /\ lock' = Freed(p)
  /\ Same /\ UNCHANGED <<applied, todo, tries, err, bootErr>>

\* The database goes down, and with it the connections of the processes that migrate.
DatabaseFails ==
  /\ outages < MaxOutages /\ outages' = outages + 1
  /\ pg /\ pg' = FALSE /\ lock' = Nobody
  /\ at' = [p \in Processes |-> IF at[p] \in {"lock", "list", "apply"} THEN "failed" ELSE at[p]]
  /\ UNCHANGED <<dsn, simOK, applied, todo, tries, err, bootErr>>

DatabaseBack ==
  /\ ~pg /\ pg' = TRUE
  /\ UNCHANGED <<dsn, simOK, applied, lock, at, todo, tries, err, bootErr, outages>>

\* The steps a process takes by itself.
Proceeds(p) ==
  \/ Pool(p) \/ Ping(p) \/ Lock(p) \/ ListPending(p) \/ Apply(p) \/ Unlock(p)
  \/ LoadSources(p) \/ Wire(p) \/ Seed(p) \/ SeedRules(p) \/ NewEngine(p)

BootNext ==
  \/ \E p \in Processes : Launch(p) \/ Proceeds(p) \/ Crash(p)
  \/ DatabaseFails \/ DatabaseBack

BootSpec == BootInit /\ [][BootNext]_wvars

\* Processes are scheduled, and systemd starts one that failed again.
BootProgress == \A p \in Processes : WF_wvars(Proceeds(p)) /\ WF_wvars(at[p] = "failed" /\ Launch(p))

-----------------------------------------------------------------------------
(* What /healthz answers, once the server listens (ServeHTTP). *)
Serving(p) == at[p] \in {"rules", "engine", "running", "idle"}

\* Without a pool the handler calls Ping on a nil *pgxpool.Pool inside a non-nil interface.
Health(p) ==
  IF bootErr[p] # "nil" THEN "boot_error"
  ELSE IF ~dsn THEN "panic"
  ELSE IF ~pg THEN "db_unreachable"
  ELSE IF Files \ Recorded # {} THEN "pending_migrations"
  ELSE "ok"

(* Properties. *)

(* Processes that start together on one database apply every migration once *)
(* and in the order of the files, whatever fails or is started again, and   *)
(* none runs into a record of another; only the holder of the lock has a    *)
(* list of files.                                                           *)
MigratedInOrder ==
  /\ applied = UpTo(Len(applied))
  /\ \A p \in Processes :
       /\ at[p] # "clash"
       /\ at[p] = "apply" => todo[p] = Files \ Recorded

(* A launched process comes up in the end once the database stays up, with  *)
(* every migration applied, even if it skipped them at first: the tables it *)
(* then misses end it, and the next start applies them.  With the account   *)
(* and the rules there it may come up with migrations missing, and says so. *)
BootsInTheEnd ==
  <>[]pg => \A p \in Processes :
    (at[p] \notin {"off", "idle"} /\ dsn) ~> (at[p] = "running" /\ Health(p) \in {"ok", "pending_migrations"})
=============================================================================

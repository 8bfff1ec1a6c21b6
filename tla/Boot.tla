------------------------------- MODULE Boot --------------------------------
(***************************************************************************)
(* cmd/migrate and store.Migrate (cmd/migrate/run.go, store/migrate.go):   *)
(* several instances boot at once, each counts the applied migrations,     *)
(* takes the advisory lock, lets goose apply what is pending, releases the *)
(* lock, closes its session and counts again.  Any statement may fail and  *)
(* any instance may die at any point; an orchestrator starts it again.     *)
(*                                                                         *)
(* A session holds the advisory lock until it unlocks or ends; the server  *)
(* notices a dead client some time after it died.  goose (a library)       *)
(* creates its version table, lists the applied versions and applies the   *)
(* others in order, each with its version row in one transaction.          *)
(***************************************************************************)
EXTENDS Naturals, Sequences, FiniteSets

CONSTANTS Instances,    \* processes of one deploy
          Total,        \* how many migrations are embedded
          Dsns,         \* the connection strings a deploy may carry
          MaxDeaths     \* bound: crashes and failed statements, together

NoDatabase == [table |-> FALSE, versions |-> <<>>]

VARIABLES db,        \* goose_db_version: does it exist, the versions in the order applied
          lock,      \* whose session holds the advisory lock
          lingers,   \* lingers[i]: the session a dead i left: "none", "waiting", "open"
          pc,        \* pc[i]: where instance i is
          dsn,       \* dsn[i]: what --db says
          before,    \* before[i]: what it counted first
          pending,   \* pending[i]: the migrations goose found unapplied
          failed,    \* failed[i]: migrate is returning an error
          exit,      \* exit[i]: what its last run exited with: "success" (0), "failure" (1)
          deaths     \* bound
local == <<pc, dsn, before, pending, failed, exit>>
vars == <<db, lock, lingers, local, deaths>>

Init == /\ db = NoDatabase
        /\ lock = "free" /\ lingers = [i \in Instances |-> "none"]
        /\ pc = [i \in Instances |-> "parse"]
        /\ dsn \in [Instances -> Dsns]
        /\ before = [i \in Instances |-> 0]
        /\ pending = [i \in Instances |-> <<>>]
        /\ failed = [i \in Instances |-> FALSE]
        /\ exit = [i \in Instances |-> "none"]
        /\ deaths = 0

Versions == [k \in 1 .. Total |-> k]

\* requireExplicitHost: a URL with a host of its own, and no service file.
RequireExplicitHost(d) == d.form = "url" /\ d.host /\ ~ d.service
Rejected(d) == d.form = "empty" \/ ~ RequireExplicitHost(d)

\* countAppliedMigrations: no table counts as none applied.
Count == IF db.table THEN Len(db.versions) ELSE 0

\* evaluateMigration: nothing before and nothing after is a broken build.
EvaluateMigration(b, a) == ~ (b = 0 /\ a = 0)

\* The embedded migrations that have no version row, in the order of their numbers.
Pending(versions) ==
  LET missing == {k \in 1 .. Total : \A j \in 1 .. Len(versions) : versions[j] # k}
  IN  [n \in 1 .. Cardinality(missing) |->
         CHOOSE k \in missing : Cardinality({m \in missing : m <= k}) = n]

Goto(i, l) == pc' = [pc EXCEPT ![i] = l]
Exit(i, code) == /\ Goto(i, "exited")
                 /\ exit' = [exit EXCEPT ![i] = code]
Fails == deaths < MaxDeaths /\ deaths' = deaths + 1

\* run: no --db is a failure; the first count dials whatever the DSN says.
Parse(i) ==
  /\ pc[i] = "parse"
  /\ IF dsn[i].form = "empty" THEN Exit(i, "failure") ELSE Goto(i, "before") /\ UNCHANGED exit
  /\ UNCHANGED <<db, lock, lingers, dsn, before, pending, failed, deaths>>

CountBefore(i) ==
  /\ pc[i] = "before"
  /\ \/ /\ before' = [before EXCEPT ![i] = Count]
        /\ Goto(i, "open")
        /\ UNCHANGED <<exit, deaths>>
     \/ Fails /\ Exit(i, "failure") /\ UNCHANGED before
  /\ UNCHANGED <<db, lock, lingers, dsn, pending, failed>>

\* openSingleConnection refuses a DSN without a host; it does not dial yet.
OpenSingleConnection(i) ==
  /\ pc[i] = "open"
  /\ IF Rejected(dsn[i]) THEN Exit(i, "failure") ELSE Goto(i, "lock") /\ UNCHANGED exit
  /\ UNCHANGED <<db, lock, lingers, dsn, before, pending, failed, deaths>>

\* Mutant: a lock that two instances may hold, as with an ID that changed
\* between deploys (migrate.go:23).
AcquireOwnLock(i) ==
  /\ pc[i] = "lock"
  /\ lock' = i /\ Goto(i, "list")
  /\ UNCHANGED <<db, lingers, dsn, before, pending, failed, exit, deaths>>

\* SELECT pg_advisory_lock waits for it; a failure leaves nothing to release.
AcquireLock(i) ==
  /\ pc[i] = "lock"
  /\ \/ /\ lock = "free"
        /\ lock' = i
        /\ Goto(i, "list")
        /\ UNCHANGED <<failed, deaths>>
     \/ /\ Fails
        /\ failed' = [failed EXCEPT ![i] = TRUE]
        /\ Goto(i, "close")
        /\ UNCHANGED lock
  /\ UNCHANGED <<db, lingers, dsn, before, pending, exit>>

\* From here on the deferred releaseMigrationLock runs on every return.
MigrationError(i) == /\ Fails
                     /\ failed' = [failed EXCEPT ![i] = TRUE]
                     /\ Goto(i, "unlock")

\* goose makes its table and lists what is applied.
ListApplied(i) ==
  /\ pc[i] = "list"
  /\ \/ /\ db' = [db EXCEPT !.table = TRUE]
        /\ pending' = [pending EXCEPT ![i] = Pending(db.versions)]
        /\ Goto(i, "apply")
        /\ UNCHANGED <<failed, deaths>>
     \/ MigrationError(i) /\ UNCHANGED <<db, pending>>
  /\ UNCHANGED <<lock, lingers, dsn, before, exit>>

\* One migration and its version row commit together, or neither does; the
\* answer of a commit may be lost.
Applied(i) == [db EXCEPT !.versions = Append(@, Head(pending[i]))]
ApplyOne(i) ==
  /\ pc[i] = "apply"
  /\ IF pending[i] = <<>>
       THEN Goto(i, "unlock") /\ UNCHANGED <<db, pending, failed, deaths>>
       ELSE \/ /\ db' = Applied(i)
               /\ pending' = [pending EXCEPT ![i] = Tail(@)]
               /\ UNCHANGED <<pc, failed, deaths>>
            \/ MigrationError(i) /\ db' \in {db, Applied(i)} /\ UNCHANGED pending
  /\ UNCHANGED <<lock, lingers, dsn, before, exit>>

Unlocked(i) == IF lock = i THEN "free" ELSE lock

\* releaseMigrationLock: on a context of its own; a failed unlock is only logged.
ReleaseMigrationLock(i) ==
  /\ pc[i] = "unlock"
  /\ \/ lock' = Unlocked(i) /\ UNCHANGED deaths
     \/ Fails /\ UNCHANGED lock
  /\ Goto(i, "close")
  /\ UNCHANGED <<db, lingers, dsn, before, pending, failed, exit>>

\* Mutant: the error of Up is lost on the way out.
CloseSwallowsError(i) ==
  /\ pc[i] = "close"
  /\ lock' = Unlocked(i)
  /\ pending' = [pending EXCEPT ![i] = <<>>]
  /\ Goto(i, "after")
  /\ UNCHANGED <<db, lingers, dsn, before, failed, exit, deaths>>

\* Migrate's deferred Close ends the session, and with it the lock.
CloseConnection(i) ==
  /\ pc[i] = "close"
  /\ lock' = Unlocked(i)
  /\ pending' = [pending EXCEPT ![i] = <<>>]
  /\ IF failed[i] THEN Exit(i, "failure") ELSE Goto(i, "after") /\ UNCHANGED exit
  /\ UNCHANGED <<db, lingers, dsn, before, failed, deaths>>

CountAfter(i) ==
  /\ pc[i] = "after"
  /\ \/ Exit(i, IF EvaluateMigration(before[i], Count) THEN "success" ELSE "failure") /\ UNCHANGED deaths
     \/ Fails /\ Exit(i, "failure")
  /\ UNCHANGED <<db, lock, lingers, dsn, before, pending, failed>>

\* The process dies.  Its open migration is rolled back, or was already
\* committing; its session, if it has one, lingers.
Crash(i) ==
  /\ pc[i] # "exited"
  /\ Fails
  /\ Exit(i, "failure")
  /\ lingers' = [lingers EXCEPT ![i] = CASE pc[i] = "lock" -> "waiting"
                                         [] lock = i      -> "open"
                                         [] OTHER         -> "none"]
  /\ \/ UNCHANGED db
     \/ pc[i] = "apply" /\ pending[i] # <<>> /\ db' = Applied(i)
  /\ UNCHANGED <<lock, dsn, before, pending, failed>>

\* A session that waits for the lock is granted it though its client is dead.
GrantedToDead(i) ==
  /\ lingers[i] = "waiting" /\ lock = "free"
  /\ lock' = i
  /\ lingers' = [lingers EXCEPT ![i] = "open"]
  /\ UNCHANGED <<db, local, deaths>>

\* The server ends the session of a dead client.
SessionReaped(i) ==
  /\ lingers[i] # "none"
  /\ lingers' = [lingers EXCEPT ![i] = "none"]
  /\ lock' = Unlocked(i)
  /\ UNCHANGED <<db, local, deaths>>

\* The orchestrator starts a failed instance again (external).  That it waits
\* for the old session only saves a second name: another instance meets it.
Restart(i) ==
  /\ pc[i] = "exited" /\ exit[i] = "failure" /\ ~ Rejected(dsn[i]) /\ lingers[i] = "none"
  /\ Goto(i, "parse")
  /\ before' = [before EXCEPT ![i] = 0]
  /\ pending' = [pending EXCEPT ![i] = <<>>]
  /\ failed' = [failed EXCEPT ![i] = FALSE]
  /\ exit' = [exit EXCEPT ![i] = "none"]
  /\ UNCHANGED <<db, lock, lingers, dsn, deaths>>

Step(i) == \/ Parse(i) \/ CountBefore(i) \/ OpenSingleConnection(i) \/ AcquireLock(i)
           \/ ListApplied(i) \/ ApplyOne(i) \/ ReleaseMigrationLock(i)
           \/ CloseConnection(i) \/ CountAfter(i)

Next == \E i \in Instances : Step(i) \/ Crash(i) \/ GrantedToDead(i) \/ SessionReaped(i) \/ Restart(i)

\* Every statement ends one way or the other, the server notices every dead
\* client, and a lock that comes free is granted to each waiter in turn.
Fairness == \A i \in Instances : /\ WF_vars(Step(i)) /\ SF_vars(AcquireLock(i))
                                 /\ WF_vars(SessionReaped(i)) /\ WF_vars(Restart(i))

Spec == Init /\ [][Next]_vars /\ Fairness

-----------------------------------------------------------------------------
\* Whoever races whom, and whatever dies in between: every migration is applied
\* once and in order (Migrate's advisory lock, goose's version table).
AppliedInOrder == db.versions = SubSeq(Versions, 1, Len(db.versions))

\* Exit code 0 means that the whole schema is there (run).
SuccessIsComplete == \A i \in Instances : exit[i] = "success" => db.versions = Versions

\* No death, failed unlock or lingering session blocks the deploy for good:
\* every instance with a usable DSN ends in success, every other one in failure.
Ended(i) == pc[i] = "exited" /\ exit[i] = IF Rejected(dsn[i]) THEN "failure" ELSE "success"
EveryBootEnds == \A i \in Instances : <>[]Ended(i)
=============================================================================

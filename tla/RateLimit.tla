----------------------------- MODULE RateLimit -----------------------------
(***************************************************************************)
(* store.ConsumeRateLimit and store.CleanupRateLimits (ratelimit.go) and   *)
(* DeriveIPKey (ratelimit_ip.go): token buckets in one table, refilled and *)
(* spent by one upsert.  Calls run at once, on the pool or two to a        *)
(* transaction; a sweep deletes idle rows beside them.                     *)
(*                                                                         *)
(* PostgreSQL, as the statements use it: an upsert reads the clock of its  *)
(* VALUES before it waits for the row, takes the row's lock whether or not *)
(* its WHERE holds, and reads the clock of SET and WHERE when it has it;   *)
(* a lock is held to the end of the transaction.  DELETE's now() is the    *)
(* clock of its transaction's start, and it looks again at a row it had to *)
(* wait for.  The three readings of one SET and WHERE count as one.        *)
(***************************************************************************)
EXTENDS Integers, Sequences, FiniteSets

CONSTANTS Callers,      \* requests in flight at once
          Requests,     \* what one may carry: its scopes, addresses, customer, capacity
          TrustedHops,  \* how many proxies append to X-Forwarded-For
          Capacity, Rate, \* tokens a bucket holds; tokens it regains in a unit of time
          Retention,    \* RateLimitCleanupRetention
          MaxWait,      \* statement_timeout, or the context's deadline
          MaxTime       \* bound: the clock stops here

Cleaner == "cleanup"
NoRow == [tokens |-> -1, at |-> -1]

\* The refill must be complete when a row is forgotten (ratelimit.go:14), and
\* no statement may wait as long as the retention, or it would restore a row
\* dated from before the sweep.
ASSUME RateLimitAssumption ==
  /\ Capacity \in Nat \ {0} /\ Rate \in Nat \ {0}
  /\ Retention \in Nat /\ MaxWait \in Nat /\ MaxTime \in Nat
  /\ Retention * Rate >= Capacity /\ MaxWait < Retention

\* A call asks at least one scope and none twice; a caller has a name of its own.
ASSUME CallAssumption ==
  /\ \A r \in Requests : /\ Len(r.scopes) \in Nat \ {0}
                         /\ \A i, j \in 1 .. Len(r.scopes) :
                              r.scopes[i] = r.scopes[j] => i = j
  /\ "none" \notin Callers /\ Cleaner \notin Callers

NoRequest == [scopes |-> <<>>]
Bad == "not an address"

(* ------------------------ keys: ratelimit_ip.go ------------------------ *)

\* An address is blank, malformed, or a family with network and host.
\* normalizeIPKey: one IPv4 form; an IPv6 /64 is one key.
NormalizeIPKey(a) ==
  CASE a.family \in {"v4", "mapped"} -> <<"v4", a.net, a.host>>
    [] a.family = "v6"               -> <<"v6", a.net>>
    [] OTHER                         -> <<Bad>>

SplitForwardedFor(xff) == SelectSeq(xff, LAMBDA a : a.family # "blank")

DeriveIPKey(xff, remote) ==
  LET hops == SplitForwardedFor(xff)
  IN  NormalizeIPKey(IF Len(hops) >= TrustedHops
                       THEN hops[Len(hops) - TrustedHops + 1] ELSE remote)

\* The buckets a request asks, in the order of its scopes.
BucketsOf(r) ==
  [i \in 1 .. Len(r.scopes) |->
     <<r.scopes[i], IF r.scopes[i] = "auth_ip" THEN DeriveIPKey(r.xff, r.remote)
                                                ELSE <<r.email>> >>]

Keys == UNION {{BucketsOf(r)[i] : i \in 1 .. Len(r.scopes)} : r \in Requests}

\* Whose buckets they are meant to be: the customer behind the addresses, which
\* the code cannot see and DeriveIPKey has to recover.
AccountsOf(r) == [i \in 1 .. Len(r.scopes) |->
                    <<r.scopes[i], IF r.scopes[i] = "auth_ip" THEN r.customer ELSE r.email>>]
Accounts == UNION {{AccountsOf(r)[i] : i \in 1 .. Len(r.scopes)} : r \in Requests}

\* A request reaches the database with its capacity and every address good.
InvalidCapacity(r) == r.capacity < 1
Served(r) == ~InvalidCapacity(r) /\ \A i \in 1 .. Len(r.scopes) : BucketsOf(r)[i][2] # <<Bad>>

\* What the derived keys are for: of served requests, two ask the same bucket
\* when they are one customer's, and only then.
KeysFollowCustomers ==
  \A r, q \in {x \in Requests : Served(x)} :
    \A i \in 1 .. Len(r.scopes), j \in 1 .. Len(q.scopes) :
      BucketsOf(r)[i] = BucketsOf(q)[j] <=> AccountsOf(r)[i] = AccountsOf(q)[j]

(* ------------------------------- the state ------------------------------ *)

VARIABLES clock,    \* clock_timestamp()
          rows,     \* rows[k]: the committed row of bucket k, or NoRow
          holder,   \* holder[k]: whose transaction has the row's lock
          pc,       \* pc[c]: "idle", "ask", "wait", "end"
          req,      \* req[c]: the request being served
          began,    \* began[c]: when it arrived
          todo,     \* todo[c]: the buckets it still has to ask
          since,    \* since[c]: the clock its VALUES was evaluated at
          draft,    \* draft[c][k]: the row its transaction has written
          verdict,  \* verdict[c]: what its caller has been told
          sweep,    \* the sweep: its state, cutoff and what it may still delete
          paid      \* history: paid[a][t], what account a was charged, by date
calls == <<pc, req, began, todo, since, draft, verdict>>
vars == <<clock, rows, holder, calls, sweep, paid>>

Idle == [pc |-> "idle", cutoff |-> 0, left |-> {}, deleted |-> {}]

Init == /\ clock = 0
        /\ rows = [k \in Keys |-> NoRow]
        /\ holder = [k \in Keys |-> "none"]
        /\ pc = [c \in Callers |-> "idle"]
        /\ req = [c \in Callers |-> NoRequest]
        /\ began = [c \in Callers |-> 0]
        /\ todo = [c \in Callers |-> <<>>]
        /\ since = [c \in Callers |-> 0]
        /\ draft = [c \in Callers |-> [k \in Keys |-> NoRow]]
        /\ verdict = [c \in Callers |-> "error"]
        /\ sweep = Idle
        /\ paid = [a \in Accounts |-> [t \in 0 .. MaxTime |-> 0]]

Lesser(a, b) == IF a < b THEN a ELSE b

\* What the row holds when it is read now: the LEAST(...) of SET and WHERE.
Refilled(row, t) == Lesser(Capacity, row.tokens + (t - row.at) * Rate)

\* Mutant: an update dated by now(), the transaction's start (ratelimit.go:36).
WrittenBackdated(row, asked) == IF row = NoRow THEN [tokens |-> Capacity - 1, at |-> asked]
                                ELSE [tokens |-> Refilled(row, clock) - 1, at |-> asked]

\* The row a statement writes: the VALUES of a fresh key, dated when they were
\* evaluated, or the SET of an existing row, dated now.
Written(row, asked) == IF row = NoRow THEN [tokens |-> Capacity - 1, at |-> asked]
                                      ELSE [tokens |-> Refilled(row, clock) - 1, at |-> clock]

\* ON CONFLICT ... WHERE guards only the update.
Admits(row) == row = NoRow \/ Refilled(row, clock) >= 1

(* ------------------------------- the calls ------------------------------ *)

\* A request arrives; a bad capacity or address ends it before any query.
\* Otherwise its statement starts: VALUES is evaluated, the row not yet locked.
Begin(c, r) ==
  /\ pc[c] = "idle"
  /\ IF ~Served(r)
       THEN /\ verdict' = [verdict EXCEPT ![c] = "error"]
            /\ UNCHANGED <<pc, req, began, todo, since>>
       ELSE /\ verdict' = [verdict EXCEPT ![c] = "none"]
            /\ pc' = [pc EXCEPT ![c] = "wait"]
            /\ since' = [since EXCEPT ![c] = clock]
            /\ req' = [req EXCEPT ![c] = r]
            /\ began' = [began EXCEPT ![c] = clock]
            /\ todo' = [todo EXCEPT ![c] = BucketsOf(r)]
  /\ UNCHANGED <<clock, rows, holder, draft, sweep, paid>>

\* A transaction's next statement starts the same way.
Send(c) ==
  /\ pc[c] = "ask"
  /\ since' = [since EXCEPT ![c] = clock]
  /\ pc' = [pc EXCEPT ![c] = "wait"]
  /\ UNCHANGED <<clock, rows, holder, req, began, todo, draft, verdict, sweep, paid>>

\* It gets the row's lock and answers; zero rows means refused, the lock is
\* kept all the same.
Answer(c) ==
  LET k == Head(todo[c]) IN
  /\ pc[c] = "wait" /\ holder[k] = "none"
  /\ holder' = [holder EXCEPT ![k] = c]
  /\ IF Admits(rows[k])
       THEN /\ draft' = [draft EXCEPT ![c][k] = Written(rows[k], since[c])]
            /\ UNCHANGED verdict
       ELSE /\ verdict' = [verdict EXCEPT ![c] = "refused"]
            /\ UNCHANGED draft
  /\ todo' = [todo EXCEPT ![c] = Tail(@)]
  /\ pc' = [pc EXCEPT ![c] = IF Len(todo[c]) > 1 THEN "ask" ELSE "end"]
  /\ since' = [since EXCEPT ![c] = 0]
  /\ UNCHANGED <<clock, rows, req, began, sweep, paid>>

Released(who) == [k \in Keys |-> IF holder[k] = who THEN "none" ELSE holder[k]]
Spends(c) == {k \in Keys : draft[c][k] # NoRow}
Charged(c, a) == {k \in Spends(c) : \E i \in 1 .. Len(req[c].scopes) :
                                     BucketsOf(req[c])[i] = k /\ AccountsOf(req[c])[i] = a}
Finished(c) == /\ pc' = [pc EXCEPT ![c] = "idle"]
               /\ req' = [req EXCEPT ![c] = NoRequest]
               /\ began' = [began EXCEPT ![c] = 0]
               /\ since' = [since EXCEPT ![c] = 0]
               /\ todo' = [todo EXCEPT ![c] = <<>>]
               /\ draft' = [draft EXCEPT ![c] = [k \in Keys |-> NoRow]]
               /\ holder' = Released(c)

\* The transaction commits, or the pool's own statement does; the answer may
\* still be lost, and a caller that hears nothing treats it as refused.
Commit(c) ==
  /\ pc[c] = "end"
  /\ rows' = [k \in Keys |-> IF k \in Spends(c) THEN draft[c][k] ELSE rows[k]]
  /\ paid' = [a \in Accounts |-> [t \in 0 .. MaxTime |->
                paid[a][t] + Cardinality({k \in Charged(c, a) : draft[c][k].at = t})]]
  /\ IF verdict[c] = "refused"
       THEN UNCHANGED verdict
       ELSE \E v \in {"allowed", "error"} : verdict' = [verdict EXCEPT ![c] = v]
  /\ Finished(c)
  /\ UNCHANGED <<clock, sweep>>

\* A statement or the connection fails, times out, or the caller of a
\* transaction gives up: nothing of it remains.
Abort(c) ==
  /\ pc[c] \in {"wait", "end"}
  /\ verdict' = [verdict EXCEPT ![c] = IF @ = "refused" THEN @ ELSE "error"]
  /\ Finished(c)
  /\ UNCHANGED <<clock, rows, sweep, paid>>

(* ------------------------------- the sweep ------------------------------ *)

Stale(row, cutoff) == row # NoRow /\ row.at < cutoff

\* DELETE starts: now() and the rows it sees are fixed.
SweepStart ==
  /\ sweep.pc = "idle"
  /\ sweep' = [pc |-> "run", cutoff |-> clock - Retention, deleted |-> {},
               left |-> {k \in Keys : Stale(rows[k], clock - Retention)}]
  /\ UNCHANGED <<clock, rows, holder, calls, paid>>

\* It has waited for one row's lock, and looks again before it deletes.
SweepRow(k) ==
  /\ sweep.pc = "run" /\ k \in sweep.left /\ holder[k] = "none"
  /\ sweep' = [sweep EXCEPT !.left = @ \ {k},
                            !.deleted = IF Stale(rows[k], sweep.cutoff) THEN @ \cup {k} ELSE @]
  /\ holder' = IF Stale(rows[k], sweep.cutoff) THEN [holder EXCEPT ![k] = Cleaner] ELSE holder
  /\ UNCHANGED <<clock, rows, calls, paid>>

\* It commits what it deleted, or fails and deletes nothing.
SweepEnd ==
  /\ sweep.pc = "run" /\ sweep.left = {}
  /\ rows' = [k \in Keys |-> IF k \in sweep.deleted THEN NoRow ELSE rows[k]]
  /\ holder' = Released(Cleaner)
  /\ sweep' = Idle
  /\ UNCHANGED <<clock, calls, paid>>

SweepFail ==
  /\ sweep.pc = "run"
  /\ holder' = Released(Cleaner)
  /\ sweep' = Idle
  /\ UNCHANGED <<clock, rows, calls, paid>>

\* Time passes, but not past the patience of a statement: it has failed by then.
Patient(c) == pc[c] = "wait" => clock - since[c] < MaxWait
Tick == /\ clock < MaxTime /\ \A c \in Callers : Patient(c)
        /\ clock' = clock + 1
        /\ UNCHANGED <<rows, holder, calls, sweep, paid>>

Next == \/ Tick
        \/ \E c \in Callers : \/ \E r \in Requests : Begin(c, r)
                              \/ Send(c) \/ Answer(c) \/ Commit(c) \/ Abort(c)
        \/ SweepStart \/ SweepEnd \/ SweepFail
        \/ \E k \in Keys : SweepRow(k)

Spec == Init /\ [][Next]_vars

-----------------------------------------------------------------------------
(* What it promises: the abstract limiter, with accounts for buckets.       *)

Promise == INSTANCE Limiter
             WITH Buckets <- Accounts, now <- clock, start <- began,
                  want <- [c \in Callers |->
                             {AccountsOf(req[c])[i] : i \in 1 .. Len(req[c].scopes)}]

\* The table, its locks, its clocks, the sweep and the derived keys together
\* keep the limiter's promise: no customer is paid more than its capacity and
\* the refill, none is refused for nothing (ConsumeRateLimit, CleanupRateLimits,
\* DeriveIPKey).
KeepsItsPromise == Promise!Spec
=============================================================================
